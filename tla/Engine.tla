----------------------------------- MODULE Engine -----------------------------------
(***************************************************************************)
(* The arithmetic of bills (billing/engine): a pool of cents divided among *)
(* houses by largest remainder (share.ts), and the amount of one house     *)
(* (calc.ts) for an area price, a meter or a fixed fee.  A state is one    *)
(* call with its inputs, the step computes the result.                     *)
(*                                                                         *)
(* Prices, areas and usages are integers, hundredths of their units, which *)
(* is what toCents makes of them.  share.ts divides doubles: remainders    *)
(* that are equal may compare either way, so which of them gets the cent   *)
(* is left open; a quotient just below a whole number is cut one too low   *)
(* and then first in line for the missing cent.                            *)
(***************************************************************************)
EXTENDS Integers, FiniteSetsExt

CONSTANTS
  Homes,   \* houses that share a pool
  Areas,   \* their areas, 0 for none
  Pools,   \* pools in cents
  Prices,  \* unit prices
  Amounts, \* areas or usages the price is for
  Months   \* months of a bill

ASSUME EngineAssumption ==
  /\ IsFiniteSet(Homes) /\ Areas \subseteq Nat /\ Pools \subseteq Nat
  /\ Prices \subseteq Nat /\ Amounts \subseteq Nat /\ Months \subseteq Nat \ {0}

VARIABLES
  input,  \* the arguments of the call
  result  \* what it returns: the cents of each house, or of the one

engineVars == <<input, result>>

NoResult == [h \in {} |-> 0]
ShareInputs  == [call : {"share"}, total : Pools, area : [Homes -> Areas], byArea : BOOLEAN]
AmountInputs == [call : {"amount"}, price : Prices, amount : Amounts, months : Months, yuan : BOOLEAN]

EngineTypeOK ==
  /\ input \in ShareInputs \cup AmountInputs
  /\ DOMAIN result \subseteq Homes \cup {"cents"}
  /\ \A h \in DOMAIN result : result[h] \in Nat

EngineInit == input \in ShareInputs \cup AmountInputs /\ result = NoResult

-----------------------------------------------------------------------------
(* allocateShare *)

Eligible  == {h \in Homes : input.byArea => input.area[h] > 0}
Weight      == [h \in Eligible |-> IF input.byArea THEN input.area[h] ELSE 1]
TotalWeight == SumFunction(Weight)
\* exact is input.total * Weight[h] / TotalWeight
Floor     == [h \in Eligible |-> (input.total * Weight[h]) \div TotalWeight]
Remainder == [h \in Eligible |-> (input.total * Weight[h]) % TotalWeight]
\* Fault: what the cut leaves over goes to nobody.
MissingNone  == 0
Missing      == input.total - SumFunction(Floor)

\* Fault: the missing cents go to anybody.
LuckyAny == {S \in SUBSET Eligible : Cardinality(S) = Missing}
\* A cent each for the largest remainders; fewer are missing than there are houses.
Lucky == {S \in SUBSET Eligible : /\ Cardinality(S) = Missing
                                  /\ \A h \in S, g \in Eligible \ S : Remainder[h] >= Remainder[g]}

AllocateShare ==
  /\ input.call = "share" /\ result = NoResult /\ Eligible # {}
  /\ \E S \in Lucky : result' = [h \in Eligible |-> Floor[h] + (IF h \in S THEN 1 ELSE 0)]
  /\ UNCHANGED input

-----------------------------------------------------------------------------
(* calcOne *)

\* Math.round of n/d
Round(n, d) == (2 * n + d) \div (2 * d)

\* Fault: each month is rounded.
RawCentsMonthly == input.months * Round(input.price * input.amount, 100)
\* The whole period is computed before it is rounded to cents.
RawCents == Round(input.price * input.amount * input.months, 100)

\* applyRounding
CalcOne ==
  /\ input.call = "amount" /\ result = NoResult
  /\ result' = [c \in {"cents"} |-> IF input.yuan THEN 100 * Round(RawCents, 100) ELSE RawCents]
  /\ UNCHANGED input

EngineNext == AllocateShare \/ CalcOne

EngineSpec == EngineInit /\ [][EngineNext]_engineVars

-----------------------------------------------------------------------------
(* Properties *)

Distance(a, b) == IF a < b THEN b - a ELSE a - b

\* The parts add up to the pool to the cent, each is less than a cent off its exact part,
\* and who has more area does not pay less (allocateShare, whose comment promises the sum).
PoolIsDividedExactly ==
  input.call = "share" /\ result # NoResult /\ Eligible # {} =>
    /\ SumFunctionOnSet(result, Eligible) = input.total
    /\ \A h \in Eligible : Distance(result[h] * TotalWeight, input.total * Weight[h]) < TotalWeight
    /\ \A g, h \in Eligible : Weight[g] < Weight[h] => result[g] <= result[h]

\* Twelve months are not twelve rounded months: the amount is half a cent off the exact
\* one at most, and half a yuan more when it is rounded to yuan (the comments of calc.ts
\* on rounding).
AmountIsRoundedAtTheEnd ==
  input.call = "amount" /\ result # NoResult =>
    Distance(100 * result["cents"], input.price * input.amount * input.months) <= (IF input.yuan THEN 5050 ELSE 50)

AmountsAreExact == PoolIsDividedExactly /\ AmountIsRoundedAtTheEnd

=============================================================================
