----------------------------------- MODULE Meter -----------------------------------
(***************************************************************************)
(* Meter readings and what is billed by them (meter.controller.ts).  A     *)
(* reading keeps the value of the reading before it (prevValue), and a     *)
(* bill charges the difference.  createReading looks at the readings       *)
(* before and after its period and at the bill of the latter, writes, and  *)
(* brings the prevValue of the latter up to date, in five calls without a  *)
(* transaction.  Readings come late, out of order and again.  A run of     *)
(* bills reads the readings first and inserts its bills at the end         *)
(* (bill-run.service.ts), and a reading may be recorded in between.        *)
(*                                                                         *)
(* One meter of one house, the periods are 1..LastPeriod.  -1 is no value. *)
(***************************************************************************)
EXTENDS Integers, FiniteSets, FiniteSetsExt

CONSTANTS
  LastPeriod, \* a bound on the periods
  MaxValue,   \* a bound on what the meter shows
  RunsAtOnce, \* a bound on the usages of one period that runs hold at a time
  Readers     \* requests to record a reading

ASSUME MeterAssumption == LastPeriod \in Nat /\ MaxValue \in Nat

Periods  == 1..LastPeriod
Figures  == 0..MaxValue
Readings == -1..MaxValue

VARIABLES
  value,    \* MeterReading.value of each period
  prevValue,\* MeterReading.prevValue
  charged,  \* the usage on the bill of each period, -1 without one that stands
  billing,  \* the usages of each period that runs have computed and not yet inserted
  doubtful, \* history: a request died between its writes, or met another or a bill
  revised,  \* history: periods whose own reading was replaced after a run had read it
  outrun,   \* history: periods whose prevValue was replaced while a run held their usage
  reader    \* what each request is doing

meterVars == <<value, prevValue, charged, billing, doubtful, revised, outrun, reader>>

ReaderRecords == [step : {"idle", "next", "billed", "write", "follow"}, period : 0..LastPeriod, shown : Readings,
                  before : 0..LastPeriod, was : Readings, after : 0..LastPeriod]
Unread == [step |-> "idle", period |-> 0, shown |-> -1, before |-> 0, was |-> -1, after |-> 0]

MeterTypeOK ==
  /\ value \in [Periods -> Readings] /\ prevValue \in [Periods -> Readings]
  /\ charged \in [Periods -> Readings] /\ billing \in [Periods -> SUBSET Figures]
  /\ doubtful \in BOOLEAN /\ revised \in SUBSET Periods /\ outrun \in SUBSET Periods
  /\ reader \in [Readers -> ReaderRecords]

MeterInit ==
  /\ value = [p \in Periods |-> -1] /\ prevValue = [p \in Periods |-> -1]
  /\ charged = [p \in Periods |-> -1] /\ billing = [p \in Periods |-> {}]
  /\ doubtful = FALSE /\ revised = {} /\ outrun = {}
  /\ reader = [r \in Readers |-> Unread]

ReaderAt(r, step) == reader[r].step = step
ReaderEnds(r)     == reader' = [reader EXCEPT ![r] = Unread]
Recording         == {r \in Readers : ~ReaderAt(r, "idle")}

Recorded == {p \in Periods : value[p] # -1}
\* The readings next to period p, 0 without one.
Before(p) == Max({0} \cup {q \in Recorded : q < p})
After(p)  == IF \E q \in Recorded : q > p THEN Min({q \in Recorded : q > p}) ELSE 0

-----------------------------------------------------------------------------
(* createReading *)

\* The reading before; a value below it is refused.
BeginReading(r, p, v) ==
  LET b == Before(p) IN
  /\ ReaderAt(r, "idle")
  /\ b # 0 => v >= value[b]
  /\ reader' = [reader EXCEPT ![r] = [step |-> "next", period |-> p, shown |-> v, before |-> b,
                                      was |-> IF b = 0 THEN -1 ELSE value[b], after |-> 0]]
  /\ doubtful' = (doubtful \/ Recording # {})
  /\ UNCHANGED <<value, prevValue, charged, billing, revised, outrun>>

\* The reading after; a value above it is refused.
ReadNext(r) ==
  LET a == After(reader[r].period) IN
  /\ ReaderAt(r, "next")
  /\ reader' = [reader EXCEPT ![r] =
       IF a = 0 THEN [@ EXCEPT !.step = "write"]
       ELSE IF @.shown > value[a] THEN Unread
       ELSE [@ EXCEPT !.step = "billed", !.after = a]]
  /\ UNCHANGED <<value, prevValue, charged, billing, doubtful, revised, outrun>>

\* Fault: the bill of the reading after is not asked for.
BilledNever(p) == FALSE
Billed(p) == charged[p] # -1

\* A reading after that is billed is refused.
CheckBilled(r) ==
  /\ ReaderAt(r, "billed")
  /\ IF Billed(reader[r].after) THEN ReaderEnds(r)
     ELSE reader' = [reader EXCEPT ![r].step = "write"]
  /\ UNCHANGED <<value, prevValue, charged, billing, doubtful, revised, outrun>>

\* upsert: a reading that exists keeps its prevValue.
WriteReading(r) ==
  LET p == reader[r].period IN
  /\ ReaderAt(r, "write")
  /\ value' = [value EXCEPT ![p] = reader[r].shown]
  /\ prevValue' = IF value[p] = -1 THEN [prevValue EXCEPT ![p] = reader[r].was] ELSE prevValue
  /\ revised' = IF charged[p] # -1 \/ billing[p] # {} THEN revised \cup {p} ELSE revised
  /\ IF reader[r].after = 0 THEN ReaderEnds(r) ELSE reader' = [reader EXCEPT ![r].step = "follow"]
  /\ UNCHANGED <<charged, billing, doubtful, outrun>>

\* Fault: the reading after keeps what it has.
FollowedNot(r) == prevValue
\* The prevValue of the reading after.
Followed(r) == [prevValue EXCEPT ![reader[r].after] = reader[r].shown]

UpdateNext(r) ==
  /\ ReaderAt(r, "follow")
  /\ prevValue' = Followed(r)
  /\ outrun' = IF billing[reader[r].after] # {} THEN outrun \cup {reader[r].after} ELSE outrun
  /\ ReaderEnds(r)
  /\ UNCHANGED <<value, charged, billing, doubtful, revised>>

ReaderDies(r) ==
  /\ ~ReaderAt(r, "idle")
  /\ doubtful' = (doubtful \/ ReaderAt(r, "follow"))
  /\ ReaderEnds(r)
  /\ UNCHANGED <<value, prevValue, charged, billing, revised, outrun>>

-----------------------------------------------------------------------------
(* Bills *)

\* getDiff: without both values the house is skipped.
HasUsage(p) == value[p] # -1 /\ prevValue[p] # -1

\* A run reads the readings of its period and computes; calcOne charges a negative
\* difference as 0.
ReadUsage(p) ==
  /\ HasUsage(p) /\ Cardinality(billing[p]) < RunsAtOnce
  /\ billing' = [billing EXCEPT ![p] =
                   @ \cup {IF value[p] < prevValue[p] THEN 0 ELSE value[p] - prevValue[p]}]
  /\ doubtful' = (doubtful \/ Recording # {})
  /\ UNCHANGED <<value, prevValue, charged, revised, outrun, reader>>

\* flushBills, after every house was computed: a bill that is there stays as it is
\* (skipDuplicates).
InsertBill(p, u) ==
  /\ u \in billing[p]
  /\ billing' = [billing EXCEPT ![p] = @ \ {u}]
  /\ charged' = IF charged[p] = -1 THEN [charged EXCEPT ![p] = u] ELSE charged
  /\ doubtful' = (doubtful \/ Recording # {})
  /\ UNCHANGED <<value, prevValue, revised, outrun, reader>>

\* The histories forget a period that has no bill any more and no run that may insert one.
Forgets(p, unbilled) ==
  /\ revised' = IF unbilled THEN revised \ {p} ELSE revised
  /\ outrun' = IF unbilled THEN outrun \ {p} ELSE outrun

RunDies(p, u) ==
  /\ u \in billing[p]
  /\ billing' = [billing EXCEPT ![p] = @ \ {u}]
  /\ Forgets(p, charged[p] = -1 /\ billing[p] = {u})
  /\ UNCHANGED <<value, prevValue, charged, doubtful, reader>>

CancelUsage(p) ==
  /\ charged[p] # -1
  /\ charged' = [charged EXCEPT ![p] = -1]
  /\ Forgets(p, billing[p] = {})
  /\ UNCHANGED <<value, prevValue, billing, doubtful, reader>>

MeterNext ==
  \/ \E r \in Readers : \/ ReadNext(r) \/ CheckBilled(r) \/ WriteReading(r) \/ UpdateNext(r) \/ ReaderDies(r)
                        \/ \E p \in Periods, v \in Figures : BeginReading(r, p, v)
  \/ \E p \in Periods : \/ ReadUsage(p) \/ CancelUsage(p)
                        \/ \E u \in Figures : InsertBill(p, u) \/ RunDies(p, u)

MeterSpec == MeterInit /\ [][MeterNext]_meterVars

-----------------------------------------------------------------------------
(* Properties *)

\* Readings in any order, late and corrected: each starts where the one before ends, so
\* no unit is charged twice or lost; and a bill that stands charges what its reading
\* says.  Excused are a request that died between its writes, met another one, or a run
\* that was reading or inserting; and a bill whose own reading, or the one before it, was
\* written after the run had read them: createReading refuses a change below a bill, but
\* the bill of a run that is still computing is not there yet (createReading, whose comment
\* tells of a customer who was charged 300 for a usage of 200).
UsageAddsUpUnlessDoubtful ==
  Recording = {} /\ ~doubtful =>
    /\ \A q \in Periods : Before(q) # 0 /\ value[q] # -1 => prevValue[q] = value[Before(q)]
    /\ \A q \in Periods : Before(q) = 0 => prevValue[q] = -1
    /\ \A q \in Periods \ (revised \cup outrun) : charged[q] # -1 => charged[q] = value[q] - value[Before(q)]

=============================================================================
