-------------------------------- MODULE Idempotency --------------------------------
(***************************************************************************)
(* Idempotency records (common/idempotency.service.ts) and the way every   *)
(* write of the program uses them: reserve, do the work in a transaction,  *)
(* complete; on an exception fail and rethrow (dun in                      *)
(* arrears.controller.ts is the shortest example).                         *)
(*                                                                         *)
(* A key is tenant, actor, action and requestId together.  The answer of   *)
(* the work is the call that did it.  The calls run concurrently, each     *)
(* once; a client that retries is another call with the same key.          *)
(***************************************************************************)
EXTENDS Naturals, FiniteSets

CONSTANTS
  Calls,     \* requests, retries included
  Keys,      \* idempotency keys
  Payloads,  \* request bodies, told apart by their hash
  NoCall

ASSUME NoCallAssumption == NoCall \notin Calls

VARIABLES
  record,   \* IdempotencyRecord: status, the hash, the stored answer
  worked,   \* <<key, call>>: the call committed work under the key
  answered, \* <<call, answer>>: the call got the answer of that call's work
  call      \* what each call is doing

idempotencyVars == <<record, worked, answered, call>>

KeyStatuses == {"NONE", "PROCESSING", "SUCCEEDED", "FAILED"}
CallSteps   == {"new", "create", "reread", "work", "complete", "fail", "done"}
KeyRecords  == [status : KeyStatuses, hash : Payloads \cup {NoCall}, owner : Calls \cup {NoCall},
                answer : Calls \cup {NoCall}]
CallRecords == [step : CallSteps, key : Keys, payload : Payloads]

IdempotencyTypeOK ==
  /\ record \in [Keys -> KeyRecords]
  /\ worked \in SUBSET (Keys \X Calls)
  /\ answered \in SUBSET (Calls \X Calls)
  /\ call \in [Calls -> CallRecords]

\* Which request a call makes is open.
IdempotencyInit ==
  /\ record = [k \in Keys |-> [status |-> "NONE", hash |-> NoCall, owner |-> NoCall, answer |-> NoCall]]
  /\ worked = {} /\ answered = {}
  /\ call \in [Calls -> [step : {"new"}, key : Keys, payload : Payloads]]

Key(c)          == call[c].key
Row(c)          == record[Key(c)]
CallAt(c, step) == call[c].step = step
CallGoes(c, step) == call' = [call EXCEPT ![c].step = step]

\* Fault: the hash is not compared.
SameRequestAlways(c) == TRUE
SameRequest(c) == Row(c).hash = call[c].payload

\* resolveExisting: replay a success, refuse everything else.
Resolve(c) ==
  /\ CallGoes(c, "done")
  /\ answered' = IF SameRequest(c) /\ Row(c).status = "SUCCEEDED"
                 THEN answered \cup {<<c, Row(c).answer>>} ELSE answered

\* reserve: the first look
FindRecord(c) ==
  /\ CallAt(c, "new")
  /\ IF Row(c).status = "NONE" THEN CallGoes(c, "create") /\ UNCHANGED answered ELSE Resolve(c)
  /\ UNCHANGED <<record, worked>>

\* Fault: the key is not unique.
FreeAlways(c) == TRUE
Free(c) == Row(c).status = "NONE"

\* The insert, which the unique key admits once.
CreateRecord(c) ==
  /\ CallAt(c, "create")
  /\ IF Free(c)
     THEN /\ record' = [record EXCEPT ![Key(c)] = [status |-> "PROCESSING", hash |-> call[c].payload,
                                                   owner |-> c, answer |-> NoCall]]
          /\ CallGoes(c, "work")
     ELSE CallGoes(c, "reread") /\ UNCHANGED record
  /\ UNCHANGED <<worked, answered>>

\* currentRecord, after P2002
RereadRecord(c) ==
  /\ CallAt(c, "reread")
  /\ Resolve(c)
  /\ UNCHANGED <<record, worked>>

\* The transaction of the caller commits, or throws and is rolled back.
DoWork(c) ==
  /\ CallAt(c, "work")
  /\ \/ worked' = worked \cup {<<Key(c), c>>} /\ CallGoes(c, "complete")
     \/ CallGoes(c, "fail") /\ UNCHANGED worked
  /\ UNCHANGED <<record, answered>>

\* Both are updates WHERE id AND status = PROCESSING, and throw if none was.
IsProcessing(c) == Row(c).status = "PROCESSING" /\ Row(c).owner = c

Complete(c) ==
  /\ CallAt(c, "complete")
  /\ IF IsProcessing(c)
     THEN /\ record' = [record EXCEPT ![Key(c)].status = "SUCCEEDED", ![Key(c)].answer = c]
          /\ answered' = answered \cup {<<c, c>>}
          /\ CallGoes(c, "done")
     ELSE CallGoes(c, "fail") /\ UNCHANGED <<record, answered>>
  /\ UNCHANGED worked

\* The connection is lost: complete throws, and the handler goes on to fail.
CompleteThrows(c) ==
  /\ CallAt(c, "complete")
  /\ CallGoes(c, "fail")
  /\ UNCHANGED <<record, worked, answered>>

Fail(c) ==
  /\ CallAt(c, "fail")
  /\ record' = IF IsProcessing(c) THEN [record EXCEPT ![Key(c)].status = "FAILED"] ELSE record
  /\ CallGoes(c, "done")
  /\ UNCHANGED <<worked, answered>>

\* The process dies; nothing takes the record over.
Die(c) ==
  /\ ~CallAt(c, "done")
  /\ CallGoes(c, "done")
  /\ UNCHANGED <<record, worked, answered>>

IdempotencyNext ==
  \E c \in Calls : \/ FindRecord(c) \/ CreateRecord(c) \/ RereadRecord(c) \/ DoWork(c)
                   \/ Complete(c) \/ CompleteThrows(c) \/ Fail(c) \/ Die(c)

IdempotencySpec == IdempotencyInit /\ [][IdempotencyNext]_idempotencyVars

-----------------------------------------------------------------------------
(* Properties *)

\* The work of a key is done by one call at most.
WorkedOnce == \A w, x \in worked : w[1] = x[1] => w = x

\* Whoever is told of a success, first or on a retry, is told of work that was done
\* under its own key for its own request body (resolveExisting in
\* idempotency.service.ts).
AnswersAreTrue ==
  \A a \in answered : /\ <<Key(a[1]), a[2]>> \in worked
                      /\ call[a[1]].payload = call[a[2]].payload

\* Retries, concurrent duplicates, a lost connection and dead processes do not run the
\* work of a key twice, and do not answer a request with the result of another.
IdempotentCalls == WorkedOnce /\ AnswersAreTrue

=============================================================================
