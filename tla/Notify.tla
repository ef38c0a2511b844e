---------------------------------- MODULE Notify ----------------------------------
(***************************************************************************)
(* Notifications of bills: events in the outbox, leased in batches by the  *)
(* dispatcher of each instance (outbox.service.ts, notify.service.ts), and *)
(* the daily reminders, which send without the outbox (runReminders in     *)
(* schedule.service.ts).  Both end in the same send(): look for a SENT row *)
(* in the notification log, read the recipients, send to one after the     *)
(* other, log each.                                                        *)
(*                                                                         *)
(* The key of an event is its type and bill, and so is the key of the log, *)
(* so both are one topic here.  The recipients, the owners with an active  *)
(* binding, are read anew by each attempt and chosen freely.  Dates are    *)
(* sets: leased (claimExpiresAt is in the future), later (availableAt is   *)
(* in the future), givenUp (it is TERMINAL_AVAILABLE_AT).  A dispatcher    *)
(* has one batch at a time (its dispatching flag), so its name stands for  *)
(* claimOwner and claimExpiresAt together.                                 *)
(***************************************************************************)
EXTENDS Naturals, FiniteSets

CONSTANTS
  Topics,       \* a bill with a kind of notification
  Owners,       \* possible recipients
  Dispatchers,  \* instances that run scheduledOutboxDispatch
  Reminders,    \* instances that run runReminders
  BatchSize,    \* DEFAULT_BATCH_SIZE, 50 in the code
  MaxAttempts,  \* DEFAULT_MAX_ATTEMPTS, 5 in the code
  Nobody,       \* no claimOwner
  NoTopic

ASSUME NotifyAssumption ==
  /\ BatchSize \in Nat \ {0} /\ MaxAttempts \in Nat \ {0}
  /\ Dispatchers \cap Reminders = {} /\ Nobody \notin Dispatchers /\ NoTopic \notin Topics

VARIABLES
  eventStatus,  \* OutboxEvent.status, "NONE" before the row exists
  attempts,     \* OutboxEvent.attempts
  claimOwner,   \* OutboxEvent.claimOwner
  leased,       \* events whose lease has not expired
  later,        \* failed events that are not due yet
  givenUp,      \* events nobody will claim again
  reported,     \* events with an OUTBOX_DELIVERY_EXHAUSTED alert
  notifyLog,    \* <<topic, owner>> with a SENT row
  received,     \* <<topic, owner>> for which a message arrived
  repeated,     \* <<topic, owner>> for which two arrived
  excused,      \* history: topics that may have been sent twice, see SentOnceUnlessExcused
  missed,       \* history: <<topic, owner>> whose last message of an event failed
  sender        \* what each dispatcher and reminder job is doing

outbox     == <<eventStatus, attempts, claimOwner, leased, later, givenUp, reported>>
messages   == <<notifyLog, received, repeated, excused, missed>>
notifyVars == <<outbox, messages, sender>>

Senders     == Dispatchers \cup Reminders
SenderSteps == {"idle", "claim", "next", "recipients", "send", "log", "close", "report"}
SenderRecords == [step : SenderSteps, batch : SUBSET Topics, topic : Topics \cup {NoTopic},
                  todo : SUBSET Owners, to : Owners \cup {Nobody}, retry : BOOLEAN]
Resting == [step |-> "idle", batch |-> {}, topic |-> NoTopic, todo |-> {}, to |-> Nobody, retry |-> FALSE]

NotifyTypeOK ==
  /\ eventStatus \in [Topics -> {"NONE", "PENDING", "PROCESSING", "FAILED", "PUBLISHED"}]
  /\ attempts \in [Topics -> 0..MaxAttempts]
  /\ claimOwner \in [Topics -> Dispatchers \cup {Nobody}]
  /\ leased \in SUBSET Topics /\ later \in SUBSET Topics
  /\ givenUp \in SUBSET Topics /\ reported \in SUBSET Topics
  /\ notifyLog \in SUBSET (Topics \X Owners)
  /\ received \in SUBSET (Topics \X Owners)
  /\ repeated \in SUBSET (Topics \X Owners)
  /\ excused \in SUBSET Topics
  /\ missed \in SUBSET (Topics \X Owners)
  /\ sender \in [Senders -> SenderRecords]

NotifyInit ==
  /\ eventStatus = [e \in Topics |-> "NONE"]
  /\ attempts = [e \in Topics |-> 0]
  /\ claimOwner = [e \in Topics |-> Nobody]
  /\ leased = {} /\ later = {} /\ givenUp = {} /\ reported = {}
  /\ notifyLog = {} /\ received = {} /\ repeated = {} /\ excused = {} /\ missed = {}
  /\ sender = [s \in Senders |-> Resting]

Does(s, step)  == sender[s].step = step
Topic(s)       == sender[s].topic
Proceed(s, step) == sender' = [sender EXCEPT ![s].step = step]
Sending(e)     == {s \in Senders : Topic(s) = e /\ sender[s].step \in {"recipients", "send", "log"}}

\* A round goes on with the next event, and ends with the last.
AfterTopic(s) == IF sender[s].batch = {} THEN Resting ELSE [Resting EXCEPT !.step = "next", !.batch = sender[s].batch]
NextOne(s) == sender' = [sender EXCEPT ![s] = AfterTopic(s)]

-----------------------------------------------------------------------------
(* The outbox *)

\* createMany with skipDuplicates, in the transaction that publishes or by dun.
Enqueue(e) ==
  /\ eventStatus[e] = "NONE"
  /\ eventStatus' = [eventStatus EXCEPT ![e] = "PENDING"]
  /\ UNCHANGED <<attempts, claimOwner, leased, later, givenUp, reported, messages, sender>>

Expired(e) == eventStatus[e] = "PROCESSING" /\ e \notin leased
\* Fault: nobody closes an event whose last holder died.
ExhaustedNone == {}
Exhausted == {e \in Topics : Expired(e) /\ attempts[e] >= MaxAttempts}

\* claimBatch first closes, without an alert, what nobody may claim again.
Sweep(w) ==
  /\ Does(w, "idle")
  /\ \E e \in Topics : eventStatus[e] \in {"PENDING", "PROCESSING", "FAILED"}
  /\ eventStatus' = [e \in Topics |-> IF e \in Exhausted THEN "FAILED" ELSE eventStatus[e]]
  /\ claimOwner' = [e \in Topics |-> IF e \in Exhausted THEN Nobody ELSE claimOwner[e]]
  /\ givenUp' = givenUp \cup Exhausted
  /\ Proceed(w, "claim")
  /\ UNCHANGED <<attempts, leased, later, reported, messages>>

\* Fault: the attempts are not counted.
ClaimableAlways ==
  {e \in Topics : \/ eventStatus[e] \in {"PENDING", "FAILED"} /\ e \notin later \cup givenUp
                  \/ Expired(e)}
Claimable ==
  {e \in Topics : /\ attempts[e] < MaxAttempts
                  /\ \/ eventStatus[e] \in {"PENDING", "FAILED"} /\ e \notin later \cup givenUp
                     \/ Expired(e)}

\* Which events come first in the order of their dates is left open.
ClaimBatch(w) ==
  /\ Does(w, "claim")
  /\ \E batch \in SUBSET Claimable :
       /\ Cardinality(batch) = IF Cardinality(Claimable) > BatchSize THEN BatchSize
                               ELSE Cardinality(Claimable)
       /\ eventStatus' = [e \in Topics |-> IF e \in batch THEN "PROCESSING" ELSE eventStatus[e]]
       /\ attempts' = [e \in Topics |-> IF e \in batch THEN attempts[e] + 1 ELSE attempts[e]]
       /\ claimOwner' = [e \in Topics |-> IF e \in batch THEN w ELSE claimOwner[e]]
       /\ leased' = leased \cup batch
       /\ sender' = [sender EXCEPT ![w] = IF batch = {} THEN Resting
                                          ELSE [Resting EXCEPT !.step = "next", !.batch = batch]]
  /\ UNCHANGED <<later, givenUp, reported, messages>>

\* Fault: the holder is not checked when the event is closed.
OwnsLeaseAlways(w, e) == TRUE
OwnsLease(w, e) == eventStatus[e] = "PROCESSING" /\ claimOwner[e] = w /\ e \in leased

\* markPublished and markFailed; they throw without a lease, and the event is left to the next round.
CloseEvent(w) ==
  LET e == Topic(w)
      failed == sender[w].retry
      last == failed /\ attempts[e] >= MaxAttempts IN
  /\ w \in Dispatchers /\ Does(w, "close")
  /\ IF OwnsLease(w, e)
     THEN /\ eventStatus' = [eventStatus EXCEPT ![e] = IF failed THEN "FAILED" ELSE "PUBLISHED"]
          /\ claimOwner' = [claimOwner EXCEPT ![e] = Nobody]
          /\ leased' = leased \ {e}
          /\ later' = IF failed /\ ~last THEN later \cup {e} ELSE later
          /\ givenUp' = IF last THEN givenUp \cup {e} ELSE givenUp
          /\ IF last THEN Proceed(w, "report") ELSE NextOne(w)
     ELSE NextOne(w) /\ UNCHANGED <<eventStatus, claimOwner, leased, later, givenUp>>
  /\ UNCHANGED <<attempts, reported, messages>>

\* The alert follows the commit.
Report(w) ==
  /\ Does(w, "report")
  /\ reported' = reported \cup {Topic(w)}
  /\ NextOne(w)
  /\ UNCHANGED <<eventStatus, attempts, claimOwner, leased, later, givenUp, messages>>

-----------------------------------------------------------------------------
(* send() *)

\* runReminders: a bill is due soon or overdue.
Remind(r, e) ==
  /\ r \in Reminders /\ Does(r, "idle")
  /\ sender' = [sender EXCEPT ![r] = [Resting EXCEPT !.step = "next", !.batch = {e}]]
  /\ UNCHANGED <<outbox, messages>>

\* Fault: the log is not asked.
AlreadySentNever(e) == FALSE
AlreadySent(e) == \E o \in Owners : <<e, o>> \in notifyLog

\* The duplicate check, and what send() returns early as SKIPPED.
StartTopic(s) ==
  /\ Does(s, "next")
  /\ \E e \in sender[s].batch :
       /\ sender' = [sender EXCEPT ![s] =
            [Resting EXCEPT !.step = IF AlreadySent(e) THEN "close" ELSE "recipients",
                            !.topic = e, !.batch = sender[s].batch \ {e}]]
       /\ excused' = IF AlreadySent(e) \/ Sending(e) = {} THEN excused ELSE excused \cup {e}
  /\ UNCHANGED <<outbox, notifyLog, received, repeated, missed>>

ReadRecipients(s) ==
  /\ Does(s, "recipients")
  /\ \E os \in SUBSET Owners :
       /\ sender' = [sender EXCEPT ![s].todo = os, ![s].step = IF os = {} THEN "close" ELSE "send"]
       /\ missed' = {m \in missed : m[1] = Topic(s) => m[2] \in os}
  /\ UNCHANGED <<outbox, notifyLog, received, repeated, excused>>

\* The recipient is done with; the last one leads to the end of send().
Done(s, o, retry) ==
  sender' = [sender EXCEPT ![s].step = IF sender[s].todo = {o} THEN "close" ELSE "send",
                           ![s].todo = @ \ {o}, ![s].to = Nobody, ![s].retry = retry]

\* sendSubscribeMessage says that the message was sent.
SendMessage(s) ==
  LET e == Topic(s) IN
  /\ Does(s, "send")
  /\ \E o \in sender[s].todo :
       /\ received' = received \cup {<<e, o>>}
       /\ repeated' = IF <<e, o>> \in received THEN repeated \cup {<<e, o>>} ELSE repeated
       /\ missed' = missed \ {<<e, o>>}
       /\ sender' = [sender EXCEPT ![s].step = "log", ![s].to = o]
  /\ UNCHANGED <<outbox, notifyLog, excused>>

\* The owner has not subscribed: retrying is of no use.
SendDenied(s) ==
  /\ Does(s, "send")
  /\ \E o \in sender[s].todo : Done(s, o, sender[s].retry) /\ missed' = missed \ {<<Topic(s), o>>}
  /\ UNCHANGED <<outbox, notifyLog, received, repeated, excused>>

\* No answer, or an error of WeChat; the message may have arrived.
SendFails(s) ==
  LET e == Topic(s) IN
  /\ Does(s, "send")
  /\ \E o \in sender[s].todo :
       /\ missed' = IF s \in Dispatchers THEN missed \cup {<<e, o>>} ELSE missed
       /\ \/ UNCHANGED <<notifyLog, received, repeated, excused>>
          \/ /\ received' = received \cup {<<e, o>>}
             /\ repeated' = IF <<e, o>> \in received THEN repeated \cup {<<e, o>>} ELSE repeated
             /\ excused' = excused \cup {e}
             /\ UNCHANGED notifyLog
       /\ Done(s, o, TRUE)
  /\ UNCHANGED outbox

\* notifyLog.create with SENT (a FAILED row decides nothing).
LogSent(s) ==
  /\ Does(s, "log")
  /\ notifyLog' = notifyLog \cup {<<Topic(s), sender[s].to>>}
  /\ Done(s, sender[s].to, sender[s].retry)
  /\ UNCHANGED <<outbox, received, repeated, excused, missed>>

\* The reminder job does not care what send() returns.
EndReminder(r) ==
  /\ r \in Reminders /\ Does(r, "close")
  /\ NextOne(r)
  /\ UNCHANGED <<outbox, messages>>

\* A message that was sent and is not logged may be sent again.
Unlogged(s) == IF Does(s, "log") THEN excused \cup {Topic(s)} ELSE excused

\* A database call throws: the round goes on with the next event.
Throw(s) ==
  /\ sender[s].step \in {"recipients", "send", "log", "close", "report"}
  /\ excused' = Unlogged(s)
  /\ NextOne(s)
  /\ UNCHANGED <<outbox, notifyLog, received, repeated, missed>>

\* The process dies; its successor starts with an empty batch.
Crash(s) ==
  /\ ~Does(s, "idle")
  /\ excused' = Unlogged(s)
  /\ sender' = [sender EXCEPT ![s] = Resting]
  /\ UNCHANGED <<outbox, notifyLog, received, repeated, missed>>

-----------------------------------------------------------------------------
(* Time *)

LeaseExpires(e) ==
  /\ e \in leased
  /\ leased' = leased \ {e}
  /\ UNCHANGED <<eventStatus, attempts, claimOwner, later, givenUp, reported, messages, sender>>

BecomesDue(e) ==
  /\ e \in later
  /\ later' = later \ {e}
  /\ UNCHANGED <<eventStatus, attempts, claimOwner, leased, givenUp, reported, messages, sender>>

-----------------------------------------------------------------------------
NotifyNext ==
  \/ \E e \in Topics : Enqueue(e) \/ LeaseExpires(e) \/ BecomesDue(e)
  \/ \E w \in Dispatchers : Sweep(w) \/ ClaimBatch(w) \/ CloseEvent(w) \/ Report(w)
  \/ \E r \in Reminders : EndReminder(r) \/ \E e \in Topics : Remind(r, e)
  \/ \E s \in Senders : \/ StartTopic(s) \/ ReadRecipients(s) \/ SendMessage(s) \/ SendDenied(s)
                        \/ SendFails(s) \/ LogSent(s) \/ Throw(s) \/ Crash(s)

NotifySpec == NotifyInit /\ [][NotifyNext]_notifyVars

-----------------------------------------------------------------------------
(* Properties *)

\* An owner gets a message about a topic once, unless a sender died or threw between
\* sending and logging, an answer of WeChat was lost, or two senders were both past
\* the duplicate check (send in notify.service.ts: at most one reminder of each kind
\* per bill).  Neither a retry, nor a lease taken over from a dead holder, nor a reminder
\* for a topic that also has an event is an excuse.
SentOnceUnlessExcused == \A m \in repeated : m[1] \in excused

\* An event that was published or given up is never taken up again, whoever still
\* holds an old lease on it (lockOwnedLease in outbox.service.ts).
ClosedIsFinal ==
  [][\A e \in Topics : eventStatus[e] = "PUBLISHED" \/ e \in givenUp
       => eventStatus'[e] = eventStatus[e] /\ attempts'[e] = attempts[e]]_notifyVars

\* Every event is delivered or given up, though dispatchers die, throw and lose
\* their leases (claimBatch in outbox.service.ts).
EventIsClosed ==
  \A e \in Topics : eventStatus[e] = "PENDING" ~> eventStatus[e] = "PUBLISHED" \/ e \in givenUp

\* A message that failed for a passing reason is tried again: an event is not published while
\* an owner it should reach was last sent a message that failed.  The code does not keep this:
\* once one owner of a house has been reached, the next attempt takes the SENT row of that
\* owner for everybody's and sends nothing.
FailedIsRetried == \A m \in missed : eventStatus[m[1]] # "PUBLISHED"

=============================================================================
