------------------------------- MODULE NotifyProofs -------------------------------
(***************************************************************************)
(* Closed events stay closed and owners get a message once unless excused, *)
(* for any number of events, owners, dispatchers and reminder jobs.        *)
(*                                                                         *)
(* The argument for the second: as long as a topic is not excused one      *)
(* sender at most is past the duplicate check, and what has arrived was    *)
(* either logged, which the next duplicate check finds, or is being logged *)
(* by that sender, which has crossed the recipient off its list.           *)
(***************************************************************************)
EXTENDS Notify, TLAPS

\* A sender works on a topic and logs an owner.
SenderOK(s) ==
  /\ sender[s].step \in {"recipients", "send", "log", "close", "report"} => Topic(s) \in Topics
  /\ sender[s].step = "log" => sender[s].to \in Owners
  /\ sender[s].step \in {"claim", "report"} => s \in Dispatchers

\* Only a failed event is given up.
GivenUpFailed == \A e \in givenUp : eventStatus[e] = "FAILED"

\* Sender s has sent topic e to owner o and not logged it yet.
Logging(s, e, o) == Does(s, "log") /\ Topic(s) = e /\ sender[s].to = o
\* The owners a sender may still send to.
Left(s) == IF Does(s, "recipients") THEN Owners
           ELSE IF Does(s, "send") THEN sender[s].todo ELSE sender[s].todo \ {sender[s].to}

\* One sender works on the topic; who was reached is logged, or about to be; who is left
\* was not reached.
OneSender(e) == \A s, t \in Sending(e) : s = t
ArrivedIsLogged(e) ==
  \A o \in Owners : <<e, o>> \in received => <<e, o>> \in notifyLog \/ \E s \in Senders : Logging(s, e, o)
LeftIsUnsent(e) == \A s \in Sending(e) : \A o \in Left(s) : <<e, o>> \notin received

\* What holds of every topic without an excuse.
Orderly == \A e \in Topics \ excused : OneSender(e) /\ ArrivedIsLogged(e) /\ LeftIsUnsent(e)

\* What the outbox and its senders keep.
NotifyInv ==
  /\ NotifyTypeOK
  /\ \A s \in Senders : SenderOK(s)
  /\ GivenUpFailed
  /\ Orderly
  /\ SentOnceUnlessExcused

\* At first nobody sends and nothing has arrived.
LEMMA NotifyInitInv == NotifyInit => NotifyInv
<1> SUFFICES ASSUME NotifyInit PROVE NotifyInv
  OBVIOUS
<1>1. NotifyTypeOK
  BY NotifyAssumption DEF NotifyInit, NotifyTypeOK, Resting, SenderRecords, SenderSteps, Senders
<1>2. \A s \in Senders : SenderOK(s)
  BY DEF NotifyInit, SenderOK, Resting
<1>3. GivenUpFailed /\ SentOnceUnlessExcused
  BY DEF NotifyInit, GivenUpFailed, SentOnceUnlessExcused
<1>4. Orderly
  BY DEF NotifyInit, Orderly, OneSender, ArrivedIsLogged, LeftIsUnsent, Sending, Resting
<1> QED
  BY <1>1, <1>2, <1>3, <1>4 DEF NotifyInv

\* What is left of a round is a record of the right type, past every topic.
LEMMA AfterTopicIs ==
  ASSUME NotifyTypeOK, NEW s \in Senders
  PROVE  AfterTopic(s) \in SenderRecords /\ AfterTopic(s).step \in {"idle", "next"}
  BY DEF NotifyTypeOK, AfterTopic, Resting, SenderRecords, SenderSteps

\* One sender moves, and neither arrives at nor leaves the sending of a topic.
LEMMA QuietSender ==
  ASSUME NotifyInv, NEW s \in Senders, NEW x \in SenderRecords, sender' = [sender EXCEPT ![s] = x],
         x.step \in {"idle", "claim", "next", "close", "report"},
         x.step \in {"close", "report"} => x.topic \in Topics,
         x.step \in {"claim", "report"} => s \in Dispatchers,
         sender[s].step # "log" \/ Topic(s) \in excused',
         excused \subseteq excused', UNCHANGED <<notifyLog, received, repeated>>
  PROVE  /\ sender' \in [Senders -> SenderRecords]
         /\ \A t \in Senders : SenderOK(t)'
         /\ Orderly' /\ SentOnceUnlessExcused'
<1>1. \A t \in Senders : sender'[t] = IF t = s THEN x ELSE sender[t]
  BY DEF NotifyInv, NotifyTypeOK
<1>2. sender' \in [Senders -> SenderRecords] /\ \A t \in Senders : SenderOK(t)'
  BY <1>1 DEF NotifyInv, NotifyTypeOK, SenderOK, Topic
<1>3. Orderly'
  <2> SUFFICES ASSUME NEW e \in Topics, e \notin excused'
               PROVE  (OneSender(e) /\ ArrivedIsLogged(e) /\ LeftIsUnsent(e))'
    BY DEF Orderly
  <2>1. OneSender(e) /\ ArrivedIsLogged(e) /\ LeftIsUnsent(e)
    BY DEF NotifyInv, Orderly
  <2>2. \A t \in Senders : t \in Sending(e)' => t # s /\ t \in Sending(e) /\ Left(t)' = Left(t)
    BY <1>1 DEF Sending, Left, Does, Topic
  <2>3. OneSender(e)' /\ LeftIsUnsent(e)'
    BY <2>1, <2>2 DEF OneSender, LeftIsUnsent, Sending
  <2>4. \A t \in Senders, o \in Owners : Logging(t, e, o) => Logging(t, e, o)'
    BY <1>1 DEF Logging, Does, Topic
  <2>5. ArrivedIsLogged(e)'
    BY <2>1, <2>4 DEF ArrivedIsLogged
  <2> QED
    BY <2>3, <2>5
<1>4. SentOnceUnlessExcused'
  BY DEF NotifyInv, SentOnceUnlessExcused
<1> QED
  BY <1>2, <1>3, <1>4

\* Steps that touch the outbox only.
LEMMA OutboxStep ==
  ASSUME NotifyInv, UNCHANGED <<messages, sender>>
  PROVE  /\ \A s \in Senders : SenderOK(s)'
         /\ Orderly' /\ SentOnceUnlessExcused'
  BY DEF NotifyInv, SenderOK, Topic, Orderly, OneSender, ArrivedIsLogged, LeftIsUnsent, Sending, Left, Does, Topic,
         Logging, SentOnceUnlessExcused, messages

\* A sender that works on topic e, or on none yet, changes nothing for another topic.
LEMMA OtherTopics ==
  ASSUME NotifyInv, NEW s \in Senders, NEW x, NEW e \in Topics, NEW f \in Topics \ excused', f # e,
         sender' = [sender EXCEPT ![s] = x], x.topic = e,
         Topic(s) = e \/ sender[s].step \notin {"recipients", "send", "log"},
         excused \subseteq excused',
         \A o \in Owners : /\ <<f, o>> \in received' <=> <<f, o>> \in received
                           /\ <<f, o>> \in notifyLog => <<f, o>> \in notifyLog'
  PROVE  OneSender(f)' /\ ArrivedIsLogged(f)' /\ LeftIsUnsent(f)'
<1>1. \A t \in Senders : sender'[t] = IF t = s THEN x ELSE sender[t]
  BY DEF NotifyInv, NotifyTypeOK
<1>2. OneSender(f) /\ ArrivedIsLogged(f) /\ LeftIsUnsent(f)
  BY DEF NotifyInv, Orderly
<1>3. ASSUME NEW t \in Senders, t \in Sending(f)' PROVE t # s /\ t \in Sending(f) /\ Left(t)' = Left(t)
  <2>1. sender'[t].topic = f
    BY <1>3 DEF Sending, Topic
  <2>2. t # s
    BY <1>1, <2>1
  <2>3. sender'[t] = sender[t]
    BY <1>1, <2>2
  <2>4. t \in Sending(f)
    BY <1>3, <2>3 DEF Sending, Topic
  <2> QED
    BY <2>2, <2>3, <2>4 DEF Left, Does
<1>4. \A t \in Senders, o \in Owners : Logging(t, f, o) => Logging(t, f, o)'
  BY <1>1 DEF Logging, Does, Topic
<1>5. OneSender(f)' /\ LeftIsUnsent(f)'
  <2>1. Left(s) \subseteq Owners /\ \A t \in Senders : Left(t) \subseteq Owners
    BY DEF NotifyInv, NotifyTypeOK, SenderRecords, Left
  <2>2. OneSender(f)'
    BY <1>2, <1>3 DEF OneSender, Sending
  <2>3. ASSUME NEW t \in Senders, t \in Sending(f)', NEW o \in Left(t)' PROVE <<f, o>> \notin received'
    <3>1. t \in Sending(f) /\ o \in Left(t)
      BY <1>3, <2>3
    <3>2. o \in Owners /\ <<f, o>> \notin received
      BY <1>2, <2>1, <3>1 DEF LeftIsUnsent
    <3> QED
      BY <3>2
  <2> QED
    BY <2>2, <2>3 DEF LeftIsUnsent, Sending
<1>6. ArrivedIsLogged(f)'
  <2> SUFFICES ASSUME NEW o \in Owners, <<f, o>> \in received'
               PROVE  <<f, o>> \in notifyLog' \/ \E t \in Senders : Logging(t, f, o)'
    BY DEF ArrivedIsLogged
  <2>1. <<f, o>> \in received
    OBVIOUS
  <2>2. <<f, o>> \in notifyLog \/ \E t \in Senders : Logging(t, f, o)
    BY <1>2, <2>1 DEF ArrivedIsLogged
  <2> QED
    BY <1>4, <2>2
<1> QED
  BY <1>5, <1>6

\* A sender takes a step in the sending of topic e.
LEMMA SendingMove ==
  ASSUME NotifyInv, NEW s \in Senders, NEW x \in SenderRecords, NEW e \in Topics,
         sender' = [sender EXCEPT ![s] = x], x.topic = e,
         x.step \in {"recipients", "send", "log", "close"}, x.step = "log" => x.to \in Owners,
         Topic(s) = e \/ sender[s].step \notin {"recipients", "send", "log"},
         excused \subseteq excused',
         \A f \in Topics \ {e}, o \in Owners : /\ <<f, o>> \in received' <=> <<f, o>> \in received
                                               /\ <<f, o>> \in notifyLog => <<f, o>> \in notifyLog',
         e \notin excused' => OneSender(e)' /\ ArrivedIsLogged(e)' /\ LeftIsUnsent(e)'
  PROVE  /\ sender' \in [Senders -> SenderRecords]
         /\ \A t \in Senders : SenderOK(t)'
         /\ Orderly'
<1>1. \A t \in Senders : sender'[t] = IF t = s THEN x ELSE sender[t]
  BY DEF NotifyInv, NotifyTypeOK
<1>2. sender' \in [Senders -> SenderRecords] /\ \A t \in Senders : SenderOK(t)'
  BY <1>1 DEF NotifyInv, NotifyTypeOK, SenderOK, Topic
<1>3. Orderly'
  <2> SUFFICES ASSUME NEW f \in Topics, f \notin excused'
               PROVE  (OneSender(f) /\ ArrivedIsLogged(f) /\ LeftIsUnsent(f))'
    BY DEF Orderly
  <2>1. CASE f = e
    BY <2>1
  <2>2. CASE f # e
    BY <2>2, OtherTopics
  <2> QED
    BY <2>1, <2>2
<1> QED
  BY <1>2, <1>3

-----------------------------------------------------------------------------
(* The outbox *)

\* A new event has no history.
LEMMA EnqueueStep == ASSUME NotifyInv, NEW e \in Topics, Enqueue(e) PROVE NotifyInv'
<1>1. NotifyTypeOK'
  BY DEF NotifyInv, NotifyTypeOK, Enqueue, messages
<1>2. GivenUpFailed'
  BY DEF NotifyInv, NotifyTypeOK, GivenUpFailed, Enqueue
<1> QED
  BY <1>1, <1>2, OutboxStep DEF NotifyInv, Enqueue

\* Time takes leases away and makes failed events due.
LEMMA TimeStep == ASSUME NotifyInv, NEW e \in Topics, LeaseExpires(e) \/ BecomesDue(e) PROVE NotifyInv'
<1>1. NotifyTypeOK' /\ GivenUpFailed'
  BY DEF NotifyInv, NotifyTypeOK, GivenUpFailed, LeaseExpires, BecomesDue, messages
<1> QED
  BY <1>1, OutboxStep DEF NotifyInv, LeaseExpires, BecomesDue

\* The sweep gives up events nobody holds and nobody may claim.
LEMMA SweepStep == ASSUME NotifyInv, NEW w \in Dispatchers, Sweep(w) PROVE NotifyInv'
<1> DEFINE x == [sender[w] EXCEPT !.step = "claim"]
<1>1. w \in Senders /\ sender[w] \in SenderRecords
  BY DEF NotifyInv, NotifyTypeOK, Senders
<1>2. x \in SenderRecords /\ x.step = "claim"
  BY <1>1 DEF SenderRecords, SenderSteps
<1>3. sender' = [sender EXCEPT ![w] = x] /\ UNCHANGED messages /\ sender[w].step = "idle"
  BY DEF Sweep, Proceed, Does
<1> HIDE DEF x
<1>4. /\ sender' \in [Senders -> SenderRecords]
      /\ \A t \in Senders : SenderOK(t)'
      /\ Orderly' /\ SentOnceUnlessExcused'
  BY <1>1, <1>2, <1>3, QuietSender DEF messages
<1>5. NotifyTypeOK'
  BY <1>3, <1>4 DEF NotifyInv, NotifyTypeOK, Sweep, messages, Exhausted
<1>6. GivenUpFailed'
  BY DEF NotifyInv, NotifyTypeOK, GivenUpFailed, Sweep, Exhausted, Expired
<1> QED
  BY <1>4, <1>5, <1>6 DEF NotifyInv

\* A claim takes events that are neither published nor given up, and have attempts left.
LEMMA ClaimStep == ASSUME NotifyInv, NEW w \in Dispatchers, ClaimBatch(w) PROVE NotifyInv'
<1>1. w \in Senders /\ sender[w].step = "claim" /\ UNCHANGED messages
  BY DEF NotifyInv, Senders, ClaimBatch, Does
<1>2. PICK batch \in SUBSET Claimable :
       /\ eventStatus' = [e \in Topics |-> IF e \in batch THEN "PROCESSING" ELSE eventStatus[e]]
       /\ attempts' = [e \in Topics |-> IF e \in batch THEN attempts[e] + 1 ELSE attempts[e]]
       /\ claimOwner' = [e \in Topics |-> IF e \in batch THEN w ELSE claimOwner[e]]
       /\ leased' = leased \cup batch
       /\ sender' = [sender EXCEPT ![w] = IF batch = {} THEN Resting
                                          ELSE [Resting EXCEPT !.step = "next", !.batch = batch]]
  BY DEF ClaimBatch
<1> DEFINE x == IF batch = {} THEN Resting ELSE [Resting EXCEPT !.step = "next", !.batch = batch]
<1>3. x \in SenderRecords /\ x.step \in {"idle", "next"}
  BY DEF SenderRecords, SenderSteps, Resting, Claimable
<1>4. sender' = [sender EXCEPT ![w] = x]
  BY <1>2
<1> HIDE DEF x
<1>5. /\ sender' \in [Senders -> SenderRecords]
      /\ \A t \in Senders : SenderOK(t)'
      /\ Orderly' /\ SentOnceUnlessExcused'
  BY <1>1, <1>3, <1>4, QuietSender DEF messages
<1>6. attempts' \in [Topics -> 0 .. MaxAttempts]
  BY <1>2, NotifyAssumption DEF NotifyInv, NotifyTypeOK, Claimable
<1>7. NotifyTypeOK'
  BY <1>1, <1>2, <1>5, <1>6 DEF NotifyInv, NotifyTypeOK, ClaimBatch, messages, Claimable
<1>8. GivenUpFailed'
  BY <1>2 DEF NotifyInv, NotifyTypeOK, GivenUpFailed, ClaimBatch, Claimable, Expired
<1> QED
  BY <1>5, <1>7, <1>8 DEF NotifyInv

\* Only the holder of the lease closes an event.
LEMMA CloseEventStep == ASSUME NotifyInv, NEW w \in Dispatchers, CloseEvent(w) PROVE NotifyInv'
<1>1. w \in Senders /\ sender[w].step = "close" /\ Topic(w) \in Topics /\ UNCHANGED messages
  BY DEF NotifyInv, Senders, CloseEvent, Does, SenderOK
<1> DEFINE x == [sender[w] EXCEPT !.step = "report"]
<1>2. sender[w] \in SenderRecords
  BY <1>1 DEF NotifyInv, NotifyTypeOK
<1>3. x \in SenderRecords /\ x.step = "report" /\ x.topic \in Topics
  BY <1>1, <1>2 DEF SenderRecords, SenderSteps, Topic
<1>4. \/ sender' = [sender EXCEPT ![w] = x]
      \/ sender' = [sender EXCEPT ![w] = AfterTopic(w)]
  BY DEF CloseEvent, NextOne, Proceed
<1> HIDE DEF x
<1>5. /\ sender' \in [Senders -> SenderRecords]
      /\ \A t \in Senders : SenderOK(t)'
      /\ Orderly' /\ SentOnceUnlessExcused'
  <2>1. CASE sender' = [sender EXCEPT ![w] = x]
    BY <1>1, <1>3, <2>1, QuietSender DEF messages
  <2>2. CASE sender' = [sender EXCEPT ![w] = AfterTopic(w)]
    BY <1>1, <2>2, QuietSender, AfterTopicIs DEF messages, NotifyInv
  <2> QED
    BY <1>4, <2>1, <2>2
<1>6. NotifyTypeOK' /\ GivenUpFailed'
  <2>1. CASE OwnsLease(w, Topic(w))
    <3>1. UNCHANGED <<attempts, reported, messages>>
      BY DEF CloseEvent
    <3>2. PICK failed \in BOOLEAN, last \in BOOLEAN :
            /\ last => failed
            /\ eventStatus' = [eventStatus EXCEPT ![Topic(w)] = IF failed THEN "FAILED" ELSE "PUBLISHED"]
            /\ claimOwner' = [claimOwner EXCEPT ![Topic(w)] = Nobody]
            /\ leased' = leased \ {Topic(w)}
            /\ later' = IF failed /\ ~last THEN later \cup {Topic(w)} ELSE later
            /\ givenUp' = IF last THEN givenUp \cup {Topic(w)} ELSE givenUp
      <4>1. sender[w].retry \in BOOLEAN
        BY <1>2 DEF SenderRecords
      <4>2. (sender[w].retry /\ attempts[Topic(w)] >= MaxAttempts) \in BOOLEAN
        OBVIOUS
      <4> QED
        BY <2>1, <4>1, <4>2 DEF CloseEvent
    <3>3. NotifyTypeOK'
      BY <1>1, <1>5, <3>1, <3>2 DEF NotifyInv, NotifyTypeOK, messages
    <3>4. eventStatus[Topic(w)] = "PROCESSING"
      BY <2>1 DEF OwnsLease
    <3>5. GivenUpFailed'
      BY <1>1, <3>2, <3>4 DEF NotifyInv, NotifyTypeOK, GivenUpFailed
    <3> QED
      BY <3>3, <3>5
  <2>2. CASE ~OwnsLease(w, Topic(w))
    BY <1>5, <2>2 DEF CloseEvent, NotifyInv, NotifyTypeOK, GivenUpFailed, messages
  <2> QED
    BY <2>1, <2>2
<1> QED
  BY <1>5, <1>6 DEF NotifyInv

\* The alert ends the work on the event.
LEMMA ReportStep == ASSUME NotifyInv, NEW w \in Dispatchers, Report(w) PROVE NotifyInv'
<1>1. w \in Senders /\ sender[w].step = "report" /\ Topic(w) \in Topics /\ UNCHANGED messages
  BY DEF NotifyInv, Senders, Report, Does, SenderOK
<1>2. sender' = [sender EXCEPT ![w] = AfterTopic(w)]
  BY DEF Report, NextOne
<1>3. /\ sender' \in [Senders -> SenderRecords]
      /\ \A t \in Senders : SenderOK(t)'
      /\ Orderly' /\ SentOnceUnlessExcused'
  BY <1>1, <1>2, QuietSender, AfterTopicIs DEF messages, NotifyInv
<1>4. NotifyTypeOK' /\ GivenUpFailed'
  BY <1>1, <1>3 DEF Report, NotifyInv, NotifyTypeOK, GivenUpFailed, messages
<1> QED
  BY <1>3, <1>4 DEF NotifyInv

-----------------------------------------------------------------------------
(* send() *)

\* A round of a reminder job begins, or ends: it sends nothing.
LEMMA RemindStep ==
  ASSUME NotifyInv, NEW r \in Reminders, EndReminder(r) \/ \E e \in Topics : Remind(r, e)
  PROVE  NotifyInv'
<1>1. r \in Senders /\ sender[r].step \in {"idle", "close"} /\ UNCHANGED <<outbox, messages>>
  BY DEF Senders, Remind, EndReminder, Does
<1>2. PICK x \in SenderRecords : sender' = [sender EXCEPT ![r] = x] /\ x.step \in {"idle", "next"}
  <2>1. CASE EndReminder(r)
    BY <1>1, <2>1, AfterTopicIs DEF EndReminder, NextOne, NotifyInv
  <2>2. ASSUME NEW e \in Topics, Remind(r, e)
        PROVE  \E x \in SenderRecords : sender' = [sender EXCEPT ![r] = x] /\ x.step \in {"idle", "next"}
    <3> DEFINE y == [Resting EXCEPT !.step = "next", !.batch = {e}]
    <3>1. y \in SenderRecords /\ y.step = "next"
      BY DEF SenderRecords, SenderSteps, Resting
    <3>2. sender' = [sender EXCEPT ![r] = y]
      BY <2>2 DEF Remind
    <3> QED
      BY <3>1, <3>2
  <2> QED
    BY <2>1, <2>2
<1>3. /\ sender' \in [Senders -> SenderRecords]
      /\ \A t \in Senders : SenderOK(t)'
      /\ Orderly' /\ SentOnceUnlessExcused'
  BY <1>1, <1>2, QuietSender DEF messages
<1>4. NotifyTypeOK' /\ GivenUpFailed'
  BY <1>1, <1>3 DEF NotifyInv, NotifyTypeOK, GivenUpFailed, outbox, messages
<1> QED
  BY <1>3, <1>4 DEF NotifyInv

\* The outbox part of the invariant, when the outbox stands still.
LEMMA SendKeeps ==
  ASSUME NotifyInv, UNCHANGED outbox, sender' \in [Senders -> SenderRecords],
         \A t \in Senders : SenderOK(t)', Orderly', SentOnceUnlessExcused',
         notifyLog' \in SUBSET (Topics \X Owners), received' \in SUBSET (Topics \X Owners),
         repeated' \in SUBSET (Topics \X Owners), excused' \in SUBSET Topics,
         missed' \in SUBSET (Topics \X Owners)
  PROVE  NotifyInv'
  BY DEF NotifyInv, NotifyTypeOK, GivenUpFailed, outbox

\* Past the duplicate check nothing has arrived, or another sender is past it too.
LEMMA StartTopicStep == ASSUME NotifyInv, NEW s \in Senders, StartTopic(s) PROVE NotifyInv'
<1>1. PICK e \in sender[s].batch :
       /\ sender' = [sender EXCEPT ![s] =
            [Resting EXCEPT !.step = IF AlreadySent(e) THEN "close" ELSE "recipients",
                            !.topic = e, !.batch = sender[s].batch \ {e}]]
       /\ excused' = IF AlreadySent(e) \/ Sending(e) = {} THEN excused ELSE excused \cup {e}
  BY DEF StartTopic
<1>2. sender[s] \in SenderRecords /\ sender[s].step = "next" /\ UNCHANGED <<outbox, notifyLog, received, repeated, missed>>
  BY DEF StartTopic, Does, NotifyInv, NotifyTypeOK
<1>3. e \in Topics
  BY <1>2 DEF SenderRecords
<1> DEFINE x == [Resting EXCEPT !.step = IF AlreadySent(e) THEN "close" ELSE "recipients",
                                !.topic = e, !.batch = sender[s].batch \ {e}]
<1>4. /\ x \in SenderRecords /\ x.topic = e
      /\ x.step = IF AlreadySent(e) THEN "close" ELSE "recipients"
  BY <1>2, <1>3 DEF SenderRecords, SenderSteps, Resting
<1>5. sender' = [sender EXCEPT ![s] = x]
  BY <1>1
<1> HIDE DEF x
<1>6. \A t \in Senders : sender'[t] = IF t = s THEN x ELSE sender[t]
  BY <1>5 DEF NotifyInv, NotifyTypeOK
<1>7. ASSUME e \notin excused' PROVE OneSender(e)' /\ ArrivedIsLogged(e)' /\ LeftIsUnsent(e)'
  <2>1. e \notin excused /\ (AlreadySent(e) \/ Sending(e) = {})
    BY <1>1, <1>7
  <2>2. OneSender(e) /\ ArrivedIsLogged(e) /\ LeftIsUnsent(e)
    BY <1>3, <2>1 DEF NotifyInv, Orderly
  <2>3. \A t \in Senders, o \in Owners : Logging(t, e, o) => Logging(t, e, o)'
    BY <1>2, <1>6 DEF Logging, Does, Topic
  <2>4. ArrivedIsLogged(e)'
    BY <1>2, <2>2, <2>3 DEF ArrivedIsLogged
  <2>5. CASE AlreadySent(e)
    <3>1. \A t \in Senders : t \in Sending(e)' => t \in Sending(e) /\ Left(t)' = Left(t)
      BY <1>4, <1>6, <2>5 DEF Sending, Left, Does, Topic
    <3> QED
      BY <1>2, <2>2, <2>4, <3>1 DEF OneSender, LeftIsUnsent, Sending
  <2>6. CASE ~AlreadySent(e)
    <3>1. \A t \in Senders : t \in Sending(e)' => t = s
      BY <1>6, <2>1, <2>6 DEF Sending, Topic
    <3>2. \A t \in Senders, o \in Owners : ~Logging(t, e, o)
      BY <2>1, <2>6 DEF Logging, Sending, Does
    <3>3. \A o \in Owners : <<e, o>> \notin received
      BY <2>2, <2>6, <3>2 DEF ArrivedIsLogged, AlreadySent
    <3>4. Left(s)' = Owners
      BY <1>4, <1>6, <2>6 DEF Left, Does
    <3> QED
      BY <1>2, <2>4, <3>1, <3>3, <3>4 DEF OneSender, LeftIsUnsent, Sending
  <2> QED
    BY <2>5, <2>6
<1>8. /\ sender' \in [Senders -> SenderRecords]
      /\ \A t \in Senders : SenderOK(t)'
      /\ Orderly'
  BY <1>1, <1>2, <1>3, <1>4, <1>5, <1>7, SendingMove
<1>9. excused' \in SUBSET Topics /\ SentOnceUnlessExcused'
  BY <1>1, <1>2, <1>3 DEF NotifyInv, NotifyTypeOK, SentOnceUnlessExcused
<1> QED
  BY <1>2, <1>8, <1>9, SendKeeps DEF NotifyInv, NotifyTypeOK

\* The sender of a topic that is not excused is alone with it.
LEMMA Alone ==
  ASSUME NotifyInv, NEW s \in Senders, NEW x, sender' = [sender EXCEPT ![s] = x],
         NEW e \in Topics, Topic(s) = e, x.topic = e,
         sender[s].step \in {"recipients", "send", "log"}, e \notin excused
  PROVE  /\ OneSender(e) /\ ArrivedIsLogged(e) /\ LeftIsUnsent(e) /\ s \in Sending(e)
         /\ sender'[s] = x
         /\ \A t \in Senders, o \in Owners : Logging(t, e, o) => t = s
         /\ OneSender(e)' /\ \A t \in Senders : t \in Sending(e)' => t = s
<1>1. s \in Sending(e) /\ OneSender(e) /\ ArrivedIsLogged(e) /\ LeftIsUnsent(e)
  BY DEF NotifyInv, Orderly, Sending
<1>2. \A t \in Senders : sender'[t] = IF t = s THEN x ELSE sender[t]
  BY DEF NotifyInv, NotifyTypeOK
<1>3. ASSUME NEW t \in Senders, sender[t].step \in {"recipients", "send", "log"}, Topic(t) = e PROVE t = s
  BY <1>1, <1>3 DEF OneSender, Sending
<1>4. \A t \in Senders, o \in Owners : Logging(t, e, o) => t = s
  BY <1>3 DEF Logging, Does
<1>5. ASSUME NEW t \in Senders, t \in Sending(e)' PROVE t = s
  BY <1>2, <1>3, <1>5 DEF Sending, Topic
<1> QED
  BY <1>1, <1>2, <1>4, <1>5 DEF OneSender, Sending

\* Recipients are read before anything is sent.
LEMMA RecipientsStep == ASSUME NotifyInv, NEW s \in Senders, ReadRecipients(s) PROVE NotifyInv'
<1>1. PICK os \in SUBSET Owners :
        /\ sender' = [sender EXCEPT ![s].todo = os, ![s].step = IF os = {} THEN "close" ELSE "send"]
        /\ missed' = {m \in missed : m[1] = Topic(s) => m[2] \in os}
  BY DEF ReadRecipients
<1>2. /\ sender[s] \in SenderRecords /\ sender[s].step = "recipients"
      /\ UNCHANGED <<outbox, notifyLog, received, repeated, excused>>
  BY DEF ReadRecipients, Does, NotifyInv, NotifyTypeOK
<1>3. PICK e \in Topics : e = Topic(s)
  BY <1>2 DEF NotifyInv, SenderOK
<1> DEFINE x == [sender[s] EXCEPT !.todo = os, !.step = IF os = {} THEN "close" ELSE "send"]
<1>4. /\ x \in SenderRecords /\ x.topic = e /\ x.todo = os
      /\ x.step = IF os = {} THEN "close" ELSE "send"
  BY <1>2, <1>3 DEF SenderRecords, SenderSteps, Topic
<1>5. sender' = [sender EXCEPT ![s] = x]
  BY <1>1, <1>2 DEF NotifyInv, NotifyTypeOK, SenderRecords
<1> HIDE DEF x
<1>6. ASSUME e \notin excused' PROVE OneSender(e)' /\ ArrivedIsLogged(e)' /\ LeftIsUnsent(e)'
  <2>1. e \notin excused
    BY <1>2, <1>6
  <2>2. /\ LeftIsUnsent(e) /\ s \in Sending(e) /\ sender'[s] = x
        /\ OneSender(e)' /\ \A t \in Senders : t \in Sending(e)' => t = s
    BY <1>2, <1>3, <1>4, <1>5, <2>1, Alone
  <2>3. \A o \in Owners : <<e, o>> \notin received
    BY <1>2, <2>2 DEF LeftIsUnsent, Left, Does
  <2>4. Left(s)' \subseteq Owners
    BY <1>2, <1>4, <2>2 DEF Left, Does, SenderRecords
  <2> QED
    BY <1>2, <2>2, <2>3, <2>4 DEF ArrivedIsLogged, LeftIsUnsent, Sending
<1>7. /\ sender' \in [Senders -> SenderRecords]
      /\ \A t \in Senders : SenderOK(t)'
      /\ Orderly'
  BY <1>2, <1>3, <1>4, <1>5, <1>6, SendingMove
<1>8. missed' \in SUBSET (Topics \X Owners)
  BY <1>1 DEF NotifyInv, NotifyTypeOK
<1> QED
  BY <1>2, <1>7, <1>8, SendKeeps DEF NotifyInv, NotifyTypeOK, SentOnceUnlessExcused

\* A message goes to an owner nothing has gone to, by the one sender there is.
LEMMA MessageStep == ASSUME NotifyInv, NEW s \in Senders, SendMessage(s) PROVE NotifyInv'
<1>1. /\ sender[s] \in SenderRecords /\ sender[s].step = "send"
      /\ UNCHANGED <<outbox, notifyLog, excused>>
  BY DEF SendMessage, Does, NotifyInv, NotifyTypeOK
<1>2. PICK e \in Topics : e = Topic(s)
  BY <1>1 DEF NotifyInv, SenderOK
<1>3. PICK o \in sender[s].todo :
       /\ received' = received \cup {<<e, o>>}
       /\ repeated' = IF <<e, o>> \in received THEN repeated \cup {<<e, o>>} ELSE repeated
       /\ missed' = missed \ {<<e, o>>}
       /\ sender' = [sender EXCEPT ![s].step = "log", ![s].to = o]
  BY <1>2 DEF SendMessage
<1>4. o \in Owners
  BY <1>1 DEF SenderRecords
<1> DEFINE x == [sender[s] EXCEPT !.step = "log", !.to = o]
<1>5. x \in SenderRecords /\ x.topic = e /\ x.step = "log" /\ x.to = o /\ x.todo = sender[s].todo
  BY <1>1, <1>2, <1>4 DEF SenderRecords, SenderSteps, Topic
<1>6. sender' = [sender EXCEPT ![s] = x]
  BY <1>1, <1>3 DEF NotifyInv, NotifyTypeOK, SenderRecords
<1> HIDE DEF x
<1>7. ASSUME e \notin excused
      PROVE  <<e, o>> \notin received /\ OneSender(e)' /\ ArrivedIsLogged(e)' /\ LeftIsUnsent(e)'
  <2>1. /\ ArrivedIsLogged(e) /\ LeftIsUnsent(e) /\ s \in Sending(e) /\ sender'[s] = x
        /\ \A t \in Senders, p \in Owners : Logging(t, e, p) => t = s
        /\ OneSender(e)' /\ \A t \in Senders : t \in Sending(e)' => t = s
    BY <1>1, <1>2, <1>5, <1>6, <1>7, Alone
  <2>2. \A p \in sender[s].todo : <<e, p>> \notin received
    BY <1>1, <2>1 DEF LeftIsUnsent, Left, Does
  <2>3. Left(s)' = sender[s].todo \ {o}
    BY <1>5, <2>1 DEF Left, Does
  <2>4. LeftIsUnsent(e)'
    BY <1>3, <2>1, <2>2, <2>3 DEF LeftIsUnsent, Sending
  <2>5. Logging(s, e, o)'
    BY <1>5, <2>1 DEF Logging, Does, Topic
  <2>6. \A p \in Owners : ~Logging(s, e, p)
    BY <1>1 DEF Logging, Does
  <2>7. ArrivedIsLogged(e)'
    BY <1>1, <1>3, <2>1, <2>5, <2>6 DEF ArrivedIsLogged
  <2> QED
    BY <2>1, <2>2, <2>4, <2>7
<1>8. \A f \in Topics \ {e}, p \in Owners : <<f, p>> \in received' <=> <<f, p>> \in received
  BY <1>3
<1>9. /\ sender' \in [Senders -> SenderRecords]
      /\ \A t \in Senders : SenderOK(t)'
      /\ Orderly'
  BY <1>1, <1>2, <1>4, <1>5, <1>6, <1>7, <1>8, SendingMove
<1>10. SentOnceUnlessExcused'
  BY <1>1, <1>3, <1>7 DEF NotifyInv, SentOnceUnlessExcused
<1>11. /\ received' \in SUBSET (Topics \X Owners) /\ repeated' \in SUBSET (Topics \X Owners)
       /\ missed' \in SUBSET (Topics \X Owners)
  BY <1>3, <1>4 DEF NotifyInv, NotifyTypeOK
<1> QED
  BY <1>1, <1>9, <1>10, <1>11, SendKeeps DEF NotifyInv, NotifyTypeOK

\* A recipient is done with: what arrived is logged, and the sender does not come back to it.
LEMMA DoneStep ==
  ASSUME NotifyInv, NEW s \in Senders, NEW e \in Topics, e = Topic(s), NEW o \in Owners, NEW retry \in BOOLEAN,
         Done(s, o, retry), sender[s].step \in {"send", "log"},
         sender[s].step = "log" => sender[s].to = o /\ <<e, o>> \in notifyLog',
         excused \subseteq excused', notifyLog \subseteq notifyLog',
         e \notin excused' => received' = received,
         \A f \in Topics \ {e}, p \in Owners : <<f, p>> \in received' <=> <<f, p>> \in received
  PROVE  /\ sender' \in [Senders -> SenderRecords]
         /\ \A t \in Senders : SenderOK(t)'
         /\ Orderly'
<1>1. sender[s] \in SenderRecords
  BY DEF NotifyInv, NotifyTypeOK
<1> DEFINE x == [sender[s] EXCEPT !.step = IF sender[s].todo = {o} THEN "close" ELSE "send",
                                  !.todo = @ \ {o}, !.to = Nobody, !.retry = retry]
<1>2. /\ x \in SenderRecords /\ x.topic = e /\ x.todo = sender[s].todo \ {o}
      /\ x.step = IF sender[s].todo = {o} THEN "close" ELSE "send"
  BY <1>1 DEF SenderRecords, SenderSteps, Topic
<1>3. sender' = [sender EXCEPT ![s] = x]
  BY <1>1 DEF Done, NotifyInv, NotifyTypeOK, SenderRecords
<1> HIDE DEF x
<1>4. ASSUME e \notin excused' PROVE OneSender(e)' /\ ArrivedIsLogged(e)' /\ LeftIsUnsent(e)'
  <2>1. e \notin excused /\ received' = received
    BY <1>4
  <2>2. /\ ArrivedIsLogged(e) /\ LeftIsUnsent(e) /\ s \in Sending(e) /\ sender'[s] = x
        /\ \A t \in Senders, p \in Owners : Logging(t, e, p) => t = s
        /\ OneSender(e)' /\ \A t \in Senders : t \in Sending(e)' => t = s
    BY <1>2, <1>3, <2>1, Alone
  <2>3. \A p \in sender[s].todo \ {o} : <<e, p>> \notin received
    BY <2>2 DEF LeftIsUnsent, Left, Does
  <2>4. s \in Sending(e)' => Left(s)' = sender[s].todo \ {o}
    BY <1>2, <2>2 DEF Left, Does, Sending
  <2>5. LeftIsUnsent(e)'
    BY <2>1, <2>2, <2>3, <2>4 DEF LeftIsUnsent, Sending
  <2>6. ArrivedIsLogged(e)'
    <3> SUFFICES ASSUME NEW p \in Owners, <<e, p>> \in received PROVE <<e, p>> \in notifyLog'
      BY <2>1 DEF ArrivedIsLogged
    <3>1. <<e, p>> \in notifyLog \/ Logging(s, e, p)
      BY <2>2 DEF ArrivedIsLogged
    <3> QED
      BY <3>1 DEF Logging, Does
  <2> QED
    BY <2>2, <2>5, <2>6
<1>5. \A f \in Topics \ {e}, p \in Owners : <<f, p>> \in notifyLog => <<f, p>> \in notifyLog'
  OBVIOUS
<1> QED
  BY <1>2, <1>3, <1>4, <1>5, SendingMove

\* A refusal sends nothing.
LEMMA DeniedStep == ASSUME NotifyInv, NEW s \in Senders, SendDenied(s) PROVE NotifyInv'
<1>1. /\ sender[s] \in SenderRecords /\ sender[s].step = "send"
      /\ UNCHANGED <<outbox, notifyLog, received, repeated, excused>>
  BY DEF SendDenied, Does, NotifyInv, NotifyTypeOK
<1>2. PICK e \in Topics : e = Topic(s)
  BY <1>1 DEF NotifyInv, SenderOK
<1>3. PICK o \in sender[s].todo : Done(s, o, sender[s].retry) /\ missed' = missed \ {<<e, o>>}
  BY <1>2 DEF SendDenied
<1>4. o \in Owners /\ sender[s].retry \in BOOLEAN
  BY <1>1 DEF SenderRecords
<1>5. /\ sender' \in [Senders -> SenderRecords]
      /\ \A t \in Senders : SenderOK(t)'
      /\ Orderly'
  BY <1>1, <1>2, <1>3, <1>4, DoneStep
<1>6. missed' \in SUBSET (Topics \X Owners)
  BY <1>3 DEF NotifyInv, NotifyTypeOK
<1> QED
  BY <1>1, <1>5, <1>6, SendKeeps DEF NotifyInv, NotifyTypeOK, SentOnceUnlessExcused

\* A failure sends nothing, or the topic is excused.
LEMMA FailsStep == ASSUME NotifyInv, NEW s \in Senders, SendFails(s) PROVE NotifyInv'
<1>1. sender[s] \in SenderRecords /\ sender[s].step = "send" /\ UNCHANGED outbox
  BY DEF SendFails, Does, NotifyInv, NotifyTypeOK
<1>2. PICK e \in Topics : e = Topic(s)
  BY <1>1 DEF NotifyInv, SenderOK
<1>3. PICK o \in sender[s].todo :
       /\ missed' = IF s \in Dispatchers THEN missed \cup {<<e, o>>} ELSE missed
       /\ \/ UNCHANGED <<notifyLog, received, repeated, excused>>
          \/ /\ received' = received \cup {<<e, o>>}
             /\ repeated' = IF <<e, o>> \in received THEN repeated \cup {<<e, o>>} ELSE repeated
             /\ excused' = excused \cup {e}
             /\ UNCHANGED notifyLog
       /\ Done(s, o, TRUE)
  BY <1>2 DEF SendFails
<1>4. o \in Owners
  BY <1>1 DEF SenderRecords
<1>5. /\ excused \subseteq excused' /\ notifyLog' = notifyLog
      /\ e \notin excused' => received' = received
      /\ \A f \in Topics \ {e}, p \in Owners : <<f, p>> \in received' <=> <<f, p>> \in received
  BY <1>3
<1>6. /\ sender' \in [Senders -> SenderRecords]
      /\ \A t \in Senders : SenderOK(t)'
      /\ Orderly'
  BY <1>1, <1>2, <1>3, <1>4, <1>5, DoneStep
<1>7. /\ received' \in SUBSET (Topics \X Owners) /\ repeated' \in SUBSET (Topics \X Owners)
      /\ missed' \in SUBSET (Topics \X Owners) /\ excused' \in SUBSET Topics
  BY <1>3, <1>4 DEF NotifyInv, NotifyTypeOK
<1>8. SentOnceUnlessExcused'
  BY <1>3 DEF NotifyInv, SentOnceUnlessExcused
<1> QED
  BY <1>1, <1>5, <1>6, <1>7, <1>8, SendKeeps DEF NotifyInv, NotifyTypeOK

\* What the sender has sent is logged.
LEMMA LogStep == ASSUME NotifyInv, NEW s \in Senders, LogSent(s) PROVE NotifyInv'
<1>1. /\ sender[s] \in SenderRecords /\ sender[s].step = "log"
      /\ UNCHANGED <<outbox, received, repeated, excused, missed>>
  BY DEF LogSent, Does, NotifyInv, NotifyTypeOK
<1>2. PICK e \in Topics, o \in Owners : e = Topic(s) /\ o = sender[s].to
  BY <1>1 DEF NotifyInv, SenderOK
<1>3. notifyLog' = notifyLog \cup {<<e, o>>} /\ Done(s, o, sender[s].retry) /\ sender[s].retry \in BOOLEAN
  BY <1>1, <1>2 DEF LogSent, SenderRecords
<1>4. /\ sender' \in [Senders -> SenderRecords]
      /\ \A t \in Senders : SenderOK(t)'
      /\ Orderly'
  BY <1>1, <1>2, <1>3, DoneStep
<1>5. notifyLog' \in SUBSET (Topics \X Owners)
  BY <1>2, <1>3 DEF NotifyInv, NotifyTypeOK
<1> QED
  BY <1>1, <1>4, <1>5, SendKeeps DEF NotifyInv, NotifyTypeOK, SentOnceUnlessExcused

\* A sender that gives up, or dies, leaves an unlogged message excused.
LEMMA GiveUpStep == ASSUME NotifyInv, NEW s \in Senders, Throw(s) \/ Crash(s) PROVE NotifyInv'
<1>1. /\ excused' = Unlogged(s) /\ UNCHANGED <<outbox, notifyLog, received, repeated, missed>>
      /\ \/ sender' = [sender EXCEPT ![s] = AfterTopic(s)]
         \/ sender' = [sender EXCEPT ![s] = Resting]
  BY DEF Throw, Crash, NextOne
<1>2. sender[s].step # "log" \/ Topic(s) \in excused'
  BY <1>1 DEF Unlogged, Does
<1>3. excused \subseteq excused' /\ excused' \in SUBSET Topics
  BY <1>1 DEF Unlogged, Does, NotifyInv, NotifyTypeOK, SenderOK
<1>4. PICK x \in SenderRecords : sender' = [sender EXCEPT ![s] = x] /\ x.step \in {"idle", "next"}
  <2>1. Resting \in SenderRecords /\ Resting.step = "idle"
    BY DEF Resting, SenderRecords, SenderSteps
  <2> QED
    BY <1>1, <2>1, AfterTopicIs DEF NotifyInv
<1>5. /\ sender' \in [Senders -> SenderRecords]
      /\ \A t \in Senders : SenderOK(t)'
      /\ Orderly' /\ SentOnceUnlessExcused'
  BY <1>1, <1>2, <1>3, <1>4, QuietSender
<1> QED
  BY <1>1, <1>3, <1>5, SendKeeps DEF NotifyInv, NotifyTypeOK

-----------------------------------------------------------------------------
\* Every step keeps the invariant.
LEMMA NotifyNextInv == NotifyInv /\ [NotifyNext]_notifyVars => NotifyInv'
<1> SUFFICES ASSUME NotifyInv, [NotifyNext]_notifyVars PROVE NotifyInv'
  OBVIOUS
<1>1. ASSUME NEW e \in Topics, Enqueue(e) \/ LeaseExpires(e) \/ BecomesDue(e) PROVE NotifyInv'
  BY <1>1, EnqueueStep, TimeStep
<1>2. ASSUME NEW w \in Dispatchers, Sweep(w) \/ ClaimBatch(w) \/ CloseEvent(w) \/ Report(w) PROVE NotifyInv'
  BY <1>2, SweepStep, ClaimStep, CloseEventStep, ReportStep
<1>3. ASSUME NEW r \in Reminders, EndReminder(r) \/ \E e \in Topics : Remind(r, e) PROVE NotifyInv'
  BY <1>3, RemindStep
<1>4. ASSUME NEW s \in Senders, StartTopic(s) \/ ReadRecipients(s) PROVE NotifyInv'
  BY <1>4, StartTopicStep, RecipientsStep
<1>5. ASSUME NEW s \in Senders, SendMessage(s) \/ SendDenied(s) \/ SendFails(s) \/ LogSent(s) PROVE NotifyInv'
  BY <1>5, MessageStep, DeniedStep, FailsStep, LogStep
<1>6. ASSUME NEW s \in Senders, Throw(s) \/ Crash(s) PROVE NotifyInv'
  BY <1>6, GiveUpStep
<1>7. CASE UNCHANGED notifyVars
  <2>1. GivenUpFailed' /\ NotifyTypeOK'
    BY <1>7 DEF NotifyInv, GivenUpFailed, NotifyTypeOK, notifyVars, outbox, messages
  <2> QED
    BY <1>7, <2>1, OutboxStep DEF NotifyInv, notifyVars
<1> QED
  BY <1>1, <1>2, <1>3, <1>4, <1>5, <1>6, <1>7 DEF NotifyNext

\* The invariant holds in every reachable state.
THEOREM NotifyInvariance == NotifySpec => []NotifyInv
  BY NotifyInitInv, NotifyNextInv, PTL DEF NotifySpec

\* The variables keep their types.
THEOREM NotifyTypeCorrect == NotifySpec => []NotifyTypeOK
<1>1. NotifyInv => NotifyTypeOK
  BY DEF NotifyInv
<1> QED
  BY <1>1, NotifyInvariance, PTL

\* Nobody gets a message twice unless it is excused (the duplicate check of send in
\* notify.service.ts, with retries, leases that are taken over, and reminders).
THEOREM SentOnce == NotifySpec => []SentOnceUnlessExcused
<1>1. NotifyInv => SentOnceUnlessExcused
  BY DEF NotifyInv
<1> QED
  BY <1>1, NotifyInvariance, PTL

\* No step takes up an event that was published or given up.
LEMMA ClosedStep ==
  ASSUME NotifyInv, [NotifyNext]_notifyVars, NEW e \in Topics, eventStatus[e] = "PUBLISHED" \/ e \in givenUp
  PROVE  eventStatus'[e] = eventStatus[e] /\ attempts'[e] = attempts[e]
<1> DEFINE Kept == eventStatus'[e] = eventStatus[e] /\ attempts'[e] = attempts[e]
<1>0. eventStatus[e] = "PUBLISHED" \/ (eventStatus[e] = "FAILED" /\ e \in givenUp)
  BY DEF NotifyInv, GivenUpFailed
<1>1. ASSUME NEW f \in Topics, Enqueue(f) \/ LeaseExpires(f) \/ BecomesDue(f) PROVE Kept
  BY <1>0, <1>1 DEF Enqueue, LeaseExpires, BecomesDue, NotifyInv, NotifyTypeOK
<1>2. ASSUME NEW w \in Dispatchers, Sweep(w) PROVE Kept
  BY <1>0, <1>2 DEF Sweep, Exhausted, Expired
<1>3. ASSUME NEW w \in Dispatchers, ClaimBatch(w) PROVE Kept
  BY <1>0, <1>3 DEF ClaimBatch, Claimable, Expired
<1>4. ASSUME NEW w \in Dispatchers, CloseEvent(w) PROVE Kept
  BY <1>0, <1>4 DEF CloseEvent, OwnsLease, NotifyInv, NotifyTypeOK
<1>5. ASSUME NEW w \in Dispatchers, Report(w) PROVE Kept
  BY <1>5 DEF Report
<1>6. ASSUME NEW r \in Reminders, EndReminder(r) \/ \E f \in Topics : Remind(r, f) PROVE Kept
  BY <1>6 DEF EndReminder, Remind, outbox
<1>7. ASSUME NEW s \in Senders,
             \/ StartTopic(s) \/ ReadRecipients(s) \/ SendMessage(s) \/ SendDenied(s)
             \/ SendFails(s) \/ LogSent(s) \/ Throw(s) \/ Crash(s)
      PROVE  Kept
  BY <1>7 DEF StartTopic, ReadRecipients, SendMessage, SendDenied, SendFails, LogSent, Throw, Crash, outbox
<1>8. CASE UNCHANGED notifyVars
  BY <1>8 DEF notifyVars, outbox
<1> QED
  BY <1>1, <1>2, <1>3, <1>4, <1>5, <1>6, <1>7, <1>8 DEF NotifyNext

\* An event that was published or given up is never taken up again (lockOwnedLease).
THEOREM ClosedForGood == NotifySpec => ClosedIsFinal
<1>1. NotifyInv /\ [NotifyNext]_notifyVars
      => [\A e \in Topics : eventStatus[e] = "PUBLISHED" \/ e \in givenUp
            => eventStatus'[e] = eventStatus[e] /\ attempts'[e] = attempts[e]]_notifyVars
  BY ClosedStep
<1> QED
  BY <1>1, NotifyInvariance, PTL DEF NotifySpec, ClosedIsFinal
=============================================================================
