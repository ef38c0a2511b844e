------------------------------------ MODULE Desk ------------------------------------
(***************************************************************************)
(* The service desk: tickets (tickets.service.ts), orders of services      *)
(* (services.service.ts) and visitor passes (visitors.service.ts).  A      *)
(* handler reads the row, compares its status, and updates it: WHERE id in *)
(* most of them, WHERE status = ACTIVE for the gate and for the lazy       *)
(* expiry of passes.                                                       *)
(*                                                                         *)
(* One row of each kind, created by the owner in its first status.  Names, *)
(* prices and pictures are left out; a rating does not change the status   *)
(* and counts as a row of its own.                                         *)
(***************************************************************************)
EXTENDS Naturals

CONSTANT Clients  \* owners, gates and administrators at work at once

Rows == {"ticket", "rating", "order", "pass"}
First == [ticket |-> "PENDING", rating |-> "NONE", order |-> "PENDING", pass |-> "ACTIVE"]
Last  == [ticket |-> {"DONE", "CLOSED"}, rating |-> {"RATED"}, order |-> {"DONE", "CANCELED"},
          pass |-> {"USED", "CANCELED", "EXPIRED"}]

Move(row, from, to, asks) == [row |-> row, from |-> from, to |-> to, asks |-> asks]

\* Fault: the gate does not ask for the status again.
VerifyBlind  == Move("pass", {"ACTIVE"}, "USED", FALSE)

\* row, the statuses the guard lets pass, the new status, and whether the update asks again
Process      == Move("ticket", {"PENDING"}, "PROCESSING", FALSE)
Reply        == Move("ticket", {"PROCESSING"}, "DONE", FALSE)
CloseTicket  == Move("ticket", {"PENDING", "PROCESSING"}, "CLOSED", FALSE)
Rate         == Move("rating", {"NONE"}, "RATED", FALSE)
CancelOrder  == Move("order", {"PENDING"}, "CANCELED", FALSE)
Accept       == Move("order", {"PENDING"}, "ACCEPTED", FALSE)
DoneOrder    == Move("order", {"ACCEPTED"}, "DONE", FALSE)
AdminCancel  == Move("order", {"PENDING", "ACCEPTED"}, "CANCELED", FALSE)
Verify       == Move("pass", {"ACTIVE"}, "USED", TRUE)
CancelPass   == Move("pass", {"ACTIVE"}, "CANCELED", FALSE)
Moves == {Process, Reply, CloseTicket, Rate, CancelOrder, Accept, DoneOrder, AdminCancel, Verify, CancelPass}
NoMove == Move("none", {}, "none", FALSE)

VARIABLES
  rowStatus,  \* the status of each row
  today,      \* it is still the day of the pass
  endings,    \* history: how often each row was brought to an end
  overtaken,  \* history: rows with a blind update after another's
  client      \* what each client read and is going to write

deskVars == <<rowStatus, today, endings, overtaken, client>>

DeskTypeOK ==
  /\ rowStatus \in [Rows -> {"NONE", "RATED", "PENDING", "PROCESSING", "DONE", "CLOSED", "ACCEPTED",
                             "CANCELED", "ACTIVE", "USED", "EXPIRED"}]
  /\ today \in BOOLEAN
  /\ endings \in [Rows -> Nat] /\ overtaken \in SUBSET Rows
  /\ client \in [Clients -> [move : Moves \cup {NoMove}, fresh : BOOLEAN]]

AtRest == [move |-> NoMove, fresh |-> FALSE]

DeskInit ==
  /\ rowStatus = First /\ today = TRUE
  /\ endings = [r \in Rows |-> 0] /\ overtaken = {}
  /\ client = [c \in Clients |-> AtRest]

\* Writing makes the look of everybody else at the row stale.
Wrote(row, after) == [c \in DOMAIN after |-> IF after[c].move.row = row THEN [after[c] EXCEPT !.fresh = FALSE] ELSE after[c]]

\* The guards: a rating needs a ticket that is done, the gate the day of the pass.
Look(c, m) ==
  /\ client[c] = AtRest
  /\ rowStatus[m.row] \in m.from
  /\ m = Rate => rowStatus["ticket"] = "DONE"
  /\ m = Verify => today
  /\ client' = [client EXCEPT ![c] = [move |-> m, fresh |-> TRUE]]
  /\ UNCHANGED <<rowStatus, today, endings, overtaken>>

\* The update; one that asks again and finds the row changed reports that to the client.
Update(c) ==
  LET m == client[c].move
      row == m.row
      after == [client EXCEPT ![c] = AtRest] IN
  /\ client[c] # AtRest
  /\ IF m.asks /\ rowStatus[row] \notin m.from
     THEN client' = after /\ UNCHANGED <<rowStatus, endings, overtaken>>
     ELSE /\ rowStatus' = [rowStatus EXCEPT ![row] = m.to]
          /\ endings' = IF m.to \in Last[row] THEN [endings EXCEPT ![row] = @ + 1] ELSE endings
          /\ overtaken' = IF client[c].fresh \/ m = Verify THEN overtaken
                          ELSE overtaken \cup {row}
          /\ client' = Wrote(row, after)
  /\ UNCHANGED today

ClientGivesUp(c) ==
  /\ client[c] # AtRest
  /\ client' = [client EXCEPT ![c] = AtRest]
  /\ UNCHANGED <<rowStatus, today, endings, overtaken>>

\* Midnight in Shanghai; lazyExpire marks the pass when its owner lists the passes.
DayEnds ==
  /\ today
  /\ today' = FALSE
  /\ UNCHANGED <<rowStatus, endings, overtaken, client>>

LazyExpire ==
  /\ ~today /\ rowStatus["pass"] = "ACTIVE"
  /\ rowStatus' = [rowStatus EXCEPT !["pass"] = "EXPIRED"]
  /\ endings' = [endings EXCEPT !["pass"] = @ + 1]
  /\ client' = Wrote("pass", client)
  /\ UNCHANGED <<today, overtaken>>

DeskNext ==
  \/ \E c \in Clients : Update(c) \/ ClientGivesUp(c) \/ \E m \in Moves : Look(c, m)
  \/ DayEnds \/ LazyExpire

DeskSpec == DeskInit /\ [][DeskNext]_deskVars

-----------------------------------------------------------------------------
(* Properties *)

\* A pass lets one visitor in, though two gates scan it at once, its owner cancels it and
\* its day ends; a ticket, a rating and an order are brought to one end.  Excused is a
\* row to which an update WHERE id came after another's (the comment of verify in
\* visitors.service.ts on two gates; the other handlers have the shape it warns of).
EndsOnceUnlessOvertaken == \A r \in Rows \ overtaken : endings[r] <= 1

=============================================================================
