--------------------------------- MODULE Incidents ---------------------------------
(***************************************************************************)
(* Alerts and incidents: a failure that occurs again and again is one      *)
(* alert and, when critical, one incident (emit in alert.service.ts,       *)
(* openOrReopen in incident.service.ts), which administrators acknowledge  *)
(* and resolve.  No transaction and no condition: each reads the row and   *)
(* then updates it by its id.                                              *)
(*                                                                         *)
(* One dedupKey of one tenant.  The counters are incremented by the        *)
(* database.  Of emitters that find no row the first creates it; the       *)
(* others lose the unique key, throw, and their occurrence is counted      *)
(* nowhere.                                                                *)
(* The number of a delivery attempt is the count the emitter read plus     *)
(* one, unique for the alert.                                              *)
(***************************************************************************)
EXTENDS Integers, FiniteSets

CONSTANTS
  Emitters,       \* handlers and jobs that emit the alert
  Operators,      \* administrators who acknowledge or resolve
  MaxOccurrences  \* a bound on the number of occurrences

ASSUME IncidentsAssumption == MaxOccurrences \in Nat /\ IsFiniteSet(Emitters)

Counts == 0..MaxOccurrences

VARIABLES
  alert,      \* OperationalAlert: status and occurrences, "NONE" before it exists
  deliveries, \* attemptNo of the AlertAttempt rows
  incident,   \* Incident: status and occurrences
  due,        \* history: occurrences that found the alert, and the incident, there, less
              \* those whose emitter died before it counted them
  begun,      \* history: how many occurrences there were (for the bound)
  news,       \* history: an occurrence nobody had seen when the last decision began
  crossed,    \* history: see RecurrenceIsOpenUnlessCrossed
  emitter,    \* what each emitter is doing
  operator    \* the transition each administrator is in the middle of

incidentVars == <<alert, deliveries, incident, due, begun, news, crossed, emitter, operator>>

AlertStatuses    == {"NONE", "OPEN", "DELIVERED", "FAILED"}
IncidentStatuses == {"NONE", "OPEN", "ACKNOWLEDGED", "RESOLVED"}
EmitterSteps     == {"idle", "alert", "find", "incident", "deliver", "status"}
Silent           == [step |-> "idle", new |-> FALSE, no |-> 0, saw |-> "NONE", ok |-> FALSE]

IncidentTypeOK ==
  /\ alert \in [status : AlertStatuses, occurrences : Counts]
  /\ deliveries \in SUBSET Counts
  /\ incident \in [status : IncidentStatuses, occurrences : Counts]
  /\ due \in [alert : Counts, incident : Counts] /\ begun \in Counts
  /\ news \in BOOLEAN /\ crossed \in BOOLEAN
  /\ emitter \in [Emitters -> [step : EmitterSteps, new : BOOLEAN, no : Counts,
                               saw : IncidentStatuses, ok : BOOLEAN]]
  /\ operator \in [Operators -> {"none", "ACKNOWLEDGED", "RESOLVED"}]

IncidentInit ==
  /\ alert = [status |-> "NONE", occurrences |-> 0] /\ deliveries = {}
  /\ incident = [status |-> "NONE", occurrences |-> 0]
  /\ due = [alert |-> 0, incident |-> 0] /\ begun = 0
  /\ news = FALSE /\ crossed = FALSE
  /\ emitter = [e \in Emitters |-> Silent]
  /\ operator = [a \in Operators |-> "none"]

EmitterAt(e, step) == emitter[e].step = step
EmitterGoes(e, step) == emitter' = [emitter EXCEPT ![e].step = step]
Falls(e)           == emitter' = [emitter EXCEPT ![e] = Silent]
\* Emitters that found the row there and have not counted their occurrence yet.
LateAlerts         == {e \in Emitters : EmitterAt(e, "alert") /\ ~emitter[e].new}
LateIncidents      == {e \in Emitters : EmitterAt(e, "incident") /\ emitter[e].saw # "NONE"}
One(there)         == IF there THEN 1 ELSE 0
Deciding           == \E a \in Operators : operator[a] # "none"

-----------------------------------------------------------------------------
(* emit *)

\* operationalAlert.findUnique; the number of this occurrence is what it reads plus one.
FindAlert(e) ==
  /\ EmitterAt(e, "idle") /\ begun < MaxOccurrences
  /\ begun' = begun + 1
  /\ emitter' = [emitter EXCEPT ![e] = [Silent EXCEPT !.step = "alert", !.new = (alert.status = "NONE"),
                                                      !.no = alert.occurrences + 1]]
  /\ due' = [due EXCEPT !.alert = @ + One(alert.status # "NONE")]
  /\ UNCHANGED <<alert, deliveries, incident, news, crossed, operator>>

\* Fault: the count that was read is written back.
WrittenBack(e) == emitter[e].no
\* occurrences: { increment: 1 }
Incremented(e) == alert.occurrences + 1

\* create or update; who loses the unique key throws, and safeEmit only logs it.
WriteAlert(e) ==
  /\ EmitterAt(e, "alert")
  /\ IF emitter[e].new /\ alert.status # "NONE"
     THEN Falls(e) /\ UNCHANGED alert
     ELSE /\ alert' = [status |-> IF emitter[e].new THEN "OPEN" ELSE alert.status,
                       occurrences |-> Incremented(e)]
          /\ EmitterGoes(e, "find")
  /\ UNCHANGED <<deliveries, incident, due, begun, news, crossed, operator>>

\* openOrReopen: incident.findUnique
FindIncident(e) ==
  /\ EmitterAt(e, "find")
  /\ emitter' = [emitter EXCEPT ![e].step = "incident", ![e].saw = incident.status]
  /\ due' = [due EXCEPT !.incident = @ + One(incident.status # "NONE")]
  /\ UNCHANGED <<alert, deliveries, incident, begun, news, crossed, operator>>

\* Fault: a resolved incident is only counted.
ReopenedNot(e) == incident.status
\* What a recurrence makes of the incident: only a resolved one is opened again.
Reopened(e) == IF emitter[e].saw \in {"NONE", "RESOLVED"} THEN "OPEN" ELSE incident.status

\* create, reopen or count; who loses the unique key throws.
WriteIncident(e) ==
  /\ EmitterAt(e, "incident")
  /\ IF emitter[e].saw = "NONE" /\ incident.status # "NONE"
     THEN Falls(e) /\ UNCHANGED incident
     ELSE /\ incident' = [status |-> IF incident.status = "NONE" THEN "OPEN" ELSE Reopened(e),
                          occurrences |-> incident.occurrences + 1]
          /\ EmitterGoes(e, "deliver")
  /\ news' = TRUE
  /\ crossed' = (crossed \/ Deciding)
  /\ UNCHANGED <<alert, deliveries, due, begun, operator>>

\* The webhook answers or not, then the attempt is recorded: a number that is taken throws.
Deliver(e, ok) ==
  /\ EmitterAt(e, "deliver")
  /\ IF emitter[e].no \in deliveries
     THEN Falls(e) /\ UNCHANGED deliveries
     ELSE /\ deliveries' = deliveries \cup {emitter[e].no}
          /\ emitter' = [emitter EXCEPT ![e].step = "status", ![e].ok = ok]
  /\ UNCHANGED <<alert, incident, due, begun, news, crossed, operator>>

SetAlertStatus(e) ==
  /\ EmitterAt(e, "status")
  /\ alert' = [alert EXCEPT !.status = IF emitter[e].ok THEN "DELIVERED" ELSE "FAILED"]
  /\ Falls(e)
  /\ UNCHANGED <<deliveries, incident, due, begun, news, crossed, operator>>

\* A call throws or the process dies.
EmitterDies(e) ==
  /\ ~EmitterAt(e, "idle")
  /\ due' = [alert |-> due.alert - One(e \in LateAlerts), incident |-> due.incident - One(e \in LateIncidents)]
  /\ Falls(e)
  /\ UNCHANGED <<alert, deliveries, incident, begun, news, crossed, operator>>

-----------------------------------------------------------------------------
(* acknowledge and resolve *)

\* The guards, on what was loaded.
May(status) == IF status = "ACKNOWLEDGED" THEN incident.status = "OPEN"
               ELSE incident.status \in {"OPEN", "ACKNOWLEDGED"}

\* Whoever loads the incident sees every occurrence so far.
LoadIncident(a, status) ==
  /\ operator[a] = "none" /\ May(status)
  /\ operator' = [operator EXCEPT ![a] = status]
  /\ news' = FALSE
  /\ UNCHANGED <<alert, deliveries, incident, due, begun, crossed, emitter>>

Transit(a) ==
  /\ operator[a] # "none"
  /\ incident' = [incident EXCEPT !.status = operator[a]]
  /\ operator' = [operator EXCEPT ![a] = "none"]
  /\ crossed' = (crossed \/ \E e \in Emitters : EmitterAt(e, "incident"))
  /\ UNCHANGED <<alert, deliveries, due, begun, news, emitter>>

IncidentNext ==
  \/ \E e \in Emitters : \/ FindAlert(e) \/ WriteAlert(e) \/ FindIncident(e) \/ WriteIncident(e)
                         \/ SetAlertStatus(e) \/ EmitterDies(e) \/ \E ok \in BOOLEAN : Deliver(e, ok)
  \/ \E a \in Operators : Transit(a) \/ \E status \in {"ACKNOWLEDGED", "RESOLVED"} : LoadIncident(a, status)

IncidentSpec == IncidentInit /\ [][IncidentNext]_incidentVars

-----------------------------------------------------------------------------
(* Properties *)

\* Whatever the emitters do at the same time, each row counts the occurrence that created
\* it and every one that found it there, but for those whose emitter died.  What is lost
\* looked for the row before it was written: state-transitions.spec.ts has it that
\* the counts are incremented atomically and that a count one short costs nothing.
OccurrencesAreCounted ==
  /\ alert.occurrences + Cardinality(LateAlerts) = due.alert + One(alert.status # "NONE")
  /\ incident.occurrences + Cardinality(LateIncidents) = due.incident + One(incident.status # "NONE")

\* An occurrence that got as far as the incident, and that nobody had seen when the last
\* decision began, is not behind a resolved incident, unless the occurrence or the
\* decision was written between the other's read and write: neither update asks for the
\* status it has read.
RecurrenceIsOpenUnlessCrossed == news /\ ~crossed => incident.status \in {"OPEN", "ACKNOWLEDGED"}

\* The two together (the class comment of IncidentService: deduplicated, and opened again
\* when it recurs after it was resolved).
FailuresStayVisible == OccurrencesAreCounted /\ RecurrenceIsOpenUnlessCrossed

=============================================================================
