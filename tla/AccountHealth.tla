--------------------------- MODULE AccountHealth ---------------------------
(***************************************************************************)
(* One receiving number: whether new intents are sent to it, what its      *)
(* phone's beats and captures say of it, and what the health jobs and the  *)
(* admin make of that.                                                     *)
(***************************************************************************)
EXTENDS Naturals, FiniteSets

CONSTANT Sweeps    \* the runs of the health jobs that may overlap: the worker's, a cron's

ASSUME AccountAssumption == IsFiniteSet(Sweeps)

VARIABLES
    standing,   \* receiving_accounts.status
    drift,      \* receiving_accounts.balance_drift
    beat,       \* last_heartbeat_at: null, within the gap allowed, or older
    capture,    \* last_capture_at: null, within the silence allowed, or older
    alerts,     \* open notifier_events by kind
    job         \* where each sweep is between a job's statements

status == <<standing, drift>>
watch  == <<beat, capture>>
jobs   == <<alerts, job>>
accountVars == <<status, watch, jobs>>

Kinds == {"heartbeat_gap", "capture_silence"}

-----------------------------------------------------------------------------
(* Helpers *)

\* What a health job lists the number for: never heard of, or too long ago.
LastOf(kind) == IF kind = "heartbeat_gap" THEN beat ELSE capture
Overdue_Null(kind) == LastOf(kind) = "old"
Overdue(kind) == LastOf(kind) # "recent"

-----------------------------------------------------------------------------
(* Initial state: createReceivingAccount *)

AccountInit ==
    /\ standing = "disabled" /\ drift = FALSE
    /\ beat = "never" /\ capture = "never"
    /\ alerts = [kind \in Kinds |-> 0]
    /\ job = [s \in Sweeps |-> [kind \in Kinds |-> "idle"]]

-----------------------------------------------------------------------------
(* The admin *)

\* setAccountStatus: enabling forgets the drift.
Enable ==
    /\ standing' = "active"
    /\ drift' = FALSE
    /\ UNCHANGED <<watch, jobs>>

Disable ==
    /\ standing' = "disabled"
    /\ UNCHANGED <<drift, watch, jobs>>

AcknowledgeAlert(kind) ==
    /\ alerts[kind] > 0
    /\ alerts' = [alerts EXCEPT ![kind] = @ - 1]
    /\ UNCHANGED <<status, watch, job>>

-----------------------------------------------------------------------------
(* The phone, its messages and the passing of time *)

\* The heartbeat route, for any device of the number: it changes no standing.
BeatArrives_Recovers ==
    /\ beat' = "recent"
    /\ standing' = "active"
    /\ UNCHANGED <<drift, capture, jobs>>
BeatArrives ==
    /\ beat' = "recent"
    /\ UNCHANGED <<status, capture, jobs>>

\* HEARTBEAT_GAP_ALERT_MINUTES go by without a beat of the phone.
BeatAges ==
    /\ beat = "recent"
    /\ beat' = "old"
    /\ UNCHANGED <<status, capture, jobs>>

\* CAPTURE_SILENCE_ALERT_HOURS go by without a message.
CaptureAges ==
    /\ capture = "recent"
    /\ capture' = "old"
    /\ UNCHANGED <<status, beat, jobs>>

\* A message about the number gets its row.
MessageRecorded ==
    /\ capture' = "recent"
    /\ UNCHANGED <<status, beat, jobs>>

\* What a critical drift does to the number (module Balance says when).
Stop ==
    /\ drift' = TRUE
    /\ standing' = "degraded"

DriftFound ==
    /\ Stop
    /\ capture' = "recent"
    /\ UNCHANGED <<beat, jobs>>

-----------------------------------------------------------------------------
(* The health jobs: a list, then for the number on it a look for an open   *)
(* alert, the alert, and for a heartbeat gap the status, each a statement   *)
(* of its own.                                                             *)

Advance(s, kind, from, to) ==
    /\ job[s][kind] = from
    /\ job' = [job EXCEPT ![s][kind] = to]

\* Only numbers in rotation (and silence between nine and ten at night only).
ListOverdue(s, kind) ==
    /\ Advance(s, kind, "idle", "listed")
    /\ standing = "active"
    /\ Overdue(kind)
    /\ UNCHANGED <<status, watch, alerts>>

\* "Do not re-alert while the same gap is still open and unacknowledged."
LookForAlert_Forgotten(s, kind) ==
    /\ Advance(s, kind, "listed", "alerting")
    /\ UNCHANGED <<status, watch, alerts>>
LookForAlert(s, kind) ==
    /\ Advance(s, kind, "listed", IF alerts[kind] > 0 THEN "idle" ELSE "alerting")
    /\ UNCHANGED <<status, watch, alerts>>

RaiseAlert(s, kind) ==
    /\ Advance(s, kind, "alerting", IF kind = "heartbeat_gap" THEN "degrading" ELSE "idle")
    /\ alerts' = [alerts EXCEPT ![kind] = @ + 1]
    /\ UNCHANGED <<status, watch>>

\* By id alone, whatever the number has become since it was listed.
Degrade(s) ==
    /\ Advance(s, "heartbeat_gap", "degrading", "idle")
    /\ standing' = "degraded"
    /\ UNCHANGED <<drift, watch, alerts>>

JobDies(s, kind) ==
    /\ job[s][kind] # "idle"
    /\ job' = [job EXCEPT ![s][kind] = "idle"]
    /\ UNCHANGED <<status, watch, alerts>>

-----------------------------------------------------------------------------
(* Next-state relation *)

Check(s, kind) == ListOverdue(s, kind) \/ LookForAlert(s, kind) \/ RaiseAlert(s, kind)

AccountNext ==
    \/ Enable
    \/ Disable
    \/ BeatArrives
    \/ BeatAges
    \/ CaptureAges
    \/ MessageRecorded
    \/ DriftFound
    \/ \E kind \in Kinds : AcknowledgeAlert(kind)
    \/ \E s \in Sweeps : Degrade(s)
    \/ \E s \in Sweeps, kind \in Kinds : Check(s, kind) \/ JobDies(s, kind)

-----------------------------------------------------------------------------
(* Properties *)

\* Types.
AccountTypeOK ==
    /\ standing \in {"active", "degraded", "disabled"}
    /\ drift \in BOOLEAN
    /\ {beat, capture} \subseteq {"never", "recent", "old"}
    /\ alerts \in [Kinds -> Nat]
    /\ job \in [Sweeps -> [Kinds -> {"idle", "listed", "alerting", "degrading"}]]

\* A drift stays out of the rotation until somebody enables the number again,
\* whatever jobs, beats and messages come meanwhile.
DriftIsOffRoute == drift => standing # "active"

\* "One alert per gap, not one per sweep": as many are open as sweeps can
\* overlap, one where they do not, however often a number goes and comes back.
OneAlertPerGap == \A kind \in Kinds : alerts[kind] <= Cardinality(Sweeps)

\* The number is out of rotation, or its phone was heard of, or somebody is told.
Noticed(kind) == standing # "active" \/ LastOf(kind) = "recent" \/ alerts[kind] > 0
=============================================================================
