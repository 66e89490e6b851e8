------------------------------- MODULE Bridge -------------------------------
(***************************************************************************)
(* The Messages bridge: a process that reads a wallet's texts off a web     *)
(* page and posts them to the server, for one receiving number.  Its polls  *)
(* run on a timer that waits for no poll, its list of texts already posted  *)
(* outlives it only as of the last save, and the number takes texts only    *)
(* while it is in rotation.                                                *)
(***************************************************************************)
EXTENDS AccountHealth, FiniteSetsExt

CONSTANTS
    Polls,      \* polls that may be under way at once
    MaxTexts,   \* bound on the wallet's texts
    PageLength  \* texts of a conversation the page shows (25 in the code)

ASSUME BridgeAssumption == IsFiniteSet(Polls) /\ MaxTexts \in Nat /\ PageLength \in Nat

VARIABLES
    texts,      \* texts in the wallet's conversation so far
    page,       \* "ok", or what session.health would find wrong
    findable,   \* whether the page's list items match the selectors
    running,    \* whether the process is up
    health,     \* lastHealth: "ok" or the fault
    seen,       \* state.seen
    saved,      \* the state file's seen
    poll,       \* each poll: where it is, and the texts it has yet to forward
    stored      \* texts the server has rows for

bridgeVars == <<texts, page, findable, running, health, seen, saved, poll, stored>>

Texts   == 1 .. MaxTexts
Faults  == {"signed_out", "unreachable"}
Visible == {t \in 1 .. texts : t > texts - PageLength}
NoPoll  == [at |-> "idle", left |-> {}]

-----------------------------------------------------------------------------
(* Initial state: a provisioned bridge that has not been started *)

BridgeInit ==
    /\ texts = 0 /\ page = "ok" /\ findable = TRUE
    /\ running = FALSE /\ health = "starting"
    /\ seen = {} /\ saved = {} /\ stored = {}
    /\ poll = [q \in Polls |-> NoPoll]

-----------------------------------------------------------------------------
(* The page, which belongs to somebody else *)

TextArrives ==
    /\ texts < MaxTexts
    /\ texts' = texts + 1
    /\ UNCHANGED <<page, findable, running, health, seen, saved, poll, stored, accountVars>>

\* The pairing expires or the markup changes, and somebody is needed; or the
\* tab dies.
PageBreaks ==
    /\ page = "ok"
    /\ page' \in Faults
    /\ UNCHANGED <<texts, findable, running, health, seen, saved, poll, stored, accountVars>>

SomebodyRepairs ==
    /\ page # "ok"
    /\ page' = "ok"
    /\ UNCHANGED <<texts, findable, running, health, seen, saved, poll, stored, accountVars>>

\* The list is still there and its items are no longer recognised.
ItemsChange ==
    /\ findable' = ~findable
    /\ UNCHANGED <<texts, page, running, health, seen, saved, poll, stored, accountVars>>

-----------------------------------------------------------------------------
(* The process *)

Start ==
    /\ ~running
    /\ running' = TRUE
    /\ health' = "starting"
    /\ seen' = saved
    /\ UNCHANGED <<texts, page, findable, saved, poll, stored, accountVars>>

\* A crash keeps what was saved; a shutdown saves first.
End ==
    /\ running
    /\ running' = FALSE
    /\ poll' = [q \in Polls |-> NoPoll]
    /\ saved' \in {saved, seen}
    /\ UNCHANGED <<texts, page, findable, health, seen, stored, accountVars>>

\* The timer fires, whatever poll is under way.
StartPoll(q) ==
    /\ running
    /\ poll[q] = NoPoll
    /\ poll' = [poll EXCEPT ![q].at = "checking"]
    /\ UNCHANGED <<texts, page, findable, running, health, seen, saved, stored, accountVars>>

\* A fault is kept for beat and alerted when it is a new one; the one a reload
\* can mend is reloaded.
FindFault(q) ==
    /\ poll[q].at = "checking"
    /\ page # "ok"
    /\ health' = page
    /\ page' \in IF page = "unreachable" THEN {"ok", "unreachable"} ELSE {page}
    /\ poll' = [poll EXCEPT ![q] = NoPoll]
    /\ UNCHANGED <<texts, findable, running, seen, saved, stored, accountVars>>

\* A page whose items are not recognised reads as one with nothing new.
ReadPage(q) ==
    /\ poll[q].at = "checking"
    /\ page = "ok"
    /\ health' = "ok"
    /\ poll' = [poll EXCEPT ![q] = [at |-> "forwarding", left |-> IF findable THEN Visible \ seen ELSE {}]]
    /\ UNCHANGED <<texts, page, findable, running, seen, saved, stored, accountVars>>

\* The webhook takes a text for a number in rotation and refuses it otherwise,
\* and the request or its answer may be lost.  Only an answer marks the text.
Forward_MarksFirst(q, taken, answered) ==
    LET t == Min(poll[q].left)
    IN  /\ poll[q].left # {}
        /\ poll' = [poll EXCEPT ![q].left = @ \ {t}]
        /\ seen' = seen \cup {t}
        /\ taken => standing = "active"
        /\ stored' = IF taken THEN stored \cup {t} ELSE stored
        /\ capture' = IF taken /\ t \notin stored THEN "recent" ELSE capture
        /\ UNCHANGED <<texts, page, findable, running, health, saved, status, beat, jobs>>
Forward(q, taken, answered) ==
    LET t == Min(poll[q].left)
    IN  /\ poll[q].left # {}
        /\ poll' = [poll EXCEPT ![q].left = @ \ {t}]
        /\ taken => standing = "active"
        /\ stored' = IF taken THEN stored \cup {t} ELSE stored
        /\ capture' = IF taken /\ t \notin stored THEN "recent" ELSE capture
        /\ seen' = IF taken /\ answered THEN seen \cup {t} ELSE seen
        /\ UNCHANGED <<texts, page, findable, running, health, saved, status, beat, jobs>>

SavePoll(q) ==
    /\ poll[q] = [at |-> "forwarding", left |-> {}]
    /\ poll' = [poll EXCEPT ![q] = NoPoll]
    /\ saved' = seen
    /\ UNCHANGED <<texts, page, findable, running, health, seen, stored, accountVars>>

\* "No heartbeat while unhealthy."
Beat ==
    /\ running
    /\ health = "ok"
    /\ BeatArrives
    /\ UNCHANGED bridgeVars

-----------------------------------------------------------------------------
(* Next-state relation: the number is the dashboard's to enable and disable *)

BridgePoll(q) ==
    \/ StartPoll(q) \/ FindFault(q) \/ ReadPage(q) \/ SavePoll(q)
    \/ \E taken, answered \in BOOLEAN : Forward(q, taken, answered)

BridgeNext ==
    \/ TextArrives
    \/ PageBreaks
    \/ SomebodyRepairs
    \/ ItemsChange
    \/ Start
    \/ End
    \/ \E q \in Polls : BridgePoll(q)
    \/ Beat
    \/ (Enable \/ Disable) /\ UNCHANGED bridgeVars

-----------------------------------------------------------------------------
(* Properties *)

\* Types.
BridgeTypeOK ==
    /\ texts \in 0 .. MaxTexts
    /\ page \in {"ok"} \cup Faults
    /\ health \in {"ok", "starting"} \cup Faults
    /\ findable \in BOOLEAN /\ running \in BOOLEAN
    /\ seen \subseteq Texts /\ saved \subseteq Texts /\ stored \subseteq Texts
    /\ poll \in [Polls -> [at : {"idle", "checking", "forwarding"}, left : SUBSET Texts]]

\* The bridge gives a text up only when the server has it, whatever requests,
\* answers and processes are lost in between and however its polls overlap.
SeenIsStored == seen \cup saved \subseteq stored

\* A bridge that stays up, on a page that stays readable, for a number that
\* stays in rotation, keeps catching up with what the page shows.
BridgeCatchesUp ==
    <>[](running /\ page = "ok" /\ findable /\ standing = "active") => []<>(Visible \subseteq stored)
=============================================================================
