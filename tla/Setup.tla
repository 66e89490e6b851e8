------------------------------- MODULE Setup -------------------------------
(***************************************************************************)
(* First-run setup: a wizard that opens at the first thing missing (a phone, *)
(* a number from its SIMs, the number switched on, an app, a key), and that *)
(* knows what is there by the answers to its own calls.  Phones scan,       *)
(* report and expire codes off screen, and other screens change what it has *)
(* ticked off.                                                             *)
(***************************************************************************)
EXTENDS Naturals, FiniteSets, FiniteSetsExt

CONSTANTS
    Handsets,      \* the phones behind the counter
    MaxElsewhere   \* bound on what other screens change meanwhile

ASSUME SetupAssumption == MaxElsewhere \in Nat

VARIABLES
    handset,    \* each phone's row: none, waiting for approval, active, active and its SIMs known
    wallet,     \* the number: "none", "off" until enabled, "on"
    made,       \* of the app, its active keys and its endpoints, which there are
    stamped,    \* instance_setup.completed_at
    wizard,     \* the page: see WizardType
    elsewhere   \* changes made by other screens so far

setupVars == <<handset, wallet, made, stamped, wizard, elsewhere>>

Order    == <<"phone", "account", "enable", "app", "key", "endpoint">>
Required == {"phone", "account", "enable", "app", "key"}

\* A phone that waits for approval is not listed.
View_ActiveOnly ==
    [connected |-> {h \in Handsets : handset[h] \in {"active", "reporting"}},
     waiting   |-> {},
     wallet    |-> wallet,
     made      |-> made]

\* What getSetupState returns, of which the page keeps the last it was sent.
View ==
    [connected |-> {h \in Handsets : handset[h] \in {"active", "reporting"}},
     waiting   |-> {h \in Handsets : handset[h] = "waiting"},
     wallet    |-> wallet,
     made      |-> made]

IsDone(view, what) ==
    CASE what = "phone"   -> view.connected # {}
      [] what = "account" -> view.wallet # "none"
      [] what = "enable"  -> view.wallet = "on"
      [] OTHER            -> what \in view.made

Undone(view) == {n \in DOMAIN Order : ~IsDone(view, Order[n])}
Complete(view) == \A what \in Required : IsDone(view, what)

\* firstDeviceId.
First(phones) == CHOOSE h \in phones : TRUE

\* openStepId: the step somebody stays on, or the first unfinished one.
OpenStep == IF wizard.pinned THEN "phone" ELSE Order[Min(Undone(wizard.sees))]

\* secret: what the page shows once; of a pairing code, whether it still works or
\* which phone has used it.
WizardType ==
    [at : {"away", "open", "broken"}, pinned : BOOLEAN,
     sees : [connected : SUBSET Handsets, waiting : SUBSET Handsets,
             wallet : {"none", "off", "on"}, made : SUBSET {"app", "key", "endpoint"}],
     secret : {"none", "live code", "expired code", "api key", "signing secret"} \cup Handsets]

Nothing == [connected |-> {}, waiting |-> {}, wallet |-> "none", made |-> {}]
Away == [at |-> "away", pinned |-> FALSE, sees |-> Nothing, secret |-> "none"]

SetupInit ==
    /\ handset = [h \in Handsets |-> "none"]
    /\ wallet = "none" /\ made = {}
    /\ stamped = FALSE
    /\ wizard = Away
    /\ elsewhere = 0

-----------------------------------------------------------------------------
(* The answer to a call: reply                                             *)

\* The state after the call is what the page shows next; a code that a phone it
\* lists has used is taken down; with nothing left the page goes to the dashboard.
Shows(w, view) ==
    IF Undone(view) = {} THEN Away
    ELSE [w EXCEPT !.sees = view,
                   !.secret = IF @ \in view.connected \cup view.waiting THEN "none" ELSE @]

Reply(w) ==
    /\ stamped' = (stamped \/ Complete(View'))
    /\ wizard' = Shows(w, View')

\* The answer is lost, or the request dies with the change made and the stamp not.
NoReply ==
    /\ stamped' \in {stamped, stamped \/ Complete(View')}
    /\ wizard' = [wizard EXCEPT !.at = "broken"]

Answers(w) == (Reply(w) \/ NoReply) /\ UNCHANGED elsewhere

IsOpenAt(what) == wizard.at = "open" /\ OpenStep = what
Stay(w) == [w EXCEPT !.pinned = TRUE]

-----------------------------------------------------------------------------
(* The page *)

\* Opened, or opened again when it broke.
LoadSetup ==
    /\ wizard.at # "open"
    /\ stamped' = (stamped \/ Complete(View))
    /\ wizard' = Shows([Away EXCEPT !.at = "open"], View)
    /\ UNCHANGED <<handset, wallet, made, elsewhere>>

\* A call of any step that does not reach the server.
CallFails ==
    /\ wizard.at = "open"
    /\ wizard' = [wizard EXCEPT !.at = "broken"]
    /\ UNCHANGED <<handset, wallet, made, stamped, elsewhere>>

\* Every four seconds, on the two steps that are completed off screen.
Poll ==
    /\ IsOpenAt("phone") \/ IsOpenAt("account")
    /\ UNCHANGED <<handset, wallet, made>>
    /\ Answers(wizard)

ShowPairingCode ==
    /\ IsOpenAt("phone")
    /\ UNCHANGED <<handset, wallet, made>>
    /\ Answers([Stay(wizard) EXCEPT !.secret = "live code"])

\* approveDevice: one that is no longer waiting is only reread.
Approve(h) ==
    /\ IsOpenAt("phone") /\ h \in wizard.sees.waiting
    /\ handset' = [handset EXCEPT ![h] = IF @ = "waiting" THEN "active" ELSE @]
    /\ UNCHANGED <<wallet, made>>
    /\ Answers(Stay(wizard))

\* revokeDevice, whatever the phone has become.
Decline(h) ==
    /\ IsOpenAt("phone") /\ h \in wizard.sees.waiting
    /\ handset' = [handset EXCEPT ![h] = "none"]
    /\ UNCHANGED <<wallet, made>>
    /\ Answers(Stay(wizard))

\* "Done - choose the SIM": asks the server nothing.
MoveOn ==
    /\ IsOpenAt("phone") /\ wizard.sees.connected # {}
    /\ wizard' = [wizard EXCEPT !.pinned = FALSE]
    /\ UNCHANGED <<handset, wallet, made, stamped, elsewhere>>

\* addAccountFromSim, of the first phone in whatever order the rows come, if its row
\* has SIMs; that of a phone revoked meanwhile keeps the ones it had reported.
ChooseSim ==
    /\ IsOpenAt("account") /\ wizard.sees.connected # {}
    /\ wallet' \in CASE wallet # "none" -> {wallet}
                     [] handset[First(wizard.sees.connected)] = "reporting" -> {"off"}
                     [] handset[First(wizard.sees.connected)] = "none"      -> {"none", "off"}
                     [] OTHER -> {"none"}
    /\ UNCHANGED <<handset, made>>
    /\ Answers(wizard)

EnableAccount ==
    /\ IsOpenAt("enable")
    /\ wallet' = "on"
    /\ UNCHANGED <<handset, made>>
    /\ Answers(wizard)

CreateApp ==
    /\ IsOpenAt("app")
    /\ made' = made \cup {"app"}
    /\ UNCHANGED <<handset, wallet>>
    /\ Answers(wizard)

CreateKey ==
    /\ IsOpenAt("key")
    /\ made' = made \cup {"key"}
    /\ UNCHANGED <<handset, wallet>>
    /\ Answers([wizard EXCEPT !.secret = "api key"])

SaveEndpoint ==
    /\ IsOpenAt("endpoint")
    /\ made' = made \cup {"endpoint"}
    /\ UNCHANGED <<handset, wallet>>
    /\ Answers([wizard EXCEPT !.secret = "signing secret"])

DismissSecret ==
    /\ wizard.at = "open" /\ wizard.secret # "none"
    /\ wizard' = [wizard EXCEPT !.secret = "none"]
    /\ UNCHANGED <<handset, wallet, made, stamped, elsewhere>>

-----------------------------------------------------------------------------
(* Off screen *)

\* A code earns its phone nothing but a place in the queue.
ScanCode(h) ==
    /\ wizard.at = "open" /\ wizard.secret = "live code"
    /\ handset[h] = "none"
    /\ handset' = [handset EXCEPT ![h] = "waiting"]
    /\ wizard' = [wizard EXCEPT !.secret = h]
    /\ UNCHANGED <<wallet, made, stamped, elsewhere>>

CodeExpires ==
    /\ wizard.secret = "live code"
    /\ wizard' = [wizard EXCEPT !.secret = "expired code"]
    /\ UNCHANGED <<handset, wallet, made, stamped, elsewhere>>

ReportSims(h) ==
    /\ handset[h] = "active"
    /\ handset' = [handset EXCEPT ![h] = "reporting"]
    /\ UNCHANGED <<wallet, made, stamped, wizard, elsewhere>>

\* What else becomes of a phone: scanned from another screen, or by a code this page
\* has replaced, approved there, revoked.
Becomes(h) ==
    CASE handset[h] = "none"    -> {"waiting"}
      [] handset[h] = "waiting" -> {"active", "none"}
      [] OTHER                  -> {"none"}

\* The accounts and apps screens undo and do what the wizard has ticked off.
ChangeElsewhere ==
    /\ elsewhere < MaxElsewhere
    /\ elsewhere' = elsewhere + 1
    /\ \/ /\ \E h \in Handsets : \E to \in Becomes(h) : handset' = [handset EXCEPT ![h] = to]
          /\ UNCHANGED <<wallet, made>>
       \/ /\ wallet # "none"
          /\ wallet' \in {"on", "off"}
          /\ UNCHANGED <<handset, made>>
       \/ /\ "app" \in made
          /\ made' \in {made \ {"key"}, made \ {"endpoint"}, made \cup {"key"}, made \cup {"endpoint"}}
          /\ UNCHANGED <<handset, wallet>>
    /\ UNCHANGED <<stamped, wizard>>

-----------------------------------------------------------------------------
(* Next-state relation *)

\* What the open step asks for.
Progress ==
    \/ \E h \in Handsets : Approve(h)
    \/ MoveOn \/ ChooseSim \/ EnableAccount \/ CreateApp \/ CreateKey

\* What somebody who goes on does: with no phone listed, a code is asked for and shown.
GoOnSetup ==
    \/ Progress
    \/ /\ wizard.sees.connected \cup wizard.sees.waiting = {}
       /\ ShowPairingCode
       /\ wizard'.at = "open"

SetupNext ==
    \/ LoadSetup
    \/ CallFails
    \/ Poll
    \/ ShowPairingCode
    \/ Progress
    \/ \E h \in Handsets : Decline(h)
    \/ SaveEndpoint
    \/ DismissSecret
    \/ \E h \in Handsets : ScanCode(h)
    \/ CodeExpires
    \/ \E h \in Handsets : ReportSims(h)
    \/ ChangeElsewhere

-----------------------------------------------------------------------------
(* Properties *)

\* Types.
SetupTypeOK ==
    /\ handset \in [Handsets -> {"none", "waiting", "active", "reporting"}]
    /\ wallet \in {"none", "off", "on"}
    /\ made \subseteq {"app", "key", "endpoint"}
    /\ stamped \in BOOLEAN
    /\ wizard \in WizardType
    /\ elsewhere \in 0 .. MaxElsewhere
=============================================================================
