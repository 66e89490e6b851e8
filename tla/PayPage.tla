------------------------------ MODULE PayPage ------------------------------
(***************************************************************************)
(* The hosted pay page of one intent: what the server keeps of it, the tab  *)
(* the buyer has open, and the phones that opened it by scanning the QR of  *)
(* a tab.  A page knows the server only by its answers: those of its polls  *)
(* may overlap, be lost and come in any order.                              *)
(***************************************************************************)
EXTENDS Naturals, FiniteSets

CONSTANTS
    Wallets,     \* the providers that have a routable account each
    Tabs,        \* browser tabs on the buyer's first screen
    Phones,      \* pages opened by a scan
    MaxTokens,   \* bound on the handoff tokens minted
    MaxPolls     \* bound on the polls of a phone under way at once

Pages == Tabs \cup Phones

ASSUME PayPageAssumption ==
    /\ IsFiniteSet(Wallets) /\ IsFiniteSet(Pages) /\ Tabs \cap Phones = {}
    /\ MaxTokens \in Nat /\ MaxPolls \in Nat \ {0}

VARIABLES
    route,      \* the wallet the intent is routed to: its number and provider
    intent,     \* open, partly paid, open past its expiry, or over
    payer,      \* who vouched for the payer's number: nobody, the store, the buyer
    token,      \* payment_intents.handoff_token, 0 for null
    minted,     \* tokens minted so far
    crossed,    \* those minted after the revoke that was to follow them
    step,       \* each page's step, "unopened" before it has one
    number,     \* the receiving number each phone shows
    settled,    \* whether a phone knows the intent to be over
    choice,     \* whether a tab was loaded while the wallet could still be chosen
    vouched,    \* who vouched for the number, as a tab knows it
    arrived,    \* the token in a phone's URL
    cancelled,  \* whether a phone was told its handoff is over
    qr,         \* the token of the QR each tab shows, 0 for none
    printed,    \* the tokens some QR has shown
    request,    \* each tab's request for its buyer, answer pending
    mint,       \* each tab's request for a token: "none", "asked", or served and its token
    strays,     \* tabs whose abandoned request for a token may yet be served
    polls       \* each phone's polls under way

serverVars == <<route, intent, payer, token, minted, crossed>>
screenVars == <<step, number, settled, choice, vouched, arrived, cancelled, qr, printed>>
wireVars   == <<request, mint, strays, polls>>
pageVars   == <<serverVars, screenVars, wireVars>>

-----------------------------------------------------------------------------
(* Helpers *)

NoMint == [at |-> "none", token |-> 0]
Asked  == [at |-> "asked", token |-> 0]

\* The row is open, which an overdue one is until it is swept; the page derives
\* that it is over from either.
IsOpen == intent \in {"open", "overdue"}
IsOver == intent \in {"overdue", "over"}

\* A phone shows the instructions: settledView and HandoffCancelled come first.
Shown(f) == step[f] = "pay" /\ ~settled[f] /\ ~cancelled[f]

CanGoBack(t) == choice[t]

FirstAfterMethod(t) ==
    CASE vouched[t] = "buyer" -> "pay" [] vouched[t] = "store" -> "confirm" [] OTHER -> "payer"

\* issueHandoff: the live token, or a new one.
IssueHandoff ==
    IF token # 0 THEN UNCHANGED <<token, minted>>
    ELSE minted < MaxTokens /\ minted' = minted + 1 /\ token' = minted'

\* A tab moves to a step: the instructions ask for a token, and leaving them
\* abandons a request for one.
GoTo(t, to) ==
    /\ step' = [step EXCEPT ![t] = to]
    /\ mint' = [mint EXCEPT ![t] = IF to = "pay" THEN Asked ELSE NoMint]
    /\ strays' = IF mint[t] = Asked THEN strays \cup {t} ELSE strays

-----------------------------------------------------------------------------
(* Initial state: createIntent, which may have a number from the store *)

PageInit ==
    /\ route \in Wallets /\ intent = "open"
    /\ payer \in {"nobody", "store"}
    /\ token = 0 /\ minted = 0 /\ crossed = {}
    /\ step = [p \in Pages |-> "unopened"]
    /\ number = [f \in Phones |-> route] /\ settled = [f \in Phones |-> FALSE]
    /\ choice = [t \in Tabs |-> FALSE] /\ vouched = [t \in Tabs |-> "nobody"]
    /\ arrived = [f \in Phones |-> 0] /\ cancelled = [f \in Phones |-> FALSE]
    /\ qr = [t \in Tabs |-> 0] /\ printed = {}
    /\ request = [t \in Tabs |-> "none"]
    /\ mint = [t \in Tabs |-> NoMint] /\ strays = {}
    /\ polls = [f \in Phones |-> {}]

-----------------------------------------------------------------------------
(* The money, the expiry, the merchant *)

IntentMoves ==
    /\ intent # "over"
    /\ intent' \in IF intent = "open" THEN {"partial", "overdue", "over"} ELSE {"over"}
    /\ UNCHANGED <<route, payer, token, minted, crossed, screenVars, wireVars>>

-----------------------------------------------------------------------------
(* Opening a page: getPayView *)

\* A tab is opened, or reloaded: session storage remembers the instructions.
LoadTab(t) ==
    /\ choice' = [choice EXCEPT ![t] = IsOpen]
    /\ vouched' = [vouched EXCEPT ![t] = payer]
    /\ GoTo(t, IF step[t] = "pay" THEN "pay"
               ELSE IF choice'[t] THEN "method" ELSE FirstAfterMethod(t)')
    /\ qr' = [qr EXCEPT ![t] = 0]
    /\ request' = [request EXCEPT ![t] = "none"]
    /\ UNCHANGED <<serverVars, number, settled, arrived, cancelled, printed, polls>>

\* A phone opens the address of a QR: of the one on screen or of an older one.
\* The page reads the intent and then the token, one step here: a token revoked
\* in between opens a page that is cancelled already, one that stands was live
\* at both reads.
Scan(f, k) ==
    /\ k \in printed
    /\ number' = [number EXCEPT ![f] = route]
    /\ settled' = [settled EXCEPT ![f] = IsOver]
    /\ polls' = [polls EXCEPT ![f] = {}]
    /\ arrived' = [arrived EXCEPT ![f] = k]
    /\ cancelled' = [cancelled EXCEPT ![f] = token # k]
    /\ step' = [step EXCEPT ![f] = "pay"]
    /\ UNCHANGED <<serverVars, choice, vouched, qr, printed, request, mint, strays>>

-----------------------------------------------------------------------------
(* The buyer's steps.  A request that never reaches the server changes      *)
(* nothing; one that does changes it at once, and the page when answered.   *)

Ask(t, at, what) ==
    /\ step[t] = at
    /\ request[t] = "none"
    /\ request' = [request EXCEPT ![t] = what]
    /\ UNCHANGED <<screenVars, mint, strays, polls>>

\* switchCheckoutMethod; the page learns the number from its next poll.
Switch(t, w) ==
    /\ Ask(t, "method", "switch")
    /\ choice[t]
    /\ route = w \/ IsOpen
    /\ route' = w
    /\ UNCHANGED <<intent, payer, token, minted, crossed>>

\* The payer route: write-once against a buyer's answer, while open.
Vouch(t) ==
    /\ Ask(t, "payer", "vouch")
    /\ payer' = IF IsOpen THEN "buyer" ELSE payer
    /\ UNCHANGED <<route, intent, token, minted, crossed>>

\* The confirm route promotes a suggestion.
ConfirmSuggestion(t) ==
    /\ Ask(t, "confirm", "confirm")
    /\ payer' = IF IsOpen /\ payer = "store" THEN "buyer" ELSE payer
    /\ UNCHANGED <<route, intent, token, minted, crossed>>

\* ChangeMethod asks revokeHandoff first.
Leave_KeepsToken(t) ==
    /\ CanGoBack(t)
    /\ Ask(t, "pay", "leave")
    /\ UNCHANGED serverVars
Leave(t) ==
    /\ CanGoBack(t)
    /\ Ask(t, "pay", "leave")
    /\ token' = 0
    /\ UNCHANGED <<route, intent, payer, minted, crossed>>

\* backToMethod: the code goes, and what session storage remembers with it.
BackToMethod(t) ==
    /\ GoTo(t, "method")
    /\ qr' = [qr EXCEPT ![t] = 0]

\* What an answer does to the page, if it comes.
AnswerArrives(t) ==
    /\ request' = [request EXCEPT ![t] = "none"]
    /\ \/ /\ request[t] = "vouch"
          /\ GoTo(t, "pay")
          /\ UNCHANGED <<vouched, qr>>
       \/ /\ request[t] = "confirm"
          /\ vouched' = [vouched EXCEPT ![t] = "buyer"]
          /\ GoTo(t, "pay")
          /\ UNCHANGED qr
       \/ /\ request[t] = "leave"
          /\ BackToMethod(t)
          /\ UNCHANGED vouched
    /\ UNCHANGED <<serverVars, number, settled, choice, arrived, cancelled, printed, polls>>

\* It is lost, or says nothing that the next poll does not say.
RequestEnds(t) ==
    /\ request[t] # "none"
    /\ request' = [request EXCEPT ![t] = "none"]
    /\ UNCHANGED <<serverVars, screenVars, mint, strays, polls>>

Continue(t) ==
    /\ step[t] = "method" /\ request[t] = "none"
    /\ GoTo(t, FirstAfterMethod(t))
    /\ UNCHANGED <<serverVars, number, settled, choice, vouched, arrived, cancelled, qr, printed, request, polls>>

UseDifferentNumber(t) ==
    /\ step[t] = "confirm" /\ request[t] = "none"
    /\ GoTo(t, "payer")
    /\ UNCHANGED <<serverVars, number, settled, choice, vouched, arrived, cancelled, qr, printed, request, polls>>

\* Before there is a code, going back asks nobody.
Back(t) ==
    /\ step[t] \in {"confirm", "payer"}
    /\ CanGoBack(t) /\ request[t] = "none"
    /\ BackToMethod(t)
    /\ UNCHANGED <<serverVars, number, settled, choice, vouched, arrived, cancelled, printed, request, polls>>

-----------------------------------------------------------------------------
(* The token behind the QR: useHandoff *)

\* A request served while the tab is revoking mints a token nobody revokes.
ServeMint(t) ==
    /\ mint[t] = Asked
    /\ IssueHandoff
    /\ mint' = [mint EXCEPT ![t] = [at |-> "served", token |-> token']]
    /\ crossed' = IF request[t] = "leave" THEN crossed \cup {token'} ELSE crossed
    /\ UNCHANGED <<route, intent, payer, screenVars, request, strays, polls>>

\* The request of a tab that has moved on is served all the same.
ServeStray(t) ==
    /\ t \in strays
    /\ strays' = strays \ {t}
    /\ IssueHandoff
    /\ UNCHANGED <<route, intent, payer, crossed, screenVars, request, mint, polls>>

MintAnswered(t) ==
    /\ mint[t].at = "served"
    /\ mint' = [mint EXCEPT ![t] = NoMint]
    /\ qr' = [qr EXCEPT ![t] = mint[t].token]
    /\ printed' = printed \cup {mint[t].token}
    /\ UNCHANGED <<serverVars, step, number, settled, choice, vouched, arrived, cancelled, request, strays, polls>>

\* Lost on either way: no token, no QR.
MintFails(t) ==
    /\ mint[t] # NoMint
    /\ mint' = [mint EXCEPT ![t] = NoMint]
    /\ UNCHANGED <<serverVars, screenVars, request, strays, polls>>

-----------------------------------------------------------------------------
(* Polling: the status route reads the intent, then the phone's token.  A   *)
(* tab polls too; what it learns is what it shows, and decides nothing here. *)

Unread == "unread"

\* What handoffIsLive says of a phone's token.
HandoffValid(f) == IF arrived[f] = token THEN "true" ELSE "false"

ReadIntent(f) ==
    /\ step[f] = "pay" /\ ~settled[f]
    /\ Cardinality(polls[f]) < MaxPolls
    /\ polls' = [polls EXCEPT ![f] = @ \cup {[over |-> IsOver, number |-> route, valid |-> Unread]}]
    /\ UNCHANGED <<serverVars, screenVars, request, mint, strays>>

ReadToken(f, a) ==
    /\ a.valid = Unread
    /\ polls' = [polls EXCEPT ![f] = (@ \ {a}) \cup {[a EXCEPT !.valid = HandoffValid(f)]}]
    /\ UNCHANGED <<serverVars, screenVars, request, mint, strays>>

\* refresh
Refresh_BeforeToken(f, a) ==
    /\ polls' = [polls EXCEPT ![f] = @ \ {a}]
    /\ settled' = [settled EXCEPT ![f] = a.over]
    /\ number' = [number EXCEPT ![f] = a.number]
    /\ cancelled' = IF a.valid = "false" THEN [cancelled EXCEPT ![f] = TRUE] ELSE cancelled
    /\ UNCHANGED <<serverVars, step, choice, vouched, arrived, qr, printed, request, mint, strays>>
Refresh(f, a) ==
    /\ a.valid # Unread
    /\ polls' = [polls EXCEPT ![f] = @ \ {a}]
    /\ settled' = [settled EXCEPT ![f] = a.over]
    /\ number' = [number EXCEPT ![f] = a.number]
    /\ cancelled' = IF a.valid = "false" THEN [cancelled EXCEPT ![f] = TRUE] ELSE cancelled
    /\ UNCHANGED <<serverVars, step, choice, vouched, arrived, qr, printed, request, mint, strays>>

PollLost(f, a) ==
    /\ a.valid # Unread
    /\ polls' = [polls EXCEPT ![f] = @ \ {a}]
    /\ UNCHANGED <<serverVars, screenVars, request, mint, strays>>

-----------------------------------------------------------------------------
(* Next-state relation *)

Buyer(t) ==
    \/ LoadTab(t) \/ Continue(t) \/ UseDifferentNumber(t) \/ Back(t)
    \/ \E w \in Wallets : Switch(t, w)
    \/ Vouch(t) \/ ConfirmSuggestion(t) \/ Leave(t)
    \/ AnswerArrives(t) \/ RequestEnds(t)
    \/ ServeMint(t) \/ ServeStray(t) \/ MintAnswered(t) \/ MintFails(t)

PhonePoll(f) ==
    \/ ReadIntent(f)
    \/ \E a \in polls[f] : ReadToken(f, a) \/ Refresh(f, a) \/ PollLost(f, a)

PageNext ==
    \/ IntentMoves
    \/ \E t \in Tabs : Buyer(t)
    \/ \E f \in Phones, k \in printed : Scan(f, k)
    \/ \E f \in Phones : PhonePoll(f)

-----------------------------------------------------------------------------
(* Properties *)

\* Types.
PageTypeOK ==
    /\ route \in Wallets
    /\ intent \in {"open", "partial", "overdue", "over"}
    /\ payer \in {"nobody", "store", "buyer"}
    /\ minted \in 0 .. MaxTokens /\ token \in 0 .. minted /\ crossed \subseteq 1 .. minted
    /\ step \in [Pages -> {"unopened", "method", "confirm", "payer", "pay"}]
    /\ number \in [Phones -> Wallets] /\ settled \in [Phones -> BOOLEAN]
    /\ choice \in [Tabs -> BOOLEAN] /\ vouched \in [Tabs -> {"nobody", "store", "buyer"}]
    /\ arrived \in [Phones -> 0 .. minted] /\ cancelled \in [Phones -> BOOLEAN]
    /\ qr \in [Tabs -> 0 .. minted] /\ printed \subseteq 1 .. minted
    /\ request \in [Tabs -> {"none", "switch", "vouch", "confirm", "leave"}]
    /\ mint \in [Tabs -> [at : {"none", "asked", "served"}, token : 0 .. minted]]
    /\ strays \subseteq Tabs
    /\ \A f \in Phones : Cardinality(polls[f]) <= MaxPolls

\* A scanned page never swaps the number under somebody who is sending to it:
\* the screen it came from revokes its code before it lets the wallet be changed,
\* and a poll that would bring the new number brings the revocation too.  The
\* one way round it is a code that was minted after its own revocation.
NumberIsNotSwapped ==
    [][\A f \in Phones :
          Shown(f) /\ Shown(f)' /\ arrived'[f] = arrived[f] /\ arrived[f] \notin crossed
              => number'[f] = number[f]]_pageVars
=============================================================================
