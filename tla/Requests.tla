------------------------------ MODULE Requests ------------------------------
(***************************************************************************)
(* Creating an intent: calls of one app that carry one Idempotency-Key, in  *)
(* different requests and retries, read the key, choose the numbers to try  *)
(* and write intent, code and key in one transaction.  They overlap; the    *)
(* row of a key stays behind its window until a job prunes it.              *)
(***************************************************************************)
EXTENDS Naturals, FiniteSets, Functions

CONSTANTS
    Calls,       \* requests that may be under way at once
    BodyOf,      \* the body each sends; retries send the same one
    Codes,       \* reference codes; a code also names the intent it was drawn for
    MaxNumbers,  \* how many receiving numbers the business has
    NoCode,      \* no code
    MaxWindows   \* bound on the windows a key is used in

ASSUME RequestAssumption ==
    /\ DOMAIN BodyOf = Calls
    /\ IsFiniteSet(Calls) /\ IsFiniteSet(Codes) /\ NoCode \notin Codes
    /\ MaxNumbers \in Nat /\ MaxWindows \in Nat

VARIABLES
    intents,     \* the intents created: code, body, and the key's window
    keyRow,      \* the idempotency_keys row, NoKey for none
    window,      \* how often the row has been pruned
    offered,     \* how many of the numbers are routable
    call         \* each call: where it is, numbers left to try, its answer

requestVars == <<intents, keyRow, window, offered, call>>

NoKey == [code |-> NoCode, body |-> "none", fresh |-> FALSE]
Quiet == [at |-> "quiet", left |-> 0, answer |-> NoCode]

-----------------------------------------------------------------------------
(* Helpers *)

Drawn == {i.code : i \in intents}

Goes(c, from, to) == call[c].at = from /\ call' = [call EXCEPT ![c].at = to]

Answer(c, code) == call' = [call EXCEPT ![c] = [at |-> "quiet", left |-> 0, answer |-> code]]

-----------------------------------------------------------------------------
(* Initial state: a key nobody has used *)

RequestInit ==
    /\ intents = {} /\ keyRow = NoKey /\ window = 0
    /\ offered = MaxNumbers
    /\ call = [c \in Calls |-> Quiet]

-----------------------------------------------------------------------------
(* The client: a call, or the retry of one that failed or was not answered *)

Post(c) ==
    /\ call[c].at = "quiet"
    /\ call' = [call EXCEPT ![c] = [Quiet EXCEPT !.at = "looking"]]
    /\ UNCHANGED <<intents, keyRow, window, offered>>

-----------------------------------------------------------------------------
(* createIntent *)

\* replayIdempotent: before the transaction, and after one the key defeated.
Replay_AnyBody(c) ==
    /\ call[c].at \in {"looking", "conflicted"}
    /\ keyRow # NoKey /\ keyRow.fresh
    /\ Answer(c, keyRow.code)
    /\ UNCHANGED <<intents, keyRow, window, offered>>
Replay(c) ==
    /\ call[c].at \in {"looking", "conflicted"}
    /\ keyRow # NoKey /\ keyRow.fresh
    /\ Answer(c, IF keyRow.body = BodyOf[c] THEN keyRow.code ELSE NoCode)
    /\ UNCHANGED <<intents, keyRow, window, offered>>

\* No row, or one whose window is over: create, or try the next number if
\* there is one.
NothingToReplay_TriesOn(c) ==
    /\ keyRow = NoKey \/ ~keyRow.fresh
    /\ \/ Goes(c, "looking", "routing")
       \/ Goes(c, "conflicted", "trying")
    /\ UNCHANGED <<intents, keyRow, window, offered>>
NothingToReplay(c) ==
    /\ keyRow = NoKey \/ ~keyRow.fresh
    /\ \/ Goes(c, "looking", "routing")
       \/ call[c].left > 0 /\ Goes(c, "conflicted", "trying")
       \/ call[c].at = "conflicted" /\ call[c].left = 0 /\ Answer(c, NoCode)
    /\ UNCHANGED <<intents, keyRow, window, offered>>

\* listAccountHealth, routableAccounts.
ChooseNumbers(c) ==
    /\ call[c].at = "routing"
    /\ IF offered = 0 THEN Answer(c, NoCode)
       ELSE call' = [call EXCEPT ![c] = [at |-> "trying", left |-> offered, answer |-> NoCode]]
    /\ UNCHANGED <<intents, keyRow, window, offered>>

\* The transaction commits: the code is nobody's and the key has no row.
CreateIntent_KeyApart(c, code) ==
    /\ call[c].at = "trying"
    /\ code \notin Drawn
    /\ intents' = intents \cup {[code |-> code, body |-> BodyOf[c], window |-> window]}
    /\ keyRow' = IF keyRow = NoKey THEN [code |-> code, body |-> BodyOf[c], fresh |-> TRUE] ELSE keyRow
    /\ Answer(c, code)
    /\ UNCHANGED <<window, offered>>
CreateIntent(c, code) ==
    /\ call[c].at = "trying"
    /\ code \notin Drawn
    /\ keyRow = NoKey
    /\ intents' = intents \cup {[code |-> code, body |-> BodyOf[c], window |-> window]}
    /\ keyRow' = [code |-> code, body |-> BodyOf[c], fresh |-> TRUE]
    /\ Answer(c, code)
    /\ UNCHANGED <<window, offered>>

\* The key has a row: all is undone, and one number fewer is left to try.
KeyConflicts(c) ==
    /\ call[c].at = "trying"
    /\ keyRow # NoKey
    /\ call' = [call EXCEPT ![c].at = "conflicted", ![c].left = @ - 1]
    /\ UNCHANGED <<intents, keyRow, window, offered>>

\* allocateRefCode draws a code that is taken.  It would draw again, but the
\* transaction it draws in is over: the call fails.
CodeConflicts(c) ==
    /\ call[c].at = "trying"
    /\ Drawn # {}
    /\ Answer(c, NoCode)
    /\ UNCHANGED <<intents, keyRow, window, offered>>

-----------------------------------------------------------------------------
(* Time, the hourly job, and the numbers *)

KeyExpires ==
    /\ keyRow.fresh /\ window < MaxWindows
    /\ keyRow' = [keyRow EXCEPT !.fresh = FALSE]
    /\ UNCHANGED <<intents, window, offered, call>>

PruneKey_Fresh ==
    /\ keyRow # NoKey /\ keyRow.fresh /\ window < MaxWindows
    /\ keyRow' = NoKey
    /\ window' = window + 1
    /\ UNCHANGED <<intents, offered, call>>
PruneKey ==
    /\ keyRow # NoKey /\ ~keyRow.fresh
    /\ keyRow' = NoKey
    /\ window' = window + 1
    /\ UNCHANGED <<intents, offered, call>>

NumbersChange ==
    /\ offered' \in 0 .. MaxNumbers
    /\ UNCHANGED <<intents, keyRow, window, call>>

-----------------------------------------------------------------------------
(* Next-state relation *)

Serve(c) ==
    \/ Replay(c) \/ NothingToReplay(c) \/ ChooseNumbers(c)
    \/ \E code \in Codes : CreateIntent(c, code)
    \/ KeyConflicts(c) \/ CodeConflicts(c)

\* A call gets its intent.
Answered(c) == (Replay(c) \/ \E code \in Codes : CreateIntent(c, code)) /\ call'[c].answer # NoCode

RequestNext ==
    \/ \E c \in Calls : Post(c)
    \/ \E c \in Calls : Serve(c)
    \/ KeyExpires
    \/ PruneKey
    \/ NumbersChange

-----------------------------------------------------------------------------
(* Properties *)

\* Types.
RequestTypeOK ==
    /\ intents \subseteq [code : Codes, body : Range(BodyOf), window : 0 .. MaxWindows]
    /\ keyRow = NoKey \/ keyRow \in [code : Drawn, body : Range(BodyOf), fresh : BOOLEAN]
    /\ window \in 0 .. MaxWindows
    /\ offered \in 0 .. MaxNumbers
    /\ call \in [Calls -> [at : {"quiet", "looking", "routing", "trying", "conflicted"},
                           left : 0 .. MaxNumbers,
                           answer : Codes \cup {NoCode}]]

\* "Same key, same body, inside 24h -> the original intent, not a second code":
\* a key makes one intent in its window, however many calls and retries carry
\* it, and a call is answered with an intent of the body it sent.
OneIntentPerKey ==
    /\ \A i, j \in intents : i.window = j.window => i = j
    /\ \A c \in Calls : call[c].answer # NoCode =>
          \E i \in intents : i.code = call[c].answer /\ i.body = BodyOf[c]
=============================================================================
