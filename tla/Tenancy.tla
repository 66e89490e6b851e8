------------------------------ MODULE Tenancy ------------------------------
(***************************************************************************)
(* How an instance comes by its businesses.  As a service, anyone signed in *)
(* registers one under a name and it is given the lowest free handle; self- *)
(* hosted, the first requests make the one there is, and every user joins   *)
(* it.  Both read before they insert, with others in between.               *)
(***************************************************************************)
EXTENDS Integers, FiniteSets, FiniteSetsExt, Sequences, SequencesExt

CONSTANTS
    Visitors,     \* signed-in users, each with one request
    ShopNames,    \* names as the words of their handle, each word a number: a numeral
                  \* stands for itself and any other word for one above all suffixes
    DefaultSlug,  \* "default"
    Tries         \* attempts createBusiness makes at a slug

ASSUME TenancyAssumption ==
    ShopNames \subseteq Seq(Nat) /\ ShopNames # {} /\ DefaultSlug \in Seq(Nat) /\ Tries \in Nat \ {0}

VARIABLES
    mode,     \* JOMMA_MODE
    shops,    \* slugs of businesses, oldest first
    owners,   \* users with a membership of the oldest business, self-hosted
    visit     \* each request: see VisitType

tenancyVars == <<mode, shops, owners, visit>>

VisitType ==
    [step : {"new", "look", "insert", "registered", "failed",
             "find", "create", "reread", "join", "served"},
     name : ShopNames, slug : Seq(Nat), tries : 0 .. Tries, began : Nat]

TenancyInit ==
    /\ mode \in {"single", "service"}
    /\ shops = <<>> /\ owners = {}
    /\ visit = [v \in Visitors |->
                   [step |-> "new", name |-> CHOOSE n \in ShopNames : TRUE,
                    slug |-> <<>>, tries |-> 0, began |-> 0]]

-----------------------------------------------------------------------------
(* As a service: createBusiness *)

\* The rows a lookup for a base finds: the slug itself, or like base-%.
Like(base) ==
    {s \in ToSet(shops) : Len(s) >= Len(base) /\ SubSeq(s, 1, Len(base)) = base}

\* As it used to be: one more than there are.
FreeSlug_ByCount(base) ==
    IF base \notin Like(base) THEN base ELSE Append(base, Cardinality(Like(base)) + 1)

\* uniqueSlug: the base, or the lowest free suffix.
FreeSlug(base) ==
    LET free == {n \in 2 .. Cardinality(Like(base)) + 2 : Append(base, n) \notin Like(base)} IN
    IF base \notin Like(base) THEN base ELSE Append(base, Min(free))

Register(v, name) ==
    /\ mode = "service" /\ visit[v].step = "new"
    /\ visit' = [visit EXCEPT ![v].step = "look", ![v].name = name, ![v].began = Len(shops)]
    /\ UNCHANGED <<mode, shops, owners>>

ChooseSlug(v) ==
    /\ visit[v].step = "look"
    /\ visit' = [visit EXCEPT ![v].step = "insert", ![v].slug = FreeSlug(visit[v].name)]
    /\ UNCHANGED <<mode, shops, owners>>

\* The business and its owner, in the transaction that read the slugs.
InsertShop(v) ==
    /\ visit[v].step = "insert" /\ visit[v].slug \notin ToSet(shops)
    /\ shops' = Append(shops, visit[v].slug)
    /\ visit' = [visit EXCEPT ![v].step = "registered"]
    /\ UNCHANGED <<mode, owners>>

\* Another took the slug first: look again, or give up.
SlugCollides(v) ==
    /\ visit[v].step = "insert" /\ visit[v].slug \in ToSet(shops)
    /\ visit' = [visit EXCEPT
          ![v].tries = @ + 1,
          ![v].step = IF visit[v].tries + 1 < Tries THEN "look" ELSE "failed"]
    /\ UNCHANGED <<mode, shops, owners>>

-----------------------------------------------------------------------------
(* Self-hosted: getActiveBusiness and ensureSingleBusiness *)

To(v, step) == visit' = [visit EXCEPT ![v].step = step]

Arrive(v) ==
    /\ mode = "single" /\ visit[v].step = "new"
    /\ To(v, IF v \in owners THEN "served" ELSE "find")
    /\ UNCHANGED <<mode, shops, owners>>

FindShop(v) ==
    /\ visit[v].step = "find"
    /\ To(v, IF shops = <<>> THEN "create" ELSE "join")
    /\ UNCHANGED <<mode, shops, owners>>

InsertDefault_Blindly(v) ==
    /\ visit[v].step = "create"
    /\ shops' = Append(shops, DefaultSlug)
    /\ To(v, "join")
    /\ UNCHANGED <<mode, owners>>

\* The insert does nothing when the slug is taken; then the row is read again.
InsertDefault(v) ==
    /\ visit[v].step = "create"
    /\ IF DefaultSlug \in ToSet(shops)
       THEN To(v, "reread") /\ UNCHANGED shops
       ELSE To(v, "join") /\ shops' = Append(shops, DefaultSlug)
    /\ UNCHANGED <<mode, owners>>

\* No row is "Could not resolve this instance's business."
Reread(v) ==
    /\ visit[v].step = "reread"
    /\ To(v, IF shops = <<>> THEN "failed" ELSE "join")
    /\ UNCHANGED <<mode, shops, owners>>

\* A membership there already is left as it is.
Join(v) ==
    /\ visit[v].step = "join"
    /\ owners' = owners \cup {v}
    /\ To(v, "served")
    /\ UNCHANGED <<mode, shops>>

\* A request dies between two of its statements, and the user comes again.
VisitDies(v) ==
    /\ visit[v].step \in {"find", "create", "reread", "join"}
    /\ To(v, "new")
    /\ UNCHANGED <<mode, shops, owners>>

TenancyNext ==
    \E v \in Visitors :
        \/ \E name \in ShopNames : Register(v, name)
        \/ ChooseSlug(v) \/ InsertShop(v) \/ SlugCollides(v)
        \/ Arrive(v) \/ FindShop(v) \/ InsertDefault(v) \/ Reread(v) \/ Join(v)
        \/ VisitDies(v)

-----------------------------------------------------------------------------
(* Properties *)

TenancyTypeOK ==
    /\ mode \in {"single", "service"}
    /\ shops \in Seq(Seq(Nat))
    /\ owners \subseteq Visitors
    /\ visit \in [Visitors -> VisitType]

\* Every name can be registered: a registration fails only when as many others as
\* it has tries came between its reads and its inserts, and never because of
\* which handles were there when it began.
NamesAreRegisterable ==
    \A v \in Visitors :
        mode = "service" /\ visit[v].step = "failed" => Len(shops) >= visit[v].began + Tries

\* A self-hosted instance is never split: whatever first requests overlap or die,
\* there is one business at most, and whoever is let in is let into it.
OneShop ==
    mode = "single" =>
        /\ Len(shops) <= 1
        /\ \A v \in Visitors :
              /\ visit[v].step = "served" => v \in owners /\ Len(shops) = 1
              /\ visit[v].step # "failed"
=============================================================================
