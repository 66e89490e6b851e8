------------------------------ MODULE Updater ------------------------------
(***************************************************************************)
(* How the notifier updates itself: the file a release is downloaded to,    *)
(* and the downloads that write it, the screen's and the background         *)
(* worker's, which know nothing of each other.  A download begins by        *)
(* deleting every file, its own among them; one whose file was deleted goes *)
(* on writing to nothing that has a name.                                   *)
(***************************************************************************)
EXTENDS Naturals

CONSTANTS
    Downloads,   \* downloads that may be under way at once
    MaxVersion   \* bound on the releases

ASSUME UpdaterAssumption == MaxVersion \in Nat \ {0}

VARIABLES
    installed, \* the version of the build that runs
    latest,    \* the latest release
    auto,      \* autoDownloadUpdates
    due,       \* whether the interval has passed since lastUpdateCheckAt
    cache,     \* what is at each release's path: "none", "partial" or "whole"
    download,  \* each download: of which release, for whom, and whether its file still has a name
    screen,    \* whether the app's screen is up
    found,     \* the release it has found, 0 for none
    ready      \* the release it would install, 0 for none

versionVars == <<installed, latest>>
shownVars == <<screen, found, ready>>
updaterVars == <<versionVars, auto, due, cache, download, shownVars>>

Versions   == 1 .. MaxVersion
Empty      == [v \in Versions |-> "none"]
NoDownload == [of |-> 0, by |-> "nobody", linked |-> FALSE]

-----------------------------------------------------------------------------
(* Initial state: the first release, installed by hand *)

UpdaterInit ==
    /\ installed = 1 /\ latest = 1
    /\ auto = FALSE /\ due = TRUE
    /\ cache = Empty
    /\ download = [x \in Downloads |-> NoDownload]
    /\ screen = FALSE /\ found = 0 /\ ready = 0

-----------------------------------------------------------------------------
(* Helpers *)

Behind == latest > installed

By(who) == {x \in Downloads : download[x].by = who}

\* Files deleted take the names of those still being written away.
Delete(versions) ==
    /\ cache' = [v \in Versions |-> IF v \in versions THEN "none" ELSE cache[v]]
    /\ download' = [x \in Downloads |->
                      [download[x] EXCEPT !.linked = @ /\ download[x].of \notin versions]]

\* download: everything is deleted before the first byte.
Begin(v, who) ==
    \E x \in Downloads :
        /\ download[x] = NoDownload
        /\ cache' = [Empty EXCEPT ![v] = "partial"]
        /\ download' = [y \in Downloads |->
                          IF y = x THEN [of |-> v, by |-> who, linked |-> TRUE]
                          ELSE [download[y] EXCEPT !.linked = FALSE]]

\* Those of the screen or the worker go on when nobody waits for them.
Abandon(who) ==
    download' = [x \in Downloads |-> IF x \in By(who) THEN [download[x] EXCEPT !.by = "nobody"] ELSE download[x]]

-----------------------------------------------------------------------------
(* The publisher and the clock *)

Publish ==
    /\ latest < MaxVersion
    /\ latest' = latest + 1
    /\ UNCHANGED <<installed, auto, due, cache, download, shownVars>>

IntervalPasses ==
    /\ ~due
    /\ due' = TRUE
    /\ UNCHANGED <<versionVars, auto, cache, download, shownVars>>

-----------------------------------------------------------------------------
(* A download ends with the file verified, or fails and deletes what is at  *)
(* its path, whoever wrote that, or is refused before it opens a file       *)

EndDownload(x) ==
    LET d == download[x]
    IN  /\ d.of # 0
        /\ download' = [download EXCEPT ![x] = NoDownload]
        /\ cache' = IF d.linked THEN [cache EXCEPT ![d.of] = "whole"] ELSE cache
        /\ ready' = IF d.by = "screen" THEN d.of ELSE ready
        /\ UNCHANGED <<versionVars, auto, due, screen, found>>

FailDownload(x) ==
    LET d == download[x]
    IN  /\ d.of # 0
        /\ cache' = [cache EXCEPT ![d.of] = "none"]
        /\ download' = [y \in Downloads |->
                          IF y = x THEN NoDownload
                          ELSE [download[y] EXCEPT !.linked = @ /\ download[y].of # d.of]]
        /\ ready' = IF d.by = "screen" THEN 0 ELSE ready
        /\ UNCHANGED <<versionVars, auto, due, screen, found>>

\* No 2xx, or no body: what another one has at the path stays.
RefuseDownload(x) ==
    LET d == download[x]
    IN  /\ d.of # 0
        /\ download' = [download EXCEPT ![x] = NoDownload]
        /\ cache' = IF d.linked THEN [cache EXCEPT ![d.of] = "none"] ELSE cache
        /\ ready' = IF d.by = "screen" THEN 0 ELSE ready
        /\ UNCHANGED <<versionVars, auto, due, screen, found>>

-----------------------------------------------------------------------------
(* The background worker *)

WorkerChecks ==
    /\ due /\ By("worker") = {}
    /\ due' = FALSE
    /\ IF Behind THEN UNCHANGED <<cache, download>> ELSE Delete(Versions)
    /\ UNCHANGED <<versionVars, auto, shownVars>>

\* With the operator's leave, on a connection that may be used for it; it looks
\* at nothing an earlier download may have left.
WorkerDownloads_IfMissing ==
    /\ due /\ By("worker") = {}
    /\ due' = FALSE
    /\ Behind /\ auto /\ cache[latest] = "none"
    /\ Begin(latest, "worker")
    /\ UNCHANGED <<versionVars, auto, shownVars>>
WorkerDownloads ==
    /\ due /\ By("worker") = {}
    /\ due' = FALSE
    /\ Behind /\ auto
    /\ Begin(latest, "worker")
    /\ UNCHANGED <<versionVars, auto, shownVars>>

WorkerStops ==
    /\ By("worker") # {}
    /\ Abandon("worker")
    /\ UNCHANGED <<versionVars, auto, due, cache, shownVars>>

-----------------------------------------------------------------------------
(* The screen *)

\* onCreate: what the build that runs has caught up with is deleted.  A screen
\* that was there before keeps what it knew, if the file is.
Launch ==
    /\ screen' = TRUE
    /\ Delete(1 .. installed)
    /\ \/ found' = 0 /\ ready' = 0
       \/ /\ screen
          /\ ready' = IF ready # 0 /\ cache'[ready] # "none" THEN ready ELSE 0
          /\ UNCHANGED found
    /\ UNCHANGED <<versionVars, auto, due>>

\* A file at the release's path is taken for the release, whole or not.
CheckOnScreen ==
    /\ screen
    /\ due' = FALSE
    /\ IF Behind
       THEN /\ found' = latest
            /\ ready' = IF cache[latest] # "none" THEN latest ELSE 0
            /\ \/ UNCHANGED <<cache, download>>
               \/ auto /\ ready' = 0 /\ By("screen") = {} /\ Begin(latest, "screen")
       ELSE /\ found' = 0
            /\ Delete(Versions)
            /\ UNCHANGED ready
    /\ UNCHANGED <<versionVars, auto, screen>>

DownloadOnScreen ==
    /\ screen /\ found # 0
    /\ By("screen") = {}
    /\ Begin(found, "screen")
    /\ UNCHANGED <<versionVars, auto, due, shownVars>>

\* By its own button, or by the switch that takes the leave back.
DeleteDownload ==
    /\ screen
    /\ Delete(Versions)
    /\ ready' = 0
    /\ auto' \in {auto, FALSE}
    /\ UNCHANGED <<versionVars, due, screen, found>>

AllowDownloads ==
    /\ screen
    /\ auto' = TRUE
    /\ UNCHANGED <<versionVars, due, cache, download, shownVars>>

\* Android takes a whole file only, and replaces the process.
Install ==
    /\ screen /\ ready # 0
    /\ cache[ready] = "whole"
    /\ installed' = ready
    /\ cache' \in {cache, Empty}
    /\ download' = [x \in Downloads |-> NoDownload]
    /\ screen' = FALSE /\ found' = 0 /\ ready' = 0
    /\ UNCHANGED <<latest, auto, due>>

Close ==
    /\ screen
    /\ screen' = FALSE /\ found' = 0 /\ ready' = 0
    /\ Abandon("screen")
    /\ UNCHANGED <<versionVars, auto, due, cache>>

\* Killed, and what was written so far stays.
ProcessDies ==
    /\ download' = [x \in Downloads |-> NoDownload]
    /\ screen' = FALSE /\ found' = 0 /\ ready' = 0
    /\ UNCHANGED <<versionVars, auto, due, cache>>

-----------------------------------------------------------------------------
(* Next-state relation *)

DownloadEnds(x) == EndDownload(x) \/ FailDownload(x) \/ RefuseDownload(x)

UpdaterNext ==
    \/ Publish \/ IntervalPasses
    \/ \E x \in Downloads : DownloadEnds(x)
    \/ WorkerChecks \/ WorkerDownloads \/ WorkerStops
    \/ Launch \/ CheckOnScreen \/ DownloadOnScreen
    \/ DeleteDownload \/ AllowDownloads \/ Install
    \/ Close \/ ProcessDies

\* The worker's download ends with its file.
WorkerSucceeds == \E x \in By("worker") : download[x].linked /\ EndDownload(x)

-----------------------------------------------------------------------------
(* Properties *)

\* Types.
UpdaterTypeOK ==
    /\ {installed, latest} \subseteq Versions /\ installed <= latest
    /\ auto \in BOOLEAN /\ due \in BOOLEAN /\ screen \in BOOLEAN
    /\ cache \in [Versions -> {"none", "partial", "whole"}]
    /\ download \in [Downloads -> [of : 0 .. latest, by : {"screen", "worker", "nobody"}, linked : BOOLEAN]]
    /\ found \in 0 .. latest /\ ready \in 0 .. latest

\* "Pre-downloading": a phone left alone gets the release it has leave to get,
\* whole, whatever a killed or overtaken download left at its path.
ReleaseArrives ==
    <>[](auto /\ ~screen) => []<>(~Behind \/ cache[latest] = "whole")
=============================================================================
