-------------------------------- MODULE Site --------------------------------
(***************************************************************************)
(* The components around the ledger that share nothing with one another but *)
(* the state of a number, side by side: a behaviour is one of Parts, from   *)
(* the initial state of that component on.                                 *)
(***************************************************************************)
EXTENDS Balance, Bridge, Matching, PayPage, Requests, Setup, Submissions, Tenancy, Updater

\* The components to run: "account", "balance", "bridge", "matching", "page",
\* "requests", "setup", "submissions", "tenancy", "updater".
CONSTANT Parts

VARIABLE part      \* the one this behaviour is of

siteVars == <<part, accountVars, balanceVars, bridgeVars, orderVars, pageVars,
              requestVars, setupVars, submissionVars, tenancyVars, updaterVars>>

SiteInit ==
    /\ part \in Parts
    /\ AccountInit /\ BalanceInit /\ BridgeInit /\ OrderInit /\ PageInit
    /\ RequestInit /\ SetupInit /\ SubmissionInit /\ TenancyInit /\ UpdaterInit
    /\ part # "page" => payer = "nobody"
    /\ part # "tenancy" => mode = "single"
    /\ route = CHOOSE w \in Wallets : TRUE

-----------------------------------------------------------------------------
(* Next-state relation *)

\* One part moves, and the others and what they keep do not.
OnlyAccount ==
    /\ part = "account"
    /\ UNCHANGED <<part, balanceVars, bridgeVars, orderVars, pageVars,
                   requestVars, setupVars, submissionVars, tenancyVars, updaterVars>>

OnlyBalance ==
    /\ part = "balance"
    /\ UNCHANGED <<part, bridgeVars, orderVars, pageVars, requestVars,
                   setupVars, submissionVars, tenancyVars, updaterVars>>

OnlyBridge ==
    /\ part = "bridge"
    /\ UNCHANGED <<part, balanceVars, orderVars, pageVars, requestVars,
                   setupVars, submissionVars, tenancyVars, updaterVars>>

OnlyMatching ==
    /\ part = "matching"
    /\ UNCHANGED <<part, accountVars, balanceVars, bridgeVars, pageVars,
                   requestVars, setupVars, submissionVars, tenancyVars, updaterVars>>

OnlyPage ==
    /\ part = "page"
    /\ UNCHANGED <<part, accountVars, balanceVars, bridgeVars, orderVars,
                   requestVars, setupVars, submissionVars, tenancyVars, updaterVars>>

OnlyRequest ==
    /\ part = "requests"
    /\ UNCHANGED <<part, accountVars, balanceVars, bridgeVars, orderVars,
                   pageVars, setupVars, submissionVars, tenancyVars, updaterVars>>

OnlySetup ==
    /\ part = "setup"
    /\ UNCHANGED <<part, accountVars, balanceVars, bridgeVars, orderVars,
                   pageVars, requestVars, submissionVars, tenancyVars, updaterVars>>

OnlySubmission ==
    /\ part = "submissions"
    /\ UNCHANGED <<part, accountVars, balanceVars, bridgeVars, orderVars,
                   pageVars, requestVars, setupVars, tenancyVars, updaterVars>>

OnlyTenancy ==
    /\ part = "tenancy"
    /\ UNCHANGED <<part, accountVars, balanceVars, bridgeVars, orderVars,
                   pageVars, requestVars, setupVars, submissionVars, updaterVars>>

OnlyUpdater ==
    /\ part = "updater"
    /\ UNCHANGED <<part, accountVars, balanceVars, bridgeVars, orderVars,
                   pageVars, requestVars, setupVars, submissionVars, tenancyVars>>

SiteNext ==
    \/ OnlyAccount /\ AccountNext
    \/ OnlyBalance /\ BalanceNext
    \/ OnlyBridge /\ BridgeNext
    \/ OnlyMatching /\ MatchingNext
    \/ OnlyPage /\ PageNext
    \/ OnlyRequest /\ RequestNext
    \/ OnlySetup /\ SetupNext
    \/ OnlySubmission /\ SubmissionNext
    \/ OnlyTenancy /\ TenancyNext
    \/ OnlyUpdater /\ UpdaterNext

-----------------------------------------------------------------------------
(* Fairness, of the part a behaviour is of: jobs, polls, requests, rereads   *)
(* and downloads that are under way go on, and what is attempted again and  *)
(* again succeeds at last.  A behaviour is of one part, so strong fairness  *)
(* of a disjunction over parts is strong fairness of each.                  *)

GoOn ==
    /\ \A kind \in Kinds : WF_accountVars(part = "account" /\ \E s \in Sweeps : Check(s, kind))
    /\ WF_accountVars(part = "account" /\ \E s \in Sweeps : Degrade(s))
    /\ WF_bridgeVars(part = "bridge" /\ \E q \in Polls : BridgePoll(q))
    /\ \A c \in Calls : WF_requestVars(part = "requests" /\ (Serve(c) \/ Post(c)))
    /\ WF_requestVars(part = "requests" /\ PruneKey)
    /\ WF_setupVars(part = "setup" /\ (Poll \/ (LoadSetup /\ ~stamped)))
    /\ \A h \in Handsets : WF_setupVars(part = "setup" /\ ReportSims(h))
    /\ WF_updaterVars(part = "updater" /\ IntervalPasses)
    /\ \A x \in Downloads : WF_updaterVars(part = "updater" /\ DownloadEnds(x))

\* A post that is taken and answered, a call that finds the key or a free code,
\* somebody who goes on with what the wizard asks for, a connection that may be used.
AttemptSucceeds ==
    \/ part = "bridge" /\ (\E q \in Polls : Forward(q, TRUE, TRUE)) /\ OnlyBridge
    \/ part = "requests" /\ (\E c \in Calls : Answered(c)) /\ OnlyRequest
    \/ part = "setup" /\ GoOnSetup /\ OnlySetup
    \/ part = "updater" /\ WorkerDownloads /\ OnlyUpdater

\* A code that is scanned in time, a download whose file nobody deletes meanwhile.
InTime ==
    \/ part = "setup" /\ (\E h \in Handsets : ScanCode(h)) /\ OnlySetup
    \/ part = "updater" /\ WorkerSucceeds /\ OnlyUpdater

\* What each of these attempts changes.
attempted == <<poll, call, wizard, download>>

SiteSpec ==
    /\ SiteInit /\ [][SiteNext]_siteVars
    /\ GoOn
    /\ SF_attempted(AttemptSucceeds) /\ SF_attempted(InTime)

-----------------------------------------------------------------------------
(* Properties *)

\* Types.
SiteTypeOK ==
    /\ AccountTypeOK /\ BalanceTypeOK /\ BridgeTypeOK /\ MatchingTypeOK /\ PageTypeOK
    /\ RequestTypeOK /\ SetupTypeOK /\ SubmissionTypeOK /\ TenancyTypeOK /\ UpdaterTypeOK

\* Jobs are no longer killed before they have raised the alert they are to raise.
JobsLive ==
    <>[][\A s \in Sweeps, kind \in Kinds : alerts[kind] = 0 => ~JobDies(s, kind)]_accountVars

\* Absence is noticed: once jobs live, a number in rotation whose phone is silent,
\* or that receives nothing, does not stay so without an open alert, whatever
\* overlapping jobs, beats, messages and admins do.
AbsenceIsNoticed ==
    JobsLive => \A kind \in Kinds : []<>(part = "account" => Noticed(kind))

\* A client that keeps retrying is answered: neither a lost race for the key nor
\* the row of a window that is over keeps it out for good.
KeyIsAnswered ==
    <>[](part = "requests" /\ offered > 0) => []<>(\E c \in Calls : call[c].answer # NoCode)

\* Setup comes to an end for somebody who does not decline phones for ever,
\* whatever phones, codes, broken requests and other screens do: no step waits
\* for what the page does not show.
SetupFinishes ==
    <>[][\A h \in Handsets : ~Decline(h)]_setupVars => []<>(part = "setup" => stamped)
=============================================================================
