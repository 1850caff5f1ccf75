--------------------------- MODULE BatchDownload ---------------------------
(***************************************************************************)
(* What happens to a batch job once it is ordered: planner.py polls        *)
(* Databento (refresh_jobs), downloads a READY job through a .part file    *)
(* (download_ready_job), imports an MBO file (importer.py) and moves the   *)
(* authorization along (transition_download_job of authorization.py).      *)
(*                                                                         *)
(* Composed with DownloadAuthorization, whose handlers keep running: both  *)
(* write the same rows.  Requests, the range task of service.py and polls  *)
(* are threads; they share the rows and the files, and no lock covers more *)
(* than one statement or transaction.  A row with a remote id is linked to *)
(* its authorization (reconciled at start-up), so the branch for jobs      *)
(* without authorization is not reachable here.  Range requests            *)
(* (RangeAuthorization) are left out: they rewrite the estimates of their  *)
(* days, so EstimateFollowsDownload is about days planned singly.          *)
(***************************************************************************)
EXTENDS DownloadAuthorization

CONSTANTS
  Downloaders,    \* threads that may run download_ready_job at once
  BookJobs        \* jobs of schema mbo, whose file is imported as a session

ASSUME BookJobsAssumption == BookJobs \subseteq Jobs
ASSUME AllowedAssumption == "allowed" \in Offers   \* an estimate can have been authorized

VARIABLES
  done,           \* Databento has prepared the files of the ordered job
  rows,           \* refresh_jobs: the rows it listed and has yet to poll
  stage,          \* per downloader: where in download_ready_job it is
  target,         \* per downloader: the job it is asked for, time and again
  staged,         \* the file below .batch-parts
  part,           \* destination.part
  file,           \* destination
  manifest,       \* destination.manifest.json exists
  session         \* the session of the file is registered in SQLite

fileVars  == <<staged, part, file, manifest, session>>
batchVars == <<done, rows, stage, target, fileVars>>
authUntouched == <<up, mode, day, offer, price, limits, fresh, authMode, authDay, authAmount,
                   grant, ledger, linked, remoteId, orders, taskVars>>

\* "bad": empty, torn, or for another dataset, schema or instrument.
Contents == {"absent", "good", "bad"}
Stages == {"idle", "read", "fresh", "downloading", "staged", "part", "checked", "moved",
           "described", "importing", "imported", "validating", "completing", "failing"}
InTry == Stages \ {"idle", "read", "fresh", "failing"}

BatchTypeOK ==
  /\ TypeOK
  /\ done \in [Jobs -> BOOLEAN]
  /\ DOMAIN rows \subseteq Jobs
  /\ \A j \in DOMAIN rows : rows[j] \in AuthStates \cup RemoteStatuses \cup {"SUBMITTED"}
  /\ stage \in [Downloaders -> Stages] /\ target \in [Downloaders -> Jobs]
  /\ staged \in [Jobs -> Contents] /\ part \in [Jobs -> Contents] /\ file \in [Jobs -> Contents]
  /\ manifest \in [Jobs -> BOOLEAN] /\ session \in [Jobs -> BOOLEAN]

\* The service has just committed the authorization of every estimate, each by
\* a request that is about to schedule it: how that comes about, and what else
\* may happen to an estimate before, is DownloadAuthorization.
BatchInit ==
  /\ up = TRUE /\ mode = "live" /\ day = 0
  /\ estStatus = [e \in Estimates |-> "AUTHORIZED"] /\ offer = [e \in Estimates |-> "allowed"]
  /\ price \in [Estimates -> Amounts] /\ fresh = [e \in Estimates |-> FALSE]
  /\ authState = [e \in Estimates |-> "AUTHORIZED"] /\ authError = [e \in Estimates |-> "none"]
  /\ retrySafe = [e \in Estimates |-> FALSE] /\ authMode = [e \in Estimates |-> "live"]
  /\ authDay = [e \in Estimates |-> 0] /\ authAmount = price
  /\ limits \in [Estimates -> ConfiguredLimits] /\ grant = [e \in Estimates |-> {limits[e]}]
  /\ ledger = [e \in Estimates |-> "RESERVED"]
  /\ jobStatus = [j \in Jobs |-> "AUTHORIZED"] /\ linked = [j \in Jobs |-> TRUE]
  /\ remoteId = [j \in Jobs |-> FALSE] /\ orders = [j \in Jobs |-> 0]
  /\ expiring = [e \in Estimates |-> FALSE] /\ handler = [e \in Estimates |-> "authorize"]
  /\ task = [e \in Estimates |-> "none"] /\ todo = {} /\ reply = {}
  /\ done = [j \in Jobs |-> FALSE] /\ rows = << >>
  /\ stage = [d \in Downloaders |-> "idle"] /\ target \in [Downloaders -> Jobs]
  /\ staged = [j \in Jobs |-> "absent"] /\ part = [j \in Jobs |-> "absent"]
  /\ file = [j \in Jobs |-> "absent"]
  /\ manifest = [j \in Jobs |-> FALSE] /\ session = [j \in Jobs |-> FALSE]
-----------------------------------------------------------------------------
(***************************************************************************)
(* transition_download_job.                                                *)
(***************************************************************************)
AllowedTransitions(s) ==
  CASE s = "AUTHORIZED"        -> {"SUBMITTING", "CANCELLED", "EXPIRED", "FAILED"}
    [] s = "SUBMITTING"        -> {"QUEUED", "FAILED"}
    [] s = "QUEUED"            -> {"DOWNLOADING", "COMPLETED", "CANCELLED", "EXPIRED", "FAILED"}
    [] s = "DOWNLOADING"       -> {"IMPORTING", "FAILED"}
    [] s = "IMPORTING"         -> {"VALIDATING_IMPORT", "FAILED"}
    [] s = "VALIDATING_IMPORT" -> {"COMPLETED", "FAILED"}
    [] OTHER                   -> {}

MayTransitionAnyhow(j, s) == linked[j]   \* mutant: no look at the authorization's state

MayTransition(j, s) ==
  LET current == authState[EstimateOf[j]] IN
  linked[j] /\ (s = current \/ s \in AllowedTransitions(current))

TransitionJobOnly(j, s, code) ==   \* mutant: the estimate is not taken along
  /\ authState' = [authState EXCEPT ![EstimateOf[j]] = s]
  /\ authError' = [authError EXCEPT ![EstimateOf[j]] = code]
  /\ retrySafe' = [retrySafe EXCEPT ![EstimateOf[j]] = code = "QUEUE_UNAVAILABLE"]
  /\ jobStatus' = [jobStatus EXCEPT ![j] = s]
  /\ UNCHANGED estStatus

Transition(j, s, code) ==
  /\ authState' = [authState EXCEPT ![EstimateOf[j]] = s]
  /\ authError' = [authError EXCEPT ![EstimateOf[j]] = code]
  /\ retrySafe' = [retrySafe EXCEPT ![EstimateOf[j]] = code = "QUEUE_UNAVAILABLE"]
  /\ jobStatus' = [jobStatus EXCEPT ![j] = s]
  /\ estStatus' = [estStatus EXCEPT ![EstimateOf[j]] = IF s = "COMPLETED" THEN "IMPORTED" ELSE s]

NoTransition == UNCHANGED <<authState, authError, retrySafe, jobStatus, estStatus>>

GoTo(d, s) == stage' = [stage EXCEPT ![d] = s] /\ target' = target

\* The transition, and the next stage; or it is unsafe, raises, and the
\* downloader goes to `otherwise`.
Advance(d, s, next, otherwise) ==
  LET j == target[d] IN
  \/ /\ MayTransition(j, s)
     /\ Transition(j, s, "none")
     /\ GoTo(d, next)
  \/ /\ ~MayTransition(j, s)
     /\ NoTransition
     /\ GoTo(d, otherwise)
-----------------------------------------------------------------------------
(***************************************************************************)
(* Databento, and the poll of its job states.                              *)
(***************************************************************************)
RemoteDone(j) ==
  /\ orders[j] > 0 /\ ~done[j]
  /\ done' = [done EXCEPT ![j] = TRUE]
  /\ UNCHANGED <<vars, rows, stage, target, fileVars>>

RemoteStatusesRaw(j) ==   \* mutant: a state is stored as Databento calls it
  IF done[j] THEN {"DONE", "EXPIRED"} ELSE {"PROCESSING"}

\* The files of a job that is done expire sooner or later: a poll may see either.
RemoteStatusesOf(j) == IF done[j] THEN {"READY", "EXPIRED"} ELSE {"PROCESSING"}

Polled == {j \in Jobs : remoteId[j] /\ jobStatus[j] \notin {"IMPORTED", "FAILED"}}

\* One refresh at a time (a bound of the model).
RefreshStart ==
  /\ up /\ rows = << >> /\ Polled # {}
  /\ rows' = [j \in Polled |-> jobStatus[j]]
  /\ UNCHANGED <<vars, done, stage, target, fileVars>>

\* The upsert writes what Databento said or, when the poll failed, the status
\* the row had when it was listed: whatever it has become since.
RefreshPoll(j) ==
  /\ j \in DOMAIN rows
  /\ \E status \in RemoteStatusesOf(j) \cup {rows[j]} : jobStatus' = [jobStatus EXCEPT ![j] = status]
  /\ rows' = [i \in DOMAIN rows \ {j} |-> rows[i]]
  /\ UNCHANGED <<authUntouched, authState, authError, retrySafe, estStatus,
                 done, stage, target, fileVars>>
-----------------------------------------------------------------------------
(***************************************************************************)
(* download_ready_job.                                                     *)
(***************************************************************************)
Downloadable == {"READY", "DOWNLOADED", "VALIDATED", "IMPORTED"}

ReadJob(d) ==
  /\ up /\ stage[d] = "idle" /\ jobStatus[target[d]] \in Downloadable
  /\ GoTo(d, "read")
  /\ UNCHANGED <<vars, done, rows, fileVars>>

\* A complete local file is reused; a retained .part stops the download.
LookForLocalFile(d) ==
  LET j == target[d]  local == file[j] # "absent" /\ manifest[j] IN
  /\ stage[d] = "read"
  /\ \/ local /\ Advance(d, "COMPLETED", "idle", "idle")
     \/ /\ ~local
        /\ GoTo(d, IF part[j] = "absent" THEN "fresh" ELSE "idle")
        /\ NoTransition
  /\ UNCHANGED <<authUntouched, done, rows, fileVars>>

StartDownload(d) ==
  /\ stage[d] = "fresh"
  /\ Advance(d, "DOWNLOADING", "downloading", "idle")
  /\ UNCHANGED <<authUntouched, done, rows, fileVars>>

\* All downloads of a job share one directory below .batch-parts.
Fetch(d) ==
  /\ stage[d] = "downloading" /\ done[target[d]]
  /\ \E content \in {"good", "bad"} : staged' = [staged EXCEPT ![target[d]] = content]
  /\ GoTo(d, "staged")
  /\ UNCHANGED <<vars, done, rows, part, file, manifest, session>>

\* source.replace(temporary): the staged file must still be there, and a
\* .part file that has appeared meanwhile is replaced.
MoveToPart(d) ==
  LET j == target[d] IN
  /\ stage[d] = "staged" /\ staged[j] # "absent"
  /\ staged' = [staged EXCEPT ![j] = "absent"] /\ part' = [part EXCEPT ![j] = staged[j]]
  /\ GoTo(d, "part")
  /\ UNCHANGED <<vars, done, rows, file, manifest, session>>

\* Size, dataset, schema, instrument, record count; then the digest.
CheckPart(d) ==
  /\ stage[d] = "part" /\ part[target[d]] = "good"
  /\ GoTo(d, "checked")
  /\ UNCHANGED <<vars, done, rows, fileVars>>

MoveToDestination(d) ==
  LET j == target[d] IN
  /\ stage[d] = "checked" /\ part[j] # "absent"
  /\ part' = [part EXCEPT ![j] = "absent"] /\ file' = [file EXCEPT ![j] = part[j]]
  /\ GoTo(d, "moved")
  /\ UNCHANGED <<vars, done, rows, staged, manifest, session>>

WritesNoManifest(d) ==   \* mutant: the manifest is left to the importer
  /\ stage[d] = "moved"
  /\ GoTo(d, "described")
  /\ UNCHANGED <<vars, done, rows, fileVars>>

WriteManifest(d) ==
  /\ stage[d] = "moved"
  /\ manifest' = [manifest EXCEPT ![target[d]] = TRUE]
  /\ GoTo(d, "described")
  /\ UNCHANGED <<vars, done, rows, staged, part, file, session>>

\* Two transitions, DOWNLOAD_COMPLETED and IMPORT_STARTED.
StartImport(d) ==
  /\ \/ stage[d] = "described" /\ Advance(d, "IMPORTING", "importing", "failing")
     \/ stage[d] = "importing" /\ Advance(d, "IMPORTING", "imported", "failing")
  /\ UNCHANGED <<authUntouched, done, rows, fileVars>>

ImportsUnchecked(d) ==   \* mutant: no digest of the file that is imported
  LET j == target[d] IN
  /\ stage[d] = "imported"
  /\ session' = [session EXCEPT ![j] = @ \/ j \in BookJobs]
  /\ GoTo(d, "validating")
  /\ UNCHANGED <<vars, done, rows, staged, part, file, manifest>>

\* import_file compares the file's digest with the manifest's, which is that
\* of a checked file; other schemas are not imported.
ImportFile(d) ==
  LET j == target[d] IN
  /\ stage[d] = "imported"
  /\ j \in BookJobs => file[j] = "good"
  /\ session' = [session EXCEPT ![j] = @ \/ j \in BookJobs]
  /\ GoTo(d, "validating")
  /\ UNCHANGED <<vars, done, rows, staged, part, file, manifest>>

ValidateImport(d) ==
  /\ \/ stage[d] = "validating" /\ Advance(d, "VALIDATING_IMPORT", "completing", "failing")
     \/ stage[d] = "completing" /\ Advance(d, "COMPLETED", "idle", "failing")
  /\ UNCHANGED <<authUntouched, done, rows, fileVars>>

\* Whatever a step finds missing, invalid or refused, or the network, the
\* disk or the database raises; before the try block it only ends the call.
Raises(d) ==
  /\ stage[d] \notin {"idle", "failing"}
  /\ GoTo(d, IF stage[d] \in InTry THEN "failing" ELSE "idle")
  /\ UNCHANGED <<vars, done, rows, fileVars>>

\* The except block; the .part file stays.  Its own transition may be
\* refused, or raise; how far the download came decides the error code.
FailDownload(d) ==
  LET j == target[d] IN
  /\ stage[d] = "failing"
  /\ \/ /\ MayTransition(j, "FAILED")
        /\ \E code \in {"NETWORK_ERROR", "IMPORT_FAILED"} : Transition(j, "FAILED", code)
     \/ NoTransition
  /\ GoTo(d, "idle")
  /\ UNCHANGED <<authUntouched, done, rows, fileVars>>

CrashAll ==
  /\ Crash
  /\ rows' = << >>
  /\ stage' = [d \in Downloaders |-> "idle"]
  /\ UNCHANGED <<done, target, fileVars>>
-----------------------------------------------------------------------------
DownloadStep(d) ==
  \/ ReadJob(d) \/ LookForLocalFile(d) \/ StartDownload(d)
  \/ Fetch(d) \/ MoveToPart(d) \/ CheckPart(d) \/ MoveToDestination(d) \/ WriteManifest(d)
  \/ StartImport(d) \/ ImportFile(d) \/ ValidateImport(d)
  \/ Raises(d) \/ FailDownload(d)

\* DownloadAuthorization's steps on an existing authorization, but for the
\* crash both share.
AuthorizationNext ==
  \/ \E e \in Estimates : PrepareRetry(e) \/ HandlerStep(e) \/ Claim(e) \/ SubmitStep(e)
  \/ \E j \in Jobs : Cancel(j)
  \/ \E m \in Modes : Startup(m)

BatchNext ==
  \/ AuthorizationNext /\ UNCHANGED batchVars
  \/ CrashAll
  \/ RefreshStart
  \/ \E j \in Jobs : RemoteDone(j) \/ RefreshPoll(j)
  \/ \E d \in Downloaders : DownloadStep(d)

BatchSpec == BatchInit /\ [][BatchNext]_<<vars, batchVars>>
-----------------------------------------------------------------------------
(***************************************************************************)
(* Properties                                                              *)
(***************************************************************************)
Advanced == {"DOWNLOADING", "IMPORTING", "VALIDATING_IMPORT", "COMPLETED"}

\* Whatever polls, downloads, cancellations and partly failed submissions
\* interleave, what is downloaded or completed belongs to an authorization
\* whose reservation is held and all of whose jobs were ordered.
DownloadsAreReserved ==
  \A e \in Estimates : authState[e] \in Advanced =>
    ledger[e] = "RESERVED" /\ \A j \in JobsOf(e) : remoteId[j] /\ orders[j] = 1

\* A job is only said to be completed when its file and the manifest that
\* describes it are on disk, also after a crash or a second download.
CompletedIsLocal ==
  \A j \in Jobs : jobStatus[j] = "COMPLETED" => file[j] # "absent" /\ manifest[j]

\* Two downloads of one job share their paths and may swap each other's file
\* at any step; still nothing unchecked becomes a session, and no book job is
\* completed with a file that would fail the check.  (A third one at once can
\* bring that about: it moves its file over the .part the second has checked,
\* which is then renamed over the file of the session of the first.)
Crowded(j) ==
  \E a, b, c \in {d \in Downloaders : EstimateOf[target[d]] = EstimateOf[j]} : a # b /\ b # c /\ a # c
BooksAreChecked ==
  \A j \in BookJobs : ~Crowded(j) /\ (session[j] \/ jobStatus[j] = "COMPLETED") => file[j] = "good"

\* No poll, retry, cancellation or slower download of the same job takes a
\* completed authorization back to another state.
CompletedIsFinal ==
  [][\A e \in Estimates : authState[e] = "COMPLETED" => authState'[e] = "COMPLETED"]_<<vars, batchVars>>

\* The estimate shown to the user follows the authorization through the
\* download too (COMPLETED is shown as IMPORTED, SUBMITTING as AUTHORIZED).
EstimateFollowsDownload ==
  \A e \in Estimates : authState[e] # "NONE" =>
    estStatus[e] = CASE authState[e] = "SUBMITTING" -> "AUTHORIZED"
                     [] authState[e] = "COMPLETED"  -> "IMPORTED"
                     [] OTHER                       -> authState[e]

\* What COMPLETED promises of an authorization: every schema it bought is here.
CompletedMeansEverySchema ==
  \A e \in Estimates : authState[e] = "COMPLETED" => \A j \in JobsOf(e) : file[j] # "absent"
=============================================================================
