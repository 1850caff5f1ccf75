--------------------------- MODULE DownloadProofs ---------------------------
(***************************************************************************)
(* Proofs about DownloadAuthorization and BatchDownload, for any           *)
(* estimates, jobs, limits, legacy rows and downloaders.  The safety       *)
(* properties are not inductive: they hold since a task is scheduled once  *)
(* per authorization, by a request that found it fresh, and since nothing  *)
(* else may touch an authorization in submission (Safe).  Polls and        *)
(* downloads keep Safe too, and nothing an authorization's request or task *)
(* does disturbs a download: it only starts once every job of the          *)
(* authorization has been ordered.                                         *)
(*                                                                         *)
(* Safe does not survive range requests, which schedule an authorization a *)
(* second time.  The budgets do: their proof asks nothing of Safe and is   *)
(* done once for the steps of both specifications.                         *)
(***************************************************************************)
EXTENDS BatchDownload, RangeAuthorization, SumLemmas, TLAPS

-----------------------------------------------------------------------------
(* The authorization of an estimate.                                       *)

NothingSent(e) == \A j \in JobsOf(e) : orders[j] = 0 /\ ~remoteId[j]

\* At most one task is past the semaphore.
OneSubmitter == \A e, f \in Estimates : task[e] \in Running /\ task[f] \in Running => e = f

\* Rows that do not exist yet, and rows of the old service.
RowInv ==
  /\ \A j \in Jobs : jobStatus[j] = "NONE" => orders[j] = 0 /\ ~remoteId[j]
  /\ \A j \in Jobs : remoteId[j] => orders[j] = 1
  /\ \A e \in Estimates : authState[e] = "NONE" =>
       /\ task[e] = "none" /\ handler[e] = "idle" /\ ~retrySafe[e]
       /\ \A j \in JobsOf(e) : ~linked[j]
  /\ \A e \in Estimates : authState[e] = "NONE" <=> ledger[e] = "none"

\* Before its submission an authorization has sent nothing, and the request
\* that schedules it is the only one that can.
PendingInv == \A e \in Estimates :
  /\ authState[e] = "AUTHORIZED" => NothingSent(e)
  /\ handler[e] # "idle" =>
       task[e] = "none" /\ authState[e] \in {"AUTHORIZED", "CANCELLED"} /\ NothingSent(e)
  /\ task[e] = "queued" => authState[e] \in {"AUTHORIZED", "CANCELLED"}
  /\ authState[e] = "AUTHORIZED" /\ (task[e] = "queued" \/ handler[e] = "authorize") => ledger[e] = "RESERVED"
  /\ retrySafe[e] => authState[e] \in {"FAILED", "CANCELLED"} /\ NothingSent(e)

\* During its submission nobody else changes the authorization; what is left
\* to submit has not been ordered, what has been dealt with is recorded.
SubmissionInv == \A e \in Estimates : task[e] \in Running =>
  /\ authState[e] = "SUBMITTING" /\ ledger[e] = "RESERVED"
  /\ \A j \in JobsOf(e) : remoteId[j] \/ jobStatus[j] \notin {"NONE", "AUTHORIZED", "FAILED"}
  /\ task[e] = "claimed" => NothingSent(e)
  /\ task[e] \in {"submitting", "recording"} =>
       /\ todo \subseteq JobsOf(e)
       /\ \A j \in todo : orders[j] = 0 /\ ~remoteId[j]
  /\ task[e] = "submitting" => \A j \in JobsOf(e) \ todo : orders[j] = 1 /\ remoteId[j]
  /\ task[e] = "recording" =>
       /\ reply \subseteq JobsOf(e)
       /\ \A j \in reply : orders[j] = 1
       /\ \A j \in (JobsOf(e) \ todo) \ reply : orders[j] = 1 /\ remoteId[j]

IInv == TypeOK /\ OneSubmitter /\ RowInv /\ PendingInv /\ SubmissionInv /\ AtMostOneOrder /\ QueuedMeansOrdered
-----------------------------------------------------------------------------
\* No step of a handler, of a task or of the process breaks the type invariant.
LEMMA TypeStep == ASSUME TypeOK, [Next]_vars PROVE TypeOK'
<1> USE JobsAssumption, AmountsAssumption, LimitsAssumption
    DEF TypeOK, AuthStates, ActiveStates, TerminalStates, LifecycleStatuses, ErrorCodes, Running,
        estimateVars, authVars, jobVars, storageVars, taskVars, WithStatus
<1>1. ASSUME NEW e \in Estimates, NEW o \in Offers, NEW a \in Amounts, NEW l \in ConfiguredLimits, SaveEstimate(e, o, a, l) PROVE TypeOK'
  BY <1>1 DEF SaveEstimate, NewEstimateStatus
<1>2. ASSUME NEW e \in Estimates, TimeToLiveElapses(e) PROVE TypeOK'
  BY <1>2 DEF TimeToLiveElapses
<1>14. ASSUME NEW e \in Estimates, SeeExpired(e) PROVE TypeOK'
  BY <1>14 DEF SeeExpired
<1>13. ASSUME NEW e \in Estimates, MarkExpired(e) PROVE TypeOK'
  BY <1>13 DEF MarkExpired
<1>3. ASSUME NEW e \in Estimates, Authorize(e) PROVE TypeOK'
  BY <1>3 DEF Authorize, ExecutionModes
<1>4. ASSUME NEW e \in Estimates, PrepareRetry(e) PROVE TypeOK'
  BY <1>4 DEF PrepareRetry
<1>5. ASSUME NEW e \in Estimates, HandlerStep(e) PROVE TypeOK'
  <2>1. CASE Schedule(e)
    BY <2>1 DEF Schedule
  <2>2. CASE ScheduleFails(e)
    <3>1. CASE task[e] = "none"
      <4>1. Fail(e, "QUEUE_UNAVAILABLE", TRUE)
        BY <2>2, <3>1 DEF ScheduleFails, MarkQueueFailed
      <4> QED BY <2>2, <4>1 DEF ScheduleFails, Fail
    <3>2. CASE task[e] # "none"
      BY <2>2, <3>2 DEF ScheduleFails
    <3> QED BY <3>1, <3>2
  <2> QED BY <1>5, <2>1, <2>2 DEF HandlerStep
<1>6. ASSUME NEW e \in Estimates, Claim(e) PROVE TypeOK'
  <2>1. CASE authMode[e] = "live" /\ authState[e] = "AUTHORIZED"
    <3>1. authState' \in [Estimates -> AuthStates \cup {"NONE"}]
      BY <1>6, <2>1 DEF Claim
    <3>2. jobStatus' \in [Jobs -> AuthStates \cup RemoteStatuses \cup {"NONE", "SUBMITTED", "IMPORTED"}]
      BY <1>6, <2>1 DEF Claim
    <3>3. task' \in [Estimates -> {"none", "queued"} \cup Running]
      BY <1>6, <2>1 DEF Claim
    <3> QED
      BY <1>6, <3>1, <3>2, <3>3 DEF Claim
  <2>2. CASE ~(authMode[e] = "live" /\ authState[e] = "AUTHORIZED")
    BY <1>6, <2>2 DEF Claim
  <2> QED BY <2>1, <2>2
<1>7. ASSUME NEW e \in Estimates, SubmitStep(e) PROVE TypeOK'
  <2>1. CASE SubmissionRaises(e) \/ ReadJobs(e) \/ StorageFails(e)
    BY <2>1 DEF SubmissionRaises, ReadJobs, StorageFails, JobsOf
  <2>2. CASE RemoteAccepts(e)
    BY <2>2 DEF RemoteAccepts
  <2>3. CASE RemoteRaises(e)
    BY <2>3 DEF RemoteRaises
  <2>4. CASE RecordRemoteId(e)
    BY <2>4 DEF RecordRemoteId
  <2>6. CASE FinishSubmission(e)
    BY <2>6 DEF FinishSubmission
  <2>5. CASE FailSubmission(e)
    BY <2>5 DEF FailSubmission, MarkSubmissionFailed, Fail
  <2> QED BY <1>7, <2>1, <2>2, <2>3, <2>4, <2>5, <2>6 DEF SubmitStep
<1>8. ASSUME NEW j \in Jobs, Cancel(j) PROVE TypeOK'
  BY <1>8 DEF Cancel
<1>9. CASE NewDay
  BY <1>9 DEF NewDay
<1>10. ASSUME NEW m \in Modes, Startup(m) PROVE TypeOK'
  BY <1>10, ModesAssumption DEF Startup, Reconcile, RecoveredState
<1>11. CASE Crash
  BY <1>11 DEF Crash, NoTasks, ExecutionModes
<1>12. CASE UNCHANGED vars
  BY <1>12 DEF vars
<1> QED BY <1>1, <1>2, <1>3, <1>4, <1>5, <1>6, <1>7, <1>8, <1>9, <1>10, <1>11, <1>12, <1>13, <1>14 DEF Next

LEMMA TypeStarts == ASSUME Init PROVE TypeOK
<1> USE LimitsAssumption DEF Init, TypeOK
<1>1. estStatus \in [Estimates -> LifecycleStatuses \cup AuthStates
                     \cup {"NONE", "LOCAL_REUSE", "AWAITING_CONFIRMATION", "BLOCKED"}]
  BY DEF LifecycleStatuses
<1>2. jobStatus \in [Jobs -> AuthStates \cup RemoteStatuses \cup {"NONE", "SUBMITTED", "IMPORTED"}]
  OBVIOUS
<1>3. orders \in [Jobs -> Nat] /\ remoteId \in [Jobs -> BOOLEAN] /\ price \in [Estimates -> Amounts \cup {0}]
  OBVIOUS
<1>4. day \in 0..LastDay
  OBVIOUS
<1>7. up \in BOOLEAN /\ mode \in ExecutionModes
  BY Zenon DEF ExecutionModes
<1>6. /\ authState \in [Estimates -> AuthStates \cup {"NONE"}]
      /\ authError \in [Estimates -> ErrorCodes \cup {"none"}]
      /\ authMode \in [Estimates -> ExecutionModes \cup {"none", "recovered"}]
  OBVIOUS
<1>5. /\ authDay \in [Estimates -> 0..LastDay] /\ authAmount \in [Estimates -> Amounts \cup {0}]
      /\ task \in [Estimates -> {"none", "queued"} \cup Running]
  OBVIOUS
<1>8. limits \in [Estimates -> Limits] /\ grant \in [Estimates -> SUBSET Limits]
  BY DEF Limits
<1> QED BY <1>1, <1>2, <1>3, <1>4, <1>5, <1>6, <1>7, <1>8

\* Every variable keeps its type, whatever the constants.
THEOREM TypeCorrect == Spec => []TypeOK
<1>1. Init => TypeOK
  BY TypeStarts
<1>2. TypeOK /\ [Next]_vars => TypeOK'
  BY TypeStep
<1> QED BY <1>1, <1>2, PTL DEF Spec

\* An authorization row is never removed.
LEMMA AuthorizationStays ==
  ASSUME TypeOK, Next
  PROVE  \A e \in Estimates : authState[e] # "NONE" => authState'[e] # "NONE"
<1> USE JobsAssumption DEF TypeOK
<1>1. CASE UNCHANGED authState
  BY <1>1
<1>2. ASSUME NEW e \in Estimates,
             Authorize(e) \/ PrepareRetry(e) \/ ScheduleFails(e) \/ Claim(e) \/ FinishSubmission(e) \/ FailSubmission(e)
      PROVE  \A f \in Estimates : authState[f] # "NONE" => authState'[f] # "NONE"
  BY <1>2 DEF Authorize, PrepareRetry, ScheduleFails, MarkQueueFailed, Claim, FinishSubmission, FailSubmission,
              MarkSubmissionFailed, Fail
<1>3. ASSUME NEW j \in Jobs, Cancel(j) PROVE \A f \in Estimates : authState[f] # "NONE" => authState'[f] # "NONE"
  BY <1>3 DEF Cancel
<1>4. ASSUME NEW m \in Modes, Startup(m) PROVE \A f \in Estimates : authState[f] # "NONE" => authState'[f] # "NONE"
  BY <1>4 DEF Startup, Reconcile, RecoveredState
<1>5. \/ UNCHANGED authState
      \/ \E e \in Estimates : \/ Authorize(e) \/ PrepareRetry(e) \/ ScheduleFails(e) \/ Claim(e)
                              \/ FinishSubmission(e) \/ FailSubmission(e)
      \/ \E j \in Jobs : Cancel(j)
      \/ \E m \in Modes : Startup(m)
  BY DEF Next, HandlerStep, SubmitStep, SaveEstimate, TimeToLiveElapses, SeeExpired, MarkExpired, Schedule,
         SubmissionRaises, ReadJobs, RemoteAccepts, RemoteRaises, RecordRemoteId, StorageFails, NewDay, Crash,
         storageVars, authVars
<1> QED
  BY <1>1, <1>2, <1>3, <1>4, <1>5


-----------------------------------------------------------------------------
\* IInv without the type invariant, which TypeCorrect establishes.
Safe == OneSubmitter /\ RowInv /\ PendingInv /\ SubmissionInv /\ AtMostOneOrder /\ QueuedMeansOrdered

\* No step of any request, task, crash or restart leaves the invariant.
LEMMA SafeStep == ASSUME IInv, TypeOK', [Next]_vars PROVE Safe'
<1> USE JobsAssumption DEF IInv, Safe, TypeOK, OneSubmitter, RowInv, PendingInv, SubmissionInv, AtMostOneOrder, QueuedMeansOrdered,
     NothingSent, JobsOf, Running, estimateVars, authVars, jobVars, storageVars, taskVars
<1>1. ASSUME NEW e \in Estimates, NEW o \in Offers, NEW a \in Amounts, NEW l \in ConfiguredLimits, SaveEstimate(e, o, a, l) PROVE Safe'
  BY <1>1 DEF SaveEstimate
<1>2. ASSUME NEW e \in Estimates, TimeToLiveElapses(e) PROVE Safe'
  BY <1>2 DEF TimeToLiveElapses
<1>3. ASSUME NEW e \in Estimates, SeeExpired(e) PROVE Safe'
  BY <1>3 DEF SeeExpired
<1>4. ASSUME NEW e \in Estimates, MarkExpired(e) PROVE Safe'
  BY <1>4 DEF MarkExpired
<1>5. ASSUME NEW e \in Estimates, Authorize(e) PROVE Safe'
  BY <1>5 DEF Authorize, Authorizable, Unlinked, WithStatus
<1>6. ASSUME NEW e \in Estimates, PrepareRetry(e) PROVE Safe'
  BY <1>6 DEF PrepareRetry, NoRemoteId, WithStatus
<1>7. ASSUME NEW e \in Estimates, Schedule(e) PROVE Safe'
  BY <1>7 DEF Schedule
<1>8. ASSUME NEW e \in Estimates, ScheduleFails(e) PROVE Safe'
  <2>7. CASE task[e] # "none"
    BY <1>8, <2>7 DEF ScheduleFails
  <2>8. CASE task[e] = "none"
    <3>1. Fail(e, "QUEUE_UNAVAILABLE", TRUE)
      BY <1>8, <2>8 DEF ScheduleFails, MarkQueueFailed
    <3> QED BY <1>8, <2>8, <3>1 DEF ScheduleFails, Fail, NoRemoteId, WithStatus
  <2> QED BY <2>7, <2>8
<1>9. ASSUME NEW e \in Estimates, Claim(e) PROVE Safe'
  <2>1. CASE authMode[e] = "live" /\ authState[e] = "AUTHORIZED"
    <3>1. \A f \in Estimates : task'[f] \in Running => f = e
      BY <1>9, <2>1 DEF Claim
    <3>2. OneSubmitter' /\ RowInv' /\ AtMostOneOrder'
      BY <1>9, <2>1, <3>1 DEF Claim, WithStatus
    <3>3. NothingSent(e)
      BY <1>9, <2>1
    <3>5. PendingInv'
      BY <1>9, <2>1, <3>3 DEF Claim
    <3>6. QueuedMeansOrdered'
      BY <1>9, <2>1 DEF Claim
    <3>4. SubmissionInv'
      BY <1>9, <2>1, <3>1, <3>3 DEF Claim, WithStatus
    <3> QED BY <3>2, <3>4, <3>5, <3>6
  <2>2. CASE ~(authMode[e] = "live" /\ authState[e] = "AUTHORIZED")
    BY <1>9, <2>2 DEF Claim
  <2> QED BY <2>1, <2>2
<1>10. ASSUME NEW e \in Estimates, SubmissionRaises(e) PROVE Safe'
  BY <1>10 DEF SubmissionRaises
<1>11. ASSUME NEW e \in Estimates, ReadJobs(e) PROVE Safe'
  BY <1>11 DEF ReadJobs
<1>12. ASSUME NEW e \in Estimates, RemoteAccepts(e) PROVE Safe'
  BY <1>12 DEF RemoteAccepts
<1>13. ASSUME NEW e \in Estimates, RemoteRaises(e) PROVE Safe'
  <2>1. PICK j \in todo : orders' \in {orders, [orders EXCEPT ![j] = @ + 1]}
    BY <1>13 DEF RemoteRaises
  <2>2. j \in JobsOf(e) /\ orders[j] = 0 /\ ~remoteId[j]
    BY <1>13 DEF RemoteRaises
  <2>3. \A f \in Estimates : task'[f] \in Running => f = e
    BY <1>13 DEF RemoteRaises
  <2>4. \A i \in Jobs : orders'[i] = orders[i] \/ (i = j /\ orders'[i] = 1)
    BY <2>1, <2>2
  <2> HIDE DEF Running
  <2>9. OneSubmitter'
    BY <2>3
  <2>5. AtMostOneOrder'
    <3> SUFFICES ASSUME NEW i \in Jobs PROVE orders'[i] <= 1
      OBVIOUS
    <3>1. orders[i] <= 1
      OBVIOUS
    <3> QED BY ONLY <2>4, <3>1, i \in Jobs
  <2>6. RowInv'
    BY <1>13, <2>2, <2>4 DEF RemoteRaises, Running
  <2>7. PendingInv' /\ QueuedMeansOrdered'
    BY <1>13, <2>2, <2>4 DEF RemoteRaises, Running
  <2>8. SubmissionInv'
    BY <1>13, <2>3 DEF RemoteRaises, Running
  <2> QED BY <2>5, <2>6, <2>7, <2>8, <2>9
<1>14. ASSUME NEW e \in Estimates, RecordRemoteId(e) PROVE Safe'
  <2>1. OneSubmitter'
    BY <1>14 DEF RecordRemoteId, WithStatus
  <2>2. RowInv'
    BY <1>14 DEF RecordRemoteId, WithStatus
  <2>3. PendingInv'
    BY <1>14 DEF RecordRemoteId, WithStatus
  <2>7. \A f \in Estimates : task'[f] \in Running => f = e
    BY <1>14 DEF RecordRemoteId
  <2>8. \A j \in JobsOf(e) \ todo : orders[j] = 1 /\ (remoteId[j] \/ j \in reply)
    BY <1>14 DEF RecordRemoteId
  <2>9. \A j \in todo : j \in JobsOf(e) /\ orders[j] = 0 /\ ~remoteId[j] /\ j \notin reply
    BY <1>14 DEF RecordRemoteId
  <2>4. SubmissionInv'
    <3>1. task'[e] = "submitting" /\ todo' = todo
      BY <1>14 DEF RecordRemoteId
    <3>2. authState'[e] = "SUBMITTING" /\ ledger'[e] = "RESERVED"
      BY <1>14 DEF RecordRemoteId
    <3>3. \A j \in JobsOf(e) : remoteId'[j] \/ jobStatus'[j] \notin {"NONE", "AUTHORIZED", "FAILED"}
      BY <1>14 DEF RecordRemoteId, WithStatus
    <3>4. \A j \in todo : orders'[j] = 0 /\ ~remoteId'[j]
      BY <1>14, <2>9 DEF RecordRemoteId
    <3>5. \A j \in JobsOf(e) \ todo : orders'[j] = 1 /\ remoteId'[j]
      BY <1>14, <2>8 DEF RecordRemoteId
    <3> QED BY <2>7, <2>9, <3>1, <3>2, <3>3, <3>4, <3>5
  <2>5. AtMostOneOrder'
    BY <1>14 DEF RecordRemoteId, WithStatus
  <2>6. QueuedMeansOrdered'
    BY <1>14 DEF RecordRemoteId, WithStatus
  <2> QED BY <2>1, <2>2, <2>3, <2>4, <2>5, <2>6 DEF Safe
<1>15. ASSUME NEW e \in Estimates, FinishSubmission(e) PROVE Safe'
  <2>1. OneSubmitter'
    BY <1>15 DEF FinishSubmission
  <2>2. RowInv'
    BY <1>15 DEF FinishSubmission
  <2>3. PendingInv'
    BY <1>15 DEF FinishSubmission
  <2>4. SubmissionInv'
    BY <1>15 DEF FinishSubmission
  <2>5. AtMostOneOrder'
    BY <1>15 DEF FinishSubmission
  <2>6. QueuedMeansOrdered'
    BY <1>15 DEF FinishSubmission
  <2> QED BY <2>1, <2>2, <2>3, <2>4, <2>5, <2>6 DEF Safe
<1>16. ASSUME NEW e \in Estimates, StorageFails(e) PROVE Safe'
  BY <1>16 DEF StorageFails
<1>17. ASSUME NEW e \in Estimates, FailSubmission(e) PROVE Safe'
  BY <1>17 DEF FailSubmission, MarkSubmissionFailed, Fail, NoRemoteId, WithStatus
<1>18. ASSUME NEW j \in Jobs, Cancel(j) PROVE Safe'
  BY <1>18 DEF Cancel, Cancellable
<1>19. ASSUME NewDay PROVE Safe'
  BY <1>19 DEF NewDay
<1>20. ASSUME NEW m \in Modes, Startup(m) PROVE Safe'
  <2>1. OneSubmitter'
    BY <1>20 DEF Startup, Reconcile, CanReconcile, Recovered, Unlinked, RecoveredState
  <2>2. RowInv'
    BY <1>20 DEF Startup, Reconcile, CanReconcile, Recovered, Unlinked, RecoveredState
  <2>3. PendingInv'
    BY <1>20 DEF Startup, Reconcile, CanReconcile, Recovered, Unlinked, RecoveredState
  <2>7. /\ UNCHANGED <<orders, remoteId, task, handler, todo, reply>>
        /\ \A e \in Estimates : authState[e] # "NONE" =>
             authState'[e] = authState[e] /\ ledger'[e] = ledger[e]
        /\ \A e \in Estimates : authState[e] # "NONE" => \A j \in JobsOf(e) :
             linked'[j] = linked[j] /\ jobStatus'[j] = jobStatus[j]
    BY <1>20 DEF Startup, Reconcile, CanReconcile, Recovered, Unlinked
  <2>8. \A e \in Estimates : task[e] \in Running => authState[e] # "NONE"
    OBVIOUS
  <2>4. SubmissionInv'
    BY <2>7, <2>8
  <2>5. AtMostOneOrder'
    BY <2>7
  <2>9. \A e \in Estimates : authState[e] = "NONE" => \A j \in JobsOf(e) : linked'[j] =>
          remoteId[j] /\ orders[j] = 1
    BY <1>20 DEF Startup, Reconcile, Recovered
  <2>6. QueuedMeansOrdered'
    <3> SUFFICES ASSUME NEW e \in Estimates, authState'[e] = "QUEUED", NEW j \in JobsOf(e), linked'[j]
                 PROVE  remoteId'[j] /\ orders'[j] = 1
      OBVIOUS
    <3>1. CASE authState[e] = "NONE"
      BY <2>7, <2>9, <3>1
    <3>2. CASE authState[e] # "NONE"
      BY <2>7, <3>2
    <3> QED BY <3>1, <3>2
  <2> QED BY <2>1, <2>2, <2>3, <2>4, <2>5, <2>6 DEF Safe
<1>21. ASSUME Crash PROVE Safe'
  BY <1>21 DEF Crash, NoTasks
<1>50. CASE UNCHANGED vars
  BY <1>50 DEF vars
<1>60. CASE Next
  <2>1. ASSUME NEW e \in Estimates, HandlerStep(e) PROVE Safe'
    BY ONLY <2>1, <1>7, <1>8 DEF HandlerStep
  <2>2. ASSUME NEW e \in Estimates, SubmitStep(e) PROVE Safe'
    BY ONLY <2>2, <1>10, <1>11, <1>12, <1>13, <1>14, <1>15, <1>16, <1>17 DEF SubmitStep
  <2>3. ASSUME NEW e \in Estimates,
               \/ \E o \in Offers, a \in Amounts, l \in ConfiguredLimits : SaveEstimate(e, o, a, l)
               \/ TimeToLiveElapses(e) \/ SeeExpired(e) \/ Authorize(e) \/ PrepareRetry(e)
               \/ MarkExpired(e) \/ Claim(e)
        PROVE  Safe'
    BY ONLY <2>3, <1>1, <1>2, <1>3, <1>4, <1>5, <1>6, <1>9
  <2> QED BY ONLY <1>60, <2>1, <2>2, <2>3, <1>18, <1>19, <1>20, <1>21 DEF Next
<1> QED BY <1>50, <1>60

\* The invariant holds of the program.
THEOREM InductiveInvariant == Spec => []IInv
<1>1. Init => Safe
  <2> SUFFICES ASSUME Init PROVE Safe
    OBVIOUS
  <2>1. /\ task = [e \in Estimates |-> "none"] /\ handler = [e \in Estimates |-> "idle"]
        /\ authState = [e \in Estimates |-> "NONE"] /\ retrySafe = [e \in Estimates |-> FALSE]
        /\ linked = [j \in Jobs |-> FALSE] /\ ledger = [e \in Estimates |-> "none"]
    BY DEF Init
  <2>2. PICK legacy \in SUBSET LegacyJobs :
          /\ remoteId = [j \in Jobs |-> j \in legacy]
          /\ orders = [j \in Jobs |-> IF j \in legacy THEN 1 ELSE 0]
          /\ \A j \in legacy : jobStatus[j] # "NONE"
    BY JobsAssumption DEF Init
  <2>3. OneSubmitter /\ PendingInv /\ SubmissionInv /\ QueuedMeansOrdered
    BY <2>1 DEF OneSubmitter, PendingInv, SubmissionInv, QueuedMeansOrdered, Running
  <2>5. \A j \in Jobs : jobStatus[j] = "NONE" => j \notin legacy
    BY <2>2
  <2>6. \A j \in Jobs : remoteId[j] = (j \in legacy)
    BY <2>2
  <2>9. \A j \in Jobs : orders[j] = IF j \in legacy THEN 1 ELSE 0
    BY <2>2
  <2>7. \A e \in Estimates : task[e] = "none" /\ handler[e] = "idle" /\ ~retrySafe[e] /\ \A j \in JobsOf(e) : ~linked[j]
    BY <2>1 DEF JobsOf
  <2>10. \A e \in Estimates : authState[e] = "NONE" /\ ledger[e] = "none"
    BY <2>1
  <2>4. RowInv
    BY <2>10, <2>5, <2>6, <2>7, <2>9 DEF RowInv
  <2>8. AtMostOneOrder
    BY <2>9 DEF AtMostOneOrder
  <2> QED BY <2>3, <2>4, <2>8 DEF Safe
<1>2. Safe /\ TypeOK /\ TypeOK' /\ [Next]_vars => Safe'
  BY SafeStep DEF IInv, Safe
<1>3. Safe /\ TypeOK => IInv
  BY DEF Safe, IInv
<1> QED BY <1>1, <1>2, <1>3, TypeCorrect, PTL DEF Spec

\* However authorizations, retries, cancellations, lost replies and restarts
\* interleave, no estimate and schema is ordered twice at Databento.
THEOREM NoSecondOrder == Spec => []AtMostOneOrder
<1>1. IInv => AtMostOneOrder
  BY DEF IInv
<1> QED BY <1>1, InductiveInvariant, PTL

\* An authorization offered for retry has never reached Databento.
THEOREM RetryIsSafe == Spec => []RetrySafeMeansNoOrder
<1>1. IInv => RetrySafeMeansNoOrder
  BY DEF IInv, RetrySafeMeansNoOrder, PendingInv, NothingSent
<1> QED BY <1>1, InductiveInvariant, PTL

\* QUEUED is only said of an authorization whose jobs all exist remotely.
THEOREM QueuedIsOrdered == Spec => []QueuedMeansOrdered
<1>1. IInv => QueuedMeansOrdered
  BY DEF IInv
<1> QED BY <1>1, InductiveInvariant, PTL

\* No re-estimate or late expiry mark overwrites what the authorization says.
THEOREM EstimateIsFaithful == Spec => []EstimateFollowsAuthorization
<1> DEFINE Shown(e) == authState[e] # "NONE" =>
       estStatus[e] = IF authState[e] = "SUBMITTING" THEN "AUTHORIZED" ELSE authState[e]
<1>1. Init => EstimateFollowsAuthorization
  BY DEF Init, EstimateFollowsAuthorization
<1>2. IInv /\ EstimateFollowsAuthorization /\ [Next]_vars => EstimateFollowsAuthorization'
  <2> SUFFICES ASSUME IInv, EstimateFollowsAuthorization, [Next]_vars, NEW f \in Estimates PROVE Shown(f)'
    BY DEF EstimateFollowsAuthorization
  <2> USE DEF IInv, TypeOK, EstimateFollowsAuthorization, estimateVars, authVars, storageVars
  <2>1. ASSUME NEW e \in Estimates, NEW o \in Offers, NEW a \in Amounts, NEW l \in ConfiguredLimits, SaveEstimate(e, o, a, l) PROVE Shown(f)'
    BY <2>1 DEF SaveEstimate, PreservesLifecycle
  <2>2. ASSUME NEW e \in Estimates, MarkExpired(e) PROVE Shown(f)'
    BY <2>2 DEF MarkExpired
  <2>3. ASSUME NEW e \in Estimates, Authorize(e) \/ PrepareRetry(e) PROVE Shown(f)'
    BY <2>3 DEF Authorize, PrepareRetry
  <2>4. ASSUME NEW e \in Estimates, ScheduleFails(e) PROVE Shown(f)'
    BY <2>4 DEF ScheduleFails, MarkQueueFailed, Fail
  <2>5. ASSUME NEW e \in Estimates, Claim(e) PROVE Shown(f)'
    BY <2>5 DEF Claim
  <2>6. ASSUME NEW e \in Estimates, FinishSubmission(e) PROVE Shown(f)'
    BY <2>6 DEF FinishSubmission
  <2>7. ASSUME NEW e \in Estimates, FailSubmission(e) PROVE Shown(f)'
    BY <2>7 DEF FailSubmission, MarkSubmissionFailed, Fail
  <2>8. ASSUME NEW j \in Jobs, Cancel(j) PROVE Shown(f)'
    BY <2>8, JobsAssumption DEF Cancel
  <2>9. ASSUME NEW m \in Modes, Startup(m) PROVE Shown(f)'
    BY <2>9 DEF Startup, Reconcile, RecoveredState
  <2>10. CASE UNCHANGED <<estStatus, authState>>
    BY <2>10
  <2>11. \/ UNCHANGED <<estStatus, authState>>
         \/ \E e \in Estimates, o \in Offers, a \in Amounts, l \in ConfiguredLimits : SaveEstimate(e, o, a, l)
         \/ \E e \in Estimates : \/ MarkExpired(e) \/ Authorize(e) \/ PrepareRetry(e) \/ ScheduleFails(e)
                                 \/ Claim(e) \/ FinishSubmission(e) \/ FailSubmission(e)
         \/ \E j \in Jobs : Cancel(j)
         \/ \E m \in Modes : Startup(m)
    BY DEF Next, vars, HandlerStep, SubmitStep, TimeToLiveElapses, SeeExpired, Schedule, SubmissionRaises, ReadJobs,
           RemoteAccepts, RemoteRaises, RecordRemoteId, StorageFails, NewDay, Crash
  <2> QED BY <2>1, <2>2, <2>3, <2>4, <2>5, <2>6, <2>7, <2>8, <2>9, <2>10, <2>11
<1> QED BY <1>1, <1>2, InductiveInvariant, PTL DEF Spec

-----------------------------------------------------------------------------
(***************************************************************************)
(* Budgets.  A budget is checked against what is reserved from the start   *)
(* of its window on; that this bounds every window, also those of days     *)
(* long past and under a clock that only goes forward, takes an invariant  *)
(* over all days.                                                          *)
(***************************************************************************)
Reserved == {e \in Estimates : ledger[e] = "RESERVED"}

\* Only rows of the old service have a remote id without an authorization,
\* so only finitely many reservations come into being in one step.  None of
\* this asks how often a task is scheduled, so that it holds with range
\* requests too.
LinkInv ==
  /\ \A e \in Estimates : authState[e] = "NONE" => ledger[e] = "none"
  /\ \A e \in Estimates : task[e] \in Running => authMode[e] = "live" /\ authState[e] # "NONE"
  /\ \A e \in Estimates : authMode[e] = "live" => \A j \in JobsOf(e) : linked[j]
  /\ \A j \in todo \cup reply : linked[j]
  /\ \A j \in Jobs : remoteId[j] => linked[j] \/ j \in LegacyJobs
LedgerInv == LinkInv /\ IsFiniteSet(Reserved)

\* Not only all reservations of a window, but any of them fit: releasing one
\* must not leave the others without a limit they fit.
BudgetInv ==
  /\ \A d \in Nat : \A w \in Windows : \A S \in SUBSET (Reserved \cap SinglesOf(d, w)) : Fits(S, w)
  /\ \A e \in Estimates : \A l \in grant[e] : authAmount[e] <= l["request"]

LEMMA LinkStep == ASSUME TypeOK, LinkInv, [Next]_vars PROVE LinkInv'
<1> USE JobsAssumption DEF TypeOK, LinkInv, JobsOf, Running, estimateVars, authVars, jobVars, storageVars, taskVars
<1>1. ASSUME NEW e \in Estimates, Authorize(e) PROVE LinkInv'
  <2>1. \A j \in Jobs : linked'[j] = (linked[j] \/ EstimateOf[j] = e)
    BY <1>1 DEF Authorize
  <2>2. /\ \A f \in Estimates : f # e => authMode'[f] = authMode[f] /\ authState'[f] = authState[f]
                                         /\ ledger'[f] = ledger[f]
        /\ authState'[e] = "AUTHORIZED"
    BY <1>1 DEF Authorize
  <2>3. UNCHANGED <<remoteId, task, todo, reply>> /\ task[e] \notin Running
    BY <1>1 DEF Authorize, Authorizable
  <2>4. \A f \in Estimates : authMode'[f] = "live" => \A j \in JobsOf(f) : linked'[j]
    <3>1. \A f \in Estimates : f # e => (authMode'[f] = "live" => \A j \in JobsOf(f) : linked'[j])
      BY <2>1, <2>2
    <3>2. \A j \in JobsOf(e) : linked'[j]
      BY <2>1
    <3> QED
      BY <3>1, <3>2
  <2>5. /\ \A j \in todo' \cup reply' : linked'[j]
        /\ \A j \in Jobs : remoteId'[j] => linked'[j] \/ j \in LegacyJobs
    BY <2>1, <2>3
  <2>6. \A f \in Estimates : task'[f] \in Running => authMode'[f] = "live" /\ authState'[f] # "NONE"
    BY <2>2, <2>3
  <2>7. \A f \in Estimates : authState'[f] = "NONE" => ledger'[f] = "none"
    BY <2>2
  <2> QED
    BY <2>4, <2>5, <2>6, <2>7
<1>2. ASSUME NEW e \in Estimates, Claim(e) PROVE LinkInv'
  BY <1>2 DEF Claim
<1>3. ASSUME NEW e \in Estimates, SubmitStep(e) PROVE LinkInv'
  <2>1. CASE ReadJobs(e)
    BY <2>1 DEF ReadJobs
  <2>2. CASE RemoteAccepts(e)
    BY <2>2 DEF RemoteAccepts
  <2>3. CASE RecordRemoteId(e)
    BY <2>3 DEF RecordRemoteId
  <2>4. CASE SubmissionRaises(e) \/ StorageFails(e) \/ RemoteRaises(e)
    BY <2>4 DEF SubmissionRaises, StorageFails, RemoteRaises
  <2>5. CASE FinishSubmission(e)
    BY <2>5 DEF FinishSubmission
  <2>6. CASE FailSubmission(e)
    BY <2>6 DEF FailSubmission, MarkSubmissionFailed, Fail
  <2> QED
    BY <1>3, <2>1, <2>2, <2>3, <2>4, <2>5, <2>6 DEF SubmitStep
<1>4. ASSUME NEW m \in Modes, Startup(m) PROVE LinkInv'
  <2>1. \A j \in Jobs : linked[j] => linked'[j]
    BY <1>4 DEF Startup, Reconcile
  <2>2. UNCHANGED <<remoteId, task, todo, reply>>
    BY <1>4 DEF Startup, Reconcile
  <2>3. \A e \in Estimates :
          \/ authMode'[e] = authMode[e] /\ authState'[e] = authState[e] /\ ledger'[e] = ledger[e]
          \/ authMode'[e] = "recovered" /\ authState[e] = "NONE" /\ authState'[e] # "NONE"
    BY <1>4 DEF Startup, Reconcile, CanReconcile, RecoveredState
  <2> QED
    BY <2>1, <2>2, <2>3
<1>5. CASE Crash
  BY <1>5 DEF Crash, NoTasks
<1>6. ASSUME NEW e \in Estimates, Schedule(e) PROVE LinkInv'
  BY <1>6 DEF Schedule
<1>7. ASSUME NEW e \in Estimates, PrepareRetry(e) \/ ScheduleFails(e) PROVE LinkInv'
  BY <1>7 DEF PrepareRetry, ScheduleFails, MarkQueueFailed, Fail
<1>8. ASSUME NEW j \in Jobs, Cancel(j) PROVE LinkInv'
  BY <1>8 DEF Cancel
<1>9. CASE UNCHANGED <<remoteId, linked, authMode, authState, ledger, task, todo, reply>>
  BY <1>9
<1>10. ASSUME NEW e \in Estimates,
              \/ \E o \in Offers, a \in Amounts, l \in ConfiguredLimits : SaveEstimate(e, o, a, l)
              \/ TimeToLiveElapses(e) \/ SeeExpired(e) \/ MarkExpired(e)
       PROVE  LinkInv'
  BY <1>9, <1>10 DEF SaveEstimate, TimeToLiveElapses, SeeExpired, MarkExpired
<1>11. CASE NewDay
  BY <1>9, <1>11 DEF NewDay
<1>12. CASE UNCHANGED vars
  BY <1>9, <1>12 DEF vars
<1>13. CASE Next
  BY ONLY <1>1, <1>2, <1>3, <1>4, <1>5, <1>6, <1>7, <1>8, <1>10, <1>11, <1>13 DEF Next, HandlerStep
<1> QED
  BY <1>12, <1>13

\* What a step may do to the reservations: nothing, release some, or add
\* those of one authorization, of a range or of the recovered rows.
SameReservations == UNCHANGED <<ledger, authMode, authDay, authAmount, grant>>
Releases == UNCHANGED <<authMode, authDay, authAmount, grant>> /\ Reserved' \subseteq Reserved
RangeReservation == \E S, X \in SUBSET Estimates : AuthorizeRange(S, X)
ReservationStep ==
  SameReservations \/ Releases \/ (\E e \in Estimates : Authorize(e)) \/ Reconcile \/ RangeReservation

LEMMA ReservationSteps == ASSUME TypeOK, [Next]_vars PROVE ReservationStep
<1>1. ASSUME NEW j \in Jobs, Cancel(j) PROVE Releases
  BY <1>1, JobsAssumption DEF Cancel, Reserved, TypeOK, Releases
<1>2. \/ SameReservations
      \/ \E e \in Estimates : Authorize(e)
      \/ \E j \in Jobs : Cancel(j)
      \/ \E m \in Modes : Startup(m)
  BY DEF Next, vars, HandlerStep, SubmitStep, SaveEstimate, TimeToLiveElapses, SeeExpired, MarkExpired, PrepareRetry,
         Schedule, ScheduleFails, MarkQueueFailed, Fail, NewDay, Claim, SubmissionRaises, ReadJobs, RemoteAccepts,
         RemoteRaises, RecordRemoteId, FinishSubmission, StorageFails, FailSubmission, MarkSubmissionFailed, Crash,
         storageVars, authVars, SameReservations
<1> QED
  BY <1>1, <1>2 DEF Startup, ReservationStep

\* Only finitely many estimates are reserved at a time.
LEMMA FinitelyReserved == ASSUME TypeOK, LedgerInv, ReservationStep PROVE IsFiniteSet(Reserved')
<1>1. CASE Releases
  BY <1>1, FS_Subset DEF LedgerInv, Releases
<1>2. ASSUME NEW e \in Estimates, Authorize(e) PROVE IsFiniteSet(Reserved')
  <2>1. Reserved' \subseteq Reserved \cup {e}
    BY <1>2 DEF Authorize, Reserved, TypeOK
  <2> QED
    BY <2>1, FS_AddElement, FS_Subset DEF LedgerInv
<1>3. CASE Reconcile
  <2> DEFINE Old == {EstimateOf[j] : j \in LegacyJobs}
             of == [j \in LegacyJobs |-> EstimateOf[j]]
  <2>1. IsFiniteSet(Old)
    <3>1. of \in Surjection(LegacyJobs, Old)
      BY DEF Surjection
    <3> QED
      BY <3>1, JobsAssumption, FS_Surjection
  <2>2. Reserved' \subseteq Reserved \cup Old
    BY <1>3 DEF Reconcile, Recovered, Unlinked, JobsOf, Reserved, LedgerInv, LinkInv, TypeOK
  <2> QED
    BY <2>1, <2>2, FS_Union, FS_Subset DEF LedgerInv
<1>4. CASE SameReservations
  BY <1>4 DEF Reserved, LedgerInv, SameReservations
<1>5. ASSUME NEW S \in SUBSET Estimates, NEW X \in SUBSET Estimates, AuthorizeRange(S, X) PROVE IsFiniteSet(Reserved')
  <2>1. Reserved' \subseteq Reserved \cup S /\ IsFiniteSet(S)
    BY <1>5 DEF AuthorizeRange, RangeReserves, Reserved, TypeOK
  <2> QED
    BY <2>1, FS_Union, FS_Subset DEF LedgerInv
<1> QED
  BY <1>1, <1>2, <1>3, <1>4, <1>5 DEF ReservationStep, RangeReservation

\* A window is the days that have its start.
LEMMA DaysOfWindow ==
  ASSUME NEW n \in Nat, NEW length \in Nat \ {0}
  PROVE  n - (n % length) = length * (n \div length) /\ length * (n \div length) <= n
BY SMTT(30)

\* Any set of reservations is one whose amounts can be added up.
LEMMA Countable ==
  ASSUME TypeOK, LedgerInv, NEW S \in SUBSET Reserved
  PROVE  IsFiniteSet(S) /\ Numbers(authAmount, S)
<1>1. IsFiniteSet(S)
  BY FS_Subset DEF LedgerInv
<1>2. \A e \in Estimates : authAmount[e] \in Nat
  <2>1. authAmount \in [Estimates -> Amounts \cup {0}]
    BY DEF TypeOK
  <2>2. \A a \in Amounts \cup {0} : a \in Nat
    BY AmountsAssumption
  <2> QED
    BY <2>1, <2>2
<1> QED
  BY <1>1, <1>2 DEF Reserved, Numbers

\* Reservations that a step leaves as they are fit the limits they fitted.
LEMMA StillFits ==
  ASSUME TypeOK, LedgerInv, NEW w \in Windows, NEW S \in SUBSET Reserved, Fits(S, w),
         \A f \in S : authAmount'[f] = authAmount[f] /\ grant'[f] = grant[f]
  PROVE  Fits(S, w)'
<1>1. SumFunctionOnSet(authAmount', S) = SumFunctionOnSet(authAmount, S)
  BY Countable, SumSame
<1>2. S # {} => \E e \in S : \E l \in grant[e] : SumFunctionOnSet(authAmount, S) <= l[w]
  BY DEF Fits, Total
<1>3. S # {} => \E e \in S : \E l \in grant'[e] : SumFunctionOnSet(authAmount', S) <= l[w]
  BY <1>1, <1>2
<1> QED
  BY <1>3 DEF Fits, Total

\* What was counted since the start of the present window contains every
\* reservation of this window.
LEMMA CountedSince ==
  ASSUME TypeOK, LedgerInv, NEW length \in Nat \ {0}, NEW H \in SUBSET Reserved,
         \A f \in H : authDay[f] \div length = day \div length
  PROVE  /\ SumFunctionOnSet(authAmount, H) <= ReservedSince(WindowStart(length))
         /\ SumFunctionOnSet(authAmount, H) \in Nat /\ ReservedSince(WindowStart(length)) \in Nat
<1> DEFINE T == {f \in Estimates : ledger[f] = "RESERVED" /\ authDay[f] >= WindowStart(length)}
<1>1. day \in Nat
  BY LimitsAssumption DEF TypeOK
<1>2. H \subseteq T
  <2> SUFFICES ASSUME NEW f \in H PROVE f \in T
    OBVIOUS
  <2>1. f \in Estimates /\ ledger[f] = "RESERVED" /\ authDay[f] \div length = day \div length /\ authDay[f] \in Nat
    <3>1. f \in Estimates /\ ledger[f] = "RESERVED"
      BY DEF Reserved
    <3>2. authDay[f] \in 0..LastDay
      BY <3>1 DEF TypeOK
    <3> QED BY <3>1, <3>2, LimitsAssumption
  <2>2. length * (authDay[f] \div length) <= authDay[f] /\ day - (day % length) = length * (day \div length)
    BY <1>1, <2>1, DaysOfWindow
  <2>3. PICK q : q = length * (day \div length)
    OBVIOUS
  <2>4. q <= authDay[f] /\ WindowStart(length) = q
    BY <2>1, <2>2, <2>3 DEF WindowStart
  <2>5. q \in Int
    BY <1>1, <2>3
  <2> QED
    BY <2>1, <2>4, <2>5
<1>3. T \in SUBSET Reserved
  BY DEF Reserved
<1>4. ReservedSince(WindowStart(length)) = SumFunctionOnSet(authAmount, T)
  BY DEF ReservedSince
<1> HIDE DEF T
<1>5. IsFiniteSet(T) /\ Numbers(authAmount, T) /\ IsFiniteSet(H) /\ Numbers(authAmount, H)
  BY <1>3, Countable
<1> QED
  BY <1>2, <1>4, <1>5, SumGrows, SumType

\* What is checked against the reservations since the start of the present
\* window keeps every window within a limit of its own.
LEMMA AuthorizeKeepsWindow ==
  ASSUME TypeOK, TypeOK', LedgerInv, LedgerInv', BudgetInv, NEW e \in Estimates, Authorize(e),
         NEW d \in Nat, NEW w \in Windows, NEW S \in SUBSET (Reserved \cap SinglesOf(d, w))'
  PROVE  Fits(S, w)'
<1>1. e \notin Reserved
  BY DEF Authorize, Authorizable, LedgerInv, LinkInv, Reserved
<1>2. /\ \A f \in Estimates : f # e => /\ ledger'[f] = ledger[f] /\ grant'[f] = grant[f]
                                       /\ authDay'[f] = authDay[f] /\ authAmount'[f] = authAmount[f]
      /\ ledger'[e] = "RESERVED" /\ grant'[e] = {limits[e]} /\ authDay'[e] = day /\ authAmount'[e] = price[e]
  BY DEF Authorize, TypeOK
<1>3. PICK H : H = S \ {e}
  OBVIOUS
<1>4. H \in SUBSET (Reserved \cap SinglesOf(d, w))
  BY <1>2, <1>3 DEF Reserved, SinglesOf, InWindow
<1>5. Fits(H, w)'
  <2>1. \A f \in H : authAmount'[f] = authAmount[f] /\ grant'[f] = grant[f]
    BY <1>2, <1>3, <1>4 DEF Reserved
  <2> QED
    BY <1>4, <2>1, StillFits DEF BudgetInv
<1>6. CASE e \notin S
  BY <1>3, <1>5, <1>6
<1>7. CASE e \in S
  <2>1. PICK length \in Nat \ {0} : Length[w] = length
    BY LimitsAssumption DEF Windows, Length
  <2>2. ReservedSince(WindowStart(length)) + price[e] <= limits[e][w]
    BY <2>1 DEF Authorize, WithinBudget
  <2>3. \A f \in H : authDay[f] \div length = day \div length
    <3>1. d \div length = day \div length
      BY <1>2, <1>7, <2>1 DEF SinglesOf, InWindow
    <3> QED
      BY <1>4, <2>1, <3>1 DEF SinglesOf, InWindow
  <2>4. PICK sum : sum = SumFunctionOnSet(authAmount, H)
    OBVIOUS
  <2>5. PICK since : since = ReservedSince(WindowStart(length))
    OBVIOUS
  <2>6. sum <= since /\ sum \in Nat /\ since \in Nat
    BY <1>4, <2>1, <2>3, <2>4, <2>5, CountedSince
  <2>7. SumFunctionOnSet(authAmount', S) = price[e] + sum
    <3>1. IsFiniteSet(S) /\ Numbers(authAmount', S) /\ IsFiniteSet(H)
      <4>1. S \in SUBSET Reserved'
        OBVIOUS
      <4>2. IsFiniteSet(S) /\ Numbers(authAmount', S)
        <5>1. IsFiniteSet(S)
          BY <4>1, FS_Subset DEF LedgerInv
        <5>2. \A f \in Estimates : authAmount'[f] \in Nat
          <6>1. authAmount' \in [Estimates -> Amounts \cup {0}]
            BY DEF TypeOK
          <6>2. \A a \in Amounts \cup {0} : a \in Nat
            BY AmountsAssumption
          <6> QED
            BY <6>1, <6>2
        <5> QED
          BY <4>1, <5>1, <5>2 DEF Reserved, Numbers
      <4> QED
        BY <1>3, <4>2, FS_Subset
    <3>2. SumFunctionOnSet(authAmount', S) = authAmount'[e] + SumFunctionOnSet(authAmount', S \ {e})
      BY <1>7, <3>1, SumTakes
    <3>3. SumFunctionOnSet(authAmount', H) = SumFunctionOnSet(authAmount, H)
      <4>1. \A f \in H : authAmount'[f] = authAmount[f]
        BY <1>2, <1>3, <1>4 DEF Reserved
      <4> QED
        BY <3>1, <4>1, SumSame
    <3> QED
      BY <1>2, <1>3, <2>4, <3>2, <3>3
  <2>8. price[e] \in Nat /\ limits[e][w] \in Nat
    <3>1. price[e] \in Amounts \cup {0}
      BY DEF TypeOK
    <3>2. limits[e] \in Limits
      BY DEF TypeOK
    <3>3. w \in LimitKinds
      BY DEF LimitKinds
    <3>4. limits[e][w] \in Nat
      BY <3>2, <3>3 DEF Limits
    <3>5. \A a \in Amounts \cup {0} : a \in Nat
      BY AmountsAssumption
    <3> QED
      BY ONLY <3>1, <3>4, <3>5
  <2>9. SumFunctionOnSet(authAmount', S) <= limits[e][w]
    BY <2>2, <2>5, <2>6, <2>7, <2>8
  <2> QED
    BY <1>2, <1>7, <2>9 DEF Fits, Total
<1> QED
  BY <1>6, <1>7

LEMMA BudgetStep ==
  ASSUME TypeOK, TypeOK', LedgerInv, LedgerInv', BudgetInv, ReservationStep
  PROVE  BudgetInv'
<1>1. ASSUME NEW d \in Nat, NEW w \in Windows, NEW S \in SUBSET (Reserved \cap SinglesOf(d, w))' PROVE Fits(S, w)'
  <2>1. ASSUME NEW A \in SUBSET Estimates,
               \A f \in Estimates : f \in A =>
                 ledger'[f] = ledger[f] /\ grant'[f] = grant[f] /\ authDay'[f] = authDay[f] /\ authAmount'[f] = authAmount[f],
               \A f \in Estimates \ A : grant'[f] = {}
        PROVE  Fits(S, w)'
    <3>1. S \in SUBSET (Reserved \cap SinglesOf(d, w)) /\ S \subseteq A
      BY <2>1 DEF Reserved, SinglesOf, InWindow
    <3>2. \A f \in S : authAmount'[f] = authAmount[f] /\ grant'[f] = grant[f]
      BY <2>1, <3>1
    <3> QED
      BY <3>1, <3>2, StillFits DEF BudgetInv
  <2>2. CASE SameReservations \/ Releases
    <3>1. S \in SUBSET (Reserved \cap SinglesOf(d, w))
      BY <2>2 DEF SameReservations, Releases, Reserved, SinglesOf, InWindow
    <3>2. \A f \in S : authAmount'[f] = authAmount[f] /\ grant'[f] = grant[f]
      BY <2>2 DEF SameReservations, Releases
    <3> QED
      BY <3>1, <3>2, StillFits DEF BudgetInv
  <2>3. ASSUME NEW e \in Estimates, Authorize(e) PROVE Fits(S, w)'
    BY <2>3, AuthorizeKeepsWindow
  <2>4. CASE Reconcile
    <3> DEFINE A == {e \in Estimates : Recovered(e) = {}}
    <3>1. \A f \in Estimates : f \in A =>
            ledger'[f] = ledger[f] /\ grant'[f] = grant[f] /\ authDay'[f] = authDay[f] /\ authAmount'[f] = authAmount[f]
      BY <2>4 DEF Reconcile
    <3>2. \A f \in Estimates \ A : grant'[f] = {}
      BY <2>4 DEF Reconcile
    <3> HIDE DEF A
    <3> QED
      BY <2>1, <3>1, <3>2 DEF A
  <2>5. ASSUME NEW R \in SUBSET Estimates, NEW X \in SUBSET Estimates, AuthorizeRange(R, X) PROVE Fits(S, w)'
    <3>1. \A f \in Estimates \ R :
            ledger'[f] = ledger[f] /\ grant'[f] = grant[f] /\ authDay'[f] = authDay[f] /\ authAmount'[f] = authAmount[f]
      BY <2>5 DEF AuthorizeRange, RangeReserves
    <3>2. \A f \in R : grant'[f] = {}
      BY <2>5 DEF AuthorizeRange, RangeReserves
    <3> QED
      BY <2>1, <3>1, <3>2
  <2> QED
    BY <2>2, <2>3, <2>4, <2>5 DEF ReservationStep, RangeReservation
<1>2. ASSUME NEW e \in Estimates, NEW l \in grant'[e] PROVE authAmount'[e] <= l["request"]
  <2>1. CASE grant'[e] = grant[e] /\ authAmount'[e] = authAmount[e]
    BY <1>2, <2>1 DEF BudgetInv
  <2>2. CASE SameReservations \/ Releases
    BY <2>1, <2>2 DEF SameReservations, Releases
  <2>3. ASSUME NEW f \in Estimates, Authorize(f) PROVE authAmount'[e] <= l["request"]
    <3>1. CASE e = f
      BY <1>2, <2>3, <3>1 DEF Authorize, WithinBudget, TypeOK
    <3>2. CASE e # f
      BY <2>1, <2>3, <3>2 DEF Authorize, TypeOK
    <3> QED
      BY <3>1, <3>2
  <2>4. CASE Reconcile
    BY <1>2, <2>1, <2>4 DEF Reconcile
  <2>5. ASSUME NEW R \in SUBSET Estimates, NEW X \in SUBSET Estimates, AuthorizeRange(R, X)
        PROVE  authAmount'[e] <= l["request"]
    BY <1>2, <2>1, <2>5 DEF AuthorizeRange, RangeReserves
  <2> QED
    BY <2>2, <2>3, <2>4, <2>5 DEF ReservationStep, RangeReservation
<1> QED
  BY <1>1, <1>2 DEF BudgetInv

LEMMA BudgetStarts == ASSUME Init PROVE LedgerInv /\ BudgetInv
<1>1. Reserved = {}
  BY DEF Init, Reserved
<1>2. LinkInv
  <2>1. /\ authMode = [e \in Estimates |-> "none"] /\ task = [e \in Estimates |-> "none"]
        /\ ledger = [e \in Estimates |-> "none"] /\ todo = {} /\ reply = {}
        /\ \E legacy \in SUBSET LegacyJobs : remoteId = [j \in Jobs |-> j \in legacy]
    BY DEF Init
  <2>2. \A j \in Jobs : remoteId[j] => j \in LegacyJobs
    BY <2>1
  <2> QED
    BY <2>1, <2>2 DEF LinkInv, Running
<1>3. BudgetInv
  BY <1>1 DEF Init, BudgetInv, Fits
<1> QED
  BY <1>1, <1>2, <1>3, FS_EmptySet DEF LedgerInv

LEMMA BudgetImplies == ASSUME TypeOK, BudgetInv PROVE ReservationsWithinOwnLimits
<1> SUFFICES ASSUME NEW d \in 0..day, NEW w \in Windows
             PROVE  Fits({e \in SinglesOf(d, w) : ledger[e] = "RESERVED"}, w)
  BY DEF ReservationsWithinOwnLimits, BudgetInv
<1>1. {e \in SinglesOf(d, w) : ledger[e] = "RESERVED"} \in SUBSET (Reserved \cap SinglesOf(d, w))
  BY DEF SinglesOf, Reserved
<1>2. d \in Nat
  BY DEF TypeOK
<1> QED
  BY <1>1, <1>2 DEF BudgetInv

\* However authorizations interleave with retries, cancellations, restarts
\* and the change of days, what they reserve in a day, week or month fits a
\* limit one of them was authorized under.
THEOREM BudgetsHold == Spec => []ReservationsWithinOwnLimits
<1>1. TypeOK /\ TypeOK' /\ LedgerInv /\ BudgetInv /\ [Next]_vars => LedgerInv' /\ BudgetInv'
  BY ReservationSteps, LinkStep, FinitelyReserved, BudgetStep DEF LedgerInv
<1>2. TypeOK /\ BudgetInv => ReservationsWithinOwnLimits
  BY BudgetImplies
<1> QED
  BY <1>1, <1>2, BudgetStarts, TypeCorrect, PTL DEF Spec

-----------------------------------------------------------------------------
(***************************************************************************)
(* The same with range runs and range requests in between.                 *)
(***************************************************************************)
\* A range run reads and writes rows of the types it found.
LEMMA RangeTypeStep ==
  ASSUME RangeBudgets \subseteq Nat, RangeTypeOK, [RangeNext]_<<vars, rangeVars>>
  PROVE  RangeTypeOK'
<1> USE JobsAssumption, AmountsAssumption, LimitsAssumption
<1>1. CASE SingleStep
  <2>1. TypeOK'
    BY <1>1, TypeStep DEF SingleStep, RangeTypeOK
  <2>2. \A e \in Estimates : authState[e] # "NONE" => authState'[e] # "NONE"
    BY <1>1, AuthorizationStays DEF SingleStep, RangeTypeOK
  <2> QED
    BY <1>1, <2>1, <2>2 DEF SingleStep, RangeTypeOK
<1>2. ASSUME NEW e \in Estimates, ReadChild(e) PROVE RangeTypeOK'
  <2>1. UNCHANGED vars /\ scheduling' = scheduling
    BY <1>2 DEF ReadChild
  <2>2. TypeOK'
    BY <2>1 DEF RangeTypeOK, TypeOK, vars, storageVars, estimateVars, authVars, jobVars, taskVars
  <2>3. childRow' = {[estimate |-> e, status |-> estStatus[e], offer |-> offer[e], price |-> price[e]]}
    BY <1>2 DEF ReadChild
  <2> QED
    BY <2>1, <2>2, <2>3 DEF RangeTypeOK, TypeOK, vars, storageVars, authVars
<1>3. ASSUME NEW r \in childRow, NEW budget \in RangeBudgets, RewriteChild(r, budget) PROVE RangeTypeOK'
  <2>1. /\ r.estimate \in Estimates /\ r.offer \in Offers \cup {"blocked"} /\ r.price \in Amounts \cup {0}
        /\ r.status \in LifecycleStatuses \cup AuthStates
             \cup {"NONE", "LOCAL_REUSE", "AWAITING_CONFIRMATION", "BLOCKED"}
    BY DEF RangeTypeOK
  <2>2. PICK o \in OffersWithin(r, budget) :
          /\ offer' = [offer EXCEPT ![r.estimate] = o]
          /\ estStatus' = [estStatus EXCEPT ![r.estimate] = IF r.status \in PreservedStatuses THEN r.status
                                                            ELSE NewEstimateStatus[o]]
    BY <1>3 DEF RewriteChild
  <2>3. o \in Offers \cup {"blocked"} /\ o \in {"reuse", "allowed", "blocked"}
    BY <2>1 DEF OffersWithin
  <2>4. NewEstimateStatus[o] \in {"LOCAL_REUSE", "AWAITING_CONFIRMATION", "BLOCKED"}
    BY <2>3 DEF NewEstimateStatus
  <2>5. RangeLimits(r, budget) \in Limits
    <3>1. budget \in Nat
      OBVIOUS
    <3>2. r.price \in Nat
      <4>1. \A a \in Amounts \cup {0} : a \in Nat
        OBVIOUS
      <4>2. r.price \in Amounts \cup {0}
        BY <2>1
      <4> QED
        BY ONLY <4>1, <4>2
    <3> QED
      BY <3>1, <3>2 DEF RangeLimits, Limits
  <2>7. /\ offer' \in [Estimates -> Offers \cup {"blocked"}] /\ price' \in [Estimates -> Amounts \cup {0}]
        /\ limits' \in [Estimates -> Limits] /\ fresh' \in [Estimates -> BOOLEAN]
    BY <1>3, <2>1, <2>2, <2>3, <2>5 DEF RewriteChild, RangeTypeOK, TypeOK
  <2>8. estStatus' \in [Estimates -> LifecycleStatuses \cup AuthStates
                           \cup {"NONE", "LOCAL_REUSE", "AWAITING_CONFIRMATION", "BLOCKED"}]
    BY <2>1, <2>2, <2>4 DEF RangeTypeOK, TypeOK
  <2>9. UNCHANGED <<up, mode, day, authVars, jobVars, orders, taskVars>>
    BY <1>3 DEF RewriteChild
  <2>6. TypeOK'
    BY <2>7, <2>8, <2>9 DEF RangeTypeOK, TypeOK, authVars, jobVars, taskVars
  <2> QED
    BY <1>3, <2>6 DEF RewriteChild, RangeTypeOK, authVars
<1>4. ASSUME NEW S \in SUBSET Estimates, NEW X \in SUBSET Estimates, AuthorizeRange(S, X) PROVE RangeTypeOK'
  <2>1. TypeOK'
    BY <1>4 DEF AuthorizeRange, RangeReserves, RangeTypeOK, TypeOK, AuthStates, ActiveStates, taskVars
  <2>2. \A e \in Estimates : authState'[e] = IF e \in S THEN "AUTHORIZED" ELSE authState[e]
    BY <1>4 DEF AuthorizeRange, RangeReserves
  <2>3. scheduling' \subseteq scheduling \cup S \cup X /\ \A e \in X : authState[e] # "NONE"
    BY <1>4 DEF AuthorizeRange
  <2> QED
    BY <1>4, <2>1, <2>2, <2>3 DEF AuthorizeRange, RangeTypeOK
<1>5. ASSUME NEW e \in Estimates, RangeSchedule(e) PROVE RangeTypeOK'
  BY <1>5 DEF RangeSchedule, RangeTypeOK, TypeOK, storageVars, estimateVars, authVars, jobVars
<1>6. CASE RangeRequestFails
  BY <1>6 DEF RangeRequestFails, RangeTypeOK, TypeOK, vars, storageVars, estimateVars, authVars, jobVars, taskVars
<1>7. CASE UNCHANGED <<vars, rangeVars>>
  BY <1>7 DEF rangeVars, RangeTypeOK, TypeOK, vars, storageVars, estimateVars, authVars, jobVars, taskVars
<1> QED
  BY <1>1, <1>2, <1>3, <1>4, <1>5, <1>6, <1>7 DEF RangeNext, RangeStep

\* With range runs every variable keeps its type too.
THEOREM RangeTypeCorrect ==
  ASSUME RangeBudgets \subseteq Nat
  PROVE  RangeSpec => []RangeTypeOK
<1>1. Init => TypeOK
  BY TypeStarts
<1>2. RangeInit => RangeTypeOK
  BY <1>1 DEF RangeInit, RangeTypeOK
<1>3. RangeTypeOK /\ [RangeNext]_<<vars, rangeVars>> => RangeTypeOK'
  BY RangeTypeStep
<1> QED
  BY <1>2, <1>3, PTL DEF RangeSpec

LEMMA RangeBudgetStep ==
  ASSUME RangeTypeOK, RangeTypeOK', LedgerInv, BudgetInv, [RangeNext]_<<vars, rangeVars>>
  PROVE  LedgerInv' /\ BudgetInv'
<1> USE DEF RangeTypeOK
<1>1. CASE [Next]_vars
  BY <1>1, ReservationSteps, LinkStep, FinitelyReserved, BudgetStep DEF LedgerInv
<1>2. CASE RangeStep
  <2>1. CASE RangeReservation
    <3>1. PICK S \in SUBSET Estimates, X \in SUBSET Estimates : AuthorizeRange(S, X)
      BY <2>1 DEF RangeReservation
    <3>2. /\ \A e \in S : authState[e] = "NONE"
          /\ UNCHANGED <<task, todo, reply, remoteId>>
          /\ \A j \in Jobs : linked'[j] = (linked[j] \/ EstimateOf[j] \in S)
          /\ \A e \in Estimates : authState'[e] = IF e \in S THEN "AUTHORIZED" ELSE authState[e]
          /\ \A e \in Estimates \ S : authMode'[e] = authMode[e] /\ ledger'[e] = ledger[e]
      BY <3>1 DEF AuthorizeRange, RangeAuthorizable, RangeReserves, taskVars
    <3>3. LinkInv'
      BY <3>2, JobsAssumption DEF LedgerInv, LinkInv, JobsOf, TypeOK
    <3> QED
      BY <2>1, <3>3, FinitelyReserved, BudgetStep DEF LedgerInv, ReservationStep
  <2>2. CASE ~RangeReservation
    <3>1. SameReservations /\ UNCHANGED <<authState, todo, reply, remoteId, linked>>
      BY <1>2, <2>2 DEF RangeReservation, RangeStep, ReadChild, RewriteChild, RangeSchedule, RangeRequestFails,
         SameReservations, vars, storageVars, authVars, jobVars, taskVars
    <3>2. \A e \in Estimates : task'[e] \in Running => task[e] \in Running
      BY <1>2, <2>2 DEF RangeReservation, RangeStep, ReadChild, RewriteChild, RangeSchedule, RangeRequestFails,
         vars, taskVars, TypeOK, Running
    <3>3. LinkInv'
      BY <3>1, <3>2 DEF SameReservations, LedgerInv, LinkInv
    <3> QED
      BY <3>1, <3>3, FinitelyReserved, BudgetStep DEF LedgerInv, ReservationStep
  <2> QED
    BY <2>1, <2>2
<1> QED
  BY <1>1, <1>2 DEF RangeNext, SingleStep, rangeVars

\* Range requests reserve in the same ledger without this check, and rewrite
\* the limits of an estimate: still, what single-day authorizations reserve
\* fits a limit one of them was authorized under.
THEOREM RangeBudgetsHold ==
  ASSUME RangeBudgets \subseteq Nat
  PROVE  RangeSpec => []ReservationsWithinOwnLimits
<1>1. RangeInit => LedgerInv /\ BudgetInv
  BY BudgetStarts DEF RangeInit
<1>2. RangeTypeOK /\ RangeTypeOK' /\ LedgerInv /\ BudgetInv /\ [RangeNext]_<<vars, rangeVars>> =>
        LedgerInv' /\ BudgetInv'
  BY RangeBudgetStep
<1>3. RangeTypeOK /\ BudgetInv => ReservationsWithinOwnLimits
  BY BudgetImplies DEF RangeTypeOK
<1>4. RangeSpec => []RangeTypeOK
  BY RangeTypeCorrect
<1> QED
  BY <1>1, <1>2, <1>3, <1>4, PTL DEF RangeSpec

\* The authorization machinery implements the contract: reservations,
\* releases and orders happen as it allows, and every other step stutters.
THEOREM Implements == Spec => KeepsContract
<1>1. Init => Contract!Init
  BY DEF Init, Contract!Init
<1>2. IInv /\ [Next]_vars => [Contract!Next]_<<ledger, orders>>
  <2> SUFFICES ASSUME IInv, Next PROVE [Contract!Next]_<<ledger, orders>>
    BY DEF vars, authVars, storageVars
  <2> USE JobsAssumption DEF IInv, TypeOK
  <2>1. ASSUME NEW e \in Estimates, Authorize(e) PROVE Contract!Reserve({e})
    <3>1. ledger[e] = "none"
      BY <2>1 DEF Authorize, Authorizable, RowInv
    <3> QED BY <2>1, <3>1 DEF Authorize, Contract!Reserve
  <2>2. ASSUME NEW m \in Modes, Startup(m)
        PROVE Contract!Reserve({e \in Estimates : Recovered(e) # {}})
    <3>1. \A e \in Estimates : Recovered(e) # {} => ledger[e] = "none"
      BY <2>2 DEF Startup, Reconcile, CanReconcile, RowInv
    <3> QED BY <2>2, <3>1 DEF Startup, Reconcile, Contract!Reserve
  <2>3. ASSUME NEW j \in Jobs, Cancel(j)
        PROVE Contract!Release(EstimateOf[j]) \/ UNCHANGED <<ledger, orders>>
    <3>1. ledger[EstimateOf[j]] # "none"
      BY <2>3 DEF Cancel, Cancellable, RowInv, JobsOf
    <3> QED BY <2>3, <3>1 DEF Cancel, Contract!Release
  <2>4. ASSUME NEW e \in Estimates, NEW j \in todo, task[e] = "submitting",
               orders' = [orders EXCEPT ![j] = @ + 1], UNCHANGED ledger
        PROVE Contract!Order(j) /\ j \in Jobs
    <3>1. j \in JobsOf(e) /\ orders[j] = 0 /\ ledger[e] = "RESERVED"
      BY <2>4 DEF SubmissionInv, Running
    <3>2. j \in Jobs /\ EstimateOf[j] = e
      BY <3>1 DEF JobsOf
    <3> QED BY <2>4, <3>1, <3>2 DEF Contract!Order
  <2>5. ASSUME NEW e \in Estimates, RemoteAccepts(e) \/ RemoteRaises(e)
        PROVE [\E j \in Jobs : Contract!Order(j)]_<<ledger, orders>>
    BY <2>4, <2>5 DEF RemoteAccepts, RemoteRaises, storageVars, authVars
  <2>6. \/ UNCHANGED <<ledger, orders>>
        \/ \E e \in Estimates : Authorize(e) \/ RemoteAccepts(e) \/ RemoteRaises(e)
        \/ \E j \in Jobs : Cancel(j)
        \/ \E m \in Modes : Startup(m)
    BY DEF Next, HandlerStep, SubmitStep, SaveEstimate, TimeToLiveElapses, SeeExpired, MarkExpired,
           PrepareRetry, Schedule, ScheduleFails, Claim, SubmissionRaises, ReadJobs, RecordRemoteId, FinishSubmission,
           StorageFails, FailSubmission, NewDay, Crash, storageVars, authVars
  <2>7. CASE \E e \in Estimates : Authorize(e)
    BY ONLY <2>1, <2>7 DEF Contract!Next
  <2>8. CASE \E m \in Modes : Startup(m)
    <3>1. Contract!Reserve({e \in Estimates : Recovered(e) # {}})
      BY ONLY <2>2, <2>8
    <3> QED BY ONLY <3>1 DEF Contract!Next
  <2>9. CASE \E j \in Jobs : Cancel(j)
    <3>1. \A j \in Jobs : EstimateOf[j] \in Estimates
      OBVIOUS
    <3> QED BY ONLY <2>3, <2>9, <3>1 DEF Contract!Next
  <2>10. CASE \E e \in Estimates : RemoteAccepts(e) \/ RemoteRaises(e)
    BY ONLY <2>5, <2>10 DEF Contract!Next
  <2> QED BY ONLY <2>6, <2>7, <2>8, <2>9, <2>10
<1> QED BY <1>1, <1>2, InductiveInvariant, PTL DEF Spec, KeepsContract, Contract!Spec

-----------------------------------------------------------------------------
(* The downloads of an authorization.                                      *)

OrderedAll(e) == \A j \in JobsOf(e) : remoteId[j] /\ orders[j] = 1

\* Stages in which the downloader has replaced the destination, and in which
\* it has described it as well.
Described == {"described", "importing", "imported", "validating", "completing"}
Delivered == Described \cup {"moved"}

\* Rows are linked to their authorization; what a refresh has listed is a row
\* with a remote id, and COMPLETED is only listed of what is on disk.
RowsInv ==
  /\ \A j \in Jobs : linked[j] /\ jobStatus[j] # "NONE"
  /\ \A j \in DOMAIN rows : /\ remoteId[j]
                            /\ rows[j] = "COMPLETED" => file[j] # "absent" /\ manifest[j]

\* From QUEUED on the reservation is held and every job ordered.
Purchased == {"QUEUED"} \cup Advanced
BoughtInv == \A e \in Estimates : authState[e] \in Purchased => ledger[e] = "RESERVED" /\ OrderedAll(e)

\* A download runs for an authorization that was bought, and whose state only
\* another download of it can have changed.
DownloadOf(d) ==
  /\ stage[d] \in InTry \cup {"failing"} =>
       /\ authState[EstimateOf[target[d]]] \in Advanced \cup {"FAILED"}
       /\ OrderedAll(EstimateOf[target[d]])
  /\ stage[d] \in Delivered => file[target[d]] # "absent"
  /\ stage[d] \in Described => manifest[target[d]]
DownloadInv == \A d \in Downloaders : DownloadOf(d)

BatchInv == /\ BatchTypeOK /\ Safe /\ RowsInv /\ BoughtInv /\ DownloadInv
            /\ CompletedIsLocal /\ EstimateFollowsDownload

batchSpecVars == <<vars, batchVars>>
-----------------------------------------------------------------------------
(***************************************************************************)
(* The steps of the authorization.                                         *)
(***************************************************************************)
\* With every row linked there is nothing to reconcile at start-up.
LEMMA StartupChangesNothing ==
  ASSUME TypeOK, \A j \in Jobs : linked[j], NEW m \in Modes, Startup(m)
  PROVE  UNCHANGED <<storageVars, orders, taskVars, day>>
<1>1. \A e \in Estimates : Recovered(e) = {}
  BY DEF Recovered, Unlinked, JobsOf
<1>2. UNCHANGED <<authState, estStatus, authMode, authDay, authAmount, grant, ledger>>
  BY <1>1 DEF Startup, Reconcile, TypeOK
<1>3. UNCHANGED <<linked, jobStatus>>
  BY <1>1, JobsAssumption DEF Startup, Reconcile, TypeOK
<1> QED BY <1>2, <1>3 DEF Startup, Reconcile, storageVars, estimateVars, authVars, jobVars

\* Requests, tasks, restarts and crashes take steps of DownloadAuthorization.
LEMMA AuthorizationSteps == ASSUME AuthorizationNext \/ CrashAll PROVE Next
BY DEF AuthorizationNext, CrashAll, Next

\* None of them changes an authorization that has been bought, its
\* reservation or its orders.
LEMMA BoughtIsLeftAlone ==
  ASSUME TypeOK, Safe, \A j \in Jobs : linked[j], AuthorizationNext \/ CrashAll,
         NEW e \in Estimates, OrderedAll(e),
         authState[e] \in Purchased \/ (authState[e] = "FAILED" /\ JobsOf(e) # {})
  PROVE  /\ UNCHANGED <<authState[e], estStatus[e], ledger[e]>>
         /\ OrderedAll(e)'
         /\ \A j \in JobsOf(e) : UNCHANGED jobStatus[j]
<1> DEFINE Same == /\ UNCHANGED <<authState[e], estStatus[e], ledger[e]>>
                   /\ OrderedAll(e)'
                   /\ \A j \in JobsOf(e) : UNCHANGED jobStatus[j]
<1> USE JobsAssumption DEF TypeOK, OrderedAll, JobsOf, authVars, jobVars, storageVars, estimateVars
<1>0. authState[e] \notin {"AUTHORIZED", "SUBMITTING", "CANCELLED"}
  BY DEF Purchased, Advanced
<1>1. handler[e] = "idle" /\ task[e] \notin Running
  BY <1>0 DEF Safe, PendingInv, SubmissionInv
<1>2. ASSUME NEW f \in Estimates, Schedule(f) \/ SubmissionRaises(f) \/ ReadJobs(f) \/ StorageFails(f) PROVE Same
  BY <1>2 DEF Schedule, SubmissionRaises, ReadJobs, StorageFails
<1>3. ASSUME NEW f \in Estimates, PrepareRetry(f) PROVE Same
  <2>1. f # e
    BY <1>0, <1>3 DEF PrepareRetry, NoRemoteId, Purchased, Advanced
  <2> QED BY <1>3, <2>1 DEF PrepareRetry, WithStatus
<1>4. ASSUME NEW f \in Estimates, ScheduleFails(f) PROVE Same
  <2>1. f # e
    BY <1>1, <1>4 DEF ScheduleFails
  <2> QED BY <1>4, <2>1 DEF ScheduleFails, MarkQueueFailed, Fail, NoRemoteId, WithStatus
<1>5. ASSUME NEW f \in Estimates, Claim(f) PROVE Same
  <2>1. CASE authState[f] = "AUTHORIZED"
    <3>1. f # e
      BY <1>0, <2>1
    <3> QED BY <1>5, <3>1 DEF Claim, WithStatus
  <2>2. CASE authState[f] # "AUTHORIZED"
    BY <1>5, <2>2 DEF Claim
  <2> QED BY <2>1, <2>2
<1>6. ASSUME NEW f \in Estimates, RemoteAccepts(f) \/ RemoteRaises(f) PROVE Same
  <2>1. task[f] = "submitting"
    BY <1>6 DEF RemoteAccepts, RemoteRaises
  <2>2. todo \subseteq JobsOf(f) /\ f # e
    BY <1>1, <2>1 DEF Safe, SubmissionInv, Running
  <2>3. todo \cap JobsOf(e) = {}
    BY <2>2
  <2> QED BY <1>6, <2>3 DEF RemoteAccepts, RemoteRaises
<1>7. ASSUME NEW f \in Estimates, RecordRemoteId(f) PROVE Same
  <2>1. task[f] = "recording"
    BY <1>7 DEF RecordRemoteId
  <2>2. reply \subseteq JobsOf(f) /\ f # e
    BY <1>1, <2>1 DEF Safe, SubmissionInv, Running
  <2>3. reply \cap JobsOf(e) = {}
    BY <2>2
  <2> QED BY <1>7, <2>3 DEF RecordRemoteId, WithStatus
<1>8. ASSUME NEW f \in Estimates, FinishSubmission(f) \/ FailSubmission(f) PROVE Same
  <2>1. f # e
    BY <1>1, <1>8 DEF FinishSubmission, FailSubmission, Running
  <2> QED BY <1>8, <2>1 DEF FinishSubmission, FailSubmission, MarkSubmissionFailed, Fail, NoRemoteId, WithStatus
<1>9. ASSUME NEW j \in Jobs, Cancel(j) PROVE Same
  <2>1. EstimateOf[j] # e
    BY <1>9 DEF Cancel, Cancellable
  <2> QED BY <1>9, <2>1 DEF Cancel
<1>10. ASSUME NEW m \in Modes, Startup(m) PROVE Same
  BY <1>10, StartupChangesNothing
<1>11. CASE CrashAll
  BY <1>11 DEF CrashAll, Crash
<1> QED BY <1>2, <1>3, <1>4, <1>5, <1>6, <1>7, <1>8, <1>9, <1>10, <1>11 DEF AuthorizationNext, HandlerStep, SubmitStep

\* They take an authorization no further than QUEUED, and there only once all
\* its jobs are ordered.
LEMMA QueuedIsBought ==
  ASSUME TypeOK, Safe, \A j \in Jobs : linked[j], AuthorizationNext \/ CrashAll,
         NEW e \in Estimates, authState[e] \notin Purchased, authState'[e] \in Purchased
  PROVE  ledger'[e] = "RESERVED" /\ OrderedAll(e)' /\ authState'[e] = "QUEUED"
<1> USE DEF TypeOK, authVars, jobVars, storageVars, estimateVars
<1>1. PICK f \in Estimates : FinishSubmission(f)
  <2>1. ASSUME NEW f \in Estimates, PrepareRetry(f) PROVE FALSE
    BY <2>1 DEF PrepareRetry, Purchased, Advanced
  <2>2. ASSUME NEW f \in Estimates, ScheduleFails(f) PROVE FALSE
    BY <2>2 DEF ScheduleFails, MarkQueueFailed, Fail, Purchased, Advanced
  <2>3. ASSUME NEW f \in Estimates, Claim(f) PROVE FALSE
    BY <2>3 DEF Claim, Purchased, Advanced
  <2>4. ASSUME NEW f \in Estimates, FailSubmission(f) PROVE FALSE
    BY <2>4 DEF FailSubmission, MarkSubmissionFailed, Fail, Purchased, Advanced
  <2>5. ASSUME NEW j \in Jobs, Cancel(j) PROVE FALSE
    BY <2>5, JobsAssumption DEF Cancel, Purchased, Advanced
  <2>6. ASSUME NEW m \in Modes, Startup(m) PROVE FALSE
    BY <2>6, StartupChangesNothing
  <2>7. ~UNCHANGED authState
    OBVIOUS
  <2> QED BY <2>1, <2>2, <2>3, <2>4, <2>5, <2>6, <2>7
      DEF AuthorizationNext, HandlerStep, SubmitStep, Schedule, SubmissionRaises, ReadJobs, RemoteAccepts, RemoteRaises,
          RecordRemoteId, StorageFails, CrashAll, Crash
<1>2. f = e
  BY <1>1 DEF FinishSubmission
<1>3. task[e] = "submitting" /\ todo = {}
  BY <1>1, <1>2 DEF FinishSubmission
<1>4. ledger[e] = "RESERVED" /\ \A j \in JobsOf(e) : orders[j] = 1 /\ remoteId[j]
  BY <1>3 DEF Safe, SubmissionInv, Running
<1> QED BY <1>1, <1>4 DEF FinishSubmission, OrderedAll, JobsOf

\* They never lose a remote id or a link, and only write statuses of their own.
LEMMA RowsAreKept ==
  ASSUME TypeOK, \A j \in Jobs : linked[j], AuthorizationNext \/ CrashAll, NEW j \in Jobs
  PROVE  /\ linked'[j] /\ (remoteId[j] => remoteId'[j])
         /\ jobStatus'[j] \in {jobStatus[j], "AUTHORIZED", "SUBMITTING", "QUEUED", "FAILED", "CANCELLED"}
<1> DEFINE Kept == /\ linked'[j] /\ (remoteId[j] => remoteId'[j])
                   /\ jobStatus'[j] \in {jobStatus[j], "AUTHORIZED", "SUBMITTING", "QUEUED", "FAILED", "CANCELLED"}
<1> USE DEF TypeOK, authVars, jobVars, storageVars, estimateVars
<1>1. ASSUME NEW e \in Estimates, Schedule(e) \/ SubmissionRaises(e) \/ ReadJobs(e) \/ StorageFails(e)
                                  \/ RemoteAccepts(e) \/ RemoteRaises(e) \/ FinishSubmission(e) PROVE Kept
  BY <1>1 DEF Schedule, SubmissionRaises, ReadJobs, StorageFails, RemoteAccepts, RemoteRaises, FinishSubmission
<1>2. ASSUME NEW e \in Estimates, PrepareRetry(e) \/ Claim(e) \/ RecordRemoteId(e) PROVE Kept
  BY <1>2 DEF PrepareRetry, Claim, RecordRemoteId, WithStatus
<1>3. ASSUME NEW e \in Estimates, ScheduleFails(e) \/ FailSubmission(e) PROVE Kept
  BY <1>3 DEF ScheduleFails, MarkQueueFailed, FailSubmission, MarkSubmissionFailed, Fail, WithStatus
<1>4. ASSUME NEW i \in Jobs, Cancel(i) PROVE Kept
  BY <1>4 DEF Cancel
<1>5. ASSUME NEW m \in Modes, Startup(m) PROVE Kept
  BY <1>5, StartupChangesNothing
<1>6. CASE CrashAll
  BY <1>6 DEF CrashAll, Crash
<1> QED BY <1>1, <1>2, <1>3, <1>4, <1>5, <1>6 DEF AuthorizationNext, HandlerStep, SubmitStep

\* They tell the estimate what they tell the authorization.
LEMMA EstimateIsTold ==
  ASSUME TypeOK, \A j \in Jobs : linked[j], AuthorizationNext \/ CrashAll, EstimateFollowsDownload
  PROVE  EstimateFollowsDownload'
<1> SUFFICES ASSUME NEW e \in Estimates
             PROVE  authState'[e] # "NONE" =>
                      estStatus'[e] = CASE authState'[e] = "SUBMITTING" -> "AUTHORIZED"
                                        [] authState'[e] = "COMPLETED"  -> "IMPORTED"
                                        [] OTHER                        -> authState'[e]
  BY DEF EstimateFollowsDownload
<1> DEFINE Told == \/ UNCHANGED <<authState[e], estStatus[e]>>
                   \/ estStatus'[e] = authState'[e] /\ authState'[e] \in {"AUTHORIZED", "QUEUED", "FAILED", "CANCELLED"}
                   \/ authState[e] = "AUTHORIZED" /\ authState'[e] = "SUBMITTING" /\ UNCHANGED estStatus[e]
<1>1. Told
  <2> USE JobsAssumption DEF TypeOK, authVars, jobVars, storageVars, estimateVars
  <2>1. ASSUME NEW f \in Estimates, PrepareRetry(f) PROVE Told
    BY <2>1 DEF PrepareRetry
  <2>2. ASSUME NEW f \in Estimates, Claim(f) PROVE Told
    BY <2>2 DEF Claim
  <2>3. ASSUME NEW f \in Estimates, ScheduleFails(f) PROVE Told
    BY <2>3 DEF ScheduleFails, MarkQueueFailed, Fail
  <2>4. ASSUME NEW f \in Estimates, FailSubmission(f) PROVE Told
    BY <2>4 DEF FailSubmission, MarkSubmissionFailed, Fail
  <2>5. ASSUME NEW f \in Estimates, FinishSubmission(f) PROVE Told
    BY <2>5 DEF FinishSubmission
  <2>6. ASSUME NEW j \in Jobs, Cancel(j) PROVE Told
    BY <2>6 DEF Cancel
  <2>7. ASSUME NEW m \in Modes, Startup(m) PROVE Told
    BY <2>7, StartupChangesNothing
  <2>8. CASE UNCHANGED <<authState, estStatus>>
    BY <2>8
  <2> QED BY <2>1, <2>2, <2>3, <2>4, <2>5, <2>6, <2>7, <2>8
      DEF AuthorizationNext, HandlerStep, SubmitStep, Schedule, SubmissionRaises, ReadJobs, RemoteAccepts, RemoteRaises,
          RecordRemoteId, StorageFails, CrashAll, Crash
<1>2. authState[e] # "NONE" =>
        estStatus[e] = CASE authState[e] = "SUBMITTING" -> "AUTHORIZED"
                         [] authState[e] = "COMPLETED"  -> "IMPORTED"
                         [] OTHER                       -> authState[e]
  BY DEF EstimateFollowsDownload
<1> QED BY <1>1, <1>2

\* So the whole invariant outlives them.
LEMMA AuthorizationStep ==
  ASSUME BatchInv, (AuthorizationNext /\ UNCHANGED batchVars) \/ CrashAll
  PROVE  BatchInv'
<1> USE DEF BatchInv
<1>1. AuthorizationNext \/ CrashAll
  OBVIOUS
<1>2. TypeOK /\ \A j \in Jobs : linked[j]
  BY DEF BatchTypeOK, RowsInv
<1>3. TypeOK'
  BY <1>1, <1>2, AuthorizationSteps, TypeStep
<1>4. Safe'
  BY <1>1, <1>2, <1>3, AuthorizationSteps, SafeStep DEF IInv, Safe
<1>5. UNCHANGED <<done, target, fileVars>> /\ (UNCHANGED rows \/ rows' = << >>)
  BY DEF batchVars, CrashAll
<1>6. UNCHANGED stage \/ stage' = [d \in Downloaders |-> "idle"]
  BY DEF batchVars, CrashAll
<1>7. BatchTypeOK'
  <2>1. stage' \in [Downloaders -> Stages]
    BY <1>6 DEF BatchTypeOK, Stages
  <2>2. DOMAIN rows' \subseteq Jobs
        /\ \A j \in DOMAIN rows' : rows'[j] \in AuthStates \cup RemoteStatuses \cup {"SUBMITTED"}
    BY <1>5 DEF BatchTypeOK
  <2> QED BY <1>3, <1>5, <2>1, <2>2 DEF BatchTypeOK, fileVars
<1>8. \A j \in Jobs : /\ linked'[j] /\ (remoteId[j] => remoteId'[j])
                      /\ jobStatus'[j] \in {jobStatus[j], "AUTHORIZED", "SUBMITTING", "QUEUED", "FAILED", "CANCELLED"}
  BY <1>1, <1>2, RowsAreKept
<1>9. RowsInv'
  <2>1. \A j \in DOMAIN rows' : j \in DOMAIN rows /\ rows'[j] = rows[j] /\ j \in Jobs
    BY <1>5 DEF BatchTypeOK
  <2> QED BY <1>5, <1>8, <2>1 DEF RowsInv, fileVars
<1>10. BoughtInv'
  <2> SUFFICES ASSUME NEW e \in Estimates, authState'[e] \in Purchased PROVE ledger'[e] = "RESERVED" /\ OrderedAll(e)'
    BY DEF BoughtInv
  <2>1. CASE authState[e] \in Purchased
    BY <1>1, <1>2, <2>1, BoughtIsLeftAlone DEF BoughtInv
  <2>2. CASE authState[e] \notin Purchased
    BY <1>1, <1>2, <2>2, QueuedIsBought
  <2> QED BY <2>1, <2>2
<1>11. DownloadInv'
  <2> SUFFICES ASSUME NEW d \in Downloaders PROVE DownloadOf(d)'
    BY DEF DownloadInv
  <2>1. stage'[d] = stage[d] \/ stage'[d] = "idle"
    BY <1>6 DEF BatchTypeOK
  <2>2. CASE stage'[d] = "idle"
    BY <2>2 DEF DownloadOf, InTry, Stages, Delivered, Described
  <2>3. CASE stage'[d] = stage[d]
    <3>1. PICK e \in Estimates : e = EstimateOf[target[d]]
      BY JobsAssumption DEF BatchTypeOK
    <3>2. JobsOf(e) # {} /\ target'[d] = target[d] /\ EstimateOf[target'[d]] = e
      BY <1>5, <3>1 DEF JobsOf, BatchTypeOK
    <3>3. DownloadOf(d)
      BY DEF DownloadInv
    <3>4. stage'[d] \in InTry \cup {"failing"} => authState'[e] \in Advanced \cup {"FAILED"} /\ OrderedAll(e)'
      <4> SUFFICES ASSUME stage'[d] \in InTry \cup {"failing"}
                   PROVE  authState'[e] \in Advanced \cup {"FAILED"} /\ OrderedAll(e)'
        OBVIOUS
      <4>1. authState[e] \in Advanced \cup {"FAILED"} /\ OrderedAll(e)
        BY <2>3, <3>1, <3>3 DEF DownloadOf
      <4>2. UNCHANGED authState[e] /\ OrderedAll(e)'
        BY <1>1, <1>2, <3>2, <4>1, BoughtIsLeftAlone DEF Purchased
      <4> QED BY <4>1, <4>2
    <3> QED BY <1>5, <2>3, <3>2, <3>3, <3>4 DEF DownloadOf, fileVars, OrderedAll
  <2> QED BY <2>1, <2>2, <2>3
<1>12. CompletedIsLocal'
  BY <1>5, <1>8 DEF CompletedIsLocal, fileVars
<1>13. EstimateFollowsDownload'
  BY <1>1, <1>2, EstimateIsTold
<1> QED BY <1>4, <1>7, <1>9, <1>10, <1>11, <1>12, <1>13
-----------------------------------------------------------------------------
(***************************************************************************)
(* Polls and downloads.                                                    *)
(***************************************************************************)
InDownload == Advanced \cup {"FAILED"}

\* A transition keeps whatever is said of authorizations and rows: it starts
\* from a bought authorization, and COMPLETED only from what is on disk.
LEMMA TransitionStep ==
  ASSUME BatchInv, NEW j \in Jobs, NEW s \in InDownload, NEW code \in {"none", "NETWORK_ERROR", "IMPORT_FAILED"},
         MayTransition(j, s), Transition(j, s, code), UNCHANGED <<authUntouched, rows, fileVars>>,
         s = "COMPLETED" => file[j] # "absent" /\ manifest[j],
         s = "FAILED" => authState[EstimateOf[j]] \in InDownload
  PROVE  /\ TypeOK' /\ Safe' /\ RowsInv' /\ BoughtInv' /\ CompletedIsLocal' /\ EstimateFollowsDownload'
         /\ authState'[EstimateOf[j]] = s
         /\ s # "FAILED" => authState[EstimateOf[j]] \in Purchased
         /\ \A e \in Estimates : authState[e] \in InDownload => authState'[e] \in InDownload
         /\ \A e \in Estimates : authState[e] = "COMPLETED" => authState'[e] = "COMPLETED"
<1>1. PICK e \in Estimates : e = EstimateOf[j]
  BY JobsAssumption
<1>2. TypeOK
  BY DEF BatchInv, BatchTypeOK
<1>3. UNCHANGED <<task, todo, reply, handler, ledger, linked, remoteId, orders>>
  BY DEF authUntouched, taskVars
<1>4. UNCHANGED <<rows, file, manifest>>
  BY DEF fileVars
<1>5. /\ authState[e] \in InDownload \cup {"QUEUED"}
      /\ authState[e] = "COMPLETED" => s = "COMPLETED"
  BY <1>1, <1>2 DEF MayTransition, AllowedTransitions, InDownload, Advanced, TypeOK, AuthStates, ActiveStates, TerminalStates
<1>6. /\ authState' = [authState EXCEPT ![e] = s] /\ authError' = [authError EXCEPT ![e] = code]
      /\ retrySafe' = [retrySafe EXCEPT ![e] = FALSE] /\ jobStatus' = [jobStatus EXCEPT ![j] = s]
      /\ estStatus' = [estStatus EXCEPT ![e] = IF s = "COMPLETED" THEN "IMPORTED" ELSE s]
  BY <1>1 DEF Transition
<1>7. authState' \in [Estimates -> AuthStates \cup {"NONE"}]
  BY <1>2, <1>6 DEF TypeOK, AuthStates, ActiveStates, TerminalStates, InDownload, Advanced
<1>8. TypeOK'
  <2>1. estStatus' \in [Estimates -> LifecycleStatuses \cup AuthStates
                          \cup {"NONE", "LOCAL_REUSE", "AWAITING_CONFIRMATION", "BLOCKED"}]
    BY <1>2, <1>6 DEF TypeOK, LifecycleStatuses, AuthStates, ActiveStates, TerminalStates, InDownload, Advanced
  <2>2. jobStatus' \in [Jobs -> AuthStates \cup RemoteStatuses \cup {"NONE", "SUBMITTED", "IMPORTED"}]
    BY <1>2, <1>6 DEF TypeOK, AuthStates, ActiveStates, TerminalStates, InDownload, Advanced
  <2>3. authError' \in [Estimates -> ErrorCodes \cup {"none"}] /\ retrySafe' \in [Estimates -> BOOLEAN]
    BY <1>2, <1>6 DEF TypeOK, ErrorCodes
  <2> QED BY <1>2, <1>7, <2>1, <2>2, <2>3 DEF TypeOK, authUntouched, taskVars
<1>9. handler[e] = "idle" /\ task[e] = "none"
  BY <1>2, <1>5 DEF BatchInv, Safe, PendingInv, SubmissionInv, TypeOK, InDownload, Advanced
<1>10. \A f \in Estimates : f # e => authState'[f] = authState[f] /\ retrySafe'[f] = retrySafe[f] /\ estStatus'[f] = estStatus[f]
  BY <1>2, <1>6 DEF TypeOK
<1>11. authState'[e] = s /\ ~retrySafe'[e] /\ estStatus'[e] = IF s = "COMPLETED" THEN "IMPORTED" ELSE s
  BY <1>2, <1>6 DEF TypeOK
<1>12. \A i \in Jobs : jobStatus'[i] = IF i = j THEN s ELSE jobStatus[i]
  BY <1>2, <1>6 DEF TypeOK
<1>13. s \notin {"NONE", "AUTHORIZED", "SUBMITTING", "QUEUED", "CANCELLED"}
  BY DEF InDownload, Advanced
<1>14. Safe'
  <2>1. OneSubmitter' /\ AtMostOneOrder'
    BY <1>3 DEF BatchInv, Safe, OneSubmitter, AtMostOneOrder
  <2>2. RowInv'
    <3>1. authState[e] # "NONE"
      BY <1>5 DEF InDownload, Advanced
    <3> QED BY <1>3, <1>10, <1>11, <1>12, <1>13, <3>1 DEF BatchInv, Safe, RowInv, JobsOf
  <2>3. PendingInv'
    BY <1>3, <1>9, <1>10, <1>11, <1>13 DEF BatchInv, Safe, PendingInv, NothingSent, JobsOf
  <2>4. SubmissionInv'
    <3>1. \A f \in Estimates : task[f] \in Running => f # e /\ \A i \in JobsOf(f) : jobStatus'[i] = jobStatus[i]
      BY <1>1, <1>9, <1>12 DEF Running, JobsOf
    <3> QED BY <1>3, <1>10, <3>1 DEF BatchInv, Safe, SubmissionInv, NothingSent, JobsOf
  <2>5. QueuedMeansOrdered'
    BY <1>3, <1>10, <1>11, <1>13 DEF BatchInv, Safe, QueuedMeansOrdered, JobsOf
  <2> QED BY <2>1, <2>2, <2>3, <2>4, <2>5 DEF Safe
<1>15. RowsInv'
  BY <1>3, <1>4, <1>12, <1>13 DEF BatchInv, RowsInv
<1>19. authState[e] \in Purchased \/ s = "FAILED"
  BY <1>1, <1>2 DEF MayTransition, AllowedTransitions, InDownload, Advanced, Purchased
<1>16. BoughtInv'
  <2>1. \A f \in Estimates : OrderedAll(f)' <=> OrderedAll(f)
    BY <1>3 DEF OrderedAll, JobsOf
  <2>3. "FAILED" \notin Purchased
    BY DEF Purchased, Advanced
  <2> QED BY <1>3, <1>10, <1>11, <1>19, <2>1, <2>3 DEF BatchInv, BoughtInv
<1>17. CompletedIsLocal'
  BY <1>4, <1>12 DEF BatchInv, CompletedIsLocal
<1>18. EstimateFollowsDownload'
  BY <1>10, <1>11, <1>13 DEF BatchInv, EstimateFollowsDownload
<1> QED BY <1>1, <1>5, <1>8, <1>10, <1>11, <1>14, <1>15, <1>16, <1>17, <1>18, <1>19

\* What a downloader's own step has to establish for its next stage t; the
\* other downloaders lose nothing they rely on.
LEMMA StageStep ==
  ASSUME BatchInv, NEW d \in Downloaders, NEW t \in Stages, GoTo(d, t), UNCHANGED <<remoteId, orders>>,
         \A e \in Estimates : authState[e] \in InDownload => authState'[e] \in InDownload,
         \A j \in Jobs : (file[j] # "absent" => file'[j] # "absent") /\ (manifest[j] => manifest'[j]),
         t \in InTry \cup {"failing"} =>
           authState'[EstimateOf[target[d]]] \in InDownload /\ OrderedAll(EstimateOf[target[d]]),
         t \in Delivered => file'[target[d]] # "absent",
         t \in Described => manifest'[target[d]]
  PROVE  DownloadInv' /\ stage' \in [Downloaders -> Stages] /\ target' \in [Downloaders -> Jobs]
<1>1. stage \in [Downloaders -> Stages] /\ target \in [Downloaders -> Jobs]
  BY DEF BatchInv, BatchTypeOK
<1>2. target' = target /\ \A c \in Downloaders : stage'[c] = IF c = d THEN t ELSE stage[c]
  BY <1>1 DEF GoTo
<1>3. \A e \in Estimates : OrderedAll(e)' <=> OrderedAll(e)
  BY DEF OrderedAll, JobsOf
<1>4. ASSUME NEW c \in Downloaders PROVE DownloadOf(c)'
  <2>1. PICK e \in Estimates : e = EstimateOf[target[c]]
    BY <1>1, JobsAssumption
  <2>2. PICK j \in Jobs : j = target[c]
    BY <1>1
  <2>3. DownloadOf(c)
    BY DEF BatchInv, DownloadInv
  <2>4. /\ stage'[c] \in InTry \cup {"failing"} => authState'[e] \in InDownload /\ OrderedAll(e)
        /\ stage'[c] \in Delivered => file'[j] # "absent"
        /\ stage'[c] \in Described => manifest'[j]
    BY <1>2, <2>1, <2>2, <2>3 DEF DownloadOf, InDownload
  <2>5. EstimateOf[target'[c]] = e /\ target'[c] = j
    BY <1>2, <2>1, <2>2
  <2>6. OrderedAll(EstimateOf[target[c]])' <=> OrderedAll(e)'
    BY <1>2, <2>1 DEF OrderedAll, JobsOf
  <2> QED BY <1>3, <2>4, <2>5, <2>6 DEF DownloadOf, InDownload
<1> QED BY <1>1, <1>4 DEF DownloadInv, GoTo

\* Files come and manifests come, and no step of a download takes them away.
FilesKept == \A j \in Jobs : (file[j] # "absent" => file'[j] # "absent") /\ (manifest[j] => manifest'[j])

\* A step that leaves the authorization's variables alone only has to answer
\* for the rows and the downloaders.
LEMMA VarsKept ==
  ASSUME BatchInv, UNCHANGED vars, UNCHANGED rows, FilesKept
  PROVE  TypeOK' /\ Safe' /\ RowsInv' /\ BoughtInv' /\ CompletedIsLocal' /\ EstimateFollowsDownload'
<1>1. TypeOK' /\ Safe'
  BY TypeStep, SafeStep DEF BatchInv, BatchTypeOK, IInv, Safe
<1>2. UNCHANGED <<authState, estStatus, ledger, jobStatus, linked, remoteId, orders>>
  BY DEF vars, storageVars, estimateVars, authVars, jobVars
<1>3. RowsInv' /\ CompletedIsLocal'
  BY <1>2 DEF BatchInv, BatchTypeOK, RowsInv, CompletedIsLocal, FilesKept
<1>4. BoughtInv' /\ EstimateFollowsDownload'
  BY <1>2 DEF BatchInv, BoughtInv, EstimateFollowsDownload, OrderedAll, JobsOf
<1> QED BY <1>1, <1>3, <1>4

\* Databento prepares the files; a refresh lists the rows; one poll writes.
LEMMA RefreshStep ==
  ASSUME BatchInv, RefreshStart \/ \E j \in Jobs : RemoteDone(j) \/ RefreshPoll(j)
  PROVE  BatchInv'
<1>1. TypeOK /\ Safe /\ RowsInv
  BY DEF BatchInv, BatchTypeOK
<1>2. ASSUME NEW j \in Jobs, RemoteDone(j) PROVE BatchInv'
  <2>1. UNCHANGED vars /\ UNCHANGED <<rows, stage, target, fileVars>>
    BY <1>2 DEF RemoteDone
  <2>2. FilesKept
    BY <2>1 DEF FilesKept, fileVars
  <2>3. DownloadInv'
    BY <2>1 DEF vars, storageVars, authVars, jobVars, fileVars, BatchInv, DownloadInv, DownloadOf, OrderedAll, JobsOf
  <2>4. done' \in [Jobs -> BOOLEAN]
    BY <1>2 DEF RemoteDone, BatchInv, BatchTypeOK
  <2> QED BY <2>1, <2>2, <2>3, <2>4, VarsKept DEF BatchInv, BatchTypeOK, fileVars
<1>3. CASE RefreshStart
  <2>1. UNCHANGED vars /\ UNCHANGED <<done, stage, target, fileVars>> /\ rows' = [j \in Polled |-> jobStatus[j]]
    BY <1>3 DEF RefreshStart
  <2>2. TypeOK' /\ Safe'
    BY <1>1, <2>1, TypeStep, SafeStep DEF IInv, Safe
  <2>3. UNCHANGED <<authState, estStatus, ledger, jobStatus, linked, remoteId, orders>>
    BY <2>1 DEF vars, storageVars, estimateVars, authVars, jobVars
  <2>4. UNCHANGED <<staged, part, file, manifest, session>>
    BY <2>1 DEF fileVars
  <2>5. /\ DOMAIN rows' \subseteq Jobs
        /\ \A j \in DOMAIN rows' : remoteId[j] /\ rows'[j] = jobStatus[j] /\ jobStatus[j] \notin {"NONE", "IMPORTED"}
    BY <1>1, <2>1 DEF Polled, RowsInv
  <2>6. \A j \in DOMAIN rows' : rows'[j] \in AuthStates \cup RemoteStatuses \cup {"SUBMITTED"}
    BY <1>1, <2>5 DEF TypeOK
  <2>7. BatchTypeOK'
    BY <2>1, <2>2, <2>4, <2>5, <2>6 DEF BatchInv, BatchTypeOK
  <2>8. RowsInv' /\ CompletedIsLocal'
    BY <2>3, <2>4, <2>5 DEF BatchInv, RowsInv, CompletedIsLocal
  <2>9. BoughtInv' /\ EstimateFollowsDownload' /\ DownloadInv'
    BY <2>1, <2>3, <2>4 DEF BatchInv, BoughtInv, EstimateFollowsDownload, DownloadInv, DownloadOf, OrderedAll, JobsOf
  <2> QED BY <2>2, <2>7, <2>8, <2>9 DEF BatchInv
<1>4. ASSUME NEW j \in Jobs, RefreshPoll(j) PROVE BatchInv'
  <2>1. PICK status \in RemoteStatusesOf(j) \cup {rows[j]} : jobStatus' = [jobStatus EXCEPT ![j] = status]
    BY <1>4 DEF RefreshPoll
  <2>2. j \in DOMAIN rows /\ rows' = [i \in DOMAIN rows \ {j} |-> rows[i]]
    BY <1>4 DEF RefreshPoll
  <2>3. UNCHANGED <<authUntouched, authState, authError, retrySafe, estStatus, done, stage, target, fileVars>>
    BY <1>4 DEF RefreshPoll
  <2>4. UNCHANGED <<ledger, linked, remoteId, orders, handler, task, todo, reply>>
    BY <2>3 DEF authUntouched, taskVars
  <2>5. UNCHANGED <<staged, part, file, manifest, session>>
    BY <2>3 DEF fileVars
  <2>6. /\ remoteId[j] /\ status \in AuthStates \cup RemoteStatuses \cup {"SUBMITTED"}
        /\ status = "COMPLETED" => file[j] # "absent" /\ manifest[j]
    <3>1. CASE status = rows[j]
      BY <1>1, <2>2, <3>1 DEF RowsInv, BatchInv, BatchTypeOK
    <3>2. CASE status \in RemoteStatusesOf(j)
      BY <1>1, <2>2, <3>2 DEF RowsInv, RemoteStatusesOf, RemoteStatuses
    <3> QED BY <2>1, <3>1, <3>2
  <2>7. status # "NONE"
    BY <2>6 DEF AuthStates, ActiveStates, TerminalStates, RemoteStatuses
  <2>8. \A i \in Jobs : jobStatus'[i] = IF i = j THEN status ELSE jobStatus[i]
    BY <1>1, <2>1 DEF TypeOK
  <2>9. TypeOK'
    <3>1. jobStatus' \in [Jobs -> AuthStates \cup RemoteStatuses \cup {"NONE", "SUBMITTED", "IMPORTED"}]
      BY <1>1, <2>1, <2>6 DEF TypeOK
    <3> QED BY <1>1, <2>3, <3>1 DEF TypeOK, authUntouched, taskVars
  <2>10. \A i \in DOMAIN rows' : i \in DOMAIN rows /\ rows'[i] = rows[i]
    BY <2>2
  <2>11. BatchTypeOK'
    BY <2>3, <2>5, <2>9, <2>10 DEF BatchInv, BatchTypeOK
  <2>12. Safe'
    <3>1. UNCHANGED <<authState, retrySafe, ledger, linked, remoteId, orders, handler, task, todo, reply>>
      BY <2>3, <2>4
    <3>2. OneSubmitter' /\ AtMostOneOrder' /\ QueuedMeansOrdered' /\ PendingInv'
      BY <1>1, <3>1 DEF Safe, OneSubmitter, AtMostOneOrder, QueuedMeansOrdered, PendingInv, NothingSent, JobsOf
    <3>3. RowInv'
      BY <1>1, <2>7, <2>8, <3>1 DEF Safe, RowInv, JobsOf
    <3>4. SubmissionInv'
      BY <1>1, <2>6, <2>8, <3>1 DEF Safe, SubmissionInv, NothingSent, JobsOf
    <3> QED BY <3>2, <3>3, <3>4 DEF Safe
  <2>13. RowsInv' /\ CompletedIsLocal'
    BY <2>4, <2>5, <2>6, <2>7, <2>8, <2>10 DEF BatchInv, RowsInv, CompletedIsLocal
  <2>14. BoughtInv' /\ EstimateFollowsDownload' /\ DownloadInv'
    BY <2>3, <2>4, <2>5 DEF BatchInv, BoughtInv, EstimateFollowsDownload, DownloadInv, DownloadOf, OrderedAll, JobsOf
  <2> QED BY <2>11, <2>12, <2>13, <2>14 DEF BatchInv
<1> QED BY <1>2, <1>3, <1>4

\* A transition to the next state, or a refusal.
LEMMA AdvanceStep ==
  ASSUME BatchInv, NEW d \in Downloaders, NEW s \in Advanced, NEW next \in Stages, NEW otherwise \in Stages,
         Advance(d, s, next, otherwise), UNCHANGED <<authUntouched, done, rows, fileVars>>,
         s = "COMPLETED" => file[target[d]] # "absent" /\ manifest[target[d]],
         next \in Delivered \/ otherwise \in Delivered => file[target[d]] # "absent",
         next \in Described \/ otherwise \in Described => manifest[target[d]],
         otherwise \in InTry \cup {"failing"} => stage[d] \in InTry \cup {"failing"}
  PROVE  BatchInv' /\ \A e \in Estimates : authState[e] = "COMPLETED" => authState'[e] = "COMPLETED"
<1>1. PICK j \in Jobs : j = target[d]
  BY DEF BatchInv, BatchTypeOK
<1>2. UNCHANGED <<remoteId, orders, done, rows, staged, part, file, manifest, session>> /\ FilesKept
  BY DEF authUntouched, fileVars, FilesKept
<1>3. CASE MayTransition(j, s) /\ Transition(j, s, "none") /\ GoTo(d, next)
  <2>1. PICK e \in Estimates : e = EstimateOf[j]
    BY JobsAssumption
  <2>2. s \in InDownload /\ s # "FAILED"
    BY DEF InDownload, Advanced
  <2>3. /\ TypeOK' /\ Safe' /\ RowsInv' /\ BoughtInv' /\ CompletedIsLocal' /\ EstimateFollowsDownload'
        /\ authState'[e] = s /\ authState[e] \in Purchased
        /\ \A f \in Estimates : authState[f] \in InDownload => authState'[f] \in InDownload
        /\ \A f \in Estimates : authState[f] = "COMPLETED" => authState'[f] = "COMPLETED"
    BY <1>1, <1>2, <1>3, <2>1, <2>2, TransitionStep
  <2>4. OrderedAll(e)
    BY <2>3 DEF BatchInv, BoughtInv
  <2>5. DownloadInv' /\ stage' \in [Downloaders -> Stages] /\ target' \in [Downloaders -> Jobs]
    BY <1>1, <1>2, <1>3, <2>1, <2>2, <2>3, <2>4, StageStep DEF FilesKept
  <2>6. BatchTypeOK'
    BY <1>2, <2>3, <2>5 DEF BatchInv, BatchTypeOK
  <2> QED BY <2>3, <2>5, <2>6 DEF BatchInv
<1>4. CASE NoTransition /\ GoTo(d, otherwise)
  <2>1. UNCHANGED vars
    BY <1>4 DEF NoTransition, authUntouched, vars, storageVars, estimateVars, authVars, jobVars
  <2>2. TypeOK' /\ Safe' /\ RowsInv' /\ BoughtInv' /\ CompletedIsLocal' /\ EstimateFollowsDownload'
    BY <1>2, <2>1, VarsKept
  <2>3. UNCHANGED authState
    BY <1>4 DEF NoTransition
  <2>4. otherwise \in InTry \cup {"failing"} =>
          authState[EstimateOf[target[d]]] \in InDownload /\ OrderedAll(EstimateOf[target[d]])
    BY DEF BatchInv, DownloadInv, DownloadOf, InDownload
  <2>5. DownloadInv' /\ stage' \in [Downloaders -> Stages] /\ target' \in [Downloaders -> Jobs]
    BY <1>2, <1>4, <2>3, <2>4, StageStep DEF FilesKept
  <2>6. BatchTypeOK'
    BY <1>2, <2>2, <2>5 DEF BatchInv, BatchTypeOK
  <2> QED BY <2>2, <2>3, <2>5, <2>6 DEF BatchInv
<1> QED BY <1>1, <1>3, <1>4 DEF Advance

\* A step on the files, or none but of the stage.
LEMMA FileStep ==
  ASSUME BatchInv, NEW d \in Downloaders, NEW t \in Stages, GoTo(d, t), UNCHANGED <<vars, done, rows>>, FilesKept,
         staged' \in [Jobs -> Contents], part' \in [Jobs -> Contents], file' \in [Jobs -> Contents],
         manifest' \in [Jobs -> BOOLEAN], session' \in [Jobs -> BOOLEAN],
         t \in InTry \cup {"failing"} => stage[d] \in InTry \cup {"failing"},
         t \in Delivered => file'[target[d]] # "absent",
         t \in Described => manifest'[target[d]]
  PROVE  BatchInv' /\ UNCHANGED authState
<1>1. UNCHANGED <<authState, remoteId, orders>>
  BY DEF vars, storageVars, authVars, jobVars
<1>2. TypeOK' /\ Safe' /\ RowsInv' /\ BoughtInv' /\ CompletedIsLocal' /\ EstimateFollowsDownload'
  BY VarsKept
<1>3. t \in InTry \cup {"failing"} =>
        authState[EstimateOf[target[d]]] \in InDownload /\ OrderedAll(EstimateOf[target[d]])
  BY DEF BatchInv, DownloadInv, DownloadOf, InDownload
<1>4. DownloadInv' /\ stage' \in [Downloaders -> Stages] /\ target' \in [Downloaders -> Jobs]
  BY <1>1, <1>3, StageStep DEF FilesKept
<1>5. BatchTypeOK'
  BY <1>2, <1>4 DEF BatchInv, BatchTypeOK
<1> QED BY <1>1, <1>2, <1>4, <1>5 DEF BatchInv

\* Every step of a downloader keeps the invariant, and what is completed.
LEMMA DownloaderStep ==
  ASSUME BatchInv, NEW d \in Downloaders, DownloadStep(d)
  PROVE  BatchInv' /\ \A e \in Estimates : authState[e] = "COMPLETED" => authState'[e] = "COMPLETED"
<1> DEFINE Goal == BatchInv' /\ \A e \in Estimates : authState[e] = "COMPLETED" => authState'[e] = "COMPLETED"
<1>1. PICK j \in Jobs : j = target[d]
  BY DEF BatchInv, BatchTypeOK
<1>2. /\ staged \in [Jobs -> Contents] /\ part \in [Jobs -> Contents] /\ file \in [Jobs -> Contents]
      /\ manifest \in [Jobs -> BOOLEAN] /\ session \in [Jobs -> BOOLEAN]
  BY DEF BatchInv, BatchTypeOK
<1>3. /\ stage[d] \in Delivered => file[j] # "absent"
      /\ stage[d] \in Described => manifest[j]
  BY <1>1 DEF BatchInv, DownloadInv, DownloadOf
<1> USE DEF Stages, InTry, Delivered, Described
<1>4. CASE ReadJob(d) \/ CheckPart(d) \/ Raises(d)
  <2>1. UNCHANGED <<vars, done, rows, staged, part, file, manifest, session>> /\ FilesKept
    BY <1>4 DEF ReadJob, CheckPart, Raises, fileVars, FilesKept
  <2>2. CASE ReadJob(d)
    BY <1>2, <2>1, <2>2, FileStep DEF ReadJob
  <2>3. CASE CheckPart(d)
    BY <1>2, <2>1, <2>3, FileStep DEF CheckPart
  <2>4. CASE Raises(d)
    <3>1. CASE stage[d] \in InTry
      BY <1>2, <2>1, <2>4, <3>1, FileStep DEF Raises
    <3>2. CASE stage[d] \notin InTry
      BY <1>2, <2>1, <2>4, <3>2, FileStep DEF Raises
    <3> QED BY <3>1, <3>2
  <2> QED BY <1>4, <2>2, <2>3, <2>4
<1>5. CASE LookForLocalFile(d)
  <2>1. UNCHANGED <<authUntouched, done, rows, fileVars>>
    BY <1>5 DEF LookForLocalFile
  <2>2. CASE file[j] # "absent" /\ manifest[j] /\ Advance(d, "COMPLETED", "idle", "idle")
    BY <1>1, <2>1, <2>2, AdvanceStep DEF Advanced
  <2>3. CASE NoTransition /\ GoTo(d, IF part[j] = "absent" THEN "fresh" ELSE "idle")
    <3>1. UNCHANGED <<vars, done, rows, staged, part, file, manifest, session>> /\ FilesKept
      BY <2>1, <2>3 DEF NoTransition, authUntouched, vars, storageVars, estimateVars, authVars, jobVars, fileVars, FilesKept
    <3> QED BY <1>2, <2>3, <3>1, FileStep
  <2> QED BY <1>1, <1>5, <2>2, <2>3 DEF LookForLocalFile
<1>6. CASE StartDownload(d)
  BY <1>6, AdvanceStep DEF StartDownload, Advanced
<1>7. CASE Fetch(d)
  <2>1. UNCHANGED <<vars, done, rows, part, file, manifest, session>> /\ FilesKept
    BY <1>7 DEF Fetch, FilesKept
  <2>2. staged' \in [Jobs -> Contents]
    BY <1>2, <1>7 DEF Fetch, Contents
  <2> QED BY <1>2, <1>7, <2>1, <2>2, FileStep DEF Fetch
<1>8. CASE MoveToPart(d)
  <2>1. UNCHANGED <<vars, done, rows, file, manifest, session>> /\ FilesKept
    BY <1>8 DEF MoveToPart, FilesKept
  <2>2. staged' \in [Jobs -> Contents] /\ part' \in [Jobs -> Contents]
    BY <1>1, <1>2, <1>8 DEF MoveToPart, Contents
  <2> QED BY <1>2, <1>8, <2>1, <2>2, FileStep DEF MoveToPart
<1>9. CASE MoveToDestination(d)
  <2>1. part' = [part EXCEPT ![j] = "absent"] /\ file' = [file EXCEPT ![j] = part[j]] /\ part[j] # "absent"
    BY <1>1, <1>9 DEF MoveToDestination
  <2>2. UNCHANGED <<vars, done, rows, staged, manifest, session>> /\ stage[d] = "checked" /\ GoTo(d, "moved")
    BY <1>9 DEF MoveToDestination
  <2>3. part' \in [Jobs -> Contents] /\ file' \in [Jobs -> Contents] /\ file'[j] # "absent" /\ FilesKept
    BY <1>2, <2>1, <2>2 DEF Contents, FilesKept
  <2> QED BY <1>1, <1>2, <2>2, <2>3, FileStep
<1>10. CASE WriteManifest(d)
  <2>1. UNCHANGED <<vars, done, rows, staged, part, file, session>> /\ stage[d] = "moved" /\ GoTo(d, "described")
        /\ manifest' = [manifest EXCEPT ![j] = TRUE]
    BY <1>1, <1>10 DEF WriteManifest
  <2>2. manifest' \in [Jobs -> BOOLEAN] /\ manifest'[j] /\ FilesKept
    BY <1>2, <2>1 DEF FilesKept
  <2> QED BY <1>1, <1>2, <1>3, <2>1, <2>2, FileStep
<1>11. CASE StartImport(d)
  BY <1>1, <1>3, <1>11, AdvanceStep DEF StartImport, Advanced
<1>12. CASE ImportFile(d)
  <2>1. UNCHANGED <<vars, done, rows, staged, part, file, manifest>> /\ stage[d] = "imported" /\ GoTo(d, "validating")
        /\ session' = [session EXCEPT ![j] = @ \/ j \in BookJobs]
    BY <1>1, <1>12 DEF ImportFile
  <2>2. session' \in [Jobs -> BOOLEAN] /\ FilesKept
    BY <1>2, <2>1 DEF FilesKept
  <2> QED BY <1>1, <1>2, <1>3, <2>1, <2>2, FileStep
<1>13. CASE ValidateImport(d)
  BY <1>1, <1>3, <1>13, AdvanceStep DEF ValidateImport, Advanced
<1>14. CASE FailDownload(d)
  <2>1. stage[d] = "failing" /\ GoTo(d, "idle") /\ UNCHANGED <<authUntouched, done, rows, fileVars>>
    BY <1>14 DEF FailDownload
  <2>2. UNCHANGED <<remoteId, orders, done, rows, staged, part, file, manifest, session>> /\ FilesKept
    BY <2>1 DEF authUntouched, fileVars, FilesKept
  <2>3. ASSUME NEW code \in {"NETWORK_ERROR", "IMPORT_FAILED"}, MayTransition(j, "FAILED"), Transition(j, "FAILED", code)
        PROVE  Goal
    <3>1. authState[EstimateOf[j]] \in InDownload
      BY <1>1, <2>1 DEF BatchInv, DownloadInv, DownloadOf, InDownload
    <3>2. "FAILED" \in InDownload
      BY DEF InDownload
    <3>3. /\ TypeOK' /\ Safe' /\ RowsInv' /\ BoughtInv' /\ CompletedIsLocal' /\ EstimateFollowsDownload'
          /\ \A f \in Estimates : authState[f] \in InDownload => authState'[f] \in InDownload
          /\ \A f \in Estimates : authState[f] = "COMPLETED" => authState'[f] = "COMPLETED"
      BY <2>1, <2>3, <3>1, <3>2, TransitionStep
    <3>4. DownloadInv' /\ stage' \in [Downloaders -> Stages] /\ target' \in [Downloaders -> Jobs]
      BY <2>1, <2>2, <3>3, StageStep DEF FilesKept
    <3>5. BatchTypeOK'
      BY <2>2, <3>3, <3>4 DEF BatchInv, BatchTypeOK
    <3> QED BY <3>3, <3>4, <3>5 DEF BatchInv
  <2>4. CASE NoTransition
    <3>1. UNCHANGED vars
      BY <2>1, <2>4 DEF NoTransition, authUntouched, vars, storageVars, estimateVars, authVars, jobVars
    <3> QED BY <1>2, <2>1, <2>2, <3>1, FileStep
  <2> QED BY <1>1, <1>14, <2>3, <2>4 DEF FailDownload
<1> QED BY <1>4, <1>5, <1>6, <1>7, <1>8, <1>9, <1>10, <1>11, <1>12, <1>13, <1>14 DEF DownloadStep

\* The committed authorizations the model starts from.
LEMMA InitBatch == ASSUME BatchInit PROVE BatchInv
<1> USE LimitsAssumption, AllowedAssumption, AmountsAssumption, JobsAssumption
<1>1. TypeOK
  <2>1. /\ estStatus \in [Estimates -> LifecycleStatuses \cup AuthStates
                            \cup {"NONE", "LOCAL_REUSE", "AWAITING_CONFIRMATION", "BLOCKED"}]
        /\ jobStatus \in [Jobs -> AuthStates \cup RemoteStatuses \cup {"NONE", "SUBMITTED", "IMPORTED"}]
        /\ authState \in [Estimates -> AuthStates \cup {"NONE"}]
    BY DEF BatchInit, AuthStates, ActiveStates
  <2>2. /\ up \in BOOLEAN /\ mode \in ExecutionModes /\ day \in 0..LastDay
        /\ authMode \in [Estimates -> ExecutionModes \cup {"none", "recovered"}]
        /\ authError \in [Estimates -> ErrorCodes \cup {"none"}]
    BY DEF BatchInit, ExecutionModes
  <2>3. /\ offer \in [Estimates -> Offers \cup {"blocked"}] /\ price \in [Estimates -> Amounts \cup {0}]
        /\ authDay \in [Estimates -> 0..LastDay] /\ authAmount \in [Estimates -> Amounts \cup {0}]
        /\ fresh \in [Estimates -> BOOLEAN] /\ retrySafe \in [Estimates -> BOOLEAN]
    BY DEF BatchInit
  <2>4. /\ ledger \in [Estimates -> {"none", "RESERVED", "RELEASED"}]
        /\ linked \in [Jobs -> BOOLEAN] /\ remoteId \in [Jobs -> BOOLEAN] /\ orders \in [Jobs -> Nat]
        /\ expiring \in [Estimates -> BOOLEAN] /\ handler \in [Estimates -> {"idle", "authorize", "retry"}]
        /\ task \in [Estimates -> {"none", "queued"} \cup Running] /\ todo \subseteq Jobs /\ reply \subseteq Jobs
    BY DEF BatchInit
  <2>5. limits \in [Estimates -> Limits] /\ grant \in [Estimates -> SUBSET Limits]
    BY DEF BatchInit
  <2> QED BY <2>1, <2>2, <2>3, <2>4, <2>5 DEF TypeOK
<1>2. BatchTypeOK
  BY <1>1 DEF BatchInit, BatchTypeOK, Contents, Stages
<1>3. /\ \A e \in Estimates : /\ authState[e] = "AUTHORIZED" /\ estStatus[e] = "AUTHORIZED" /\ ledger[e] = "RESERVED"
                              /\ ~retrySafe[e] /\ handler[e] = "authorize" /\ task[e] = "none"
      /\ \A j \in Jobs : jobStatus[j] = "AUTHORIZED" /\ linked[j] /\ ~remoteId[j] /\ orders[j] = 0
      /\ \A d \in Downloaders : stage[d] = "idle"
      /\ rows = << >>
  BY DEF BatchInit
<1>4. OneSubmitter /\ SubmissionInv
  BY <1>3 DEF OneSubmitter, SubmissionInv, Running
<1>5. RowInv /\ PendingInv /\ AtMostOneOrder /\ QueuedMeansOrdered
  BY <1>3 DEF RowInv, PendingInv, AtMostOneOrder, QueuedMeansOrdered, NothingSent, JobsOf
<1>6. Safe
  BY <1>4, <1>5 DEF Safe
<1>7. RowsInv /\ CompletedIsLocal /\ EstimateFollowsDownload
  BY <1>3 DEF RowsInv, CompletedIsLocal, EstimateFollowsDownload
<1>8. BoughtInv /\ DownloadInv
  BY <1>3 DEF BoughtInv, DownloadInv, DownloadOf, Purchased, Advanced, InTry, Stages, Delivered, Described
<1> QED BY <1>2, <1>6, <1>7, <1>8 DEF BatchInv

\* A step of anything keeps the invariant, and no authorization leaves COMPLETED.
LEMMA BatchStep ==
  ASSUME BatchInv, [BatchNext]_batchSpecVars
  PROVE  BatchInv' /\ \A e \in Estimates : authState[e] = "COMPLETED" => authState'[e] = "COMPLETED"
<1>1. CASE (AuthorizationNext /\ UNCHANGED batchVars) \/ CrashAll
  <2>1. BatchInv'
    BY <1>1, AuthorizationStep
  <2>2. ASSUME NEW e \in Estimates, authState[e] = "COMPLETED" PROVE authState'[e] = "COMPLETED"
    <3>1. authState[e] \in Purchased
      BY <2>2 DEF Purchased, Advanced
    <3>2. OrderedAll(e)
      BY <3>1 DEF BatchInv, BoughtInv
    <3> QED BY <1>1, <2>2, <3>1, <3>2, BoughtIsLeftAlone DEF BatchInv, BatchTypeOK, RowsInv
  <2> QED BY <2>1, <2>2
<1>2. CASE RefreshStart \/ \E j \in Jobs : RemoteDone(j) \/ RefreshPoll(j)
  <2>1. UNCHANGED authState
    BY <1>2 DEF RefreshStart, RemoteDone, RefreshPoll, vars, storageVars, authVars
  <2> QED BY <1>2, <2>1, RefreshStep
<1>3. ASSUME NEW d \in Downloaders, DownloadStep(d)
      PROVE  BatchInv' /\ \A e \in Estimates : authState[e] = "COMPLETED" => authState'[e] = "COMPLETED"
  BY <1>3, DownloaderStep
<1>4. CASE UNCHANGED batchSpecVars
  <2>1. UNCHANGED <<vars, done, rows, stage, target, staged, part, file, manifest, session>>
    BY <1>4 DEF batchSpecVars, batchVars, fileVars
  <2>2. FilesKept /\ UNCHANGED <<authState, remoteId, orders>>
    BY <2>1 DEF FilesKept, vars, storageVars, authVars, jobVars
  <2>3. DownloadInv'
    BY <2>1, <2>2 DEF BatchInv, DownloadInv, DownloadOf, OrderedAll, JobsOf
  <2>4. TypeOK' /\ Safe' /\ RowsInv' /\ BoughtInv' /\ CompletedIsLocal' /\ EstimateFollowsDownload'
    BY <2>1, <2>2, VarsKept
  <2> QED BY <2>1, <2>2, <2>3, <2>4 DEF BatchInv, BatchTypeOK
<1> QED BY <1>1, <1>2, <1>3, <1>4 DEF BatchNext, batchSpecVars
-----------------------------------------------------------------------------
(***************************************************************************)
(* Two downloads of one authorization that swap files.                     *)
(***************************************************************************)
Racing == {"fresh", "downloading", "staged", "part", "checked"}
OtherJobLoaded(j) == \E d \in Downloaders : EstimateOf[target[d]] = EstimateOf[j] /\ target[d] # j
CheckedIsNotBad(j) == \A d \in Downloaders : target[d] = j /\ stage[d] = "checked" => part[j] # "bad"

\* Once a job's manifest is there only one of its downloads is still on its
\* way to the destination; one that has checked a .part file which was then
\* replaced by another keeps that other from moving on.  So a book that was
\* imported, or that only one downloader is after, stays as it was checked.
FilesOf(j) ==
  /\ manifest[j] => file[j] # "absent"
  /\ session[j] => manifest[j]
  /\ manifest[j] /\ ~Crowded(j) =>
       \A a, b \in Downloaders : target[a] = j /\ target[b] = j /\ stage[a] \in Racing /\ stage[b] \in Racing => a = b
  /\ part[j] = "bad" /\ ~Crowded(j) =>
       \A a, b \in Downloaders : a # b /\ target[a] = j /\ target[b] = j /\ stage[a] = "checked" =>
         stage[b] \notin Delivered \cup {"checked"}
  /\ (session[j] /\ j \in BookJobs) \/ OtherJobLoaded(j) =>
       (~Crowded(j) => file[j] # "bad" /\ CheckedIsNotBad(j))
  /\ j \in BookJobs => \A d \in Downloaders : target[d] = j /\ stage[d] \in {"validating", "completing"} => session[j]

\* What is validated or completed was imported, or is another job's doing.
ValidatedOf(j) ==
  /\ manifest[j] => authState[EstimateOf[j]] \in InDownload /\ OrderedAll(EstimateOf[j])
  /\ \/ authState[EstimateOf[j]] \in {"VALIDATING_IMPORT", "COMPLETED"}
     \/ jobStatus[j] = "COMPLETED"
     \/ j \in DOMAIN rows /\ rows[j] = "COMPLETED"
     => (j \in BookJobs => session[j] \/ OtherJobLoaded(j))

BooksInv == \A j \in Jobs : FilesOf(j) /\ ValidatedOf(j)

\* Who is after which job never changes.
LEMMA ContentionIsFixed ==
  ASSUME UNCHANGED target, NEW j \in Jobs
  PROVE  (Crowded(j)' <=> Crowded(j)) /\ (OtherJobLoaded(j)' <=> OtherJobLoaded(j))
BY DEF Crowded, OtherJobLoaded

\* Of one authorization's downloaders, a third one makes a crowd.
LEMMA ThirdMakesCrowd ==
  ASSUME NEW j \in Jobs, ~Crowded(j), NEW a \in Downloaders, NEW b \in Downloaders, NEW c \in Downloaders,
         EstimateOf[target[a]] = EstimateOf[j], EstimateOf[target[b]] = EstimateOf[j], EstimateOf[target[c]] = EstimateOf[j]
  PROVE  a = b \/ b = c \/ a = c
BY DEF Crowded

\* The files of a job are none of the others' business.
LEMMA OtherJobsFiles ==
  ASSUME BatchInv, BooksInv, NEW d \in Downloaders, NEW t \in Stages, GoTo(d, t), NEW j \in Jobs, j # target[d],
         UNCHANGED <<part[j], file[j], manifest[j], session[j]>>
  PROVE  FilesOf(j)'
<1>1. stage \in [Downloaders -> Stages] /\ UNCHANGED target
  BY DEF BatchInv, BatchTypeOK, GoTo
<1>2. \A c \in Downloaders : target[c] = j => stage'[c] = stage[c]
  BY <1>1 DEF GoTo
<1>3. (Crowded(j)' <=> Crowded(j)) /\ (OtherJobLoaded(j)' <=> OtherJobLoaded(j))
  BY <1>1, ContentionIsFixed
<1>4. FilesOf(j)
  BY DEF BooksInv
<1>5. CheckedIsNotBad(j)' <=> CheckedIsNotBad(j)
  BY <1>1, <1>2 DEF CheckedIsNotBad
<1> QED BY <1>1, <1>2, <1>3, <1>4, <1>5 DEF FilesOf

\* A step that moves no file of its job.
LEMMA StageOnly ==
  ASSUME BatchInv, BooksInv, NEW d \in Downloaders, NEW t \in Stages, GoTo(d, t), UNCHANGED <<part, file, manifest, session>>,
         t \in Racing => stage[d] \in Racing \/ ~manifest[target[d]],
         t = "checked" => part[target[d]] = "good",
         t \in Delivered => stage[d] \in Delivered,
         t \in {"validating", "completing"} => stage[d] \in {"validating", "completing"}
  PROVE  \A j \in Jobs : FilesOf(j)'
<1> SUFFICES ASSUME NEW j \in Jobs PROVE FilesOf(j)'
  OBVIOUS
<1>1. stage \in [Downloaders -> Stages] /\ UNCHANGED target
  BY DEF BatchInv, BatchTypeOK, GoTo
<1>2. \A c \in Downloaders : stage'[c] = IF c = d THEN t ELSE stage[c]
  BY <1>1 DEF GoTo
<1>3. (Crowded(j)' <=> Crowded(j)) /\ (OtherJobLoaded(j)' <=> OtherJobLoaded(j))
  BY <1>1, ContentionIsFixed
<1>4. FilesOf(j)
  BY DEF BooksInv
<1>5. CASE j # target[d]
  BY <1>5, OtherJobsFiles
<1>6. CASE j = target[d]
  <2>1. CheckedIsNotBad(j) => CheckedIsNotBad(j)'
    BY <1>1, <1>2, <1>6 DEF CheckedIsNotBad
  <2>2. manifest[j] /\ ~Crowded(j) => \A a, b \in Downloaders :
          target[a] = j /\ target[b] = j /\ stage'[a] \in Racing /\ stage'[b] \in Racing => a = b
    BY <1>2, <1>4, <1>6 DEF FilesOf
  <2>3. part[j] = "bad" /\ ~Crowded(j) => \A a, b \in Downloaders :
          a # b /\ target[a] = j /\ target[b] = j /\ stage'[a] = "checked" => stage'[b] \notin Delivered \cup {"checked"}
    BY <1>2, <1>4, <1>6 DEF FilesOf
  <2>4. j \in BookJobs => \A c \in Downloaders : target[c] = j /\ stage'[c] \in {"validating", "completing"} => session[j]
    BY <1>2, <1>4, <1>6 DEF FilesOf
  <2> QED BY <1>1, <1>3, <1>4, <2>1, <2>2, <2>3, <2>4 DEF FilesOf
<1> QED BY <1>5, <1>6

\* A staged file becomes the .part file.
LEMMA PartStep == ASSUME BatchInv, BooksInv, NEW d \in Downloaders, MoveToPart(d) PROVE \A j \in Jobs : FilesOf(j)'
<1> SUFFICES ASSUME NEW j \in Jobs PROVE FilesOf(j)'
  OBVIOUS
<1>1. /\ stage \in [Downloaders -> Stages] /\ part \in [Jobs -> Contents] /\ staged \in [Jobs -> Contents]
      /\ target \in [Downloaders -> Jobs] /\ UNCHANGED <<target, file, manifest, session>>
      /\ stage[d] = "staged" /\ GoTo(d, "part") /\ part' = [part EXCEPT ![target[d]] = staged[target[d]]]
  BY DEF BatchInv, BatchTypeOK, GoTo, MoveToPart
<1>2. \A c \in Downloaders : stage'[c] = IF c = d THEN "part" ELSE stage[c]
  BY <1>1 DEF GoTo
<1>3. (Crowded(j)' <=> Crowded(j)) /\ (OtherJobLoaded(j)' <=> OtherJobLoaded(j))
  BY <1>1, ContentionIsFixed
<1>4. FilesOf(j)
  BY DEF BooksInv
<1>5. CASE j # target[d]
  BY <1>1, <1>5, OtherJobsFiles DEF Stages
<1>6. CASE j = target[d]
  <2>1. manifest[j] /\ ~Crowded(j) => \A a, b \in Downloaders :
          target[a] = j /\ target[b] = j /\ stage'[a] \in Racing /\ stage'[b] \in Racing => a = b
    BY <1>1, <1>2, <1>4 DEF FilesOf, Racing
  <2>2. ~Crowded(j) => \A a, b \in Downloaders :
          a # b /\ target[a] = j /\ target[b] = j /\ stage'[a] = "checked" => stage'[b] \notin Delivered \cup {"checked"}
    BY <1>2, <1>6, ThirdMakesCrowd DEF Delivered, Described
  <2>3. ASSUME (session[j] /\ j \in BookJobs) \/ OtherJobLoaded(j), ~Crowded(j)
        PROVE  \A c \in Downloaders : target[c] = j => stage'[c] # "checked"
    <3>1. CASE session[j]
      BY <1>1, <1>2, <1>4, <1>6, <2>3, <3>1 DEF FilesOf, Racing
    <3>2. CASE OtherJobLoaded(j)
      BY <1>2, <1>6, <2>3, <3>2, ThirdMakesCrowd DEF OtherJobLoaded
    <3> QED BY <2>3, <3>1, <3>2
  <2>4. (session[j] /\ j \in BookJobs) \/ OtherJobLoaded(j) => (~Crowded(j) => file[j] # "bad" /\ CheckedIsNotBad(j)')
    BY <1>1, <1>4, <2>3 DEF FilesOf, CheckedIsNotBad
  <2>5. j \in BookJobs => \A c \in Downloaders : target[c] = j /\ stage'[c] \in {"validating", "completing"} => session[j]
    BY <1>2, <1>4, <1>6 DEF FilesOf
  <2> QED BY <1>1, <1>3, <1>4, <2>1, <2>2, <2>4, <2>5 DEF FilesOf
<1> QED BY <1>5, <1>6

\* The .part file is renamed to the destination.
LEMMA DestinationStep == ASSUME BatchInv, BooksInv, NEW d \in Downloaders, MoveToDestination(d) PROVE \A j \in Jobs : FilesOf(j)'
<1> SUFFICES ASSUME NEW j \in Jobs PROVE FilesOf(j)'
  OBVIOUS
<1>1. /\ stage \in [Downloaders -> Stages] /\ part \in [Jobs -> Contents] /\ file \in [Jobs -> Contents]
      /\ target \in [Downloaders -> Jobs] /\ UNCHANGED <<target, manifest, session>>
      /\ stage[d] = "checked" /\ GoTo(d, "moved") /\ part[target[d]] # "absent"
      /\ part' = [part EXCEPT ![target[d]] = "absent"] /\ file' = [file EXCEPT ![target[d]] = part[target[d]]]
  BY DEF BatchInv, BatchTypeOK, GoTo, MoveToDestination
<1>2. \A c \in Downloaders : stage'[c] = IF c = d THEN "moved" ELSE stage[c]
  BY <1>1 DEF GoTo
<1>3. (Crowded(j)' <=> Crowded(j)) /\ (OtherJobLoaded(j)' <=> OtherJobLoaded(j))
  BY <1>1, ContentionIsFixed
<1>4. FilesOf(j)
  BY DEF BooksInv
<1>5. CASE j # target[d]
  BY <1>1, <1>5, OtherJobsFiles DEF Stages
<1>6. CASE j = target[d]
  <2>1. part'[j] = "absent" /\ file'[j] = part[j] /\ part[j] # "absent"
    BY <1>1, <1>6
  <2>2. manifest[j] /\ ~Crowded(j) => \A a, b \in Downloaders :
          target[a] = j /\ target[b] = j /\ stage'[a] \in Racing /\ stage'[b] \in Racing => a = b
    BY <1>2, <1>4 DEF FilesOf, Racing
  <2>3. CheckedIsNotBad(j) => part[j] # "bad"
    BY <1>1, <1>6 DEF CheckedIsNotBad
  <2>4. CheckedIsNotBad(j)'
    BY <2>1 DEF CheckedIsNotBad
  <2>5. j \in BookJobs => \A c \in Downloaders : target[c] = j /\ stage'[c] \in {"validating", "completing"} => session[j]
    BY <1>2, <1>4 DEF FilesOf
  <2> QED BY <1>1, <1>3, <1>4, <2>1, <2>2, <2>3, <2>4, <2>5 DEF FilesOf
<1> QED BY <1>5, <1>6

\* The manifest is written: its writer leaves at most one other downloader.
LEMMA ManifestStep == ASSUME BatchInv, BooksInv, NEW d \in Downloaders, WriteManifest(d) PROVE \A j \in Jobs : FilesOf(j)'
<1> SUFFICES ASSUME NEW j \in Jobs PROVE FilesOf(j)'
  OBVIOUS
<1>1. /\ stage \in [Downloaders -> Stages] /\ manifest \in [Jobs -> BOOLEAN]
      /\ target \in [Downloaders -> Jobs] /\ UNCHANGED <<target, part, file, session>>
      /\ stage[d] = "moved" /\ GoTo(d, "described") /\ manifest' = [manifest EXCEPT ![target[d]] = TRUE]
  BY DEF BatchInv, BatchTypeOK, GoTo, WriteManifest
<1>2. \A c \in Downloaders : stage'[c] = IF c = d THEN "described" ELSE stage[c]
  BY <1>1 DEF GoTo
<1>3. (Crowded(j)' <=> Crowded(j)) /\ (OtherJobLoaded(j)' <=> OtherJobLoaded(j))
  BY <1>1, ContentionIsFixed
<1>4. FilesOf(j)
  BY DEF BooksInv
<1>5. CASE j # target[d]
  BY <1>1, <1>5, OtherJobsFiles DEF Stages
<1>6. CASE j = target[d]
  <2>1. manifest'[j] /\ file[j] # "absent"
    BY <1>1, <1>6 DEF BatchInv, DownloadInv, DownloadOf, Delivered
  <2>2. ~Crowded(j) => \A a, b \in Downloaders :
          target[a] = j /\ target[b] = j /\ stage'[a] \in Racing /\ stage'[b] \in Racing => a = b
    BY <1>2, <1>6, ThirdMakesCrowd DEF Racing
  <2>3. part[j] = "bad" /\ ~Crowded(j) => \A a, b \in Downloaders :
          a # b /\ target[a] = j /\ target[b] = j /\ stage'[a] = "checked" => stage'[b] \notin Delivered \cup {"checked"}
    BY <1>1, <1>2, <1>4, <1>6 DEF FilesOf, Delivered
  <2>4. CheckedIsNotBad(j) => CheckedIsNotBad(j)'
    BY <1>1, <1>2 DEF CheckedIsNotBad
  <2>5. j \in BookJobs => \A c \in Downloaders : target[c] = j /\ stage'[c] \in {"validating", "completing"} => session[j]
    BY <1>2, <1>4 DEF FilesOf
  <2> QED BY <1>1, <1>3, <1>4, <2>1, <2>2, <2>3, <2>4, <2>5 DEF FilesOf
<1> QED BY <1>5, <1>6

\* The importer has compared the file: it is good, and the other downloader
\* has no bad .part file that it takes for a checked one.
LEMMA ImportStep == ASSUME BatchInv, BooksInv, NEW d \in Downloaders, ImportFile(d) PROVE \A j \in Jobs : FilesOf(j)'
<1> SUFFICES ASSUME NEW j \in Jobs PROVE FilesOf(j)'
  OBVIOUS
<1>1. /\ stage \in [Downloaders -> Stages] /\ session \in [Jobs -> BOOLEAN]
      /\ target \in [Downloaders -> Jobs] /\ UNCHANGED <<target, part, file, manifest>>
      /\ stage[d] = "imported" /\ GoTo(d, "validating")
      /\ session' = [session EXCEPT ![target[d]] = @ \/ target[d] \in BookJobs]
      /\ target[d] \in BookJobs => file[target[d]] = "good"
  BY DEF BatchInv, BatchTypeOK, GoTo, ImportFile
<1>2. \A c \in Downloaders : stage'[c] = IF c = d THEN "validating" ELSE stage[c]
  BY <1>1 DEF GoTo
<1>3. (Crowded(j)' <=> Crowded(j)) /\ (OtherJobLoaded(j)' <=> OtherJobLoaded(j))
  BY <1>1, ContentionIsFixed
<1>4. FilesOf(j)
  BY DEF BooksInv
<1>5. CASE j # target[d]
  BY <1>1, <1>5, OtherJobsFiles DEF Stages
<1>6. CASE j = target[d]
  <2>1. manifest[j] /\ session'[j] = (session[j] \/ j \in BookJobs) /\ (j \in BookJobs => file[j] = "good")
    BY <1>1, <1>6 DEF BatchInv, DownloadInv, DownloadOf, Described
  <2>2. ~Crowded(j) => \A a, b \in Downloaders :
          target[a] = j /\ target[b] = j /\ stage'[a] \in Racing /\ stage'[b] \in Racing => a = b
    BY <1>2, <1>4, <2>1 DEF FilesOf, Racing
  <2>3. part[j] = "bad" /\ ~Crowded(j) => \A a, b \in Downloaders :
          a # b /\ target[a] = j /\ target[b] = j /\ stage'[a] = "checked" => stage'[b] \notin Delivered \cup {"checked"}
    BY <1>1, <1>2, <1>4, <1>6 DEF FilesOf, Delivered, Described
  <2>4. ~Crowded(j) => CheckedIsNotBad(j)'
    BY <1>1, <1>2, <1>4, <1>6 DEF FilesOf, CheckedIsNotBad, Delivered, Described
  <2> QED BY <1>1, <1>2, <1>3, <1>4, <2>1, <2>2, <2>3, <2>4 DEF FilesOf
<1> QED BY <1>5, <1>6

\* Nothing is validated or completed but what was imported, or together with
\* another job: a step that changes no authorization and no row.
LEMMA ValidatedKept ==
  ASSUME BatchInv, BooksInv, UNCHANGED <<authState, jobStatus, remoteId, orders, rows, target>>,
         NEW j \in Jobs, session[j] => session'[j],
         manifest'[j] => manifest[j] \/ (authState[EstimateOf[j]] \in InDownload /\ OrderedAll(EstimateOf[j]))
  PROVE  ValidatedOf(j)'
<1>1. ValidatedOf(j)
  BY DEF BooksInv
<1>2. (OrderedAll(EstimateOf[j])' <=> OrderedAll(EstimateOf[j])) /\ (OtherJobLoaded(j)' <=> OtherJobLoaded(j))
  BY ContentionIsFixed DEF OrderedAll, JobsOf
<1> QED BY <1>1, <1>2 DEF ValidatedOf

\* A transition validates or completes a book only after its import.
LEMMA ValidatedByTransition ==
  ASSUME BatchInv, BooksInv, NEW i \in Jobs, NEW s \in InDownload, NEW code \in {"none", "NETWORK_ERROR", "IMPORT_FAILED"},
         MayTransition(i, s), Transition(i, s, code),
         UNCHANGED <<authUntouched, rows, fileVars, target>>,
         NEW d \in Downloaders, target[d] = i,
         s = "COMPLETED" => file[i] # "absent" /\ manifest[i],
         s = "FAILED" => authState[EstimateOf[i]] \in InDownload,
         s = "VALIDATING_IMPORT" => stage[d] \in {"validating", "completing"},
         NEW j \in Jobs
  PROVE  ValidatedOf(j)'
<1>1. PICK e \in Estimates : e = EstimateOf[i]
  BY JobsAssumption
<1>2. PICK f \in Estimates : f = EstimateOf[j]
  BY JobsAssumption
<1>3. UNCHANGED <<remoteId, orders, manifest, session, rows, target>>
  BY DEF authUntouched, fileVars
<1>4. (OrderedAll(f)' <=> OrderedAll(f)) /\ (OtherJobLoaded(j)' <=> OtherJobLoaded(j))
  BY <1>3, ContentionIsFixed DEF OrderedAll, JobsOf
<1>5. /\ \A g \in Estimates : authState'[g] = IF g = e THEN s ELSE authState[g]
      /\ \A k \in Jobs : jobStatus'[k] = IF k = i THEN s ELSE jobStatus[k]
  BY <1>1 DEF Transition, BatchInv, BatchTypeOK, TypeOK
<1>6. ValidatedOf(i) /\ ValidatedOf(j) /\ FilesOf(i)
  BY DEF BooksInv
<1>7. authState[f] \in InDownload => authState'[f] \in InDownload
  BY <1>5
<1>8. f = e /\ j # i => OtherJobLoaded(j)
  BY <1>1, <1>2 DEF OtherJobLoaded
<1>9. ASSUME s \in {"VALIDATING_IMPORT", "COMPLETED"}, i \in BookJobs PROVE session[i] \/ OtherJobLoaded(i)
  <2>1. CASE stage[d] \in {"validating", "completing"}
    BY <1>6, <1>9, <2>1 DEF FilesOf
  <2>2. CASE manifest[i] /\ s = "COMPLETED"
    <3>1. authState[e] \in InDownload
      BY <1>1, <1>6, <2>2 DEF ValidatedOf
    <3>2. authState[e] \in {"VALIDATING_IMPORT", "COMPLETED"}
      BY <1>1, <2>2, <3>1 DEF MayTransition, AllowedTransitions, InDownload, Advanced
    <3> QED BY <1>1, <1>6, <1>9, <3>2 DEF ValidatedOf
  <2> QED BY <1>9, <2>1, <2>2
<1>10. manifest[j] => authState'[f] \in InDownload /\ OrderedAll(f)
  BY <1>2, <1>6, <1>7 DEF ValidatedOf
<1>11. j \in BookJobs /\ (authState'[f] \in {"VALIDATING_IMPORT", "COMPLETED"} \/ jobStatus'[j] = "COMPLETED"
         \/ (j \in DOMAIN rows /\ rows[j] = "COMPLETED")) => session[j] \/ OtherJobLoaded(j)
  <2>1. CASE j = i
    BY <1>1, <1>2, <1>5, <1>6, <1>9, <2>1 DEF ValidatedOf
  <2>2. CASE j # i
    BY <1>1, <1>2, <1>5, <1>6, <1>8, <2>2 DEF ValidatedOf
  <2> QED BY <2>1, <2>2
<1>12. (OrderedAll(EstimateOf[j])' <=> OrderedAll(f)) /\ EstimateOf[j] = f
  BY <1>2, <1>4
<1> QED BY <1>3, <1>4, <1>10, <1>11, <1>12 DEF ValidatedOf

\* A transition, or a refusal, as a whole.
LEMMA AdvanceBooks ==
  ASSUME BatchInv, BooksInv, NEW d \in Downloaders, NEW s \in Advanced, NEW next \in Stages, NEW otherwise \in Stages,
         Advance(d, s, next, otherwise), UNCHANGED <<authUntouched, done, rows, fileVars>>,
         s = "COMPLETED" => file[target[d]] # "absent" /\ manifest[target[d]],
         s = "VALIDATING_IMPORT" => stage[d] \in {"validating", "completing"},
         next \in Racing => stage[d] \in Racing, otherwise \notin Racing,
         next # "checked", next \in Delivered => stage[d] \in Delivered, otherwise \notin Delivered,
         next \in {"validating", "completing"} => stage[d] \in {"validating", "completing"}
  PROVE  BooksInv'
<1>1. PICK i \in Jobs : i = target[d]
  BY DEF BatchInv, BatchTypeOK
<1>2. UNCHANGED <<part, file, manifest, session, rows, remoteId, orders>>
  BY DEF fileVars, authUntouched
<1>3. CASE MayTransition(i, s) /\ Transition(i, s, "none") /\ GoTo(d, next)
  <2>1. \A j \in Jobs : FilesOf(j)'
    BY <1>1, <1>2, <1>3, StageOnly
  <2>2. s \in InDownload /\ s # "FAILED" /\ UNCHANGED target
    BY <1>3 DEF InDownload, Advanced, GoTo
  <2>3. \A j \in Jobs : ValidatedOf(j)'
    BY <1>1, <1>2, <1>3, <2>2, ValidatedByTransition
  <2> QED BY <2>1, <2>3 DEF BooksInv
<1>4. CASE NoTransition /\ GoTo(d, otherwise)
  <2>1. \A j \in Jobs : FilesOf(j)'
    BY <1>1, <1>2, <1>4, StageOnly DEF Racing, Delivered, Described
  <2>2. UNCHANGED <<authState, jobStatus, target>>
    BY <1>4 DEF NoTransition, GoTo
  <2>3. \A j \in Jobs : ValidatedOf(j)'
    BY <1>2, <2>2, ValidatedKept
  <2> QED BY <2>1, <2>3 DEF BooksInv
<1> QED BY <1>1, <1>3, <1>4 DEF Advance

\* No step of a downloader spoils a book.
LEMMA DownloaderBooks == ASSUME BatchInv, BooksInv, NEW d \in Downloaders, DownloadStep(d) PROVE BooksInv'
<1>1. PICK i \in Jobs : i = target[d]
  BY DEF BatchInv, BatchTypeOK
<1>2. FilesOf(i) /\ session \in [Jobs -> BOOLEAN] /\ manifest \in [Jobs -> BOOLEAN]
  BY DEF BooksInv, BatchInv, BatchTypeOK
<1> USE DEF Stages
<1>3. ASSUME UNCHANGED vars, UNCHANGED <<rows, target>>,
             \A j \in Jobs : session[j] => session'[j],
             \A j \in Jobs : manifest'[j] => manifest[j] \/ (authState[EstimateOf[j]] \in InDownload /\ OrderedAll(EstimateOf[j]))
      PROVE  \A j \in Jobs : ValidatedOf(j)'
  BY <1>3, ValidatedKept DEF vars, storageVars, authVars, jobVars
<1>4. CASE ReadJob(d) \/ CheckPart(d) \/ Raises(d) \/ Fetch(d)
  <2>1. UNCHANGED vars /\ UNCHANGED <<rows, target, part, file, manifest, session>>
    BY <1>4 DEF ReadJob, CheckPart, Raises, Fetch, fileVars, GoTo
  <2>2. CASE ReadJob(d)
    BY <2>1, <2>2, <1>3, StageOnly DEF ReadJob, BooksInv, Racing, Delivered, Described
  <2>3. CASE CheckPart(d)
    BY <2>1, <2>3, <1>3, StageOnly DEF CheckPart, BooksInv, Racing, Delivered, Described
  <2>4. CASE Raises(d)
    <3>1. PICK t \in {"failing", "idle"} : GoTo(d, t)
      BY <2>4 DEF Raises
    <3> QED BY <2>1, <3>1, <1>3, StageOnly DEF BooksInv, Racing, Delivered, Described
  <2>5. CASE Fetch(d)
    BY <2>1, <2>5, <1>3, StageOnly DEF Fetch, BooksInv, Racing, Delivered, Described
  <2> QED BY <1>4, <2>2, <2>3, <2>4, <2>5
<1>5. CASE LookForLocalFile(d)
  <2>1. UNCHANGED <<authUntouched, done, rows, fileVars>>
    BY <1>5 DEF LookForLocalFile
  <2>2. CASE file[i] # "absent" /\ manifest[i] /\ Advance(d, "COMPLETED", "idle", "idle")
    BY <1>1, <2>1, <2>2, AdvanceBooks DEF Advanced, Racing, Delivered, Described
  <2>3. CASE ~(file[i] # "absent" /\ manifest[i]) /\ NoTransition /\ GoTo(d, IF part[i] = "absent" THEN "fresh" ELSE "idle")
    <3>1. UNCHANGED vars /\ UNCHANGED <<rows, target, part, file, manifest, session>>
      BY <2>1, <2>3 DEF NoTransition, authUntouched, vars, storageVars, estimateVars, authVars, jobVars, fileVars, GoTo
    <3>2. ~manifest[i]
      BY <1>2, <2>3 DEF FilesOf
    <3>3. PICK t \in {"fresh", "idle"} : GoTo(d, t)
      BY <2>3
    <3> QED BY <1>1, <1>3, <3>1, <3>2, <3>3, StageOnly DEF BooksInv, Delivered, Described
  <2> QED BY <1>1, <1>5, <2>2, <2>3 DEF LookForLocalFile
<1>6. CASE StartDownload(d)
  BY <1>6, AdvanceBooks DEF StartDownload, Advanced, Racing, Delivered, Described
<1>7. CASE MoveToPart(d)
  BY <1>3, <1>7, PartStep DEF MoveToPart, GoTo, BooksInv
<1>8. CASE MoveToDestination(d)
  BY <1>3, <1>8, DestinationStep DEF MoveToDestination, GoTo, BooksInv
<1>9. CASE WriteManifest(d)
  <2>1. UNCHANGED vars /\ UNCHANGED <<rows, target, session>> /\ manifest' = [manifest EXCEPT ![i] = TRUE]
    BY <1>1, <1>9 DEF WriteManifest, GoTo
  <2>2. authState[EstimateOf[i]] \in InDownload /\ OrderedAll(EstimateOf[i])
    BY <1>1, <1>9 DEF WriteManifest, BatchInv, DownloadInv, DownloadOf, InTry, InDownload
  <2>3. \A j \in Jobs : manifest'[j] => manifest[j] \/ (authState[EstimateOf[j]] \in InDownload /\ OrderedAll(EstimateOf[j]))
    BY <1>2, <2>1, <2>2
  <2> QED BY <1>3, <1>9, <2>1, <2>3, ManifestStep DEF BooksInv
<1>10. CASE StartImport(d)
  BY <1>10, AdvanceBooks DEF StartImport, Advanced, Racing, Delivered, Described
<1>11. CASE ImportFile(d)
  <2>1. UNCHANGED vars /\ UNCHANGED <<rows, target, manifest>> /\ session' = [session EXCEPT ![i] = @ \/ i \in BookJobs]
    BY <1>1, <1>11 DEF ImportFile, GoTo
  <2>2. \A j \in Jobs : session[j] => session'[j]
    BY <1>2, <2>1
  <2> QED BY <1>3, <1>11, <2>1, <2>2, ImportStep DEF BooksInv
<1>12. CASE ValidateImport(d)
  <2>1. manifest[i] /\ file[i] # "absent"
    BY <1>1, <1>12 DEF ValidateImport, BatchInv, DownloadInv, DownloadOf, Delivered, Described
  <2>2. CASE stage[d] = "validating" /\ Advance(d, "VALIDATING_IMPORT", "completing", "failing")
    BY <1>1, <1>12, <2>1, <2>2, AdvanceBooks DEF ValidateImport, Advanced, Racing, Delivered, Described
  <2>3. CASE stage[d] = "completing" /\ Advance(d, "COMPLETED", "idle", "failing")
    BY <1>1, <1>12, <2>1, <2>3, AdvanceBooks DEF ValidateImport, Advanced, Racing, Delivered, Described
  <2> QED BY <1>12, <2>2, <2>3 DEF ValidateImport
<1>13. CASE FailDownload(d)
  <2>1. stage[d] = "failing" /\ GoTo(d, "idle") /\ UNCHANGED <<authUntouched, done, rows, fileVars>>
    BY <1>13 DEF FailDownload
  <2>2. UNCHANGED <<target, part, file, manifest, session, rows, remoteId, orders>>
    BY <2>1 DEF authUntouched, fileVars, GoTo
  <2>3. \A j \in Jobs : FilesOf(j)'
    BY <2>1, <2>2, StageOnly DEF Racing, Delivered, Described
  <2>4. ASSUME NEW code \in {"NETWORK_ERROR", "IMPORT_FAILED"}, MayTransition(i, "FAILED"), Transition(i, "FAILED", code)
        PROVE  \A j \in Jobs : ValidatedOf(j)'
    <3>1. "FAILED" \in InDownload /\ authState[EstimateOf[i]] \in InDownload
      BY <1>1, <2>1 DEF BatchInv, DownloadInv, DownloadOf, InDownload
    <3> QED BY <1>1, <2>1, <2>2, <2>4, <3>1, ValidatedByTransition
  <2>5. ASSUME NoTransition PROVE \A j \in Jobs : ValidatedOf(j)'
    BY <2>2, <2>5, ValidatedKept DEF NoTransition
  <2> QED BY <1>1, <1>13, <2>3, <2>4, <2>5 DEF FailDownload, BooksInv
<1> QED BY <1>4, <1>5, <1>6, <1>7, <1>8, <1>9, <1>10, <1>11, <1>12, <1>13 DEF DownloadStep

\* A step of the authorization leaves files and validated jobs as they are.
LEMMA AuthorizationBooks ==
  ASSUME BatchInv, BooksInv, (AuthorizationNext /\ UNCHANGED batchVars) \/ CrashAll
  PROVE  BooksInv'
<1>1. UNCHANGED <<target, part, file, manifest, session>> /\ (UNCHANGED rows \/ rows' = << >>)
      /\ (UNCHANGED stage \/ stage' = [d \in Downloaders |-> "idle"])
  BY DEF batchVars, CrashAll, fileVars
<1>2. TypeOK /\ (\A j \in Jobs : linked[j]) /\ (AuthorizationNext \/ CrashAll)
  BY DEF BatchInv, BatchTypeOK, RowsInv
<1>3. ASSUME NEW j \in Jobs PROVE FilesOf(j)'
  <2>1. (Crowded(j)' <=> Crowded(j)) /\ (OtherJobLoaded(j)' <=> OtherJobLoaded(j))
    BY <1>1, ContentionIsFixed
  <2>2. FilesOf(j)
    BY DEF BooksInv
  <2>3. CASE UNCHANGED stage
    BY <1>1, <2>1, <2>2, <2>3 DEF FilesOf, CheckedIsNotBad
  <2>4. CASE stage' = [d \in Downloaders |-> "idle"]
    BY <1>1, <2>1, <2>2, <2>4 DEF FilesOf, CheckedIsNotBad, Racing
  <2> QED BY <1>1, <2>3, <2>4
<1>4. ASSUME NEW j \in Jobs PROVE ValidatedOf(j)'
  <2>1. PICK e \in Estimates : e = EstimateOf[j]
    BY JobsAssumption
  <2>2. JobsOf(e) # {}
    BY <2>1 DEF JobsOf
  <2>3. ValidatedOf(j) /\ (OtherJobLoaded(j)' <=> OtherJobLoaded(j))
    BY <1>1, ContentionIsFixed DEF BooksInv
  <2>4. manifest[j] => authState'[e] \in InDownload /\ OrderedAll(e)'
    <3> SUFFICES ASSUME manifest[j] PROVE authState'[e] \in InDownload /\ OrderedAll(e)'
      OBVIOUS
    <3>1. authState[e] \in InDownload /\ OrderedAll(e)
      BY <2>1, <2>3 DEF ValidatedOf
    <3>2. authState[e] \in Purchased \/ authState[e] = "FAILED"
      BY <3>1 DEF InDownload, Purchased
    <3> QED BY <1>2, <2>2, <3>1, <3>2, BoughtIsLeftAlone DEF BatchInv
  <2>5. authState'[e] \in {"VALIDATING_IMPORT", "COMPLETED"} => authState[e] = authState'[e]
    <3> SUFFICES ASSUME authState'[e] \in {"VALIDATING_IMPORT", "COMPLETED"} PROVE authState[e] = authState'[e]
      OBVIOUS
    <3>1. authState'[e] \in Purchased
      BY DEF Purchased, Advanced
    <3>2. authState[e] \in Purchased
      BY <1>2, <3>1, QueuedIsBought DEF BatchInv
    <3>3. OrderedAll(e)
      BY <3>2 DEF BatchInv, BoughtInv
    <3> QED BY <1>2, <3>2, <3>3, BoughtIsLeftAlone DEF BatchInv
  <2>6. jobStatus'[j] = "COMPLETED" => jobStatus[j] = "COMPLETED"
    BY <1>2, RowsAreKept
  <2>7. j \in DOMAIN rows' /\ rows'[j] = "COMPLETED" => j \in DOMAIN rows /\ rows[j] = "COMPLETED"
    BY <1>1
  <2>8. EstimateOf[j] = e /\ (OrderedAll(EstimateOf[j])' <=> OrderedAll(e)')
    BY <2>1
  <2> QED BY <1>1, <2>3, <2>4, <2>5, <2>6, <2>7, <2>8 DEF ValidatedOf
<1> QED BY <1>3, <1>4 DEF BooksInv

\* Neither does a refresh.
LEMMA RefreshBooks ==
  ASSUME BatchInv, BooksInv, RefreshStart \/ \E j \in Jobs : RemoteDone(j) \/ RefreshPoll(j)
  PROVE  BooksInv'
<1>1. UNCHANGED <<authState, remoteId, orders, stage, target, part, file, manifest, session>>
  BY DEF RefreshStart, RemoteDone, RefreshPoll, vars, storageVars, authVars, jobVars, authUntouched, fileVars
<1>2. ASSUME NEW j \in Jobs PROVE FilesOf(j)'
  BY <1>1, ContentionIsFixed DEF BooksInv, FilesOf, CheckedIsNotBad
<1>3. ASSUME NEW j \in Jobs PROVE ValidatedOf(j)'
  <2>1. ValidatedOf(j) /\ (OtherJobLoaded(j)' <=> OtherJobLoaded(j)) /\ (OrderedAll(EstimateOf[j])' <=> OrderedAll(EstimateOf[j]))
    BY <1>1, ContentionIsFixed DEF BooksInv, OrderedAll, JobsOf
  <2>2. \/ jobStatus'[j] = "COMPLETED"
        \/ j \in DOMAIN rows' /\ rows'[j] = "COMPLETED"
        => jobStatus[j] = "COMPLETED" \/ (j \in DOMAIN rows /\ rows[j] = "COMPLETED")
    <3>1. CASE RefreshStart
      BY <3>1 DEF RefreshStart, vars, storageVars, jobVars
    <3>2. ASSUME NEW i \in Jobs, RemoteDone(i)
          PROVE  UNCHANGED <<jobStatus, rows>>
      BY <3>2 DEF RemoteDone, vars, storageVars, jobVars
    <3>3. ASSUME NEW i \in Jobs, RefreshPoll(i)
          PROVE  \/ jobStatus'[j] = "COMPLETED"
                 \/ j \in DOMAIN rows' /\ rows'[j] = "COMPLETED"
                 => jobStatus[j] = "COMPLETED" \/ (j \in DOMAIN rows /\ rows[j] = "COMPLETED")
      <4>1. PICK status \in RemoteStatusesOf(i) \cup {rows[i]} : jobStatus' = [jobStatus EXCEPT ![i] = status]
        BY <3>3 DEF RefreshPoll
      <4>2. i \in DOMAIN rows /\ rows' = [k \in DOMAIN rows \ {i} |-> rows[k]]
        BY <3>3 DEF RefreshPoll
      <4>3. status = "COMPLETED" => rows[i] = "COMPLETED"
        BY <4>1 DEF RemoteStatusesOf
      <4> QED BY <4>1, <4>2, <4>3 DEF BatchInv, BatchTypeOK, TypeOK
    <3> QED BY <3>1, <3>2, <3>3
  <2> QED BY <1>1, <2>1, <2>2 DEF ValidatedOf
<1> QED BY <1>2, <1>3 DEF BooksInv
-----------------------------------------------------------------------------
\* The invariant holds however polls, downloads, requests, tasks and crashes
\* interleave.
THEOREM BatchInvariant == BatchSpec => []BatchInv
<1> QED BY InitBatch, BatchStep, PTL DEF BatchSpec, batchSpecVars

\* Every variable keeps its type.
THEOREM BatchTypeCorrect == BatchSpec => []BatchTypeOK
<1>1. BatchInv => BatchTypeOK
  BY DEF BatchInv
<1> QED BY <1>1, BatchInvariant, PTL

\* Nothing is downloaded, imported or completed that is not reserved and
\* ordered, job by job, at Databento.
THEOREM NothingUnpaidIsDownloaded == BatchSpec => []DownloadsAreReserved
<1>1. BatchInv => DownloadsAreReserved
  BY DEF BatchInv, BoughtInv, DownloadsAreReserved, Purchased, OrderedAll
<1> QED BY <1>1, BatchInvariant, PTL

\* A job said to be completed has its file and its manifest on disk, whatever
\* a stale poll, a crash or a second download did in between.
THEOREM CompletedIsOnDisk == BatchSpec => []CompletedIsLocal
<1>1. BatchInv => CompletedIsLocal
  BY DEF BatchInv
<1> QED BY <1>1, BatchInvariant, PTL

\* The estimate shows the state of its authorization during the download too.
THEOREM EstimateShowsDownload == BatchSpec => []EstimateFollowsDownload
<1>1. BatchInv => EstimateFollowsDownload
  BY DEF BatchInv
<1> QED BY <1>1, BatchInvariant, PTL

\* A completed authorization stays completed: no retry, cancellation, poll or
\* slower download of the same job moves it.
THEOREM CompletedStays == BatchSpec => CompletedIsFinal
<1>1. BatchInv /\ [BatchNext]_batchSpecVars =>
        [\A e \in Estimates : authState[e] = "COMPLETED" => authState'[e] = "COMPLETED"]_<<vars, batchVars>>
  BY BatchStep
<1> QED BY <1>1, BatchInvariant, PTL DEF BatchSpec, CompletedIsFinal, batchSpecVars

\* As long as no three threads download for one authorization, no session and
\* no completed book has a file the check would refuse, however the two swap
\* their files, fail, crash or start over.
THEOREM BooksStayChecked == BatchSpec => []BooksAreChecked
<1>1. BatchInit => BooksInv
  <2> SUFFICES ASSUME BatchInit, NEW j \in Jobs PROVE FilesOf(j) /\ ValidatedOf(j)
    BY DEF BooksInv
  <2>1. /\ ~manifest[j] /\ ~session[j] /\ part[j] = "absent" /\ file[j] = "absent" /\ rows = << >>
        /\ \A d \in Downloaders : stage[d] = "idle"
        /\ jobStatus[j] = "AUTHORIZED" /\ authState[EstimateOf[j]] = "AUTHORIZED"
    BY JobsAssumption DEF BatchInit
  <2> QED BY <2>1 DEF FilesOf, ValidatedOf, CheckedIsNotBad
<1>2. BatchInv /\ BooksInv /\ [BatchNext]_batchSpecVars => BooksInv'
  <2> SUFFICES ASSUME BatchInv, BooksInv, [BatchNext]_batchSpecVars PROVE BooksInv'
    OBVIOUS
  <2>1. CASE UNCHANGED batchSpecVars
    <3>1. UNCHANGED <<authState, jobStatus, remoteId, orders, rows, stage, target, part, file, manifest, session>>
      BY <2>1 DEF batchSpecVars, batchVars, fileVars, vars, storageVars, authVars, jobVars
    <3>2. ASSUME NEW j \in Jobs PROVE FilesOf(j)'
      BY <3>1, ContentionIsFixed DEF BooksInv, FilesOf, CheckedIsNotBad
    <3>3. ASSUME NEW j \in Jobs PROVE ValidatedOf(j)'
      BY <3>1, ValidatedKept
    <3> QED BY <3>2, <3>3 DEF BooksInv
  <2> QED BY <2>1, AuthorizationBooks, RefreshBooks, DownloaderBooks DEF BatchNext
<1>3. BatchInv /\ BooksInv => BooksAreChecked
  <2> SUFFICES ASSUME BatchInv, BooksInv, NEW j \in BookJobs, ~Crowded(j), session[j] \/ jobStatus[j] = "COMPLETED"
               PROVE  file[j] = "good"
    BY DEF BooksAreChecked
  <2>1. j \in Jobs /\ FilesOf(j) /\ ValidatedOf(j)
    BY BookJobsAssumption DEF BooksInv
  <2>2. file[j] # "absent"
    BY <2>1 DEF FilesOf, BatchInv, CompletedIsLocal
  <2>3. file[j] # "bad"
    BY <2>1 DEF FilesOf, ValidatedOf
  <2> QED BY <2>1, <2>2, <2>3 DEF BatchInv, BatchTypeOK, Contents
<1> QED BY <1>1, <1>2, <1>3, BatchInvariant, PTL DEF BatchSpec, batchSpecVars
=============================================================================
