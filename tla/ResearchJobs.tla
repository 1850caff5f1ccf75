---------------------------- MODULE ResearchJobs ----------------------------
(***************************************************************************)
(* Research jobs and the governance of strategies: research.py with the    *)
(* research_jobs, experiments and strategy_versions rows of storage.py and *)
(* the task registry of service.py.  A search scans a session, ranks its   *)
(* candidates, retires the paper strategy of an earlier search and saves   *)
(* its own candidates one by one; clients pause, cancel, resume, promote,  *)
(* reject and roll back meanwhile.  Every write of a row is a transaction  *)
(* of its own, on what was read before.                                    *)
(*                                                                         *)
(* How candidates trade is the business of DailySession; here a search     *)
(* ends with any ranking, gate verdict and metrics.  The experiment row of *)
(* a job repeats its status and nothing reads it: it is left out.          *)
(***************************************************************************)
EXTENDS Integers, Sequences, SequencesExt, FiniteSets

CONSTANTS
  MaxJobs,        \* bound on the rows of research_jobs
  Sessions,       \* sessions that may be searched
  Wanted,         \* the pairs of session and mode clients ask for, job by job
  Independent,    \* those that qualify as independent full-L3 days
  LockedTest,     \* those of the split "Locked Test"
  Strategies,     \* strategy hashes
  BaselineOf,     \* the strategy of a session's baseline: its parameters are never a candidate's
  Rankings,       \* the top candidates a search may end with
  MinSessions, MinLocked,   \* ValidationPolicy
  OtherChecks,    \* what its other checks may say
  MaxReports,     \* bound on the progress reports of a scan
  MaxCalls        \* bound on what clients and crashes do

JobIds == 1 .. MaxJobs
Modes == {"search", "baseline"}
Idle == {"COMPLETED", "FAILED", "CANCELLED", "PAUSED"}

ASSUME ResearchAssumption ==
  /\ MaxJobs \in Nat \ {0} /\ {MinSessions, MinLocked, MaxReports, MaxCalls} \subseteq Nat
  /\ Independent \subseteq Sessions /\ LockedTest \subseteq Sessions
  /\ Wanted \in [JobIds -> SUBSET (Sessions \X Modes)] /\ OtherChecks \subseteq BOOLEAN
  /\ BaselineOf \in [Sessions -> Strategies]
  /\ Rankings \subseteq Seq(Strategies \ Range(BaselineOf)) \ {<<>>}

VARIABLES
  up, calls,
  jobs,           \* rows: session, mode, status
  registry,       \* research_tasks: jobs with a task that is not done
  runs,           \* the threads in run_research_job
  lost,           \* history: jobs whose last thread ended in an exception that nobody caught
  requests,       \* pause, cancel, resume, promote, reject and rollback under way
  strategy,       \* strategy_versions: status, data_fingerprints
  children,       \* COMPLETED experiments of candidates
  overlapped      \* two searches have written strategies at the same time

vars == <<up, calls, jobs, registry, runs, lost, requests, strategy, children, overlapped>>

Unknown == [status |-> "NONE", evidence |-> <<>>]
Created == DOMAIN jobs
Called == up /\ calls < MaxCalls /\ calls' = calls + 1

NewRun(j) == [job |-> j, pc |-> "start", reports |-> 0, stop |-> "none", rank |-> 0,
              top |-> <<>>, active |-> FALSE, seen |-> {}]
Goes(a, b) == runs' = (runs \ {a}) \cup {b}
At(a, pc) == Goes(a, [a EXCEPT !.pc = pc])
RunEnds(a) == runs' = runs \ {a} /\ registry' = registry \ {a.job}
JobIs(j, s) == jobs' = [jobs EXCEPT ![j].status = s]

StartTask(j) ==
  IF j \in registry THEN UNCHANGED <<registry, runs, lost>>
  ELSE registry' = registry \cup {j} /\ runs' = runs \cup {NewRun(j)} /\ lost' = lost \ {j}

Init ==
  /\ up = FALSE /\ calls = 0 /\ jobs = <<>> /\ registry = {} /\ runs = {} /\ lost = {}
  /\ requests = {}
  /\ strategy = [s \in Strategies |-> Unknown] /\ children = {} /\ overlapped = FALSE
-----------------------------------------------------------------------------
(* Evidence and its evaluation.                                            *)

AccumulateAll(evidence, session) == Append(evidence, session)   \* mutant: a session counts every time

\* dict.fromkeys: a session counts once however often it is searched.
Accumulate(evidence, session) ==
  IF Contains(evidence, session) THEN evidence ELSE Append(evidence, session)

\* session_library rows of the fingerprints, those that qualify, by their places.
Qualifying(evidence) == {i \in DOMAIN evidence : evidence[i] \in Independent}

\* evaluate_promotion: the metrics it is given stand for its other checks.
Eligible(evidence, metricsPass) ==
  /\ Cardinality(Qualifying(evidence)) >= MinSessions
  /\ Cardinality({i \in Qualifying(evidence) : evidence[i] \in LockedTest}) >= MinLocked
  /\ metricsPass
-----------------------------------------------------------------------------
(* Jobs: the endpoints.                                                    *)

CreateJob(session, mode) ==
  /\ Called /\ Len(jobs) < MaxJobs /\ <<session, mode>> \in Wanted[Len(jobs) + 1]
  /\ jobs' = Append(jobs, [session |-> session, mode |-> mode, status |-> "QUEUED"])
  /\ strategy' = IF mode = "search" THEN strategy
                 ELSE [strategy EXCEPT ![BaselineOf[session]] =
                         [status |-> "RESEARCH_ONLY", evidence |-> <<session>>]]
  /\ StartTask(Len(jobs) + 1)
  /\ UNCHANGED <<up, requests, children, overlapped>>

AsksFor == [cancel |-> "CANCELLED", pause |-> "PAUSED", resume |-> "QUEUED"]
From == [cancel |-> {"QUEUED", "RUNNING", "PAUSED"}, pause |-> {"QUEUED", "RUNNING"},
         resume |-> {"PAUSED", "FAILED"}]

\* The status is read once and written later; resume runs on the event loop
\* and schedules the job in the end.
AskJob(op, j) ==
  /\ Called /\ jobs[j].status \in From[op]
  /\ requests' = requests \cup {[op |-> op, job |-> j, step |-> "job"]}
  /\ UNCHANGED <<up, jobs, registry, runs, lost, strategy, children, overlapped>>

WriteJob(q) ==
  /\ q.op \in DOMAIN AsksFor /\ q.step = "job"
  /\ JobIs(q.job, AsksFor[q.op])
  /\ requests' = (requests \ {q}) \cup (IF q.op = "resume" THEN {[q EXCEPT !.step = "schedule"]} ELSE {})
  /\ UNCHANGED <<up, calls, registry, runs, lost, strategy, children, overlapped>>

ScheduleResumed(q) ==
  /\ q.op \in DOMAIN AsksFor /\ q.step = "schedule"
  /\ requests' = requests \ {q} /\ StartTask(q.job)
  /\ UNCHANGED <<up, calls, jobs, strategy, children, overlapped>>
-----------------------------------------------------------------------------
(* A run: scan, interruption, failure.  RUNNING is written before the try  *)
(* of the run begins; what raises outside it, or while the run is marked   *)
(* FAILED, ends the thread and leaves the row as it is.                    *)

Aside == UNCHANGED <<up, calls, requests, strategy, children, overlapped>>
Quiet == Aside /\ UNCHANGED lost

ReadJob(a) ==
  /\ a.pc = "start"
  /\ IF jobs[a.job].status \in {"COMPLETED", "CANCELLED", "PAUSED"} THEN RunEnds(a)
     ELSE At(a, "mark") /\ UNCHANGED registry
  /\ UNCHANGED jobs /\ Quiet

MarkRunning(a) ==
  /\ a.pc = "mark"
  /\ JobIs(a.job, "RUNNING") /\ At(a, "begun")
  /\ UNCHANGED registry /\ Quiet

\* The context of the days, the experiment and the audit: then the try begins.
BeginScan(a) ==
  /\ a.pc = "begun"
  /\ At(a, "scan")
  /\ UNCHANGED <<jobs, registry>> /\ Quiet

\* Every 2048 events a search looks for a pause or a cancellation; a baseline
\* looks whenever it is about to report.
SeeControl(a) ==
  /\ a.pc \in {"scan", "report"} /\ jobs[a.job].status \in {"PAUSED", "CANCELLED"}
  /\ (a.pc = "scan" => jobs[a.job].mode = "search")
  /\ Goes(a, [a EXCEPT !.pc = "stop", !.stop = jobs[a.job].status])
  /\ UNCHANGED <<jobs, registry>> /\ Quiet

BaselineLooks(a) ==
  /\ a.pc = "scan" /\ jobs[a.job].mode = "baseline" /\ a.reports < MaxReports
  /\ At(a, "report")
  /\ UNCHANGED <<jobs, registry>> /\ Quiet

\* Every chunk the progress is written together with RUNNING, blindly.
ReportProgress(a) ==
  /\ a.pc = IF jobs[a.job].mode = "search" THEN "scan" ELSE "report"
  /\ IF a.pc = "report" THEN jobs[a.job].status \notin {"PAUSED", "CANCELLED"}
     ELSE a.reports < MaxReports
  /\ JobIs(a.job, "RUNNING")
  /\ Goes(a, [a EXCEPT !.pc = "scan", !.reports = @ + 1])
  /\ UNCHANGED registry /\ Quiet

\* The end of the file: a search writes RUNNING before it ranks.
EndOfScan(a) ==
  /\ a.pc = "scan" /\ jobs[a.job].mode = "search"
  /\ JobIs(a.job, "RUNNING") /\ Goes(a, [a EXCEPT !.pc = "gate", !.reports = 0])
  /\ UNCHANGED registry /\ Quiet

\* A baseline ends in a NameError whatever its backtest has found.
BaselineEnds(a) ==
  /\ a.pc = "scan" /\ jobs[a.job].mode = "baseline"
  /\ At(a, "fail")
  /\ UNCHANGED <<jobs, registry>> /\ Quiet

StopJob(a) ==
  /\ a.pc = "stop"
  /\ JobIs(a.job, a.stop) /\ At(a, "closing")
  /\ UNCHANGED registry /\ Quiet

\* After the last status the experiment and the audit are still written in the try.
CloseRun(a) ==
  /\ a.pc = "closing"
  /\ RunEnds(a)
  /\ UNCHANGED jobs /\ Quiet

Guarded == {"scan", "report", "stop", "gate", "retire", "child", "strategy", "finish", "closing"}

Raises(a) ==
  /\ a.pc \in Guarded
  /\ At(a, "fail")
  /\ UNCHANGED <<jobs, registry>> /\ Quiet

FailJob(a) ==
  /\ a.pc = "fail"
  /\ JobIs(a.job, "FAILED") /\ RunEnds(a)
  /\ Quiet

\* The exception ends the task, which only leaves the registry.
RaisesUncaught(a) ==
  /\ a.pc \in {"start", "mark", "begun", "fail"}
  /\ RunEnds(a) /\ lost' = lost \cup {a.job}
  /\ UNCHANGED jobs /\ Aside
-----------------------------------------------------------------------------
(* A search writes its strategies.                                         *)

Writing(a) == a.pc \in {"retire", "child", "strategy"}
Row(s) == [hash |-> s, status |-> strategy[s].status, evidence |-> strategy[s].evidence]

RetireRanked(a) ==   \* mutant: only strategies the new search has ranked
  {x \in a.seen : x.status = "PAPER_ACTIVE" /\ x.hash \in ToSet(a.top)}

\* _realistic_execution_gate: of the trades of the fast search enough are also
\* made by the backtester, half of them at least, and they pay.
MinimumGateTrades == 5
GatePasses(fast, realistic, pays) ==
  /\ fast >= MinimumGateTrades /\ realistic >= MinimumGateTrades
  /\ 2 * realistic >= fast /\ pays

\* A candidate that is not eligible is not gated.
GateVerdicts == {eligible /\ GatePasses(fast, realistic, pays) :
                   eligible, pays \in BOOLEAN, fast, realistic \in 0 .. 2 * MinimumGateTrades + 1}

\* Ranking, gate, and the one list of strategies everything below works on.
Select(a) ==
  /\ a.pc = "gate"
  /\ \E top \in Rankings, gate \in GateVerdicts :
       Goes(a, [a EXCEPT !.pc = "retire", !.top = top, !.active = gate,
                         !.seen = {Row(s) : s \in {t \in Strategies : strategy[t] # Unknown}}])
  /\ overlapped' = (overlapped \/ \E b \in runs \ {a} : Writing(b))
  /\ UNCHANGED <<up, calls, jobs, registry, lost, requests, strategy, children>>

Retire(a) == {x \in a.seen : x.status = "PAPER_ACTIVE"}

RetireOne(a) ==
  /\ a.pc = "retire"
  /\ IF Retire(a) = {} THEN Goes(a, [a EXCEPT !.pc = "child", !.rank = 1]) /\ UNCHANGED strategy
     ELSE \E x \in Retire(a) :
            /\ strategy' = [strategy EXCEPT ![x.hash] = [status |-> "RESEARCH_ONLY", evidence |-> x.evidence]]
            /\ Goes(a, [a EXCEPT !.seen = (@ \ {x}) \cup {[x EXCEPT !.status = "RESEARCH_ONLY"]}])
  /\ UNCHANGED <<up, calls, jobs, registry, lost, requests, children, overlapped>>

\* What the candidate had before its search, with the session of the search.
EvidenceOf(a) ==
  LET earlier == {x \in a.seen : x.hash = a.top[a.rank]} IN
  Accumulate(IF earlier = {} THEN <<>> ELSE (CHOOSE x \in earlier : TRUE).evidence, jobs[a.job].session)

\* save_experiment: a row of its own for every candidate of every run.
SaveExperiment(row) == children' = children \cup {row}

SaveChild(a) ==
  /\ a.pc = "child"
  /\ \E pass \in OtherChecks :
       SaveExperiment([strategy |-> a.top[a.rank], session |-> jobs[a.job].session,
                       eligible |-> Eligible(EvidenceOf(a), pass)])
  /\ At(a, "strategy")
  /\ UNCHANGED <<up, calls, jobs, registry, lost, requests, strategy, overlapped>>

SaveStrategy(a) ==
  /\ a.pc = "strategy"
  /\ strategy' = [strategy EXCEPT ![a.top[a.rank]] =
                    [status |-> IF a.active /\ a.rank = 1 THEN "PAPER_ACTIVE" ELSE "RESEARCH_ONLY",
                     evidence |-> EvidenceOf(a)]]
  /\ Goes(a, IF a.rank = Len(a.top) THEN [a EXCEPT !.pc = "finish"]
             ELSE [a EXCEPT !.pc = "child", !.rank = @ + 1])
  /\ UNCHANGED <<up, calls, jobs, registry, lost, requests, children, overlapped>>

FinishJob(a) ==
  /\ a.pc = "finish"
  /\ JobIs(a.job, "COMPLETED") /\ At(a, "closing")
  /\ UNCHANGED registry /\ Quiet

RunStep(a) ==
  \/ ReadJob(a) \/ MarkRunning(a) \/ BeginScan(a) \/ SeeControl(a) \/ BaselineLooks(a)
  \/ ReportProgress(a) \/ EndOfScan(a) \/ BaselineEnds(a) \/ StopJob(a) \/ CloseRun(a)
  \/ Raises(a) \/ FailJob(a) \/ RaisesUncaught(a) \/ Select(a) \/ RetireOne(a) \/ SaveChild(a)
  \/ SaveStrategy(a) \/ FinishJob(a)
-----------------------------------------------------------------------------
(* Governance: the row is read, and written back with another status.      *)

Governed == [promote |-> "ACTIVE", reject |-> "REJECTED", rollback |-> "RESEARCH_ONLY"]

\* Searches of the model use realistic or stressed fills.
Promotable(s) == \E c \in children : c.strategy = s /\ c.eligible

AskStrategy(op, s) ==
  /\ Called /\ strategy[s] # Unknown
  /\ (op = "promote" => Promotable(s))
  /\ requests' = requests \cup {[op |-> op, strategy |-> s, evidence |-> strategy[s].evidence]}
  /\ UNCHANGED <<up, jobs, registry, runs, lost, strategy, children, overlapped>>

WriteGovernance(q) ==
  /\ q.op \in DOMAIN Governed
  /\ strategy' = [strategy EXCEPT ![q.strategy] = [status |-> Governed[q.op], evidence |-> q.evidence]]
  /\ requests' = requests \ {q}
  /\ UNCHANGED <<up, calls, jobs, registry, runs, lost, children, overlapped>>
-----------------------------------------------------------------------------
ServiceEnds ==
  /\ Called
  /\ up' = FALSE /\ registry' = {} /\ runs' = {} /\ lost' = {} /\ requests' = {}
  /\ UNCHANGED <<jobs, strategy, children, overlapped>>

RecoverableQueued == {j \in Created : jobs[j].status = "QUEUED"}   \* mutant: forgets RUNNING

Recoverable == {j \in Created : jobs[j].status \in {"QUEUED", "RUNNING"}}

ServiceStarts ==
  /\ ~up /\ up' = TRUE
  /\ registry' = Recoverable /\ runs' = {NewRun(j) : j \in Recoverable}
  /\ UNCHANGED <<calls, jobs, lost, requests, strategy, children, overlapped>>

Next ==
  \/ \E session \in Sessions, mode \in Modes : CreateJob(session, mode)
  \/ \E j \in Created, op \in DOMAIN AsksFor : AskJob(op, j)
  \/ \E s \in Strategies, op \in DOMAIN Governed : AskStrategy(op, s)
  \/ \E q \in requests : WriteJob(q) \/ ScheduleResumed(q) \/ WriteGovernance(q)
  \/ \E a \in runs : RunStep(a)
  \/ ServiceEnds \/ ServiceStarts

Spec == Init /\ [][Next]_vars
        /\ \A j \in JobIds : WF_vars(\E a \in runs : a.job = j /\ RunStep(a))
-----------------------------------------------------------------------------
(* A strategy is promoted only on searches of at least the required number *)
(* of distinct independent sessions, some of them locked: repeated         *)
(* searches of one session, crashes half-way through saving and            *)
(* concurrent searches never make up for a session                         *)
(* (_accumulate_session_fingerprints, evaluate_promotion,                  *)
(* promote_strategy).                                                      *)
PromotedOnEvidence ==
  \A s \in Strategies : strategy[s].status = "ACTIVE" =>
    LET searched == {c.session : c \in {x \in children : x.strategy = s}} IN
    /\ Cardinality(searched \cap Independent) >= MinSessions
    /\ Cardinality(searched \cap Independent \cap LockedTest) >= MinLocked

(* As long as no two searches write their strategies at the same time, at  *)
(* most one strategy is active on paper, also after a crash between        *)
(* retiring the old and saving the new one and whatever governance writes  *)
(* in between (the retirement loop of _run_strategy_search_job).           *)
OnePaperActive ==
  ~overlapped => Cardinality({s \in Strategies : strategy[s].status = "PAPER_ACTIVE"}) <= 1

(* A running job comes to rest, COMPLETED, FAILED, PAUSED or CANCELLED, or *)
(* is queued again, if the service stays up: the blind writes of its       *)
(* progress and of its clients leave no RUNNING row without a thread.  The *)
(* one way to such a row is an exception outside the try of the run, as of *)
(* HistoricalContextIndex.load, or in its handler; the row then waits for  *)
(* a client or for the next start (_run_strategy_search_job,               *)
(* _execute_research_job).                                                 *)
RunningComesToRest == <>[]up => \A j \in JobIds :
  []<>(j \in Created /\ jobs[j].status = "RUNNING" => j \in lost)
=============================================================================
