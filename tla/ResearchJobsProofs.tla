-------------------------- MODULE ResearchJobsProofs --------------------------
(***************************************************************************)
(* Proofs about ResearchJobs, for any sessions, strategies, rankings,      *)
(* jobs and thresholds.                                                    *)
(***************************************************************************)
EXTENDS ResearchJobs, FiniteSetTheorems, TLAPS

Candidates == Strategies \ Range(BaselineOf)
Statuses == {"NONE", "RESEARCH_ONLY", "PAPER_ACTIVE", "ACTIVE", "REJECTED"}
JobStatuses == {"QUEUED", "RUNNING", "COMPLETED", "FAILED", "CANCELLED", "PAUSED"}
Rows == [hash : Strategies, status : Statuses, evidence : Seq(Sessions)]
Places == {"start", "mark", "begun", "closing", "scan", "report", "stop", "fail", "gate", "retire", "child", "strategy", "finish"}

\* A thread's record, as far as the writing of its strategies depends on it.
RunOK(a) ==
  /\ a \in [job : JobIds, pc : Places, reports : Nat, stop : {"none", "PAUSED", "CANCELLED"},
            rank : Nat, top : Seq(Candidates), active : BOOLEAN, seen : SUBSET Rows]
  /\ a.pc = "retire" => a.top # <<>>
  /\ a.pc \in {"child", "strategy"} => a.rank \in 1 .. Len(a.top)
  /\ a.pc = "stop" => a.stop # "none"

JobRequests == [op : DOMAIN AsksFor, job : JobIds, step : {"job", "schedule"}]
Governance == [op : DOMAIN Governed, strategy : Strategies, evidence : Seq(Sessions)]

JobsOK ==
  /\ jobs \in Seq([session : Sessions, mode : Modes, status : JobStatuses])
  /\ Len(jobs) <= MaxJobs

TypeOK ==
  /\ JobsOK
  /\ \A a \in runs : RunOK(a) /\ a.job \in Created
  /\ \A q \in requests : q \in Governance \/ (q \in JobRequests /\ q.job \in Created)
  /\ strategy \in [Strategies -> [status : Statuses, evidence : Seq(Sessions)]]
  /\ children \subseteq [strategy : Candidates, session : Sessions, eligible : BOOLEAN]
  /\ IsFiniteSet(children) /\ overlapped \in BOOLEAN

\* The sessions a strategy was searched on, and whether they are enough.
Searched(tests, s) == {c.session : c \in {x \in tests : x.strategy = s}}
Enough(tests, s) ==
  /\ Cardinality(Searched(tests, s) \cap Independent) >= MinSessions
  /\ Cardinality(Searched(tests, s) \cap Independent \cap LockedTest) >= MinLocked

\* A candidate's evidence names sessions it was searched on, each once.
NoRepeat(e) == \A i, j \in DOMAIN e : e[i] = e[j] => i = j
Proven(tests, s, e) == s \in Candidates => NoRepeat(e) /\ ToSet(e) \subseteq Searched(tests, s)

(* Whatever anybody has read of a strategy's evidence, and may write back, *)
(* is proven by the children, and so is every promotion decided on.        *)
EvidenceInv ==
  /\ \A s \in Strategies : Proven(children, s, strategy[s].evidence)
  /\ \A a \in runs : \A x \in a.seen : Proven(children, x.hash, x.evidence)
  /\ \A a \in runs : a.pc = "strategy" => jobs[a.job].session \in Searched(children, a.top[a.rank])
  /\ \A q \in requests : q \in Governance => Proven(children, q.strategy, q.evidence)
  /\ \A c \in children : c.eligible => Enough(children, c.strategy)
  /\ \A q \in requests : q \in Governance /\ q.op = "promote" => Enough(children, q.strategy)
  /\ \A s \in Strategies : strategy[s].status = "ACTIVE" => Enough(children, s)

(* The one search that writes knows every strategy on paper: from its list *)
(* until it has retired them, afterwards as the first it has saved itself. *)
OnPaper == {s \in Strategies : strategy[s].status = "PAPER_ACTIVE"}
KnowsPaper(a) ==
  /\ a.pc = "retire" => \A s \in OnPaper : \E x \in a.seen : x.hash = s /\ x.status = "PAPER_ACTIVE"
  /\ a.pc \in {"child", "strategy"} => \A s \in OnPaper : a.rank > 1 /\ s = a.top[1]
PaperInv ==
  /\ \A a, b \in runs : Writing(a) /\ Writing(b) => a = b
  /\ \A s, t \in OnPaper : s = t
  /\ \A a \in runs : KnowsPaper(a)

ResearchInv == TypeOK /\ EvidenceInv /\ (~overlapped => PaperInv)
-----------------------------------------------------------------------------
(* Evidence and its evaluation.                                            *)

\* As many places as name a session of T, T has elements.
LEMMA PlacesCount ==
  ASSUME NEW e, NoRepeat(e), NEW T, IsFiniteSet(T), NEW I \in SUBSET DOMAIN e, \A i \in I : e[i] \in T
  PROVE  IsFiniteSet(I) /\ Cardinality(I) \in Nat /\ Cardinality(I) <= Cardinality(T)
<1> DEFINE f == [i \in I |-> e[i]]
<1>1. f \in Injection(I, T)
  BY DEF Injection, IsInjective, NoRepeat
<1> QED
  BY <1>1, FS_Injection, FS_CardinalityType

LEMMA SearchedFinite ==
  ASSUME NEW tests, IsFiniteSet(tests), NEW s
  PROVE  IsFiniteSet(Searched(tests, s))
<1> DEFINE own == {x \in tests : x.strategy = s}
           f == [c \in own |-> c.session]
<1>1. IsFiniteSet(own)
  BY FS_Subset
<1>2. f \in Surjection(own, Searched(tests, s))
  BY DEF Surjection, Searched
<1> QED
  BY <1>1, <1>2, FS_Surjection

\* More searches never take evidence away.
LEMMA MoreIsEnough ==
  ASSUME NEW C, NEW D, C \subseteq D, IsFiniteSet(D), NEW s
  PROVE  /\ Enough(C, s) => Enough(D, s)
         /\ \A e : Proven(C, s, e) => Proven(D, s, e)
<1>1. Searched(C, s) \subseteq Searched(D, s)
  BY DEF Searched
<1>2. IsFiniteSet(Searched(D, s))
  BY SearchedFinite
<1> DEFINE A == Searched(C, s) \cap Independent
           B == Searched(D, s) \cap Independent
<1>3. /\ IsFiniteSet(B) /\ Cardinality(B) \in Nat /\ Cardinality(A) <= Cardinality(B) /\ IsFiniteSet(A)
      /\ Cardinality(A) \in Nat
  BY <1>1, <1>2, FS_Subset, FS_CardinalityType
<1>4. /\ Cardinality(A \cap LockedTest) \in Nat /\ Cardinality(B \cap LockedTest) \in Nat
      /\ Cardinality(A \cap LockedTest) <= Cardinality(B \cap LockedTest)
  <2>1. A \cap LockedTest \subseteq B \cap LockedTest
    BY <1>1
  <2>2. IsFiniteSet(B \cap LockedTest)
    BY <1>3, FS_Subset
  <2> QED
    BY <2>1, <2>2, FS_Subset, FS_CardinalityType
<1>5. Enough(C, s) => Enough(D, s)
  BY <1>3, <1>4, ResearchAssumption DEF Enough
<1> QED
  BY <1>1, <1>5 DEF Proven

\* Accumulate: the session is there afterwards, and once.
LEMMA Accumulates ==
  ASSUME NEW e \in Seq(Sessions), NEW v \in Sessions, NoRepeat(e)
  PROVE  /\ Accumulate(e, v) \in Seq(Sessions) /\ NoRepeat(Accumulate(e, v))
         /\ ToSet(Accumulate(e, v)) = ToSet(e) \cup {v}
<1>1. CASE Contains(e, v)
  BY <1>1 DEF Accumulate, Contains, ToSet
<1>2. CASE ~Contains(e, v)
  <2>1. Accumulate(e, v) = Append(e, v)
    BY <1>2 DEF Accumulate
  <2>2. \A i \in 1 .. Len(e) : e[i] # v
    BY <1>2 DEF Contains
  <2>3. NoRepeat(Append(e, v))
    BY <2>2 DEF NoRepeat
  <2>4. ToSet(Append(e, v)) = ToSet(e) \cup {v}
    <3>1. \A i \in 1 .. Len(e) : Append(e, v)[i] = e[i]
      OBVIOUS
    <3>2. Append(e, v)[Len(e) + 1] = v /\ DOMAIN Append(e, v) = 1 .. Len(e) + 1 /\ DOMAIN e = 1 .. Len(e)
      OBVIOUS
    <3>3. DOMAIN Append(e, v) = DOMAIN e \cup {Len(e) + 1}
      BY <3>2
    <3> QED
      BY <3>1, <3>2, <3>3 DEF ToSet
  <2> QED
    BY <2>1, <2>3, <2>4
<1> QED
  BY <1>1, <1>2

\* What evaluate_promotion lets pass has been searched on enough sessions.
LEMMA EligibleIsEnough ==
  ASSUME NEW tests, IsFiniteSet(tests), NEW s \in Candidates, NEW e, NEW pass,
         Proven(tests, s, e), Eligible(e, pass)
  PROVE  Enough(tests, s)
<1> DEFINE T == Searched(tests, s) \cap Independent
<1>1. IsFiniteSet(T) /\ IsFiniteSet(T \cap LockedTest)
  BY SearchedFinite, FS_Subset
<1>2. NoRepeat(e) /\ \A i \in DOMAIN e : e[i] \in Searched(tests, s)
  BY DEF Proven, ToSet
<1>3. Cardinality(Qualifying(e)) \in Nat /\ Cardinality(Qualifying(e)) <= Cardinality(T)
  BY <1>1, <1>2, PlacesCount DEF Qualifying
<1> DEFINE L == {i \in Qualifying(e) : e[i] \in LockedTest}
<1>4. Cardinality(L) \in Nat /\ Cardinality(L) <= Cardinality(T \cap LockedTest)
  <2>1. L \in SUBSET DOMAIN e /\ \A i \in L : e[i] \in T \cap LockedTest
    BY <1>2 DEF Qualifying
  <2> QED
    BY <1>1, <1>2, <2>1, PlacesCount
<1>5. Cardinality(T) \in Nat /\ Cardinality(T \cap LockedTest) \in Nat
  BY <1>1, FS_CardinalityType
<1> QED
  BY <1>3, <1>4, <1>5, ResearchAssumption DEF Eligible, Enough
-----------------------------------------------------------------------------
(* Steps that bring no news: no strategy is written but a baseline's, and  *)
(* no thread comes to write.                                               *)

NoNews ==
  /\ JobsOK' /\ Created \subseteq Created' /\ \A j \in Created : jobs'[j].session = jobs[j].session
  /\ \A b \in runs' : b \in runs \/ (/\ RunOK(b) /\ b.job \in Created' /\ ~Writing(b)
                                     /\ b.seen = {} \/ \E a \in runs : b.seen = a.seen)
  /\ \A q \in requests' : q \in requests \/ (q \in JobRequests /\ q.job \in Created')
  /\ strategy' \in [Strategies -> [status : Statuses, evidence : Seq(Sessions)]]
  /\ \A s \in Strategies : strategy'[s] = strategy[s] \/ (s \notin Candidates /\ strategy'[s].status = "RESEARCH_ONLY")
  /\ UNCHANGED <<children, overlapped>>

LEMMA JobIsNoGovernance ==
  ASSUME NEW q \in JobRequests
  PROVE  q \notin Governance
BY DEF JobRequests, Governance, AsksFor, Governed

LEMMA NoNewsKeeps ==
  ASSUME ResearchInv, NoNews
  PROVE  ResearchInv'
<1>1. TypeOK'
  <2>1. \A a \in runs' : RunOK(a) /\ a.job \in Created'
    BY DEF ResearchInv, TypeOK, NoNews
  <2>2. \A q \in requests' : q \in Governance \/ (q \in JobRequests /\ q.job \in Created')
    BY DEF ResearchInv, TypeOK, NoNews
  <2> QED
    BY <2>1, <2>2 DEF ResearchInv, TypeOK, NoNews
<1>2. EvidenceInv'
  <2>1. \A s \in Strategies : Proven(children, s, strategy'[s].evidence)
    BY DEF ResearchInv, EvidenceInv, NoNews, Proven
  <2>2. \A a \in runs' : \A x \in a.seen : Proven(children, x.hash, x.evidence)
    BY DEF ResearchInv, EvidenceInv, NoNews
  <2>3. \A a \in runs' : a.pc = "strategy" => jobs'[a.job].session \in Searched(children, a.top[a.rank])
    BY DEF ResearchInv, EvidenceInv, NoNews, Writing, TypeOK
  <2>4. \A q \in requests' : q \in Governance => q \in requests
    BY JobIsNoGovernance DEF NoNews
  <2>5. \A s \in Strategies : strategy'[s].status = "ACTIVE" => Enough(children, s)
    BY DEF ResearchInv, EvidenceInv, NoNews
  <2> QED
    BY <2>1, <2>2, <2>3, <2>4, <2>5 DEF ResearchInv, EvidenceInv, NoNews
<1>3. ASSUME ~overlapped PROVE PaperInv'
  <2>1. \A a \in runs' : Writing(a) => a \in runs
    BY DEF NoNews
  <2>2. OnPaper' \subseteq OnPaper
    BY DEF NoNews, OnPaper
  <2> QED
    BY <1>3, <2>1, <2>2 DEF ResearchInv, PaperInv, KnowsPaper, Writing
<1> QED
  BY <1>1, <1>2, <1>3 DEF ResearchInv, NoNews

\* A status is written and the job otherwise left.
LEMMA JobWritten ==
  ASSUME TypeOK, NEW j \in Created, NEW s \in JobStatuses, JobIs(j, s)
  PROVE  JobsOK' /\ Created' = Created /\ \A i \in Created : jobs'[i].session = jobs[i].session
<1> DEFINE JobRow == [session : Sessions, mode : Modes, status : JobStatuses]
<1>1. jobs \in Seq(JobRow) /\ Len(jobs) <= MaxJobs /\ j \in 1 .. Len(jobs)
  BY DEF TypeOK, JobsOK, Created
<1>2. \A r \in JobRow : [r EXCEPT !.status = s] \in JobRow /\ [r EXCEPT !.status = s].session = r.session
  OBVIOUS
<1> HIDE DEF JobRow
<1>3. jobs[j] \in JobRow
  BY <1>1
<1>4. PICK r \in JobRow : jobs' = [jobs EXCEPT ![j] = r] /\ r.session = jobs[j].session
  BY <1>2, <1>3 DEF JobIs
<1>5. jobs' \in Seq(JobRow) /\ Len(jobs') = Len(jobs) /\ DOMAIN jobs' = DOMAIN jobs
  BY <1>1, <1>4
<1>6. \A i \in Created : jobs'[i].session = jobs[i].session
  BY <1>4 DEF Created
<1> QED
  BY <1>1, <1>5, <1>6 DEF JobsOK, Created, JobRow

\* Nothing but threads, jobs and their requests changes.
NoStrategy == UNCHANGED <<strategy, children, overlapped>>

\* A thread goes on outside the writing, or ends.
LEMMA ThreadNews ==
  ASSUME ResearchInv, NEW a \in runs, NoStrategy, UNCHANGED requests,
         JobsOK', Created' = Created, \A i \in Created : jobs'[i].session = jobs[i].session,
         RunEnds(a) \/ (\E b : Goes(a, b) /\ RunOK(b) /\ b.job = a.job /\ b.seen = a.seen /\ ~Writing(b))
  PROVE  ResearchInv'
<1>1. a.job \in Created
  BY DEF ResearchInv, TypeOK
<1>2. \A b \in runs' : b \in runs \/ (/\ RunOK(b) /\ b.job \in Created' /\ ~Writing(b)
                                      /\ b.seen = {} \/ \E c \in runs : b.seen = c.seen)
  BY <1>1 DEF RunEnds, Goes
<1> QED
  BY <1>2, NoNewsKeeps DEF NoNews, NoStrategy, ResearchInv, TypeOK

LEMMA NewRunIs ==
  ASSUME NEW j \in JobIds
  PROVE  RunOK(NewRun(j)) /\ NewRun(j).job = j /\ ~Writing(NewRun(j)) /\ NewRun(j).seen = {}
<1>1. <<>> \in Seq(Candidates)
  OBVIOUS
<1>2. NewRun(j).job = j /\ NewRun(j).pc = "start" /\ NewRun(j).seen = {}
  BY DEF NewRun
<1>3. NewRun(j) \in [job : JobIds, pc : Places, reports : Nat, stop : {"none", "PAUSED", "CANCELLED"},
                     rank : Nat, top : Seq(Candidates), active : BOOLEAN, seen : SUBSET Rows]
  BY <1>1 DEF NewRun, Places
<1> QED
  BY <1>2, <1>3 DEF RunOK, Writing

\* Starting a job adds its new thread at most.
LEMMA Starts ==
  ASSUME NEW j \in JobIds, StartTask(j)
  PROVE  \A b \in runs' : b \in runs \/ (RunOK(b) /\ b.job = j /\ ~Writing(b) /\ b.seen = {})
BY NewRunIs DEF StartTask

LEMMA CreatedAreIds ==
  ASSUME TypeOK
  PROVE  Created \subseteq JobIds /\ Created = 1 .. Len(jobs) /\ Len(jobs) \in Nat
BY ResearchAssumption DEF TypeOK, JobsOK, Created, JobIds

LEMMA AskingIsNoNews ==
  ASSUME ResearchInv, NEW op \in DOMAIN AsksFor, NEW j \in Created, AskJob(op, j)
  PROVE  NoNews
<1>1. [op |-> op, job |-> j, step |-> "job"] \in JobRequests
  BY CreatedAreIds DEF JobRequests, ResearchInv
<1> QED
  BY <1>1 DEF AskJob, NoNews, ResearchInv, TypeOK, JobsOK, Created

LEMMA CreatingIsNoNews ==
  ASSUME ResearchInv, NEW session \in Sessions, NEW mode \in Modes, CreateJob(session, mode)
  PROVE  NoNews
<1> DEFINE new == [session |-> session, mode |-> mode, status |-> "QUEUED"]
           base == [status |-> "RESEARCH_ONLY", evidence |-> <<session>>]
<1>1. Created = 1 .. Len(jobs) /\ Len(jobs) \in Nat
  BY CreatedAreIds DEF ResearchInv
<1>2. jobs' = Append(jobs, new) /\ Len(jobs) + 1 \in JobIds /\ StartTask(Len(jobs) + 1)
  BY <1>1, ResearchAssumption DEF CreateJob, JobIds
<1>3. JobsOK' /\ Created' = 1 .. Len(jobs) + 1 /\ \A j \in Created : jobs'[j] = jobs[j]
  BY <1>1, <1>2, ResearchAssumption DEF ResearchInv, TypeOK, JobsOK, Created, JobStatuses, JobIds
<1>4. BaselineOf[session] \in Strategies \ Candidates
  BY ResearchAssumption DEF Candidates, Range
<1>5. /\ strategy' \in [Strategies -> [status : Statuses, evidence : Seq(Sessions)]]
      /\ \A s \in Strategies : strategy'[s] = strategy[s] \/ (s \notin Candidates /\ strategy'[s].status = "RESEARCH_ONLY")
  <2>1. base \in [status : Statuses, evidence : Seq(Sessions)] /\ base.status = "RESEARCH_ONLY"
    BY DEF Statuses
  <2>2. strategy' = strategy \/ strategy' = [strategy EXCEPT ![BaselineOf[session]] = base]
    BY DEF CreateJob
  <2>3. strategy \in [Strategies -> [status : Statuses, evidence : Seq(Sessions)]]
    BY DEF ResearchInv, TypeOK
  <2> HIDE DEF base
  <2>4. PICK c : c = BaselineOf[session]
    OBVIOUS
  <2>5. c \in Strategies /\ c \notin Candidates
    BY ONLY <1>4, <2>4
  <2>6. CASE strategy' = strategy
    BY ONLY <2>3, <2>6
  <2>7. CASE strategy' = [strategy EXCEPT ![c] = base]
    <3>1. strategy' \in [Strategies -> [status : Statuses, evidence : Seq(Sessions)]]
      BY ONLY <2>1, <2>3, <2>5, <2>7
    <3>2. \A s \in Strategies : strategy'[s] = IF s = c THEN base ELSE strategy[s]
      BY ONLY <2>3, <2>7
    <3> QED
      BY ONLY <2>1, <2>5, <3>1, <3>2
  <2> QED
    BY ONLY <2>2, <2>4, <2>6, <2>7
<1>6. \A b \in runs' : b \in runs \/ (RunOK(b) /\ b.job \in Created' /\ ~Writing(b) /\ b.seen = {})
  BY <1>1, <1>2, <1>3, Starts
<1> QED
  BY <1>1, <1>3, <1>5, <1>6 DEF CreateJob, NoNews

LEMMA WritingJobIsNoNews ==
  ASSUME ResearchInv, NEW q \in requests, WriteJob(q) \/ ScheduleResumed(q)
  PROVE  NoNews
<1>1. q \in JobRequests /\ q.job \in Created
  BY DEF ResearchInv, TypeOK, WriteJob, ScheduleResumed, Governance, AsksFor, Governed
<1>2. CASE WriteJob(q)
  <2>1. AsksFor[q.op] \in JobStatuses
    BY <1>1 DEF AsksFor, JobRequests, JobStatuses
  <2>2. JobsOK' /\ Created' = Created /\ \A i \in Created : jobs'[i].session = jobs[i].session
    BY <1>1, <1>2, <2>1, JobWritten DEF WriteJob, ResearchInv
  <2>3. [q EXCEPT !.step = "schedule"] \in JobRequests /\ [q EXCEPT !.step = "schedule"].job = q.job
    BY <1>1 DEF JobRequests
  <2> QED
    BY <1>1, <1>2, <2>2, <2>3 DEF WriteJob, NoNews, ResearchInv, TypeOK
<1>3. CASE ScheduleResumed(q)
  <2>1. StartTask(q.job) /\ q.job \in JobIds
    BY <1>1, <1>3 DEF ScheduleResumed, JobRequests
  <2>2. \A b \in runs' : b \in runs \/ (RunOK(b) /\ b.job \in Created /\ ~Writing(b) /\ b.seen = {})
    BY <1>1, <2>1, Starts
  <2> QED
    BY <1>3, <2>2 DEF ScheduleResumed, NoNews, ResearchInv, TypeOK, JobsOK, Created
<1> QED
  BY <1>2, <1>3

LEMMA ServiceIsNoNews ==
  ASSUME ResearchInv, ServiceEnds \/ ServiceStarts
  PROVE  NoNews
<1>1. CASE ServiceEnds
  BY <1>1 DEF ServiceEnds, NoNews, ResearchInv, TypeOK, JobsOK, Created
<1>2. CASE ServiceStarts
  <2>1. \A b \in runs' : RunOK(b) /\ b.job \in Created /\ ~Writing(b) /\ b.seen = {}
    BY <1>2, CreatedAreIds, NewRunIs DEF ServiceStarts, Recoverable, ResearchInv
  <2> QED
    BY <1>2, <2>1 DEF ServiceStarts, NoNews, ResearchInv, TypeOK, JobsOK, Created
<1> QED
  BY <1>1, <1>2

\* Everything a thread does outside the writing.
AsideStep(a) ==
  \/ ReadJob(a) \/ MarkRunning(a) \/ BeginScan(a) \/ SeeControl(a) \/ BaselineLooks(a)
  \/ ReportProgress(a) \/ EndOfScan(a) \/ BaselineEnds(a) \/ StopJob(a) \/ CloseRun(a)
  \/ Raises(a) \/ FailJob(a) \/ RaisesUncaught(a) \/ FinishJob(a)

\* How a thread's record changes there.
GoesOn(a, b) ==
  \/ \E pc \in {"mark", "begun", "scan", "report", "fail", "closing"} : b = [a EXCEPT !.pc = pc]
  \/ \E stop \in {"PAUSED", "CANCELLED"} : b = [a EXCEPT !.pc = "stop", !.stop = stop]
  \/ b = [a EXCEPT !.pc = "scan", !.reports = @ + 1]
  \/ b = [a EXCEPT !.pc = "gate", !.reports = 0]

LEMMA RunGoesTo ==
  ASSUME NEW a, RunOK(a), NEW b, GoesOn(a, b)
  PROVE  RunOK(b) /\ b.job = a.job /\ b.seen = a.seen /\ ~Writing(b)
<1>1. CASE \E pc \in {"mark", "begun", "scan", "report", "fail", "closing"} : b = [a EXCEPT !.pc = pc]
  BY <1>1 DEF RunOK, Writing, Places
<1>2. CASE \E stop \in {"PAUSED", "CANCELLED"} : b = [a EXCEPT !.pc = "stop", !.stop = stop]
  BY <1>2 DEF RunOK, Writing, Places
<1>3. CASE b = [a EXCEPT !.pc = "scan", !.reports = @ + 1]
  <2>1. PICK n \in Nat : n = a.reports + 1
    BY DEF RunOK
  <2>2. b = [a EXCEPT !.pc = "scan", !.reports = n]
    BY <1>3, <2>1
  <2> QED
    BY <2>2 DEF RunOK, Writing, Places
<1>4. CASE b = [a EXCEPT !.pc = "gate", !.reports = 0]
  BY <1>4 DEF RunOK, Writing, Places
<1> QED
  BY <1>1, <1>2, <1>3, <1>4 DEF GoesOn

LEMMA AsideKeeps ==
  ASSUME ResearchInv, NEW a \in runs, AsideStep(a)
  PROVE  ResearchInv'
<1>1. RunOK(a) /\ a.job \in Created /\ TypeOK
  BY DEF ResearchInv, TypeOK
<1>2. NoStrategy /\ UNCHANGED requests
  BY DEF AsideStep, ReadJob, MarkRunning, BeginScan, SeeControl, BaselineLooks, ReportProgress, EndOfScan, BaselineEnds,
         StopJob, CloseRun, Raises, FailJob, RaisesUncaught, FinishJob, Quiet, Aside, NoStrategy
<1>3. UNCHANGED jobs \/ \E s \in JobStatuses : JobIs(a.job, s)
  <2>1. StopJob(a) => a.stop \in JobStatuses
    BY <1>1 DEF StopJob, RunOK, JobStatuses
  <2> QED
    BY <2>1 DEF AsideStep, ReadJob, MarkRunning, BeginScan, SeeControl, BaselineLooks, ReportProgress, EndOfScan, BaselineEnds,
         StopJob, CloseRun, Raises, FailJob, RaisesUncaught, FinishJob, JobStatuses
<1>4. JobsOK' /\ Created' = Created /\ \A i \in Created : jobs'[i].session = jobs[i].session
  BY <1>1, <1>3, JobWritten DEF TypeOK, JobsOK, Created
<1>5. RunEnds(a) \/ \E b : Goes(a, b) /\ GoesOn(a, b)
  BY DEF AsideStep, ReadJob, MarkRunning, BeginScan, SeeControl, BaselineLooks, ReportProgress, EndOfScan, BaselineEnds,
         StopJob, CloseRun, Raises, FailJob, RaisesUncaught, FinishJob, At, GoesOn
<1>6. RunEnds(a) \/ (\E b : Goes(a, b) /\ RunOK(b) /\ b.job = a.job /\ b.seen = a.seen /\ ~Writing(b))
  BY ONLY <1>1, <1>5, RunGoesTo
<1> QED
  BY <1>2, <1>4, <1>6, ThreadNews
-----------------------------------------------------------------------------
(* A search that writes.                                                   *)

LEMMA SelectKeeps ==
  ASSUME ResearchInv, NEW a \in runs, Select(a)
  PROVE  ResearchInv'
<1>1. RunOK(a) /\ a.job \in Created /\ a.pc = "gate"
  BY DEF ResearchInv, TypeOK, Select
<1> DEFINE list == {Row(s) : s \in {t \in Strategies : strategy[t] # Unknown}}
<1>2. \A x \in list : /\ x \in Rows /\ strategy[x.hash].evidence = x.evidence
                      /\ x.hash \in Strategies
  BY DEF ResearchInv, TypeOK, Row, Rows
<1>3. \A s \in OnPaper : \E x \in list : x.hash = s /\ x.status = "PAPER_ACTIVE"
  <2> TAKE s \in OnPaper
  <2>1. s \in Strategies /\ strategy[s].status = "PAPER_ACTIVE" /\ strategy[s] # Unknown
    BY DEF OnPaper, Unknown
  <2>2. Row(s) \in list /\ Row(s).hash = s /\ Row(s).status = "PAPER_ACTIVE"
    BY <2>1 DEF Row
  <2> QED
    BY <2>2
<1>4. \A r \in GateVerdicts : r \in BOOLEAN
  <2> TAKE r \in GateVerdicts
  <2>1. \E eligible, pays \in BOOLEAN, fast, realistic \in 0 .. 2 * MinimumGateTrades + 1 :
          r = (eligible /\ GatePasses(fast, realistic, pays))
    BY DEF GateVerdicts
  <2>2. (r = TRUE) \/ (r = FALSE)
    BY Zenon, <2>1
  <2> QED
    BY <2>2
<1>5. PICK top \in Rankings, gate \in GateVerdicts :
        Goes(a, [a EXCEPT !.pc = "retire", !.top = top, !.active = gate, !.seen = list])
  BY DEF Select
<1> HIDE DEF list
<1>6. PICK b : b = [a EXCEPT !.pc = "retire", !.top = top, !.active = gate, !.seen = list]
  OBVIOUS
<1>7. RunOK(b) /\ b.job = a.job /\ b.pc = "retire" /\ b.seen = list
  <2>1. top \in Seq(Candidates) /\ top # <<>> /\ gate \in BOOLEAN /\ list \in SUBSET Rows
    BY <1>2, <1>4, ResearchAssumption DEF Candidates
  <2> QED
    BY <1>1, <1>6, <2>1 DEF RunOK, Places
<1>8. runs' = (runs \ {a}) \cup {b} /\ UNCHANGED <<up, calls, jobs, registry, requests, strategy, children>>
      /\ overlapped' \in BOOLEAN
  BY <1>5, <1>6 DEF Select, Goes, ResearchInv, TypeOK
<1>9. TypeOK'
  BY <1>1, <1>7, <1>8 DEF ResearchInv, TypeOK, JobsOK, Created
<1>10. EvidenceInv'
  <2>1. \A x \in b.seen : Proven(children, x.hash, x.evidence)
    BY <1>2, <1>7 DEF ResearchInv, EvidenceInv
  <2> QED
    BY <1>7, <1>8, <2>1 DEF ResearchInv, EvidenceInv
<1>11. ASSUME ~overlapped' PROVE PaperInv'
  <2>1. ~overlapped /\ \A c \in runs \ {a} : ~Writing(c)
    BY <1>11 DEF Select, ResearchInv, TypeOK
  <2>2. OnPaper' = OnPaper
    BY <1>8 DEF OnPaper
  <2>3. KnowsPaper(b)'
    BY <1>3, <1>7, <1>8, <2>2 DEF KnowsPaper
  <2> QED
    BY <1>8, <2>1, <2>2, <2>3 DEF ResearchInv, PaperInv, KnowsPaper, Writing
<1> QED
  BY <1>9, <1>10, <1>11 DEF ResearchInv

LEMMA RetireKeeps ==
  ASSUME ResearchInv, NEW a \in runs, RetireOne(a)
  PROVE  ResearchInv'
<1>1. RunOK(a) /\ a.job \in Created /\ a.pc = "retire" /\ a.top \in Seq(Candidates) /\ a.top # <<>> /\ a.seen \subseteq Rows
  BY DEF ResearchInv, TypeOK, RetireOne, RunOK
<1>2. UNCHANGED <<up, calls, jobs, registry, requests, children, overlapped>>
  BY DEF RetireOne
<1>3. CASE Retire(a) = {}
  <2>1. PICK b : b = [a EXCEPT !.pc = "child", !.rank = 1]
    OBVIOUS
  <2>2. runs' = (runs \ {a}) \cup {b} /\ UNCHANGED strategy
    BY <1>3, <2>1 DEF RetireOne, Goes
  <2>3. 1 \in 1 .. Len(a.top)
    BY <1>1
  <2>4. RunOK(b) /\ b.job = a.job /\ b.pc = "child" /\ b.seen = a.seen
    BY <1>1, <2>1, <2>3 DEF RunOK, Places
  <2>5. TypeOK' /\ EvidenceInv'
    BY <1>1, <1>2, <2>2, <2>4 DEF ResearchInv, TypeOK, JobsOK, Created, EvidenceInv
  <2>6. ASSUME ~overlapped PROVE PaperInv'
    <3>1. OnPaper = {} /\ OnPaper' = {}
      BY <1>1, <1>3, <2>2, <2>6 DEF ResearchInv, PaperInv, KnowsPaper, Retire, OnPaper
    <3> QED
      BY <1>1, <2>2, <2>4, <2>6, <3>1 DEF ResearchInv, PaperInv, KnowsPaper, Writing
  <2> QED
    BY <1>2, <2>5, <2>6 DEF ResearchInv
<1>4. CASE Retire(a) # {}
  <2>1. PICK x \in Retire(a) :
          /\ strategy' = [strategy EXCEPT ![x.hash] = [status |-> "RESEARCH_ONLY", evidence |-> x.evidence]]
          /\ Goes(a, [a EXCEPT !.seen = (@ \ {x}) \cup {[x EXCEPT !.status = "RESEARCH_ONLY"]}])
    BY <1>4 DEF RetireOne
  <2>2. x \in a.seen /\ x \in Rows /\ x.status = "PAPER_ACTIVE"
    BY <1>1 DEF Retire
  <2>3. PICK y : y = [x EXCEPT !.status = "RESEARCH_ONLY"]
    OBVIOUS
  <2>4. y \in Rows /\ y.hash = x.hash /\ y.evidence = x.evidence
    BY <2>2, <2>3 DEF Rows, Statuses
  <2>5. PICK b : b = [a EXCEPT !.seen = (@ \ {x}) \cup {y}]
    OBVIOUS
  <2>6. runs' = (runs \ {a}) \cup {b}
    BY <2>1, <2>3, <2>5 DEF Goes
  <2>7. RunOK(b) /\ b.job = a.job /\ b.pc = "retire" /\ b.seen = (a.seen \ {x}) \cup {y}
    BY <1>1, <2>4, <2>5 DEF RunOK
  <2>8. PICK row : row = [status |-> "RESEARCH_ONLY", evidence |-> x.evidence]
    OBVIOUS
  <2>9. /\ row \in [status : Statuses, evidence : Seq(Sessions)] /\ row.status = "RESEARCH_ONLY"
        /\ row.evidence = x.evidence /\ x.hash \in Strategies
    BY <2>2, <2>8 DEF Rows, Statuses
  <2>10. strategy' = [strategy EXCEPT ![x.hash] = row] /\ strategy \in [Strategies -> [status : Statuses, evidence : Seq(Sessions)]]
    BY <2>1, <2>8 DEF ResearchInv, TypeOK
  <2>11. TypeOK'
    BY <1>1, <1>2, <2>6, <2>7, <2>9, <2>10 DEF ResearchInv, TypeOK, JobsOK, Created
  <2>12. EvidenceInv'
    <3>1. Proven(children, x.hash, x.evidence)
      BY <2>2 DEF ResearchInv, EvidenceInv
    <3>2. \A s \in Strategies : Proven(children, s, strategy'[s].evidence)
      BY <2>9, <2>10, <3>1 DEF ResearchInv, EvidenceInv
    <3>3. \A z \in b.seen : Proven(children, z.hash, z.evidence)
      BY <2>4, <2>7, <3>1 DEF ResearchInv, EvidenceInv
    <3>4. \A s \in Strategies : strategy'[s].status = "ACTIVE" => Enough(children, s)
      BY <2>9, <2>10 DEF ResearchInv, EvidenceInv
    <3> QED
      BY <1>2, <2>6, <2>7, <3>2, <3>3, <3>4 DEF ResearchInv, EvidenceInv
  <2>13. ASSUME ~overlapped PROVE PaperInv'
    <3>1. OnPaper' \subseteq OnPaper \ {x.hash}
      BY <2>9, <2>10 DEF OnPaper
    <3>2. KnowsPaper(b)'
      <4>1. \A s \in OnPaper : \E z \in a.seen : z.hash = s /\ z.status = "PAPER_ACTIVE"
        BY <1>1, <2>13 DEF ResearchInv, PaperInv, KnowsPaper
      <4>2. \A s \in OnPaper' : \E z \in b.seen : z.hash = s /\ z.status = "PAPER_ACTIVE"
        BY <2>7, <3>1, <4>1
      <4> QED
        BY <2>7, <4>2 DEF KnowsPaper
    <3> QED
      BY <1>1, <2>6, <2>7, <2>13, <3>1, <3>2 DEF ResearchInv, PaperInv, KnowsPaper, Writing
  <2> QED
    BY <1>2, <2>11, <2>12, <2>13 DEF ResearchInv
<1> QED
  BY <1>3, <1>4

\* The evidence a search writes: what is proven, and its own session once.
LEMMA EvidenceIs ==
  ASSUME ResearchInv, NEW a \in runs, a.pc \in {"child", "strategy"}
  PROVE  /\ a.top[a.rank] \in Candidates /\ a.top[a.rank] \in Strategies /\ jobs[a.job].session \in Sessions
         /\ EvidenceOf(a) \in Seq(Sessions) /\ NoRepeat(EvidenceOf(a))
         /\ ToSet(EvidenceOf(a)) \subseteq Searched(children, a.top[a.rank]) \cup {jobs[a.job].session}
<1> DEFINE s == a.top[a.rank]
           earlier == {x \in a.seen : x.hash = s}
           before == IF earlier = {} THEN <<>> ELSE (CHOOSE x \in earlier : TRUE).evidence
<1>1. RunOK(a) /\ a.job \in Created
  BY DEF ResearchInv, TypeOK
<1>2. s \in Candidates /\ s \in Strategies
  BY <1>1 DEF RunOK, Candidates
<1>3. jobs[a.job].session \in Sessions
  <2> DEFINE JobRow == [session : Sessions, mode : Modes, status : JobStatuses]
  <2>1. \A r \in JobRow : r.session \in Sessions
    OBVIOUS
  <2>2. jobs \in Seq(JobRow)
    BY DEF ResearchInv, TypeOK, JobsOK
  <2> HIDE DEF JobRow
  <2> QED
    BY <1>1, <2>1, <2>2 DEF Created
<1>4. before \in Seq(Sessions) /\ NoRepeat(before) /\ ToSet(before) \subseteq Searched(children, s)
  <2>1. CASE earlier = {}
    <3> HIDE DEF earlier
    <3>1. before = <<>>
      BY <2>1
    <3>2. <<>> \in Seq(Sessions) /\ NoRepeat(<<>>) /\ ToSet(<<>>) = {}
      BY DEF NoRepeat, ToSet
    <3> QED
      BY <3>1, <3>2
  <2>2. CASE earlier # {}
    <3>1. PICK x \in earlier : before = x.evidence
      BY <2>2
    <3>2. x \in a.seen /\ x.hash = s
      BY <3>1
    <3>3. x \in Rows /\ Proven(children, s, x.evidence)
      BY <1>1, <3>2 DEF RunOK, ResearchInv, EvidenceInv
    <3>4. x.evidence \in Seq(Sessions)
      BY <3>3 DEF Rows
    <3> HIDE DEF before, s
    <3> QED
      BY <1>2, <3>1, <3>3, <3>4 DEF Proven
  <2> QED
    BY <2>1, <2>2
<1>5. EvidenceOf(a) = Accumulate(before, jobs[a.job].session)
  BY DEF EvidenceOf
<1> HIDE DEF before, earlier
<1> QED
  BY <1>2, <1>3, <1>4, <1>5, Accumulates

LEMMA SaveChildKeeps ==
  ASSUME ResearchInv, NEW a \in runs, SaveChild(a)
  PROVE  ResearchInv'
<1>1. RunOK(a) /\ a.job \in Created /\ a.pc = "child"
  BY DEF ResearchInv, TypeOK, SaveChild
<1> DEFINE s == a.top[a.rank]
           v == jobs[a.job].session
<1>2. PICK pass \in OtherChecks : children' = children \cup {[strategy |-> s, session |-> v, eligible |-> Eligible(EvidenceOf(a), pass)]}
  BY DEF SaveChild, SaveExperiment
<1>3. PICK row : row = [strategy |-> s, session |-> v, eligible |-> Eligible(EvidenceOf(a), pass)]
  OBVIOUS
<1>4. /\ s \in Candidates /\ s \in Strategies /\ v \in Sessions /\ EvidenceOf(a) \in Seq(Sessions) /\ NoRepeat(EvidenceOf(a))
      /\ ToSet(EvidenceOf(a)) \subseteq Searched(children, s) \cup {v}
  BY <1>1, EvidenceIs
<1>5. Eligible(EvidenceOf(a), pass) \in BOOLEAN
  BY Zenon DEF Eligible
<1>6. row \in [strategy : Candidates, session : Sessions, eligible : BOOLEAN]
      /\ row.strategy = s /\ row.session = v /\ (row.eligible => Eligible(EvidenceOf(a), pass))
  BY <1>3, <1>4, <1>5
<1>7. children' = children \cup {row} /\ UNCHANGED <<up, calls, jobs, registry, requests, strategy, overlapped>>
  BY <1>2, <1>3 DEF SaveChild
<1>8. IsFiniteSet(children')
  BY <1>7, FS_AddElement DEF ResearchInv, TypeOK
<1>9. PICK b : b = [a EXCEPT !.pc = "strategy"]
  OBVIOUS
<1>10. /\ runs' = (runs \ {a}) \cup {b} /\ RunOK(b) /\ b.job = a.job /\ b.pc = "strategy" /\ b.seen = a.seen
       /\ b.top = a.top /\ b.rank = a.rank
  BY <1>1, <1>9 DEF SaveChild, At, Goes, RunOK, Places
<1>11. TypeOK'
  BY <1>1, <1>6, <1>7, <1>8, <1>10 DEF ResearchInv, TypeOK, JobsOK, Created
<1>12. EvidenceInv'
  <2>1. \A t : /\ Enough(children, t) => Enough(children', t)
               /\ \A e : Proven(children, t, e) => Proven(children', t, e)
    BY <1>7, <1>8, MoreIsEnough
  <2>2. \A t : Searched(children, t) \subseteq Searched(children', t)
    BY <1>7 DEF Searched
  <2>3. v \in Searched(children', s)
    BY <1>6, <1>7 DEF Searched
  <2>4. Proven(children', s, EvidenceOf(a))
    BY <1>4, <2>2, <2>3 DEF Proven
  <2>5. row.eligible => Enough(children', row.strategy)
    BY <1>4, <1>6, <1>8, <2>4, EligibleIsEnough
  <2>6. \A q \in runs' : q.pc = "strategy" => jobs[q.job].session \in Searched(children', q.top[q.rank])
    BY <1>10, <2>2, <2>3 DEF ResearchInv, EvidenceInv
  <2>7. \A q \in runs' : \A x \in q.seen : Proven(children', x.hash, x.evidence)
    BY <1>10, <2>1 DEF ResearchInv, EvidenceInv
  <2> QED
    BY <1>7, <2>1, <2>5, <2>6, <2>7 DEF ResearchInv, EvidenceInv
<1>13. ASSUME ~overlapped PROVE PaperInv'
  <2>1. OnPaper' = OnPaper
    BY <1>7 DEF OnPaper
  <2> QED
    BY <1>1, <1>10, <1>13, <2>1 DEF ResearchInv, PaperInv, KnowsPaper, Writing
<1> QED
  BY <1>7, <1>11, <1>12, <1>13 DEF ResearchInv

LEMMA SaveStrategyKeeps ==
  ASSUME ResearchInv, NEW a \in runs, SaveStrategy(a)
  PROVE  ResearchInv'
<1>1. RunOK(a) /\ a.job \in Created /\ a.pc = "strategy" /\ a.rank \in 1 .. Len(a.top) /\ a.top \in Seq(Candidates)
  BY DEF ResearchInv, TypeOK, SaveStrategy, RunOK
<1> DEFINE s == a.top[a.rank]
<1>2. PICK row : row = [status |-> IF a.active /\ a.rank = 1 THEN "PAPER_ACTIVE" ELSE "RESEARCH_ONLY", evidence |-> EvidenceOf(a)]
  OBVIOUS
<1>3. strategy' = [strategy EXCEPT ![s] = row] /\ UNCHANGED <<up, calls, jobs, registry, requests, children, overlapped>>
  BY <1>2 DEF SaveStrategy
<1>4. s \in Candidates /\ s \in Strategies /\ EvidenceOf(a) \in Seq(Sessions) /\ Proven(children, s, EvidenceOf(a))
  <2>1. jobs[a.job].session \in Searched(children, s)
    BY <1>1 DEF ResearchInv, EvidenceInv
  <2> QED
    BY <1>1, <2>1, EvidenceIs DEF Proven
<1>5. /\ row \in [status : Statuses, evidence : Seq(Sessions)] /\ row.evidence = EvidenceOf(a)
      /\ row.status \in {"PAPER_ACTIVE", "RESEARCH_ONLY"} /\ (row.status = "PAPER_ACTIVE" => a.rank = 1)
  BY <1>2, <1>4 DEF Statuses
<1>6. PICK b : b = IF a.rank = Len(a.top) THEN [a EXCEPT !.pc = "finish"] ELSE [a EXCEPT !.pc = "child", !.rank = @ + 1]
  OBVIOUS
<1>7. runs' = (runs \ {a}) \cup {b}
  BY <1>6 DEF SaveStrategy, Goes
<1>8. PICK n \in Nat : n = a.rank + 1
  BY <1>1
<1>9. RunOK(b) /\ b.job = a.job /\ b.seen = a.seen /\ b.top = a.top /\ (b.pc = "finish" \/ (b.pc = "child" /\ b.rank = n /\ n > 1))
  <2>1. CASE a.rank = Len(a.top)
    BY <1>1, <1>6, <2>1 DEF RunOK, Places
  <2>2. CASE a.rank # Len(a.top)
    <3>1. n \in 1 .. Len(a.top) /\ n > 1
      BY <1>1, <1>8, <2>2
    <3>2. b = [a EXCEPT !.pc = "child", !.rank = n]
      BY <1>6, <1>8, <2>2
    <3> QED
      BY <1>1, <3>1, <3>2 DEF RunOK, Places
  <2> QED
    BY <2>1, <2>2
<1>10. TypeOK'
  BY <1>1, <1>3, <1>4, <1>5, <1>7, <1>9 DEF ResearchInv, TypeOK, JobsOK, Created
<1>11. strategy \in [Strategies -> [status : Statuses, evidence : Seq(Sessions)]]
  BY DEF ResearchInv, TypeOK
<1>12. EvidenceInv'
  <2>1. \A t \in Strategies : Proven(children, t, strategy'[t].evidence)
    BY <1>3, <1>4, <1>5, <1>11 DEF ResearchInv, EvidenceInv
  <2>2. \A t \in Strategies : strategy'[t].status = "ACTIVE" => Enough(children, t)
    BY <1>3, <1>5, <1>11 DEF ResearchInv, EvidenceInv
  <2>3. \A q \in runs' : q.pc = "strategy" => q \in runs
    BY <1>7, <1>9
  <2>4. \A q \in runs' : \A x \in q.seen : Proven(children, x.hash, x.evidence)
    BY <1>7, <1>9 DEF ResearchInv, EvidenceInv
  <2> QED
    BY <1>3, <2>1, <2>2, <2>3, <2>4 DEF ResearchInv, EvidenceInv
<1>13. ASSUME ~overlapped PROVE PaperInv'
  <2>1. \A t \in OnPaper : a.rank > 1 /\ t = a.top[1]
    BY <1>1, <1>13 DEF ResearchInv, PaperInv, KnowsPaper
  <2>2. \A t \in OnPaper' : t = a.top[1]
    BY <1>1, <1>3, <1>5, <1>11, <2>1 DEF OnPaper
  <2>3. KnowsPaper(b)'
    BY <1>9, <2>2 DEF KnowsPaper
  <2>4. \A c \in runs \ {a} : ~Writing(c)
    BY <1>1, <1>13 DEF ResearchInv, PaperInv, Writing
  <2> QED
    BY <1>7, <2>2, <2>3, <2>4 DEF PaperInv, KnowsPaper, Writing
<1> QED
  BY <1>3, <1>10, <1>12, <1>13 DEF ResearchInv
-----------------------------------------------------------------------------
(* Governance.                                                             *)

\* A promotion that is asked for rests on an eligible child.
LEMMA AskStrategyKeeps ==
  ASSUME ResearchInv, NEW op \in DOMAIN Governed, NEW s \in Strategies, AskStrategy(op, s)
  PROVE  ResearchInv'
<1>1. PICK q : q = [op |-> op, strategy |-> s, evidence |-> strategy[s].evidence]
  OBVIOUS
<1>2. requests' = requests \cup {q} /\ UNCHANGED <<up, jobs, registry, runs, strategy, children, overlapped>>
  BY <1>1 DEF AskStrategy
<1>3. q \in Governance /\ q.op = op /\ q.strategy = s /\ q.evidence = strategy[s].evidence
  BY <1>1 DEF Governance, ResearchInv, TypeOK
<1>4. TypeOK'
  BY <1>2, <1>3 DEF ResearchInv, TypeOK, JobsOK, Created
<1>5. op = "promote" => Enough(children, s)
  BY DEF AskStrategy, Promotable, ResearchInv, EvidenceInv
<1>6. EvidenceInv'
  BY <1>2, <1>3, <1>5 DEF ResearchInv, EvidenceInv
<1>7. PaperInv => PaperInv'
  BY <1>2 DEF PaperInv, OnPaper, KnowsPaper, Writing
<1> QED
  BY <1>2, <1>4, <1>6, <1>7 DEF ResearchInv

LEMMA WriteGovernanceKeeps ==
  ASSUME ResearchInv, NEW q \in requests, WriteGovernance(q)
  PROVE  ResearchInv'
<1>1. q \in Governance
  BY DEF ResearchInv, TypeOK, WriteGovernance, JobRequests, AsksFor, Governed
<1>2. PICK row : row = [status |-> Governed[q.op], evidence |-> q.evidence]
  OBVIOUS
<1>3. /\ strategy' = [strategy EXCEPT ![q.strategy] = row] /\ requests' = requests \ {q}
      /\ UNCHANGED <<up, calls, jobs, registry, runs, children, overlapped>>
  BY <1>2 DEF WriteGovernance
<1>4. /\ row \in [status : Statuses, evidence : Seq(Sessions)] /\ row.evidence = q.evidence /\ q.strategy \in Strategies
      /\ row.status \in {"ACTIVE", "REJECTED", "RESEARCH_ONLY"} /\ (row.status = "ACTIVE" => q.op = "promote")
  BY <1>1, <1>2 DEF Governance, Governed, Statuses
<1>5. strategy \in [Strategies -> [status : Statuses, evidence : Seq(Sessions)]]
  BY DEF ResearchInv, TypeOK
<1>6. TypeOK'
  BY <1>3, <1>4 DEF ResearchInv, TypeOK, JobsOK, Created
<1>7. EvidenceInv'
  <2>1. \A t \in Strategies : Proven(children, t, strategy'[t].evidence)
    BY <1>1, <1>3, <1>4, <1>5 DEF ResearchInv, EvidenceInv
  <2>2. \A t \in Strategies : strategy'[t].status = "ACTIVE" => Enough(children, t)
    BY <1>1, <1>3, <1>4, <1>5 DEF ResearchInv, EvidenceInv
  <2> QED
    BY <1>3, <2>1, <2>2 DEF ResearchInv, EvidenceInv
<1>8. OnPaper' \subseteq OnPaper
  BY <1>3, <1>4, <1>5 DEF OnPaper
<1>9. PaperInv => PaperInv'
  BY <1>3, <1>8 DEF PaperInv, KnowsPaper, Writing
<1> QED
  BY <1>3, <1>6, <1>7, <1>9 DEF ResearchInv
-----------------------------------------------------------------------------
LEMMA InitHolds == Init => ResearchInv
<1> SUFFICES ASSUME Init PROVE ResearchInv
  OBVIOUS
<1>1. JobsOK /\ Created = {}
  BY ResearchAssumption DEF Init, JobsOK, Created
<1>2. Unknown \in [status : Statuses, evidence : Seq(Sessions)] /\ Unknown.status = "NONE" /\ Unknown.evidence = <<>>
  BY DEF Unknown, Statuses
<1>3. TypeOK
  BY <1>1, <1>2, FS_EmptySet DEF Init, TypeOK
<1>4. \A s : Proven(children, s, <<>>)
  BY DEF Proven, NoRepeat, ToSet
<1>5. EvidenceInv /\ PaperInv
  BY <1>2, <1>4 DEF Init, EvidenceInv, PaperInv, OnPaper
<1> QED
  BY <1>3, <1>5 DEF ResearchInv

LEMMA NextKeeps == ResearchInv /\ [Next]_vars => ResearchInv'
<1> SUFFICES ASSUME ResearchInv, [Next]_vars PROVE ResearchInv'
  OBVIOUS
<1>1. ASSUME NEW session \in Sessions, NEW mode \in Modes, CreateJob(session, mode) PROVE ResearchInv'
  BY <1>1, CreatingIsNoNews, NoNewsKeeps
<1>2. ASSUME NEW j \in Created, NEW op \in DOMAIN AsksFor, AskJob(op, j) PROVE ResearchInv'
  BY <1>2, AskingIsNoNews, NoNewsKeeps
<1>3. ASSUME NEW s \in Strategies, NEW op \in DOMAIN Governed, AskStrategy(op, s) PROVE ResearchInv'
  BY <1>3, AskStrategyKeeps
<1>4. ASSUME NEW q \in requests, WriteJob(q) \/ ScheduleResumed(q) \/ WriteGovernance(q) PROVE ResearchInv'
  BY <1>4, WritingJobIsNoNews, NoNewsKeeps, WriteGovernanceKeeps
<1>5. ASSUME NEW a \in runs, RunStep(a) PROVE ResearchInv'
  BY <1>5, AsideKeeps, SelectKeeps, RetireKeeps, SaveChildKeeps, SaveStrategyKeeps DEF RunStep, AsideStep
<1>6. CASE ServiceEnds \/ ServiceStarts
  BY <1>6, ServiceIsNoNews, NoNewsKeeps
<1>7. CASE UNCHANGED vars
  <2>1. UNCHANGED <<jobs, runs, requests, strategy, children, overlapped>>
    BY <1>7 DEF vars
  <2>2. NoNews
    BY <2>1 DEF NoNews, ResearchInv, TypeOK, JobsOK, Created
  <2> QED
    BY <2>2, NoNewsKeeps
<1> QED
  BY <1>1, <1>2, <1>3, <1>4, <1>5, <1>6, <1>7 DEF Next

(* Whoever has read a strategy writes back evidence its searches have      *)
(* earned, and one search at a time leaves one strategy on paper: the      *)
(* inductive invariant of jobs, searches and governance.                   *)
THEOREM ResearchInvariant == Spec => []ResearchInv
<1> QED
  BY InitHolds, NextKeeps, PTL DEF Spec

(* A promoted strategy was found eligible on enough distinct independent   *)
(* and locked sessions, for any sessions, thresholds, searches, crashes    *)
(* and governance in between (evaluate_promotion, promote_strategy).       *)
THEOREM PromotionIsEarned == Spec => []PromotedOnEvidence
<1>1. ResearchInv => PromotedOnEvidence
  BY DEF ResearchInv, EvidenceInv, PromotedOnEvidence, Enough, Searched
<1> QED
  BY <1>1, ResearchInvariant, PTL

(* Searches that write one after the other leave at most one strategy      *)
(* active on paper, whatever crashes and governance do in between          *)
(* (_run_strategy_search_job).                                             *)
THEOREM OneStrategyOnPaper == Spec => []OnePaperActive
<1>1. ResearchInv => OnePaperActive
  <2> SUFFICES ASSUME ResearchInv, ~overlapped PROVE Cardinality(OnPaper) <= 1
    BY DEF OnePaperActive, OnPaper
  <2>1. CASE OnPaper = {}
    BY <2>1, FS_EmptySet
  <2>2. CASE OnPaper # {}
    <3>1. PICK s : OnPaper = {s}
      BY <2>2 DEF ResearchInv, PaperInv
    <3> QED
      BY <3>1, FS_Singleton
  <2> QED
    BY <2>1, <2>2
<1> QED
  BY <1>1, ResearchInvariant, PTL
=============================================================================
