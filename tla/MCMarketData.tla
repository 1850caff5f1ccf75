----------------------------- MODULE MCMarketData ----------------------------
(***************************************************************************)
(* What reads the order book.  A feed delivers any events of a set to a    *)
(* book on its own; a verification run reads short MBO files with every    *)
(* reference the vendor may have delivered for them; and a daily session   *)
(* scans and replays short files, the backtester also with intents of any  *)
(* other source.  Each has initial states of its own, and the variables of *)
(* the others rest.                                                        *)
(***************************************************************************)
EXTENDS BookVerification, DailySession

CONSTANTS
  TailLength,     \* events of a verified file behind the snapshot and a first natural event
  SessionLength   \* events of a session behind the snapshot

Event(a, s, p, z, i, fl, q) ==
  [action |-> a, side |-> s, price |-> p, size |-> z, id |-> i, flags |-> fl,
   seq |-> q, ts |-> q, channel |-> 1, instrument |-> 1]
Closing == {"LAST"}

MCEvents ==
  {Event("A", s, p, z, i, Closing, 1) : s \in Sides, p \in {1, 2}, z \in {1, 2}, i \in {1, 2}}
  \cup {Event("A", "B", p, 1, i, {"SNAPSHOT"} \cup fl, 1) :
          p \in {1, 2}, i \in {1, 2}, fl \in {{}, Closing}}
  \cup {Event("A", s, p, 1, 1, {"TOB", "LAST"}, 1) : s \in Sides, p \in {2, 9}}
  \cup {Event("M", s, p, z, i, Closing, 1) : s \in Sides, p \in {1, 2}, z \in {1, 2}, i \in {1, 2}}
  \cup {Event("C", "N", 9, z, i, {}, 2) : z \in {0, 1, 2}, i \in {1, 2}}
  \cup {Event("R", "N", 9, 0, 1, fl, 1) : fl \in {{"SNAPSHOT"}, Closing}}
  \cup {Event("T", "A", 1, 1, 1, Closing, q) : q \in {0, 1, 3}}
  \cup {Event("M", "N", 1, 1, 1, Closing, 1), Event("A", "A", 9, 1, 2, Closing, 1),
        [Event("A", "A", 1, 1, 2, Closing, 2) EXCEPT !.instrument = 2]}

\* A file: the snapshot with a bid, a natural event, and a tail.
Opening == <<Event("R", "N", 9, 0, 1, {"SNAPSHOT"}, 1),
             Event("A", "B", 1, 2, 1, {"SNAPSHOT", "LAST"}, 1),
             Event("T", "B", 1, 1, 1, Closing, 2)>>

TailEvents(q) ==
  {Event("A", "B", 2, 1, 2, Closing, q), Event("A", "A", 3, 1, 2, Closing, q),
   Event("M", "B", 1, 1, 1, Closing, q), Event("C", "N", 9, 1, 1, {}, q),
   Event("T", "A", 1, 1, 1, Closing, q), Event("C", "N", 9, 1, 2, Closing, 2)}

MCMboFiles ==
  {Opening \o f : f \in {g \in [1 .. TailLength -> UNION {TailEvents(q) : q \in 3 .. 2 + TailLength}] :
                           \A k \in 1 .. TailLength : g[k] \in TailEvents(k + 2)}}
  \cup {SubSeq(Opening, 1, n) : n \in 1 .. 3}

\* A window behind the first natural event, and one that begins with the snapshot.
MCRequested == {<<3, 5>>, <<1, 3>>}

ASSUME FilesAreFeeds == \A s \in MCMboFiles : OneFeed(s)

\* A session: a bid of two, an ask of one, and events at most a second apart.
SessionOpening == <<Event("R", "N", 9, 0, 1, {"SNAPSHOT"}, 1),
                    Event("A", "B", 2, 2, 1, {"SNAPSHOT"}, 1),
                    Event("A", "A", 3, 1, 2, {"SNAPSHOT", "LAST"}, 1)>>

SessionEvents ==
  {Event("T", "A", p, 1, 1, Closing, 0) : p \in {2, 4}}
  \cup {Event("C", "A", 3, 1, 2, Closing, 0), Event("M", "A", 4, 1, 2, Closing, 0),
        Event("M", "B", 3, 2, 1, Closing, 0), Event("C", "B", 2, 1, 1, Closing, 0),
        Event("F", "B", 2, 1, 1, {}, 0)}

\* The last event may come after the end of the day.  Sequence numbers follow the
\* time, but for files with trades of one moment out of sequence; in the last ones
\* the time runs back.
SessionTimes == {t \in [1 .. SessionLength -> 1 .. SessionLength + 2] :
                   /\ t[1] = 1
                   /\ \A k \in 2 .. SessionLength :
                        t[k] - t[k - 1] \in {0, 1} \cup {3 : n \in {SessionLength} \cap {k}}}

MCSessionFiles ==
  {SessionOpening \o [k \in 1 .. SessionLength |-> [f[k] EXCEPT !.seq = t[k], !.ts = t[k]]] :
     f \in [1 .. SessionLength -> SessionEvents], t \in SessionTimes}
  \cup {SessionOpening \o <<[Event("T", "A", 2, 1, 1, Closing, 2) EXCEPT !.instrument = 2]>>}
  \cup {SessionOpening \o [k \in 1 .. 4 |-> [Event("T", "A", p[k], 1, 1, Closing, q[k])
                                                EXCEPT !.ts = IF k = 1 THEN 1 ELSE 3]] :
           p \in [1 .. 4 -> {2, 4}], q \in {<<2, 5, 4, 3>>, <<2, 4, 5, 3>>}}
  \cup {SessionOpening \o [k \in 1 .. 4 |-> [Event("T", "A", p[k], 1, 1, Closing, k + 1)
                                                EXCEPT !.ts = <<1, 3, 4, 2>>[k]]] :
           p \in [1 .. 4 -> {2, 4}]}

MCSpecOf == [g \in Groups |-> [stop |-> 1, target |-> 1, cooldown |-> 1, timeStop |-> 1,
                               minimumLiquidity |-> 1]]
MCSignals == {[g \in Groups |-> IF g = 1 THEN "long" ELSE s] : s \in {"none", "short"}}
             \cup {[g \in Groups |-> "none"]}

\* Intents of other sources: decisions close to one another, one of them short-lived.
Intent(i, t, d, until) ==
  [id |-> i, decision |-> t, direction |-> d, stop |-> 1, target |-> 1,
   validUntil |-> until, timeStop |-> 2, contracts |-> 2]
OtherIntents == [g \in Groups |->
  IF g = 1 THEN <<Intent(1, 1, "long", 9), Intent(2, 1, "short", 9), Intent(3, 2, "long", 3)>>
  ELSE <<Intent(1, 2, "short", 2)>>]

NoSession == /\ stage = "done" /\ at = 0 /\ dayFile = <<>> /\ tape = <<>>
             /\ candidates = [g \in Groups |-> NewRuntime] /\ lastBucket = -1 /\ lastPrice = 0
             /\ sim = EmptySim /\ intents = [g \in Groups |-> <<>>]
             /\ alone = Started(intents) /\ grouped = [runs |-> alone, waitingGroups |-> {}]

NoVerification == /\ window = <<0, 0>> /\ pos = 0 /\ mboFile = <<>> /\ mbpFile = <<>>
                  /\ refs = {} /\ started = FALSE /\ result = NoResult

GateOnly == /\ stage = "gate" /\ at = 0 /\ dayFile \in MCSessionFiles /\ tape = Normalized(dayFile)
            /\ candidates = [g \in Groups |-> NewRuntime] /\ lastBucket = -1 /\ lastPrice = 0
            /\ sim = EmptySim /\ intents = OtherIntents
            /\ alone = Started(intents) /\ grouped = [runs |-> alone, waitingGroups |-> {}]

MCInit ==
  \/ BookInit /\ phase = "feed" /\ NoVerification /\ NoSession
  \/ VerifyInit /\ NoSession
  \/ SessionInit /\ phase = "idle" /\ NoVerification
  \/ GateOnly /\ BookInit /\ phase = "idle" /\ NoVerification

everySessionVar == <<backtestVars, sessionVars>>

Feed == phase = "feed" /\ BookNext /\ UNCHANGED <<verifyVars, everySessionVar>>
Verify == VerifyNext /\ UNCHANGED everySessionVar
Session == SessionNext /\ UNCHANGED verifyVars

MCNext == Feed \/ Verify \/ Session

MCSpec == MCInit /\ [][MCNext]_<<vars, everySessionVar>>
=============================================================================
