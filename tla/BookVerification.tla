--------------------------- MODULE BookVerification ---------------------------
(***************************************************************************)
(* The MBP-10 verification of verify_book.py and verification_context.py:  *)
(* one run inspects the MBO file for a finished snapshot and the natural   *)
(* group behind it, resolves the window, and then merges the states of the *)
(* rebuilt book at the ends of event groups with the reference states, by  *)
(* key.  Both files are there before the run begins.                       *)
(*                                                                         *)
(* A reference file is what the vendor delivers for the window: a state    *)
(* per event group that changed the top of the book, some of them missing  *)
(* or wrong, and records that carry no finished state.  One publisher; the *)
(* report of the first mismatch is left out.                               *)
(***************************************************************************)
EXTENDS OrderBook

CONSTANTS
  MboFiles,       \* MBO files, sequences of events
  TopDepth,       \* number of levels compared, 10 in the code
  WindowLength,   \* TWO_SECONDS_NS
  Requested,      \* --start and --end of the runs that give them
  FileEnd         \* end of the requested range of a file

ASSUME VerificationAssumption ==
  /\ TopDepth \in Nat \ {0} /\ WindowLength \in Nat /\ FileEnd \in Nat
  /\ Requested \subseteq Int \X Int
  /\ \A s \in MboFiles :
       /\ Len(s) \in Nat
       /\ \A n \in 1 .. Len(s) : /\ IsEvent(s[n]) /\ s[n].ts \in Nat
                                 /\ s[n].instrument \in Nat \ {NoInstrument}

VARIABLES
  phase,          \* inspect, verify, done or blocked
  mboFile,        \* the file of this run, and the reference delivered for it
  mbpFile,
  window,         \* start_ns and end_ns
  pos,            \* events read by verify_streams
  refs,           \* places of reference states not consumed yet, the first is `expected`
  started,        \* comparison_started
  result          \* VerificationResult

verifyVars == <<phase, mboFile, mbpFile, window, pos, refs, started, result>>
vars == <<book, verifyVars>>

NoResult == [compared |-> 0, mismatches |-> 0, beforeReady |-> 0, unmatched |-> 0,
             withoutReference |-> 0, warnings |-> 0]

Passed(r) == /\ r.compared > 0 /\ r.mismatches = 0
             /\ r.unmatched = 0 /\ r.warnings = 0

-----------------------------------------------------------------------------
(* Keys and states.                                                        *)

Key(e) == <<e.instrument, e.seq, e.ts>>

\* The order of tuples.
KeyLess(k, l) ==
  \E i \in 1 .. 3 : k[i] < l[i] /\ \A j \in 1 .. i - 1 : k[j] = l[j]

EmptyLevel == [price |-> UndefPrice, count |-> 0, total |-> 0]
Pad(levels) == [k \in 1 .. TopDepth |-> IF k <= Len(levels) THEN levels[k] ELSE EmptyLevel]
TopOf(b) == [s \in Sides |-> Pad(Snapshot(b, TopDepth)[s])]

\* spread: none when a best price is missing.
Spread(top) ==
  IF UndefPrice \in {top["B"][1].price, top["A"][1].price} THEN <<>>
  ELSE <<top["A"][1].price - top["B"][1].price>>

\* compare_states: the metrics on which two states differ.
Mismatches(expected, actual) ==
  LET differs(field) == \E s \in Sides : \E k \in 1 .. TopDepth :
                          expected[s][k][field] # actual[s][k][field]
  IN  {m \in {"bbo"} : \E s \in Sides : expected[s][1] # actual[s][1]}
      \cup {m \in {"spread"} : Spread(expected) # Spread(actual)}
      \cup {m \in {"top10Prices"} : differs("price")}
      \cup {m \in {"top10Sizes"} : differs("total")}
      \cup {m \in {"top10OrderCounts"} : differs("count")}

\* iter_mbp10_states: records of a snapshot or inside a group carry no state.
Usable(record) == "LAST" \in record.flags /\ "SNAPSHOT" \notin record.flags

\* The places in a file at which it yields a state.
States(file) == {i \in DOMAIN file : Usable(file[i])}

-----------------------------------------------------------------------------
(* The contents of the files, independently of the verification.           *)

\* The positions in s at which an event group of a ready, natural book ends.
GroupEnds(s) ==
  {n \in 1 .. Len(s) : /\ Completes(BookAfter(s, n - 1), s[n])
                       /\ BookAfter(s, n).status = "POST_SNAPSHOT"}

StateAt(s, n) == [key |-> Key(s[n]), top |-> TopOf(BookAfter(s, n)),
                  flags |-> {"LAST"}]

\* What the vendor may deliver for one group end: nothing, a record inside the
\* group, its state, the state before it, or its state behind one of a key that no
\* group of the MBO file has.
Deliveries == {"missing", "unfinished", "exact", "stale", "stray"}

\* The file with what is given for each group end: the state of the n-th event is
\* in place 2 n, a stray one in the place before.
Reference(s, given) ==
  LET places == {2 * n : n \in {m \in DOMAIN given : given[m] # "missing"}}
                \cup {2 * n - 1 : n \in {m \in DOMAIN given : given[m] = "stray"}}
      group(i) == (i + 1) \div 2
      state(i) == StateAt(s, group(i))
  IN  [i \in places |->
         CASE i = 2 * group(i) - 1            -> [state(i) EXCEPT !.key[3] = @ - 1]
           [] given[group(i)] = "unfinished"  -> [state(i) EXCEPT !.flags = {}]
           [] given[group(i)] = "stale"       ->
                [state(i) EXCEPT !.top = TopOf(BookAfter(s, group(i) - 1))]
           [] OTHER                           -> state(i)]

MbpFiles(s) == {Reference(s, given) : given \in [GroupEnds(s) -> Deliveries]}

-----------------------------------------------------------------------------
VerifyInit ==
  /\ book = EmptyBook
  /\ phase = "inspect" /\ window = <<0, 0>> /\ pos = 0
  /\ \E s \in MboFiles : mboFile = s /\ mbpFile \in MbpFiles(s)
  /\ refs = {} /\ started = FALSE /\ result = NoResult

\* The first position in a set, zero when it is empty.
First(S) == IF S = {} THEN 0 ELSE Min(S)

\* inspect_mbo_verification_context: the group that finishes the snapshot, and the
\* first natural group after it.
ReadyAt(s) == First({n \in 1 .. Len(s) : /\ Completes(BookAfter(s, n - 1), s[n])
                                         /\ "SNAPSHOT" \in s[n].flags
                                         /\ BookAfter(s, n).status = "SNAPSHOT_READY"})
NaturalAt(s) == First({n \in GroupEnds(s) : n > ReadyAt(s) /\ "SNAPSHOT" \notin s[n].flags})

\* resolve_verification_window: without a request the window begins with the natural
\* group.
DefaultWindow(start) == <<start, Min({start + WindowLength, FileEnd})>>

Allowed(w, ready, natural) ==
  /\ mboFile[ready].ts <= w[1] /\ mboFile[natural].ts <= w[1]
  /\ w[1] < w[2] /\ w[2] - w[1] <= WindowLength /\ w[2] <= FileEnd

Inspect ==
  LET ready == ReadyAt(mboFile)
      natural == NaturalAt(mboFile)
      sound == /\ ready # 0 /\ natural # 0
               /\ Cardinality({mboFile[n].instrument : n \in 1 .. natural}) = 1
  IN  /\ phase = "inspect"
      /\ \/ ~sound /\ phase' = "blocked" /\ UNCHANGED <<window, refs>>
         \/ /\ sound
            /\ \E w \in Requested \cup {DefaultWindow(mboFile[natural].ts)} :
                 IF Allowed(w, ready, natural)
                 THEN phase' = "verify" /\ window' = w /\ refs' = States(mbpFile)
                 ELSE phase' = "blocked" /\ UNCHANGED <<window, refs>>
      /\ UNCHANGED <<book, mboFile, mbpFile, pos, started, result>>

EarlierOrSame(rs, e) ==   \* mutant: skips the state it should compare
  {i \in rs : \A j \in rs : j <= i => ~KeyLess(Key(e), mbpFile[j].key)}

\* The next reference states, as long as their key comes before an event's key.
Earlier(rs, e) == {i \in rs : \A j \in rs : j <= i => KeyLess(mbpFile[j].key, Key(e))}

SkipBefore(r, n) == [r EXCEPT !.beforeReady = @ + n]   \* mutant: never counted as unmatched

\* They are counted apart until the first comparison.
SkipEarlier(r, n) == IF started THEN [r EXCEPT !.unmatched = @ + n]
                     ELSE [r EXCEPT !.beforeReady = @ + n]

\* The body of verify_streams for the end of a group inside the window.
Compare(b, e) ==
  LET earlier == Earlier(refs, e)
      rest == refs \ earlier
      expected == mbpFile[Min(rest)]
      skipped == SkipEarlier(result, Cardinality(earlier))
      missing == rest = {} \/ KeyLess(Key(e), expected.key)
      differs == Mismatches(expected.top, TopOf(b)) # {}
  IN  /\ started' = TRUE
      /\ IF missing
         THEN /\ refs' = rest
              /\ result' = [skipped EXCEPT !.withoutReference = @ + 1]
         ELSE /\ refs' = rest \ {Min(rest)}
              /\ result' = [skipped EXCEPT !.compared = @ + 1,
                              !.mismatches = IF differs THEN @ + 1 ELSE @]

Counted(b, e) ==
  Completes(book, e) /\ b.status = "POST_SNAPSHOT" /\ e.ts >= window[1]

\* What follows the loop: the references that are left, and the book's warnings.
Conclude(b, r, rest) ==
  /\ phase' = "done"
  /\ refs' = IF started THEN {} ELSE rest
  /\ result' = [r EXCEPT !.unmatched = IF started THEN @ + Cardinality(rest) ELSE @,
                         !.warnings = b.warnings]

ReadEvent ==
  /\ phase = "verify" /\ pos < Len(mboFile)
  /\ LET e == mboFile[pos + 1]
         b == ApplyEvent(book, e)
     IN  /\ book' = b /\ pos' = pos + 1
         /\ IF ~Counted(b, e) THEN UNCHANGED <<phase, refs, started, result>>
            ELSE IF e.ts >= window[2]
            THEN Conclude(b, result, refs) /\ UNCHANGED started
            ELSE Compare(b, e) /\ UNCHANGED phase
  /\ UNCHANGED <<mboFile, mbpFile, window>>

EndOfFile ==
  /\ phase = "verify" /\ pos = Len(mboFile)
  /\ Conclude(book, result, refs)
  /\ UNCHANGED <<book, mboFile, mbpFile, window, pos, started>>

VerifyNext == Inspect \/ ReadEvent \/ EndOfFile

VerifySpec == VerifyInit /\ [][VerifyNext]_vars

-----------------------------------------------------------------------------
\* The event groups that were read and end within the window.
Read == {n \in GroupEnds(mboFile) : n <= pos /\ mboFile[n].ts \in window[1] .. window[2] - 1}

\* A file is the feed of one instrument on one channel: every event is numbered, of
\* events with one number the later is not older, and only groups of a snapshot
\* are flagged as such.
OneFeed(s) ==
  /\ \A m, n \in 1 .. Len(s) :
       /\ s[m].channel = s[n].channel
       /\ m < n /\ s[m].seq = s[n].seq => s[m].ts <= s[n].ts
  /\ \A n \in 1 .. Len(s) : s[n].seq # None
  /\ \A n \in GroupEnds(s) : "SNAPSHOT" \notin s[n].flags

\* How many reference states there are up to one.
Rank(i) == Cardinality({j \in States(mbpFile) : j <= i})

\* A verification that has passed leaves no reference state of the window unchecked:
\* each one from the first compared group on is the state of the book at the end of
\* the event group with its key, every earlier one belongs to none of the groups
\* read within the window, and no integrity warning was met on the way.
PassedMeansEqual ==
  phase = "done" /\ Passed(result) =>
    /\ \A i \in States(mbpFile) :
         IF Rank(i) > result.beforeReady
         THEN \E n \in Read : StateAt(mboFile, n).key = mbpFile[i].key
                              /\ StateAt(mboFile, n).top = mbpFile[i].top
         ELSE \A n \in Read : Key(mboFile[n]) # mbpFile[i].key
    /\ BookAfter(mboFile, pos).warnings = 0

\* The reference holds nothing but states of groups of the window, in the order of
\* their keys; the keys of the groups tell them apart, and their times do not run back.
FaithfulReference ==
  /\ \A i \in States(mbpFile) :
       \E n \in GroupEnds(mboFile) : /\ mboFile[n].ts \in window[1] .. window[2] - 1
                                     /\ StateAt(mboFile, n).key = mbpFile[i].key
                                     /\ StateAt(mboFile, n).top = mbpFile[i].top
  /\ \A i, j \in States(mbpFile) : i < j => KeyLess(mbpFile[i].key, mbpFile[j].key)
  /\ \A m, n \in GroupEnds(mboFile) : m < n => /\ KeyLess(Key(mboFile[m]), Key(mboFile[n]))
                                               /\ mboFile[m].ts <= mboFile[n].ts

\* No false alarm: a faithful reference of which at least one state falls into the
\* window passes, unless the book itself met an integrity warning.
FaithfulReferencePasses ==
  phase = "done" /\ FaithfulReference /\ States(mbpFile) # {}
    => Passed(result) \/ result.warnings > 0

\* Every reference state is counted exactly once, as one before the comparison, as
\* unmatched or as compared, and none is left when the comparison has begun.
EveryReferenceCounted ==
  /\ phase \in {"verify", "done"} =>
       result.beforeReady + result.unmatched + result.compared + Cardinality(refs)
         = Cardinality(States(mbpFile))
  /\ phase = "done" /\ started => refs = {}
=============================================================================
