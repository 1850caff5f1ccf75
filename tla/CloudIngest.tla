----------------------------- MODULE CloudIngest -----------------------------
(***************************************************************************)
(* The cloud worker's ingest of one Databento batch job (cloud_worker/     *)
(* ingest.py, with the client of databento_api.py): each file is streamed  *)
(* into an S3 multipart upload that resumes where the last complete part   *)
(* ended, checked against the listed size and digest, and looked up again; *)
(* the manifest comes last.                                                *)
(*                                                                         *)
(* Several tasks may be started for one job, and each may stop between any *)
(* two calls.  A call may fail with or without its effect.  A file is      *)
(* measured in blocks; of its bytes only matters whether they are the ones *)
(* Databento listed, which is what SHA-256 tells.                          *)
(***************************************************************************)
EXTENDS Integers, FiniteSets

CONSTANTS
  Workers,      \* tasks that may run at once for the job
  FileCount,    \* files are processed in the order of their names, 1..FileCount
  Size,         \* blocks of each file
  PartBlocks,   \* multipart_part_bytes
  MaxRetries,   \* http_max_retries
  Foreign       \* files whose key may already hold another object

Files == 1..FileCount

ASSUME IngestAssumption ==
  /\ FileCount \in Nat \ {0}
  /\ Size \in [Files -> Nat \ {0}]
  /\ PartBlocks \in Nat \ {0}
  /\ MaxRetries \in Nat
  /\ Foreign \subseteq Files

VARIABLES
  objects,      \* per file: what its key holds
  written,      \* per file: ghost, how often an upload was completed
  manifest,     \* the manifest: << >> or <<the set of files it calls reused>>
  stage,        \* per worker: the call it makes next, or how its run ended
  cursor,       \* per worker: the file it is at
  reused,       \* per worker: files it found in place
  open,         \* per worker: S3 holds the multipart upload the worker knows of
  committed,    \* per worker: blocks in uploaded parts
  buffered,     \* per worker: blocks received since
  position,     \* per worker: the block of the file the response sends next
  intact,       \* per worker: the parts hold the right bytes so far ...
  clean,        \* ... and the buffer too
  start,        \* per worker: attempt_start
  retries       \* per worker

streamVars == <<committed, buffered, position, intact, clean, start, retries>>
bucketVars == <<objects, written, manifest>>
vars == <<bucketVars, stage, cursor, reused, open, streamVars>>

Contents == {"absent", "exact", "damaged", "foreign"}
Ours == {"exact", "damaged"}     \* size and metadata are those of the listing
Ended == {"idle", "done", "failed", "uncleaned"}
Uploading == {"connect", "reading", "check", "complete", "abort"}
Stages == Ended \cup Uploading \cup {"head", "create", "verify", "publish", "recheck"}

BucketTypes ==
  /\ objects \in [Files -> Contents]
  /\ written \in [Files -> Nat]
  /\ manifest = << >> \/ \E some \in SUBSET Files : manifest = <<some>>

RunTypes ==
  /\ stage \in [Workers -> Stages]
  /\ cursor \in [Workers -> Files]
  /\ reused \in [Workers -> SUBSET Files]
  /\ open \in [Workers -> BOOLEAN]

StreamTypes ==
  /\ committed \in [Workers -> Nat]
  /\ buffered \in [Workers -> 0..PartBlocks]
  /\ position \in [Workers -> Nat]
  /\ intact \in [Workers -> BOOLEAN] /\ clean \in [Workers -> BOOLEAN]
  /\ start \in [Workers -> Nat]
  /\ retries \in [Workers -> 0..MaxRetries]

WithinFile == \A w \in Workers :
  start[w] <= committed[w] /\ committed[w] + buffered[w] <= Size[cursor[w]]

TypeOK == BucketTypes /\ RunTypes /\ StreamTypes /\ WithinFile

Init ==
  /\ \E taken \in SUBSET Foreign :
       objects = [f \in Files |-> IF f \in taken THEN "foreign" ELSE "absent"]
  /\ written = [f \in Files |-> 0] /\ manifest = << >>
  /\ stage = [w \in Workers |-> "idle"] /\ cursor = [w \in Workers |-> 1]
  /\ reused = [w \in Workers |-> {}] /\ open = [w \in Workers |-> FALSE]
  /\ committed = [w \in Workers |-> 0] /\ buffered = [w \in Workers |-> 0]
  /\ position = [w \in Workers |-> 0]
  /\ intact = [w \in Workers |-> TRUE] /\ clean = [w \in Workers |-> TRUE]
  /\ start = [w \in Workers |-> 0] /\ retries = [w \in Workers |-> 0]
-----------------------------------------------------------------------------
Goto(w, s) == stage' = [stage EXCEPT ![w] = s]

\* A new file, or none: the locals of _stream_file_to_s3 start afresh.
FreshStream(w) ==
  /\ committed' = [committed EXCEPT ![w] = 0] /\ buffered' = [buffered EXCEPT ![w] = 0]
  /\ position' = [position EXCEPT ![w] = 0]
  /\ intact' = [intact EXCEPT ![w] = TRUE] /\ clean' = [clean EXCEPT ![w] = TRUE]
  /\ start' = [start EXCEPT ![w] = 0] /\ retries' = [retries EXCEPT ![w] = 0]

\* run_ingest after plan_ingest; a plan that fails changes nothing.
Begin(w) ==
  /\ stage[w] \in Ended
  /\ Goto(w, "head")
  /\ cursor' = [cursor EXCEPT ![w] = 1] /\ reused' = [reused EXCEPT ![w] = {}]
  /\ open' = [open EXCEPT ![w] = FALSE]
  /\ FreshStream(w)
  /\ UNCHANGED bucketVars

\* The file is in place: on to the next one, at last to the manifest.
NextFile(w) ==
  IF cursor[w] = FileCount
    THEN Goto(w, "publish") /\ UNCHANGED cursor
    ELSE Goto(w, "head") /\ cursor' = [cursor EXCEPT ![w] = @ + 1]

Fails(w) == Goto(w, "failed") /\ UNCHANGED cursor
-----------------------------------------------------------------------------
(***************************************************************************)
(* _stream_file_to_s3.                                                     *)
(***************************************************************************)
ReuseByName(w) ==   \* mutant: whatever has the key is taken for the file
  LET f == cursor[w] IN
  /\ stage[w] = "head"
  /\ \/ objects[f] = "absent" /\ Goto(w, "create") /\ UNCHANGED <<cursor, reused>>
     \/ objects[f] # "absent" /\ NextFile(w) /\ reused' = [reused EXCEPT ![w] = @ \cup {f}]
     \/ Fails(w) /\ UNCHANGED reused
  /\ UNCHANGED <<bucketVars, open, streamVars>>

NeverReuse(w) ==   \* mutant: an object of the job itself is uploaded again
  LET f == cursor[w] IN
  /\ stage[w] = "head"
  /\ \/ objects[f] # "foreign" /\ Goto(w, "create") /\ UNCHANGED cursor
     \/ Fails(w)
  /\ UNCHANGED <<bucketVars, reused, open, streamVars>>

\* Reused when size, digest and job agree; another object, like a lookup that
\* fails, ends the run.
LookUp(w) ==
  LET f == cursor[w] IN
  /\ stage[w] = "head"
  /\ \/ objects[f] = "absent" /\ Goto(w, "create") /\ UNCHANGED <<cursor, reused>>
     \/ objects[f] \in Ours /\ NextFile(w) /\ reused' = [reused EXCEPT ![w] = @ \cup {f}]
     \/ Fails(w) /\ UNCHANGED reused
  /\ UNCHANGED <<bucketVars, open, streamVars>>

\* When the call fails S3 may hold an upload, but the worker has no id of it.
CreateUpload(w) ==
  /\ stage[w] = "create"
  /\ \/ Goto(w, "connect") /\ open' = [open EXCEPT ![w] = TRUE]
     \/ Goto(w, "failed") /\ UNCHANGED open
  /\ UNCHANGED <<bucketVars, cursor, reused, streamVars>>

\* The head of the loop: done, or one more request for the rest of the file.
\* Anything but the bytes asked for (a resume that is not honoured, a refusal)
\* is not retried.
Connect(w) ==
  /\ stage[w] = "connect"
  /\ IF committed[w] = Size[cursor[w]]
       THEN /\ Goto(w, "check")
            /\ UNCHANGED <<position, start>>
       ELSE /\ start' = [start EXCEPT ![w] = committed[w]]
            /\ \/ Goto(w, "reading") /\ position' = [position EXCEPT ![w] = committed[w]]
               \/ Goto(w, "abort") /\ UNCHANGED position
  /\ UNCHANGED <<bucketVars, cursor, reused, open, committed, buffered, intact, clean, retries>>

ReceiveAnyLength(w) ==   \* mutant: no comparison with the declared size
  /\ stage[w] = "reading" /\ buffered[w] < PartBlocks
  /\ buffered' = [buffered EXCEPT ![w] = @ + 1] /\ position' = [position EXCEPT ![w] = @ + 1]
  /\ \E damaged \in BOOLEAN :
       clean' = [clean EXCEPT ![w] = @ /\ ~damaged /\ position[w] = committed[w] + buffered[w]]
  /\ UNCHANGED <<bucketVars, stage, cursor, reused, open, committed, intact, start, retries>>

\* A block arrives, as listed or not; one too many ends the upload.
Receive(w) ==
  /\ stage[w] = "reading" /\ buffered[w] < PartBlocks
  /\ IF committed[w] + buffered[w] = Size[cursor[w]]
       THEN Goto(w, "abort") /\ UNCHANGED <<buffered, position, clean>>
       ELSE /\ buffered' = [buffered EXCEPT ![w] = @ + 1]
            /\ position' = [position EXCEPT ![w] = @ + 1]
            /\ \E damaged \in BOOLEAN :
                 clean' = [clean EXCEPT ![w] =
                             @ /\ ~damaged /\ position[w] = committed[w] + buffered[w]]
            /\ UNCHANGED stage
  /\ UNCHANGED <<bucketVars, cursor, reused, open, committed, intact, start, retries>>

\* The buffer becomes a part, or S3 refuses it.
UploadPart(w, next) ==
  \/ /\ committed' = [committed EXCEPT ![w] = @ + buffered[w]]
     /\ buffered' = [buffered EXCEPT ![w] = 0]
     /\ intact' = [intact EXCEPT ![w] = @ /\ clean[w]] /\ clean' = [clean EXCEPT ![w] = TRUE]
     /\ Goto(w, next)
  \/ Goto(w, "abort") /\ UNCHANGED <<committed, buffered, intact, clean>>

UploadFullPart(w) ==
  /\ stage[w] = "reading" /\ buffered[w] = PartBlocks
  /\ UploadPart(w, "reading")
  /\ UNCHANGED <<bucketVars, cursor, reused, open, position, start, retries>>

\* The response ends at the declared size; the rest becomes the last part.
EndOfFile(w) ==
  /\ stage[w] = "reading" /\ buffered[w] < PartBlocks
  /\ committed[w] + buffered[w] = Size[cursor[w]]
  /\ \/ /\ buffered[w] > 0 /\ UploadPart(w, "check")
     \/ /\ buffered[w] = 0 /\ Goto(w, "check")
        /\ UNCHANGED <<committed, buffered, intact, clean>>
  /\ retries' = [retries EXCEPT ![w] = IF stage'[w] = "check" THEN 0 ELSE @]
  /\ UNCHANGED <<bucketVars, cursor, reused, open, position, start>>

\* What the except clause of the loop counts: attempts without a new part.
ForgetsRetries(w) == 0   \* mutant: any response resets the count

RetriesAfter(w) == IF committed[w] > start[w] THEN 0 ELSE retries[w] + 1

KeepsBuffer(w) == UNCHANGED <<buffered, clean>>   \* mutant: what was received is kept

DropsBuffer(w) == buffered' = [buffered EXCEPT ![w] = 0] /\ clean' = [clean EXCEPT ![w] = TRUE]

\* The connection cannot be made, breaks, or closes early (the last two look
\* alike): what is not in a part yet is requested again.
Retry(w) ==
  /\ \/ stage[w] = "connect" /\ committed[w] # Size[cursor[w]]
        /\ start' = [start EXCEPT ![w] = committed[w]]
     \/ stage[w] = "reading" /\ buffered[w] < PartBlocks /\ UNCHANGED start
  /\ IF retries[w] >= MaxRetries
       THEN Goto(w, "abort") /\ UNCHANGED retries
       ELSE /\ Goto(w, "connect")
            /\ retries' = [retries EXCEPT ![w] =
                             IF stage[w] = "connect" THEN @ + 1 ELSE RetriesAfter(w)]
  /\ DropsBuffer(w)
  /\ UNCHANGED <<bucketVars, cursor, reused, open, committed, position, intact>>

ChecksSize(w) ==   \* mutant: the digest is not compared
  /\ stage[w] = "check"
  /\ Goto(w, IF committed[w] = Size[cursor[w]] THEN "complete" ELSE "abort")
  /\ UNCHANGED <<bucketVars, cursor, reused, open, streamVars>>

Check(w) ==
  /\ stage[w] = "check"
  /\ Goto(w, IF committed[w] = Size[cursor[w]] /\ intact[w] THEN "complete" ELSE "abort")
  /\ UNCHANGED <<bucketVars, cursor, reused, open, streamVars>>

\* The object replaces whatever the key holds by now.  The reply may be lost:
\* the object is there, the upload is not, and the worker aborts.
CompleteUpload(w) ==
  LET f == cursor[w] IN
  /\ stage[w] = "complete"
  /\ \/ /\ objects' = [objects EXCEPT ![f] = IF intact[w] THEN "exact" ELSE "damaged"]
        /\ written' = [written EXCEPT ![f] = @ + 1]
        /\ open' = [open EXCEPT ![w] = FALSE]
        /\ Goto(w, "verify") \/ Goto(w, "abort")
     \/ Goto(w, "abort") /\ UNCHANGED <<objects, written, open>>
  /\ UNCHANGED <<manifest, cursor, reused, streamVars>>

AbortQuietly(w) ==   \* mutant: a failing cleanup is not told from a failing run
  /\ stage[w] = "abort"
  /\ Goto(w, "failed")
  /\ open' \in {[open EXCEPT ![w] = FALSE], open}
  /\ UNCHANGED <<bucketVars, cursor, reused, streamVars>>

\* A cleanup that fails, be it that the upload is gone, is an error of its own.
AbortUpload(w) ==
  /\ stage[w] = "abort"
  /\ \/ open[w] /\ Goto(w, "failed") /\ open' = [open EXCEPT ![w] = FALSE]
     \/ Goto(w, "uncleaned") /\ open' \in {[open EXCEPT ![w] = FALSE], open}
  /\ UNCHANGED <<bucketVars, cursor, reused, streamVars>>

VerifyUpload(w) ==
  /\ stage[w] = "verify"
  /\ \/ objects[cursor[w]] \in Ours /\ NextFile(w)
     \/ Fails(w)
  /\ FreshStream(w)
  /\ UNCHANGED <<bucketVars, reused, open>>
-----------------------------------------------------------------------------
(***************************************************************************)
(* The end of run_ingest.                                                  *)
(***************************************************************************)
PutManifest(w) ==
  /\ stage[w] = "publish"
  /\ \/ manifest' = <<reused[w]>> /\ (Goto(w, "recheck") \/ Goto(w, "failed"))
     \/ UNCHANGED manifest /\ Goto(w, "failed")
  /\ UNCHANGED <<objects, written, cursor, reused, open, streamVars>>

\* The size of the manifest that is there now.  Another worker's has the same
\* size when it calls as many files reused ("true" is shorter than "false");
\* the fingerprint argument and fractions of a second are left out.
VerifyManifest(w) ==
  /\ stage[w] = "recheck"
  /\ \/ /\ \E some \in SUBSET Files :
             manifest = <<some>> /\ Cardinality(some) = Cardinality(reused[w])
        /\ Goto(w, "done")
     \/ Goto(w, "failed")
  /\ UNCHANGED <<bucketVars, cursor, reused, open, streamVars>>

\* The task is stopped or dies, its upload stays open and nobody knows of it.
Crash(w) ==
  /\ stage[w] \notin Ended
  /\ Goto(w, "idle")
  /\ UNCHANGED <<bucketVars, cursor, reused, open, streamVars>>
-----------------------------------------------------------------------------
FileStep(w) ==
  \/ LookUp(w) \/ CreateUpload(w)
  \/ Connect(w) \/ Receive(w) \/ UploadFullPart(w) \/ EndOfFile(w) \/ Retry(w)
  \/ Check(w) \/ CompleteUpload(w) \/ AbortUpload(w) \/ VerifyUpload(w)

RunStep(w) == FileStep(w) \/ PutManifest(w) \/ VerifyManifest(w)

Next == \E w \in Workers : Begin(w) \/ RunStep(w) \/ Crash(w)

\* A task runs on: every call to S3 and Databento returns or times out.
Fairness == \A w \in Workers : WF_vars(RunStep(w))

Spec == Init /\ [][Next]_vars /\ Fairness
-----------------------------------------------------------------------------
(***************************************************************************)
(* Properties                                                              *)
(***************************************************************************)
Contract == INSTANCE IngestContract WITH
  stored    <- {f \in Files : objects[f] = "exact"},
  published <- manifest # << >>

\* However many tasks of a job run, fail and are restarted, the manifest the
\* later stages trust appears only when every key holds the listed bytes, and
\* nothing stored is ever lost or replaced by something else.
KeepsContract == Contract!ContractSpec

\* README: a job that crashes can be restarted without processing a file
\* twice.  Each file is stored at most once per task that runs at the same
\* time, whatever the number of restarts; by one task, once.
NotStoredAgain == \A f \in Files : written[f] <= Cardinality(Workers)

\* A response continues exactly where the parts and the buffer end, also after
\* any number of broken connections: no byte is skipped or received twice.
StreamIsAligned ==
  \A w \in Workers : stage[w] = "reading" => position[w] = committed[w] + buffered[w]

\* A run that ended with an ordinary error left no upload open whose parts
\* cost money; when the cleanup failed the error says so.
NoSilentLeftover == \A w \in Workers : stage[w] = "failed" => ~open[w]

\* The retries of one run are bounded although progress resets their count:
\* each run ends, whatever Databento and S3 answer.
EveryRunEnds == \A w \in Workers : stage[w] \notin Ended ~> stage[w] \in Ended
=============================================================================
