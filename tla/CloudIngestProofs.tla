-------------------------- MODULE CloudIngestProofs --------------------------
(***************************************************************************)
(* Proofs about CloudIngest for any workers, files, sizes and retries: no  *)
(* bytes but the listed ones are stored, the manifest comes last, and a    *)
(* response always continues where the parts end.                          *)
(***************************************************************************)
EXTENDS CloudIngest, FiniteSetTheorems, TLAPS

\* Nothing is streamed yet when a file is looked up, and a connection is made
\* with an empty buffer.
FreshBuffers == \A w \in Workers :
  /\ stage[w] \in {"head", "create"} => committed[w] = 0 /\ start[w] = 0
  /\ stage[w] \in {"head", "create", "connect"} => buffered[w] = 0

\* A worker past a file has seen it in place; it completes what it checked.
StoredSoFar ==
  /\ \A f \in Files : objects[f] # "damaged"
  /\ \A w \in Workers :
       /\ stage[w] \notin Ended => \A f \in 1..(cursor[w] - 1) : objects[f] = "exact"
       /\ stage[w] \in {"publish", "recheck"} => cursor[w] = FileCount /\ objects[FileCount] = "exact"
       /\ stage[w] = "complete" => intact[w]
  /\ manifest # << >> => \A f \in Files : objects[f] = "exact"

\* S3 holds an upload the worker knows of only while it streams, or when the
\* run was cut short or could not clean up.
OpenWhileUploading == \A w \in Workers : open[w] => stage[w] \in Uploading \cup {"idle", "uncleaned"}

IInv == TypeOK /\ FreshBuffers /\ StoredSoFar /\ OpenWhileUploading /\ StreamIsAligned
-----------------------------------------------------------------------------
LEMMA InitEstablishes == Init => IInv
<1> SUFFICES ASSUME Init PROVE IInv
  OBVIOUS
<1> USE IngestAssumption DEF Init, Files
<1>1. TypeOK
  <2>1. PICK taken \in SUBSET Foreign :
          objects = [f \in Files |-> IF f \in taken THEN "foreign" ELSE "absent"]
    OBVIOUS
  <2>2. objects \in [Files -> Contents]
    BY <2>1 DEF Contents
  <2>3. stage \in [Workers -> Stages]
    BY DEF Stages, Ended
  <2> QED BY <2>2, <2>3 DEF TypeOK, BucketTypes, RunTypes, StreamTypes, WithinFile
<1>2. FreshBuffers /\ OpenWhileUploading /\ StreamIsAligned
  BY DEF FreshBuffers, OpenWhileUploading, StreamIsAligned
<1>3. StoredSoFar
  BY DEF StoredSoFar, Ended
<1> QED BY <1>1, <1>2, <1>3 DEF IInv

\* The cursor stays within the files, however a file ends.
LEMMA CursorStep ==
  ASSUME RunTypes, NEW w \in Workers, NextFile(w) \/ Fails(w)
  PROVE  /\ stage' \in [Workers -> Stages] /\ cursor' \in [Workers -> Files]
         /\ \A v \in Workers : v # w => cursor'[v] = cursor[v]
<1> USE IngestAssumption DEF Goto, RunTypes, Files
<1>1. CASE NextFile(w) /\ cursor[w] = FileCount
  BY <1>1 DEF NextFile, Stages
<1>2. CASE NextFile(w) /\ cursor[w] # FileCount
  <2>1. stage' = [stage EXCEPT ![w] = "head"] /\ cursor' = [cursor EXCEPT ![w] = cursor[w] + 1]
    BY <1>2 DEF NextFile
  <2>2. cursor[w] + 1 \in Files
    BY <1>2
  <2> QED BY <2>1, <2>2 DEF Stages
<1>3. CASE Fails(w)
  BY <1>3 DEF Fails, Stages, Ended
<1> QED BY <1>1, <1>2, <1>3

\* Replacing one worker's Boolean keeps the type.
LEMMA BooleanUpdate ==
  ASSUME NEW g \in [Workers -> BOOLEAN], NEW w \in Workers, NEW b \in BOOLEAN
  PROVE  [g EXCEPT ![w] = b] \in [Workers -> BOOLEAN]
OBVIOUS

\* No call, failure or crash of any worker leaves the types.
LEMMA TypeStep == ASSUME TypeOK, FreshBuffers, [Next]_vars PROVE TypeOK'
<1> USE IngestAssumption DEF TypeOK, Goto, bucketVars, streamVars
<1>1. ASSUME NEW w \in Workers, Begin(w) PROVE TypeOK'
  <2>1. BucketTypes'
    BY <1>1 DEF Begin, FreshStream, BucketTypes
  <2>2. RunTypes'
    BY <1>1 DEF Begin, FreshStream, RunTypes, Stages, Ended, Uploading, Files
  <2>3. StreamTypes'
    BY <1>1 DEF Begin, FreshStream, StreamTypes
  <2>4. WithinFile'
    <3> SUFFICES ASSUME NEW v \in Workers
                 PROVE  (start[v] <= committed[v] /\ committed[v] + buffered[v] <= Size[cursor[v]])'
      BY DEF WithinFile
    <3>1. CASE v = w
      BY <1>1, <3>1 DEF Begin, FreshStream, WithinFile, StreamTypes, RunTypes, Files
    <3>2. CASE v # w
      BY <1>1, <3>2 DEF Begin, FreshStream, WithinFile, StreamTypes, RunTypes, Files
    <3> QED BY <3>1, <3>2
  <2> QED BY <2>1, <2>2, <2>3, <2>4
<1>2. ASSUME NEW w \in Workers, LookUp(w) PROVE TypeOK'
  <2>1. BucketTypes'
    BY <1>2 DEF LookUp, NextFile, Fails, BucketTypes
  <2>2. RunTypes'
    <3>1. CASE objects[cursor[w]] = "absent" /\ Goto(w, "create") /\ UNCHANGED <<cursor, reused>>
      BY <1>2, <3>1 DEF LookUp, RunTypes, Stages
    <3>2. CASE NextFile(w) /\ reused' = [reused EXCEPT ![w] = @ \cup {cursor[w]}]
      BY <1>2, <3>2, CursorStep DEF LookUp, RunTypes
    <3>3. CASE Fails(w) /\ UNCHANGED reused
      BY <1>2, <3>3, CursorStep DEF LookUp, RunTypes
    <3> QED BY <1>2, <3>1, <3>2, <3>3 DEF LookUp
  <2>3. StreamTypes'
    BY <1>2 DEF LookUp, NextFile, Fails, StreamTypes
  <2>4. WithinFile'
    <3> SUFFICES ASSUME NEW v \in Workers
                 PROVE  (start[v] <= committed[v] /\ committed[v] + buffered[v] <= Size[cursor[v]])'
      BY DEF WithinFile
    <3>1. CASE v = w
      <4>1. committed[w] = 0 /\ buffered[w] = 0 /\ start[w] = 0 /\ UNCHANGED streamVars
        BY <1>2 DEF LookUp, FreshBuffers
      <4>2. Size[cursor'[w]] \in Nat
        BY <2>2 DEF RunTypes
      <4> QED BY <3>1, <4>1, <4>2
    <3>2. CASE v # w
      BY <1>2, <3>2 DEF LookUp, NextFile, Fails, WithinFile, StreamTypes, RunTypes, Files
    <3> QED BY <3>1, <3>2
  <2> QED BY <2>1, <2>2, <2>3, <2>4
<1>3. ASSUME NEW w \in Workers, CreateUpload(w) PROVE TypeOK'
  <2>1. BucketTypes'
    BY <1>3 DEF CreateUpload, BucketTypes
  <2>2. RunTypes'
    BY <1>3 DEF CreateUpload, RunTypes, Stages, Ended, Uploading, Files
  <2>3. StreamTypes'
    BY <1>3 DEF CreateUpload, StreamTypes
  <2>4. WithinFile'
    BY <1>3 DEF CreateUpload, WithinFile
  <2> QED BY <2>1, <2>2, <2>3, <2>4
<1>4. ASSUME NEW w \in Workers, Connect(w) PROVE TypeOK'
  <2>1. BucketTypes'
    BY <1>4 DEF Connect, BucketTypes
  <2>2. RunTypes'
    BY <1>4 DEF Connect, RunTypes, Stages, Ended, Uploading, Files
  <2>3. StreamTypes'
    BY <1>4 DEF Connect, StreamTypes
  <2>4. WithinFile'
    <3> SUFFICES ASSUME NEW v \in Workers
                 PROVE  (start[v] <= committed[v] /\ committed[v] + buffered[v] <= Size[cursor[v]])'
      BY DEF WithinFile
    <3>1. CASE v = w
      BY <1>4, <3>1 DEF Connect, WithinFile, StreamTypes, RunTypes, Files
    <3>2. CASE v # w
      BY <1>4, <3>2 DEF Connect, WithinFile, StreamTypes, RunTypes, Files
    <3> QED BY <3>1, <3>2
  <2> QED BY <2>1, <2>2, <2>3, <2>4
<1>5. ASSUME NEW w \in Workers, Receive(w) PROVE TypeOK'
  <2>1. BucketTypes'
    BY <1>5 DEF Receive, BucketTypes
  <2>2. RunTypes'
    BY <1>5 DEF Receive, RunTypes, Stages, Ended, Uploading, Files
  <2>3. StreamTypes'
    <3>1. CASE committed[w] + buffered[w] = Size[cursor[w]]
      BY <1>5, <3>1 DEF Receive, StreamTypes
    <3>2. CASE committed[w] + buffered[w] # Size[cursor[w]]
      <4>1. PICK damaged \in BOOLEAN :
              clean' = [clean EXCEPT ![w] = @ /\ ~damaged /\ position[w] = committed[w] + buffered[w]]
        BY <1>5, <3>2 DEF Receive
      <4>2. clean' \in [Workers -> BOOLEAN]
        <5> DEFINE ok == clean[w] /\ ~damaged /\ position[w] = committed[w] + buffered[w]
        <5>1. ok \in BOOLEAN
          BY Zenon
        <5>2. clean' = [clean EXCEPT ![w] = ok]
          BY <4>1
        <5> HIDE DEF ok
        <5> QED BY <5>1, <5>2, BooleanUpdate DEF StreamTypes
      <4>3. /\ buffered' \in [Workers -> 0..PartBlocks] /\ position' \in [Workers -> Nat]
            /\ UNCHANGED <<committed, intact, start, retries>>
        BY <1>5, <3>2 DEF Receive, StreamTypes
      <4> QED BY <4>2, <4>3 DEF StreamTypes
    <3> QED BY <3>1, <3>2
  <2>4. WithinFile'
    <3> SUFFICES ASSUME NEW v \in Workers
                 PROVE  (start[v] <= committed[v] /\ committed[v] + buffered[v] <= Size[cursor[v]])'
      BY DEF WithinFile
    <3>1. CASE v = w
      <4>1. /\ committed[w] \in Nat /\ buffered[w] \in Nat /\ Size[cursor[w]] \in Nat /\ start[w] \in Nat
            /\ start[w] <= committed[w] /\ committed[w] + buffered[w] <= Size[cursor[w]]
        BY DEF StreamTypes, RunTypes, WithinFile
      <4>2. UNCHANGED <<committed, start, cursor>>
        BY <1>5 DEF Receive
      <4>3. \/ buffered' = buffered
            \/ committed[w] + buffered[w] # Size[cursor[w]] /\ buffered'[w] = buffered[w] + 1
        BY <1>5 DEF Receive, StreamTypes
      <4>4. committed'[w] = committed[w] /\ start'[w] = start[w] /\ Size[cursor'[w]] = Size[cursor[w]]
        BY <4>2
      <4>5. committed[w] + buffered'[w] <= Size[cursor[w]]
        <5> DEFINE c == committed[w]  b == buffered[w]  size == Size[cursor[w]]
        <5>1. c \in Nat /\ b \in Nat /\ size \in Nat /\ c + b <= size
          BY <4>1
        <5>2. buffered'[w] = b \/ (c + b # size /\ buffered'[w] = b + 1)
          BY <4>3
        <5> HIDE DEF c, b, size
        <5>3. c + buffered'[w] <= size
          BY <5>1, <5>2
        <5> QED BY <5>3 DEF c, size
      <4> QED BY <3>1, <4>1, <4>4, <4>5
    <3>2. CASE v # w
      BY <1>5, <3>2 DEF Receive, WithinFile, StreamTypes, RunTypes, Files
    <3> QED BY <3>1, <3>2
  <2> QED BY <2>1, <2>2, <2>3, <2>4
<1>6. ASSUME NEW w \in Workers, UploadFullPart(w) PROVE TypeOK'
  <2>1. BucketTypes'
    BY <1>6 DEF UploadFullPart, UploadPart, BucketTypes
  <2>2. RunTypes'
    BY <1>6 DEF UploadFullPart, UploadPart, RunTypes, Stages, Ended, Uploading, Files
  <2>3. StreamTypes'
    <3>1. CASE UNCHANGED <<committed, buffered, intact, clean>>
      BY <1>6, <3>1 DEF UploadFullPart, StreamTypes
    <3>2. CASE /\ committed' = [committed EXCEPT ![w] = @ + buffered[w]]
               /\ buffered' = [buffered EXCEPT ![w] = 0]
               /\ intact' = [intact EXCEPT ![w] = @ /\ clean[w]] /\ clean' = [clean EXCEPT ![w] = TRUE]
      <4>1. intact' \in [Workers -> BOOLEAN] /\ clean' \in [Workers -> BOOLEAN]
        <5>1. (intact[w] /\ clean[w]) \in BOOLEAN
          BY Zenon
        <5> QED BY <3>2, <5>1, BooleanUpdate DEF StreamTypes
      <4>2. committed' \in [Workers -> Nat] /\ buffered' \in [Workers -> 0..PartBlocks]
        BY <3>2 DEF StreamTypes
      <4>3. position' \in [Workers -> Nat] /\ start' \in [Workers -> Nat] /\ retries' \in [Workers -> 0..MaxRetries]
        BY <1>6 DEF UploadFullPart, StreamTypes
      <4> QED BY <4>1, <4>2, <4>3 DEF StreamTypes
    <3> QED BY <1>6, <3>1, <3>2 DEF UploadFullPart, UploadPart
  <2>4. WithinFile'
    <3> SUFFICES ASSUME NEW v \in Workers
                 PROVE  (start[v] <= committed[v] /\ committed[v] + buffered[v] <= Size[cursor[v]])'
      BY DEF WithinFile
    <3>1. CASE v = w
      BY <1>6, <3>1 DEF UploadFullPart, UploadPart, WithinFile, StreamTypes, RunTypes, Files
    <3>2. CASE v # w
      <4>1. start'[v] = start[v] /\ cursor'[v] = cursor[v]
        BY <1>6 DEF UploadFullPart
      <4>2. committed'[v] = committed[v] /\ buffered'[v] = buffered[v]
        BY <1>6, <3>2 DEF UploadFullPart, UploadPart, StreamTypes
      <4> QED BY <4>1, <4>2 DEF WithinFile
    <3> QED BY <3>1, <3>2
  <2> QED BY <2>1, <2>2, <2>3, <2>4
<1>7. ASSUME NEW w \in Workers, EndOfFile(w) PROVE TypeOK'
  <2>1. BucketTypes'
    BY <1>7 DEF EndOfFile, UploadPart, BucketTypes
  <2>2. RunTypes'
    BY <1>7 DEF EndOfFile, UploadPart, RunTypes, Stages, Ended, Uploading, Files
  <2>3. StreamTypes'
    <3>1. CASE UNCHANGED <<committed, buffered, intact, clean>>
      BY <1>7, <3>1 DEF EndOfFile, StreamTypes
    <3>2. CASE /\ committed' = [committed EXCEPT ![w] = @ + buffered[w]]
               /\ buffered' = [buffered EXCEPT ![w] = 0]
               /\ intact' = [intact EXCEPT ![w] = @ /\ clean[w]] /\ clean' = [clean EXCEPT ![w] = TRUE]
      <4>1. intact' \in [Workers -> BOOLEAN] /\ clean' \in [Workers -> BOOLEAN]
        <5>1. (intact[w] /\ clean[w]) \in BOOLEAN
          BY Zenon
        <5> QED BY <3>2, <5>1, BooleanUpdate DEF StreamTypes
      <4>2. committed' \in [Workers -> Nat] /\ buffered' \in [Workers -> 0..PartBlocks]
        BY <3>2 DEF StreamTypes
      <4>3. position' \in [Workers -> Nat] /\ start' \in [Workers -> Nat] /\ retries' \in [Workers -> 0..MaxRetries]
        BY <1>7 DEF EndOfFile, StreamTypes
      <4> QED BY <4>1, <4>2, <4>3 DEF StreamTypes
    <3> QED BY <1>7, <3>1, <3>2 DEF EndOfFile, UploadPart
  <2>4. WithinFile'
    <3> SUFFICES ASSUME NEW v \in Workers
                 PROVE  (start[v] <= committed[v] /\ committed[v] + buffered[v] <= Size[cursor[v]])'
      BY DEF WithinFile
    <3>1. CASE v = w
      BY <1>7, <3>1 DEF EndOfFile, UploadPart, WithinFile, StreamTypes, RunTypes, Files
    <3>2. CASE v # w
      BY <1>7, <3>2 DEF EndOfFile, UploadPart, WithinFile, StreamTypes, RunTypes, Files
    <3> QED BY <3>1, <3>2
  <2> QED BY <2>1, <2>2, <2>3, <2>4
<1>8. ASSUME NEW w \in Workers, Retry(w) PROVE TypeOK'
  <2>1. BucketTypes'
    BY <1>8 DEF Retry, RetriesAfter, DropsBuffer, BucketTypes
  <2>2. RunTypes'
    BY <1>8 DEF Retry, RetriesAfter, DropsBuffer, RunTypes, Stages, Ended, Uploading, Files
  <2>3. StreamTypes'
    BY <1>8 DEF Retry, RetriesAfter, DropsBuffer, StreamTypes
  <2>4. WithinFile'
    <3> SUFFICES ASSUME NEW v \in Workers
                 PROVE  (start[v] <= committed[v] /\ committed[v] + buffered[v] <= Size[cursor[v]])'
      BY DEF WithinFile
    <3>1. CASE v = w
      BY <1>8, <3>1 DEF Retry, RetriesAfter, DropsBuffer, WithinFile, StreamTypes, RunTypes, Files
    <3>2. CASE v # w
      BY <1>8, <3>2 DEF Retry, RetriesAfter, DropsBuffer, WithinFile, StreamTypes, RunTypes, Files
    <3> QED BY <3>1, <3>2
  <2> QED BY <2>1, <2>2, <2>3, <2>4
<1>9. ASSUME NEW w \in Workers, Check(w) PROVE TypeOK'
  <2>1. BucketTypes'
    BY <1>9 DEF Check, BucketTypes
  <2>2. RunTypes'
    BY <1>9 DEF Check, RunTypes, Stages, Ended, Uploading, Files
  <2>3. StreamTypes'
    BY <1>9 DEF Check, StreamTypes
  <2>4. WithinFile'
    BY <1>9 DEF Check, WithinFile
  <2> QED BY <2>1, <2>2, <2>3, <2>4
<1>10. ASSUME NEW w \in Workers, CompleteUpload(w) PROVE TypeOK'
  <2>1. BucketTypes'
    <3>1. cursor[w] \in Files
      BY DEF RunTypes
    <3>2. CASE UNCHANGED <<objects, written>>
      BY <1>10, <3>2 DEF CompleteUpload, BucketTypes
    <3>3. CASE /\ objects' = [objects EXCEPT ![cursor[w]] = IF intact[w] THEN "exact" ELSE "damaged"]
               /\ written' = [written EXCEPT ![cursor[w]] = @ + 1]
      <4>1. objects' \in [Files -> Contents]
        BY <3>1, <3>3 DEF BucketTypes, Contents
      <4>2. written' \in [Files -> Nat]
        BY <3>1, <3>3 DEF BucketTypes
      <4> QED BY <1>10, <4>1, <4>2 DEF CompleteUpload, BucketTypes
    <3> QED BY <1>10, <3>2, <3>3 DEF CompleteUpload
  <2>2. RunTypes'
    BY <1>10 DEF CompleteUpload, RunTypes, Stages, Ended, Uploading, Files
  <2>3. StreamTypes'
    BY <1>10 DEF CompleteUpload, StreamTypes
  <2>4. WithinFile'
    BY <1>10 DEF CompleteUpload, WithinFile
  <2> QED BY <2>1, <2>2, <2>3, <2>4
<1>11. ASSUME NEW w \in Workers, AbortUpload(w) PROVE TypeOK'
  <2>1. BucketTypes'
    BY <1>11 DEF AbortUpload, BucketTypes
  <2>2. RunTypes'
    BY <1>11 DEF AbortUpload, RunTypes, Stages, Ended, Uploading, Files
  <2>3. StreamTypes'
    BY <1>11 DEF AbortUpload, StreamTypes
  <2>4. WithinFile'
    BY <1>11 DEF AbortUpload, WithinFile
  <2> QED BY <2>1, <2>2, <2>3, <2>4
<1>12. ASSUME NEW w \in Workers, VerifyUpload(w) PROVE TypeOK'
  <2>1. BucketTypes'
    BY <1>12 DEF VerifyUpload, NextFile, Fails, FreshStream, BucketTypes
  <2>2. RunTypes'
    BY <1>12, CursorStep DEF VerifyUpload, RunTypes
  <2>3. StreamTypes'
    BY <1>12 DEF VerifyUpload, NextFile, Fails, FreshStream, StreamTypes
  <2>4. WithinFile'
    <3> SUFFICES ASSUME NEW v \in Workers
                 PROVE  (start[v] <= committed[v] /\ committed[v] + buffered[v] <= Size[cursor[v]])'
      BY DEF WithinFile
    <3>1. CASE v = w
      <4>1. committed'[v] = 0 /\ buffered'[v] = 0 /\ start'[v] = 0
        BY <1>12, <3>1 DEF VerifyUpload, FreshStream, StreamTypes
      <4>2. Size[cursor'[v]] \in Nat
        BY <2>2 DEF RunTypes
      <4> QED BY ONLY <4>1, <4>2
    <3>2. CASE v # w
      <4>1. committed'[v] = committed[v] /\ buffered'[v] = buffered[v] /\ start'[v] = start[v]
        BY <1>12, <3>2 DEF VerifyUpload, FreshStream, StreamTypes
      <4>2. cursor'[v] = cursor[v]
        BY <1>12, <3>2, CursorStep DEF VerifyUpload
      <4> QED BY <4>1, <4>2 DEF WithinFile
    <3> QED BY <3>1, <3>2
  <2> QED BY <2>1, <2>2, <2>3, <2>4
<1>13. ASSUME NEW w \in Workers, PutManifest(w) PROVE TypeOK'
  <2>1. BucketTypes'
    BY <1>13 DEF PutManifest, BucketTypes, RunTypes
  <2>2. RunTypes'
    BY <1>13 DEF PutManifest, RunTypes, Stages, Ended, Uploading, Files
  <2>3. StreamTypes'
    BY <1>13 DEF PutManifest, StreamTypes
  <2>4. WithinFile'
    BY <1>13 DEF PutManifest, WithinFile
  <2> QED BY <2>1, <2>2, <2>3, <2>4
<1>14. ASSUME NEW w \in Workers, VerifyManifest(w) PROVE TypeOK'
  <2>1. BucketTypes'
    BY <1>14 DEF VerifyManifest, BucketTypes
  <2>2. RunTypes'
    BY <1>14 DEF VerifyManifest, RunTypes, Stages, Ended, Uploading, Files
  <2>3. StreamTypes'
    BY <1>14 DEF VerifyManifest, StreamTypes
  <2>4. WithinFile'
    BY <1>14 DEF VerifyManifest, WithinFile
  <2> QED BY <2>1, <2>2, <2>3, <2>4
<1>15. ASSUME NEW w \in Workers, Crash(w) PROVE TypeOK'
  <2>1. BucketTypes'
    BY <1>15 DEF Crash, BucketTypes
  <2>2. RunTypes'
    BY <1>15 DEF Crash, RunTypes, Stages, Ended, Uploading, Files
  <2>3. StreamTypes'
    BY <1>15 DEF Crash, StreamTypes
  <2>4. WithinFile'
    BY <1>15 DEF Crash, WithinFile
  <2> QED BY <2>1, <2>2, <2>3, <2>4
<1>16. CASE UNCHANGED vars
  BY <1>16 DEF vars, BucketTypes, RunTypes, StreamTypes, WithinFile
<1> QED BY <1>1, <1>2, <1>3, <1>4, <1>5, <1>6, <1>7, <1>8, <1>9, <1>10, <1>11, <1>12, <1>13, <1>14,
          <1>15, <1>16 DEF Next, RunStep, FileStep

\* Each file, and each run, starts with an empty stream.
LEMMA FreshStep == ASSUME TypeOK, FreshBuffers, [Next]_vars PROVE FreshBuffers'
<1> USE IngestAssumption DEF Goto, bucketVars, streamVars, TypeOK, RunTypes, StreamTypes, FreshBuffers
<1>1. ASSUME NEW w \in Workers, Begin(w) PROVE FreshBuffers'
  BY <1>1 DEF Begin, FreshStream
<1>2. ASSUME NEW w \in Workers, LookUp(w) PROVE FreshBuffers'
  BY <1>2 DEF LookUp, NextFile, Fails
<1>3. ASSUME NEW w \in Workers, CreateUpload(w) PROVE FreshBuffers'
  BY <1>3 DEF CreateUpload
<1>4. ASSUME NEW w \in Workers, Connect(w) PROVE FreshBuffers'
  BY <1>4 DEF Connect
<1>5. ASSUME NEW w \in Workers, Receive(w) PROVE FreshBuffers'
  BY <1>5 DEF Receive
<1>6. ASSUME NEW w \in Workers, UploadFullPart(w) PROVE FreshBuffers'
  BY <1>6 DEF UploadFullPart, UploadPart
<1>7. ASSUME NEW w \in Workers, EndOfFile(w) PROVE FreshBuffers'
  BY <1>7 DEF EndOfFile, UploadPart
<1>8. ASSUME NEW w \in Workers, Retry(w) PROVE FreshBuffers'
  BY <1>8 DEF Retry, RetriesAfter, DropsBuffer
<1>9. ASSUME NEW w \in Workers, Check(w) PROVE FreshBuffers'
  BY <1>9 DEF Check
<1>10. ASSUME NEW w \in Workers, CompleteUpload(w) PROVE FreshBuffers'
  BY <1>10 DEF CompleteUpload
<1>11. ASSUME NEW w \in Workers, AbortUpload(w) PROVE FreshBuffers'
  BY <1>11 DEF AbortUpload
<1>12. ASSUME NEW w \in Workers, VerifyUpload(w) PROVE FreshBuffers'
  BY <1>12 DEF VerifyUpload, NextFile, Fails, FreshStream
<1>13. ASSUME NEW w \in Workers, PutManifest(w) PROVE FreshBuffers'
  BY <1>13 DEF PutManifest
<1>14. ASSUME NEW w \in Workers, VerifyManifest(w) PROVE FreshBuffers'
  BY <1>14 DEF VerifyManifest
<1>15. ASSUME NEW w \in Workers, Crash(w) PROVE FreshBuffers'
  BY <1>15 DEF Crash
<1>16. CASE UNCHANGED vars
  BY <1>16 DEF vars
<1> QED BY <1>1, <1>2, <1>3, <1>4, <1>5, <1>6, <1>7, <1>8, <1>9, <1>10, <1>11, <1>12, <1>13, <1>14,
          <1>15, <1>16 DEF Next, RunStep, FileStep

\* Every way out of the upload closes it or says that it could not.
LEMMA OpenStep == ASSUME TypeOK, OpenWhileUploading, [Next]_vars PROVE OpenWhileUploading'
<1> USE IngestAssumption DEF Goto, bucketVars, streamVars, TypeOK, RunTypes, StreamTypes, OpenWhileUploading, Uploading, Ended
<1>1. ASSUME NEW w \in Workers, Begin(w) PROVE OpenWhileUploading'
  BY <1>1 DEF Begin, FreshStream
<1>2. ASSUME NEW w \in Workers, LookUp(w) PROVE OpenWhileUploading'
  BY <1>2 DEF LookUp, NextFile, Fails
<1>3. ASSUME NEW w \in Workers, CreateUpload(w) PROVE OpenWhileUploading'
  BY <1>3 DEF CreateUpload
<1>4. ASSUME NEW w \in Workers, Connect(w) PROVE OpenWhileUploading'
  BY <1>4 DEF Connect
<1>5. ASSUME NEW w \in Workers, Receive(w) PROVE OpenWhileUploading'
  BY <1>5 DEF Receive
<1>6. ASSUME NEW w \in Workers, UploadFullPart(w) PROVE OpenWhileUploading'
  BY <1>6 DEF UploadFullPart, UploadPart
<1>7. ASSUME NEW w \in Workers, EndOfFile(w) PROVE OpenWhileUploading'
  BY <1>7 DEF EndOfFile, UploadPart
<1>8. ASSUME NEW w \in Workers, Retry(w) PROVE OpenWhileUploading'
  BY <1>8 DEF Retry, RetriesAfter, DropsBuffer
<1>9. ASSUME NEW w \in Workers, Check(w) PROVE OpenWhileUploading'
  BY <1>9 DEF Check
<1>10. ASSUME NEW w \in Workers, CompleteUpload(w) PROVE OpenWhileUploading'
  BY <1>10 DEF CompleteUpload
<1>11. ASSUME NEW w \in Workers, AbortUpload(w) PROVE OpenWhileUploading'
  BY <1>11 DEF AbortUpload
<1>12. ASSUME NEW w \in Workers, VerifyUpload(w) PROVE OpenWhileUploading'
  BY <1>12 DEF VerifyUpload, NextFile, Fails, FreshStream
<1>13. ASSUME NEW w \in Workers, PutManifest(w) PROVE OpenWhileUploading'
  BY <1>13 DEF PutManifest
<1>14. ASSUME NEW w \in Workers, VerifyManifest(w) PROVE OpenWhileUploading'
  BY <1>14 DEF VerifyManifest
<1>15. ASSUME NEW w \in Workers, Crash(w) PROVE OpenWhileUploading'
  BY <1>15 DEF Crash
<1>16. CASE UNCHANGED vars
  BY <1>16 DEF vars
<1> QED BY <1>1, <1>2, <1>3, <1>4, <1>5, <1>6, <1>7, <1>8, <1>9, <1>10, <1>11, <1>12, <1>13, <1>14,
          <1>15, <1>16 DEF Next, RunStep, FileStep

\* A connection resumes at the last part, and what a broken one left is dropped.
LEMMA AlignedStep == ASSUME TypeOK, FreshBuffers, StreamIsAligned, [Next]_vars PROVE StreamIsAligned'
<1> USE IngestAssumption DEF Goto, bucketVars, streamVars, TypeOK, RunTypes, StreamTypes, StreamIsAligned
<1>1. ASSUME NEW w \in Workers, Begin(w) PROVE StreamIsAligned'
  BY <1>1 DEF Begin, FreshStream
<1>2. ASSUME NEW w \in Workers, LookUp(w) PROVE StreamIsAligned'
  BY <1>2 DEF LookUp, NextFile, Fails
<1>3. ASSUME NEW w \in Workers, CreateUpload(w) PROVE StreamIsAligned'
  BY <1>3 DEF CreateUpload
<1>4. ASSUME NEW w \in Workers, Connect(w) PROVE StreamIsAligned'
  BY <1>4 DEF Connect, FreshBuffers
<1>5. ASSUME NEW w \in Workers, Receive(w) PROVE StreamIsAligned'
  BY <1>5 DEF Receive
<1>6. ASSUME NEW w \in Workers, UploadFullPart(w) PROVE StreamIsAligned'
  BY <1>6 DEF UploadFullPart, UploadPart
<1>7. ASSUME NEW w \in Workers, EndOfFile(w) PROVE StreamIsAligned'
  BY <1>7 DEF EndOfFile, UploadPart
<1>8. ASSUME NEW w \in Workers, Retry(w) PROVE StreamIsAligned'
  BY <1>8 DEF Retry, RetriesAfter, DropsBuffer
<1>9. ASSUME NEW w \in Workers, Check(w) PROVE StreamIsAligned'
  BY <1>9 DEF Check
<1>10. ASSUME NEW w \in Workers, CompleteUpload(w) PROVE StreamIsAligned'
  BY <1>10 DEF CompleteUpload
<1>11. ASSUME NEW w \in Workers, AbortUpload(w) PROVE StreamIsAligned'
  BY <1>11 DEF AbortUpload
<1>12. ASSUME NEW w \in Workers, VerifyUpload(w) PROVE StreamIsAligned'
  BY <1>12 DEF VerifyUpload, NextFile, Fails, FreshStream
<1>13. ASSUME NEW w \in Workers, PutManifest(w) PROVE StreamIsAligned'
  BY <1>13 DEF PutManifest
<1>14. ASSUME NEW w \in Workers, VerifyManifest(w) PROVE StreamIsAligned'
  BY <1>14 DEF VerifyManifest
<1>15. ASSUME NEW w \in Workers, Crash(w) PROVE StreamIsAligned'
  BY <1>15 DEF Crash
<1>16. CASE UNCHANGED vars
  BY <1>16 DEF vars
<1> QED BY <1>1, <1>2, <1>3, <1>4, <1>5, <1>6, <1>7, <1>8, <1>9, <1>10, <1>11, <1>12, <1>13, <1>14,
          <1>15, <1>16 DEF Next, RunStep, FileStep

\* The bucket changes only where a checked upload is completed or the manifest
\* is put: what is stored stays, what is added is exact.
LEMMA BucketStep ==
  ASSUME TypeOK, StoredSoFar, [Next]_vars
  PROVE  /\ \/ UNCHANGED objects
            \/ \E f \in Files : objects' = [objects EXCEPT ![f] = "exact"]
         /\ \/ UNCHANGED manifest
            \/ \E w \in Workers : PutManifest(w) /\ UNCHANGED objects
<1>1. ASSUME NEW w \in Workers, CompleteUpload(w)
      PROVE  /\ UNCHANGED manifest
             /\ UNCHANGED objects \/ \E f \in Files : objects' = [objects EXCEPT ![f] = "exact"]
  <2>1. intact[w] /\ cursor[w] \in Files
    BY <1>1 DEF CompleteUpload, StoredSoFar, TypeOK, RunTypes
  <2> QED BY <1>1, <2>1 DEF CompleteUpload
<1>2. ASSUME NEW w \in Workers, PutManifest(w) PROVE UNCHANGED objects
  BY <1>2 DEF PutManifest
<1>3. ASSUME NEW w \in Workers,
             Begin(w) \/ LookUp(w) \/ CreateUpload(w) \/ Connect(w) \/ Receive(w) \/ UploadFullPart(w)
               \/ EndOfFile(w) \/ Retry(w) \/ Check(w) \/ AbortUpload(w) \/ VerifyUpload(w)
               \/ VerifyManifest(w) \/ Crash(w)
      PROVE  UNCHANGED bucketVars
  BY <1>3 DEF Begin, LookUp, CreateUpload, Connect, Receive, UploadFullPart, EndOfFile, Retry, Check,
              AbortUpload, VerifyUpload, VerifyManifest, Crash
<1> QED BY <1>1, <1>2, <1>3 DEF Next, RunStep, FileStep, vars, bucketVars

\* A worker moves on from a file only when its object is exact.
LEMMA NextFileStored ==
  ASSUME TypeOK, StoredSoFar, NEW w \in Workers, stage[w] \notin Ended,
         UNCHANGED objects, objects[cursor[w]] \in Ours, NextFile(w)
  PROVE  /\ \A f \in 1..(cursor'[w] - 1) : objects'[f] = "exact"
         /\ stage'[w] = "head" \/ (stage'[w] = "publish" /\ cursor'[w] = FileCount /\ objects'[FileCount] = "exact")
<1> USE IngestAssumption DEF TypeOK, RunTypes, Files, Goto
<1>1. cursor[w] \in Files /\ objects[cursor[w]] = "exact"
  BY DEF StoredSoFar, Ours
<1>2. \A f \in 1..cursor[w] : objects[f] = "exact"
  BY <1>1 DEF StoredSoFar
<1>3. CASE cursor[w] = FileCount
  BY <1>1, <1>2, <1>3 DEF NextFile
<1>4. CASE cursor[w] # FileCount
  <2>1. cursor'[w] = cursor[w] + 1 /\ stage'[w] = "head"
    BY <1>4 DEF NextFile
  <2> QED BY <1>1, <1>2, <2>1
<1> QED BY <1>3, <1>4

\* What a worker has passed is exact, and stays so.
LEMMA StoredStep == ASSUME TypeOK, TypeOK', StoredSoFar, [Next]_vars PROVE StoredSoFar'
<1> USE IngestAssumption DEF Files
<1>1. \A f \in Files : objects'[f] # "damaged" /\ (objects[f] = "exact" => objects'[f] = "exact")
  BY BucketStep DEF StoredSoFar, TypeOK, BucketTypes
<1>2. ASSUME NEW w \in Workers
      PROVE  /\ stage'[w] \notin Ended => \A f \in 1..(cursor'[w] - 1) : objects'[f] = "exact"
             /\ stage'[w] \in {"publish", "recheck"} =>
                  cursor'[w] = FileCount /\ objects'[FileCount] = "exact"
             /\ stage'[w] = "complete" => intact'[w]
  <2> DEFINE Goal == /\ stage'[w] \notin Ended => \A f \in 1..(cursor'[w] - 1) : objects'[f] = "exact"
                     /\ stage'[w] \in {"publish", "recheck"} =>
                          cursor'[w] = FileCount /\ objects'[FileCount] = "exact"
                     /\ stage'[w] = "complete" => intact'[w]
  <2> SUFFICES Goal
    OBVIOUS
  <2>1. cursor[w] \in Files /\ \A v \in Workers : cursor[v] \in Files
    BY DEF TypeOK, RunTypes
  <2>2. ASSUME stage'[w] = stage[w], cursor'[w] = cursor[w], stage[w] = "complete" => intact'[w]
        PROVE  Goal
    BY <1>1, <2>1, <2>2 DEF StoredSoFar
  <2>3. ASSUME stage[w] \notin Ended, stage'[w] \notin Ended, cursor'[w] = cursor[w],
               stage'[w] \notin {"publish", "recheck", "complete"}
        PROVE  Goal
    BY <1>1, <2>1, <2>3 DEF StoredSoFar
  <2>4. ASSUME stage'[w] \in Ended PROVE Goal
    BY <2>4 DEF Ended
  <2> USE DEF Goto, TypeOK, RunTypes, StreamTypes, bucketVars, streamVars
  <2>5. ASSUME NEW v \in Workers, v # w, Begin(v) \/ RunStep(v) \/ Crash(v) PROVE Goal
    <3>1. stage'[w] = stage[w] /\ cursor'[w] = cursor[w] /\ intact'[w] = intact[w]
      <4>1. CASE Begin(v)
        <5>1. stage'[w] = stage[w] /\ cursor'[w] = cursor[w]
          BY <2>5, <4>1 DEF Begin
        <5>2. intact' = [intact EXCEPT ![v] = TRUE]
          BY <4>1 DEF Begin, FreshStream
        <5> QED BY <2>5, <5>1, <5>2
      <4>8. CASE Crash(v)
        BY <2>5, <4>8 DEF Crash
      <4>2. CASE LookUp(v)
        <5>1. UNCHANGED intact
          BY <4>2 DEF LookUp
        <5>2. \E s \in Stages : stage' = [stage EXCEPT ![v] = s]
          BY <4>2 DEF LookUp, NextFile, Fails, Stages, Ended
        <5>3. UNCHANGED cursor \/ cursor' = [cursor EXCEPT ![v] = @ + 1]
          BY <4>2 DEF LookUp, NextFile, Fails
        <5> QED BY <2>5, <5>1, <5>2, <5>3
      <4>9. CASE CreateUpload(v)
        BY <2>5, <4>9 DEF CreateUpload
      <4>10. CASE Connect(v)
        <5>1. UNCHANGED <<cursor, intact>>
          BY <4>10 DEF Connect
        <5>2. \E s \in {"check", "reading", "abort"} : stage' = [stage EXCEPT ![v] = s]
          <6>1. CASE committed[v] = Size[cursor[v]]
            BY ONLY <4>10, <6>1 DEF Connect, Goto
          <6>2. CASE committed[v] # Size[cursor[v]]
            BY ONLY <4>10, <6>2 DEF Connect, Goto
          <6> QED BY ONLY <6>1, <6>2
        <5>3. stage \in [Workers -> Stages]
          OBVIOUS
        <5> QED BY ONLY <2>5, <5>1, <5>2, <5>3
      <4>11. CASE Receive(v)
        BY <2>5, <4>11 DEF Receive
      <4>3. CASE UploadFullPart(v) \/ EndOfFile(v)
        <5>1. stage'[w] = stage[w] /\ cursor'[w] = cursor[w]
          BY <2>5, <4>3 DEF UploadFullPart, UploadPart, EndOfFile
        <5>2. UNCHANGED intact \/ intact' = [intact EXCEPT ![v] = @ /\ clean[v]]
          BY <4>3 DEF UploadFullPart, UploadPart, EndOfFile
        <5>3. intact'[w] = intact[w]
          BY <2>5, <5>2, Zenon
        <5> QED BY <5>1, <5>3
      <4>6. CASE Retry(v) \/ Check(v)
        BY <2>5, <4>6 DEF Retry, Check
      <4>4. CASE CompleteUpload(v) \/ AbortUpload(v)
        BY <2>5, <4>4 DEF CompleteUpload, AbortUpload
      <4>7. CASE VerifyUpload(v)
        <5>4. intact' = [intact EXCEPT ![v] = TRUE]
          BY <4>7 DEF VerifyUpload, FreshStream
        <5>1. intact'[w] = intact[w]
          BY <2>5, <5>4
        <5>2. cursor'[w] = cursor[w]
          BY <2>5, <4>7, CursorStep DEF VerifyUpload
        <5>3. \E s \in Stages : stage' = [stage EXCEPT ![v] = s]
          BY <4>7 DEF VerifyUpload, NextFile, Fails, Stages, Ended
        <5> QED BY <2>5, <5>1, <5>2, <5>3
      <4>5. CASE PutManifest(v) \/ VerifyManifest(v)
        BY <2>5, <4>5 DEF PutManifest, VerifyManifest
      <4> QED BY <2>5, <4>1, <4>2, <4>3, <4>4, <4>5, <4>6, <4>7, <4>8, <4>9, <4>10, <4>11 DEF RunStep, FileStep
    <3> QED BY <2>2, <3>1 DEF StoredSoFar
  <2>6. CASE Begin(w)
    <3>1. stage'[w] = "head" /\ cursor'[w] = 1
      BY <2>6 DEF Begin
    <3> QED BY <3>1
  <2>7. CASE LookUp(w)
    <3>1. CASE objects[cursor[w]] = "absent" /\ Goto(w, "create") /\ UNCHANGED <<cursor, reused>>
      BY <2>7, <2>3, <3>1 DEF LookUp, Ended
    <3>2. CASE objects[cursor[w]] \in Ours /\ NextFile(w)
      BY <2>7, <3>2, NextFileStored DEF LookUp, Ended
    <3>3. CASE Fails(w)
      BY <2>4, <3>3 DEF Fails, Ended
    <3> QED BY <2>7, <3>1, <3>2, <3>3 DEF LookUp
  <2>8. CASE CreateUpload(w) \/ Connect(w) \/ Receive(w)
    <3>1. cursor'[w] = cursor[w] /\ stage[w] \notin Ended
      BY <2>8 DEF CreateUpload, Connect, Receive, Ended
    <3>2. stage'[w] \in {"connect", "failed", "check", "reading", "abort"}
      BY <2>8 DEF CreateUpload, Connect, Receive
    <3> QED BY <2>3, <2>4, <3>1, <3>2 DEF Ended
  <2>9. CASE UploadFullPart(w) \/ EndOfFile(w) \/ Retry(w)
    <3>1. cursor'[w] = cursor[w] /\ stage[w] \notin Ended
      BY <2>9 DEF UploadFullPart, EndOfFile, Retry, Ended
    <3>2. stage'[w] \in {"connect", "check", "reading", "abort"}
      BY <2>9 DEF UploadFullPart, UploadPart, EndOfFile, Retry
    <3> QED BY <2>3, <3>1, <3>2 DEF Ended
  <2>10. CASE Check(w)
    BY <1>1, <2>1, <2>10 DEF Check, Ended, StoredSoFar
  <2>11. CASE CompleteUpload(w)
    <3>1. cursor'[w] = cursor[w] /\ stage[w] \notin Ended /\ stage'[w] \in {"verify", "abort"}
      BY <2>11 DEF CompleteUpload, Ended
    <3> QED BY <2>3, <3>1 DEF Ended
  <2>12. CASE AbortUpload(w) \/ VerifyManifest(w) \/ Crash(w)
    <3>1. stage'[w] \in Ended
      BY <2>12 DEF AbortUpload, VerifyManifest, Crash, Ended
    <3> QED BY <2>4, <3>1
  <2>13. CASE VerifyUpload(w)
    <3>1. CASE objects[cursor[w]] \in Ours /\ NextFile(w)
      BY <2>13, <3>1, NextFileStored DEF VerifyUpload, Ended
    <3>2. CASE Fails(w)
      BY <2>4, <3>2 DEF Fails, Ended
    <3> QED BY <2>13, <3>1, <3>2 DEF VerifyUpload
  <2>14. CASE PutManifest(w)
    BY <1>1, <2>1, <2>14 DEF PutManifest, Ended, StoredSoFar
  <2>15. CASE UNCHANGED vars
    BY <2>2, <2>15 DEF vars, StoredSoFar
  <2>16. \/ UNCHANGED vars
         \/ \E v \in Workers : Begin(v) \/ RunStep(v) \/ Crash(v)
    BY DEF Next
  <2> HIDE DEF Goal
  <2>17. ASSUME Begin(w) \/ RunStep(w) \/ Crash(w) PROVE Goal
    BY <2>6, <2>7, <2>8, <2>9, <2>10, <2>11, <2>12, <2>13, <2>14, <2>17, Zenon DEF RunStep, FileStep
  <2> QED BY <2>5, <2>15, <2>16, <2>17, Zenon
<1>3. manifest' # << >> => \A f \in Files : objects'[f] = "exact"
  <2>1. CASE UNCHANGED manifest
    BY <1>1, <2>1 DEF StoredSoFar
  <2>2. ASSUME NEW w \in Workers, PutManifest(w), UNCHANGED objects
        PROVE  \A f \in Files : objects'[f] = "exact"
    <3>1. stage[w] = "publish" /\ stage[w] \notin Ended
      BY <2>2 DEF PutManifest, Ended
    <3>2. cursor[w] = FileCount /\ objects[FileCount] = "exact" /\ \A f \in 1..(cursor[w] - 1) : objects[f] = "exact"
      BY <3>1 DEF StoredSoFar
    <3> QED BY <2>2, <3>2
  <2> QED BY <2>1, <2>2, BucketStep
<1> QED BY <1>1, <1>2, <1>3 DEF StoredSoFar
-----------------------------------------------------------------------------
\* The inductive invariant: the types, and what protects the streams, the
\* objects and the open uploads.
THEOREM InductiveInvariant == Spec => []IInv
<1>1. IInv /\ [Next]_vars => IInv'
  <2> SUFFICES ASSUME IInv, [Next]_vars PROVE IInv'
    OBVIOUS
  <2>1. TypeOK' /\ FreshBuffers' /\ OpenWhileUploading'
    BY TypeStep, FreshStep, OpenStep DEF IInv
  <2>2. StoredSoFar' /\ StreamIsAligned'
    BY <2>1, StoredStep, AlignedStep DEF IInv
  <2> QED BY <2>1, <2>2 DEF IInv
<1> QED BY <1>1, InitEstablishes, PTL DEF Spec

\* Types, for every number of tasks, files and retries.
THEOREM TypeCorrect == Spec => []TypeOK
<1>1. IInv => TypeOK
  BY DEF IInv
<1> QED BY <1>1, InductiveInvariant, PTL

\* No byte of a file is skipped or received twice, whatever breaks.
THEOREM StreamsAreAligned == Spec => []StreamIsAligned
<1>1. IInv => StreamIsAligned
  BY DEF IInv
<1> QED BY <1>1, InductiveInvariant, PTL

\* An ordinary error leaves no upload open that the worker knows of.
THEOREM LeavesNothingOpen == Spec => []NoSilentLeftover
<1>1. IInv => NoSilentLeftover
  BY DEF IInv, OpenWhileUploading, NoSilentLeftover, Uploading, TypeOK, RunTypes
<1> QED BY <1>1, InductiveInvariant, PTL

\* The tasks together keep IngestContract: the manifest comes last and nothing
\* stored is lost.
THEOREM Implements == Spec => KeepsContract
<1> DEFINE there == {f \in Files : objects[f] = "exact"}  told == manifest # << >>
<1>1. Init => Contract!ContractInit
  BY DEF Init, Contract!ContractInit
<1>2. IInv /\ IInv' /\ [Next]_vars => [Contract!ContractNext]_(Contract!contractVars)
  <2> SUFFICES ASSUME IInv, IInv', [Next]_vars
               PROVE  Contract!ContractNext \/ UNCHANGED <<there, told>>
    BY DEF Contract!contractVars
  <2> USE DEF IInv, TypeOK, BucketTypes
  <2>1. CASE UNCHANGED <<objects, manifest>>
    BY <2>1
  <2>2. ASSUME NEW f \in Files, objects' = [objects EXCEPT ![f] = "exact"], UNCHANGED manifest
        PROVE  Contract!ContractNext
    <3>1. there' = there \cup {f} /\ UNCHANGED told
      BY <2>2
    <3> QED BY <3>1 DEF Contract!ContractNext, Contract!Store
  <2>3. ASSUME NEW w \in Workers, PutManifest(w), UNCHANGED objects
        PROVE  Contract!ContractNext \/ UNCHANGED <<there, told>>
    <3>1. CASE UNCHANGED manifest
      BY <2>3, <3>1
    <3>2. CASE ~UNCHANGED manifest
      <4>1. told' /\ there = Files /\ UNCHANGED there
        BY <2>3, <3>2 DEF PutManifest, StoredSoFar
      <4> QED BY <4>1 DEF Contract!ContractNext, Contract!Publish
    <3> QED BY <3>1, <3>2
  <2> QED BY <2>1, <2>2, <2>3, BucketStep
<1> QED BY <1>1, <1>2, InductiveInvariant, PTL DEF Spec, KeepsContract, Contract!ContractSpec
-----------------------------------------------------------------------------
(* How often a file is stored.                                             *)

\* Workers that found a file absent and may still store it.
AboutToStore(f) == {w \in Workers : /\ cursor[w] = f
                                    /\ stage[w] \in {"create", "connect", "reading", "check", "complete"}}

\* Who is about to store a file began when nothing was stored.
StoresLeft == \A f \in Files :
  /\ objects[f] = "absent" => written[f] = 0
  /\ written[f] + Cardinality(AboutToStore(f)) <= Cardinality(Workers)

LEMMA FewerAbout ==
  ASSUME TypeOK, StoresLeft, IsFiniteSet(Workers), NEW f \in Files,
         UNCHANGED <<objects, written>>, AboutToStore(f)' \subseteq AboutToStore(f)
  PROVE  /\ objects'[f] = "absent" => written'[f] = 0
         /\ written'[f] + Cardinality(AboutToStore(f)') <= Cardinality(Workers)
<1>1. AboutToStore(f) \subseteq Workers
  BY DEF AboutToStore
<1>2. IsFiniteSet(AboutToStore(f))
  BY <1>1, FS_Subset
<1>3. /\ Cardinality(AboutToStore(f)') <= Cardinality(AboutToStore(f))
      /\ IsFiniteSet(AboutToStore(f)')
  BY <1>2, FS_Subset
<1>4. /\ Cardinality(AboutToStore(f)') \in Nat /\ Cardinality(AboutToStore(f)) \in Nat
      /\ Cardinality(Workers) \in Nat /\ written[f] \in Nat
  BY <1>2, <1>3, FS_CardinalityType DEF TypeOK, BucketTypes
<1> QED BY <1>3, <1>4 DEF StoresLeft

LEMMA StoresStep ==
  ASSUME TypeOK, StoresLeft, IsFiniteSet(Workers), [Next]_vars
  PROVE  StoresLeft'
<1> USE DEF TypeOK, BucketTypes, RunTypes
<1>1. ASSUME UNCHANGED <<objects, written>>, \A f \in Files : AboutToStore(f)' \subseteq AboutToStore(f)
      PROVE  StoresLeft'
  BY <1>1, FewerAbout DEF StoresLeft
<1>2. ASSUME NEW w \in Workers, LookUp(w) PROVE StoresLeft'
  <2>1. CASE objects[cursor[w]] = "absent" /\ stage' = [stage EXCEPT ![w] = "create"] /\ UNCHANGED cursor
    <3>1. UNCHANGED <<objects, written>>
      BY <1>2 DEF LookUp, bucketVars
    <3>2. ASSUME NEW f \in Files PROVE /\ objects'[f] = "absent" => written'[f] = 0
                                       /\ written'[f] + Cardinality(AboutToStore(f)') <= Cardinality(Workers)
      <4>1. CASE f = cursor[w]
        <5>1. written'[f] = 0
          BY <2>1, <3>1, <4>1 DEF StoresLeft
        <5>2. AboutToStore(f)' \subseteq Workers
          BY DEF AboutToStore
        <5>3. Cardinality(AboutToStore(f)') <= Cardinality(Workers) /\ Cardinality(AboutToStore(f)') \in Nat
          BY <5>2, FS_Subset, FS_CardinalityType
        <5> QED BY <5>1, <5>3
      <4>2. CASE f # cursor[w]
        <5>1. AboutToStore(f)' \subseteq AboutToStore(f)
          BY <2>1, <4>2 DEF AboutToStore
        <5> QED BY <3>1, <5>1, FewerAbout
      <4> QED BY <4>1, <4>2
    <3> QED BY <3>2 DEF StoresLeft
  <2>2. CASE ~(objects[cursor[w]] = "absent" /\ stage' = [stage EXCEPT ![w] = "create"] /\ UNCHANGED cursor)
    <3>1. UNCHANGED <<objects, written>>
      BY <1>2 DEF LookUp, bucketVars
    <3>2. \A f \in Files : AboutToStore(f)' \subseteq AboutToStore(f)
      BY <1>2, <2>2 DEF LookUp, NextFile, Fails, Goto, AboutToStore
    <3> QED BY <1>1, <3>1, <3>2
  <2> QED BY <2>1, <2>2
<1>3. ASSUME NEW w \in Workers, CompleteUpload(w) PROVE StoresLeft'
  <2> DEFINE f == cursor[w]
  <2>0. f \in Files /\ w \in AboutToStore(f) /\ cursor' = cursor
    BY <1>3 DEF CompleteUpload, AboutToStore
  <2>1. CASE UNCHANGED <<objects, written>>
    <3>1. \A g \in Files : AboutToStore(g)' \subseteq AboutToStore(g)
      BY <1>3 DEF CompleteUpload, Goto, AboutToStore
    <3> QED BY <1>1, <2>1, <3>1
  <2>2. CASE /\ objects' = [objects EXCEPT ![f] = IF intact[w] THEN "exact" ELSE "damaged"]
             /\ written' = [written EXCEPT ![f] = @ + 1]
    <3>1. ASSUME NEW g \in Files PROVE /\ objects'[g] = "absent" => written'[g] = 0
                                       /\ written'[g] + Cardinality(AboutToStore(g)') <= Cardinality(Workers)
      <4>1. AboutToStore(g)' \subseteq AboutToStore(g) \ {w} /\ AboutToStore(g) \subseteq Workers
        BY <1>3 DEF CompleteUpload, Goto, AboutToStore
      <4>2. IsFiniteSet(AboutToStore(g)) /\ IsFiniteSet(AboutToStore(g) \ {w})
        BY <4>1, FS_Subset
      <4>3. /\ Cardinality(AboutToStore(g)') <= Cardinality(AboutToStore(g) \ {w})
            /\ IsFiniteSet(AboutToStore(g)')
        BY <4>1, <4>2, FS_Subset
      <4>4. Cardinality(AboutToStore(g) \ {w})
              = IF w \in AboutToStore(g) THEN Cardinality(AboutToStore(g)) - 1 ELSE Cardinality(AboutToStore(g))
        BY <4>2, FS_RemoveElement
      <4>5. /\ Cardinality(AboutToStore(g)') \in Nat /\ Cardinality(AboutToStore(g)) \in Nat
            /\ Cardinality(Workers) \in Nat /\ written[g] \in Nat
        BY <4>2, <4>3, FS_CardinalityType
      <4>6. written[g] + Cardinality(AboutToStore(g)) <= Cardinality(Workers)
        BY DEF StoresLeft
      <4>7. CASE g = f
        <5>1. objects'[g] # "absent" /\ written'[g] = written[g] + 1
          BY <2>0, <2>2, <4>7
        <5> QED BY <2>0, <4>3, <4>4, <4>5, <4>6, <4>7, <5>1
      <4>8. CASE g # f
        <5>1. objects'[g] = objects[g] /\ written'[g] = written[g] /\ w \notin AboutToStore(g)
          BY <2>0, <2>2, <4>8 DEF AboutToStore
        <5>2. objects'[g] = "absent" => written'[g] = 0
          BY <5>1 DEF StoresLeft
        <5> QED BY <4>3, <4>4, <4>5, <4>6, <5>1, <5>2
      <4> QED BY <4>7, <4>8
    <3> QED BY <3>1 DEF StoresLeft
  <2> QED BY <1>3, <2>1, <2>2 DEF CompleteUpload
<1>4. ASSUME NEW w \in Workers,
             \/ Begin(w) \/ CreateUpload(w) \/ Connect(w) \/ Receive(w) \/ UploadFullPart(w) \/ EndOfFile(w)
             \/ Retry(w) \/ Check(w) \/ AbortUpload(w) \/ VerifyUpload(w) \/ PutManifest(w)
             \/ VerifyManifest(w) \/ Crash(w)
      PROVE  StoresLeft'
  <2>1. UNCHANGED <<objects, written>>
    BY <1>4 DEF Begin, CreateUpload, Connect, Receive, UploadFullPart, EndOfFile, Retry, Check, AbortUpload,
                VerifyUpload, PutManifest, VerifyManifest, Crash, bucketVars
  <2>2. ASSUME NEW f \in Files PROVE AboutToStore(f)' \subseteq AboutToStore(f)
    <3>1. CASE \/ Begin(w) \/ AbortUpload(w) \/ VerifyUpload(w) \/ PutManifest(w) \/ VerifyManifest(w) \/ Crash(w)
      BY <3>1 DEF Begin, AbortUpload, VerifyUpload, NextFile, Fails, PutManifest, VerifyManifest, Crash, Goto,
                  AboutToStore
    <3>2. CASE \/ CreateUpload(w) \/ Connect(w) \/ Receive(w) \/ Check(w)
      BY <3>2 DEF CreateUpload, Connect, Receive, Check, Goto, AboutToStore
    <3>3. CASE \/ UploadFullPart(w) \/ EndOfFile(w) \/ Retry(w)
      BY <3>3 DEF UploadFullPart, UploadPart, EndOfFile, Retry, Goto, AboutToStore
    <3> QED BY <1>4, <3>1, <3>2, <3>3
  <2> QED BY <1>1, <2>1, <2>2
<1>5. CASE UNCHANGED vars
  BY <1>1, <1>5 DEF vars, bucketVars, AboutToStore
<1> QED BY <1>2, <1>3, <1>4, <1>5 DEF Next, RunStep, FileStep

\* README: a restarted job stores no file twice.  With finitely many tasks a
\* file is stored at most once per task, however often each of them fails and is
\* begun again.
THEOREM StoredOncePerTask ==
  ASSUME IsFiniteSet(Workers)
  PROVE  Spec => []NotStoredAgain
<1>1. Init => StoresLeft
  <2> SUFFICES ASSUME Init, NEW f \in Files
               PROVE  written[f] = 0 /\ Cardinality(AboutToStore(f)) <= Cardinality(Workers)
                      /\ Cardinality(AboutToStore(f)) \in Nat
    BY DEF StoresLeft
  <2>1. AboutToStore(f) \subseteq Workers /\ written[f] = 0
    BY DEF Init, AboutToStore
  <2> QED BY <2>1, FS_Subset, FS_CardinalityType
<1>2. TypeOK /\ StoresLeft /\ [Next]_vars => StoresLeft'
  BY StoresStep
<1>3. TypeOK /\ StoresLeft => NotStoredAgain
  <2> SUFFICES ASSUME TypeOK, StoresLeft, NEW f \in Files PROVE written[f] <= Cardinality(Workers)
    BY DEF NotStoredAgain
  <2>1. AboutToStore(f) \subseteq Workers
    BY DEF AboutToStore
  <2>2. Cardinality(AboutToStore(f)) \in Nat /\ Cardinality(Workers) \in Nat
    BY <2>1, FS_Subset, FS_CardinalityType
  <2> QED BY <2>2 DEF StoresLeft, TypeOK, BucketTypes
<1> QED BY <1>1, <1>2, <1>3, TypeCorrect, PTL DEF Spec
=============================================================================
