--------------------------- MODULE IngestContract ---------------------------
(***************************************************************************)
(* What an ingest promises about the bucket: files are stored one by one,  *)
(* a stored file stays what it is, and the manifest that the later stages  *)
(* read appears only when every file of the job is stored.                 *)
(***************************************************************************)
CONSTANT Files

VARIABLES
  stored,      \* files whose object holds exactly the bytes Databento listed
  published    \* the manifest is there

contractVars == <<stored, published>>

ContractInit == stored = {} /\ published = FALSE

Store(f) ==
  /\ stored' = stored \cup {f}
  /\ UNCHANGED published

Publish ==
  /\ stored = Files
  /\ published' = TRUE
  /\ UNCHANGED stored

ContractNext == Publish \/ \E f \in Files : Store(f)

ContractSpec == ContractInit /\ [][ContractNext]_contractVars
=============================================================================
