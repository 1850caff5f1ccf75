----------------------------- MODULE RunContract -----------------------------
(***************************************************************************)
(* What the protocol promises about blind replay runs: at most one is in   *)
(* progress, a new one ends the old one, and none comes back.              *)
(***************************************************************************)
CONSTANTS Run, NoRun

VARIABLES
  current,   \* the run in progress, or NoRun
  past       \* runs that ended

ContractInit == current = NoRun /\ past = {}

WithCurrent == past \cup ({current} \ {NoRun})

Start(r) ==
  /\ r \notin WithCurrent
  /\ current' = r /\ past' = WithCurrent

End ==
  /\ current' = NoRun /\ past' = WithCurrent

ContractNext == End \/ \E r \in Run : Start(r)

ContractSpec == ContractInit /\ [][ContractNext]_<<current, past>>
=============================================================================
