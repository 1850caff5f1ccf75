---------------------------- MODULE MCCloudIngest ----------------------------
(***************************************************************************)
(* Two tasks ingest one job of two files: one of three blocks in parts of  *)
(* two, so that a part is full, a rest is left and a resume has to find    *)
(* the middle, and one of a single block.                                  *)
(***************************************************************************)
EXTENDS CloudIngest

CONSTANTS w1, w2

MCWorkers == {w1, w2}
MCSize == [f \in 1..2 |-> IF f = 1 THEN 3 ELSE 1]
=============================================================================
