---- MODULE MCSystemTask ----
(* Instances of SystemTask for TLC. *)
EXTENDS SystemTask, TLC

CONSTANTS r1, r2, r3, poll, cleanup

\* Runner ids are interchangeable; only safety runs use this.
RunnerSymmetry == Permutations(Runners)
====
