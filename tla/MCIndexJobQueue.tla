---------------------------- MODULE MCIndexJobQueue ----------------------------
(***************************************************************************)
(* Constants of IndexJobQueue for model checking that a .cfg cannot write. *)
(***************************************************************************)
EXTENDS IndexJobQueue, TLC

\* Workers, enqueuers and scans differ in nothing but their names.
Symmetry == Permutations(Workers) \cup Permutations(Enqueuers) \cup Permutations(Scans)

================================================================================
