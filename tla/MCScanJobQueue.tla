---------------------------- MODULE MCScanJobQueue ----------------------------
(***************************************************************************)
(* Constants of ScanJobQueue for model checking that a .cfg cannot write.  *)
(***************************************************************************)
EXTENDS ScanJobQueue, TLC

\* Workers, and submitters, differ in nothing but their names.
Symmetry == Permutations(Workers) \cup Permutations(Submitters)

===============================================================================
