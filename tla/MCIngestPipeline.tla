---------------------------- MODULE MCIngestPipeline ----------------------------
(* Reports and symmetry for the model checking of IngestPipeline. *)
EXTENDS IngestPipeline, TLC

CONSTANTS j1, j2, j3, k1, k2

Of(type, name, date, found, code) ==
  [type |-> type, name |-> name, date |-> date, found |-> found, code |-> code]

\* A branch, the same branch without its name, and a pull request of that name.
AllReports == j1 :> Of("branch", "main", 1, {k1}, TRUE)
           @@ j2 :> Of("branch", "", 2, {k1, k2}, FALSE)
           @@ j3 :> Of("pull_request", "main", 3, {k1}, TRUE)

Reported == [j \in Jobs |-> AllReports[j]]

\* The gate fails in comparison with the first report.
Gates == [j \in Jobs |-> [p \in Jobs \cup {None} |-> IF p = j1 THEN "ERROR" ELSE "OK"]]

Symmetry == Permutations(Workers)
=============================================================================
