------------------------------ MODULE DurableJob ------------------------------
(***************************************************************************)
(* What a durable queue promises of a job, however its rows, workers,      *)
(* recovery loops and administrators interleave.  The scan, index and      *)
(* webhook queues implement it.                                            *)
(*                                                                         *)
(* A job whose claim nobody has taken away is settled once and for all.  A *)
(* contested job, one that recovery or an administrator has put back while *)
(* a worker may still hold it, may be settled and reopened again: it is    *)
(* processed at least once.  No job is ever completed before its work has  *)
(* been done.                                                              *)
(***************************************************************************)
CONSTANT Jobs

VARIABLES
  phase,     \* where each job stands
  done,      \* jobs whose work has been done at least once
  contested  \* jobs whose claim has been taken away

vars == <<phase, done, contested>>

PresentPhases == {"pending", "completed", "failed", "cancelled"}
Phases == PresentPhases \cup {"absent", "deleted"}

Init ==
  /\ phase = [j \in Jobs |-> "absent"]
  /\ done = {}
  /\ contested = {}

Submit(j) == phase[j] = "absent" /\ phase'[j] = "pending"

Complete(j) == phase[j] = "pending" /\ j \in done /\ phase'[j] = "completed"

GiveUp(j) == phase[j] = "pending" /\ phase'[j] \in {"failed", "cancelled"}

\* Two parties settle a contested job, in any order.
SettleAgain(j) ==
  /\ j \in contested'
  /\ phase[j] \in PresentPhases
  /\ \/ phase'[j] \in {"pending", "failed"}
     \/ phase'[j] = "completed" /\ j \in done

Delete(j) == phase[j] \in PresentPhases /\ phase'[j] = "deleted"

JobStep(j) ==
  \/ phase'[j] = phase[j]
  \/ Submit(j) \/ Complete(j) \/ GiveUp(j) \/ SettleAgain(j) \/ Delete(j)

\* One statement may settle, put back or delete several jobs.
Next ==
  /\ phase' \in [Jobs -> Phases]
  /\ \A j \in Jobs : JobStep(j)
  /\ done \subseteq done' /\ done' \subseteq {j \in Jobs : phase'[j] # "absent"}
  /\ contested \subseteq contested' /\ contested' \subseteq {j \in Jobs : phase'[j] # "absent"}

Spec == Init /\ [][Next]_vars
===============================================================================
