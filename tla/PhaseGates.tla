------------------------------ MODULE PhaseGates ------------------------------
(***************************************************************************)
(* What the Approval and Tools phases promise (README, "Workflow phases"):  *)
(* nothing of the Generate phase is written and no tools pipeline runs      *)
(* before the data model has been approved, and a pipeline runs only when   *)
(* every artifact it needs is there.  No file, mode or thread appears here; *)
(* ApprovalFlow is shown to implement this specification.                   *)
(***************************************************************************)
CONSTANTS Procs,      \* whatever may run the tools pipeline
          Gated,      \* artifacts that only the Generate phase writes
          Ungated     \* the other artifacts the pipeline requires

VARIABLES approvedOnce,   \* the data model has been approved at some time
          artifacts,      \* the artifacts that exist
          running         \* the processes that run Docker, seed and sizing

vars == <<approvedOnce, artifacts, running>>

Init == /\ approvedOnce \in BOOLEAN
        /\ artifacts = {}
        /\ running = {}

Approve == /\ approvedOnce' = TRUE
           /\ UNCHANGED <<artifacts, running>>

Generate(a) == /\ a \in Gated => approvedOnce
               /\ artifacts' = artifacts \cup {a}
               /\ UNCHANGED <<approvedOnce, running>>

StartTools(p) == /\ approvedOnce
                 /\ Gated \cup Ungated \subseteq artifacts
                 /\ running' = running \cup {p}
                 /\ UNCHANGED <<approvedOnce, artifacts>>

(* Pipelines end, one by one or, when their process dies, together. *)
StopTools == /\ running' \subseteq running
             /\ UNCHANGED <<approvedOnce, artifacts>>

Next == \/ Approve
        \/ \E a \in Gated \cup Ungated : Generate(a)
        \/ \E p \in Procs : StartTools(p)
        \/ StopTools

Spec == Init /\ [][Next]_vars
=============================================================================
