------------------------------- MODULE PhaseRail -------------------------------
(***************************************************************************)
(* The phases of a case: what the server derives from its files              *)
(* (dashboard/state.py) and what the page makes of it                        *)
(* (dashboard/static/app.js).                                                *)
(***************************************************************************)
EXTENDS Sequences, Naturals

Phases == <<"intake", "plan", "design", "approval", "code", "test", "sizing", "output">>
PhaseSet == {Phases[i] : i \in DOMAIN Phases}
NoPhase == "none"

Generated == {"seed.py", "mongodb_indexes.json"}
Reports == {"sizing-report.json", "sizing-report.md"}
Legacy == {"mongo_repository.py", "test_mongo_repository.py"}
Artifacts == {"data-model.md", "sizing_inputs.json", "session.json"} \cup Generated
             \cup Reports \cup Legacy

(* Whether a phase is done, by the files there are, the status in            *)
(* data-model.md and whether the case has legacy code.                       *)
PhaseDone(phase, files, approval, legacy) ==
  CASE phase = "intake"   -> "intake.json" \in files
    [] phase = "plan"     -> "data-model.md" \in files
    [] phase = "design"   -> "sizing_inputs.json" \in files
    [] phase = "approval" -> approval = "approved"
    [] phase = "code"     -> /\ Generated \subseteq files
                             /\ legacy => "mongo_repository.py" \in files
    [] phase = "test"     -> legacy => "test_mongo_repository.py" \in files
    [] phase = "sizing"   -> Reports \subseteq files
    [] phase = "output"   -> Artifacts \ (IF legacy THEN {} ELSE Legacy) \subseteq files

(* The first phase that is not done is the active one; the others that are   *)
(* not done are pending.                                                     *)
ActivePhase(done) ==
  LET open == {i \in DOMAIN Phases : Phases[i] \notin done}
  IN IF open = {} THEN NoPhase
     ELSE Phases[CHOOSE i \in open : \A j \in open : i <= j]

PhaseStatus(done) ==
  LET active == ActivePhase(done)
  IN [p \in PhaseSet |-> IF p \in done THEN "done"
                         ELSE IF p = active THEN "active" ELSE "pending"]

-----------------------------------------------------------------------------
(* The page.  An overlay maps phases to the status that events have given    *)
(* them, or to "none".                                                       *)

PhaseRank(status) == CASE status = "fail" -> 3 [] status = "active" -> 2
                       [] status = "done" -> 1 [] OTHER -> 0

(* By the first name of the table that the target contains: that of the      *)
(* tests contains that of the repository, which comes before it.             *)
ArtifactPhase(file) ==
  CASE file \in {"data-model.md", "sizing_inputs.json"} -> "design"
    [] file = "session.json" -> "plan"
    [] file \in Generated \cup Legacy -> "code"
    [] file \in Reports -> "sizing"
    [] OTHER -> NoPhase

(* A file belongs to the active phase or to none; the model is written in    *)
(* the plan phase, too.  (A tool that is named createPlan counts like        *)
(* session.json.)                                                            *)
PhaseFromTarget(file, active) ==
  IF active = ArtifactPhase(file) \/ (file = "data-model.md" /\ active = "plan")
    THEN active ELSE NoPhase

\* Mutant: the step is taken for a phase.
StepAsPhase(step) == step

StepPhase(step) == CASE step = "sizing" -> "sizing"
                     [] step = "repository_tests" -> "test"
                     [] step \in {"seed", "indexes"} -> "code"
                     [] OTHER -> NoPhase

(* What the rail shows: an overlay wins unless it calls a phase active that  *)
(* is not the active one on the disk, or is of lower rank.                   *)
MergePhases(status, active, overlay) ==
  [p \in PhaseSet |->
     LET live == overlay[p]
     IN IF \/ live = "none"
           \/ live = "active" /\ active # NoPhase /\ p # active
           \/ PhaseRank(live) < PhaseRank(status[p])
          THEN status[p] ELSE live]
================================================================================
