------------------------------ MODULE MCDashboard ------------------------------
(* Dashboard with two cases: one is before its approval and lacks only its   *)
(* indexes, so that all its phases may be done; the other has legacy code    *)
(* and only its intake.                                                      *)
EXTENDS Dashboard

MCCases == {"a", "b"}
MCOpened == "a"
MCLegacyCases == {"b"}
MCDisks ==
  {[c \in MCCases |->
      IF c = "a"
        THEN [files |-> {"intake.json", "data-model.md", "sizing_inputs.json", "session.json",
                         "seed.py", "sizing-report.json", "sizing-report.md"},
              approval |-> "pending"]
        ELSE [files |-> {"intake.json"}, approval |-> "missing"]]}
MCTargets == {"mongodb_indexes.json"}

(* For the rail: the status is read before the phases and with them.         *)
MCWritable == {<<"a", "mongodb_indexes.json">>}
MCReading == <<PhaseSet>>
MCSteps == {"seed"} \X {"running", "ok", "fail"}

(* For the feed: no file changes, and one kind of step comes in between.      *)
MCNoFiles == {}
MCApproved == {[disks EXCEPT !["a"].approval = "approved"] : disks \in MCDisks}
MCOkStep == {<<"seed", "ok">>}
===============================================================================
