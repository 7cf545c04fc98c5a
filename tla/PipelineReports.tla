---------------------------- MODULE PipelineReports ----------------------------
(***************************************************************************)
(* What a case may rely on when its pipelines follow one another: each takes *)
(* one look at a database that holds just what its seed makes, and both      *)
(* reports are written from that look, the JSON first; a pipeline that is    *)
(* done has left both, and they are its own.  Documents, indexes and loops   *)
(* do not appear here.                                                       *)
(***************************************************************************)
CONSTANTS Runs,
          Figures,                 \* of a database that was seeded exactly
          NoReport, TornReport

VARIABLES stage,    \* what each pipeline is about
          json, md,
          by        \* whose they are

vars == <<stage, json, md, by>>
reports == <<json, md, by>>

AtWork == {"measuring", "writing", "rendering", "finishing", "checking"}

Init == /\ stage = [p \in Runs |-> "idle"]
        /\ json = NoReport /\ md = NoReport
        /\ by = [json |-> NoReport, md |-> NoReport]

Move(p, from, to) == stage[p] = from /\ stage' = [stage EXCEPT ![p] = to]

Begin(p) == /\ \A q \in Runs : stage[q] \notin AtWork
            /\ Move(p, "idle", "measuring")
            /\ UNCHANGED reports

(* Nothing is written before all has been measured. *)
Open(p) == /\ Move(p, "measuring", "writing")
           /\ json' = TornReport
           /\ by' = [by EXCEPT !.json = p]
           /\ UNCHANGED md

Close(p) == /\ Move(p, "writing", "rendering")
            /\ json = TornReport /\ by.json = p
            /\ json' = Figures
            /\ UNCHANGED <<md, by>>

Render(p) == /\ Move(p, "rendering", "finishing")
             /\ json = Figures /\ by.json = p
             /\ md' = TornReport
             /\ by' = [by EXCEPT !.md = p]
             /\ UNCHANGED json

Finish(p) == /\ Move(p, "finishing", "checking")
             /\ md = TornReport /\ by = [json |-> p, md |-> p]
             /\ md' = Figures
             /\ UNCHANGED <<json, by>>

Succeed(p) == /\ Move(p, "checking", "done")
              /\ json = Figures /\ md = Figures
              /\ by = [json |-> p, md |-> p]
              /\ UNCHANGED reports

(* It fails or is killed; what it has written stays. *)
Stop(p) == /\ \E from \in AtWork : Move(p, from, "stopped")
           /\ UNCHANGED reports

Next == \E p \in Runs : \/ Begin(p) \/ Open(p) \/ Close(p) \/ Render(p)
                        \/ Finish(p) \/ Succeed(p) \/ Stop(p)

Spec == Init /\ [][Next]_vars
================================================================================
