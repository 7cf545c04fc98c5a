----------------------------- MODULE ToolsPipeline -----------------------------
(***************************************************************************)
(* run_tools_pipeline of agent/tools_runner.py and the scripts it runs, on   *)
(* the one database of a case: seed.py --clear, apply_indexes.py,            *)
(* size_from_dbstats.py, the repository tests and the cleanup.  Invocations  *)
(* may fail, be killed and be followed by others.  Nothing in the code keeps *)
(* two of them apart: Overlap says whether they may run at the same time     *)
(* (two clicks, or a click and a terminal) or whether their users wait.      *)
(***************************************************************************)
EXTENDS Naturals

CONSTANTS Runs,      \* invocations of the pipeline
          N,         \* collections, in the order of seed.py
          Records,   \* documents per collection (RECORDS, 500)
          Unique,    \* collections with a unique index on the seeded key
          Overlap,   \* may two invocations run at the same time?
          NoReport, TornReport   \* no file, a file that is being written

ASSUME SizesAssumption == N \in Nat \ {0} /\ Records \in Nat \ {0}
ASSUME UniqueAssumption == Unique \subseteq 1..N

Cols == 1..N
Keys == 1..Records
Steps == {"docker_stack", "seed", "indexes", "sizing", "repository_tests", "cleanup"}

(* What the statistics show of a collection; the documents are counted by    *)
(* key, which seed.py derives from their number.                             *)
Stats == [docs : [Keys -> Nat], indexed : BOOLEAN]
Empty == [k \in Keys |-> 0]
Full == [k \in Keys |-> 1]
Exact == [c \in Cols |-> [docs |-> Full, indexed |-> TRUE]]

ASSUME SentinelsAssumption == {NoReport, TornReport} \cap [Cols -> Stats] = {}

VARIABLES docs,      \* the documents of each collection, by key
          indexed,   \* the collections whose indexes are built
          json, md,  \* sizing-report.json and .md
          by,        \* history: the invocations that have written them last
          pc,        \* where each invocation is
          col, key,  \* the collection and the key it has got to
          snap,      \* the statistics it has read
          shown      \* the last event of each pipeline step

vars == <<docs, indexed, json, md, by, pc, col, key, snap, shown>>
database == <<docs, indexed>>
reports == <<json, md, by>>

Over == {"idle", "done", "failed", "killed"}
Working == {"docker", "drop", "insert", "index", "inputs", "stats", "open",
            "close", "md", "fill", "tests", "cleanup", "prompt", "clear"}
Active(p) == pc[p] \in Working

TypeOK ==
  /\ docs \in [Cols -> [Keys -> Nat]]
  /\ indexed \subseteq Cols
  /\ json \in [Cols -> Stats] \cup {NoReport, TornReport}
  /\ md \in [Cols -> Stats] \cup {NoReport, TornReport}
  /\ by \in [json : Runs \cup {NoReport}, md : Runs \cup {NoReport}]
  /\ pc \in [Runs -> Over \cup Working]
  /\ col \in [Runs -> Cols] /\ key \in [Runs -> Keys]
  /\ snap \in [Runs -> [Cols -> Stats]]
  /\ shown \in [Runs -> [Steps -> {"none", "running", "ok", "fail"}]]

Init ==
  /\ docs = [c \in Cols |-> Empty] /\ indexed = {}
  /\ json = NoReport /\ md = NoReport
  /\ by = [json |-> NoReport, md |-> NoReport]
  /\ pc = [p \in Runs |-> "idle"]
  /\ col = [p \in Runs |-> 1] /\ key = [p \in Runs |-> 1]
  /\ snap = [p \in Runs |-> [c \in Cols |-> [docs |-> Empty, indexed |-> FALSE]]]
  /\ shown = [p \in Runs |-> [s \in Steps |-> "none"]]

-----------------------------------------------------------------------------
Goto(p, from, to) == pc[p] = from /\ pc' = [pc EXCEPT ![p] = to]

Emit(p, step, status) == shown' = [shown EXCEPT ![p][step] = status]

(* One step has ended well and the next is announced. *)
EmitNext(p, step, next) == shown' = [shown EXCEPT ![p][step] = "ok", ![p][next] = "running"]

(* Mutant: the exception goes on without the event. *)
FailsSilently(p, from, step) == Goto(p, from, "failed") /\ UNCHANGED shown

(* Mutant: a word for failure that is not one of the statuses. *)
FailsInOtherWords(p, from, step) == Goto(p, from, "failed") /\ Emit(p, step, "error")

(* A subprocess failed: its step is shown as failed and the exception goes    *)
(* on.  Only CalledProcessError is caught; for the others see Kill.          *)
Fails(p, from, step) == Goto(p, from, "failed") /\ Emit(p, step, "fail")

(* One round of a loop over the collections. *)
EachCollection(p, from, to) ==
  IF col[p] < N THEN /\ pc[p] = from /\ UNCHANGED pc
                     /\ col' = [col EXCEPT ![p] = @ + 1]
                ELSE Goto(p, from, to) /\ col' = [col EXCEPT ![p] = 1]

LastRound(p) == col[p] = N

-----------------------------------------------------------------------------
Start(p) ==
  /\ Overlap \/ \A q \in Runs : ~Active(q)
  /\ Goto(p, "idle", "docker")
  /\ Emit(p, "docker_stack", "running")
  /\ UNCHANGED <<database, reports, col, key, snap>>

StartStack(p) ==
  /\ \/ Goto(p, "docker", "drop") /\ EmitNext(p, "docker_stack", "seed")
     \/ Fails(p, "docker", "docker_stack")
  /\ UNCHANGED <<database, reports, col, key, snap>>

(* Mutant: seed.py without --clear. *)
DocsKept(c) == docs

DocsDropped(c) == [docs EXCEPT ![c] = Empty]

(* seed.py --clear drops every collection, and its indexes, first.           *)
DropCollection(p) ==
  /\ EachCollection(p, "drop", "insert")
  /\ docs' = DocsDropped(col[p])
  /\ indexed' = indexed \ {col[p]}
  /\ UNCHANGED <<reports, key, snap, shown>>

(* The keys are the same in every run, so a unique index that another run    *)
(* has built rejects a document that another run has inserted.               *)
Collides(p) == /\ col[p] \in Unique \cap indexed
               /\ docs[col[p]][key[p]] > 0

InsertDocument(p) ==
  /\ pc[p] = "insert" /\ ~Collides(p)
  /\ docs' = [docs EXCEPT ![col[p]][key[p]] = @ + 1]
  /\ IF key[p] < Records
       THEN /\ key' = [key EXCEPT ![p] = @ + 1]
            /\ UNCHANGED <<pc, col, shown>>
       ELSE /\ key' = [key EXCEPT ![p] = 1]
            /\ EachCollection(p, "insert", "index")
            /\ IF LastRound(p) THEN EmitNext(p, "seed", "indexes") ELSE UNCHANGED shown
  /\ UNCHANGED <<indexed, reports, snap>>

SeedFails(p) ==
  /\ \/ Fails(p, "drop", "seed")
     \/ Fails(p, "insert", "seed")     \* also a collision
  /\ UNCHANGED <<database, reports, col, key, snap>>

(* A unique index is not built over duplicates; one that is there stays.     *)
Duplicates(c) == c \in Unique \ indexed /\ \E k \in Keys : docs[c][k] > 1

BuildIndexes(p) ==
  /\ ~Duplicates(col[p])
  /\ EachCollection(p, "index", "inputs")
  /\ indexed' = indexed \cup {col[p]}
  /\ IF LastRound(p) THEN Emit(p, "indexes", "ok") ELSE UNCHANGED shown
  /\ UNCHANGED <<docs, reports, key, snap>>

IndexesFail(p) ==
  /\ Fails(p, "index", "indexes")
  /\ UNCHANGED <<database, reports, col, key, snap>>

(* Mutant: without valid inputs the pipeline begins again. *)
LoadInputsOrRestart(p) ==
  /\ \/ Goto(p, "inputs", "stats") /\ Emit(p, "sizing", "running")
     \/ Goto(p, "inputs", "docker") /\ Emit(p, "docker_stack", "running")
  /\ UNCHANGED <<database, reports, col, key, snap>>

(* sizing_inputs.json is loaded and validated between two steps; what it     *)
(* raises is not shown as the failure of any step.                           *)
LoadInputs(p) ==
  /\ \/ Goto(p, "inputs", "stats") /\ Emit(p, "sizing", "running")
     \/ Goto(p, "inputs", "failed") /\ UNCHANGED shown
  /\ UNCHANGED <<database, reports, col, key, snap>>

(* collStats, one collection after the other. *)
ReadStats(p) ==
  /\ EachCollection(p, "stats", "open")
  /\ snap' = [snap EXCEPT ![p][col[p]] =
                [docs |-> docs[col[p]], indexed |-> col[p] \in indexed]]
  /\ UNCHANGED <<database, reports, key, shown>>

OpenJson(p) ==
  /\ Goto(p, "open", "close")
  /\ json' = TornReport
  /\ by' = [by EXCEPT !.json = p]
  /\ UNCHANGED <<database, md, col, key, snap, shown>>

CloseJson(p) ==
  /\ Goto(p, "close", "md")
  /\ json' = snap[p]
  /\ by' = [by EXCEPT !.json = p]
  /\ UNCHANGED <<database, md, col, key, snap, shown>>

(* The Markdown report is rendered from the same statistics, afterwards;      *)
(* write_text empties the file before it writes it.                          *)
OpenMd(p) ==
  /\ Goto(p, "md", "fill")
  /\ md' = TornReport
  /\ by' = [by EXCEPT !.md = p]
  /\ UNCHANGED <<database, json, col, key, snap, shown>>

FillMd(p) ==
  /\ Goto(p, "fill", "tests")
  /\ md' = snap[p]
  /\ by' = [by EXCEPT !.md = p]
  /\ Emit(p, "sizing", "ok")
  /\ UNCHANGED <<database, json, col, key, snap>>

SizingFails(p) ==
  /\ \E from \in {"stats", "open", "close", "md", "fill"} : Fails(p, from, "sizing")
  /\ UNCHANGED <<database, reports, col, key, snap>>

(* The tests run when test_mongo_repository.py is there. *)
RepositoryTests(p) ==
  /\ \/ Goto(p, "tests", "cleanup") /\ UNCHANGED shown
     \/ Goto(p, "tests", "cleanup") /\ Emit(p, "repository_tests", "ok")
     \/ Fails(p, "tests", "repository_tests")
  /\ UNCHANGED <<database, reports, col, key, snap>>

(* With --no-cleanup or without a terminal the database stays; with --cleanup *)
(* it goes; else the user is asked.                                          *)
Cleanup(p) ==
  /\ \/ Goto(p, "cleanup", "done") /\ UNCHANGED shown
     \/ Goto(p, "cleanup", "prompt") /\ UNCHANGED shown
     \/ Goto(p, "cleanup", "clear") /\ Emit(p, "cleanup", "running")
  /\ UNCHANGED <<database, reports, col, key, snap>>

(* input() waits for as long as the user likes, and raises at the end of the *)
(* terminal.                                                                 *)
AnswerPrompt(p) ==
  /\ \/ Goto(p, "prompt", "done") /\ UNCHANGED shown
     \/ Goto(p, "prompt", "failed") /\ UNCHANGED shown
     \/ Goto(p, "prompt", "clear") /\ Emit(p, "cleanup", "running")
  /\ UNCHANGED <<database, reports, col, key, snap>>

(* A cleanup that fails has been announced and is not shown as failed.       *)
ClearDatabase(p) ==
  /\ \/ /\ Goto(p, "clear", "done")
        /\ docs' = [c \in Cols |-> Empty] /\ indexed' = {}
        /\ Emit(p, "cleanup", "ok")
     \/ Goto(p, "clear", "failed") /\ UNCHANGED <<database, shown>>
  /\ UNCHANGED <<reports, col, key, snap>>

(* The last process of the pipeline dies; database and files stay as they    *)
(* are, and no event tells.  A script that outlives run_tools_pipeline goes  *)
(* on to its end: that is the same, later.  An exception that no clause      *)
(* catches (a program that cannot be started) is the same, too.              *)
Kill(p) ==
  /\ Active(p)
  /\ pc' = [pc EXCEPT ![p] = "killed"]
  /\ UNCHANGED <<database, reports, col, key, snap, shown>>

PipelineStep(p) ==
  \/ StartStack(p) \/ DropCollection(p) \/ InsertDocument(p) \/ SeedFails(p)
  \/ BuildIndexes(p) \/ IndexesFail(p) \/ LoadInputs(p) \/ ReadStats(p)
  \/ OpenJson(p) \/ CloseJson(p) \/ OpenMd(p) \/ FillMd(p) \/ SizingFails(p)
  \/ RepositoryTests(p) \/ Cleanup(p) \/ ClearDatabase(p)

Next == \E p \in Runs : Start(p) \/ PipelineStep(p) \/ AnswerPrompt(p) \/ Kill(p)

Spec == Init /\ [][Next]_vars

(* A pipeline that has started goes on; nothing has to be started, answered  *)
(* or killed.                                                                *)
FairSpec == Spec /\ \A p \in Runs : WF_vars(PipelineStep(p))

-----------------------------------------------------------------------------
(* README:251, README:367: the reports are made from exactly Records          *)
(* documents per collection and all the indexes, whatever earlier runs that  *)
(* failed or were killed have left in the database.                          *)
ReportExact == /\ json \notin {NoReport, TornReport} => json = Exact
               /\ md \notin {NoReport, TornReport} => md = Exact

(* A rerun is never stopped by what an earlier run left: no insert meets a   *)
(* unique index that rejects it, no unique index meets duplicates.           *)
RerunIsClean ==
  \A p \in Runs : /\ pc[p] = "insert" => ~Collides(p)
                  /\ pc[p] = "index" => ~Duplicates(col[p])

(* The dashboard is not left with a step that goes on for ever: when a        *)
(* pipeline is over, other than by its death or by an exception that no       *)
(* clause catches, every step before the cleanup that was announced is shown *)
(* as ended, and a step that failed is the last one.                         *)
StepsClosed ==
  \A p \in Runs : pc[p] \in {"done", "failed"} =>
    /\ \A s \in Steps \ {"cleanup"} : shown[p][s] # "running"
    /\ \A s \in Steps : shown[p][s] = "fail" => pc[p] = "failed" /\ shown[p]["cleanup"] = "none"

(* agent/tools_runner.py, from the outside: pipelines that wait for one       *)
(* another are single measurements of an exactly seeded database, and one    *)
(* that is done has left both reports, of its own measurement.               *)
Stage(place) == IF place \in {"idle", "done"} THEN place
                ELSE IF place \in {"failed", "killed"} THEN "stopped"
                ELSE IF place = "close" THEN "writing"
                ELSE IF place = "md" THEN "rendering"
                ELSE IF place = "fill" THEN "finishing"
                ELSE IF place \in {"tests", "cleanup", "prompt", "clear"} THEN "checking"
                ELSE "measuring"

Reports == INSTANCE PipelineReports
             WITH Figures <- Exact, stage <- [p \in Runs |-> Stage(pc[p])]
ImplementsReports == Reports!Spec

(* Whatever fails, a pipeline that has started comes to an end or to its      *)
(* question, and from the answer to its end.                                 *)
Ends == \A p \in Runs : /\ pc[p] = "docker" ~> pc[p] \in {"done", "failed", "killed", "prompt"}
                        /\ pc[p] = "clear" ~> pc[p] \in {"done", "failed", "killed"}
=============================================================================
