-------------------------- MODULE ToolsPipelineProofs --------------------------
(***************************************************************************)
(* Reports are exact and reruns clean for any number of runs, collections    *)
(* and documents, as long as no two runs overlap, and the pipelines then     *)
(* implement PipelineReports; the steps shown are closed also when they do.  *)
(***************************************************************************)
EXTENDS ToolsPipeline, TLAPS

AllFull == [c \in Cols |-> Full]

(* The documents of a collection when the keys below k are in.               *)
Partial(k) == [j \in Keys |-> IF j < k THEN 1 ELSE 0]

Alone == \A p, q \in Runs : Active(p) /\ Active(q) => p = q

(* What a run has made of the database when it is at its place.  Nothing is  *)
(* known before the drops: that is what the earlier runs have left.          *)
Progress(p) ==
  /\ pc[p] \in {"idle", "docker"} => col[p] = 1 /\ key[p] = 1
  /\ pc[p] = "drop" => /\ key[p] = 1
                       /\ \A c \in Cols : c < col[p] => docs[c] = Empty /\ c \notin indexed
  /\ pc[p] = "insert" => /\ indexed = {}
                         /\ docs[col[p]] = Partial(key[p])
                         /\ \A c \in Cols : /\ c < col[p] => docs[c] = Full
                                            /\ c > col[p] => docs[c] = Empty
  /\ pc[p] = "index" => docs = AllFull /\ indexed = {c \in Cols : c < col[p]}
  /\ pc[p] = "inputs" => docs = AllFull /\ indexed = Cols /\ col[p] = 1
  /\ pc[p] = "stats" => /\ docs = AllFull /\ indexed = Cols
                        /\ \A c \in Cols : c < col[p] => snap[p][c] = Exact[c]
  /\ pc[p] \in {"open", "close", "md", "fill"} => snap[p] = Exact

IInv == TypeOK /\ Alone /\ (\A p \in Runs : Progress(p)) /\ ReportExact

(* Empty, full and partial collections. *)
LEMMA Contents ==
  /\ Empty \in [Keys -> Nat] /\ Full \in [Keys -> Nat]
  /\ Partial(1) = Empty
  /\ \A k \in Keys : Partial(k) \in [Keys -> Nat]
  /\ \A k \in Keys : Partial(k)[k] = 0
  /\ \A k \in Keys : k < Records => [Partial(k) EXCEPT ![k] = 1] = Partial(k + 1)
  /\ [Partial(Records) EXCEPT ![Records] = 1] = Full
  /\ 1 \in Keys /\ 1 \in Cols /\ Records \in Keys
<1>1. Keys \subseteq Nat /\ 1 \in Keys /\ 1 \in Cols /\ Records \in Keys
  BY SizesAssumption DEF Keys, Cols
<1>2. Partial(1) = Empty
  <2>1. \A j \in Keys : ~(j < 1)
    BY SizesAssumption DEF Keys
  <2> QED BY <2>1 DEF Partial, Empty
<1>3. ASSUME NEW k \in Keys PROVE Partial(k) \in [Keys -> Nat] /\ Partial(k)[k] = 0
  BY <1>1 DEF Partial
<1>4. ASSUME NEW k \in Keys, k < Records
      PROVE  [Partial(k) EXCEPT ![k] = 1] = Partial(k + 1)
  <2>1. \A j \in Keys : (IF j = k THEN 1 ELSE IF j < k THEN 1 ELSE 0)
                         = (IF j < k + 1 THEN 1 ELSE 0)
    BY <1>1
  <2>2. [Partial(k) EXCEPT ![k] = 1]
          = [j \in Keys |-> IF j = k THEN 1 ELSE IF j < k THEN 1 ELSE 0]
    BY DEF Partial
  <2> QED BY <2>1, <2>2 DEF Partial
<1>5. [Partial(Records) EXCEPT ![Records] = 1] = Full
  <2>1. \A j \in Keys : (IF j = Records THEN 1 ELSE IF j < Records THEN 1 ELSE 0) = 1
    BY SizesAssumption DEF Keys
  <2>2. [Partial(Records) EXCEPT ![Records] = 1]
          = [j \in Keys |-> IF j = Records THEN 1 ELSE IF j < Records THEN 1 ELSE 0]
    BY DEF Partial
  <2> QED BY <2>1, <2>2 DEF Full
<1>6. Empty \in [Keys -> Nat] /\ Full \in [Keys -> Nat]
  BY DEF Empty, Full
<1> QED BY <1>1, <1>2, <1>3, <1>4, <1>5, <1>6

(* The collections and the keys are counted. *)
LEMMA Order ==
  /\ \A a, b \in Cols : /\ a < b + 1 <=> a < b \/ a = b
                        /\ a > b + 1 => a > b
                        /\ a < b \/ a > b => a # b
  /\ \A a \in Cols : /\ a < N \/ a = N
                     /\ a < N => a + 1 \in Cols /\ a + 1 > a
                     /\ a < N + 1 /\ ~(a < 1)
  /\ \A k \in Keys : /\ k < Records \/ k = Records
                     /\ k < Records => k + 1 \in Keys
  BY SizesAssumption DEF Cols, Keys

(* What a complete report contains. *)
LEMMA ExactType == Exact \in [Cols -> Stats] /\ Exact \notin {NoReport, TornReport}
<1>1. Exact \in [Cols -> Stats]
  BY Contents DEF Exact, Stats
<1> QED BY <1>1, SentinelsAssumption

(* One round of a loop over the collections. *)
LEMMA EachCollectionEffect ==
  ASSUME TypeOK, NEW p \in Runs, NEW from, NEW to \in Working, EachCollection(p, from, to)
  PROVE  /\ pc[p] = from
         /\ \/ /\ col[p] < N /\ pc' = pc /\ col' = [col EXCEPT ![p] = col[p] + 1]
               /\ col[p] + 1 \in Cols
            \/ col[p] = N /\ pc' = [pc EXCEPT ![p] = to] /\ col' = [col EXCEPT ![p] = 1]
         /\ pc' \in [Runs -> Over \cup Working] /\ col' \in [Runs -> Cols]
         /\ \A q \in Runs \ {p} : pc'[q] = pc[q] /\ col'[q] = col[q]
<1>1. col[p] \in Cols /\ N \in Nat
  BY SizesAssumption DEF TypeOK
<1>2. CASE col[p] < N
  <2>1. pc[p] = from /\ pc' = pc /\ col' = [col EXCEPT ![p] = col[p] + 1]
    BY <1>2 DEF EachCollection
  <2>2. col[p] + 1 \in Cols
    BY <1>1, <1>2 DEF Cols
  <2> QED BY <1>2, <2>1, <2>2 DEF TypeOK
<1>3. CASE ~(col[p] < N)
  <2>1. Goto(p, from, to) /\ col' = [col EXCEPT ![p] = 1]
    BY <1>3 DEF EachCollection
  <2>2. col[p] = N
    BY <1>1, <1>3 DEF Cols
  <2> QED BY <2>1, <2>2, Contents DEF Goto, TypeOK
<1> QED BY <1>2, <1>3

(* When an active run moves, only it has progress to make good.              *)
LEMMA Frame ==
  ASSUME IInv, NEW p \in Runs, Active(p),
         \A q \in Runs \ {p} : pc'[q] = pc[q] /\ col'[q] = col[q] /\ key'[q] = key[q],
         TypeOK', Progress(p)', ReportExact'
  PROVE  IInv'
<1>1. \A q \in Runs \ {p} : ~Active(q) /\ ~Active(q)'
  BY DEF IInv, Alone, Active
<1>2. Alone'
  BY <1>1 DEF Alone
<1>3. \A q \in Runs \ {p} : Progress(q)'
  <2> SUFFICES ASSUME NEW q \in Runs \ {p} PROVE Progress(q)'
    OBVIOUS
  <2>1. pc'[q] \notin Working
    BY <1>1 DEF Active
  <2>2. pc[q] = "idle" => col[q] = 1 /\ key[q] = 1
    BY DEF IInv, Progress
  <2> QED BY <2>1, <2>2 DEF Progress, Working
<1> QED BY <1>2, <1>3 DEF IInv

(* The initial states. *)
LEMMA InitIInv == Init => IInv
<1> SUFFICES ASSUME Init PROVE IInv
  OBVIOUS
<1>1. TypeOK
  BY Contents DEF Init, TypeOK, Over, Stats, Steps
<1>2. Alone /\ \A p \in Runs : Progress(p)
  BY DEF Init, Alone, Active, Progress, Working
<1>3. ReportExact
  BY DEF Init, ReportExact
<1> QED BY <1>1, <1>2, <1>3 DEF IInv

-----------------------------------------------------------------------------
(* The steps of the run p that leave database, reports and progress alone,   *)
(* or end it.                                                                *)

Ended(p) == /\ pc' = [pc EXCEPT ![p] = pc'[p]] /\ pc'[p] \in {"done", "failed", "killed"}
            /\ UNCHANGED <<col, key, snap, reports>>
            /\ docs' \in [Cols -> [Keys -> Nat]] /\ indexed' \subseteq Cols
            /\ shown' \in [Runs -> [Steps -> {"none", "running", "ok", "fail"}]]

(* A run that ends needs to have achieved nothing. *)
LEMMA EndedKeepsIInv == ASSUME IInv, NEW p \in Runs, Active(p), Ended(p) PROVE IInv'
<1>1. TypeOK'
  BY DEF Ended, IInv, TypeOK, reports, Over
<1>2. Progress(p)'
  BY DEF Ended, Progress
<1>3. ReportExact'
  BY DEF Ended, IInv, ReportExact, reports
<1>4. \A q \in Runs \ {p} : pc'[q] = pc[q] /\ col'[q] = col[q] /\ key'[q] = key[q]
  BY DEF Ended, IInv, TypeOK
<1> QED BY <1>1, <1>2, <1>3, <1>4, Frame

(* Events keep their types. *)
LEMMA EmitType ==
  ASSUME TypeOK, NEW p \in Runs, NEW s \in Steps, NEW t \in Steps,
         NEW status \in {"none", "running", "ok", "fail"},
         Emit(p, s, status) \/ EmitNext(p, s, t) \/ UNCHANGED shown
  PROVE  shown' \in [Runs -> [Steps -> {"none", "running", "ok", "fail"}]]
<1> DEFINE Rows == [Steps -> {"none", "running", "ok", "fail"}]
<1>1. shown \in [Runs -> Rows]
  BY DEF TypeOK
<1>2. CASE Emit(p, s, status)
  <2>1. [shown[p] EXCEPT ![s] = status] \in Rows
    BY <1>1
  <2>2. shown' = [shown EXCEPT ![p] = [shown[p] EXCEPT ![s] = status]]
    BY <1>2 DEF Emit
  <2> QED BY <1>1, <2>1, <2>2
<1>3. CASE EmitNext(p, s, t)
  <2> DEFINE mid == [shown EXCEPT ![p] = [shown[p] EXCEPT ![s] = "ok"]]
  <2>1. [shown[p] EXCEPT ![s] = "ok"] \in Rows
    BY <1>1
  <2>2. mid \in [Runs -> Rows]
    BY <1>1, <2>1
  <2>3. shown' = [mid EXCEPT ![p] = [mid[p] EXCEPT ![t] = "running"]]
    BY <1>3 DEF EmitNext
  <2> HIDE DEF mid
  <2>4. [mid[p] EXCEPT ![t] = "running"] \in Rows
    BY <2>2
  <2> QED BY <2>2, <2>3, <2>4
<1> QED BY <1>1, <1>2, <1>3

(* Every failure and the kill are ends. *)
LEMMA FailuresEnd ==
  ASSUME IInv, NEW p \in Runs,
         SeedFails(p) \/ IndexesFail(p) \/ SizingFails(p) \/ ClearDatabase(p) \/ Kill(p)
  PROVE  IInv'
<1>1. CASE SeedFails(p) \/ IndexesFail(p) \/ SizingFails(p)
  <2>1. PICK from \in {"drop", "insert", "index", "stats", "open", "close", "md", "fill"},
             s \in {"seed", "indexes", "sizing"} : Fails(p, from, s)
    BY <1>1 DEF SeedFails, IndexesFail, SizingFails
  <2>2. Active(p)
    BY <2>1 DEF Fails, Goto, Active, Working
  <2>3. UNCHANGED <<database, reports, col, key, snap>>
    BY <1>1 DEF SeedFails, IndexesFail, SizingFails
  <2>4. shown' \in [Runs -> [Steps -> {"none", "running", "ok", "fail"}]]
    BY <2>1, EmitType DEF Fails, IInv, Steps
  <2>5. Ended(p)
    BY <2>1, <2>3, <2>4 DEF Ended, Fails, Goto, database, reports, IInv, TypeOK
  <2> QED BY <2>2, <2>5, EndedKeepsIInv
<1>2. CASE ClearDatabase(p)
  <2>1. PICK to \in {"done", "failed"} : Goto(p, "clear", to)
    BY <1>2 DEF ClearDatabase
  <2>2. shown' \in [Runs -> [Steps -> {"none", "running", "ok", "fail"}]]
    BY <1>2, EmitType DEF ClearDatabase, IInv, Steps
  <2>3. docs' \in [Cols -> [Keys -> Nat]] /\ indexed' \subseteq Cols
    BY <1>2, Contents DEF ClearDatabase, database, IInv, TypeOK
  <2>4. Ended(p)
    BY <1>2, <2>1, <2>2, <2>3 DEF ClearDatabase, Ended, Goto, IInv, TypeOK
  <2>5. Active(p)
    BY <2>1 DEF Goto, Active, Working
  <2> QED BY <2>4, <2>5, EndedKeepsIInv
<1>3. CASE Kill(p)
  <2>1. Ended(p)
    BY <1>3 DEF Kill, Ended, database, reports, IInv, TypeOK
  <2> QED BY <1>3, <2>1, EndedKeepsIInv DEF Kill
<1> QED BY <1>1, <1>2, <1>3

-----------------------------------------------------------------------------
(* The steps that make progress.                                             *)

(* A run starts when no other is active. *)
LEMMA StartStep == ASSUME IInv, ~Overlap, NEW p \in Runs, Start(p) PROVE IInv'
<1>1. /\ \A q \in Runs : ~Active(q)
      /\ pc[p] = "idle" /\ pc' = [pc EXCEPT ![p] = "docker"]
      /\ UNCHANGED <<database, reports, col, key, snap>>
  BY DEF Start, Goto
<1>2. shown' \in [Runs -> [Steps -> {"none", "running", "ok", "fail"}]]
  BY EmitType DEF Start, IInv, Steps
<1>3. TypeOK'
  BY <1>1, <1>2 DEF IInv, TypeOK, database, reports, Working
<1>4. Alone'
  BY <1>1 DEF Alone, Active, IInv, TypeOK
<1>5. \A q \in Runs : Progress(q)'
  <2> SUFFICES ASSUME NEW q \in Runs PROVE Progress(q)'
    OBVIOUS
  <2>1. CASE q = p
    <3>1. pc'[q] = "docker" /\ col'[q] = 1 /\ key'[q] = 1
      BY <1>1, <2>1 DEF IInv, TypeOK, Progress
    <3> QED BY <3>1 DEF Progress
  <2>2. CASE q # p
    <3>1. pc'[q] = pc[q] /\ pc[q] \notin Working
      BY <1>1, <2>2 DEF Active, IInv, TypeOK
    <3> QED BY <1>1, <3>1 DEF Progress, Working, IInv
  <2> QED BY <2>1, <2>2
<1>6. ReportExact'
  BY <1>1 DEF IInv, ReportExact, reports
<1> QED BY <1>3, <1>4, <1>5, <1>6 DEF IInv

(* An active run that only moves on. *)
LEMMA MoveKeepsIInv ==
  ASSUME IInv, NEW p \in Runs, NEW from \in Working, NEW to \in Over \cup Working,
         Goto(p, from, to), UNCHANGED <<database, reports, col, key, snap>>,
         shown' \in [Runs -> [Steps -> {"none", "running", "ok", "fail"}]],
         Progress(p)'
  PROVE  IInv'
<1>1. TypeOK'
  BY DEF Goto, IInv, TypeOK, database, reports
<1>2. ReportExact'
  BY DEF IInv, ReportExact, reports
<1>3. /\ Active(p)
      /\ \A q \in Runs \ {p} : pc'[q] = pc[q] /\ col'[q] = col[q] /\ key'[q] = key[q]
  BY DEF Goto, Active, IInv, TypeOK
<1> QED BY <1>1, <1>2, <1>3, Frame

(* The stack: on to the drops, or an end. *)
LEMMA StartStackStep == ASSUME IInv, NEW p \in Runs, StartStack(p) PROVE IInv'
<1>1. shown' \in [Runs -> [Steps -> {"none", "running", "ok", "fail"}]]
  BY EmitType DEF StartStack, Fails, IInv, Steps
<1>2. PICK to \in {"drop", "failed"} : Goto(p, "docker", to)
  BY DEF StartStack, Fails
<1>3. UNCHANGED <<database, reports, col, key, snap>>
  BY DEF StartStack
<1>4. Progress(p)'
  <2>1. pc'[p] = to /\ col'[p] = 1 /\ key'[p] = 1
    BY <1>2, <1>3 DEF Goto, IInv, TypeOK, Progress
  <2>2. \A c \in Cols : ~(c < 1)
    BY DEF Cols
  <2> QED BY <2>1, <2>2 DEF Progress
<1> QED BY <1>1, <1>2, <1>3, <1>4, MoveKeepsIInv DEF Over, Working

(* The inputs: on to the statistics, or an end. *)
LEMMA LoadInputsStep == ASSUME IInv, NEW p \in Runs, LoadInputs(p) PROVE IInv'
<1>1. shown' \in [Runs -> [Steps -> {"none", "running", "ok", "fail"}]]
  BY EmitType DEF LoadInputs, IInv, Steps
<1>2. PICK to \in {"stats", "failed"} : Goto(p, "inputs", to)
  BY DEF LoadInputs
<1>3. UNCHANGED <<database, reports, col, key, snap>>
  BY DEF LoadInputs
<1>4. Progress(p)'
  <2>1. /\ pc[p] = "inputs" /\ pc'[p] = to
        /\ docs' = AllFull /\ indexed' = Cols /\ col'[p] = 1
    BY <1>2, <1>3 DEF Goto, IInv, TypeOK, Progress, database
  <2>2. \A c \in Cols : ~(c < 1)
    BY DEF Cols
  <2> QED BY <2>1, <2>2 DEF Progress
<1> QED BY <1>1, <1>2, <1>3, <1>4, MoveKeepsIInv DEF Over, Working

(* The tests: nothing is known of the database from here on. *)
LEMMA RepositoryTestsStep == ASSUME IInv, NEW p \in Runs, RepositoryTests(p) PROVE IInv'
<1>1. shown' \in [Runs -> [Steps -> {"none", "running", "ok", "fail"}]]
  BY EmitType DEF RepositoryTests, Fails, IInv, Steps
<1>2. PICK to \in {"cleanup", "failed"} : Goto(p, "tests", to)
  BY DEF RepositoryTests, Fails
<1>3. UNCHANGED <<database, reports, col, key, snap>>
  BY DEF RepositoryTests
<1>4. Progress(p)'
  <2>1. pc'[p] = to
    BY <1>2 DEF Goto, IInv, TypeOK
  <2> QED BY <2>1 DEF Progress
<1> QED BY <1>1, <1>2, <1>3, <1>4, MoveKeepsIInv DEF Over, Working

(* The question whether to clear the database, and the answer. *)
LEMMA CleanupStep == ASSUME IInv, NEW p \in Runs, Cleanup(p) \/ AnswerPrompt(p) PROVE IInv'
<1>1. shown' \in [Runs -> [Steps -> {"none", "running", "ok", "fail"}]]
  BY EmitType DEF Cleanup, AnswerPrompt, IInv, Steps
<1>2. PICK from \in {"cleanup", "prompt"}, to \in {"done", "failed", "prompt", "clear"} :
        Goto(p, from, to)
  BY DEF Cleanup, AnswerPrompt
<1>3. UNCHANGED <<database, reports, col, key, snap>>
  BY DEF Cleanup, AnswerPrompt
<1>4. Progress(p)'
  <2>1. pc'[p] = to
    BY <1>2 DEF Goto, IInv, TypeOK
  <2> QED BY <2>1 DEF Progress
<1> QED BY <1>1, <1>2, <1>3, <1>4, MoveKeepsIInv DEF Over, Working

(* A drop empties one more collection and takes its indexes with it.         *)
LEMMA DropStep == ASSUME IInv, NEW p \in Runs, DropCollection(p) PROVE IInv'
<1>1. /\ EachCollection(p, "drop", "insert")
      /\ docs' = [docs EXCEPT ![col[p]] = Empty]
      /\ indexed' = indexed \ {col[p]}
      /\ UNCHANGED <<reports, key, snap, shown>>
  BY DEF DropCollection, DocsDropped
<1>2. /\ pc[p] = "drop"
      /\ \/ /\ col[p] < N /\ pc' = pc /\ col' = [col EXCEPT ![p] = col[p] + 1]
            /\ col[p] + 1 \in Cols
         \/ col[p] = N /\ pc' = [pc EXCEPT ![p] = "insert"] /\ col' = [col EXCEPT ![p] = 1]
      /\ pc' \in [Runs -> Over \cup Working] /\ col' \in [Runs -> Cols]
      /\ \A q \in Runs \ {p} : pc'[q] = pc[q] /\ col'[q] = col[q]
  BY <1>1, EachCollectionEffect DEF IInv, Working
<1>3. /\ col[p] \in Cols /\ key[p] = 1
      /\ \A c \in Cols : c < col[p] => docs[c] = Empty /\ c \notin indexed
  BY <1>2 DEF IInv, TypeOK, Progress
<1>4. TypeOK'
  BY <1>1, <1>2, <1>3, Contents DEF IInv, TypeOK, reports
<1>5. Cols \subseteq Nat /\ N \in Nat /\ \A c \in Cols : c <= N /\ c >= 1
  BY SizesAssumption DEF Cols
<1>6. ASSUME NEW c \in Cols, c < col[p] + 1 PROVE docs'[c] = Empty /\ c \notin indexed'
  <2>1. c < col[p] \/ c = col[p]
    BY <1>3, <1>5, <1>6
  <2>2. docs'[c] = IF c = col[p] THEN Empty ELSE docs[c]
    BY <1>1 DEF IInv, TypeOK
  <2> QED BY <1>1, <1>3, <2>1, <2>2
<1>7. Progress(p)'
  <2>1. CASE col[p] < N
    <3>1. pc'[p] = "drop" /\ col'[p] = col[p] + 1 /\ key'[p] = 1
      BY <1>1, <1>2, <1>3, <2>1, <1>5 DEF IInv, TypeOK
    <3>2. \A c \in Cols : c < col'[p] => docs'[c] = Empty /\ c \notin indexed'
      BY <1>6, <3>1
    <3> QED BY <3>1, <3>2 DEF Progress
  <2>2. CASE ~(col[p] < N)
    <3>1. pc'[p] = "insert" /\ col'[p] = 1 /\ key'[p] = 1 /\ col[p] = N
      BY <1>1, <1>2, <1>3, <2>2, <1>5 DEF IInv, TypeOK
    <3>2. \A c \in Cols : c < col[p] + 1
      BY <1>5, <3>1
    <3>3. indexed' = {}
      BY <1>4, <1>6, <3>2 DEF TypeOK
    <3>4. /\ docs'[1] = Partial(1)
          /\ \A c \in Cols : ~(c < 1) /\ docs'[c] = Empty
      BY <1>5, <1>6, <3>2, Contents
    <3> QED BY <3>1, <3>2, <3>3, <3>4 DEF Progress
  <2> QED BY <2>1, <2>2
<1>8. ReportExact'
  BY <1>1 DEF IInv, ReportExact, reports
<1>9. Active(p) /\ \A q \in Runs \ {p} : pc'[q] = pc[q] /\ col'[q] = col[q] /\ key'[q] = key[q]
  BY <1>1, <1>2 DEF Active, Working
<1> QED BY <1>4, <1>7, <1>8, <1>9, Frame

(* An insert fills the next key of a collection that holds the keys before:  *)
(* there is no index that could reject it.                                   *)
LEMMA InsertStep == ASSUME IInv, NEW p \in Runs, InsertDocument(p) PROVE IInv'
<1>1. /\ pc[p] = "insert"
      /\ docs' = [docs EXCEPT ![col[p]] = [docs[col[p]] EXCEPT ![key[p]] = docs[col[p]][key[p]] + 1]]
      /\ UNCHANGED <<indexed, reports, snap>>
  BY DEF InsertDocument
<1>2. /\ indexed = {} /\ docs[col[p]] = Partial(key[p])
      /\ \A c \in Cols : /\ c < col[p] => docs[c] = Full
                         /\ c > col[p] => docs[c] = Empty
  BY <1>1 DEF IInv, Progress
<1>3. /\ col[p] \in Cols /\ key[p] \in Keys
      /\ docs \in [Cols -> [Keys -> Nat]]
  BY DEF IInv, TypeOK
<1>4. docs' = [docs EXCEPT ![col[p]] = [Partial(key[p]) EXCEPT ![key[p]] = 1]]
  <2>1. docs[col[p]][key[p]] + 1 = 1
    BY <1>2, <1>3, Contents
  <2> QED BY <1>1, <1>2, <2>1
<1>5. [Partial(key[p]) EXCEPT ![key[p]] = 1] \in [Keys -> Nat]
  BY <1>3, Contents
<1>6. docs' \in [Cols -> [Keys -> Nat]]
  BY <1>3, <1>4, <1>5
<1>7. shown' \in [Runs -> [Steps -> {"none", "running", "ok", "fail"}]]
  BY EmitType DEF InsertDocument, IInv, Steps
<1>8. /\ \A c \in Cols : c # col[p] => docs'[c] = docs[c]
      /\ docs'[col[p]] = [Partial(key[p]) EXCEPT ![key[p]] = 1]
  BY <1>3, <1>4
<1>9. \A c \in Cols : /\ c < col[p] => docs'[c] = Full
                      /\ c > col[p] => docs'[c] = Empty
  <2> SUFFICES ASSUME NEW c \in Cols PROVE /\ c < col[p] => docs'[c] = Full
                                           /\ c > col[p] => docs'[c] = Empty
    OBVIOUS
  <2>1. c < col[p] \/ c > col[p] => c # col[p]
    BY <1>3, Order
  <2>2. c # col[p] => docs'[c] = docs[c]
    BY <1>8
  <2>3. (c < col[p] => docs[c] = Full) /\ (c > col[p] => docs[c] = Empty)
    BY <1>2
  <2> QED BY <2>1, <2>2, <2>3
<1>10. ReportExact'
  BY <1>1 DEF IInv, ReportExact, reports
<1>11. CASE key[p] < Records
  <2>1. key' = [key EXCEPT ![p] = key[p] + 1] /\ UNCHANGED <<pc, col, shown>>
    BY <1>11 DEF InsertDocument
  <2>2. key[p] + 1 \in Keys
    BY <1>3, <1>11, Order
  <2>3. TypeOK'
    BY <1>1, <1>6, <2>1, <2>2 DEF IInv, TypeOK, reports
  <2>4. key'[p] = key[p] + 1
    BY <2>1 DEF IInv, TypeOK
  <2>5. docs'[col[p]] = Partial(key[p] + 1)
    BY <1>3, <1>8, <1>11, Contents
  <2>7. Progress(p)'
    BY <1>1, <1>2, <1>9, <2>1, <2>4, <2>5 DEF Progress
  <2>8. /\ Active(p)
        /\ \A q \in Runs \ {p} : pc'[q] = pc[q] /\ col'[q] = col[q] /\ key'[q] = key[q]
    BY <1>1, <2>1 DEF Active, Working, IInv, TypeOK
  <2> QED BY <1>10, <2>3, <2>7, <2>8, Frame
<1>12. CASE ~(key[p] < Records)
  <2>1. key' = [key EXCEPT ![p] = 1] /\ EachCollection(p, "insert", "index")
    BY <1>12 DEF InsertDocument
  <2>2. /\ \/ /\ col[p] < N /\ pc' = pc /\ col' = [col EXCEPT ![p] = col[p] + 1]
              /\ col[p] + 1 \in Cols
           \/ col[p] = N /\ pc' = [pc EXCEPT ![p] = "index"] /\ col' = [col EXCEPT ![p] = 1]
        /\ pc' \in [Runs -> Over \cup Working] /\ col' \in [Runs -> Cols]
        /\ \A q \in Runs \ {p} : pc'[q] = pc[q] /\ col'[q] = col[q]
    BY <2>1, EachCollectionEffect DEF IInv, Working
  <2>3. key' \in [Runs -> Keys] /\ key'[p] = 1
    BY <2>1, Contents DEF IInv, TypeOK
  <2>4. TypeOK'
    BY <1>1, <1>6, <1>7, <2>2, <2>3 DEF IInv, TypeOK, reports
  <2>5. key[p] = Records
    BY <1>3, <1>12, Order
  <2>6. docs'[col[p]] = Full
    BY <1>8, <2>5, Contents
  <2>7. ASSUME NEW c \in Cols, c < col[p] + 1 PROVE docs'[c] = Full
    <3>1. c < col[p] \/ c = col[p]
      BY <1>3, <2>7, Order
    <3> QED BY <1>9, <2>6, <3>1
  <2>8. CASE col[p] < N
    <3>1. pc'[p] = "insert" /\ col'[p] = col[p] + 1
      BY <1>1, <1>3, <2>2, <2>8, SizesAssumption DEF IInv, TypeOK, Cols
    <3>3. \A c \in Cols : c > col[p] + 1 => docs'[c] = Empty
      <4>1. \A c \in Cols : c > col[p] + 1 => c > col[p]
        BY <1>3, Order
      <4> QED BY <1>9, <4>1
    <3>4. docs'[col[p] + 1] = Partial(1)
      <4>1. col[p] + 1 \in Cols /\ col[p] + 1 > col[p]
        BY <1>3, <2>8, Order
      <4> QED BY <1>9, <4>1, Contents
    <3> QED
      <4>1. Progress(p)'
        BY <1>1, <1>2, <2>3, <2>7, <3>1, <3>3, <3>4 DEF Progress
      <4>2. Active(p) /\ \A q \in Runs \ {p} : key'[q] = key[q]
        BY <1>1, <2>1 DEF Active, Working, IInv, TypeOK
      <4> QED BY <1>10, <2>2, <2>4, <4>1, <4>2, Frame
  <2>9. CASE ~(col[p] < N)
    <3>1. pc'[p] = "index" /\ col'[p] = 1 /\ col[p] = N
      BY <1>1, <2>2, <2>9 DEF IInv, TypeOK
    <3>2. \A c \in Cols : docs'[c] = Full
      <4>1. \A c \in Cols : c < col[p] + 1
        BY <3>1, Order
      <4> QED BY <2>7, <4>1
    <3>3. docs' = AllFull
      BY <1>6, <3>2 DEF AllFull
    <3>4. indexed' = {c \in Cols : c < 1}
      BY <1>1, <1>2, Order
    <3>5. Progress(p)'
      BY <3>1, <3>3, <3>4 DEF Progress
    <3>6. Active(p) /\ \A q \in Runs \ {p} : key'[q] = key[q]
      BY <1>1, <2>1 DEF Active, Working, IInv, TypeOK
    <3> QED BY <1>10, <2>2, <2>4, <3>5, <3>6, Frame
  <2> QED BY <2>8, <2>9
<1> QED BY <1>11, <1>12

(* The indexes of one more collection are built. *)
LEMMA BuildIndexesStep == ASSUME IInv, NEW p \in Runs, BuildIndexes(p) PROVE IInv'
<1>1. /\ EachCollection(p, "index", "inputs")
      /\ indexed' = indexed \cup {col[p]}
      /\ UNCHANGED <<docs, reports, key, snap>>
  BY DEF BuildIndexes
<1>2. /\ pc[p] = "index"
      /\ \/ /\ col[p] < N /\ pc' = pc /\ col' = [col EXCEPT ![p] = col[p] + 1]
            /\ col[p] + 1 \in Cols
         \/ col[p] = N /\ pc' = [pc EXCEPT ![p] = "inputs"] /\ col' = [col EXCEPT ![p] = 1]
      /\ pc' \in [Runs -> Over \cup Working] /\ col' \in [Runs -> Cols]
      /\ \A q \in Runs \ {p} : pc'[q] = pc[q] /\ col'[q] = col[q]
  BY <1>1, EachCollectionEffect DEF IInv, Working
<1>3. col[p] \in Cols /\ docs = AllFull /\ indexed = {c \in Cols : c < col[p]}
  BY <1>2 DEF IInv, TypeOK, Progress
<1>4. shown' \in [Runs -> [Steps -> {"none", "running", "ok", "fail"}]]
  BY EmitType DEF BuildIndexes, IInv, Steps
<1>5. TypeOK'
  BY <1>1, <1>2, <1>3, <1>4 DEF IInv, TypeOK, reports
<1>7. indexed' = {c \in Cols : c < col[p] + 1}
  <2>1. \A c \in Cols : c < col[p] + 1 <=> c < col[p] \/ c = col[p]
    BY <1>3, Order
  <2> QED BY <1>1, <1>3, <2>1
<1>8. Progress(p)'
  <2>1. CASE col[p] < N
    <3>1. pc'[p] = "index" /\ col'[p] = col[p] + 1
      BY <1>2, <1>3, <2>1, SizesAssumption DEF IInv, TypeOK, Cols
    <3> QED BY <1>1, <1>3, <1>7, <3>1 DEF Progress
  <2>2. CASE ~(col[p] < N)
    <3>1. pc'[p] = "inputs" /\ col'[p] = 1 /\ col[p] = N
      BY <1>2, <2>2 DEF IInv, TypeOK
    <3>2. \A c \in Cols : c < col[p] + 1
      BY <3>1, Order
    <3>3. indexed' = Cols
      BY <1>7, <3>2
    <3> QED BY <1>1, <1>3, <3>1, <3>3 DEF Progress
  <2> QED BY <2>1, <2>2
<1>9. ReportExact'
  BY <1>1 DEF IInv, ReportExact, reports
<1>10. Active(p) /\ \A q \in Runs \ {p} : pc'[q] = pc[q] /\ col'[q] = col[q] /\ key'[q] = key[q]
  BY <1>1, <1>2 DEF Active, Working
<1> QED BY <1>5, <1>8, <1>9, <1>10, Frame

(* What is read of a collection is what a complete report says of it.        *)
LEMMA ReadStatsStep == ASSUME IInv, NEW p \in Runs, ReadStats(p) PROVE IInv'
<1> DEFINE st == [docs |-> docs[col[p]], indexed |-> col[p] \in indexed]
<1>1. /\ EachCollection(p, "stats", "open")
      /\ snap' = [snap EXCEPT ![p] = [snap[p] EXCEPT ![col[p]] = st]]
      /\ UNCHANGED <<docs, indexed, reports, key, shown>>
  BY DEF ReadStats, database
<1>2. /\ pc[p] = "stats"
      /\ \/ /\ col[p] < N /\ pc' = pc /\ col' = [col EXCEPT ![p] = col[p] + 1]
            /\ col[p] + 1 \in Cols
         \/ col[p] = N /\ pc' = [pc EXCEPT ![p] = "open"] /\ col' = [col EXCEPT ![p] = 1]
      /\ pc' \in [Runs -> Over \cup Working] /\ col' \in [Runs -> Cols]
      /\ \A q \in Runs \ {p} : pc'[q] = pc[q] /\ col'[q] = col[q]
  BY <1>1, EachCollectionEffect DEF IInv, Working
<1>3. /\ col[p] \in Cols /\ docs = AllFull /\ indexed = Cols
      /\ \A c \in Cols : c < col[p] => snap[p][c] = Exact[c]
      /\ snap \in [Runs -> [Cols -> Stats]]
  BY <1>2 DEF IInv, TypeOK, Progress
<1>4. st = Exact[col[p]]
  BY <1>3 DEF AllFull, Exact
<1>5. Exact[col[p]] \in Stats
  BY <1>3, ExactType
<1> HIDE DEF st
<1>6. snap'[p] = [snap[p] EXCEPT ![col[p]] = Exact[col[p]]] /\ snap' \in [Runs -> [Cols -> Stats]]
  <2>1. [snap[p] EXCEPT ![col[p]] = Exact[col[p]]] \in [Cols -> Stats]
    BY <1>3, <1>5
  <2> QED BY <1>1, <1>3, <1>4, <2>1
<1>7. TypeOK'
  BY <1>1, <1>2, <1>6 DEF IInv, TypeOK, reports
<1>9. ASSUME NEW c \in Cols, c < col[p] + 1 PROVE snap'[p][c] = Exact[c]
  <2>1. c < col[p] \/ c = col[p]
    BY <1>3, <1>9, Order
  <2>2. snap'[p][c] = IF c = col[p] THEN Exact[col[p]] ELSE snap[p][c]
    BY <1>3, <1>6
  <2> QED BY <1>3, <2>1, <2>2
<1>10. Progress(p)'
  <2>1. CASE col[p] < N
    <3>1. pc'[p] = "stats" /\ col'[p] = col[p] + 1
      BY <1>2, <1>3, <2>1, SizesAssumption DEF IInv, TypeOK, Cols
    <3>2. \A c \in Cols : c < col'[p] => snap'[p][c] = Exact[c]
      BY <1>9, <3>1
    <3> QED BY <1>1, <1>3, <3>1, <3>2 DEF Progress
  <2>2. CASE ~(col[p] < N)
    <3>1. pc'[p] = "open" /\ col[p] = N
      BY <1>2, <2>2 DEF IInv, TypeOK
    <3>2. \A c \in Cols : c < col[p] + 1
      BY <3>1, Order
    <3>3. snap'[p] \in [Cols -> Stats] /\ Exact \in [Cols -> Stats]
      BY <1>6, ExactType
    <3>4. snap'[p] = Exact
      BY <1>9, <3>2, <3>3
    <3> QED BY <3>1, <3>4 DEF Progress
  <2> QED BY <2>1, <2>2
<1>11. ReportExact'
  BY <1>1 DEF IInv, ReportExact, reports
<1>12. Active(p) /\ \A q \in Runs \ {p} : pc'[q] = pc[q] /\ col'[q] = col[q] /\ key'[q] = key[q]
  BY <1>1, <1>2 DEF Active, Working
<1> QED BY <1>7, <1>10, <1>11, <1>12, Frame

(* Who has written which report. *)
Writers == [json : Runs \cup {NoReport}, md : Runs \cup {NoReport}]

LEMMA WritersType ==
  ASSUME by \in Writers, NEW p \in Runs
  PROVE  [by EXCEPT !.json = p] \in Writers /\ [by EXCEPT !.md = p] \in Writers
BY DEF Writers

(* The reports are written from the statistics that are complete.            *)
LEMMA WriteSteps ==
  ASSUME IInv, NEW p \in Runs, OpenJson(p) \/ CloseJson(p) \/ OpenMd(p) \/ FillMd(p) PROVE IInv'
<1>1. PICK from \in {"open", "close", "md", "fill"}, to \in {"close", "md", "fill", "tests"} :
        Goto(p, from, to)
  BY DEF OpenJson, CloseJson, OpenMd, FillMd
<1>2. /\ UNCHANGED <<docs, indexed, col, key, snap>>
      /\ pc[p] \in {"open", "close", "md", "fill"}
      /\ pc' = [pc EXCEPT ![p] = to]
  BY <1>1 DEF OpenJson, CloseJson, OpenMd, FillMd, Goto, database
<1>3. snap[p] = Exact
  BY <1>2 DEF IInv, Progress
<1>4. json' \in {json, TornReport, Exact} /\ md' \in {md, TornReport, Exact}
  BY <1>3 DEF OpenJson, CloseJson, OpenMd, FillMd
<1>5. shown' \in [Runs -> [Steps -> {"none", "running", "ok", "fail"}]]
  BY EmitType DEF OpenJson, CloseJson, OpenMd, FillMd, IInv, Steps
<1>6. TypeOK'
  <2>1. by' \in Writers
    BY WritersType DEF OpenJson, CloseJson, OpenMd, FillMd, IInv, TypeOK, Writers
  <2> QED BY <1>2, <1>4, <1>5, <2>1, ExactType DEF IInv, TypeOK, Working, Writers
<1>7. ReportExact'
  BY <1>4 DEF IInv, ReportExact
<1>8. Progress(p)'
  <2>1. pc'[p] = to /\ snap'[p] = Exact
    BY <1>2, <1>3 DEF IInv, TypeOK
  <2> QED BY <2>1 DEF Progress
<1>9. Active(p) /\ \A q \in Runs \ {p} : pc'[q] = pc[q] /\ col'[q] = col[q] /\ key'[q] = key[q]
  BY <1>2 DEF Active, Working, IInv, TypeOK
<1> QED BY <1>6, <1>7, <1>8, <1>9, Frame

-----------------------------------------------------------------------------
(* IInv is inductive as long as invocations wait for one another.            *)
LEMMA NextKeepsIInv == ASSUME ~Overlap, IInv, [Next]_vars PROVE IInv'
<1>1. CASE Next
  <2>1. PICK p \in Runs : Start(p) \/ PipelineStep(p) \/ AnswerPrompt(p) \/ Kill(p)
    BY <1>1 DEF Next
  <2>2. CASE Start(p)
    BY <2>2, StartStep
  <2>3. CASE PipelineStep(p)
    BY <2>3, StartStackStep, DropStep, InsertStep, FailuresEnd, BuildIndexesStep,
       LoadInputsStep, ReadStatsStep, WriteSteps, RepositoryTestsStep, CleanupStep DEF PipelineStep
  <2>4. CASE AnswerPrompt(p) \/ Kill(p)
    BY <2>4, FailuresEnd, CleanupStep
  <2> QED BY <2>1, <2>2, <2>3, <2>4
<1>2. CASE UNCHANGED vars
  BY <1>2 DEF vars, IInv, TypeOK, Alone, Active, Progress, ReportExact
<1> QED BY <1>1, <1>2

(* Under IInv no insert meets an index and no index meets duplicates.        *)
LEMMA IInvIsClean == IInv => RerunIsClean
<1> SUFFICES ASSUME IInv, NEW p \in Runs
             PROVE  /\ pc[p] = "insert" => ~Collides(p)
                    /\ pc[p] = "index" => ~Duplicates(col[p])
  BY DEF RerunIsClean
<1>1. ASSUME pc[p] = "insert" PROVE ~Collides(p)
  BY <1>1 DEF IInv, Progress, Collides
<1>2. ASSUME pc[p] = "index" PROVE ~Duplicates(col[p])
  <2>1. docs = AllFull /\ col[p] \in Cols
    BY <1>2 DEF IInv, Progress, TypeOK
  <2>2. \A k \in Keys : docs[col[p]][k] = 1
    BY <2>1 DEF AllFull, Full
  <2>3. \A k \in Keys : ~(docs[col[p]][k] > 1)
    BY <2>2
  <2> QED BY <2>3 DEF Duplicates
<1> QED BY <1>1, <1>2

(* README:251, README:367: whatever earlier runs that failed or were killed  *)
(* have left in the database, a report is made from exactly Records          *)
(* documents per collection with all the indexes, as long as invocations     *)
(* wait for one another (which nothing in the code enforces).                *)
THEOREM SerialReportsExact == ASSUME ~Overlap PROVE Spec => []ReportExact
<1>1. IInv => ReportExact
  BY DEF IInv
<1> QED BY InitIInv, NextKeepsIInv, <1>1, PTL DEF Spec

(* And no rerun is stopped by what an earlier run has left.                  *)
THEOREM SerialRerunsClean == ASSUME ~Overlap PROVE Spec => []RerunIsClean
<1> QED BY InitIInv, NextKeepsIInv, IInvIsClean, PTL DEF Spec

-----------------------------------------------------------------------------
(* What follows holds for overlapping invocations too. *)

Rows == [Runs -> [Steps -> {"none", "running", "ok", "fail"}]]

(* The step a run that goes on is in. *)
InStep(p, s) ==
  \/ s = "docker_stack" /\ pc[p] = "docker"
  \/ s = "seed" /\ pc[p] \in {"drop", "insert"}
  \/ s = "indexes" /\ pc[p] = "index"
  \/ s = "sizing" /\ pc[p] \in {"stats", "open", "close", "md", "fill"}

(* Nothing but the step it is in is shown as running. *)
Open(p) == /\ shown[p]["cleanup"] = "none"
           /\ \A s \in Steps : /\ shown[p][s] # "fail"
                               /\ shown[p][s] = "running" => InStep(p, s)

Closed(p) == /\ \A s \in Steps \ {"cleanup"} : shown[p][s] # "running"
             /\ \A s \in Steps : shown[p][s] = "fail" =>
                                   pc[p] = "failed" /\ shown[p]["cleanup"] = "none"

(* The cleanup is the only step that may end as running. *)
Clearing(p) == \A s \in Steps : /\ shown[p][s] # "fail"
                                /\ shown[p][s] = "running" => s = "cleanup"

Shown(p) == /\ pc[p] \in (Working \cup {"idle"}) \ {"clear"} => Open(p)
            /\ pc[p] = "clear" => Clearing(p)
            /\ pc[p] \in {"done", "failed"} => Closed(p)

(* What one event, or two, do to the steps of a run. *)
LEMMA EmitEffect ==
  ASSUME shown \in Rows, NEW p \in Runs, NEW s \in Steps, NEW t \in Steps, NEW status
  PROVE  /\ Emit(p, s, status) =>
              \A x \in Steps : shown'[p][x] = IF x = s THEN status ELSE shown[p][x]
         /\ EmitNext(p, s, t) =>
              \A x \in Steps : shown'[p][x] = IF x = t THEN "running"
                                              ELSE IF x = s THEN "ok" ELSE shown[p][x]
         /\ Emit(p, s, status) \/ EmitNext(p, s, t) =>
              \A q \in Runs \ {p} : shown'[q] = shown[q]
<1>1. ASSUME Emit(p, s, status)
      PROVE  /\ \A x \in Steps : shown'[p][x] = IF x = s THEN status ELSE shown[p][x]
             /\ \A q \in Runs \ {p} : shown'[q] = shown[q]
  <2>1. shown' = [shown EXCEPT ![p] = [shown[p] EXCEPT ![s] = status]]
    BY <1>1 DEF Emit
  <2>2. shown'[p] = [shown[p] EXCEPT ![s] = status]
    BY <2>1 DEF Rows
  <2> QED BY <2>1, <2>2 DEF Rows
<1>2. ASSUME EmitNext(p, s, t)
      PROVE  /\ \A x \in Steps : shown'[p][x] = IF x = t THEN "running"
                                                ELSE IF x = s THEN "ok" ELSE shown[p][x]
             /\ \A q \in Runs \ {p} : shown'[q] = shown[q]
  <2> DEFINE row == [shown[p] EXCEPT ![s] = "ok"]
             mid == [shown EXCEPT ![p] = row]
  <2>1. mid[p] = row /\ \A q \in Runs \ {p} : mid[q] = shown[q]
    BY DEF Rows
  <2>2. mid \in [Runs -> [Steps -> {"none", "running", "ok", "fail"}]]
    <3>1. row \in [Steps -> {"none", "running", "ok", "fail"}]
      BY DEF Rows
    <3> QED BY <3>1 DEF Rows
  <2>3. shown' = [mid EXCEPT ![p] = [mid[p] EXCEPT ![t] = "running"]]
    BY <1>2 DEF EmitNext
  <2>4. \A x \in Steps : row[x] = IF x = s THEN "ok" ELSE shown[p][x]
    BY DEF Rows
  <2> HIDE DEF mid, row
  <2>5. shown'[p] = [row EXCEPT ![t] = "running"] /\ \A q \in Runs \ {p} : shown'[q] = shown[q]
    BY <2>1, <2>2, <2>3
  <2>6. row \in [Steps -> {"none", "running", "ok", "fail"}]
    BY <2>1, <2>2
  <2> QED BY <2>4, <2>5, <2>6
<1> QED BY <1>1, <1>2

(* The variables keep their types. *)
LEMMA NextKeepsTypes == ASSUME TypeOK, [Next]_vars PROVE TypeOK'
<1>1. ASSUME NEW p \in Runs, Start(p) \/ PipelineStep(p) \/ AnswerPrompt(p) \/ Kill(p) PROVE TypeOK'
  <2>1. shown' \in Rows
    BY <1>1, EmitType DEF Start, PipelineStep, Kill, StartStack, DropCollection, InsertDocument,
       SeedFails, BuildIndexes, IndexesFail, LoadInputs, ReadStats, OpenJson, CloseJson, OpenMd, FillMd,
       SizingFails, RepositoryTests, Cleanup, AnswerPrompt, ClearDatabase, Fails, Rows, Steps
  <2>2. CASE \/ Start(p) \/ StartStack(p) \/ SeedFails(p) \/ IndexesFail(p) \/ LoadInputs(p)
             \/ SizingFails(p) \/ RepositoryTests(p) \/ Cleanup(p) \/ AnswerPrompt(p)
             \/ Kill(p)
    <3>1. PICK to \in Over \cup Working : pc' = [pc EXCEPT ![p] = to]
      BY <2>2 DEF Start, StartStack, SeedFails, IndexesFail, LoadInputs, SizingFails,
         RepositoryTests, Cleanup, AnswerPrompt, Kill, Fails, Goto, Over, Working
    <3>2. UNCHANGED <<docs, indexed, json, md, by, col, key, snap>>
      BY <2>2 DEF Start, StartStack, SeedFails, IndexesFail, LoadInputs, SizingFails,
         RepositoryTests, Cleanup, AnswerPrompt, Kill, database, reports
    <3> QED BY <2>1, <3>1, <3>2 DEF TypeOK, Rows
  <2>3. CASE DropCollection(p)
    <3>1. pc' \in [Runs -> Over \cup Working] /\ col' \in [Runs -> Cols]
      BY <2>3, EachCollectionEffect DEF DropCollection, Working
    <3> QED BY <2>1, <2>3, <3>1, Contents DEF DropCollection, DocsDropped, reports, TypeOK, Rows
  <2>4. CASE InsertDocument(p)
    <3>1. /\ pc' \in [Runs -> Over \cup Working] /\ col' \in [Runs -> Cols]
          /\ key' \in [Runs -> Keys]
      <4>1. CASE key[p] < Records
        <5>1. key[p] + 1 \in Keys
          BY <4>1, Order DEF TypeOK
        <5> QED BY <2>4, <4>1, <5>1 DEF InsertDocument, TypeOK
      <4>2. CASE ~(key[p] < Records)
        <5>1. EachCollection(p, "insert", "index") /\ key' = [key EXCEPT ![p] = 1]
          BY <2>4, <4>2 DEF InsertDocument
        <5> QED BY <5>1, EachCollectionEffect, Contents DEF Working, TypeOK
      <4> QED BY <4>1, <4>2
    <3>2. docs' \in [Cols -> [Keys -> Nat]]
      <4> DEFINE row == [docs[col[p]] EXCEPT ![key[p]] = docs[col[p]][key[p]] + 1]
      <4>1. row \in [Keys -> Nat]
        BY DEF TypeOK
      <4>2. docs' = [docs EXCEPT ![col[p]] = row]
        BY <2>4 DEF InsertDocument
      <4> HIDE DEF row
      <4> QED BY <4>1, <4>2 DEF TypeOK
    <3> QED BY <2>1, <2>4, <3>1, <3>2 DEF InsertDocument, reports, TypeOK, Rows
  <2>5. CASE BuildIndexes(p)
    <3>1. pc' \in [Runs -> Over \cup Working] /\ col' \in [Runs -> Cols]
      BY <2>5, EachCollectionEffect DEF BuildIndexes, Working
    <3> QED BY <2>1, <2>5, <3>1 DEF BuildIndexes, reports, TypeOK, Rows
  <2>6. CASE ReadStats(p)
    <3> DEFINE st == [docs |-> docs[col[p]], indexed |-> col[p] \in indexed]
    <3>1. pc' \in [Runs -> Over \cup Working] /\ col' \in [Runs -> Cols]
      BY <2>6, EachCollectionEffect DEF ReadStats, Working
    <3>2. st \in Stats
      BY DEF Stats, TypeOK
    <3>3. snap' = [snap EXCEPT ![p] = [snap[p] EXCEPT ![col[p]] = st]]
      BY <2>6 DEF ReadStats
    <3> HIDE DEF st
    <3>4. [snap[p] EXCEPT ![col[p]] = st] \in [Cols -> Stats]
      BY <3>2 DEF TypeOK
    <3>5. snap' \in [Runs -> [Cols -> Stats]]
      BY <3>3, <3>4 DEF TypeOK
    <3> QED BY <2>1, <2>6, <3>1, <3>5 DEF ReadStats, database, reports, TypeOK, Rows
  <2>7. CASE OpenJson(p) \/ CloseJson(p) \/ OpenMd(p) \/ FillMd(p)
    <3>1. pc' \in [Runs -> Over \cup Working]
      BY <2>7 DEF OpenJson, CloseJson, OpenMd, FillMd, Goto, Working, TypeOK
    <3>2. /\ json' \in [Cols -> Stats] \cup {NoReport, TornReport}
          /\ md' \in [Cols -> Stats] \cup {NoReport, TornReport}
      BY <2>7 DEF OpenJson, CloseJson, OpenMd, FillMd, TypeOK
    <3>3. by' \in Writers
      BY <2>7, WritersType DEF OpenJson, CloseJson, OpenMd, FillMd, TypeOK, Writers
    <3> QED BY <2>1, <2>7, <3>1, <3>2, <3>3
            DEF OpenJson, CloseJson, OpenMd, FillMd, database, TypeOK, Rows, Writers
  <2>8. CASE ClearDatabase(p)
    <3>1. pc' \in [Runs -> Over \cup Working]
      BY <2>8 DEF ClearDatabase, Goto, Over, TypeOK
    <3>2. docs' \in [Cols -> [Keys -> Nat]] /\ indexed' \subseteq Cols
      BY <2>8, Contents DEF ClearDatabase, database, TypeOK
    <3> QED BY <2>1, <2>8, <3>1, <3>2 DEF ClearDatabase, reports, TypeOK, Rows
  <2> QED BY <1>1, <2>2, <2>3, <2>4, <2>5, <2>6, <2>7, <2>8 DEF PipelineStep
<1>2. CASE Next
  BY <1>1, <1>2 DEF Next
<1>3. CASE UNCHANGED vars
  BY <1>3 DEF vars, TypeOK
<1> QED BY <1>2, <1>3

(* The initial states have the types. *)
LEMMA InitTypes == Init => TypeOK
BY InitIInv DEF IInv

(* The variables have their types. *)
THEOREM TypeCorrect == Spec => []TypeOK
<1> QED BY InitTypes, NextKeepsTypes, PTL DEF Spec

-----------------------------------------------------------------------------
(* A run that goes on within a step. *)
LEMMA SameStep ==
  ASSUME TypeOK, NEW p \in Runs, Shown(p), Active(p), shown' = shown, pc'[p] \in Working,
         pc[p] # "clear", pc'[p] # "clear",
         \A s \in Steps : InStep(p, s) => InStep(p, s)'
  PROVE  Shown(p)'
<1>1. Open(p)
  BY DEF Shown, Active
<1>2. Open(p)'
  BY <1>1 DEF Open
<1>3. pc'[p] \notin {"done", "failed"}
  BY DEF Working
<1> QED BY <1>2, <1>3 DEF Shown

(* A run that ends a step, or begins one, and goes on. *)
LEMMA NextStep ==
  ASSUME TypeOK, NEW p \in Runs, Shown(p), pc[p] \in Working \cup {"idle"}, pc'[p] \in Working,
         pc[p] # "clear", pc'[p] # "clear",
         \A x \in Steps : /\ shown'[p][x] \in {shown[p][x], "running", "ok"}
                          /\ shown'[p][x] = "running" => InStep(p, x)',
         shown'[p]["cleanup"] = "none"
  PROVE  Shown(p)'
<1>1. Open(p)
  BY DEF Shown
<1>2. Open(p)'
  BY <1>1 DEF Open
<1>3. pc'[p] \notin {"done", "failed"}
  BY DEF Working
<1> QED BY <1>2, <1>3 DEF Shown

(* A step that fails is the one that is running.                             *)
LEMMA FailureCloses ==
  ASSUME TypeOK, NEW p \in Runs, Shown(p), NEW from \in Working \ {"clear"}, NEW s \in Steps \ {"cleanup"},
         Fails(p, from, s), \A x \in Steps : InStep(p, x) => x = s
  PROVE  Shown(p)'
<1>1. pc[p] = from /\ pc'[p] = "failed"
  BY DEF Fails, Goto, TypeOK
<1>2. Open(p)
  BY <1>1 DEF Shown
<1>3. \A x \in Steps : shown'[p][x] = IF x = s THEN "fail" ELSE shown[p][x]
  <2>1. Emit(p, s, "fail") /\ shown \in Rows
    BY DEF Fails, TypeOK, Rows
  <2> QED BY <2>1, EmitEffect
<1>4. "cleanup" \in Steps
  BY DEF Steps
<1>5. Closed(p)'
  BY <1>1, <1>2, <1>3, <1>4 DEF Closed, Open
<1> QED BY <1>1, <1>5 DEF Shown, Working

(* The steps before the tests. *)
LEMMA ShownEarly ==
  ASSUME TypeOK, NEW p \in Runs, Shown(p),
         \/ Start(p) \/ StartStack(p) \/ DropCollection(p) \/ InsertDocument(p)
         \/ BuildIndexes(p) \/ LoadInputs(p)
  PROVE  Shown(p)'
<1> USE DEF Steps
<1>1. CASE Start(p)
  <2>1. pc[p] = "idle" /\ pc'[p] = "docker" /\ Emit(p, "docker_stack", "running")
    BY <1>1 DEF Start, Goto, TypeOK
  <2>2. \A x \in Steps : shown'[p][x] = IF x = "docker_stack" THEN "running" ELSE shown[p][x]
    BY <2>1, EmitEffect DEF TypeOK, Rows
  <2>3. Open(p) /\ \A x \in Steps : shown[p][x] # "running"
    BY <2>1 DEF Shown, Open, InStep
  <2>4. \A x \in Steps : shown'[p][x] = "running" => x = "docker_stack"
    BY <2>2, <2>3
  <2>5. shown'[p]["cleanup"] = "none"
    BY <2>2, <2>3 DEF Open
  <2> QED BY <2>1, <2>2, <2>4, <2>5, NextStep DEF InStep, Working
<1>2. CASE StartStack(p)
  <2>1. CASE Fails(p, "docker", "docker_stack")
    <3>1. \A x \in Steps : InStep(p, x) => x = "docker_stack"
      BY <2>1 DEF InStep, Fails, Goto
    <3> QED BY <2>1, <3>1, FailureCloses DEF Working
  <2>2. CASE Goto(p, "docker", "drop") /\ EmitNext(p, "docker_stack", "seed")
    <3>1. pc[p] = "docker" /\ pc'[p] = "drop"
      BY <2>2 DEF Goto, TypeOK
    <3>2. \A x \in Steps : shown'[p][x] = IF x = "seed" THEN "running"
                                          ELSE IF x = "docker_stack" THEN "ok" ELSE shown[p][x]
      BY <2>2, EmitEffect DEF TypeOK, Rows
    <3>3. Open(p) /\ \A x \in Steps : shown[p][x] = "running" => x = "docker_stack"
      BY <3>1 DEF Shown, Open, InStep, Working
    <3>4. \A x \in Steps : shown'[p][x] = "running" => x = "seed"
      BY <3>2, <3>3
    <3>5. shown'[p]["cleanup"] = "none"
      BY <3>2, <3>3 DEF Open
    <3> QED BY <3>1, <3>2, <3>4, <3>5, NextStep DEF InStep, Working
  <2> QED BY <1>2, <2>1, <2>2 DEF StartStack
<1>3. CASE DropCollection(p)
  <2>1. pc[p] = "drop" /\ pc'[p] \in {"drop", "insert"} /\ shown' = shown
    BY <1>3, EachCollectionEffect DEF DropCollection, TypeOK, Working
  <2> QED BY <2>1, SameStep DEF Active, InStep, Working
<1>4. CASE InsertDocument(p)
  <2>1. CASE key[p] < Records \/ ~LastRound(p)
    <3>1. pc[p] = "insert" /\ pc' = pc /\ shown' = shown
      <4>1. CASE key[p] < Records
        BY <1>4, <4>1 DEF InsertDocument
      <4>2. CASE ~(key[p] < Records)
        <5>1. EachCollection(p, "insert", "index") /\ shown' = shown
          BY <1>4, <2>1, <4>2 DEF InsertDocument
        <5>2. pc[p] = "insert" /\ pc' = pc
          BY <2>1, <4>2, <5>1, EachCollectionEffect DEF LastRound, Working
        <5> QED BY <5>1, <5>2
      <4> QED BY <4>1, <4>2
    <3> QED BY <3>1, SameStep DEF Active, InStep, Working
  <2>2. CASE ~(key[p] < Records) /\ LastRound(p)
    <3>1. EachCollection(p, "insert", "index") /\ EmitNext(p, "seed", "indexes")
      BY <1>4, <2>2 DEF InsertDocument
    <3>2. pc[p] = "insert" /\ (col[p] < N \/ pc' = [pc EXCEPT ![p] = "index"])
      BY <3>1, EachCollectionEffect DEF Working
    <3>3. ~(col[p] < N)
      BY <2>2, SizesAssumption DEF LastRound
    <3>4. pc'[p] = "index"
      BY <3>2, <3>3 DEF TypeOK
    <3>5. \A x \in Steps : shown'[p][x] = IF x = "indexes" THEN "running"
                                          ELSE IF x = "seed" THEN "ok" ELSE shown[p][x]
      BY <3>1, EmitEffect DEF TypeOK, Rows
    <3>6. Open(p) /\ \A x \in Steps : shown[p][x] = "running" => x = "seed"
      BY <3>2 DEF Shown, Open, InStep, Working
    <3>7. \A x \in Steps : shown'[p][x] = "running" => x = "indexes"
      BY <3>5, <3>6
    <3>8. shown'[p]["cleanup"] = "none"
      BY <3>5, <3>6 DEF Open
    <3> QED BY <3>2, <3>4, <3>5, <3>7, <3>8, NextStep DEF InStep, Working
  <2> QED BY <2>1, <2>2
<1>5. CASE BuildIndexes(p)
  <2>1. CASE ~LastRound(p)
    <3>1. pc[p] = "index" /\ pc' = pc /\ shown' = shown
      BY <1>5, <2>1, EachCollectionEffect DEF BuildIndexes, LastRound, Working
    <3> QED BY <3>1, SameStep DEF Active, InStep, Working
  <2>2. CASE LastRound(p)
    <3>1. EachCollection(p, "index", "inputs") /\ Emit(p, "indexes", "ok")
      BY <1>5, <2>2 DEF BuildIndexes
    <3>2. pc[p] = "index" /\ (col[p] < N \/ pc' = [pc EXCEPT ![p] = "inputs"])
      BY <3>1, EachCollectionEffect DEF Working
    <3>3. ~(col[p] < N)
      BY <2>2, SizesAssumption DEF LastRound
    <3>4. pc'[p] = "inputs"
      BY <3>2, <3>3 DEF TypeOK
    <3>5. \A x \in Steps : shown'[p][x] = IF x = "indexes" THEN "ok" ELSE shown[p][x]
      BY <3>1, EmitEffect DEF TypeOK, Rows
    <3>6. Open(p) /\ \A x \in Steps : shown[p][x] = "running" => x = "indexes"
      BY <3>2 DEF Shown, Open, InStep, Working
    <3>7. \A x \in Steps : shown'[p][x] # "running"
      BY <3>5, <3>6
    <3>8. shown'[p]["cleanup"] = "none"
      BY <3>5, <3>6 DEF Open
    <3> QED BY <3>2, <3>4, <3>5, <3>7, <3>8, NextStep DEF Working
  <2> QED BY <2>1, <2>2
<1>6. CASE LoadInputs(p)
  <2>1. pc[p] = "inputs" /\ Open(p) /\ \A x \in Steps : shown[p][x] # "running"
    BY <1>6 DEF LoadInputs, Goto, Shown, Open, InStep, Working
  <2>2. CASE Goto(p, "inputs", "failed") /\ UNCHANGED shown
    <3>1. pc'[p] = "failed" /\ shown' = shown
      BY <2>2 DEF Goto, TypeOK
    <3>2. Closed(p)'
      BY <2>1, <3>1 DEF Closed, Open
    <3> QED BY <3>1, <3>2 DEF Shown, Working
  <2>3. CASE Goto(p, "inputs", "stats") /\ Emit(p, "sizing", "running")
    <3>1. pc'[p] = "stats"
      BY <2>3 DEF Goto, TypeOK
    <3>2. \A x \in Steps : shown'[p][x] = IF x = "sizing" THEN "running" ELSE shown[p][x]
      BY <2>3, EmitEffect DEF TypeOK, Rows
    <3>3. \A x \in Steps : shown'[p][x] = "running" => x = "sizing"
      BY <2>1, <3>2
    <3>4. shown'[p]["cleanup"] = "none"
      BY <2>1, <3>2 DEF Open
    <3> QED BY <2>1, <3>1, <3>2, <3>3, <3>4, NextStep DEF InStep, Working
  <2> QED BY <1>6, <2>2, <2>3 DEF LoadInputs
<1> QED BY <1>1, <1>2, <1>3, <1>4, <1>5, <1>6

(* The failures of the loops, the sizing, the tests, the cleanup, the kill.  *)
LEMMA ShownLate ==
  ASSUME TypeOK, NEW p \in Runs, Shown(p),
         \/ SeedFails(p) \/ IndexesFail(p) \/ SizingFails(p) \/ ReadStats(p) \/ OpenJson(p)
         \/ CloseJson(p) \/ OpenMd(p) \/ FillMd(p) \/ RepositoryTests(p) \/ Cleanup(p)
         \/ AnswerPrompt(p) \/ ClearDatabase(p) \/ Kill(p)
  PROVE  Shown(p)'
<1> USE DEF Steps
<1>1. CASE SeedFails(p) \/ IndexesFail(p) \/ SizingFails(p)
  <2>1. PICK from \in Working \ {"clear"}, s \in {"seed", "indexes", "sizing"} :
          /\ Fails(p, from, s)
          /\ s = "seed" => from \in {"drop", "insert"}
          /\ s = "indexes" => from = "index"
          /\ s = "sizing" => from \in {"stats", "open", "close", "md", "fill"}
    BY <1>1 DEF SeedFails, IndexesFail, SizingFails, Working
  <2>2. \A x \in Steps : InStep(p, x) => x = s
    BY <2>1 DEF InStep, Fails, Goto
  <2> QED BY <2>1, <2>2, FailureCloses
<1>2. CASE ReadStats(p) \/ OpenJson(p) \/ CloseJson(p) \/ OpenMd(p)
  <2>1. /\ pc[p] \in {"stats", "open", "close", "md"} /\ shown' = shown
        /\ pc'[p] \in {"stats", "open", "close", "md", "fill"}
    <3>1. CASE ReadStats(p)
      BY <3>1, EachCollectionEffect DEF ReadStats, TypeOK, Working
    <3>2. CASE OpenJson(p) \/ CloseJson(p) \/ OpenMd(p)
      BY <3>2 DEF OpenJson, CloseJson, OpenMd, Goto, TypeOK
    <3> QED BY <1>2, <3>1, <3>2
  <2> QED BY <2>1, SameStep DEF Active, InStep, Working
<1>3. CASE FillMd(p)
  <2>1. pc[p] = "fill" /\ pc'[p] = "tests" /\ Emit(p, "sizing", "ok")
    BY <1>3 DEF FillMd, Goto, TypeOK
  <2>2. \A x \in Steps : shown'[p][x] = IF x = "sizing" THEN "ok" ELSE shown[p][x]
    BY <2>1, EmitEffect DEF TypeOK, Rows
  <2>3. Open(p) /\ \A x \in Steps : shown[p][x] = "running" => x = "sizing"
    BY <2>1 DEF Shown, Open, InStep, Working
  <2>4. \A x \in Steps : shown'[p][x] # "running"
    BY <2>2, <2>3
  <2>5. shown'[p]["cleanup"] = "none"
    BY <2>2, <2>3 DEF Open
  <2> QED BY <2>1, <2>2, <2>4, <2>5, NextStep DEF Working
<1>4. CASE RepositoryTests(p)
  <2>1. CASE Fails(p, "tests", "repository_tests")
    <3>1. \A x \in Steps : ~InStep(p, x)
      BY <2>1 DEF InStep, Fails, Goto
    <3> QED BY <2>1, <3>1, FailureCloses DEF Working
  <2>2. CASE ~Fails(p, "tests", "repository_tests")
    <3>1. /\ pc[p] = "tests" /\ pc'[p] = "cleanup"
          /\ UNCHANGED shown \/ Emit(p, "repository_tests", "ok")
      BY <1>4, <2>2 DEF RepositoryTests, Goto, TypeOK
    <3>2. Open(p) /\ \A x \in Steps : shown[p][x] # "running"
      BY <3>1 DEF Shown, Open, InStep, Working
    <3>3. \A x \in Steps : \/ shown'[p][x] = shown[p][x]
                           \/ x = "repository_tests" /\ shown'[p][x] = "ok"
      BY <3>1, EmitEffect DEF TypeOK, Rows
    <3>4. \A x \in Steps : shown'[p][x] # "running"
      BY <3>2, <3>3
    <3>5. shown'[p]["cleanup"] = "none"
      BY <3>2, <3>3 DEF Open
    <3> QED BY <3>1, <3>3, <3>4, <3>5, NextStep DEF Working
  <2> QED BY <2>1, <2>2
<1>5. CASE Cleanup(p) \/ AnswerPrompt(p)
  <2>1. /\ pc[p] \in {"cleanup", "prompt"} /\ pc'[p] \in {"done", "failed", "prompt", "clear"}
        /\ \/ UNCHANGED shown
           \/ pc'[p] = "clear" /\ Emit(p, "cleanup", "running")
    BY <1>5 DEF Cleanup, AnswerPrompt, Goto, TypeOK
  <2>2. Open(p) /\ \A x \in Steps : shown[p][x] \notin {"running", "fail"}
    BY <2>1 DEF Shown, Open, InStep, Working
  <2>3. \A x \in Steps : \/ shown'[p][x] = shown[p][x]
                         \/ pc'[p] = "clear" /\ x = "cleanup" /\ shown'[p][x] = "running"
    BY <2>1, EmitEffect DEF TypeOK, Rows
  <2>4. CASE pc'[p] = "clear"
    <3>1. Clearing(p)'
      BY <2>2, <2>3 DEF Clearing
    <3> QED BY <2>4, <3>1 DEF Shown
  <2>5. CASE pc'[p] # "clear"
    <3>1. \A x \in Steps : shown'[p][x] = shown[p][x]
      BY <2>3, <2>5
    <3>2. Open(p)' /\ Closed(p)'
      BY <2>2, <3>1 DEF Open, Closed
    <3> QED BY <2>1, <2>5, <3>2 DEF Shown, Working
  <2> QED BY <2>4, <2>5
<1>7. CASE ClearDatabase(p)
  <2>1. /\ pc[p] = "clear" /\ pc'[p] \in {"done", "failed"}
        /\ UNCHANGED shown \/ Emit(p, "cleanup", "ok")
    BY <1>7 DEF ClearDatabase, Goto, TypeOK
  <2>2. Clearing(p)
    BY <2>1 DEF Shown
  <2>3. \A x \in Steps : \/ shown'[p][x] = shown[p][x]
                         \/ x = "cleanup" /\ shown'[p][x] = "ok"
    BY <2>1, EmitEffect DEF TypeOK, Rows
  <2>4. Closed(p)'
    <3>1. \A x \in Steps : shown[p][x] # "fail" /\ (shown[p][x] = "running" => x = "cleanup")
      BY <2>2 DEF Clearing
    <3>2. \A x \in Steps : shown'[p][x] # "fail"
      BY <2>3, <3>1
    <3>3. \A x \in Steps \ {"cleanup"} : shown'[p][x] # "running"
      BY <2>3, <3>1
    <3> QED BY <3>2, <3>3 DEF Closed
  <2> QED BY <2>1, <2>4 DEF Shown, Working
<1>6. CASE Kill(p)
  <2>1. pc'[p] = "killed"
    BY <1>6 DEF Kill, TypeOK
  <2> QED BY <2>1 DEF Shown, Working
<1> QED BY <1>1, <1>2, <1>3, <1>4, <1>5, <1>6, <1>7

(* The other runs are shown as they were. *)
LEMMA OthersUnchanged ==
  ASSUME TypeOK, NEW p \in Runs, Start(p) \/ PipelineStep(p) \/ AnswerPrompt(p) \/ Kill(p)
  PROVE  \A q \in Runs \ {p} : pc'[q] = pc[q] /\ shown'[q] = shown[q]
<1>1. \A q \in Runs \ {p} : pc'[q] = pc[q]
  <2>1. CASE \/ DropCollection(p) \/ InsertDocument(p) \/ BuildIndexes(p) \/ ReadStats(p)
    BY <2>1, EachCollectionEffect
       DEF DropCollection, InsertDocument, BuildIndexes, ReadStats, Working
  <2>2. CASE ~(\/ DropCollection(p) \/ InsertDocument(p) \/ BuildIndexes(p) \/ ReadStats(p))
    <3>1. \E to \in Over \cup Working : pc' = [pc EXCEPT ![p] = to]
      BY <2>2 DEF Start, PipelineStep, Kill, StartStack, SeedFails, IndexesFail, LoadInputs,
         OpenJson, CloseJson, OpenMd, FillMd, SizingFails, RepositoryTests, Cleanup, AnswerPrompt,
         ClearDatabase, Fails, Goto,
         Over, Working
    <3> QED BY <3>1 DEF TypeOK
  <2> QED BY <2>1, <2>2
<1>2. \/ UNCHANGED shown
      \/ \E s \in Steps, status \in {"running", "ok", "fail"} : Emit(p, s, status)
      \/ \E s, t \in Steps : EmitNext(p, s, t)
  BY DEF Start, PipelineStep, Kill, StartStack, DropCollection, InsertDocument, SeedFails,
     BuildIndexes, IndexesFail, LoadInputs, ReadStats, OpenJson, CloseJson, OpenMd, FillMd, SizingFails,
     RepositoryTests, Cleanup, AnswerPrompt, ClearDatabase, Fails, Steps
<1>3. \A q \in Runs \ {p} : shown'[q] = shown[q]
  BY <1>2, EmitEffect DEF TypeOK, Rows
<1> QED BY <1>1, <1>3

ShownInv == TypeOK /\ \A p \in Runs : Shown(p)

(* Nothing is shown of an invocation that has not begun. *)
LEMMA InitShown == Init => ShownInv
<1> SUFFICES ASSUME Init, NEW p \in Runs PROVE Shown(p)
  BY InitTypes DEF ShownInv
<1> QED BY DEF Init, Shown, Open, Working, Steps

(* ShownInv is inductive, whether invocations overlap or not.                *)
LEMMA NextKeepsShown == ASSUME ShownInv, [Next]_vars PROVE ShownInv'
<1>1. TypeOK'
  BY NextKeepsTypes DEF ShownInv
<1>2. CASE Next
  <2>1. PICK p \in Runs : Start(p) \/ PipelineStep(p) \/ AnswerPrompt(p) \/ Kill(p)
    BY <1>2 DEF Next
  <2>2. Shown(p)'
    BY <2>1, ShownEarly, ShownLate DEF PipelineStep, ShownInv
  <2>3. \A q \in Runs \ {p} : Shown(q)'
    <3>1. \A q \in Runs \ {p} : pc'[q] = pc[q] /\ shown'[q] = shown[q]
      BY <2>1, OthersUnchanged DEF ShownInv
    <3> QED BY <3>1 DEF ShownInv, Shown, Open, Clearing, Closed, InStep
  <2> QED BY <1>1, <2>2, <2>3 DEF ShownInv
<1>3. CASE UNCHANGED vars
  BY <1>1, <1>3 DEF vars, ShownInv, Shown, Open, Clearing, Closed, InStep
<1> QED BY <1>2, <1>3

(* tools_runner.py: a pipeline that is over leaves no step before the        *)
(* cleanup as running, whatever failed and whoever else was at work on the   *)
(* same database.                                                            *)
THEOREM PipelineStepsClosed == Spec => []StepsClosed
<1>1. ShownInv => StepsClosed
  BY DEF ShownInv, Shown, Closed, StepsClosed
<1> QED BY InitShown, NextKeepsShown, <1>1, PTL DEF Spec

-----------------------------------------------------------------------------
(* From the outside *)

stage == [p \in Runs |-> Stage(pc[p])]

(* What the reports are while a run is at them, and from then on. *)
Checking == {"tests", "cleanup", "prompt", "clear"}

Written(p) ==
  /\ pc[p] = "close" => json = TornReport /\ by.json = p
  /\ pc[p] = "md" => json = Exact /\ by.json = p
  /\ pc[p] = "fill" => /\ json = Exact /\ md = TornReport
                       /\ by = [json |-> p, md |-> p]
  /\ pc[p] \in Checking => /\ json = Exact /\ md = Exact
                           /\ by = [json |-> p, md |-> p]

WrittenInv == IInv /\ \A p \in Runs : Written(p)

(* A step of the run p is seen as its move from one stage to the next. *)
LEMMA StageMoves ==
  ASSUME TypeOK, NEW p \in Runs, NEW to, pc' = [pc EXCEPT ![p] = to]
  PROVE  /\ stage[p] = Stage(pc[p])
         /\ stage' = [stage EXCEPT ![p] = Stage(to)]
<1>1. pc \in [Runs -> Over \cup Working]
  BY DEF TypeOK
<1>2. \A q \in Runs : Stage(pc'[q]) = IF q = p THEN Stage(to) ELSE Stage(pc[q])
  BY <1>1
<1> QED BY <1>2 DEF stage

(* The step of a run whose stage, or what it has written, has to be known. *)
LEMMA OthersWrote ==
  ASSUME WrittenInv, NEW p \in Runs, Active(p),
         \A q \in Runs \ {p} : pc'[q] = pc[q], Written(p)'
  PROVE  \A q \in Runs : Written(q)'
<1> SUFFICES ASSUME NEW q \in Runs \ {p} PROVE Written(q)'
  OBVIOUS
<1>1. pc'[q] \notin Working
  BY DEF WrittenInv, IInv, Alone, Active
<1> QED BY <1>1 DEF Written, Working, Checking

(* The places where a run is only seen as measuring. *)
Before == {"docker", "drop", "insert", "index", "inputs", "stats", "open"}

LEMMA Measures ==
  ASSUME WrittenInv, NEW p \in Runs, NEW to \in Before,
         pc[p] \in Before, pc' = pc \/ pc' = [pc EXCEPT ![p] = to],
         UNCHANGED reports
  PROVE  /\ UNCHANGED <<stage, json, md, by>>
         /\ \A q \in Runs : Written(q)'
<1>1. pc \in [Runs -> Over \cup Working] /\ Active(p)
  BY DEF WrittenInv, IInv, TypeOK, Before, Active, Working
<1>2. pc'[p] \in Before /\ \A q \in Runs \ {p} : pc'[q] = pc[q]
  BY <1>1
<1>3. \A x \in Before : Stage(x) = "measuring"
  BY DEF Before, Stage
<1>4. UNCHANGED stage
  BY <1>2, <1>3 DEF stage
<1>5. Written(p)'
  BY <1>2 DEF Written, Before, Checking, Over
<1>6. \A q \in Runs : Written(q)'
  BY <1>1, <1>2, <1>5, OthersWrote
<1> QED BY <1>4, <1>6 DEF reports

(* Failures, kills and the stages of those that may fail. *)
LEMMA Stops ==
  ASSUME WrittenInv, NEW p \in Runs, Active(p), NEW to \in {"failed", "killed"},
         pc' = [pc EXCEPT ![p] = to], UNCHANGED reports
  PROVE  Reports!Stop(p) /\ \A q \in Runs : Written(q)'
<1>1. TypeOK /\ pc[p] \in Working
  BY DEF WrittenInv, IInv, Active
<1>2. Stage(pc[p]) \in Reports!AtWork /\ Stage(to) = "stopped"
  BY <1>1 DEF Stage, Working, Reports!AtWork
<1>3. stage[p] = Stage(pc[p]) /\ stage' = [stage EXCEPT ![p] = "stopped"]
  BY <1>1, <1>2, StageMoves
<1>4. Reports!Stop(p)
  BY <1>2, <1>3 DEF Reports!Stop, Reports!Move, Reports!reports, stage, reports
<1>5. pc'[p] = to /\ \A q \in Runs \ {p} : pc'[q] = pc[q]
  BY <1>1 DEF TypeOK
<1>6. \A q \in Runs : Written(q)'
  BY <1>5, OthersWrote DEF Written, Checking
<1> QED BY <1>4, <1>6

(* Pipelines that wait for one another begin one by one. *)
LEMMA Begins ==
  ASSUME WrittenInv, ~Overlap, NEW p \in Runs, Start(p)
  PROVE  Reports!Begin(p) /\ \A q \in Runs : Written(q)'
<1>1. /\ TypeOK /\ \A q \in Runs : ~Active(q)
      /\ pc[p] = "idle" /\ pc' = [pc EXCEPT ![p] = "docker"] /\ UNCHANGED reports
  BY DEF Start, Goto, WrittenInv, IInv
<1>2. Stage("idle") = "idle" /\ Stage("docker") = "measuring"
  BY DEF Stage
<1>3. \A q \in Runs : stage[q] \notin Reports!AtWork
  BY <1>1 DEF TypeOK, Active, Over, stage, Stage, Reports!AtWork
<1>4. stage[p] = "idle" /\ stage' = [stage EXCEPT ![p] = "measuring"]
  BY <1>1, <1>2, StageMoves
<1>5. Reports!Begin(p)
  BY <1>1, <1>3, <1>4 DEF Reports!Begin, Reports!Move, Reports!reports, stage, reports
<1>6. \A q \in Runs : pc'[q] \in Over \cup {"docker"}
  BY <1>1 DEF TypeOK, Active
<1>7. \A q \in Runs : Written(q)'
  BY <1>6 DEF Written, Over, Checking
<1> QED BY <1>5, <1>7

(* The reports, as they are written. *)
LEMMA Writes ==
  ASSUME WrittenInv, NEW p \in Runs, OpenJson(p) \/ CloseJson(p) \/ OpenMd(p) \/ FillMd(p)
  PROVE  /\ \/ Reports!Open(p) \/ Reports!Close(p)
            \/ Reports!Render(p) \/ Reports!Finish(p)
         /\ \A q \in Runs : Written(q)'
<1> DEFINE Moves(from, to) == pc[p] = from /\ pc' = [pc EXCEPT ![p] = to]
<1>0. TypeOK /\ (pc[p] \in {"open", "close", "md", "fill"} => snap[p] = Exact)
  BY DEF WrittenInv, IInv, Progress
<1>1. ASSUME NEW from \in {"open", "close", "md", "fill"},
             NEW to \in {"close", "md", "fill", "tests"},
             Moves(from, to), Written(p)'
      PROVE  /\ stage[p] = Stage(from) /\ stage' = [stage EXCEPT ![p] = Stage(to)]
             /\ \A q \in Runs : Written(q)'
  <2>1. stage[p] = Stage(from) /\ stage' = [stage EXCEPT ![p] = Stage(to)]
    BY <1>0, <1>1, StageMoves
  <2>2. Active(p) /\ \A q \in Runs \ {p} : pc'[q] = pc[q]
    BY <1>0, <1>1 DEF Active, Working, TypeOK
  <2> QED BY <1>1, <2>1, <2>2, OthersWrote
<1>2. /\ Stage("open") = "measuring" /\ Stage("close") = "writing"
      /\ Stage("md") = "rendering" /\ Stage("fill") = "finishing"
      /\ Stage("tests") = "checking"
  BY DEF Stage
<1>3. CASE OpenJson(p)
  <2>1. /\ Moves("open", "close") /\ json' = TornReport /\ md' = md
        /\ by' = [by EXCEPT !.json = p] /\ by'.json = p
    BY <1>0, <1>3 DEF OpenJson, Goto, TypeOK
  <2>2. pc'[p] = "close"
    BY <1>0, <2>1 DEF TypeOK
  <2>3. Written(p)'
    BY <2>1, <2>2 DEF Written, Checking, Over
  <2>4. /\ stage[p] = "measuring" /\ stage' = [stage EXCEPT ![p] = "writing"]
        /\ \A q \in Runs : Written(q)'
    BY <1>1, <1>2, <2>1, <2>3
  <2> QED BY <2>1, <2>4 DEF Reports!Open, Reports!Move, stage
<1>4. CASE CloseJson(p)
  <2>1. /\ Moves("close", "md") /\ json = TornReport /\ json' = Exact /\ md' = md
        /\ by.json = p /\ by' = [by EXCEPT !.json = p]
    BY <1>0, <1>4 DEF CloseJson, Goto, WrittenInv, Written
  <2>5. by' = by
    BY <1>0, <2>1 DEF TypeOK
  <2>2. pc'[p] = "md"
    BY <1>0, <2>1 DEF TypeOK
  <2>3. Written(p)'
    BY <2>1, <2>2, <2>5 DEF Written, Checking, Over
  <2>4. /\ stage[p] = "writing" /\ stage' = [stage EXCEPT ![p] = "rendering"]
        /\ \A q \in Runs : Written(q)'
    BY <1>1, <1>2, <2>1, <2>3
  <2> QED BY <2>1, <2>4, <2>5 DEF Reports!Close, Reports!Move, stage
<1>5. CASE OpenMd(p)
  <2>1. /\ Moves("md", "fill") /\ json = Exact /\ md' = TornReport /\ json' = json
        /\ by.json = p /\ by' = [by EXCEPT !.md = p]
    BY <1>0, <1>5 DEF OpenMd, Goto, WrittenInv, Written
  <2>2. pc'[p] = "fill"
    BY <1>0, <2>1 DEF TypeOK
  <2>5. by' = [json |-> p, md |-> p]
    BY <1>0, <2>1 DEF TypeOK
  <2>3. Written(p)'
    BY <2>1, <2>2, <2>5 DEF Written, Checking
  <2>4. /\ stage[p] = "rendering" /\ stage' = [stage EXCEPT ![p] = "finishing"]
        /\ \A q \in Runs : Written(q)'
    BY <1>1, <1>2, <2>1, <2>3
  <2> QED BY <2>1, <2>4 DEF Reports!Render, Reports!Move, stage
<1>6. CASE FillMd(p)
  <2>1. /\ Moves("fill", "tests") /\ json = Exact /\ json' = json
        /\ md = TornReport /\ md' = Exact
        /\ by = [json |-> p, md |-> p] /\ by' = [by EXCEPT !.md = p]
    BY <1>0, <1>6 DEF FillMd, Goto, WrittenInv, Written
  <2>2. pc'[p] = "tests"
    BY <1>0, <2>1 DEF TypeOK
  <2>5. by' = by
    BY <1>0, <2>1 DEF TypeOK
  <2>3. Written(p)'
    BY <2>1, <2>2, <2>5 DEF Written
  <2>4. /\ stage[p] = "finishing" /\ stage' = [stage EXCEPT ![p] = "checking"]
        /\ \A q \in Runs : Written(q)'
    BY <1>1, <1>2, <2>1, <2>3
  <2> QED BY <2>1, <2>4, <2>5 DEF Reports!Finish, Reports!Move, stage
<1> QED BY <1>3, <1>4, <1>5, <1>6

(* The tests and the cleanup find both reports, and leave them. *)
LEMMA Checks ==
  ASSUME WrittenInv, NEW p \in Runs, NEW from \in Checking, NEW to \in Checking \cup {"done"},
         Goto(p, from, to),
         UNCHANGED reports
  PROVE  /\ Reports!Succeed(p) \/ UNCHANGED Reports!vars
         /\ \A q \in Runs : Written(q)'
<1>1. /\ TypeOK /\ pc[p] = from /\ pc' = [pc EXCEPT ![p] = to]
      /\ json = Exact /\ md = Exact /\ by = [json |-> p, md |-> p]
  BY DEF Goto, WrittenInv, IInv, Written
<1>2. (\A x \in Checking : Stage(x) = "checking") /\ Stage("done") = "done"
  BY DEF Stage, Checking
<1>3. stage[p] = "checking" /\ stage' = [stage EXCEPT ![p] = Stage(to)]
  BY <1>1, <1>2, StageMoves
<1>4. ASSUME to = "done" PROVE Reports!Succeed(p)
  BY <1>1, <1>2, <1>3, <1>4 DEF Reports!Succeed, Reports!Move, Reports!reports, stage, reports
<1>5. ASSUME to \in Checking PROVE UNCHANGED Reports!vars
  <2>1. stage' = stage
    BY <1>2, <1>3, <1>5 DEF stage
  <2> QED BY <2>1 DEF Reports!vars, stage, reports
<1>6. Active(p) /\ pc'[p] = to /\ \A q \in Runs \ {p} : pc'[q] = pc[q]
  BY <1>1 DEF Active, Working, Checking, TypeOK
<1>7. Written(p)'
  BY <1>1, <1>6 DEF Written, reports, Checking, Over
<1>8. \A q \in Runs : Written(q)'
  BY <1>6, <1>7, OthersWrote
<1> QED BY <1>4, <1>5, <1>8

LEMMA StepsAreSeen ==
  ASSUME WrittenInv, ~Overlap, NEW p \in Runs, Start(p) \/ PipelineStep(p) \/ AnswerPrompt(p) \/ Kill(p)
  PROVE  /\ \/ \/ Reports!Begin(p) \/ Reports!Open(p) \/ Reports!Close(p)
               \/ Reports!Render(p) \/ Reports!Finish(p) \/ Reports!Succeed(p)
               \/ Reports!Stop(p)
            \/ UNCHANGED Reports!vars
         /\ \A q \in Runs : Written(q)'
<1>1. CASE Start(p)
  BY <1>1, Begins
<1>2. CASE OpenJson(p) \/ CloseJson(p) \/ OpenMd(p) \/ FillMd(p)
  BY <1>2, Writes
<1>3. CASE Kill(p)
  BY <1>3, Stops DEF Kill
<1>4. ASSUME NEW from \in Working, Goto(p, from, "failed"), UNCHANGED reports
      PROVE  Reports!Stop(p) /\ \A q \in Runs : Written(q)'
  BY <1>4, Stops DEF Goto, Active
<1>5. ASSUME NEW from \in Before, NEW to \in Before, UNCHANGED reports,
             Goto(p, from, to) \/ EachCollection(p, from, to) \/ (pc[p] = from /\ UNCHANGED pc)
      PROVE  UNCHANGED Reports!vars /\ \A q \in Runs : Written(q)'
  <2>1. pc[p] = from /\ (pc' = pc \/ pc' = [pc EXCEPT ![p] = to])
    BY <1>5 DEF Goto, EachCollection
  <2>2. UNCHANGED <<stage, json, md, by>> /\ \A q \in Runs : Written(q)'
    BY <1>5, <2>1, Measures
  <2> QED BY <2>2 DEF Reports!vars, stage
<1>6. CASE StartStack(p) \/ DropCollection(p) \/ InsertDocument(p) \/ BuildIndexes(p)
           \/ LoadInputs(p) \/ ReadStats(p)
  <2>1. UNCHANGED reports
    BY <1>6 DEF StartStack, DropCollection, InsertDocument, BuildIndexes, LoadInputs,
                ReadStats
  <2>2. \/ \E from \in Working : Goto(p, from, "failed")
        \/ \E from, to \in Before :
             Goto(p, from, to) \/ EachCollection(p, from, to) \/ (pc[p] = from /\ UNCHANGED pc)
    <3>1. CASE StartStack(p)
      BY <3>1 DEF StartStack, Fails, Before, Working
    <3>2. CASE DropCollection(p) \/ ReadStats(p) \/ BuildIndexes(p)
      BY <3>2, Zenon DEF DropCollection, ReadStats, BuildIndexes, Before
    <3>3. CASE InsertDocument(p)
      <4>1. (pc[p] = "insert" /\ UNCHANGED pc) \/ EachCollection(p, "insert", "index")
        BY <3>3 DEF InsertDocument
      <4> QED BY <4>1 DEF Before
    <3>4. CASE LoadInputs(p)
      BY <3>4 DEF LoadInputs, Before, Working
    <3> QED BY <1>6, <3>1, <3>2, <3>3, <3>4
  <2> QED BY <1>4, <1>5, <2>1, <2>2
<1>7. CASE SeedFails(p) \/ IndexesFail(p) \/ SizingFails(p)
  <2>1. \E from \in Working : Goto(p, from, "failed")
    BY <1>7 DEF SeedFails, IndexesFail, SizingFails, Fails, Working
  <2>2. UNCHANGED reports
    BY <1>7 DEF SeedFails, IndexesFail, SizingFails
  <2> QED BY <1>4, <2>1, <2>2
<1>8. CASE RepositoryTests(p) \/ Cleanup(p) \/ AnswerPrompt(p) \/ ClearDatabase(p)
  <2>1. UNCHANGED reports
    BY <1>8 DEF RepositoryTests, Cleanup, AnswerPrompt, ClearDatabase
  <2>2. \/ \E from \in Checking, to \in Checking \cup {"done"} : Goto(p, from, to)
        \/ \E from \in Checking : Goto(p, from, "failed")
    BY <1>8 DEF RepositoryTests, Cleanup, AnswerPrompt, ClearDatabase, Fails, Checking
  <2>3. Checking \subseteq Working
    BY DEF Checking, Working
  <2> QED BY <1>4, <2>1, <2>2, <2>3, Checks
<1> QED BY <1>1, <1>2, <1>3, <1>6, <1>7, <1>8 DEF PipelineStep

(* agent/tools_runner.py: to whoever reads the reports, pipelines that wait   *)
(* for one another are single measurements of an exactly seeded database; a  *)
(* report is torn only while one writes it or where one was stopped, and one *)
(* that is done has left both, of its own measurement.                       *)
THEOREM SerialReportsImplemented == ASSUME ~Overlap PROVE Spec => ImplementsReports
<1>1. Init => WrittenInv /\ Reports!Init
  <2> SUFFICES ASSUME Init PROVE WrittenInv /\ Reports!Init
    OBVIOUS
  <2>1. \A p \in Runs : Written(p)
    BY DEF Init, Written, Checking, Over
  <2>2. stage = [p \in Runs |-> "idle"]
    BY DEF Init, stage, Stage
  <2> QED BY InitIInv, <2>1, <2>2 DEF WrittenInv, Reports!Init, stage, Init
<1>2. WrittenInv /\ [Next]_vars => WrittenInv' /\ [Reports!Next]_(Reports!vars)
  <2> SUFFICES ASSUME WrittenInv, [Next]_vars
               PROVE  WrittenInv' /\ [Reports!Next]_(Reports!vars)
    OBVIOUS
  <2>1. IInv'
    BY NextKeepsIInv DEF WrittenInv
  <2>2. CASE Next
    <3>1. PICK p \in Runs : Start(p) \/ PipelineStep(p) \/ AnswerPrompt(p) \/ Kill(p)
      BY <2>2 DEF Next
    <3>2. (\A q \in Runs : Written(q)') /\ [Reports!Next]_(Reports!vars)
      BY <3>1, StepsAreSeen DEF Reports!Next
    <3> QED BY <2>1, <3>2 DEF WrittenInv
  <2>3. CASE UNCHANGED vars
    BY <2>1, <2>3 DEF vars, WrittenInv, Written, Reports!vars
  <2> QED BY <2>2, <2>3
<1> QED BY <1>1, <1>2, PTL DEF Spec, ImplementsReports, Reports!Spec
================================================================================
