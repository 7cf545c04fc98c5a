--------------------------- MODULE CaseWatcherProofs ---------------------------
(***************************************************************************)
(* For any number of cases, tools threads and pipelines: the requests of one *)
(* life of the bot show ever newer models, but for one repetition each, the  *)
(* summaries of tools threads go to the request of their click or to one     *)
(* that took its place, and without tools threads the summaries show ever    *)
(* newer reports in the same sense.                                          *)
(***************************************************************************)
EXTENDS CaseWatcher, TLAPS

Places == {"sleep", "idle", "done"} \cup ModelPC \cup ReportPC \cup PipelinePC

Model == [mtime : Times, status : Drafts \cup {"none", "pending", "approved"}]
Report == [mtime : Times, whole : BOOLEAN]

PlacesOK == /\ pc \in [Threads -> Places]
            /\ \A p \in Tools \cup Pipelines : pc[p] \notin ModelPC \cup {"sleep"}
            /\ cur \in [Threads -> Cases]

(* Zero is a time, and the next time is one when there is a next. *)
LEMMA TimesFacts ==
  /\ 0 \in Times /\ 1 \in Cases /\ Times \subseteq Nat
  /\ \A t \in Times : t < MaxClock => t + 1 \in Times /\ t < t + 1
  BY CasesAssumption, BoundsAssumption DEF Times, Cases

(* Threads that move have a place to go. *)
LEMMA GotoOK ==
  ASSUME PlacesOK, NEW p \in Threads, NEW from, NEW to \in Places, Goto(p, from, to),
         p \in Tools \cup Pipelines => to \notin ModelPC \cup {"sleep"}
  PROVE  /\ pc' \in [Threads -> Places]
         /\ \A q \in Tools \cup Pipelines : pc'[q] \notin ModelPC \cup {"sleep"}
         /\ pc[p] = from /\ pc'[p] = to
         /\ \A q \in Threads \ {p} : pc'[q] = pc[q]
  BY DEF PlacesOK, Goto, Threads, Posters

(* The end of a case. *)
LEMMA FinishOK ==
  ASSUME PlacesOK, NEW p \in Posters, NEW from, Finish(p, from)
  PROVE  /\ PlacesOK'
         /\ pc[p] = from
         /\ pc'[p] = IF p = Watcher THEN IF cur[p] < NumCases THEN "model" ELSE "sleep"
                                    ELSE "done"
         /\ \A q \in Threads \ {p} : pc'[q] = pc[q] /\ cur'[q] = cur[q]
         /\ p # Watcher => cur' = cur
<1>1. CASE p = Watcher /\ cur[p] < NumCases
  <2>1. Goto(p, from, "model") /\ cur' = [cur EXCEPT ![p] = cur[p] + 1]
    BY <1>1 DEF Finish
  <2>2. cur[p] + 1 \in Cases
    BY <1>1, CasesAssumption DEF PlacesOK, Cases, Threads
  <2>3. p \in Threads /\ p \notin Tools \cup Pipelines
    BY <1>1, ThreadsDisjoint DEF Threads, Posters
  <2>4. cur' \in [Threads -> Cases] /\ \A q \in Threads \ {p} : cur'[q] = cur[q]
    BY <2>1, <2>2, <2>3 DEF PlacesOK
  <2> QED BY <1>1, <2>1, <2>3, <2>4, GotoOK DEF Places, ModelPC, PlacesOK
<1>2. CASE ~(p = Watcher /\ cur[p] < NumCases)
  <2>1. Goto(p, from, IF p = Watcher THEN "sleep" ELSE "done") /\ cur' = cur
    BY <1>2 DEF Finish
  <2>2. p \in Threads /\ (p = Watcher => p \notin Tools \cup Pipelines)
    BY ThreadsDisjoint DEF Threads, Posters
  <2>3. CASE p = Watcher
    <3>1. Goto(p, from, "sleep")
      BY <2>1, <2>3
    <3> QED BY <1>2, <2>1, <2>2, <2>3, <3>1, GotoOK DEF Places, ModelPC, PlacesOK
  <2>4. CASE p # Watcher
    <3>1. Goto(p, from, "done")
      BY <2>1, <2>4
    <3> QED BY <2>1, <2>2, <2>4, <3>1, GotoOK DEF Places, ModelPC, PlacesOK
  <2> QED BY <2>3, <2>4
<1> QED BY <1>1, <1>2

WatcherOnly == \/ Wakes \/ StatModel \/ ReadModelStatus \/ MarkModel
               \/ RenderRequest \/ PostRequest \/ LinkThread

(* Every step leaves the threads at places they can be in.                   *)
LEMMA NextKeepsPlaces == ASSUME PlacesOK, [Next]_vars PROVE PlacesOK'
<1> USE DEF Places, ModelPC, ReportPC, PipelinePC
<1>1. ASSUME WatcherOnly PROVE PlacesOK'
  <2>1. Watcher \in Threads /\ Watcher \notin Tools \cup Pipelines
    BY ThreadsDisjoint DEF Threads, Posters
  <2>2. \E from, to \in Places : Goto(Watcher, from, to)
    BY <1>1 DEF WatcherOnly, Wakes, StatModel, ReadModelStatus, MarkModel, RenderRequest,
       PostRequest, LinkThread, Abort
  <2>3. cur' \in [Threads -> Cases]
    BY <1>1, TimesFacts DEF WatcherOnly, Wakes, StatModel, ReadModelStatus, MarkModel,
       RenderRequest, PostRequest, LinkThread, PlacesOK
  <2> QED BY <2>1, <2>2, <2>3, GotoOK DEF PlacesOK
<1>2. ASSUME NEW p \in Posters, ReportStep(p) PROVE PlacesOK'
  <2>1. CASE \E from : Finish(p, from)
    BY <2>1, FinishOK
  <2>2. CASE ~(\E from : Finish(p, from))
    <3>1. (\E from \in Places, to \in ReportPC : Goto(p, from, to)) /\ cur' = cur
      BY <1>2, <2>2 DEF ReportStep, StatReport, MarkReport, ReadReport, PostSummary
    <3> QED BY <3>1, GotoOK DEF PlacesOK, Threads
  <2> QED BY <2>1, <2>2
<1>3. ASSUME NEW p \in Tools \cup Pipelines,
             \/ PipelineStep(p) \/ ContinueEnds(p)
             \/ p \in Tools /\ HandlerStartsTools(p)
             \/ \E c \in Cases : (p \in Tools /\ ClickApprove(p, c)) \/ StartPipeline(p, c)
      PROVE  PlacesOK'
  <2>1. p \in Threads
    BY DEF Threads, Posters
  <2>2. PICK from, to \in {"idle", "stat", "done"} \cup PipelinePC : Goto(p, from, to)
    BY <1>3 DEF PipelineStep, OpenReport, CloseReport, PipelineEnds, PipelineFails,
       HandlerStartsTools, ContinueEnds, ClickApprove, StartPipeline
  <2>3. cur' \in [Threads -> Cases]
    BY <1>3 DEF PipelineStep, OpenReport, CloseReport, PipelineEnds, PipelineFails,
       HandlerStartsTools, ContinueEnds, ClickApprove, StartPipeline, PlacesOK
  <2>4. to \in Places /\ to \notin ModelPC \cup {"sleep"}
    OBVIOUS
  <2>5. /\ pc' \in [Threads -> Places]
        /\ \A q \in Tools \cup Pipelines : pc'[q] \notin ModelPC \cup {"sleep"}
    BY <2>1, <2>2, <2>4, GotoOK
  <2> QED BY <2>3, <2>5 DEF PlacesOK
<1>4. CASE \E c \in Cases : DraftModel(c)
  BY <1>4 DEF DraftModel, PlacesOK
<1>5. CASE BotRestart
  BY <1>5, ThreadsDisjoint DEF BotRestart, PlacesOK, Threads, Posters
<1>6. CASE UNCHANGED vars
  BY <1>6 DEF vars, PlacesOK
<1> QED BY <1>1, <1>2, <1>3, <1>4, <1>5, <1>6
        DEF Next, WatcherStep, WatcherOnly, ToolsStep, Posters

-----------------------------------------------------------------------------
(* The types of files, memory and history. *)
FilesOK == model \in [Cases -> Model] /\ report \in [Cases -> Report] /\ clock \in Times

MemoryOK == /\ seen \in [Cases -> Times] /\ posted \in [Cases -> Times]
            /\ thread \in [Cases -> Nat]

HistoryOK == /\ stat \in [Posters -> Times] /\ got \in [Posters -> Times]
             /\ clicked \in [Tools -> Nat] /\ messages \in [Cases -> Nat]
             /\ asks \in [Cases -> Seq(Ask)] /\ sums \in [Cases -> Seq(Summary)]
             /\ dropped \in 0..MaxDrop /\ restarts \in 0..MaxRestart

LEMMA TypeParts == TypeOK <=> PlacesOK /\ FilesOK /\ MemoryOK /\ HistoryOK
BY DEF TypeOK, PlacesOK, FilesOK, MemoryOK, HistoryOK, Places, Model, Report

(* The actions that write files, and who is there to take them. *)
LEMMA Writers ==
  ASSUME [Next]_vars
  PROVE  \/ UNCHANGED files
         \/ \E c \in Cases : DraftModel(c)
         \/ \E t \in Tools, c \in Cases : ClickApprove(t, c)
         \/ \E p \in Tools \cup Pipelines : OpenReport(p) \/ CloseReport(p)
<1>1. CASE WatcherOnly \/ BotRestart
  BY <1>1 DEF WatcherOnly, Wakes, StatModel, ReadModelStatus, MarkModel, RenderRequest,
     PostRequest, LinkThread, BotRestart
<1>2. CASE \E p \in Posters : ReportStep(p)
  BY <1>2 DEF ReportStep, StatReport, MarkReport, ReadReport, PostSummary
<1>3. CASE \E p \in Tools \cup Pipelines :
             PipelineEnds(p) \/ PipelineFails(p) \/ HandlerStartsTools(p)
             \/ ContinueEnds(p) \/ \E c \in Cases : StartPipeline(p, c)
  BY <1>3 DEF PipelineEnds, PipelineFails, HandlerStartsTools, ContinueEnds, StartPipeline
<1>4. CASE UNCHANGED vars
  BY <1>4 DEF vars, files
<1> QED BY <1>1, <1>2, <1>3, <1>4
        DEF Next, WatcherStep, WatcherOnly, ToolsStep, PipelineStep, Posters

(* A write gives its file a time that no file had before. *)
LEMMA WriteTimes ==
  ASSUME PlacesOK, FilesOK, [Next]_vars,
         \A c \in Cases : model[c].mtime <= clock /\ report[c].mtime <= clock
  PROVE  /\ FilesOK'
         /\ \A c \in Cases : /\ model'[c].mtime <= clock' /\ report'[c].mtime <= clock'
                             /\ model[c].mtime <= model'[c].mtime
                             /\ report[c].mtime <= report'[c].mtime
<1> DEFINE Good == /\ FilesOK'
                   /\ \A c \in Cases : /\ model'[c].mtime <= clock'
                                       /\ report'[c].mtime <= clock'
                                       /\ model[c].mtime <= model'[c].mtime
                                       /\ report[c].mtime <= report'[c].mtime
<1>1. /\ \A c \in Cases : model[c].mtime \in Nat /\ report[c].mtime \in Nat
      /\ clock \in Nat /\ clock \in Times
  BY DEF FilesOK, Model, Report, Times
<1>2. ASSUME UNCHANGED files PROVE Good
  <2>1. model' = model /\ report' = report /\ clock' = clock
    BY <1>2 DEF files
  <2> QED BY <1>1, <2>1 DEF FilesOK
<1>3. ASSUME Tick PROVE clock' \in Times /\ clock' = clock + 1
  BY <1>1, <1>3, TimesFacts DEF Tick
<1>4. ASSUME NEW c \in Cases, NEW s \in Drafts \cup {"approved"}, Tick, report' = report,
             model' = [model EXCEPT ![c] = [mtime |-> clock', status |-> s]]
      PROVE  Good
  <2>1. [mtime |-> clock', status |-> s] \in Model
    BY <1>3, <1>4 DEF Model
  <2>2. FilesOK'
    BY <1>3, <1>4, <2>1 DEF FilesOK
  <2>3. \A d \in Cases : model'[d] = IF d = c THEN [mtime |-> clock', status |-> s] ELSE model[d]
    BY <1>4 DEF FilesOK
  <2>4. \A d \in Cases : model'[d].mtime = IF d = c THEN clock' ELSE model[d].mtime
    BY <2>3
  <2> QED BY <1>1, <1>3, <1>4, <2>2, <2>4
<1>5. ASSUME NEW c \in Cases, NEW w \in BOOLEAN,
             clock' \in Times, clock' = clock \/ clock' = clock + 1, model' = model,
             report' = [report EXCEPT ![c] = [mtime |-> clock', whole |-> w]]
      PROVE  Good
  <2>1. [mtime |-> clock', whole |-> w] \in Report
    BY <1>5 DEF Report
  <2>2. FilesOK'
    BY <1>5, <2>1 DEF FilesOK
  <2>3. \A d \in Cases : report'[d] = IF d = c THEN [mtime |-> clock', whole |-> w] ELSE report[d]
    BY <1>5 DEF FilesOK
  <2>4. \A d \in Cases : report'[d].mtime = IF d = c THEN clock' ELSE report[d].mtime
    BY <2>3
  <2> QED BY <1>1, <1>5, <2>2, <2>4
<1>6. ASSUME NEW c \in Cases, DraftModel(c) PROVE Good
  BY <1>4, <1>6 DEF DraftModel
<1>7. ASSUME NEW t \in Tools, NEW c \in Cases, ClickApprove(t, c) PROVE Good
  <2>1. CASE UNCHANGED <<model, clock>>
    BY <1>2, <1>7, <2>1 DEF ClickApprove, files
  <2>2. CASE ~UNCHANGED <<model, clock>>
    BY <1>4, <1>7, <2>2 DEF ClickApprove
  <2> QED BY <2>1, <2>2
<1>8. ASSUME NEW p \in Tools \cup Pipelines, OpenReport(p) \/ CloseReport(p) PROVE Good
  <2>1. cur[p] \in Cases
    BY DEF PlacesOK, Threads, Posters
  <2>2. clock' \in Times /\ (clock' = clock \/ clock' = clock + 1) /\ model' = model
    BY <1>1, <1>3, <1>8 DEF OpenReport, CloseReport
  <2>3. \E w \in BOOLEAN : report' = [report EXCEPT ![cur[p]] = [mtime |-> clock', whole |-> w]]
    BY <1>8 DEF OpenReport, CloseReport
  <2> QED BY <1>5, <2>1, <2>2, <2>3
<1> QED BY <1>2, <1>6, <1>7, <1>8, Writers

(* The memory keeps its types. *)
LEMMA MemoryStep == ASSUME PlacesOK, MemoryOK, HistoryOK, [Next]_vars PROVE MemoryOK'
<1>1. \A p \in Threads : cur[p] \in Cases
  BY DEF PlacesOK
<1>2. CASE WatcherOnly
  <2>1. Case \in Cases /\ stat[Watcher] \in Times /\ messages[Case] \in Nat
    BY <1>1 DEF Case, Threads, Posters, HistoryOK
  <2> QED BY <1>2, <2>1 DEF WatcherOnly, Wakes, StatModel, ReadModelStatus, MarkModel,
             RenderRequest, PostRequest, LinkThread, memory, MemoryOK
<1>3. ASSUME NEW p \in Posters, ReportStep(p) PROVE MemoryOK'
  <2>1. cur[p] \in Cases /\ stat[p] \in Times
    BY <1>1 DEF Threads, HistoryOK
  <2> QED BY <1>3, <2>1 DEF ReportStep, StatReport, MarkReport, MarkAs, ReadReport,
             PostSummary, memory, MemoryOK
<1>4. ASSUME NEW p \in Tools \cup Pipelines,
             \/ PipelineStep(p) \/ ContinueEnds(p)
             \/ p \in Tools /\ HandlerStartsTools(p)
             \/ \E c \in Cases : (p \in Tools /\ ClickApprove(p, c)) \/ StartPipeline(p, c)
      PROVE  MemoryOK'
  BY <1>4 DEF PipelineStep, OpenReport, CloseReport, PipelineEnds, PipelineFails,
     HandlerStartsTools, ContinueEnds, LinkFirst, ClickApprove, StartPipeline, memory,
     MemoryOK, HistoryOK
<1>5. CASE (\E c \in Cases : DraftModel(c)) \/ UNCHANGED vars
  BY <1>5 DEF DraftModel, vars, memory, MemoryOK
<1>6. CASE BotRestart
  BY <1>6, TimesFacts DEF BotRestart, MemoryOK
<1> QED BY <1>2, <1>3, <1>4, <1>5, <1>6
        DEF Next, WatcherStep, WatcherOnly, ToolsStep, Posters

(* What has been read and posted keeps its types. *)
LEMMA HistoryStep ==
  ASSUME PlacesOK, FilesOK, MemoryOK, HistoryOK, [Next]_vars PROVE HistoryOK'
<1>1. \A p \in Threads : cur[p] \in Cases
  BY DEF PlacesOK
<1>2. ASSUME Drop PROVE dropped' \in 0..MaxDrop
  BY <1>2, BoundsAssumption DEF Drop, HistoryOK
<1>3. CASE WatcherOnly
  <2> DEFINE ask == [time |-> stat[Watcher], text |-> got[Watcher]]
  <2>1. /\ Case \in Cases /\ stat[Watcher] \in Times /\ got[Watcher] \in Times
        /\ asks[Case] \in Seq(Ask) /\ messages[Case] \in Nat
    BY <1>1 DEF Case, Threads, Posters, HistoryOK
  <2>2. model[Case].mtime \in Times
    BY <2>1 DEF FilesOK, Model
  <2>3. ask \in Ask
    BY <2>1 DEF Ask
  <2>4. \/ asks' = asks /\ messages' = messages
        \/ /\ asks' = [asks EXCEPT ![Case] = Append(asks[Case], ask)]
           /\ messages' = [messages EXCEPT ![Case] = messages[Case] + 1]
    BY <1>3 DEF WatcherOnly, Wakes, StatModel, ReadModelStatus, MarkModel,
       RenderRequest, PostRequest, Asked, LinkThread, slack
  <2>5. stat' \in [Posters -> Times] /\ got' \in [Posters -> Times] /\ clicked' = clicked
    BY <1>3, <2>2 DEF WatcherOnly, Wakes, StatModel, ReadModelStatus, MarkModel,
       RenderRequest, PostRequest, LinkThread, locals, HistoryOK
  <2>6. dropped' \in 0..MaxDrop /\ sums' = sums /\ restarts' = restarts
    BY <1>2, <1>3 DEF WatcherOnly, Wakes, StatModel, ReadModelStatus, MarkModel,
       RenderRequest, PostRequest, LinkThread, slack, HistoryOK
  <2> HIDE DEF ask
  <2>7. Append(asks[Case], ask) \in Seq(Ask)
    BY <2>1, <2>3
  <2>8. asks' \in [Cases -> Seq(Ask)] /\ messages' \in [Cases -> Nat]
    <3>1. CASE asks' = asks /\ messages' = messages
      BY <3>1 DEF HistoryOK
    <3>2. CASE /\ asks' = [asks EXCEPT ![Case] = Append(asks[Case], ask)]
               /\ messages' = [messages EXCEPT ![Case] = messages[Case] + 1]
      BY <2>1, <2>7, <3>2 DEF HistoryOK
    <3> QED BY <2>4, <3>1, <3>2
  <2> QED BY <2>5, <2>6, <2>8 DEF HistoryOK
<1>4. ASSUME NEW p \in Posters, ReportStep(p) PROVE HistoryOK'
  <2> DEFINE sum == [time |-> stat[p], text |-> got[p], by |-> p, thread |-> thread[cur[p]]]
  <2>1. cur[p] \in Cases /\ stat[p] \in Times /\ got[p] \in Times /\ report[cur[p]].mtime \in Times
    BY <1>1 DEF Threads, HistoryOK, FilesOK, Report
  <2>2. sum \in Summary
    BY <2>1 DEF Summary, MemoryOK
  <2>3. Append(sums[cur[p]], sum) \in Seq(Summary)
    BY <2>1, <2>2 DEF HistoryOK
  <2>4. sums' = sums \/ sums' = [sums EXCEPT ![cur[p]] = Append(sums[cur[p]], sum)]
    BY <1>4 DEF ReportStep, StatReport, MarkReport, ReadReport, PostSummary, slack
  <2> HIDE DEF sum
  <2>5. sums' \in [Cases -> Seq(Summary)]
    BY <2>3, <2>4 DEF HistoryOK
  <2>6. stat' \in [Posters -> Times] /\ got' \in [Posters -> Times] /\ clicked' = clicked
    BY <1>4, <2>1 DEF ReportStep, StatReport, MarkReport, ReadReport, PostSummary, locals,
       HistoryOK
  <2>7. dropped' \in 0..MaxDrop /\ asks' = asks /\ messages' = messages /\ restarts' = restarts
    BY <1>2, <1>4 DEF ReportStep, StatReport, MarkReport, ReadReport, PostSummary, slack,
       HistoryOK
  <2> QED BY <2>5, <2>6, <2>7 DEF HistoryOK
<1>5. ASSUME NEW p \in Tools \cup Pipelines,
             \/ PipelineStep(p) \/ ContinueEnds(p)
             \/ p \in Tools /\ HandlerStartsTools(p)
             \/ \E c \in Cases : (p \in Tools /\ ClickApprove(p, c)) \/ StartPipeline(p, c)
      PROVE  HistoryOK'
  <2>1. CASE \E c \in Cases : p \in Tools /\ ClickApprove(p, c)
    <3>0. PICK c \in Cases : ClickApprove(p, c)
      BY <2>1
    <3>1. PICK n \in 1..messages[c] : clicked' = [clicked EXCEPT ![p] = n]
      BY <3>0 DEF ClickApprove
    <3>2. messages[c] \in Nat
      BY DEF HistoryOK
    <3>3. n \in Nat
      BY <3>2
    <3>4. UNCHANGED <<slack, stat, got, restarts>>
      BY <2>1 DEF ClickApprove
    <3> QED BY <3>1, <3>3, <3>4 DEF slack, HistoryOK
  <2>2. CASE ~(\E c \in Cases : p \in Tools /\ ClickApprove(p, c))
    BY <1>5, <2>2 DEF PipelineStep, OpenReport, CloseReport, PipelineEnds, PipelineFails,
       HandlerStartsTools, ContinueEnds, StartPipeline, slack, locals, HistoryOK
  <2> QED BY <2>1, <2>2
<1>6. CASE (\E c \in Cases : DraftModel(c)) \/ UNCHANGED vars
  BY <1>6 DEF DraftModel, vars, slack, locals, HistoryOK
<1>7. CASE BotRestart
  <2>1. restarts' \in 0..MaxRestart
    BY <1>7, BoundsAssumption DEF BotRestart, HistoryOK
  <2>2. asks' \in [Cases -> Seq(Ask)] /\ sums' \in [Cases -> Seq(Summary)]
    BY <1>7 DEF BotRestart
  <2> QED BY <1>7, <2>1, <2>2 DEF BotRestart, locals, HistoryOK
<1> QED BY <1>3, <1>4, <1>5, <1>6, <1>7
        DEF Next, WatcherStep, WatcherOnly, ToolsStep, Posters

-----------------------------------------------------------------------------
(* No file is newer than the clock. *)
NotNewer == \A c \in Cases : model[c].mtime <= clock /\ report[c].mtime <= clock

TypeInv == TypeOK /\ NotNewer

LEMMA InitTypes == Init => TypeInv
<1> SUFFICES ASSUME Init PROVE TypeInv
  OBVIOUS
<1>1. PlacesOK
  BY TimesFacts, ThreadsDisjoint
     DEF Init, PlacesOK, Places, ModelPC, ReportPC, PipelinePC, Threads, Posters
<1>2. FilesOK /\ MemoryOK /\ NotNewer
  BY TimesFacts DEF Init, FilesOK, MemoryOK, NotNewer, Model, Report
<1>3. HistoryOK
  BY TimesFacts, BoundsAssumption DEF Init, HistoryOK
<1> QED BY <1>1, <1>2, <1>3, TypeParts DEF TypeInv

LEMMA NextKeepsTypes == ASSUME TypeInv, [Next]_vars PROVE TypeInv'
<1>1. PlacesOK /\ FilesOK /\ MemoryOK /\ HistoryOK
  BY TypeParts DEF TypeInv
<1>2. PlacesOK' /\ MemoryOK' /\ HistoryOK'
  BY <1>1, NextKeepsPlaces, MemoryStep, HistoryStep
<1>3. FilesOK' /\ NotNewer'
  BY <1>1, WriteTimes DEF TypeInv, NotNewer
<1>4. PlacesOK' /\ FilesOK' /\ MemoryOK' /\ HistoryOK' => TypeOK'
  BY DEF TypeOK, PlacesOK, FilesOK, MemoryOK, HistoryOK, Places, Model, Report
<1> QED BY <1>2, <1>3, <1>4 DEF TypeInv

(* The variables have their types. *)
THEOREM TypeCorrect == Spec => []TypeOK
<1>1. TypeInv => TypeOK
  BY DEF TypeInv
<1> QED BY InitTypes, NextKeepsTypes, <1>1, PTL DEF Spec

-----------------------------------------------------------------------------
(* A tools thread between the link of its click and its end. *)
AtWork == ReportPC \cup (PipelinePC \ {"update"})

(* What a tools thread can do in a step. *)
LEMMA ToolsMoves ==
  ASSUME TypeOK, [Next]_vars, NEW t \in Tools
  PROVE  \/ UNCHANGED <<pc[t], cur[t], clicked[t]>>
         \/ pc[t] \in AtWork /\ pc'[t] \in AtWork \cup {"done"} /\ UNCHANGED <<cur[t], clicked[t]>>
         \/ \E c \in Cases : ClickApprove(t, c)
         \/ HandlerStartsTools(t)
         \/ BotRestart
<1> USE DEF AtWork, ReportPC, PipelinePC
<1>1. PlacesOK /\ HistoryOK /\ t \in Threads /\ t # Watcher /\ t \in Posters /\ t \notin Pipelines
  BY TypeParts, ThreadsDisjoint DEF Threads, Posters
<1>2. CASE WatcherOnly
  BY <1>1, <1>2 DEF WatcherOnly, Wakes, StatModel, ReadModelStatus, MarkModel, RenderRequest,
     PostRequest, LinkThread, Abort, Goto, PlacesOK, locals
<1>3. ASSUME NEW p \in Posters, ReportStep(p)
      PROVE  /\ UNCHANGED clicked
             /\ \/ p # t /\ UNCHANGED <<pc[t], cur[t]>>
                \/ pc[t] \in AtWork /\ pc'[t] \in AtWork \cup {"done"} /\ UNCHANGED cur[t]
  <2>1. UNCHANGED clicked
    BY <1>3 DEF ReportStep, StatReport, MarkReport, ReadReport, PostSummary, locals
  <2>2. CASE \E from : Finish(p, from)
    <3>1. PICK from \in ReportPC : Finish(p, from)
      BY <1>1, <1>3, <2>2, FinishOK DEF ReportStep, StatReport, MarkReport, ReadReport,
         PostSummary, Goto
    <3> QED BY <1>1, <2>1, <3>1, FinishOK
  <2>3. CASE ~(\E from : Finish(p, from))
    BY <1>1, <1>3, <2>1, <2>3 DEF ReportStep, StatReport, MarkReport, ReadReport, PostSummary,
       Goto, PlacesOK
  <2> QED BY <2>2, <2>3
<1>4. ASSUME NEW p \in Tools \cup Pipelines, PipelineStep(p) \/ ContinueEnds(p)
      PROVE  /\ UNCHANGED <<cur, clicked>>
             /\ \/ p # t /\ UNCHANGED pc[t]
                \/ pc[t] \in AtWork /\ pc'[t] \in AtWork \cup {"done"}
  BY <1>1, <1>4 DEF PipelineStep, OpenReport, CloseReport, PipelineEnds, PipelineFails,
     ContinueEnds, Goto, PlacesOK, locals
<1>5. ASSUME NEW p \in Tools, p # t, HandlerStartsTools(p) \/ \E c \in Cases : ClickApprove(p, c)
      PROVE  UNCHANGED <<pc[t], cur[t], clicked[t]>>
  BY <1>1, <1>5 DEF HandlerStartsTools, ClickApprove, Goto, PlacesOK, HistoryOK, locals
<1>6. ASSUME NEW p \in Pipelines, NEW c \in Cases, StartPipeline(p, c)
      PROVE  UNCHANGED <<pc[t], cur[t], clicked[t]>>
  BY <1>1, <1>6 DEF StartPipeline, Goto, PlacesOK, locals
<1>7. CASE (\E c \in Cases : DraftModel(c)) \/ UNCHANGED vars
  BY <1>7 DEF DraftModel, locals, vars
<1> QED BY <1>2, <1>3, <1>4, <1>5, <1>6, <1>7
        DEF Next, WatcherStep, WatcherOnly, ToolsStep, Posters

(* Who remembers a thread, and who posts. *)
LEMMA ThreadWriters ==
  ASSUME [Next]_vars
  PROVE  UNCHANGED thread \/ LinkThread \/ BotRestart \/ \E t \in Tools : HandlerStartsTools(t)
<1>1. CASE WatcherOnly
  BY <1>1 DEF WatcherOnly, Wakes, StatModel, ReadModelStatus, MarkModel, RenderRequest,
     PostRequest, LinkThread, memory
<1>2. CASE \E p \in Posters : ReportStep(p)
  BY <1>2 DEF ReportStep, StatReport, MarkReport, ReadReport, PostSummary, memory
<1>3. CASE \E p \in Tools \cup Pipelines :
             PipelineStep(p) \/ ContinueEnds(p)
             \/ \E c \in Cases : ClickApprove(p, c) \/ StartPipeline(p, c)
  BY <1>3 DEF PipelineStep, OpenReport, CloseReport, PipelineEnds, PipelineFails, ContinueEnds,
     ClickApprove, StartPipeline, memory
<1>4. CASE (\E c \in Cases : DraftModel(c)) \/ UNCHANGED vars
  BY <1>4 DEF DraftModel, memory, vars
<1> QED BY <1>1, <1>2, <1>3, <1>4
        DEF Next, WatcherStep, WatcherOnly, ToolsStep, Posters

LEMMA SummaryWriters ==
  ASSUME [Next]_vars
  PROVE  UNCHANGED sums \/ BotRestart \/ \E p \in Posters : PostSummary(p)
<1>1. CASE WatcherOnly
  BY <1>1 DEF WatcherOnly, Wakes, StatModel, ReadModelStatus, MarkModel, RenderRequest,
     PostRequest, LinkThread, slack
<1>2. CASE \E p \in Posters : ReportStep(p)
  BY <1>2 DEF ReportStep, StatReport, MarkReport, ReadReport, PostSummary, slack
<1>3. CASE \E p \in Tools \cup Pipelines :
             PipelineStep(p) \/ ContinueEnds(p) \/ HandlerStartsTools(p)
             \/ \E c \in Cases : ClickApprove(p, c) \/ StartPipeline(p, c)
  BY <1>3 DEF PipelineStep, OpenReport, CloseReport, PipelineEnds, PipelineFails, ContinueEnds,
     HandlerStartsTools, ClickApprove, StartPipeline, slack
<1>4. CASE (\E c \in Cases : DraftModel(c)) \/ UNCHANGED vars
  BY <1>4 DEF DraftModel, slack, vars
<1> QED BY <1>1, <1>2, <1>3, <1>4
        DEF Next, WatcherStep, WatcherOnly, ToolsStep, Posters

(* Requests are only added, and a request is there when it becomes a thread. *)
LinkHasRequest == pc[Watcher] = "link" => messages[Case] >= 1

LEMMA MessagesGrow ==
  ASSUME TypeOK, LinkHasRequest, [Next]_vars
  PROVE  (\A c \in Cases : messages[c] <= messages'[c]) /\ LinkHasRequest'
<1>1. /\ PlacesOK /\ HistoryOK /\ Watcher \in Threads /\ Watcher \notin Tools \cup Pipelines
      /\ Watcher \in Posters
  BY TypeParts, ThreadsDisjoint DEF Threads, Posters
<1>2. Case \in Cases /\ \A c \in Cases : messages[c] \in Nat
  BY <1>1 DEF Case, PlacesOK, HistoryOK
<1>3. ASSUME UNCHANGED messages, pc'[Watcher] = "link" => pc[Watcher] = "link" /\ Case' = Case
      PROVE  (\A c \in Cases : messages[c] <= messages'[c]) /\ LinkHasRequest'
  BY <1>2, <1>3 DEF LinkHasRequest
<1>4. CASE PostRequest
  <2>1. CASE UNCHANGED messages /\ ~Asked
    <3>1. pc'[Watcher] = "stat"
      BY <1>1, <1>4, <2>1 DEF PostRequest, Goto, PlacesOK
    <3> QED BY <1>3, <2>1, <3>1
  <2>2. CASE Asked
    <3>1. \A c \in Cases : messages'[c] = IF c = Case THEN messages[c] + 1 ELSE messages[c]
      BY <1>1, <2>2 DEF Asked, HistoryOK
    <3>2. Case' = Case
      BY <1>4 DEF PostRequest, Case
    <3> QED BY <1>2, <3>1, <3>2 DEF LinkHasRequest
  <2> QED BY <1>4, <2>1, <2>2 DEF PostRequest
<1>5. CASE Wakes \/ StatModel \/ ReadModelStatus \/ MarkModel \/ RenderRequest \/ LinkThread
  <2>1. UNCHANGED messages /\ pc'[Watcher] # "link"
    BY <1>1, <1>5 DEF Wakes, StatModel, ReadModelStatus, MarkModel, RenderRequest, LinkThread,
       Abort, Goto, PlacesOK, slack
  <2> QED BY <1>3, <2>1
<1>6. ASSUME NEW p \in Posters, ReportStep(p)
      PROVE  UNCHANGED messages /\ (pc'[Watcher] = "link" => pc[Watcher] = "link" /\ Case' = Case)
  <2>1. UNCHANGED messages
    BY <1>6 DEF ReportStep, StatReport, MarkReport, ReadReport, PostSummary, slack
  <2>2. CASE \E from : Finish(p, from)
    BY <1>1, <2>1, <2>2, FinishOK DEF Case
  <2>3. CASE ~(\E from : Finish(p, from))
    BY <1>1, <1>6, <2>1, <2>3 DEF ReportStep, StatReport, MarkReport, ReadReport, PostSummary,
       Goto, PlacesOK, Case
  <2> QED BY <2>2, <2>3
<1>7. ASSUME NEW p \in Tools \cup Pipelines,
             \/ PipelineStep(p) \/ HandlerStartsTools(p) \/ ContinueEnds(p)
             \/ \E c \in Cases : ClickApprove(p, c) \/ StartPipeline(p, c)
      PROVE  UNCHANGED messages /\ pc'[Watcher] = pc[Watcher] /\ Case' = Case
  BY <1>1, <1>7 DEF PipelineStep, OpenReport, CloseReport, PipelineEnds, PipelineFails,
     HandlerStartsTools, ContinueEnds, ClickApprove, StartPipeline, Goto, PlacesOK, slack, Case
<1>8. CASE (\E c \in Cases : DraftModel(c)) \/ UNCHANGED vars
  BY <1>3, <1>8 DEF DraftModel, vars, slack, Case
<1>9. CASE BotRestart
  BY <1>1, <1>3, <1>9 DEF BotRestart, PlacesOK
<1> QED BY <1>3, <1>4, <1>5, <1>6, <1>7, <1>8, <1>9
        DEF Next, WatcherStep, ToolsStep, Posters

-----------------------------------------------------------------------------
(* What a tools thread t answers to: its own request or a newer one, or the   *)
(* request of another click on its case.                                     *)
Takes(t, n) == /\ n \in 1..messages[cur[t]]
               /\ \/ n >= clicked[t]
                  \/ \E u \in Tools \ {t} : pc[u] # "idle" /\ cur[u] = cur[t] /\ clicked[u] = n

Clicked == \A t \in Tools : pc[t] # "idle" => clicked[t] \in 1..messages[cur[t]]
Linked == \A t \in Tools : pc[t] \in AtWork => Takes(t, thread[cur[t]])
Answered == \A c \in Cases : \A i \in DOMAIN sums[c] : sums[c][i].by \in Tools =>
              LET t == sums[c][i].by
              IN pc[t] # "idle" /\ cur[t] = c /\ Takes(t, sums[c][i].thread)

LinkInv == TypeInv /\ LinkHasRequest /\ Clicked /\ Linked /\ Answered

(* A thread that has started keeps its case, its click and what it takes.    *)
LEMMA TakesStays ==
  ASSUME TypeOK, LinkHasRequest, [Next]_vars, NEW t \in Tools, pc[t] # "idle"
  PROVE  /\ pc'[t] # "idle" /\ cur'[t] = cur[t] /\ clicked'[t] = clicked[t]
         /\ \A n : Takes(t, n) => Takes(t, n)'
<1>1. /\ PlacesOK /\ HistoryOK /\ Tools \subseteq Threads /\ Watcher \notin Tools
  BY TypeParts, ThreadsDisjoint DEF Threads, Posters
<1>2. ASSUME NEW u \in Tools, pc[u] # "idle"
      PROVE  pc'[u] # "idle" /\ cur'[u] = cur[u] /\ clicked'[u] = clicked[u]
  <2>1. CASE \E c \in Cases : ClickApprove(u, c)
    BY <1>2, <2>1 DEF ClickApprove, Goto
  <2>2. CASE HandlerStartsTools(u)
    BY <1>1, <2>2 DEF HandlerStartsTools, Goto, PlacesOK, locals
  <2>3. CASE BotRestart
    BY <1>1, <1>2, <2>3 DEF BotRestart, locals
  <2> QED BY <1>2, <2>1, <2>2, <2>3, ToolsMoves DEF AtWork, ReportPC, PipelinePC
<1>3. /\ cur[t] \in Cases /\ messages[cur[t]] \in Nat /\ messages'[cur[t]] \in Nat
      /\ messages[cur[t]] <= messages'[cur[t]]
  <2>1. cur[t] \in Cases
    BY <1>1 DEF PlacesOK
  <2>2. HistoryOK'
    BY <1>1, HistoryStep, TypeParts
  <2> QED BY <1>1, <2>1, <2>2, MessagesGrow DEF HistoryOK
<1>4. ASSUME NEW n, Takes(t, n) PROVE Takes(t, n)'
  <2>1. n \in 1..messages'[cur'[t]]
    BY <1>2, <1>3, <1>4 DEF Takes
  <2>2. CASE n >= clicked[t]
    BY <1>2, <2>1, <2>2 DEF Takes
  <2>3. CASE \E u \in Tools \ {t} : pc[u] # "idle" /\ cur[u] = cur[t] /\ clicked[u] = n
    BY <1>2, <2>1, <2>3 DEF Takes
  <2> QED BY <1>4, <2>2, <2>3 DEF Takes
<1> QED BY <1>2, <1>4

LEMMA NextKeepsLinks == ASSUME LinkInv, [Next]_vars PROVE LinkInv'
<1>1. /\ PlacesOK /\ FilesOK /\ MemoryOK /\ HistoryOK /\ TypeOK /\ TypeInv' /\ HistoryOK'
      /\ LinkHasRequest /\ LinkHasRequest'
      /\ \A c \in Cases : messages[c] <= messages'[c]
  BY TypeParts, NextKeepsTypes, HistoryStep, MessagesGrow DEF LinkInv, TypeInv
<1>2. Tools \subseteq Threads /\ Watcher \notin Tools /\ Watcher \in Threads
  BY ThreadsDisjoint DEF Threads, Posters
<1>3. /\ \A p \in Threads : cur[p] \in Cases
      /\ \A c \in Cases : messages[c] \in Nat /\ messages'[c] \in Nat
      /\ \A t \in Tools : clicked[t] \in Nat
  BY <1>1 DEF PlacesOK, HistoryOK
<1>4. ASSUME NEW t \in Tools, pc'[t] # "idle" PROVE clicked'[t] \in 1..messages'[cur'[t]]
  <2>1. CASE pc[t] # "idle"
    <3>1. clicked[t] \in 1..messages[cur[t]] /\ cur'[t] = cur[t] /\ clicked'[t] = clicked[t]
      BY <1>1, <2>1, TakesStays DEF LinkInv, Clicked
    <3> QED BY <1>1, <1>2, <1>3, <3>1
  <2>2. CASE pc[t] = "idle"
    <3>1. PICK c \in Cases : ClickApprove(t, c)
      <4>1. ~HandlerStartsTools(t)
        BY <2>2 DEF HandlerStartsTools, Goto
      <4>2. ~BotRestart
        BY <1>2, <1>4, <2>2 DEF BotRestart
      <4> QED BY <1>1, <1>4, <2>2, <4>1, <4>2, ToolsMoves DEF AtWork, ReportPC, PipelinePC
    <3>2. PICK n \in 1..messages[c] : clicked' = [clicked EXCEPT ![t] = n]
      BY <3>1 DEF ClickApprove
    <3>3. clicked'[t] = n /\ cur'[t] = c /\ messages' = messages
      BY <1>1, <1>2, <3>1, <3>2 DEF ClickApprove, PlacesOK, HistoryOK, slack
    <3> QED BY <3>2, <3>3
  <2> QED BY <2>1, <2>2
<1>5. ASSUME NEW t \in Tools, pc'[t] \in AtWork PROVE Takes(t, thread[cur[t]])'
  <2>1. ~BotRestart
    BY <1>2, <1>5 DEF BotRestart, AtWork, ReportPC, PipelinePC
  <2>2. ~(\E c \in Cases : ClickApprove(t, c))
    BY <1>1, <1>2, <1>5 DEF ClickApprove, Goto, PlacesOK, AtWork, ReportPC, PipelinePC
  <2>3. CASE HandlerStartsTools(t)
    <3>1. pc[t] = "update" /\ cur[t] \in Cases /\ clicked' = clicked /\ cur' = cur
      BY <1>2, <1>3, <2>3 DEF HandlerStartsTools, Goto, locals
    <3>2. thread'[cur'[t]] = clicked'[t] /\ clicked'[t] \in 1..messages'[cur'[t]]
      BY <1>1, <1>4, <1>5, <2>3, <3>1
         DEF HandlerStartsTools, LinkFirst, MemoryOK, AtWork, ReportPC, PipelinePC
    <3> QED BY <3>2 DEF Takes
  <2>4. CASE ~HandlerStartsTools(t)
    <3>1. pc[t] \in AtWork /\ pc[t] # "idle"
      BY <1>1, <1>5, <2>1, <2>2, <2>4, ToolsMoves DEF AtWork, ReportPC, PipelinePC
    <3>2. /\ Takes(t, thread[cur[t]])' \/ thread'[cur[t]] # thread[cur[t]]
          /\ cur'[t] = cur[t] /\ clicked'[t] = clicked[t] /\ cur[t] \in Cases
          /\ clicked[t] \in 1..messages[cur[t]]
      <4>1. Takes(t, thread[cur[t]]) /\ clicked[t] \in 1..messages[cur[t]]
        BY <3>1 DEF LinkInv, Linked, Clicked
      <4>2. /\ cur'[t] = cur[t] /\ clicked'[t] = clicked[t]
            /\ \A n : Takes(t, n) => Takes(t, n)'
        BY <1>1, <3>1, TakesStays
      <4>3. ASSUME thread'[cur[t]] = thread[cur[t]] PROVE Takes(t, thread[cur[t]])'
        BY <4>1, <4>2, <4>3 DEF Takes
      <4> QED BY <1>2, <1>3, <4>1, <4>2, <4>3
    <3>3. CASE thread'[cur[t]] # thread[cur[t]] /\ LinkThread
      <4>1. thread'[cur[t]] = messages[cur[t]] /\ messages' = messages
        BY <1>1, <3>3 DEF LinkThread, MemoryOK, slack
      <4>2. messages[cur[t]] \in 1..messages[cur[t]] /\ messages[cur[t]] >= clicked[t]
        BY <1>3, <3>2
      <4> QED BY <3>2, <4>1, <4>2 DEF Takes
    <3>4. CASE thread'[cur[t]] # thread[cur[t]] /\ \E u \in Tools : HandlerStartsTools(u)
      <4>1. PICK u \in Tools : HandlerStartsTools(u)
        BY <3>4
      <4>2. /\ u # t /\ cur[u] = cur[t] /\ thread'[cur[t]] = clicked[u] /\ pc[u] = "update"
            /\ messages' = messages
        BY <1>1, <1>2, <1>3, <2>4, <3>2, <3>4, <4>1
           DEF HandlerStartsTools, LinkFirst, Goto, MemoryOK, slack
      <4>3. pc'[u] # "idle" /\ cur'[u] = cur[u] /\ clicked'[u] = clicked[u]
        BY <1>1, <4>2, TakesStays
      <4>4. clicked[u] \in 1..messages[cur[u]]
        BY <4>2 DEF LinkInv, Clicked
      <4> QED BY <3>2, <4>2, <4>3, <4>4 DEF Takes
    <3> QED BY <2>1, <3>2, <3>3, <3>4, ThreadWriters
  <2> QED BY <2>3, <2>4
<1>6. ASSUME NEW c \in Cases, NEW i \in DOMAIN sums'[c], sums'[c][i].by \in Tools
      PROVE  \E t \in Tools, n \in Nat : /\ t = sums'[c][i].by /\ n = sums'[c][i].thread
                                         /\ pc'[t] # "idle" /\ cur'[t] = c /\ Takes(t, n)'
  <2>1. ~BotRestart
    BY <1>6 DEF BotRestart
  <2>2. sums[c] \in Seq(Summary) /\ sums'[c] \in Seq(Summary)
    BY <1>1 DEF HistoryOK
  <2>3. PICK t \in Tools, n \in Nat : t = sums'[c][i].by /\ n = sums'[c][i].thread
    <3>1. sums'[c][i] \in Summary
      BY <2>2
    <3> QED BY <1>6, <3>1 DEF Summary
  <2>4. CASE i \in DOMAIN sums[c] /\ sums'[c][i] = sums[c][i]
    <3>1. pc[t] # "idle" /\ cur[t] = c /\ Takes(t, n)
      BY <1>6, <2>3, <2>4 DEF LinkInv, Answered
    <3>2. pc'[t] # "idle" /\ cur'[t] = cur[t] /\ Takes(t, n)'
      BY <1>1, <3>1, TakesStays
    <3> QED BY <2>3, <3>1, <3>2
  <2>5. CASE ~(i \in DOMAIN sums[c] /\ sums'[c][i] = sums[c][i])
    <3>1. PICK p \in Posters : PostSummary(p)
      BY <1>6, <2>1, <2>5, SummaryWriters
    <3> DEFINE sum == [time |-> stat[p], text |-> got[p], by |-> p, thread |-> thread[cur[p]]]
    <3>2. sums' = [sums EXCEPT ![cur[p]] = Append(sums[cur[p]], sum)]
      BY <1>6, <2>5, <3>1 DEF PostSummary
    <3>3. sum.by = p /\ sum.thread = thread[cur[p]]
      OBVIOUS
    <3> HIDE DEF sum
    <3>4. c = cur[p] /\ sums'[c] = Append(sums[c], sum)
      BY <1>1, <1>6, <2>5, <3>2 DEF HistoryOK
    <3>5. sums'[c][i] = sum
      BY <1>6, <2>2, <2>5, <3>4
    <3>6. p = t /\ n = thread[cur[t]] /\ cur[t] = c
      BY <2>3, <3>3, <3>4, <3>5
    <3>7. pc[p] = "post"
      <4>1. Finish(p, "post")
        BY <3>1 DEF PostSummary
      <4> QED BY <1>1, <4>1, FinishOK
    <3>8. Takes(t, n)
      BY <3>6, <3>7 DEF LinkInv, Linked, AtWork, ReportPC
    <3>9. pc'[t] # "idle" /\ cur'[t] = cur[t] /\ Takes(t, n)'
      BY <1>1, <3>6, <3>7, <3>8, TakesStays
    <3> QED BY <2>3, <3>6, <3>9
  <2> QED BY <2>4, <2>5
<1>7. Clicked' /\ Linked' /\ Answered'
  BY <1>4, <1>5, <1>6 DEF Clicked, Linked, Answered
<1> QED BY <1>1, <1>7 DEF LinkInv

(* slack_app/bot.py: whatever the interleaving of clicks, sweeps, posts that  *)
(* fail and restarts, a tools thread answers under a request of its case:    *)
(* that of its click, a newer one, or one that someone else has clicked.     *)
THEOREM SummariesInThread == Spec => []ToolsSummaryInThread
<1>1. Init => LinkInv
  <2> SUFFICES ASSUME Init PROVE LinkInv
    OBVIOUS
  <2>1. (\A t \in Tools : pc[t] = "idle") /\ pc[Watcher] = "sleep"
    BY ThreadsDisjoint DEF Init, Threads, Posters
  <2>2. \A c \in Cases : DOMAIN sums[c] = {}
    BY DEF Init
  <2> QED BY InitTypes, <2>1, <2>2
          DEF LinkInv, LinkHasRequest, Clicked, Linked, Answered, AtWork, ReportPC, PipelinePC
<1>2. LinkInv => ToolsSummaryInThread
  <2> SUFFICES ASSUME LinkInv, NEW c \in Cases, NEW i \in DOMAIN sums[c], sums[c][i].by \in Tools
               PROVE  LET t == sums[c][i].by
                          n == sums[c][i].thread
                      IN /\ n \in 1..messages[c]
                         /\ n >= clicked[t] \/ \E u \in Tools \ {t} : cur[u] = c /\ clicked[u] = n
    BY DEF ToolsSummaryInThread
  <2>1. LET t == sums[c][i].by IN cur[t] = c /\ Takes(t, sums[c][i].thread)
    BY DEF LinkInv, Answered
  <2> QED BY <2>1 DEF Takes
<1> QED BY <1>1, <1>2, NextKeepsLinks, PTL DEF Spec

-----------------------------------------------------------------------------
(* A sequence of posts in order: each version was read after the time it was *)
(* marked as, and both after everything the earlier posts show.              *)
Chain(s) == \A i \in DOMAIN s :
              /\ s[i].time <= s[i].text
              /\ \A j \in DOMAIN s : i < j => s[i].time < s[j].time /\ s[i].text <= s[j].time

(* How a sequence of posts lies to a time. *)
Marked(s, m) == \A i \in DOMAIN s : s[i].time <= m
Before(s, m) == \A i \in DOMAIN s : s[i].time < m
Behind(s, m) == \A i \in DOMAIN s : s[i].text <= m

Timed(P) == \A m \in P : m.time \in Nat /\ m.text \in Nat

LEMMA PostsTimed == Timed(Ask) /\ Timed(Summary)
BY DEF Timed, Ask, Summary, Times

(* What is posted in order advances. *)
LEMMA ChainAdvances ==
  ASSUME NEW P, Timed(P), NEW s \in Seq(P), Chain(s)
  PROVE  Advances(s)
<1>1. /\ Len(s) \in Nat /\ DOMAIN s = 1..Len(s)
      /\ \A i \in DOMAIN s : s[i].time \in Nat /\ s[i].text \in Nat
  BY DEF Timed
<1>2. ASSUME NEW i \in DOMAIN s, NEW j \in DOMAIN s, i < j
      PROVE  /\ s[i].time < s[j].time /\ s[i].text <= s[j].time
             /\ s[j].time <= s[j].text
  BY <1>2 DEF Chain
<1>3. ASSUME NEW i \in DOMAIN s, NEW j \in DOMAIN s, i < j
      PROVE  s[i].text <= s[j].text
  BY <1>1, <1>2, <1>3
<1>4. ASSUME NEW i \in DOMAIN s, NEW j \in DOMAIN s, i < j, s[i].text = s[j].text
      PROVE  j = i + 1 /\ s[i].time < s[i].text
  <2>1. s[j].time = s[i].text /\ s[i].time < s[j].time
    BY <1>1, <1>2, <1>4
  <2>2. ASSUME j # i + 1 PROVE FALSE
    <3>1. i + 1 \in DOMAIN s /\ i < i + 1 /\ i + 1 < j
      BY <1>1, <1>4, <2>2
    <3>2. s[i].text <= s[i + 1].time /\ s[i + 1].time < s[j].time
      BY <1>2, <3>1
    <3> QED BY <1>1, <2>1, <3>1, <3>2
  <2> QED BY <2>1, <2>2
<1> QED BY <1>3, <1>4 DEF Advances

(* Nothing posted is in order, and before every time. *)
LEMMA NoPosts ==
  ASSUME NEW s, DOMAIN s = {} PROVE Chain(s) /\ \A m : Marked(s, m) /\ Behind(s, m)
BY DEF Chain, Marked, Behind

(* What lies behind or before a time lies behind every later one. *)
LEMMA LaterPosts ==
  ASSUME NEW P, Timed(P), NEW s \in Seq(P), NEW m \in Nat, NEW n \in Nat
  PROVE  /\ m <= n /\ Behind(s, m) => Behind(s, n)
         /\ m < n /\ Marked(s, m) => Before(s, n)
         /\ Before(s, m) => Marked(s, m)
<1>1. \A i \in DOMAIN s : s[i].time \in Nat /\ s[i].text \in Nat
  BY DEF Timed
<1> QED BY <1>1 DEF Behind, Marked, Before

(* One post more, whose time is after all that the others show. *)
LEMMA OnePostMore ==
  ASSUME NEW P, Timed(P), NEW s \in Seq(P), NEW m \in P, m.time <= m.text,
         Chain(s), Before(s, m.time), Behind(s, m.time)
  PROVE  /\ Chain(Append(s, m))
         /\ Marked(Append(s, m), m.time) /\ Behind(Append(s, m), m.text)
<1> DEFINE a == Append(s, m)
<1>1. /\ DOMAIN s = 1..Len(s) /\ DOMAIN a = 1..(Len(s) + 1) /\ Len(s) \in Nat
      /\ \A i \in DOMAIN s : a[i] = s[i]
      /\ a[Len(s) + 1] = m
  OBVIOUS
<1>2. \A i \in DOMAIN s : s[i].time \in Nat /\ s[i].text \in Nat
  BY DEF Timed
<1>3. m.time \in Nat /\ m.text \in Nat
  BY DEF Timed
<1> HIDE DEF a
<1>4. \A i \in DOMAIN a : \/ i \in DOMAIN s /\ a[i] = s[i]
                          \/ i = Len(s) + 1 /\ a[i] = m
  BY <1>1
<1>5. \A i \in DOMAIN s : s[i].time < m.time /\ s[i].text <= m.time /\ s[i].text <= m.text
  BY <1>2, <1>3 DEF Before, Behind
<1>6. Marked(a, m.time) /\ Behind(a, m.text)
  BY <1>2, <1>3, <1>4, <1>5 DEF Marked, Behind
<1>7. ASSUME NEW i \in DOMAIN a PROVE a[i].time <= a[i].text
  BY <1>4 DEF Chain
<1>8. ASSUME NEW i \in DOMAIN a, NEW j \in DOMAIN a, i < j
      PROVE  a[i].time < a[j].time /\ a[i].text <= a[j].time
  <2>1. i \in DOMAIN s /\ a[i] = s[i]
    BY <1>1, <1>4, <1>8
  <2>2. CASE j \in DOMAIN s /\ a[j] = s[j]
    BY <1>8, <2>1, <2>2 DEF Chain
  <2>3. CASE a[j] = m
    BY <1>5, <2>1, <2>3
  <2> QED BY <1>4, <2>2, <2>3
<1>9. Chain(a)
  BY <1>7, <1>8 DEF Chain
<1> QED BY <1>6, <1>9 DEF a

-----------------------------------------------------------------------------
(* The requests of a case are in order, the times they were marked as not    *)
(* after the one remembered, what they show not after the model there is.    *)
Requested(c) == /\ seen[c] <= model[c].mtime
                /\ Chain(asks[c]) /\ Marked(asks[c], seen[c])
                /\ Behind(asks[c], model[c].mtime)

(* What the watcher holds while it decides to ask and asks.                  *)
Asking == /\ pc[Watcher] \in {"status", "mark", "render", "ask"} =>
               stat[Watcher] <= model[Case].mtime /\ Behind(asks[Case], stat[Watcher])
          /\ pc[Watcher] \in {"status", "mark"} => seen[Case] <= stat[Watcher]
          /\ pc[Watcher] \in {"render", "ask"} =>
               seen[Case] = stat[Watcher] /\ Before(asks[Case], stat[Watcher])
          /\ pc[Watcher] = "ask" =>
               stat[Watcher] <= got[Watcher] /\ got[Watcher] <= model[Case].mtime

RequestInv == TypeInv /\ (\A c \in Cases : Requested(c)) /\ Asking

(* Times are numbers. *)
LEMMA Numbers ==
  ASSUME TypeOK
  PROVE  /\ Case \in Cases /\ stat[Watcher] \in Nat /\ got[Watcher] \in Nat
         /\ \A c \in Cases : /\ seen[c] \in Nat /\ posted[c] \in Nat
                             /\ model[c].mtime \in Nat /\ report[c].mtime \in Nat
                             /\ asks[c] \in Seq(Ask) /\ sums[c] \in Seq(Summary)
<1>1. PlacesOK /\ FilesOK /\ MemoryOK /\ HistoryOK
  BY TypeParts
<1>2. Case \in Cases /\ stat[Watcher] \in Times /\ got[Watcher] \in Times
  BY <1>1 DEF Case, PlacesOK, HistoryOK, Threads, Posters
<1>3. \A c \in Cases : /\ seen[c] \in Times /\ posted[c] \in Times
                       /\ model[c].mtime \in Times /\ report[c].mtime \in Times
                       /\ asks[c] \in Seq(Ask) /\ sums[c] \in Seq(Summary)
  BY <1>1 DEF FilesOK, MemoryOK, HistoryOK, Model, Report
<1>4. \A t \in Times : t \in Nat
  BY DEF Times
<1> QED BY <1>2, <1>3, <1>4

(* Files only become newer, and their times are numbers. *)
LEMMA FilesGrow ==
  ASSUME TypeInv, [Next]_vars
  PROVE  /\ TypeInv'
         /\ \A c \in Cases : /\ model[c].mtime <= model'[c].mtime
                             /\ report[c].mtime <= report'[c].mtime
                             /\ model'[c].mtime \in Nat /\ report'[c].mtime \in Nat
<1>1. TypeInv' /\ \A c \in Cases : /\ model[c].mtime <= model'[c].mtime
                                   /\ report[c].mtime <= report'[c].mtime
  BY NextKeepsTypes, TypeParts, WriteTimes DEF TypeInv, NotNewer
<1>2. FilesOK'
  <2>1. TypeOK'
    BY <1>1 DEF TypeInv
  <2> QED BY <2>1 DEF TypeOK, FilesOK, Model, Report
<1>3. \A t \in Times : t \in Nat
  BY DEF Times
<1> QED BY <1>1, <1>2, <1>3 DEF FilesOK, Model, Report

(* Those who are not the watcher only make models newer.                     *)
LEMMA OthersKeepRequests ==
  ASSUME RequestInv, [Next]_vars, seen' = seen, asks' = asks,
         pc'[Watcher] = pc[Watcher], cur'[Watcher] = cur[Watcher],
         stat'[Watcher] = stat[Watcher], got'[Watcher] = got[Watcher]
  PROVE  RequestInv'
<1>1. /\ TypeInv /\ TypeOK /\ TypeInv'
      /\ \A c \in Cases : model[c].mtime <= model'[c].mtime /\ model'[c].mtime \in Nat
  BY FilesGrow DEF RequestInv, TypeInv
<1>2. /\ Case \in Cases /\ stat[Watcher] \in Nat /\ got[Watcher] \in Nat
      /\ \A c \in Cases : seen[c] \in Nat /\ model[c].mtime \in Nat /\ asks[c] \in Seq(Ask)
  BY <1>1, Numbers
<1>3. \A c \in Cases : Behind(asks[c], model[c].mtime) => Behind(asks[c], model'[c].mtime)
  BY <1>1, <1>2, PostsTimed, LaterPosts
<1>4. \A c \in Cases : Requested(c)'
  <2>1. ASSUME NEW c \in Cases PROVE Requested(c)'
    <3>1. Requested(c) /\ Behind(asks[c], model'[c].mtime)
      BY <1>3 DEF RequestInv, Requested
    <3>2. seen[c] <= model'[c].mtime
      BY <1>1, <1>2, <3>1 DEF Requested
    <3> QED BY <3>1, <3>2 DEF Requested, Chain, Marked, Behind
  <2> QED BY <2>1
<1>5. Case' = Case
  BY DEF Case
<1>6. \A s \in Nat : s <= model[Case].mtime => s <= model'[Case].mtime
  BY <1>1, <1>2
<1>7. Asking'
  BY <1>2, <1>5, <1>6 DEF RequestInv, Asking, Behind, Before
<1> QED BY <1>1, <1>4, <1>7 DEF RequestInv

(* The steps that leave models, memory and requests as they are.              *)
LEMMA RequestsUnchanged ==
  ASSUME RequestInv, TypeInv', seen' = seen, asks' = asks, model' = model, Asking'
  PROVE  RequestInv'
<1>1. ASSUME NEW c \in Cases PROVE Requested(c)'
  BY DEF RequestInv, Requested, Chain, Marked, Behind
<1> QED BY <1>1 DEF RequestInv

LEMMA HoldingNothing ==
  ASSUME pc'[Watcher] \notin {"status", "mark", "render", "ask"} PROVE Asking'
BY DEF Asking

(* RequestInv is inductive. *)
LEMMA NextKeepsRequests == ASSUME RequestInv, [Next]_vars PROVE RequestInv'
<1>1. /\ PlacesOK /\ FilesOK /\ MemoryOK /\ HistoryOK /\ TypeInv /\ TypeInv' /\ TypeOK
      /\ Watcher \in Threads /\ Watcher \notin Tools \cup Pipelines /\ Watcher \in Posters
  BY TypeParts, NextKeepsTypes, ThreadsDisjoint DEF RequestInv, TypeInv, Threads, Posters
<1>2. /\ Case \in Cases /\ stat[Watcher] \in Nat /\ got[Watcher] \in Nat
      /\ \A c \in Cases : seen[c] \in Nat /\ model[c].mtime \in Nat /\ asks[c] \in Seq(Ask)
  BY <1>1, Numbers
<1>3. CASE Wakes \/ LinkThread \/ ReportStep(Watcher)
  <2>1. seen' = seen /\ asks' = asks /\ model' = model
    BY <1>3 DEF Wakes, LinkThread, ReportStep, StatReport, MarkReport, ReadReport, PostSummary,
       files, memory, slack
  <2>2. pc'[Watcher] \notin {"status", "mark", "render", "ask"}
    <3>1. CASE \E from : Finish(Watcher, from)
      BY <1>1, <3>1, FinishOK
    <3>2. CASE ~(\E from : Finish(Watcher, from))
      BY <1>1, <1>3, <3>2 DEF Wakes, LinkThread, ReportStep, StatReport, MarkReport, ReadReport,
         PostSummary, Goto, PlacesOK
    <3> QED BY <3>1, <3>2
  <2> QED BY <1>1, <2>1, <2>2, HoldingNothing, RequestsUnchanged
<1>4. CASE StatModel
  <2>1. /\ pc'[Watcher] \in {"stat", "status"}
        /\ stat'[Watcher] = model[Case].mtime /\ cur' = cur
        /\ seen' = seen /\ asks' = asks /\ model' = model
    BY <1>1, <1>4 DEF StatModel, Goto, PlacesOK, HistoryOK, files, memory, slack
  <2>2. /\ seen[Case] <= model[Case].mtime /\ model[Case].mtime <= model[Case].mtime
        /\ Behind(asks[Case], model[Case].mtime)
    BY <1>2 DEF RequestInv, Requested
  <2>3. Asking'
    BY <2>1, <2>2 DEF Asking, Case, Behind
  <2> QED BY <1>1, <2>1, <2>3, RequestsUnchanged
<1>5. CASE ReadModelStatus
  <2>1. /\ pc[Watcher] = "status" /\ pc'[Watcher] \in {"stat", "mark", "sleep"}
        /\ seen' = seen /\ asks' = asks /\ model' = model /\ stat' = stat /\ cur' = cur
    BY <1>1, <1>5 DEF ReadModelStatus, Abort, Goto, PlacesOK, files, memory, slack, locals
  <2>2. Asking'
    BY <2>1 DEF RequestInv, Asking, Case, Behind
  <2> QED BY <1>1, <2>1, <2>2, RequestsUnchanged
<1>6. CASE MarkModel
  <2>1. /\ pc[Watcher] = "mark" /\ asks' = asks /\ model' = model /\ stat' = stat /\ cur' = cur
        /\ seen[Case] <= stat[Watcher] /\ stat[Watcher] <= model[Case].mtime
        /\ Behind(asks[Case], stat[Watcher])
    BY <1>6 DEF MarkModel, Goto, files, slack, locals, RequestInv, Asking
  <2>2. CASE AlreadySeen(Case, stat[Watcher])
    <3>1. seen' = seen /\ pc'[Watcher] = "stat"
      BY <1>1, <1>6, <2>2 DEF MarkModel, Goto, PlacesOK
    <3> QED BY <1>1, <2>1, <3>1, HoldingNothing, RequestsUnchanged
  <2>3. CASE ~AlreadySeen(Case, stat[Watcher])
    <3>1. seen' = [seen EXCEPT ![Case] = stat[Watcher]] /\ pc'[Watcher] = "render"
      BY <1>1, <1>6, <2>3 DEF MarkModel, Goto, PlacesOK
    <3>2. \A c \in Cases : seen'[c] = IF c = Case THEN stat[Watcher] ELSE seen[c]
      BY <1>1, <3>1 DEF MemoryOK
    <3>3. seen[Case] < stat[Watcher] /\ Marked(asks[Case], seen[Case])
      BY <1>2, <2>1, <2>3 DEF AlreadySeen, RequestInv, Requested
    <3>4. Before(asks[Case], stat[Watcher]) /\ Marked(asks[Case], stat[Watcher])
      BY <1>2, <3>3, PostsTimed, LaterPosts
    <3>5. Asking'
      BY <1>2, <2>1, <3>1, <3>2, <3>4 DEF Asking, Case, Behind, Before
    <3>6. ASSUME NEW c \in Cases PROVE Requested(c)'
      BY <2>1, <3>2, <3>4 DEF RequestInv, Requested, Chain, Marked, Behind
    <3> QED BY <1>1, <3>5, <3>6 DEF RequestInv
  <2> QED BY <2>2, <2>3
<1>7. CASE RenderRequest
  <2>1. /\ pc[Watcher] = "render" /\ pc'[Watcher] \in {"ask", "sleep"}
        /\ seen' = seen /\ asks' = asks /\ model' = model /\ stat' = stat /\ cur' = cur
        /\ pc'[Watcher] = "ask" => got'[Watcher] = model[Case].mtime
    BY <1>1, <1>7 DEF RenderRequest, Abort, Goto, PlacesOK, HistoryOK, files, memory, slack
  <2>2. stat[Watcher] <= model[Case].mtime /\ model[Case].mtime <= model[Case].mtime
    BY <1>2, <2>1 DEF RequestInv, Asking
  <2>3. Asking'
    BY <2>1, <2>2 DEF RequestInv, Asking, Case, Behind, Before
  <2> QED BY <1>1, <2>1, <2>3, RequestsUnchanged
<1>8. CASE PostRequest
  <2> DEFINE m == [time |-> stat[Watcher], text |-> got[Watcher]]
             s == asks[Case]
  <2>1. /\ pc[Watcher] = "ask" /\ pc'[Watcher] \in {"stat", "link"}
        /\ seen' = seen /\ model' = model
        /\ asks' = asks \/ asks' = [asks EXCEPT ![Case] = Append(s, m)]
    BY <1>1, <1>8 DEF PostRequest, Asked, Goto, PlacesOK, files, memory
  <2>2. CASE asks' = asks
    BY <1>1, <2>1, <2>2, HoldingNothing, RequestsUnchanged
  <2>3. CASE asks' = [asks EXCEPT ![Case] = Append(s, m)]
    <3>1. \A c \in Cases : asks'[c] = IF c = Case THEN Append(s, m) ELSE asks[c]
      BY <1>1, <2>3 DEF HistoryOK
    <3>2. /\ m \in Ask /\ m.time = stat[Watcher] /\ m.text = got[Watcher]
          /\ s \in Seq(Ask)
      BY <1>1, <1>2 DEF Ask, HistoryOK
    <3>3. /\ seen[Case] = m.time /\ m.time <= m.text /\ m.text <= model[Case].mtime
          /\ Before(s, m.time) /\ Behind(s, m.time) /\ Chain(s)
      BY <1>2, <2>1, <3>2 DEF RequestInv, Asking, Requested
    <3> HIDE DEF m, s
    <3>4. Chain(Append(s, m)) /\ Marked(Append(s, m), m.time) /\ Behind(Append(s, m), m.text)
      BY <3>2, <3>3, PostsTimed, OnePostMore
    <3>5. Append(s, m) \in Seq(Ask)
      BY <3>2
    <3>6. Behind(Append(s, m), model[Case].mtime)
      BY <1>2, <3>2, <3>3, <3>4, <3>5, PostsTimed, LaterPosts
    <3>7. ASSUME NEW c \in Cases PROVE Requested(c)'
      <4>1. CASE c = Case
        <5>1. asks'[c] = Append(s, m) /\ seen'[c] = m.time /\ model'[c] = model[Case]
          BY <2>1, <3>1, <3>3, <4>1
        <5>2. seen'[c] <= model'[c].mtime
          BY <2>1 DEF RequestInv, Requested
        <5> QED BY <3>4, <3>6, <5>1, <5>2 DEF Requested, Chain, Marked, Behind
      <4>2. CASE c # Case
        BY <2>1, <3>1, <4>2 DEF RequestInv, Requested, Chain, Marked, Behind
      <4> QED BY <4>1, <4>2
    <3>8. Asking'
      BY <2>1, HoldingNothing
    <3> QED BY <1>1, <3>7, <3>8 DEF RequestInv
  <2> QED BY <2>1, <2>2, <2>3
<1>9. ASSUME NEW p \in Tools \cup Pipelines,
             \/ PipelineStep(p) \/ HandlerStartsTools(p) \/ ContinueEnds(p)
             \/ p \in Tools /\ ReportStep(p)
             \/ \E c \in Cases : ClickApprove(p, c) \/ StartPipeline(p, c)
      PROVE  RequestInv'
  <2>1. p # Watcher /\ (p \in Tools => p \in Posters)
    BY <1>1 DEF Posters
  <2>2. pc'[Watcher] = pc[Watcher] /\ cur'[Watcher] = cur[Watcher]
    <3>1. CASE p \in Tools /\ \E from : Finish(p, from)
      BY <1>1, <2>1, <3>1, FinishOK
    <3>2. CASE ~(p \in Tools /\ \E from : Finish(p, from))
      BY <1>1, <1>9, <2>1, <3>2 DEF PipelineStep, OpenReport, CloseReport, PipelineEnds,
         PipelineFails, HandlerStartsTools, ContinueEnds, ClickApprove, StartPipeline, ReportStep,
         StatReport, MarkReport, ReadReport, PostSummary, Goto, PlacesOK
    <3> QED BY <3>1, <3>2
  <2>3. /\ stat'[Watcher] = stat[Watcher] /\ got'[Watcher] = got[Watcher]
        /\ seen' = seen /\ asks' = asks
    BY <1>1, <1>9, <2>1 DEF PipelineStep, OpenReport, CloseReport, PipelineEnds, PipelineFails,
       HandlerStartsTools, ContinueEnds, ClickApprove, StartPipeline, ReportStep, StatReport,
       MarkReport, ReadReport, PostSummary, memory, slack, locals, HistoryOK
  <2> QED BY <2>2, <2>3, OthersKeepRequests
<1>10. CASE (\E c \in Cases : DraftModel(c)) \/ UNCHANGED vars
  BY <1>10, OthersKeepRequests DEF DraftModel, memory, slack, locals, vars
<1>11. CASE BotRestart
  <2>1. /\ \A c \in Cases : DOMAIN asks'[c] = {} /\ seen'[c] = 0
        /\ pc'[Watcher] = "sleep" /\ model' = model
    BY <1>1, <1>11 DEF BotRestart, files
  <2>2. ASSUME NEW c \in Cases PROVE Requested(c)'
    <3>1. Chain(asks'[c]) /\ Marked(asks'[c], seen'[c]) /\ Behind(asks'[c], model'[c].mtime)
      BY <2>1, NoPosts
    <3>2. seen'[c] <= model'[c].mtime
      BY <1>2, <2>1
    <3> QED BY <3>1, <3>2 DEF Requested, Chain, Marked, Behind
  <2> QED BY <1>1, <2>1, <2>2 DEF RequestInv, Asking
<1> QED BY <1>3, <1>4, <1>5, <1>6, <1>7, <1>8, <1>9, <1>10, <1>11
        DEF Next, WatcherStep, ToolsStep

(* tests/test_slack_bot.py, test_case_watcher_does_not_repost_same_mtime:    *)
(* in one life of the bot the requests of a case show ever newer models.  A   *)
(* version is shown twice only by two requests that follow each other, and   *)
(* only when it was written between the stat and the reading of the first.   *)
(* However the agent, the clicks and the failing posts fall between the      *)
(* steps of the sweep, for any number of cases and threads.                  *)
THEOREM RequestsInOrder == Spec => []RequestsAdvance
<1>1. Init => RequestInv
  <2> SUFFICES ASSUME Init PROVE RequestInv
    OBVIOUS
  <2>1. \A c \in Cases : seen[c] = 0 /\ model[c].mtime = 0 /\ DOMAIN asks[c] = {}
    BY DEF Init
  <2>2. pc[Watcher] = "sleep"
    BY DEF Init, Threads, Posters
  <2>3. ASSUME NEW c \in Cases PROVE Requested(c)
    <3>1. Chain(asks[c]) /\ Marked(asks[c], seen[c]) /\ Behind(asks[c], model[c].mtime)
      BY <2>1, NoPosts
    <3> QED BY <2>1, <3>1 DEF Requested
  <2> QED BY InitTypes, <2>2, <2>3 DEF RequestInv, Asking
<1>2. RequestInv => RequestsAdvance
  <2> SUFFICES ASSUME RequestInv, NEW c \in Cases PROVE Advances(asks[c])
    BY DEF RequestsAdvance
  <2>1. asks[c] \in Seq(Ask) /\ Chain(asks[c])
    BY Numbers DEF RequestInv, TypeInv, Requested
  <2> QED BY <2>1, PostsTimed, ChainAdvances
<1> QED BY <1>1, <1>2, NextKeepsRequests, PTL DEF Spec

-----------------------------------------------------------------------------
(* The same for the summaries, when the watcher is the only one who posts.   *)
Summed(c) == /\ posted[c] <= report[c].mtime
             /\ Chain(sums[c]) /\ Marked(sums[c], posted[c])
             /\ Behind(sums[c], report[c].mtime)

Summing == /\ pc[Watcher] \in {"rmark", "read", "post"} =>
                stat[Watcher] <= report[Case].mtime /\ Behind(sums[Case], stat[Watcher])
           /\ pc[Watcher] = "rmark" => posted[Case] <= stat[Watcher]
           /\ pc[Watcher] \in {"read", "post"} =>
                posted[Case] = stat[Watcher] /\ Before(sums[Case], stat[Watcher])
           /\ pc[Watcher] = "post" =>
                stat[Watcher] <= got[Watcher] /\ got[Watcher] <= report[Case].mtime

SummaryInv == TypeInv /\ (\A c \in Cases : Summed(c)) /\ Summing

(* Those who are not the watcher only make reports newer.                    *)
LEMMA OthersKeepSummaries ==
  ASSUME SummaryInv, [Next]_vars, posted' = posted, sums' = sums,
         pc'[Watcher] = pc[Watcher], cur'[Watcher] = cur[Watcher],
         stat'[Watcher] = stat[Watcher], got'[Watcher] = got[Watcher]
  PROVE  SummaryInv'
<1>1. /\ TypeInv /\ TypeOK /\ TypeInv'
      /\ \A c \in Cases : report[c].mtime <= report'[c].mtime /\ report'[c].mtime \in Nat
  BY FilesGrow DEF SummaryInv, TypeInv
<1>2. /\ Case \in Cases /\ stat[Watcher] \in Nat /\ got[Watcher] \in Nat
      /\ \A c \in Cases : posted[c] \in Nat /\ report[c].mtime \in Nat /\ sums[c] \in Seq(Summary)
  BY <1>1, Numbers
<1>3. \A c \in Cases : Behind(sums[c], report[c].mtime) => Behind(sums[c], report'[c].mtime)
  BY <1>1, <1>2, PostsTimed, LaterPosts
<1>4. \A c \in Cases : Summed(c)'
  <2>1. ASSUME NEW c \in Cases PROVE Summed(c)'
    <3>1. Summed(c) /\ Behind(sums[c], report'[c].mtime)
      BY <1>3 DEF SummaryInv, Summed
    <3>2. posted[c] <= report'[c].mtime
      BY <1>1, <1>2, <3>1 DEF Summed
    <3> QED BY <3>1, <3>2 DEF Summed, Chain, Marked, Behind
  <2> QED BY <2>1
<1>5. Case' = Case
  BY DEF Case
<1>6. \A s \in Nat : s <= report[Case].mtime => s <= report'[Case].mtime
  BY <1>1, <1>2
<1>7. Summing'
  BY <1>2, <1>5, <1>6 DEF SummaryInv, Summing, Behind, Before
<1> QED BY <1>1, <1>4, <1>7 DEF SummaryInv

(* The steps that leave reports, memory and summaries as they are.            *)
LEMMA SummariesUnchanged ==
  ASSUME SummaryInv, TypeInv', posted' = posted, sums' = sums, report' = report, Summing'
  PROVE  SummaryInv'
<1>1. ASSUME NEW c \in Cases PROVE Summed(c)'
  BY DEF SummaryInv, Summed, Chain, Marked, Behind
<1> QED BY <1>1 DEF SummaryInv

LEMMA NothingToPost ==
  ASSUME pc'[Watcher] \notin {"rmark", "read", "post"} PROVE Summing'
BY DEF Summing

(* SummaryInv is inductive when no tools threads post. *)
LEMMA NextKeepsSummaries == ASSUME Tools = {}, SummaryInv, [Next]_vars PROVE SummaryInv'
<1>1. /\ PlacesOK /\ FilesOK /\ MemoryOK /\ HistoryOK /\ TypeInv /\ TypeInv' /\ TypeOK
      /\ Watcher \in Threads /\ Watcher \notin Tools \cup Pipelines /\ Watcher \in Posters
  BY TypeParts, NextKeepsTypes, ThreadsDisjoint DEF SummaryInv, TypeInv, Threads, Posters
<1>2. /\ Case \in Cases /\ stat[Watcher] \in Nat /\ got[Watcher] \in Nat
      /\ \A c \in Cases : posted[c] \in Nat /\ report[c].mtime \in Nat /\ sums[c] \in Seq(Summary)
  BY <1>1, Numbers
<1>3. CASE WatcherOnly
  <2>1. posted' = posted /\ sums' = sums /\ report' = report
    BY <1>3 DEF WatcherOnly, Wakes, StatModel, ReadModelStatus, MarkModel, RenderRequest,
       PostRequest, LinkThread, files, memory, slack
  <2>2. pc'[Watcher] \notin {"rmark", "read", "post"}
    BY <1>1, <1>3 DEF WatcherOnly, Wakes, StatModel, ReadModelStatus, MarkModel, RenderRequest,
       PostRequest, LinkThread, Abort, Goto, PlacesOK
  <2> QED BY <1>1, <2>1, <2>2, NothingToPost, SummariesUnchanged
<1>4. CASE StatReport(Watcher)
  <2>1. /\ stat'[Watcher] = report[Case].mtime
        /\ posted' = posted /\ sums' = sums /\ report' = report
    BY <1>1, <1>4 DEF StatReport, Case, HistoryOK, files, memory, slack
  <2>2. CASE report[Case].mtime = 0
    <3>1. Finish(Watcher, "stat")
      BY <1>4, <2>2 DEF StatReport, Case
    <3>2. pc'[Watcher] \in {"model", "sleep"}
      BY <1>1, <3>1, FinishOK
    <3> QED BY <1>1, <2>1, <3>2, NothingToPost, SummariesUnchanged
  <2>3. CASE report[Case].mtime # 0
    <3>1. pc'[Watcher] = "rmark" /\ cur' = cur
      BY <1>1, <1>4, <2>3 DEF StatReport, Case, Goto, PlacesOK
    <3>2. /\ posted[Case] <= report[Case].mtime /\ report[Case].mtime <= report[Case].mtime
          /\ Behind(sums[Case], report[Case].mtime)
      BY <1>2 DEF SummaryInv, Summed
    <3>3. Summing'
      BY <2>1, <3>1, <3>2 DEF Summing, Case, Behind
    <3> QED BY <1>1, <2>1, <3>3, SummariesUnchanged
  <2> QED BY <2>2, <2>3
<1>5. CASE MarkReport(Watcher)
  <2>1. /\ pc[Watcher] = "rmark" /\ sums' = sums /\ report' = report /\ stat' = stat
        /\ posted[Case] <= stat[Watcher] /\ stat[Watcher] <= report[Case].mtime
        /\ Behind(sums[Case], stat[Watcher])
    <3>1. pc[Watcher] = "rmark"
      BY <1>1, <1>5, FinishOK DEF MarkReport, Goto
    <3> QED BY <1>5, <3>1 DEF MarkReport, files, slack, locals, SummaryInv, Summing
  <2>2. CASE AlreadyPosted(Watcher)
    <3>1. posted' = posted /\ Finish(Watcher, "rmark")
      BY <1>5, <2>2 DEF MarkReport
    <3>2. pc'[Watcher] \in {"model", "sleep"}
      BY <1>1, <3>1, FinishOK
    <3> QED BY <1>1, <2>1, <3>1, <3>2, NothingToPost, SummariesUnchanged
  <2>3. CASE ~AlreadyPosted(Watcher)
    <3>1. /\ posted' = [posted EXCEPT ![Case] = stat[Watcher]]
          /\ pc'[Watcher] = "read" /\ cur' = cur
      BY <1>1, <1>5, <2>3 DEF MarkReport, MarkAs, Case, Goto, PlacesOK
    <3>2. \A c \in Cases : posted'[c] = IF c = Case THEN stat[Watcher] ELSE posted[c]
      BY <1>1, <3>1 DEF MemoryOK
    <3>3. posted[Case] < stat[Watcher] /\ Marked(sums[Case], posted[Case])
      BY <1>2, <2>1, <2>3 DEF AlreadyPosted, Case, SummaryInv, Summed
    <3>4. Before(sums[Case], stat[Watcher]) /\ Marked(sums[Case], stat[Watcher])
      BY <1>2, <3>3, PostsTimed, LaterPosts
    <3>5. Summing'
      BY <1>2, <2>1, <3>1, <3>2, <3>4 DEF Summing, Case, Behind, Before
    <3>6. ASSUME NEW c \in Cases PROVE Summed(c)'
      BY <2>1, <3>2, <3>4 DEF SummaryInv, Summed, Chain, Marked, Behind
    <3> QED BY <1>1, <3>5, <3>6 DEF SummaryInv
  <2> QED BY <2>2, <2>3
<1>6. CASE ReadReport(Watcher)
  <2>1. posted' = posted /\ sums' = sums /\ report' = report /\ stat' = stat
    BY <1>6 DEF ReadReport, files, memory, slack
  <2>2. CASE report[cur[Watcher]].whole
    <3>1. /\ pc[Watcher] = "read" /\ pc'[Watcher] = "post" /\ cur' = cur
          /\ got'[Watcher] = report[Case].mtime
      BY <1>1, <1>6, <2>2 DEF ReadReport, Case, Goto, PlacesOK, HistoryOK
    <3>2. stat[Watcher] <= report[Case].mtime /\ report[Case].mtime <= report[Case].mtime
      BY <1>2, <3>1 DEF SummaryInv, Summing
    <3>3. Summing'
      BY <2>1, <3>1, <3>2 DEF SummaryInv, Summing, Case, Behind, Before
    <3> QED BY <1>1, <2>1, <3>3, SummariesUnchanged
  <2>3. CASE ~report[cur[Watcher]].whole
    <3>1. Finish(Watcher, "read")
      BY <1>6, <2>3 DEF ReadReport
    <3>2. pc'[Watcher] \in {"model", "sleep"}
      BY <1>1, <3>1, FinishOK
    <3> QED BY <1>1, <2>1, <3>2, NothingToPost, SummariesUnchanged
  <2> QED BY <2>2, <2>3
<1>7. CASE PostSummary(Watcher)
  <2> DEFINE m == [time |-> stat[Watcher], text |-> got[Watcher],
                   by |-> Watcher, thread |-> thread[Case]]
             s == sums[Case]
  <2>1. /\ posted' = posted /\ report' = report /\ Finish(Watcher, "post")
        /\ sums' = sums \/ sums' = [sums EXCEPT ![Case] = Append(s, m)]
    BY <1>7 DEF PostSummary, Case, files, memory
  <2>2. pc[Watcher] = "post" /\ pc'[Watcher] \in {"model", "sleep"}
    BY <1>1, <2>1, FinishOK
  <2>3. CASE sums' = sums
    BY <1>1, <2>1, <2>2, <2>3, NothingToPost, SummariesUnchanged
  <2>4. CASE sums' = [sums EXCEPT ![Case] = Append(s, m)]
    <3>1. \A c \in Cases : sums'[c] = IF c = Case THEN Append(s, m) ELSE sums[c]
      BY <1>1, <2>4 DEF HistoryOK
    <3>2. /\ m \in Summary /\ m.time = stat[Watcher] /\ m.text = got[Watcher]
          /\ s \in Seq(Summary)
      BY <1>1, <1>2 DEF Summary, MemoryOK, HistoryOK
    <3>3. /\ posted[Case] = m.time /\ m.time <= m.text /\ m.text <= report[Case].mtime
          /\ Before(s, m.time) /\ Behind(s, m.time) /\ Chain(s)
      BY <1>2, <2>2, <3>2 DEF SummaryInv, Summing, Summed
    <3> HIDE DEF m, s
    <3>4. Chain(Append(s, m)) /\ Marked(Append(s, m), m.time) /\ Behind(Append(s, m), m.text)
      BY <3>2, <3>3, PostsTimed, OnePostMore
    <3>5. Append(s, m) \in Seq(Summary)
      BY <3>2
    <3>6. Behind(Append(s, m), report[Case].mtime)
      BY <1>2, <3>2, <3>3, <3>4, <3>5, PostsTimed, LaterPosts
    <3>7. ASSUME NEW c \in Cases PROVE Summed(c)'
      <4>1. CASE c = Case
        <5>1. sums'[c] = Append(s, m) /\ posted'[c] = m.time /\ report'[c] = report[Case]
          BY <2>1, <3>1, <3>3, <4>1
        <5>2. posted'[c] <= report'[c].mtime
          BY <2>1 DEF SummaryInv, Summed
        <5> QED BY <3>4, <3>6, <5>1, <5>2 DEF Summed, Chain, Marked, Behind
      <4>2. CASE c # Case
        BY <2>1, <3>1, <4>2 DEF SummaryInv, Summed, Chain, Marked, Behind
      <4> QED BY <4>1, <4>2
    <3>8. Summing'
      BY <2>2, NothingToPost
    <3> QED BY <1>1, <3>7, <3>8 DEF SummaryInv
  <2> QED BY <2>1, <2>3, <2>4
<1>8. ASSUME NEW p \in Pipelines, PipelineStep(p) \/ \E c \in Cases : StartPipeline(p, c)
      PROVE  SummaryInv'
  <2>1. p # Watcher
    BY <1>1
  <2>2. pc'[Watcher] = pc[Watcher] /\ cur'[Watcher] = cur[Watcher]
    BY <1>1, <1>8, <2>1 DEF PipelineStep, OpenReport, CloseReport, PipelineEnds,
       PipelineFails, StartPipeline, Goto, PlacesOK
  <2>3. stat' = stat /\ got' = got /\ posted' = posted /\ sums' = sums
    BY <1>8 DEF PipelineStep, OpenReport, CloseReport, PipelineEnds, PipelineFails,
       StartPipeline, memory, slack, locals
  <2> QED BY <2>2, <2>3, OthersKeepSummaries
<1>9. CASE (\E c \in Cases : DraftModel(c)) \/ UNCHANGED vars
  BY <1>9, OthersKeepSummaries DEF DraftModel, memory, slack, locals, vars
<1>10. CASE BotRestart
  <2>1. /\ \A c \in Cases : DOMAIN sums'[c] = {} /\ posted'[c] = 0
        /\ pc'[Watcher] = "sleep" /\ report' = report
    BY <1>1, <1>10 DEF BotRestart, files
  <2>2. ASSUME NEW c \in Cases PROVE Summed(c)'
    <3>1. Chain(sums'[c]) /\ Marked(sums'[c], posted'[c]) /\ Behind(sums'[c], report'[c].mtime)
      BY <2>1, NoPosts
    <3>2. posted'[c] <= report'[c].mtime
      BY <1>2, <2>1
    <3> QED BY <3>1, <3>2 DEF Summed, Chain, Marked, Behind
  <2> QED BY <1>1, <2>1, <2>2 DEF SummaryInv, Summing
<1> QED BY <1>3, <1>4, <1>5, <1>6, <1>7, <1>8, <1>9, <1>10
        DEF Next, WatcherStep, WatcherOnly, ReportStep

(* In one life of the bot the summaries that the watcher alone posts show    *)
(* ever newer reports: one is shown twice only by two summaries in a row,    *)
(* when it was written, or completed, between the stat and the reading of    *)
(* the first.  With a tools thread it is not so, since each may undo the      *)
(* mark of the other.                                                        *)
THEOREM SummariesInOrder == ASSUME Tools = {} PROVE Spec => []SummariesAdvance
<1>1. Init => SummaryInv
  <2> SUFFICES ASSUME Init PROVE SummaryInv
    OBVIOUS
  <2>1. \A c \in Cases : posted[c] = 0 /\ report[c].mtime = 0 /\ DOMAIN sums[c] = {}
    BY DEF Init
  <2>2. pc[Watcher] = "sleep"
    BY DEF Init, Threads, Posters
  <2>3. ASSUME NEW c \in Cases PROVE Summed(c)
    <3>1. Chain(sums[c]) /\ Marked(sums[c], posted[c]) /\ Behind(sums[c], report[c].mtime)
      BY <2>1, NoPosts
    <3> QED BY <2>1, <3>1 DEF Summed
  <2> QED BY InitTypes, <2>2, <2>3 DEF SummaryInv, Summing
<1>2. SummaryInv => SummariesAdvance
  <2> SUFFICES ASSUME SummaryInv, NEW c \in Cases PROVE Advances(sums[c])
    BY DEF SummariesAdvance
  <2>1. sums[c] \in Seq(Summary) /\ Chain(sums[c])
    BY Numbers DEF SummaryInv, TypeInv, Summed
  <2> QED BY <2>1, PostsTimed, ChainAdvances
<1> QED BY <1>1, <1>2, NextKeepsSummaries, PTL DEF Spec
=============================================================================
