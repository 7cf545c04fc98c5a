------------------------------- MODULE Dashboard -------------------------------
(***************************************************************************)
(* Mission Control: a terminal streams the runs of its agent to the          *)
(* dashboard (agent/session.py), pipelines report their steps, the server    *)
(* derives the state of a case from its files, one after the other           *)
(* (dashboard/state.py), and a page merges events and answers, which arrive  *)
(* in any order (dashboard/static/app.js).  An event reaches the server at    *)
(* once, late or never, and a page that connects again is shown the whole    *)
(* buffer a second time; how the server does that is EventStream.            *)
(***************************************************************************)
EXTENDS PhaseRail, Integers, SequencesExt, FiniteSets

CONSTANTS Cases,        \* the cases
          LegacyCases,  \* those that have legacy code
          Opened,       \* the case the page is opened with
          Disks,        \* what the files of the cases may be at first
          Writable,     \* files that appear while the page is open: <<case, file>>
          Targets,      \* files that tools name
          StepReports,  \* what pipelines report: <<step, status>>
          Reading,      \* the phases in the order in which the server reads them
          MaxBuffer,    \* the maxlen of _event_buffer, 500
          MaxFetch,     \* bound: requests for the state that are under way
          MaxText,      \* bound: pieces of text of all runs
          MaxTools,     \* bound: tool calls of all runs
          MaxRuns,      \* bound: runs
          MaxSteps,     \* bound: steps reported
          MaxSwitch,    \* bound: changes of the case
          MaxWire,      \* bound: events on their way when another is posted
          MaxLost,      \* bound: events given up or not queued
          MaxSilent,    \* bound: requests for the state that are not answered
          MaxLinks      \* bound: times the page connects again

CaseFiles == Artifacts \cup {"intake.json"}
Approvals == {"missing", "pending", "approved"}
Disk == [files : SUBSET CaseFiles, approval : Approvals]

StepStatuses == {"running", "ok", "fail"}

ASSUME DashboardAssumption ==
  /\ LegacyCases \subseteq Cases /\ Opened \in Cases
  /\ Disks \subseteq [Cases -> Disk]
  /\ Writable \subseteq Cases \X CaseFiles
  /\ \A r \in StepReports : r[2] \in StepStatuses
  /\ Reading \in Seq(SUBSET PhaseSet)
  /\ \A p \in PhaseSet : \E i \in DOMAIN Reading : p \in Reading[i]
  /\ MaxBuffer \in Nat \ {0}
  /\ {MaxText, MaxTools, MaxRuns, MaxSteps, MaxSwitch, MaxFetch, MaxWire, MaxLost,
      MaxSilent, MaxLinks} \subseteq Nat

VARIABLES disk,         \* the files of each case, and the status in its model
          stream,       \* the run: whether it goes on, and text not sent yet
          printed,      \* what the terminal shows: text between tool lines
          used,         \* text, tools, runs, steps, switches and lost answers so far
          log,          \* _event_buffer: the last MaxBuffer events
          over,         \* whether events have fallen out of it
          wire,         \* events on their way from the server to the page
          late,         \* events whose POST was given up and may still arrive
          lost,         \* events given up, or not put into the page's queue
          link,         \* the page's connection: the cards there were before it, whether
                        \* it shows every event once, and how many there were before
          fetch,        \* the requests for the state
          current,      \* currentCase
          seen,         \* the last answer: status, files and phases
          overlay,      \* livePhaseOverlay
          lastTool,     \* lastToolPhase
          rail,         \* what renderPhases has drawn
          feed,         \* text cards and tool cards of the page
          open          \* assistantBodyEl: the last card is one of text and takes more

files == <<disk, fetch>>
program == <<stream, printed>>
way == <<log, over, wire, late, lost, link>>
page == <<current, seen, overlay, lastTool, rail, feed, open>>
vars == <<files, program, used, way, page>>

Text(s) == [kind |-> "text", text |-> s]
Tool == [kind |-> "tool", text |-> <<>>]
NoOverlay == [p \in PhaseSet |-> "none"]
Unseen == [approval |-> "missing", done |-> {}, known |-> FALSE]

(* How far the answers are put together that can be sent. *)
Read == Len(Reading) + 1

Event == [type : {"assistant_text"}, text : Seq(1..MaxText)]
         \cup [type : {"tool_activity"}, target : Targets]
         \cup [type : {"pipeline_step"}, step : {r[1] : r \in StepReports}, status : StepStatuses]
         \cup [type : {"run_finished"}, status : {"finished", "error"}]
         \cup [type : {"run_started", "approval_changed"}]
Card == [kind : {"text", "tool"}, text : Seq(1..MaxText)]
CaseState == [approval : Approvals, done : SUBSET PhaseSet, known : BOOLEAN]
Request == [at : 0..Read, case : Cases, answer : CaseState]

TypeOK ==
  /\ disk \in [Cases -> Disk]
  /\ stream \in [on : BOOLEAN, pending : Seq(1..MaxText)]
  /\ used \in [text : 0..MaxText, tools : Nat, runs : Nat, steps : Nat, switches : Nat,
               silent : Nat]
  /\ log \in Seq(Event) /\ wire \in Seq(Event) /\ late \in Seq(Event)
  /\ over \in BOOLEAN /\ lost \in Nat
  /\ link \in [from : Nat, clean : BOOLEAN, number : Nat]
  /\ fetch \subseteq Request /\ IsFiniteSet(fetch) /\ Cardinality(fetch) <= MaxFetch
  /\ current \in Cases
  /\ seen \in CaseState
  /\ overlay \in [PhaseSet -> {"none", "active", "fail"}]
  /\ lastTool \in PhaseSet \cup {NoPhase}
  /\ rail \in [PhaseSet -> {"pending", "active", "done", "fail"}]
  /\ printed \in Seq(Card) /\ feed \in Seq(Card)
  /\ open \in BOOLEAN /\ (open => feed # <<>> /\ Last(feed).kind = "text")

Init ==
  /\ disk \in Disks
  /\ stream = [on |-> FALSE, pending |-> <<>>]
  /\ printed = <<>>
  /\ used = [text |-> 0, tools |-> 0, runs |-> 0, steps |-> 0, switches |-> 0,
             silent |-> 0]
  /\ log = <<>> /\ wire = <<>> /\ late = <<>>
  /\ over = FALSE /\ lost = 0
  /\ link = [from |-> 0, clean |-> TRUE, number |-> 0]
  /\ fetch = {}
  /\ current = Opened
  /\ seen = Unseen
  /\ overlay = NoOverlay
  /\ lastTool = NoPhase
  /\ rail = [p \in PhaseSet |-> "pending"]
  /\ feed = <<>>
  /\ open = FALSE

-----------------------------------------------------------------------------
(* Some of the events, of which there are at most two. *)
Picked(events, some) ==
  CASE some = {} -> <<>>
    [] some = DOMAIN events -> events
    [] OTHER -> <<events[CHOOSE i \in some : TRUE]>>

(* _event_buffer.append *)
Buffer(events) ==
  LET all == log \o events
      excess == Len(all) - MaxBuffer
  IN /\ log' = IF excess > 0 THEN SubSeq(all, excess + 1, Len(all)) ELSE all
     /\ over' = (over \/ excess > 0)

(* emit_event, for one event or two that follow each other.  An event whose   *)
(* POST is given up after half a second may arrive later, or never; one that *)
(* arrives is logged, and finds the queue of the page full or not.           *)
Emit(events) ==
  \E arrived, queued, slow \in SUBSET DOMAIN events :
    /\ queued \subseteq arrived /\ slow \cap arrived = {}
    /\ Len(wire) + Cardinality(queued) <= MaxWire
    /\ Buffer(Picked(events, arrived))
    /\ wire' = wire \o Picked(events, queued)
    /\ late' = late \o Picked(events, slow)
    /\ lost' = lost + Cardinality(DOMAIN events \ queued)
    /\ lost' <= MaxLost
    /\ UNCHANGED link

(* The request of an emitter that went on long ago is served after all. *)
LateArrives(i) ==
  /\ Len(wire) < MaxWire
  /\ Buffer(<<late[i]>>)
  /\ wire' = Append(wire, late[i])
  /\ late' = RemoveAt(late, i)
  /\ UNCHANGED <<files, program, used, lost, link, page>>

(* The connection breaks and EventSource makes another: what the page has not *)
(* read is gone, and the server shows it the whole buffer, and then what came *)
(* after the page was registered, which was in the buffer already if the     *)
(* replay began later.  The page takes it all for new.                       *)
Reconnect ==
  /\ link.number < MaxLinks
  /\ \E k \in 0..Len(log) :
       /\ wire' = log \o SubSeq(log, k + 1, Len(log))
       /\ link' = [from |-> Len(feed), clean |-> ~over /\ k = Len(log), number |-> link.number + 1]
  /\ UNCHANGED <<files, program, used, log, over, late, lost, page>>

-----------------------------------------------------------------------------
(* The files: the agent, a person, a pipeline or an approval. *)

WriteFile(c, f) ==
  /\ f \notin disk[c].files
  /\ disk' = [disk EXCEPT ![c].files = @ \cup {f},
                          ![c].approval = IF f = "data-model.md" THEN "pending" ELSE @]
  /\ UNCHANGED <<program, used, way, fetch, page>>

(* handle_approve or a person; the bot says so to the dashboard. *)
ApproveModel(c) ==
  /\ disk[c].approval = "pending"
  /\ disk' = [disk EXCEPT ![c].approval = "approved"]
  /\ Emit(<<[type |-> "approval_changed"]>>) \/ UNCHANGED way
  /\ UNCHANGED <<program, used, fetch, page>>

(* _emit_pipeline_step, of a pipeline of any case. *)
ReportStep(step, status) ==
  /\ used.steps < MaxSteps
  /\ used' = [used EXCEPT !.steps = @ + 1]
  /\ Emit(<<[type |-> "pipeline_step", step |-> step, status |-> status]>>)
  /\ UNCHANGED <<files, program, page>>

-----------------------------------------------------------------------------
(* send_and_wait and stream_run_text *)

TextEvent == [type |-> "assistant_text", text |-> stream.pending]
Over == [on |-> FALSE, pending |-> <<>>]

StartRun ==
  /\ ~stream.on /\ used.runs < MaxRuns
  /\ used' = [used EXCEPT !.runs = @ + 1]
  /\ stream' = [on |-> TRUE, pending |-> <<>>]
  /\ Emit(<<[type |-> "run_started"]>>)
  /\ UNCHANGED <<files, printed, page>>

\* Mutant: text is not sent before a tool line, nor at the end.
NothingToFlush == <<>>

(* flush_assistant_text: what is pending goes out as one event. *)
Flushed == IF stream.pending = <<>> THEN <<>> ELSE <<TextEvent>>

(* Text is printed at once and kept for the dashboard. *)
TextDelta ==
  /\ stream.on /\ used.text < MaxText
  /\ used' = [used EXCEPT !.text = @ + 1]
  /\ stream' = [stream EXCEPT !.pending = Append(@, used'.text)]
  /\ printed' = IF stream.pending = <<>> THEN Append(printed, Text(<<used'.text>>))
                ELSE Append(Front(printed), Text(stream'.pending))
  /\ UNCHANGED <<files, way, page>>

ToolCall(target) ==
  /\ stream.on /\ used.tools < MaxTools
  /\ used' = [used EXCEPT !.tools = @ + 1]
  /\ stream' = [stream EXCEPT !.pending = <<>>]
  /\ printed' = Append(printed, Tool)
  /\ Emit(Flushed \o <<[type |-> "tool_activity", target |-> target]>>)
  /\ UNCHANGED <<files, page>>

(* The messages end; the run is over, and run_finished tells its status,     *)
(* unless waiting for it raises.                                             *)
StreamEnds ==
  /\ stream.on
  /\ stream' = Over
  /\ \/ Emit(Flushed)
     \/ \E status \in {"finished", "error"} :
          Emit(Flushed \o <<[type |-> "run_finished", status |-> status]>>)
  /\ UNCHANGED <<files, printed, used, page>>

(* The messages break off: what was pending has been printed and is not sent, *)
(* and nothing tells that the run is over.                                    *)
StreamRaises ==
  /\ stream.on
  /\ stream' = Over
  /\ printed' = IF stream.pending = <<>> THEN printed ELSE Front(printed)
  /\ UNCHANGED <<files, used, way, page>>

-----------------------------------------------------------------------------
(* /api/state: build_case_state.  Files may change between two of its steps. *)

\* Mutant: asks for the case that the page was opened with.
FirstCase == Opened

Asked == current

(* fetchState, as far as the answer; nothing when MaxFetch are under way. *)
Ask(c) ==
  /\ Cardinality(fetch) < MaxFetch
  /\ fetch' = fetch \cup {[at |-> 0, case |-> c, answer |-> Unseen]}
AskAgain == Ask(Asked) \/ UNCHANGED fetch

Poll == Ask(Asked) /\ UNCHANGED <<disk, program, used, way, page>>

(* The approval is read first, and again for the phases; one request at a    *)
(* time.                                                                     *)
ReadNext(r) ==
  /\ r.at < Read
  /\ \A q \in fetch \ {r} : q.at \in {0, Read}
  /\ LET d == disk[r.case]
         answer == IF r.at = 0
                     THEN [approval |-> d.approval, done |-> {}, known |-> TRUE]
                     ELSE [r.answer EXCEPT !.done = @ \cup {p \in Reading[r.at] :
                            PhaseDone(p, d.files, d.approval, r.case \in LegacyCases)}]
     IN fetch' = (fetch \ {r}) \cup {[r EXCEPT !.at = @ + 1, !.answer = answer]}
  /\ UNCHANGED <<disk, program, used, way, page>>

(* The server does not answer, or with an error: the page ignores it. *)
NoAnswer(r) ==
  /\ used.silent < MaxSilent
  /\ used' = [used EXCEPT !.silent = @ + 1]
  /\ fetch' = fetch \ {r}
  /\ UNCHANGED <<disk, program, way, page>>

-----------------------------------------------------------------------------
(* The page *)

ActiveSeen == IF seen.known THEN ActivePhase(seen.done) ELSE NoPhase

(* renderPhases(mergePhases(..)).  An overlay that is cleared stays drawn    *)
(* until the next answer or mark.                                            *)
Draw(answer, marks) ==
  rail' = MergePhases(IF answer.known THEN PhaseStatus(answer.done)
                                      ELSE [p \in PhaseSet |-> "pending"],
                      IF answer.known THEN ActivePhase(answer.done) ELSE NoPhase,
                      marks)

\* Mutant: an answer leaves the overlays as they are.
OverlayKept == overlay

(* clearLivePhaseOverlay, before a state is rendered. *)
OverlayAfterAnswer == NoOverlay

(* The answers to two requests may arrive in either order. *)
Answer(r) ==
  /\ r.at = Read
  /\ seen' = r.answer
  /\ overlay' = OverlayAfterAnswer
  /\ Draw(r.answer, overlay')
  /\ lastTool' = NoPhase
  /\ fetch' = fetch \ {r}
  /\ UNCHANGED <<disk, program, used, way, current, feed, open>>

(* setLivePhase: only the phase that is active on the disk may be so here. *)
WithLive(phase, status) ==
  IF phase = NoPhase \/ (status = "active" /\ phase # ActiveSeen)
    THEN overlay ELSE [overlay EXCEPT ![phase] = status]

(* Text is added to the card that is open, or opens one. *)
TextCard(text) ==
  IF open THEN Append(Front(feed), Text(Last(feed).text \o text))
          ELSE Append(feed, Text(text))

ReceiveText(e) ==
  /\ feed' = TextCard(e.text)
  /\ open' = TRUE
  /\ UNCHANGED <<fetch, overlay, lastTool, rail>>

ReceiveTool(e) ==
  LET phase == PhaseFromTarget(e.target, ActiveSeen)
  IN /\ overlay' = WithLive(phase, "active")
     /\ Draw(seen, overlay')
     /\ lastTool' = IF phase = NoPhase THEN lastTool ELSE phase
     /\ feed' = Append(feed, Tool)
     /\ open' = FALSE
     /\ UNCHANGED fetch

ReceiveStep(e) ==
  LET phase == StepPhase(e.step)
  IN /\ overlay' = CASE e.status = "running" -> WithLive(phase, "active")
                     [] e.status = "fail" -> WithLive(phase, "fail")
                     [] OTHER -> overlay
     /\ Draw(seen, overlay')
     /\ lastTool' = IF phase = NoPhase THEN lastTool ELSE phase
     /\ open' = FALSE
     /\ UNCHANGED <<fetch, feed>>

ReceiveFinished(e) ==
  /\ IF e.status = "error" /\ lastTool # NoPhase
       THEN /\ overlay' = WithLive(lastTool, "fail")
            /\ Draw(seen, overlay')
            /\ UNCHANGED lastTool
       ELSE overlay' = NoOverlay /\ lastTool' = NoPhase /\ UNCHANGED rail
  /\ open' = FALSE
  /\ AskAgain
  /\ UNCHANGED feed

(* A card.  approval_changed asks for the state, too, and stands for          *)
(* session_started and pipeline_finished, which do the same.                 *)
ReceiveOther(e) ==
  /\ open' = FALSE
  /\ IF e.type = "approval_changed" THEN AskAgain ELSE UNCHANGED fetch
  /\ UNCHANGED <<overlay, lastTool, rail, feed>>

Receive ==
  /\ wire # <<>>
  /\ wire' = Tail(wire)
  /\ LET e == Head(wire)
     IN CASE e.type = "assistant_text" -> ReceiveText(e)
          [] e.type = "tool_activity" -> ReceiveTool(e)
          [] e.type = "pipeline_step" -> ReceiveStep(e)
          [] e.type = "run_finished" -> ReceiveFinished(e)
          [] OTHER -> ReceiveOther(e)
  /\ UNCHANGED <<disk, program, used, log, over, late, lost, link, current, seen>>

(* setCase.  The state of the former case stays until an answer comes. *)
SetCase(c) ==
  /\ used.switches < MaxSwitch
  /\ used' = [used EXCEPT !.switches = @ + 1]
  /\ current' = c
  /\ overlay' = NoOverlay
  /\ lastTool' = NoPhase
  /\ Ask(c) \/ UNCHANGED fetch
  /\ UNCHANGED <<disk, program, way, seen, rail, feed, open>>

-----------------------------------------------------------------------------
Serve == \E r \in fetch : ReadNext(r)
Deliver == \E r \in fetch : Answer(r)

Next == \/ \E c \in Cases : ApproveModel(c) \/ SetCase(c)
        \/ \E w \in Writable : WriteFile(w[1], w[2])
        \/ \E r \in StepReports : ReportStep(r[1], r[2])
        \/ StartRun \/ TextDelta \/ StreamEnds \/ StreamRaises
        \/ \E t \in Targets : ToolCall(t)
        \/ Reconnect \/ \E i \in DOMAIN late : LateArrives(i)
        \/ Poll \/ Receive
        \/ Serve \/ Deliver \/ \E r \in fetch : NoAnswer(r)

Spec == /\ Init /\ [][Next]_vars
        /\ WF_vars(Poll) /\ WF_vars(Receive) /\ WF_vars(Serve) /\ WF_vars(Deliver)

-----------------------------------------------------------------------------
(* Whatever events say and in whatever order answers arrive, a phase that    *)
(* the rail calls active is the first one not done in the last answer: the   *)
(* overlays of live events never outlive the state they were made for.       *)
ActiveIsNext == \A p \in PhaseSet : rail[p] = "active" => p = ActiveSeen

(* What the page shows since it last connected. *)
Shown == SubSeq(feed, link.from + 1, Len(feed))

(* From each connection on the feed repeats the terminal, from its first      *)
(* line: text between two tool lines is one card, whole and in its place,    *)
(* also when other programs post in between and when a replay meets a card   *)
(* that is still open, and nothing is missing once all has arrived.  Only    *)
(* text whose stream breaks off is not in it, unless an event was given up   *)
(* (it may come late, among others) or the replay began after others were    *)
(* posted (those come twice).                                                *)
FeedFaithful ==
  lost = 0 /\ link.clean =>
    /\ IsPrefix(Shown, printed)
    /\ ~stream.on /\ wire = <<>> => Shown = printed

(* When files, events and the case come to rest, the page comes to show what *)
(* is on the disk of its case, and goes on doing so: late answers, those for *)
(* another case, answers put together while files changed and marks of       *)
(* failed steps, events that come late or once more all pass.                *)
RailSettles ==
  <>[]( /\ seen.approval = disk[current].approval
        /\ rail = PhaseStatus({p \in PhaseSet :
             PhaseDone(p, disk[current].files, disk[current].approval,
                       current \in LegacyCases)}) )
================================================================================
