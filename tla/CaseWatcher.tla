------------------------------ MODULE CaseWatcher ------------------------------
(***************************************************************************)
(* CaseWatcher of slack_app/bot.py: one loop that sweeps all the cases and   *)
(* posts approval requests and sizing summaries, and the tools threads that  *)
(* post the summary of their case themselves.  What was posted is remembered *)
(* in memory, by modification time; a lock guards only that memory, not the  *)
(* files, which the agent and other pipelines write at any time.             *)
(*                                                                         *)
(* A file is its modification time (0: no file) and what of its content the  *)
(* watcher depends on.  Writes of distinct contents have distinct times,     *)
(* but for the two halves of one write when CoarseClock holds.               *)
(***************************************************************************)
EXTENDS Naturals, Sequences

CONSTANTS NumCases,     \* the cases in the order of the sweep
          Watcher,      \* the watcher's thread
          Tools,        \* Slack tools threads, each with the click it serves
          Pipelines,    \* pipelines that someone runs outside the bot
          MaxClock,     \* bound: the last modification time
          MaxDrop,      \* bound: Slack posts that fail
          MaxRestart,   \* bound: restarts of the bot
          Drafts,       \* what the agent may write: "pending", "approved", "undecodable"
          CoarseClock   \* may the two halves of a write have one time?

ASSUME CasesAssumption == NumCases \in Nat \ {0}
ASSUME BoundsAssumption == {MaxClock, MaxDrop, MaxRestart} \subseteq Nat
ASSUME ThreadsDisjoint == /\ Watcher \notin Tools \cup Pipelines
                          /\ Tools \cap Pipelines = {}

Cases == 1..NumCases
Posters == {Watcher} \cup Tools
Threads == Posters \cup Pipelines
Times == 0..MaxClock

VARIABLES model,        \* data-model.md of each case: time and status
          report,       \* sizing-report.json: time, and is it complete?
          clock,        \* the last modification time given
          seen,         \* _posted_approval_mtime, 0 when unset
          posted,       \* _posted_sizing_mtime, 0 when unset
          thread,       \* _approval_threads: the request in it, 0 when unset
          pc, cur,      \* where each thread is, and with which case
          stat,         \* the time a thread has read, to mark and to post under
          got,          \* the version of the file whose text it has read
          clicked,      \* the request a tools thread was started from
          messages,     \* requests that Slack has ever been posted for a case
          asks,         \* history: the requests of this life of the bot
          sums,         \* history: the summaries of this life
          dropped, restarts

vars == <<model, report, clock, seen, posted, thread, pc, cur, stat, got, clicked,
          messages, asks, sums, dropped, restarts>>
files == <<model, report, clock>>
memory == <<seen, posted, thread>>
locals == <<stat, got, clicked>>
slack == <<messages, asks, sums, dropped>>

ModelPC == {"model", "status", "mark", "render", "ask", "link"}
ReportPC == {"stat", "rmark", "read", "post"}
PipelinePC == {"update", "generate", "write", "fill", "tests"}

(* A post, by the time it was marked as and the version it shows.            *)
Ask == [time : Times, text : Times]
Summary == [time : Times, text : Times, by : Posters, thread : Nat]

TypeOK ==
  /\ model \in [Cases -> [mtime : Times, status : Drafts \cup {"none", "pending", "approved"}]]
  /\ report \in [Cases -> [mtime : Times, whole : BOOLEAN]]
  /\ clock \in Times
  /\ seen \in [Cases -> Times] /\ posted \in [Cases -> Times]
  /\ thread \in [Cases -> Nat] /\ messages \in [Cases -> Nat]
  /\ pc \in [Threads -> {"sleep", "idle", "done"} \cup ModelPC \cup ReportPC \cup PipelinePC]
  /\ \A p \in Tools \cup Pipelines : pc[p] \notin ModelPC \cup {"sleep"}
  /\ cur \in [Threads -> Cases]
  /\ stat \in [Posters -> Times] /\ got \in [Posters -> Times]
  /\ clicked \in [Tools -> Nat]
  /\ asks \in [Cases -> Seq(Ask)] /\ sums \in [Cases -> Seq(Summary)]
  /\ dropped \in 0..MaxDrop /\ restarts \in 0..MaxRestart

Init ==
  /\ model = [c \in Cases |-> [mtime |-> 0, status |-> "none"]]
  /\ report = [c \in Cases |-> [mtime |-> 0, whole |-> FALSE]]
  /\ clock = 0
  /\ seen = [c \in Cases |-> 0] /\ posted = [c \in Cases |-> 0]
  /\ thread = [c \in Cases |-> 0] /\ messages = [c \in Cases |-> 0]
  /\ pc = [p \in Threads |-> IF p = Watcher THEN "sleep" ELSE "idle"]
  /\ cur = [p \in Threads |-> 1]
  /\ stat = [p \in Posters |-> 0] /\ got = [p \in Posters |-> 0]
  /\ clicked = [t \in Tools |-> 0]
  /\ asks = [c \in Cases |-> <<>>] /\ sums = [c \in Cases |-> <<>>]
  /\ dropped = 0 /\ restarts = 0

-----------------------------------------------------------------------------
Goto(p, from, to) == pc[p] = from /\ pc' = [pc EXCEPT ![p] = to]

(* Mutant: a tools thread goes on as a watcher. *)
FinishAsWatcher(p, from) ==
  IF p = Watcher /\ cur[p] < NumCases
    THEN Goto(p, from, "model") /\ cur' = [cur EXCEPT ![p] = @ + 1]
    ELSE Goto(p, from, "sleep") /\ UNCHANGED cur

(* The sweep goes to the next case, or sleeps; a tools thread is over.       *)
Finish(p, from) ==
  IF p = Watcher /\ cur[p] < NumCases
    THEN Goto(p, from, "model") /\ cur' = [cur EXCEPT ![p] = @ + 1]
    ELSE Goto(p, from, IF p = Watcher THEN "sleep" ELSE "done") /\ UNCHANGED cur

(* run_loop catches whatever a poll raises: the rest of the sweep is lost.   *)
Abort(from) == Goto(Watcher, from, "sleep")

Wakes == /\ Goto(Watcher, "sleep", "model")
         /\ cur' = [cur EXCEPT ![Watcher] = 1]
         /\ UNCHANGED <<files, memory, slack, locals, restarts>>

-----------------------------------------------------------------------------
(* _maybe_post_approval_request, by the watcher's thread for case cur.       *)
Case == cur[Watcher]

StatModel ==
  /\ Goto(Watcher, "model", IF model[Case].mtime = 0 THEN "stat" ELSE "status")
  /\ stat' = [stat EXCEPT ![Watcher] = model[Case].mtime]
  /\ UNCHANGED <<files, memory, slack, cur, got, clicked, restarts>>

ReadModelStatus ==
  /\ CASE model[Case].status = "undecodable" -> Abort("status")
       [] model[Case].status = "pending"     -> Goto(Watcher, "status", "mark")
       [] OTHER                              -> Goto(Watcher, "status", "stat")
  /\ UNCHANGED <<files, memory, slack, cur, locals, restarts>>

(* Mutant: the memory is not consulted. *)
NeverSeen(c, m) == FALSE

(* Mutant: one request per case, whatever its model's time. *)
EverSeen(c, m) == seen[c] # 0

AlreadySeen(c, m) == seen[c] = m

(* Under the lock: return if the time is known, else remember it.  This is   *)
(* done before anything is posted.                                           *)
MarkModel ==
  /\ IF AlreadySeen(Case, stat[Watcher])
       THEN Goto(Watcher, "mark", "stat") /\ UNCHANGED seen
       ELSE /\ Goto(Watcher, "mark", "render")
            /\ seen' = [seen EXCEPT ![Case] = stat[Watcher]]
  /\ UNCHANGED <<files, posted, thread, slack, cur, locals, restarts>>

(* The text is read again for the message; it may be a newer one.           *)
RenderRequest ==
  /\ IF model[Case].status = "undecodable"
       THEN Abort("render") /\ UNCHANGED got
       ELSE /\ Goto(Watcher, "render", "ask")
            /\ got' = [got EXCEPT ![Watcher] = model[Case].mtime]
  /\ UNCHANGED <<files, memory, slack, cur, stat, clicked, restarts>>

(* A post that fails is logged and forgotten. *)
Drop == dropped < MaxDrop /\ dropped' = dropped + 1

Asked == /\ asks' = [asks EXCEPT ![Case] =
                       Append(@, [time |-> stat[Watcher], text |-> got[Watcher]])]
         /\ messages' = [messages EXCEPT ![Case] = @ + 1]

(* A post that raises may have arrived all the same.                         *)
PostRequest ==
  /\ \/ Goto(Watcher, "ask", "link") /\ Asked /\ UNCHANGED dropped
     \/ Goto(Watcher, "ask", "stat") /\ Drop /\ (Asked \/ UNCHANGED <<asks, messages>>)
  /\ UNCHANGED <<files, memory, sums, cur, locals, restarts>>

(* The request is the last of its case: only this thread posts them.         *)
LinkThread ==
  /\ Goto(Watcher, "link", "stat")
  /\ thread' = [thread EXCEPT ![Case] = messages[Case]]
  /\ UNCHANGED <<files, seen, posted, slack, cur, locals, restarts>>

-----------------------------------------------------------------------------
(* _maybe_post_sizing_summary, by the watcher and by the tools threads.      *)
StatReport(p) ==
  /\ stat' = [stat EXCEPT ![p] = report[cur[p]].mtime]
  /\ IF report[cur[p]].mtime = 0 THEN Finish(p, "stat")
                                 ELSE Goto(p, "stat", "rmark") /\ UNCHANGED cur
  /\ UNCHANGED <<files, memory, slack, got, clicked, restarts>>

(* Mutant: the memory is consulted and not updated. *)
MarkNothing(p) == posted

MarkAs(p) == [posted EXCEPT ![cur[p]] = stat[p]]

(* Mutant: one summary per case, whatever its report's time. *)
EverPosted(p) == posted[cur[p]] # 0

AlreadyPosted(p) == posted[cur[p]] = stat[p]

(* The time was read before the lock was taken. *)
MarkReport(p) ==
  /\ IF AlreadyPosted(p)
       THEN Finish(p, "rmark") /\ UNCHANGED posted
       ELSE /\ Goto(p, "rmark", "read")
            /\ posted' = MarkAs(p)
            /\ UNCHANGED cur
  /\ UNCHANGED <<files, seen, thread, slack, locals, restarts>>

(* A report that is being written does not parse: return.                   *)
ReadReport(p) ==
  /\ IF report[cur[p]].whole
       THEN /\ Goto(p, "read", "post") /\ UNCHANGED cur
            /\ got' = [got EXCEPT ![p] = report[cur[p]].mtime]
       ELSE Finish(p, "read") /\ UNCHANGED got
  /\ UNCHANGED <<files, memory, slack, stat, clicked, restarts>>

(* It goes to the thread that is remembered now. *)
PostSummary(p) ==
  /\ Finish(p, "post")
  /\ \/ /\ sums' = [sums EXCEPT ![cur[p]] =
                      Append(@, [time |-> stat[p], text |-> got[p],
                                 by |-> p, thread |-> thread[cur[p]]])]
        /\ UNCHANGED dropped
     \/ Drop /\ UNCHANGED sums
  /\ UNCHANGED <<files, memory, messages, asks, locals, restarts>>

ReportStep(p) == StatReport(p) \/ MarkReport(p) \/ ReadReport(p) \/ PostSummary(p)

WatcherStep == \/ Wakes \/ StatModel \/ ReadModelStatus \/ MarkModel
               \/ RenderRequest \/ PostRequest \/ LinkThread \/ ReportStep(Watcher)

-----------------------------------------------------------------------------
(* The writers.  Each write takes a new time.                               *)
Tick == clock < MaxClock /\ clock' = clock + 1

(* External: the agent writes the model of a case. *)
DraftModel(c) ==
  /\ Tick
  /\ \E s \in Drafts : model' = [model EXCEPT ![c] = [mtime |-> clock', status |-> s]]
  /\ UNCHANGED <<report, memory, slack, pc, cur, locals, restarts>>

(* A click on Approve under any request that was ever posted for the case:   *)
(* the file is approved first.  One that is approved already stays as it is  *)
(* and the click goes on; at any other the click is over.                    *)
ClickApprove(t, c) ==
  /\ Goto(t, "idle", "update")
  /\ \E n \in 1..messages[c] : clicked' = [clicked EXCEPT ![t] = n]
  /\ \/ /\ model[c].status = "pending" /\ Tick
        /\ model' = [model EXCEPT ![c] = [mtime |-> clock', status |-> "approved"]]
     \/ model[c].status = "approved" /\ UNCHANGED <<model, clock>>
  /\ cur' = [cur EXCEPT ![t] = c]
  /\ UNCHANGED <<report, memory, slack, stat, got, restarts>>

(* Mutant: the tools are started before the thread is remembered. *)
LinkLater(t) == thread

LinkFirst(t) == [thread EXCEPT ![cur[t]] = clicked[t]]

(* Then its message becomes the case's thread, and the tools start, or the   *)
(* agent when artifacts are missing.                                         *)
HandlerStartsTools(t) ==
  /\ Goto(t, "update", "write") \/ Goto(t, "update", "generate")
  /\ thread' = LinkFirst(t)
  /\ UNCHANGED <<files, seen, posted, slack, cur, locals, restarts>>

(* The agent has made them, or not. *)
ContinueEnds(t) ==
  /\ Goto(t, "generate", "write") \/ Goto(t, "generate", "done")
  /\ UNCHANGED <<files, memory, slack, cur, locals, restarts>>

(* Someone runs the pipeline of a case outside the bot. *)
StartPipeline(p, c) ==
  /\ Goto(p, "idle", "write")
  /\ cur' = [cur EXCEPT ![p] = c]
  /\ UNCHANGED <<files, memory, slack, locals, restarts>>

(* size_from_dbstats.py opens the report for writing ...                     *)
OpenReport(p) ==
  /\ Goto(p, "write", "fill")
  /\ Tick
  /\ report' = [report EXCEPT ![cur[p]] = [mtime |-> clock', whole |-> FALSE]]
  /\ UNCHANGED <<model, memory, slack, cur, locals, restarts>>

(* ... and closes it, at a new time unless the clock is too coarse.          *)
CloseReport(p) ==
  /\ Goto(p, "fill", "tests")
  /\ \/ Tick
     \/ CoarseClock /\ report[cur[p]].mtime = clock /\ UNCHANGED clock
  /\ report' = [report EXCEPT ![cur[p]] = [mtime |-> clock', whole |-> TRUE]]
  /\ UNCHANGED <<model, memory, slack, cur, locals, restarts>>

(* The repository tests and the end.  A tools thread whose pipeline raised   *)
(* says so and posts no summary.                                            *)
PipelineEnds(p) ==
  /\ \E to \in IF p \in Tools THEN {"stat", "done"} ELSE {"done"} : Goto(p, "tests", to)
  /\ UNCHANGED <<files, memory, slack, cur, locals, restarts>>

(* A failure before the report: docker, seed, indexes, sizing. *)
PipelineFails(p) ==
  /\ \E from \in {"write", "fill"} : Goto(p, from, "done")
  /\ UNCHANGED <<files, memory, slack, cur, locals, restarts>>

PipelineStep(p) == OpenReport(p) \/ CloseReport(p) \/ PipelineEnds(p) \/ PipelineFails(p)

(* The bot is started again: its threads are gone and its memory is empty.   *)
(* The history starts again too: it is that of one life of the bot.          *)
BotRestart ==
  /\ restarts < MaxRestart /\ restarts' = restarts + 1
  /\ pc' = [p \in Threads |-> IF p = Watcher THEN "sleep"
                              ELSE IF p \in Tools /\ pc[p] # "idle" THEN "done"
                              ELSE pc[p]]
  /\ seen' = [c \in Cases |-> 0] /\ posted' = [c \in Cases |-> 0]
  /\ thread' = [c \in Cases |-> 0]
  /\ asks' = [c \in Cases |-> <<>>] /\ sums' = [c \in Cases |-> <<>>]
  /\ UNCHANGED <<files, cur, locals, messages, dropped>>

ToolsStep(t) == \/ HandlerStartsTools(t) \/ ContinueEnds(t)
                \/ PipelineStep(t) \/ ReportStep(t)

Next == \/ WatcherStep
        \/ \E t \in Tools : ToolsStep(t) \/ \E c \in Cases : ClickApprove(t, c)
        \/ \E p \in Pipelines : PipelineStep(p) \/ \E c \in Cases : StartPipeline(p, c)
        \/ \E c \in Cases : DraftModel(c)
        \/ BotRestart

Spec == Init /\ [][Next]_vars

(* The loop and the threads go on.  No fairness for the agent, the people,   *)
(* the clicks and restarts.                                                  *)
Fairness == /\ WF_vars(WatcherStep)
            /\ \A t \in Tools : WF_vars(ToolsStep(t))
            /\ \A p \in Pipelines : WF_vars(PipelineStep(p))

FairSpec == Spec /\ Fairness

-----------------------------------------------------------------------------
(* What is posted anew is newer, or the same that was shown before: at most   *)
(* once more, by the next post, and only of a version that was written       *)
(* between the two readings, of the time and of the text, of the post before. *)
Advances(posts) ==
  \A i, j \in DOMAIN posts : i < j =>
    /\ posts[i].text <= posts[j].text
    /\ posts[i].text = posts[j].text => j = i + 1 /\ posts[i].time < posts[i].text

(* tests/test_slack_bot.py, test_case_watcher_does_not_repost_same_mtime, in *)
(* every interleaving with the writers: in one life of the bot a version of  *)
(* a model is not asked for again, but for one that was written while its    *)
(* first request was put together.                                           *)
RequestsAdvance == \A c \in Cases : Advances(asks[c])

(* The same for the summaries of a report. *)
SummariesAdvance == \A c \in Cases : Advances(sums[c])

(* A tools thread's summary goes to the request whose click it serves, since  *)
(* the handler remembers that before it starts the tools; or to what has     *)
(* become the case's thread meanwhile: a newer request, or one that someone  *)
(* else has clicked.  Never to the channel or to a request left behind.      *)
ToolsSummaryInThread ==
  \A c \in Cases : \A i \in DOMAIN sums[c] : sums[c][i].by \in Tools =>
    LET t == sums[c][i].by
        n == sums[c][i].thread
    IN /\ n \in 1..messages[c]
       /\ n >= clicked[t] \/ \E u \in Tools \ {t} : cur[u] = c /\ clicked[u] = n

(* README:212, README:210: a pending model that stays as it is gets its      *)
(* request, whichever case it is in and whatever the others do: in the life  *)
(* of the bot that goes on, that very version.                               *)
PendingAnnounced ==
  \A c \in Cases, m \in 1..MaxClock :
    <>[](model[c] = [mtime |-> m, status |-> "pending"])
      => <>[](\E i \in DOMAIN asks[c] : asks[c][i].text = m)

(* README:189: a report that is complete and stays as it is gets its summary, *)
(* though the watcher may meet it half-written first.                        *)
ReportSummarised ==
  \A c \in Cases, m \in 1..MaxClock :
    <>[](report[c] = [mtime |-> m, whole |-> TRUE])
      => <>[](\E i \in DOMAIN sums[c] : sums[c][i].text = m)
=============================================================================
