------------------------------ MODULE AgentSession ------------------------------
(***************************************************************************)
(* The Cursor agent of one case (agent/session.py): terminals                *)
(* (run_agent.py, cmd_interactive) create it or resume it, clicks on Approve *)
(* (agent/continue_after_approval.py) resume it in threads of the bot.  They *)
(* share session.json, which is opened and then written, and the runs at     *)
(* Cursor.  Resuming cancels the runs that are going on and waits a bounded  *)
(* time for each to end.                                                     *)
(***************************************************************************)
EXTENDS Integers

CONSTANTS Terminals,    \* where cmd_interactive is started, again and again
          Clicks,       \* threads that continue after an approval
          MaxAgents,    \* bound: agents created
          MaxRuns,      \* bound: messages that reach Cursor
          MaxCrash      \* bound: processes that die

ASSUME SessionAssumption == /\ Terminals \cap Clicks = {}
                            /\ {MaxAgents, MaxRuns, MaxCrash} \subseteq Nat

Procs  == Terminals \cup Clicks
Agents == 1..MaxAgents
Missing == 0            \* no session.json
Torn == -1              \* a session.json that is opened and not written

VARIABLES file,         \* session.json: Missing, Torn or the agent it names
          created,      \* agents created so far
          sent,         \* messages that have reached Cursor
          live,         \* the agent each run going on at Cursor belongs to, or 0
          pc,           \* where each process is
          agent,        \* its agent
          boot,         \* bootstrap messages it has still to send
          then,         \* where it goes on after saving the session
          run,          \* the run it waits for
          result,       \* the status that run has ended in
          todo,         \* the runs it has still to recover
          threads,      \* the runs its abandoned wait threads wait for
          prompted,     \* history: agents whose bootstrap ran to its end
          cut,          \* history: agents whose bootstrap was cut short
          orphans,      \* history: agents lost before they were saved
          crashes

cursor  == <<created, sent, live, result>>
recover == <<todo, threads>>
history == <<prompted, cut, orphans>>
vars == <<file, cursor, pc, agent, boot, then, run, recover, history, crashes>>

Status == {"finished", "error", "cancelled"}
PC == {"idle", "create", "resume", "recover", "wait", "save", "write",
       "prompt", "send", "run", "exit", "done"}

TypeOK ==
  /\ file \in {Missing, Torn} \cup 1..created
  /\ created \in 0..MaxAgents
  /\ sent \in 0..MaxRuns
  /\ live \in [1..MaxRuns -> 0..created]
  /\ result \in [Procs -> Status \cup {"none"}]
  /\ pc \in [Procs -> PC]
  /\ agent \in [Procs -> 0..created]
  /\ boot \in [Procs -> 0..2]
  /\ then \in [Procs -> {"prompt", "send", "exit", "done"}]
  /\ run \in [Procs -> 0..sent]
  /\ \A p \in Procs : pc[p] \in {"run", "wait"} => run[p] # 0
  /\ {todo, threads} \subseteq [Procs -> SUBSET (1..sent)]
  /\ prompted \cup cut \cup orphans \subseteq 1..created
  /\ crashes \in 0..MaxCrash

Init ==
  /\ file = Missing
  /\ created = 0
  /\ sent = 0
  /\ live = [r \in 1..MaxRuns |-> 0]
  /\ result = [p \in Procs |-> "none"]
  /\ pc = [p \in Procs |-> "idle"]
  /\ agent = [p \in Procs |-> 0]
  /\ boot = [p \in Procs |-> 0]
  /\ then = [p \in Procs |-> "exit"]
  /\ run = [p \in Procs |-> 0]
  /\ todo = [p \in Procs |-> {}]
  /\ threads = [p \in Procs |-> {}]
  /\ prompted = {} /\ cut = {} /\ orphans = {}
  /\ crashes = 0

-----------------------------------------------------------------------------
Goto(p, from, to) == pc[p] = from /\ pc' = [pc EXCEPT ![p] = to]

Running(r) == live[r] # 0

EndRun(r, status) ==
  /\ Running(r)
  /\ live' = [live EXCEPT ![r] = 0]
  /\ result' = [p \in Procs |-> IF pc[p] = "run" /\ run[p] = r THEN status ELSE result[p]]

\* Mutant: a terminal that gives up is gone without joining its threads.
EndAtOnce(p) == IF p \in Clicks THEN "done" ELSE "idle"

(* Where a process ends that gives up: a terminal leaves main, a thread its  *)
(* target.                                                                   *)
End(p) == IF p \in Clicks THEN "done" ELSE "exit"

(* save_session, and what comes after it. *)
SaveThen(p, from, next) ==
  /\ Goto(p, from, "save")
  /\ then' = [then EXCEPT ![p] = next]

-----------------------------------------------------------------------------
(* load_session, or the id given with --resume.  A torn file raises, in the  *)
(* terminal and in the thread: nothing is started.                           *)

Launch(t) ==
  /\ \/ /\ Goto(t, "idle", "resume")
        /\ \E a \in 1..created : agent' = [agent EXCEPT ![t] = a]
     \/ /\ Goto(t, "idle", "resume")
        /\ file \in Agents
        /\ agent' = [agent EXCEPT ![t] = file]
     \/ /\ Goto(t, "idle", "create")
        /\ file = Missing
        /\ UNCHANGED agent
  /\ UNCHANGED <<file, cursor, boot, then, run, recover, history, crashes>>

Continue(c) ==
  /\ \/ /\ Goto(c, "idle", "resume")
        /\ file \in Agents
        /\ agent' = [agent EXCEPT ![c] = file]
     \/ /\ Goto(c, "idle", "done")
        /\ file \notin Agents
        /\ UNCHANGED agent
  /\ UNCHANGED <<file, cursor, boot, then, run, recover, history, crashes>>

\* Mutant: the new agent is not saved before its bootstrap.
CreateUnsaved(t) ==
  /\ created < MaxAgents
  /\ created' = created + 1
  /\ agent' = [agent EXCEPT ![t] = created']
  /\ boot' = [boot EXCEPT ![t] = 2]
  /\ Goto(t, "create", "send")
  /\ UNCHANGED <<file, sent, live, result, then, run, recover, history, crashes>>

(* create_agent, which is saved before it gets the bootstrap messages. *)
Create(t) ==
  /\ created < MaxAgents
  /\ created' = created + 1
  /\ agent' = [agent EXCEPT ![t] = created']
  /\ boot' = [boot EXCEPT ![t] = 2]
  /\ SaveThen(t, "create", "send")
  /\ UNCHANGED <<file, sent, live, result, run, recover, history, crashes>>

(* Agent.create and Agent.resume may raise, and so may list_runs. *)
Refused(p) ==
  /\ pc[p] \in {"create", "resume"}
  /\ pc' = [pc EXCEPT ![p] = End(p)]
  /\ UNCHANGED <<file, cursor, agent, boot, then, run, recover, history, crashes>>

OpenSession(p) ==
  /\ Goto(p, "save", "write")
  /\ file' = Torn
  /\ UNCHANGED <<cursor, agent, boot, then, run, recover, history, crashes>>

WriteSession(p) ==
  /\ Goto(p, "write", then[p])
  /\ file' = agent[p]
  /\ then' = [then EXCEPT ![p] = "exit"]
  /\ agent' = IF then[p] = "done" THEN [agent EXCEPT ![p] = 0] ELSE agent
  /\ UNCHANGED <<cursor, boot, run, recover, history, crashes>>

-----------------------------------------------------------------------------
(* resume_agent and _recover_stuck_runs *)

(* Agent.resume, then list_runs; if the latter raises, nothing is recovered. *)
Resume(p) ==
  /\ Goto(p, "resume", "recover")
  /\ \E listed \in {{}, {r \in 1..sent : live[r] = agent[p]}} :
       todo' = [todo EXCEPT ![p] = listed]
  /\ UNCHANGED <<file, cursor, agent, boot, then, run, threads, history,
                 crashes>>

(* A run that cannot be fetched or cancelled is passed over. *)
SkipRun(p, r) ==
  /\ pc[p] = "recover" /\ r \in todo[p]
  /\ todo' = [todo EXCEPT ![p] = @ \ {r}]
  /\ UNCHANGED <<file, cursor, pc, agent, boot, then, run, threads, history,
                 crashes>>

CancelRun(p, r) ==
  /\ Goto(p, "recover", "wait")
  /\ r \in todo[p]
  /\ todo' = [todo EXCEPT ![p] = @ \ {r}]
  /\ run' = [run EXCEPT ![p] = r]
  /\ EndRun(r, "cancelled") \/ UNCHANGED <<live, result>>
  /\ UNCHANGED <<file, created, sent, agent, boot, then, threads, history, crashes>>

WaitReturns(p) ==
  /\ Goto(p, "wait", "recover")
  /\ ~Running(run[p])
  /\ run' = [run EXCEPT ![p] = 0]
  /\ UNCHANGED <<file, cursor, agent, boot, then, todo, threads, history, crashes>>

(* run.wait() raises; the run is passed over. *)
WaitRaises(p) ==
  /\ Goto(p, "wait", "recover")
  /\ run' = [run EXCEPT ![p] = 0]
  /\ UNCHANGED <<file, cursor, agent, boot, then, todo, threads, history, crashes>>

\* Mutant: the wait is tried again instead of given up.
WaitAgain(p) ==
  /\ Goto(p, "wait", "wait")
  /\ threads' = [threads EXCEPT ![p] = @ \cup {run[p]}]
  /\ UNCHANGED <<file, cursor, agent, boot, then, run, todo, history, crashes>>

(* After 30 seconds.  The thread of the executor goes on waiting. *)
WaitTimesOut(p) ==
  /\ Goto(p, "wait", "recover")
  /\ threads' = [threads EXCEPT ![p] = @ \cup {run[p]}]
  /\ run' = [run EXCEPT ![p] = 0]
  /\ UNCHANGED <<file, cursor, agent, boot, then, todo, history, crashes>>

(* Neither a CursorAgentError nor a TimeoutError: it leaves resume_agent, and *)
(* the terminal or the thread ends.                                          *)
RecoverRaises(p) ==
  /\ pc[p] \in {"recover", "wait"}
  /\ pc' = [pc EXCEPT ![p] = End(p)]
  /\ todo' = [todo EXCEPT ![p] = {}]
  /\ run' = [run EXCEPT ![p] = 0]
  /\ UNCHANGED <<file, cursor, agent, boot, then, threads, history, crashes>>

Recovered(p) ==
  /\ Goto(p, "recover", IF p \in Clicks THEN "send" ELSE "prompt")
  /\ todo[p] = {}
  /\ UNCHANGED <<file, cursor, agent, boot, then, run, todo, threads, history, crashes>>

-----------------------------------------------------------------------------
(* send_and_wait and its callers *)

(* What a CursorAgentError leads to: a bootstrap that fails saves the session *)
(* and ends the terminal, a message that fails saves it and asks for the     *)
(* next, and a thread saves it in its finally clause and ends.               *)
Fail(p, from) ==
  /\ SaveThen(p, from, IF p \in Terminals /\ boot[p] = 0 THEN "prompt" ELSE End(p))
  /\ cut' = IF boot[p] > 0 THEN cut \cup {agent[p]} ELSE cut
  /\ boot' = [boot EXCEPT ![p] = 0]
  /\ run' = [run EXCEPT ![p] = 0]
  /\ result' = [result EXCEPT ![p] = "none"]
  /\ UNCHANGED <<file, created, agent, recover, prompted, orphans, crashes>>

NewRun(p) == /\ sent < MaxRuns
             /\ sent' = sent + 1
             /\ live' = [live EXCEPT ![sent + 1] = agent[p]]

Send(p) ==
  /\ Goto(p, "send", "run")
  /\ NewRun(p)
  /\ run' = [run EXCEPT ![p] = sent']
  /\ UNCHANGED <<file, created, result, agent, boot, then, recover, history, crashes>>

(* A send that fails may leave a run behind. *)
SendRaises(p) ==
  /\ Fail(p, "send")
  /\ NewRun(p) \/ UNCHANGED <<sent, live>>

\* Mutant: one bootstrap message, and the terminal is ready.
ReadyAfterFirst(p) ==
  /\ pc[p] = "run"
  /\ result[p] \in {"finished", "cancelled"}
  /\ result' = [result EXCEPT ![p] = "none"]
  /\ boot' = [boot EXCEPT ![p] = 0]
  /\ SaveThen(p, "run", IF p \in Clicks THEN "done" ELSE "prompt")
  /\ run' = [run EXCEPT ![p] = 0]
  /\ UNCHANGED <<file, created, sent, live, agent, recover, history, crashes>>

(* The run is over and its status is not "error": also a run that another    *)
(* process has cancelled returns.                                            *)
RunReturns(p) ==
  /\ pc[p] = "run"
  /\ result[p] \in {"finished", "cancelled"}
  /\ result' = [result EXCEPT ![p] = "none"]
  /\ boot' = [boot EXCEPT ![p] = IF @ = 0 THEN 0 ELSE @ - 1]
  /\ IF boot[p] = 2
       THEN Goto(p, "run", "send") /\ UNCHANGED then
       ELSE SaveThen(p, "run", IF p \in Clicks THEN "done" ELSE "prompt")
  /\ cut' = IF boot[p] > 0 /\ result[p] = "cancelled"
              THEN cut \cup {agent[p]} ELSE cut
  /\ prompted' = IF boot[p] = 1 THEN prompted \cup {agent[p]} ELSE prompted
  /\ run' = [run EXCEPT ![p] = 0]
  /\ UNCHANGED <<file, created, sent, live, agent, recover, orphans, crashes>>

(* The run ends in an error. *)
RunRaises(p) ==
  /\ result[p] = "error"
  /\ Fail(p, "run")
  /\ UNCHANGED <<sent, live>>

(* Its stream breaks off, and the run goes on. *)
RunBreaks(p) ==
  /\ result[p] = "none"
  /\ Fail(p, "run")
  /\ UNCHANGED <<sent, live>>

-----------------------------------------------------------------------------
(* The user of a terminal *)

TypeMessage(t) ==
  /\ Goto(t, "prompt", "send")
  /\ UNCHANGED <<file, cursor, agent, boot, then, run, recover, history, crashes>>

Quit(t) ==
  /\ Goto(t, "prompt", "exit")
  /\ UNCHANGED <<file, cursor, agent, boot, then, run, recover, history, crashes>>

(* The interpreter joins the threads of its executors before it exits. *)
Exit(t) ==
  /\ Goto(t, "exit", "idle")
  /\ \A r \in threads[t] : ~Running(r)
  /\ agent' = [agent EXCEPT ![t] = 0]
  /\ threads' = [threads EXCEPT ![t] = {}]
  /\ UNCHANGED <<file, cursor, boot, then, run, todo, history, crashes>>

(* A terminal or the bot with its threads dies; runs and files stay. *)
Crash(P) ==
  /\ crashes < MaxCrash
  /\ \E p \in P : pc[p] \notin {"idle", "done"}
  /\ crashes' = crashes + 1
  /\ pc' = [p \in Procs |-> IF p \notin P \/ pc[p] = "idle" THEN pc[p]
                            ELSE IF p \in Clicks THEN "done" ELSE "idle"]
  /\ cut' = cut \cup {agent[p] : p \in {q \in P : boot[q] > 0}}
  /\ orphans' = orphans \cup {agent[p] : p \in {q \in P : boot[q] = 2 /\ pc[q] = "save"}}
  /\ boot' = [p \in Procs |-> IF p \in P THEN 0 ELSE boot[p]]
  /\ todo' = [p \in Procs |-> IF p \in P THEN {} ELSE todo[p]]
  /\ threads' = [p \in Procs |-> IF p \in P THEN {} ELSE threads[p]]
  /\ run' = [p \in Procs |-> IF p \in P THEN 0 ELSE run[p]]
  /\ agent' = [p \in Procs |-> IF p \in P THEN 0 ELSE agent[p]]
  /\ then' = [p \in Procs |-> IF p \in P THEN "exit" ELSE then[p]]
  /\ result' = [p \in Procs |-> IF p \in P THEN "none" ELSE result[p]]
  /\ UNCHANGED <<file, created, sent, live, prompted>>

(* External: a run ends, or never does. *)
RunEnds(r) ==
  /\ \E status \in Status : EndRun(r, status)
  /\ UNCHANGED <<file, created, sent, pc, agent, boot, then, run, recover, history, crashes>>

-----------------------------------------------------------------------------
(* What a process does by itself, unless a wait or a stream breaks off. *)
Step(p) == \/ Create(p) \/ Refused(p) \/ OpenSession(p) \/ WriteSession(p)
           \/ Resume(p) \/ WaitReturns(p) \/ WaitTimesOut(p)
           \/ \E r \in todo[p] : SkipRun(p, r) \/ CancelRun(p, r)
           \/ Recovered(p) \/ Send(p) \/ SendRaises(p)
           \/ RunReturns(p) \/ RunRaises(p)

Next == \/ \E t \in Terminals : Launch(t) \/ TypeMessage(t) \/ Quit(t) \/ Exit(t)
        \/ \E c \in Clicks : Continue(c)
        \/ \E p \in Procs : Step(p) \/ WaitRaises(p) \/ RecoverRaises(p) \/ RunBreaks(p)
        \/ \E P \in {{t} : t \in Terminals} \cup {Clicks} : Crash(P)
        \/ \E r \in 1..sent : RunEnds(r)

Spec == Init /\ [][Next]_vars /\ \A p \in Procs : WF_vars(Step(p))

-----------------------------------------------------------------------------
(* A case has one agent, whatever fails and however often the terminal is    *)
(* started: none but an agent whose terminal died before it could save it is *)
(* ever replaced by another.                                                 *)
OneAgent == \A a, b \in (1..created) \ orphans : a = b

(* No agent gets a message of its user, or of an approval, before it has had *)
(* its whole bootstrap, unless the bootstrap is still going on in a terminal *)
(* or was cut short: by an error, a death, or a process that took its run    *)
(* for a stuck one.  Nothing tells those agents from the others afterwards.  *)
PromptedFirst ==
  \A p \in Procs :
    pc[p] = "prompt" \/ (pc[p] = "send" /\ boot[p] = 0)
      => \/ agent[p] \in prompted \cup cut
         \/ \E t \in Terminals : boot[t] > 0 /\ agent[t] = agent[p]

(* agent/session.py:60, "so resume cannot hang forever": whatever the runs   *)
(* do, resuming comes to an end.                                             *)
ResumeEnds ==
  \A p \in Procs :
    pc[p] \in {"resume", "recover", "wait"} ~> pc[p] \notin {"resume", "recover", "wait"}
================================================================================
