----------------------------- MODULE ApprovalFlow -----------------------------
(***************************************************************************)
(* One case, from the data model to the tools pipeline, with everything that *)
(* touches it at the same time: clicks on the Slack Approve button (each a   *)
(* handler thread of slack_app/bot.py and the threads it starts), interactive *)
(* REPLs (run_agent.py), --tools-only batches, the Cursor agent and a person  *)
(* editing data-model.md.  They share only the files of outputs/ and Cursor's *)
(* runs; there is no lock between them, so a step of this module is one       *)
(* access to a file or one call to the agent.                                 *)
(***************************************************************************)
EXTENDS DataModel, FiniteSets

CONSTANTS Clicks,       \* clicks on Approve
          Repls,        \* interactive processes
          Batches,      \* run_agent.py --tools-only
          AgentDocs,    \* the documents the agent or a person may write
          Gated,        \* seed.py, mongodb_indexes.json
          Ungated,      \* sizing_inputs.json
          CanCrash      \* may the bot or a REPL die?

ASSUME ProcsDisjoint == /\ Clicks \cap Repls = {}
                        /\ Clicks \cap Batches = {}
                        /\ Repls \cap Batches = {}
ASSUME AgentDocsAreDocs == AgentDocs \subseteq Doc
ASSUME GatedDisjoint == Gated \cap Ungated = {}

Procs == Clicks \cup Repls \cup Batches
Required == Gated \cup Ungated     \* REQUIRED_TOOLS_ARTIFACTS
Modes == {"plan", "agent"}

VARIABLES file,         \* outputs/data-model.md
          artifacts,    \* the required artifacts that exist
          session,      \* does session.json hold an agent id?
          stray,        \* modes of runs still going on at Cursor with no client
          pc,           \* where each process is
          text,         \* text a click has read and will write back
          mode,         \* the mode of a process's next or current message
          cmd,          \* the line a REPL has sent
          approvedOnce  \* history: has the file ever read "approved"?

vars == <<file, artifacts, session, stray, pc, text, mode, cmd, approvedOnce>>
fileVars == <<file, approvedOnce>>
agentVars == <<session, stray>>
local == <<text, mode, cmd>>

ClickPC == {"idle", "check", "truncate", "fill", "dispatch", "continue",
            "run", "collect", "gate", "files", "tools", "done"}
ReplPC == {"idle", "boot", "prompt", "input", "run", "status", "collect",
           "gate", "files", "tools"}
BatchPC == {"idle", "gate", "files", "tools", "done"}

TypeOK ==
  /\ file \in Doc \cup {Missing}
  /\ artifacts \subseteq Required
  /\ session \in BOOLEAN
  /\ stray \subseteq Modes
  /\ pc \in [Procs -> ClickPC \cup ReplPC]
  /\ \A c \in Clicks : pc[c] \in ClickPC
  /\ \A r \in Repls : pc[r] \in ReplPC
  /\ \A b \in Batches : pc[b] \in BatchPC
  /\ text \in [Clicks -> Doc]
  /\ mode \in [Clicks \cup Repls -> Modes]
  /\ cmd \in [Repls -> {"chat", "tools"}]
  /\ approvedOnce \in BOOLEAN

Init ==
  /\ file \in AgentDocs \cup {Missing}
  /\ artifacts = {}
  /\ session \in BOOLEAN
  /\ stray = {}
  /\ pc = [p \in Procs |-> "idle"]
  /\ text = [c \in Clicks |-> EmptyDoc]
  /\ mode = [p \in Clicks \cup Repls |-> "plan"]
  /\ cmd = [r \in Repls |-> "chat"]
  /\ approvedOnce = Approved(file)

-----------------------------------------------------------------------------
Goto(p, from, to) == pc[p] = from /\ pc' = [pc EXCEPT ![p] = to]

Replace(f) == /\ file' = f
              /\ approvedOnce' = (approvedOnce \/ Approved(f))

(* Mutant: sizing_inputs.json is not required. *)
MissingGated == Gated \ artifacts

MissingArtifacts == Required \ artifacts

(* A process that is sending a message waits for a run of its own; a run     *)
(* may also outlive its client.                                              *)
Sending(p) == pc[p] \in {"boot", "run"}
LiveModes == stray \cup {mode[p] : p \in {q \in Clicks \cup Repls : Sending(q)}}

(* Mutant: every process is over after its pipeline. *)
ExitForGood(p) == "done"

(* A REPL may be started again; a click and a batch are over.               *)
Exit(p) == IF p \in Repls THEN "idle" ELSE "done"

(* resume_agent cancels the runs it finds going on; each cancel may fail.   *)
Recover == stray' \in SUBSET stray

(* A send that failed may leave its run behind, as the docstring of          *)
(* _recover_stuck_runs says.                                                 *)
LeaveRun(p) == stray' \in {stray, stray \cup {mode[p]}}

-----------------------------------------------------------------------------
(* The Approve button: handle_approve, approve_data_model.                  *)

(* The first read.  Without a file or a status line the handler returns.    *)
ReadModel(c) ==
  /\ pc[c] = "idle"
  /\ IF file # Missing /\ HasStatusLine(file)
       THEN /\ text' = [text EXCEPT ![c] = file]
            /\ pc' = [pc EXCEPT ![c] = "check"]
       ELSE /\ pc' = [pc EXCEPT ![c] = "done"]
            /\ UNCHANGED text
  /\ UNCHANGED <<fileVars, artifacts, agentVars, mode, cmd>>

(* Mutant: the file is opened for writing before the second read. *)
CheckAfterOpen(c) ==
  /\ Goto(c, "check", IF Approved(file) THEN "dispatch" ELSE "fill")
  /\ Replace(EmptyDoc)
  /\ UNCHANGED <<artifacts, agentVars, local>>

(* The second read: an approved file is left alone.                         *)
CheckStatus(c) ==
  /\ Goto(c, "check", IF Approved(file) THEN "dispatch" ELSE "truncate")
  /\ UNCHANGED <<fileVars, artifacts, agentVars, local>>

(* write_text: open for writing empties the file ...                        *)
Truncate(c) ==
  /\ Goto(c, "truncate", "fill")
  /\ Replace(EmptyDoc)
  /\ UNCHANGED <<artifacts, agentVars, local>>

(* ... and the text made from the first read goes in.                       *)
Fill(c) ==
  /\ Goto(c, "fill", "dispatch")
  /\ Replace(Approve(text[c]))
  /\ UNCHANGED <<artifacts, agentVars, local>>

(* With every artifact there the tools start, else the agent continues.  The *)
(* status approve_data_model returns is not looked at.                       *)
Dispatch(c) ==
  /\ Goto(c, "dispatch", IF MissingArtifacts = {} THEN "gate" ELSE "continue")
  /\ UNCHANGED <<fileVars, artifacts, agentVars, local>>

(* continue_generate_after_approval: no session, a failed resume, or a send *)
(* in agent mode.                                                            *)
Continue(c) ==
  /\ IF session
       THEN /\ Recover
            /\ \/ Goto(c, "continue", "done") /\ UNCHANGED mode
               \/ /\ Goto(c, "continue", "run")
                  /\ mode' = [mode EXCEPT ![c] = "agent"]
       ELSE /\ Goto(c, "continue", "done")
            /\ UNCHANGED <<stray, mode>>
  /\ UNCHANGED <<fileVars, artifacts, session, text, cmd>>

ContinueEnds(c) ==
  /\ \/ Goto(c, "run", "collect") /\ UNCHANGED agentVars
     \/ Goto(c, "run", "done") /\ LeaveRun(c) /\ UNCHANGED session
  /\ UNCHANGED <<fileVars, artifacts, local>>

(* Mutant: the agent is asked again until the artifacts are there. *)
CollectOrRetry(c) ==
  /\ Goto(c, "collect", IF MissingArtifacts = {} THEN "gate" ELSE "continue")
  /\ UNCHANGED <<fileVars, artifacts, agentVars, local>>

(* Still missing after the run: a message in the thread, and that is all.   *)
Collect(c) ==
  /\ Goto(c, "collect", IF MissingArtifacts = {} THEN "gate" ELSE Exit(c))
  /\ UNCHANGED <<fileVars, artifacts, agentVars, local>>

-----------------------------------------------------------------------------
(* The tools pipeline, whoever runs it.  verify_tools_ready reads the status *)
(* and then looks for the artifacts; either failure raises, which ends the   *)
(* thread or the process.                                                    *)
VerifyApproved(p) ==
  /\ Goto(p, "gate", IF Approved(file) THEN "files" ELSE Exit(p))
  /\ UNCHANGED <<fileVars, artifacts, agentVars, local>>

VerifyArtifacts(p) ==
  /\ Goto(p, "files", IF MissingArtifacts = {} THEN "tools" ELSE Exit(p))
  /\ UNCHANGED <<fileVars, artifacts, agentVars, local>>

ToolsEnd(p) ==
  /\ Goto(p, "tools", Exit(p))
  /\ UNCHANGED <<fileVars, artifacts, agentVars, local>>

PipelineStep(p) == VerifyApproved(p) \/ VerifyArtifacts(p) \/ ToolsEnd(p)

StartBatch(b) ==
  /\ Goto(b, "idle", "gate")
  /\ UNCHANGED <<fileVars, artifacts, agentVars, local>>

-----------------------------------------------------------------------------
(* The interactive REPL: cmd_interactive.                                   *)

(* A saved agent, or one named with --resume, is resumed and not bootstrapped *)
(* again; a new one is saved at once and gets the bootstrap messages.  A     *)
(* start that fails changes nothing.                                         *)
Launch(r) ==
  /\ \/ /\ Goto(r, "idle", "prompt")
        /\ Recover
        /\ UNCHANGED <<session, mode>>
     \/ /\ ~session
        /\ Goto(r, "idle", "boot")
        /\ session' = TRUE
        /\ mode' = [mode EXCEPT ![r] = SendMode(file)]
        /\ UNCHANGED stray
  /\ UNCHANGED <<fileVars, artifacts, text, cmd>>

BootEnds(r) ==
  /\ \/ Goto(r, "boot", "prompt") /\ UNCHANGED stray
     \/ Goto(r, "boot", "idle") /\ LeaveRun(r)
  /\ UNCHANGED <<fileVars, artifacts, session, local>>

(* Mutant: the mode is computed once, before the loop. *)
ModeKept(r) == mode[r]

ModeForTurn(r) == SendMode(file)

(* The top of the loop: the mode is chosen before the user is asked.        *)
ChooseMode(r) ==
  /\ Goto(r, "prompt", "input")
  /\ mode' = [mode EXCEPT ![r] = ModeForTurn(r)]
  /\ UNCHANGED <<fileVars, artifacts, agentVars, text, cmd>>

(* An empty line, quit, or a message, which is sent in the mode chosen.     *)
TypeLine(r) ==
  /\ \/ Goto(r, "input", "prompt") /\ UNCHANGED cmd
     \/ Goto(r, "input", "idle") /\ UNCHANGED cmd
     \/ /\ Goto(r, "input", "run")
        /\ \E line \in {"chat", "tools"} : cmd' = [cmd EXCEPT ![r] = line]
  /\ UNCHANGED <<fileVars, artifacts, agentVars, text, mode>>

(* send_and_wait returns, or raises a CursorAgentError and the loop goes on:  *)
(* both save the session; any other exception ends the process.              *)
MessageEnds(r) ==
  /\ \/ Goto(r, "run", "status") /\ session' = TRUE /\ UNCHANGED stray
     \/ Goto(r, "run", "prompt") /\ session' = TRUE /\ LeaveRun(r)
     \/ Goto(r, "run", "idle") /\ LeaveRun(r) /\ UNCHANGED session
  /\ UNCHANGED <<fileVars, artifacts, local>>

ReadStatusAfter(r) ==
  /\ Goto(r, "status",
          IF Approved(file) /\ cmd[r] = "tools" THEN "collect" ELSE "prompt")
  /\ UNCHANGED <<fileVars, artifacts, agentVars, local>>

(* "run tools" with artifacts missing: a warning, and the prompt again.     *)
CollectForTools(r) ==
  /\ Goto(r, "collect", IF MissingArtifacts = {} THEN "gate" ELSE "prompt")
  /\ UNCHANGED <<fileVars, artifacts, agentVars, local>>

-----------------------------------------------------------------------------
(* External: a person or a run of the agent replaces the document, whatever  *)
(* the status is and was.                                                    *)
EditModel == /\ \E d \in AgentDocs : Replace(d)
             /\ UNCHANGED <<artifacts, agentVars, pc, local>>

(* External: a run writes an artifact.  Runs in plan mode do not write the   *)
(* artifacts of the Generate phase: that is what the code relies on when it  *)
(* picks the mode.                                                           *)
AgentWrites == /\ \E m \in LiveModes, a \in Required :
                    /\ a \in Gated => m = "agent"
                    /\ artifacts' = artifacts \cup {a}
               /\ UNCHANGED <<fileVars, agentVars, pc, local>>

(* The bot dies: every handler and every daemon thread dies with it, and the *)
(* file stays as it is.                                                      *)
BotCrash ==
  /\ CanCrash
  /\ pc' = [p \in Procs |-> IF p \in Clicks /\ pc[p] # "idle" THEN "done" ELSE pc[p]]
  /\ stray' \in {stray, stray \cup {mode[c] : c \in {q \in Clicks : Sending(q)}}}
  /\ UNCHANGED <<fileVars, artifacts, session, local>>

ReplCrash(r) ==
  /\ CanCrash
  /\ pc' = [pc EXCEPT ![r] = "idle"]
  /\ IF Sending(r) THEN LeaveRun(r) ELSE UNCHANGED stray
  /\ UNCHANGED <<fileVars, artifacts, session, local>>

-----------------------------------------------------------------------------
ClickStep(c) == \/ CheckStatus(c) \/ Truncate(c) \/ Fill(c) \/ Dispatch(c)
                \/ Continue(c) \/ ContinueEnds(c) \/ Collect(c)
                \/ PipelineStep(c)

(* What a REPL does without its user. *)
ReplStep(r) == \/ BootEnds(r) \/ ChooseMode(r) \/ MessageEnds(r)
               \/ ReadStatusAfter(r) \/ CollectForTools(r) \/ PipelineStep(r)

Next == \/ \E c \in Clicks : ReadModel(c) \/ ClickStep(c)
        \/ \E r \in Repls : \/ Launch(r) \/ TypeLine(r) \/ ReplStep(r)
                             \/ ReplCrash(r)
        \/ \E b \in Batches : StartBatch(b) \/ PipelineStep(b)
        \/ EditModel \/ AgentWrites \/ BotCrash

Spec == Init /\ [][Next]_vars

(* Threads and processes go on while they can; runs of the agent and the     *)
(* scripts of the pipeline end.  No fairness for clicks, typing, editing or  *)
(* crashes.                                                                  *)
Fairness == /\ \A c \in Clicks : WF_vars(ClickStep(c))
            /\ \A r \in Repls : WF_vars(ReplStep(r))
            /\ \A b \in Batches : WF_vars(PipelineStep(b))

FairSpec == Spec /\ Fairness

-----------------------------------------------------------------------------
(* README, "Workflow phases": nothing is generated and no tools run before   *)
(* the model is approved, and tools run only with all the artifacts, in      *)
(* every interleaving of clicks, REPLs, batches, edits and crashes.          *)
Gates == INSTANCE PhaseGates
           WITH running <- {p \in Procs : pc[p] = "tools"}
ImplementsGates == Gates!Spec

(* Why the gates hold: a run is in agent mode, a click is past its write and *)
(* a pipeline is past its check only if the file has read "approved" since   *)
(* the beginning, and what a click is about to write will read "approved".   *)
PastWrite == {"dispatch", "continue", "run", "collect"}

GateInv ==
  /\ Approved(file) => approvedOnce
  /\ \A c \in Clicks : pc[c] \in {"check", "truncate", "fill"} => HasStatusLine(text[c])
  /\ \A c \in Clicks : pc[c] \in PastWrite => approvedOnce
  /\ \A p \in Clicks \cup Repls : mode[p] = "agent" => approvedOnce
  /\ "agent" \in stray => approvedOnce
  /\ \A p \in Procs : pc[p] \in {"files", "tools"} => approvedOnce
  /\ \A p \in Procs : pc[p] = "tools" => Required \subseteq artifacts
  /\ artifacts \cap Gated # {} => approvedOnce

(* While the bot lives, data-model.md is empty only during a click's write:  *)
(* no overlap of clicks, edits and reads leaves an empty model behind.       *)
EmptyOnlyDuringWrite == file = EmptyDoc => \E c \in Clicks : pc[c] = "fill"

(* If the model stays approved, the REPLs end up sending only in agent mode,  *)
(* though each chooses the mode before it waits for its user.                *)
ModePickedUp ==
  <>[]Approved(file)
    => <>[](\A r \in Repls : pc[r] = "run" => mode[r] = "agent")

(* Every click is answered: it ends, whatever fails on the way.             *)
ClicksEnd == \A c \in Clicks : pc[c] # "idle" ~> pc[c] = "done"

=============================================================================
