-------------------------- MODULE ApprovalFlowProofs --------------------------
(***************************************************************************)
(* The gates of the workflow hold for any number of clicks, REPLs and        *)
(* batches, any documents and any crashes.                                   *)
(***************************************************************************)
EXTENDS ApprovalFlow, TLAPS

-----------------------------------------------------------------------------
(* What approve_data_model does to any document, however many status lines it *)
(* has.                                                                      *)

(* Flipping the first line keeps a sequence of status lines one.             *)
LEMMA FlipFirstType ==
  ASSUME NEW s \in Seq(LineStatus)
  PROVE  /\ FlipFirst(s) \in Seq(LineStatus)
         /\ s # <<>> => FlipFirst(s) # <<>> /\ FlipFirst(s)[1] = "approved"
         /\ s = <<>> => FlipFirst(s) = <<>>
BY DEF FlipFirst, LineStatus

(* The new text is a document.                                              *)
LEMMA ApproveType ==
  ASSUME NEW d \in Doc
  PROVE  Approve(d) \in Doc
<1>1. FlipFirst(d.header) \in Seq(LineStatus) /\ FlipFirst(d.footer) \in Seq(LineStatus)
  BY FlipFirstType DEF Doc
<1>2. Append(FlipFirst(d.footer), "approved") \in Seq(LineStatus)
  BY <1>1 DEF LineStatus
<1>3. NewAudit(d) \in Nat
  BY DEF NewAudit, Doc
<1> QED BY <1>1, <1>2, <1>3 DEF Approve, Doc

(* approve_data_model works: a document with a status line of any kind reads *)
(* "approved" after the update.                                              *)
LEMMA ApproveApproves ==
  ASSUME NEW d \in Doc, HasStatusLine(d)
  PROVE  Approved(Approve(d))
<1> DEFINE a == Approve(d)
<1>1. a \in Doc /\ a # Missing
  BY ApproveType, MissingIsNoDoc
<1>2. CASE d.header # <<>>
  <2>1. a.header # <<>> /\ a.header[1] = "approved"
    BY <1>2, FlipFirstType DEF Approve, Doc
  <2> QED BY <1>1, <2>1 DEF Approved, ReadStatus
<1>3. CASE d.header = <<>>
  <2>1. a.header = <<>>
    BY <1>3, FlipFirstType DEF Approve, Doc
  <2>2. d.footer # <<>> /\ d.footer \in Seq(LineStatus)
    BY <1>3 DEF HasStatusLine, Doc
  <2>3. a.footer # <<>> /\ a.footer[1] = "approved"
    <3>1. /\ FlipFirst(d.footer) \in Seq(LineStatus)
          /\ FlipFirst(d.footer) # <<>>
          /\ FlipFirst(d.footer)[1] = "approved"
      BY <2>2, FlipFirstType
    <3>2. a.footer \in {FlipFirst(d.footer), Append(FlipFirst(d.footer), "approved")}
      BY DEF Approve
    <3> QED BY <3>1, <3>2 DEF LineStatus
  <2> QED BY <1>1, <2>1, <2>3 DEF Approved, ReadStatus
<1> QED BY <1>2, <1>3

(* The text of a truncated file is a document that reads "unknown".         *)
LEMMA EmptyDocType == EmptyDoc \in Doc /\ ~HasStatusLine(EmptyDoc) /\ ~Approved(EmptyDoc)
<1>1. EmptyDoc \in Doc
  BY DEF EmptyDoc, Doc
<1>2. EmptyDoc # Missing
  BY <1>1, MissingIsNoDoc
<1> QED BY <1>1, <1>2 DEF EmptyDoc, HasStatusLine, Approved, ReadStatus

-----------------------------------------------------------------------------
IInv == TypeOK /\ GateInv

(* The initial states satisfy the invariant. *)
LEMMA InitIInv == Init => IInv
<1> SUFFICES ASSUME Init PROVE IInv
  OBVIOUS
<1>1. TypeOK
  <2>1. \A p \in Procs : pc[p] = "idle"
    BY DEF Init
  <2>2. pc \in [Procs -> ClickPC \cup ReplPC]
    BY DEF Init, ClickPC
  <2>3. text \in [Clicks -> Doc]
    BY EmptyDocType DEF Init
  <2> QED BY <2>1, <2>2, <2>3, AgentDocsAreDocs
     DEF Init, TypeOK, Procs, ClickPC, ReplPC, BatchPC, Modes, Approved
<1>2. GateInv
  BY DEF Init, GateInv, PastWrite, Procs
<1> QED BY <1>1, <1>2 DEF IInv

(* A step of process p from one place to another, whatever it does to the    *)
(* session, the stray runs and the modes, keeps the invariant if the place   *)
(* it goes to is one whose condition holds.                                  *)
LEMMA GotoKeepsIInv ==
  ASSUME IInv, NEW p \in Procs, NEW from, NEW to, Goto(p, from, to),
         p \in Clicks => to \in ClickPC,
         p \in Repls => to \in ReplPC,
         p \in Batches => to \in BatchPC,
         UNCHANGED <<fileVars, artifacts, text, cmd>>,
         session' \in BOOLEAN, stray' \subseteq Modes,
         mode' \in [Clicks \cup Repls -> Modes],
         "agent" \in stray' => approvedOnce,
         \A q \in Clicks \cup Repls : mode'[q] = "agent" => approvedOnce,
         p \in Clicks /\ to \in {"check", "truncate", "fill"} => HasStatusLine(text[p]),
         p \in Clicks /\ to \in PastWrite => approvedOnce,
         to \in {"files", "tools"} => approvedOnce,
         to = "tools" => Required \subseteq artifacts
  PROVE  IInv'
<1>1. to \in ClickPC \cup ReplPC
  BY DEF Procs, BatchPC, ClickPC
<1>2. /\ pc' \in [Procs -> ClickPC \cup ReplPC]
      /\ pc'[p] = to
      /\ \A q \in Procs \ {p} : pc'[q] = pc[q]
  BY <1>1 DEF Goto, IInv, TypeOK
<1>3. TypeOK'
  BY <1>2 DEF IInv, TypeOK, fileVars, Procs
<1>4. GateInv'
  <2>1. \A c \in Clicks : pc'[c] \in {"check", "truncate", "fill"} => HasStatusLine(text[c])
    BY <1>2 DEF IInv, GateInv, Procs
  <2>2. \A c \in Clicks : pc'[c] \in PastWrite => approvedOnce
    BY <1>2 DEF IInv, GateInv, Procs
  <2>3. \A q \in Procs : /\ pc'[q] \in {"files", "tools"} => approvedOnce
                         /\ pc'[q] = "tools" => Required \subseteq artifacts
    BY <1>2 DEF IInv, GateInv
  <2> QED BY <2>1, <2>2, <2>3 DEF IInv, GateInv, fileVars, PastWrite
<1> QED BY <1>3, <1>4 DEF IInv

(* The same for the steps that leave all but the program counter alone.      *)
LEMMA PlainGotoKeepsIInv ==
  ASSUME IInv, NEW p \in Procs, NEW from, NEW to, Goto(p, from, to),
         p \in Clicks => to \in ClickPC,
         p \in Repls => to \in ReplPC,
         p \in Batches => to \in BatchPC,
         UNCHANGED <<fileVars, artifacts, agentVars, local>>,
         p \in Clicks /\ to \in {"check", "truncate", "fill"} => HasStatusLine(text[p]),
         p \in Clicks /\ to \in PastWrite => approvedOnce,
         to \in {"files", "tools"} => approvedOnce,
         to = "tools" => Required \subseteq artifacts
  PROVE  IInv'
<1>1. /\ UNCHANGED <<fileVars, artifacts, text, cmd>>
      /\ session' \in BOOLEAN /\ stray' \subseteq Modes
      /\ mode' \in [Clicks \cup Repls -> Modes]
      /\ "agent" \in stray' => approvedOnce
      /\ \A q \in Clicks \cup Repls : mode'[q] = "agent" => approvedOnce
  BY DEF IInv, TypeOK, GateInv, agentVars, local
<1> QED BY <1>1, GotoKeepsIInv

(* A change of the file alone keeps the invariant: the history follows it.   *)
LEMMA ReplaceKeepsIInv ==
  ASSUME IInv, NEW f \in Doc \cup {Missing}, Replace(f),
         UNCHANGED <<artifacts, agentVars, pc, local>>
  PROVE  IInv'
<1>1. TypeOK'
  BY DEF Replace, IInv, TypeOK, agentVars, local, Approved
<1>2. approvedOnce => approvedOnce'
  BY DEF Replace
<1>3. GateInv'
  BY <1>2 DEF Replace, IInv, GateInv, agentVars, local, PastWrite
<1> QED BY <1>1, <1>3 DEF IInv

-----------------------------------------------------------------------------
(* The steps of a click, up to the dispatch.                                 *)

(* What the first read returns has a status line. *)
LEMMA ReadModelStep == ASSUME IInv, NEW c \in Clicks, ReadModel(c) PROVE IInv'
<1>1. CASE file # Missing /\ HasStatusLine(file)
  <2>1. file \in Doc
    BY <1>1 DEF IInv, TypeOK
  <2>2. /\ pc' = [pc EXCEPT ![c] = "check"]
        /\ text' = [text EXCEPT ![c] = file]
        /\ UNCHANGED <<fileVars, artifacts, agentVars, mode, cmd>>
    BY <1>1 DEF ReadModel
  <2>3. TypeOK'
    BY <2>1, <2>2, ProcsDisjoint
       DEF IInv, TypeOK, fileVars, agentVars, Procs, ClickPC
  <2>4. GateInv'
    <3>1. \A d \in Clicks : pc'[d] \in {"check", "truncate", "fill"} => HasStatusLine(text'[d])
      BY <1>1, <2>2 DEF IInv, GateInv, TypeOK, Procs
    <3>2. \A q \in Procs : q # c => pc'[q] = pc[q]
      BY <2>2 DEF IInv, TypeOK
    <3>3. pc'[c] = "check"
      BY <2>2 DEF IInv, TypeOK, Procs
    <3> QED BY <2>2, <3>1, <3>2, <3>3
         DEF IInv, GateInv, PastWrite, fileVars, agentVars, Procs
  <2> QED BY <2>3, <2>4 DEF IInv
<1>2. CASE ~(file # Missing /\ HasStatusLine(file))
  <2>1. Goto(c, "idle", "done") /\ UNCHANGED <<fileVars, artifacts, agentVars, local>>
    BY <1>2 DEF ReadModel, Goto, local
  <2> QED BY <2>1, PlainGotoKeepsIInv, ProcsDisjoint DEF Procs, ClickPC, PastWrite
<1> QED BY <1>1, <1>2

(* A click that finds the file approved is past its write without writing. *)
LEMMA CheckStatusStep == ASSUME IInv, NEW c \in Clicks, CheckStatus(c) PROVE IInv'
<1> DEFINE to == IF Approved(file) THEN "dispatch" ELSE "truncate"
<1>1. /\ Goto(c, "check", to)
      /\ UNCHANGED <<fileVars, artifacts, agentVars, local>>
  BY DEF CheckStatus
<1>2. HasStatusLine(text[c])
  BY <1>1 DEF Goto, IInv, GateInv
<1>3. to \in PastWrite => approvedOnce
  BY DEF IInv, GateInv, PastWrite
<1>4. to \in {"dispatch", "truncate"}
  OBVIOUS
<1> HIDE DEF to
<1> QED BY <1>1, <1>2, <1>3, <1>4, PlainGotoKeepsIInv, ProcsDisjoint DEF Procs, ClickPC

(* Emptying the file keeps the text that is about to be written.  *)
LEMMA TruncateStep == ASSUME IInv, NEW c \in Clicks, Truncate(c) PROVE IInv'
<1>1. /\ pc[c] = "truncate" /\ pc' = [pc EXCEPT ![c] = "fill"]
      /\ file' = EmptyDoc /\ approvedOnce' = approvedOnce
      /\ UNCHANGED <<artifacts, agentVars, local>>
  BY EmptyDocType DEF Truncate, Goto, Replace, IInv, TypeOK
<1>2. TypeOK'
  BY <1>1, EmptyDocType, ProcsDisjoint
     DEF IInv, TypeOK, agentVars, local, Procs, ClickPC
<1>3. \A q \in Procs : pc'[q] = IF q = c THEN "fill" ELSE pc[q]
  BY <1>1 DEF IInv, TypeOK
<1>4. GateInv'
  BY <1>1, <1>3, EmptyDocType DEF IInv, GateInv, PastWrite, agentVars, local, Procs
<1> QED BY <1>2, <1>4 DEF IInv

(* The text that is written reads "approved": ApproveApproves.  *)
LEMMA FillStep == ASSUME IInv, NEW c \in Clicks, Fill(c) PROVE IInv'
<1>1. text[c] \in Doc /\ HasStatusLine(text[c])
  BY DEF Fill, Goto, IInv, TypeOK, GateInv
<1>2. Approve(text[c]) \in Doc /\ Approved(Approve(text[c]))
  BY <1>1, ApproveType, ApproveApproves
<1>3. /\ pc[c] = "fill" /\ pc' = [pc EXCEPT ![c] = "dispatch"]
      /\ file' = Approve(text[c]) /\ approvedOnce' = TRUE
      /\ UNCHANGED <<artifacts, agentVars, local>>
  BY <1>2 DEF Fill, Goto, Replace, IInv, TypeOK
<1>4. TypeOK'
  BY <1>2, <1>3, ProcsDisjoint DEF IInv, TypeOK, agentVars, local, Procs, ClickPC
<1>5. \A q \in Procs : pc'[q] = IF q = c THEN "dispatch" ELSE pc[q]
  BY <1>3 DEF IInv, TypeOK
<1>6. GateInv'
  BY <1>3, <1>5 DEF IInv, GateInv, PastWrite, agentVars, local, Procs
<1> QED BY <1>4, <1>6 DEF IInv

-----------------------------------------------------------------------------
(* From the dispatch on, a click is past its write.                          *)

(* To the pipeline or to the agent: both need the approval, which is there.  *)
LEMMA DispatchStep == ASSUME IInv, NEW c \in Clicks, Dispatch(c) PROVE IInv'
<1>1. PICK to \in {"gate", "continue"} : Goto(c, "dispatch", to)
  BY DEF Dispatch
<1>2. approvedOnce
  BY <1>1 DEF Goto, IInv, GateInv, PastWrite
<1> QED BY <1>1, <1>2, PlainGotoKeepsIInv, ProcsDisjoint DEF Dispatch, Procs, ClickPC

(* The continuation sends in agent mode without reading the status again.    *)
LEMMA ContinueStep == ASSUME IInv, NEW c \in Clicks, Continue(c) PROVE IInv'
<1>1. PICK to \in {"run", "done"} : Goto(c, "continue", to)
  BY DEF Continue
<1>2. approvedOnce
  BY <1>1 DEF Goto, IInv, GateInv, PastWrite
<1>3. stray' \subseteq stray
  BY DEF Continue, Recover
<1>4. mode' \in [Clicks \cup Repls -> Modes]
  BY DEF Continue, IInv, TypeOK, Modes
<1>5. session' \in BOOLEAN /\ stray' \subseteq Modes
      /\ UNCHANGED <<fileVars, artifacts, text, cmd>>
  BY <1>3 DEF Continue, IInv, TypeOK
<1> QED BY <1>1, <1>2, <1>3, <1>4, <1>5, GotoKeepsIInv, ProcsDisjoint
     DEF Procs, ClickPC

(* Runs that outlive their client were started in the mode of that client.   *)
LEMMA LeaveRunType ==
  ASSUME IInv, NEW p \in Clicks \cup Repls,
         stray' = stray \/ LeaveRun(p)
  PROVE  stray' \subseteq Modes /\ ("agent" \in stray' => approvedOnce)
BY DEF LeaveRun, IInv, TypeOK, GateInv

(* The end of the continuation, with or without an error. *)
LEMMA ContinueEndsStep == ASSUME IInv, NEW c \in Clicks, ContinueEnds(c) PROVE IInv'
<1>1. PICK to \in {"collect", "done"} : Goto(c, "run", to)
  BY DEF ContinueEnds
<1>2. approvedOnce
  BY <1>1 DEF Goto, IInv, GateInv, PastWrite
<1>3. stray' \subseteq Modes /\ ("agent" \in stray' => approvedOnce)
  BY LeaveRunType DEF ContinueEnds, agentVars
<1>4. /\ session' \in BOOLEAN
      /\ mode' \in [Clicks \cup Repls -> Modes]
      /\ \A q \in Clicks \cup Repls : mode'[q] = "agent" => approvedOnce
      /\ UNCHANGED <<fileVars, artifacts, text, cmd>>
  BY DEF ContinueEnds, agentVars, local, IInv, TypeOK, GateInv
<1> QED BY <1>1, <1>2, <1>3, <1>4, GotoKeepsIInv, ProcsDisjoint DEF Procs, ClickPC

(* After the run: the pipeline, or the end. *)
LEMMA CollectStep == ASSUME IInv, NEW c \in Clicks, Collect(c) PROVE IInv'
<1>1. PICK to \in {"gate", "done"} : Goto(c, "collect", to)
  BY ProcsDisjoint DEF Collect, Exit
<1> QED BY <1>1, PlainGotoKeepsIInv, ProcsDisjoint DEF Collect, Procs, ClickPC, PastWrite

(* The end of a process is a place of its own. *)
LEMMA ExitType ==
  ASSUME NEW p \in Procs
  PROVE  /\ p \in Clicks => Exit(p) \in ClickPC
         /\ p \in Repls => Exit(p) \in ReplPC
         /\ p \in Batches => Exit(p) \in BatchPC
         /\ Exit(p) \in {"idle", "done"}
BY ProcsDisjoint DEF Exit, Procs, ClickPC, ReplPC, BatchPC

(* verify_approved lets only an approved model pass, verify_tools_ready only  *)
(* complete artifacts.                                                       *)
LEMMA PipelineStepKeepsIInv ==
  ASSUME IInv, NEW p \in Procs, PipelineStep(p) PROVE IInv'
<1>1. CASE VerifyApproved(p)
  <2>1. PICK to \in {"files", "idle", "done"} :
          /\ Goto(p, "gate", to) /\ (to = "files" => Approved(file))
          /\ (to = "files" \/ to = Exit(p))
    BY <1>1, ExitType DEF VerifyApproved
  <2>2. to = "files" => approvedOnce
    BY <2>1 DEF IInv, GateInv
  <2> QED BY <1>1, <2>1, <2>2, ExitType, PlainGotoKeepsIInv
       DEF VerifyApproved, ClickPC, ReplPC, BatchPC, PastWrite
<1>2. CASE VerifyArtifacts(p)
  <2>1. PICK to \in {"tools", "idle", "done"} :
          /\ Goto(p, "files", to) /\ (to = "tools" => MissingArtifacts = {})
          /\ (to = "tools" \/ to = Exit(p))
    BY <1>2, ExitType DEF VerifyArtifacts
  <2>2. approvedOnce
    BY <2>1 DEF Goto, IInv, GateInv
  <2>3. to = "tools" => Required \subseteq artifacts
    BY <2>1 DEF MissingArtifacts
  <2> QED BY <1>2, <2>1, <2>2, <2>3, ExitType, PlainGotoKeepsIInv
       DEF VerifyArtifacts, ClickPC, ReplPC, BatchPC, PastWrite
<1>3. CASE ToolsEnd(p)
  BY <1>3, ExitType, PlainGotoKeepsIInv DEF ToolsEnd, PastWrite
<1> QED BY <1>1, <1>2, <1>3 DEF PipelineStep

(* A batch goes straight to the gate. *)
LEMMA StartBatchStep == ASSUME IInv, NEW b \in Batches, StartBatch(b) PROVE IInv'
BY PlainGotoKeepsIInv, ProcsDisjoint DEF StartBatch, Procs, BatchPC, PastWrite

-----------------------------------------------------------------------------
(* The steps of a REPL.  None of them reaches the places of a click.         *)

(* The mode chosen is agent mode only when the file reads "approved".        *)
LEMMA SendModeType ==
  ASSUME IInv, NEW r \in Repls, mode' = [mode EXCEPT ![r] = SendMode(file)]
  PROVE  /\ mode' \in [Clicks \cup Repls -> Modes]
         /\ \A q \in Clicks \cup Repls : mode'[q] = "agent" => approvedOnce
<1>1. SendMode(file) \in Modes /\ (SendMode(file) = "agent" => approvedOnce)
  BY DEF SendMode, Modes, IInv, GateInv
<1> QED BY <1>1 DEF IInv, TypeOK, GateInv

(* Starting a REPL. *)
LEMMA LaunchStep == ASSUME IInv, NEW r \in Repls, Launch(r) PROVE IInv'
<1>1. PICK to \in {"prompt", "boot"} : Goto(r, "idle", to)
  BY DEF Launch
<1>2. /\ session' \in BOOLEAN /\ stray' \subseteq stray
      /\ UNCHANGED <<fileVars, artifacts, text, cmd>>
  BY DEF Launch, Recover, IInv, TypeOK
<1>3. /\ mode' \in [Clicks \cup Repls -> Modes]
      /\ \A q \in Clicks \cup Repls : mode'[q] = "agent" => approvedOnce
  <2>1. mode' = mode \/ mode' = [mode EXCEPT ![r] = SendMode(file)]
    BY DEF Launch
  <2> QED BY <2>1, SendModeType DEF IInv, TypeOK, GateInv
<1>4. stray' \subseteq Modes /\ ("agent" \in stray' => approvedOnce)
  BY <1>2 DEF IInv, TypeOK, GateInv
<1> QED BY <1>1, <1>2, <1>3, <1>4, GotoKeepsIInv, ProcsDisjoint DEF Procs, ReplPC

(* The end of a bootstrap or of a message, and a crash: the run may stay.    *)
LEMMA SendEndsStep ==
  ASSUME IInv, NEW r \in Repls, BootEnds(r) \/ MessageEnds(r) PROVE IInv'
<1>1. PICK to \in {"prompt", "idle", "status"}, from \in {"boot", "run"} : Goto(r, from, to)
  BY DEF BootEnds, MessageEnds
<1>2. stray' \subseteq Modes /\ ("agent" \in stray' => approvedOnce)
  BY LeaveRunType DEF BootEnds, MessageEnds
<1>3. /\ session' \in BOOLEAN
      /\ mode' \in [Clicks \cup Repls -> Modes]
      /\ \A q \in Clicks \cup Repls : mode'[q] = "agent" => approvedOnce
      /\ UNCHANGED <<fileVars, artifacts, text, cmd>>
  BY DEF BootEnds, MessageEnds, local, IInv, TypeOK, GateInv
<1> QED BY <1>1, <1>2, <1>3, GotoKeepsIInv, ProcsDisjoint DEF Procs, ReplPC

(* Choosing the mode for the next message. *)
LEMMA ChooseModeStep == ASSUME IInv, NEW r \in Repls, ChooseMode(r) PROVE IInv'
<1>1. /\ Goto(r, "prompt", "input")
      /\ mode' = [mode EXCEPT ![r] = SendMode(file)]
      /\ UNCHANGED <<fileVars, artifacts, agentVars, text, cmd>>
  BY DEF ChooseMode, ModeForTurn
<1>2. /\ session' \in BOOLEAN /\ stray' \subseteq Modes
      /\ "agent" \in stray' => approvedOnce
  BY <1>1 DEF agentVars, IInv, TypeOK, GateInv
<1> QED BY <1>1, <1>2, SendModeType, GotoKeepsIInv, ProcsDisjoint DEF Procs, ReplPC

(* Typing a line changes the command.  *)
LEMMA TypeLineStep == ASSUME IInv, NEW r \in Repls, TypeLine(r) PROVE IInv'
<1>1. PICK to \in {"prompt", "idle", "run"} : Goto(r, "input", to)
  BY DEF TypeLine
<1>2. /\ cmd' \in [Repls -> {"chat", "tools"}]
      /\ UNCHANGED <<fileVars, artifacts, agentVars, text, mode>>
  BY DEF TypeLine, IInv, TypeOK
<1>3. \A q \in Procs : pc'[q] = IF q = r THEN to ELSE pc[q]
  BY <1>1 DEF Goto, IInv, TypeOK
<1>4. TypeOK'
  BY <1>1, <1>2, <1>3, ProcsDisjoint
     DEF Goto, IInv, TypeOK, fileVars, agentVars, Procs, ReplPC
<1>5. GateInv'
  BY <1>2, <1>3, ProcsDisjoint
     DEF IInv, GateInv, PastWrite, fileVars, agentVars, Procs
<1> QED BY <1>4, <1>5 DEF IInv

(* After a message: the status, and for "run tools" the artifacts. *)
LEMMA AfterMessageStep ==
  ASSUME IInv, NEW r \in Repls, ReadStatusAfter(r) \/ CollectForTools(r) PROVE IInv'
<1>1. PICK to \in {"collect", "prompt", "gate"}, from \in {"status", "collect"} :
        Goto(r, from, to)
  BY DEF ReadStatusAfter, CollectForTools
<1>2. UNCHANGED <<fileVars, artifacts, agentVars, local>>
  BY DEF ReadStatusAfter, CollectForTools
<1> QED BY <1>1, <1>2, PlainGotoKeepsIInv, ProcsDisjoint DEF Procs, ReplPC

-----------------------------------------------------------------------------
(* The agent, the people and the crashes.                                    *)

(* A run writes a Generate artifact only in agent mode. *)
LEMMA AgentWritesStep == ASSUME IInv, AgentWrites PROVE IInv'
<1>1. PICK m \in LiveModes, a \in Required :
        (a \in Gated => m = "agent") /\ artifacts' = artifacts \cup {a}
  BY DEF AgentWrites
<1>2. m = "agent" => approvedOnce
  BY DEF LiveModes, IInv, GateInv
<1>3. UNCHANGED <<fileVars, agentVars, pc, local>>
  BY DEF AgentWrites
<1>4. TypeOK'
  BY <1>1, <1>3 DEF IInv, TypeOK, fileVars, agentVars, local
<1>5. GateInv'
  BY <1>1, <1>2, <1>3 DEF IInv, GateInv, PastWrite, fileVars, agentVars, local
<1> QED BY <1>4, <1>5 DEF IInv

(* The bot's death ends its clicks and may leave their runs. *)
LEMMA BotCrashStep == ASSUME IInv, BotCrash PROVE IInv'
<1>1. \A p \in Procs : pc'[p] = pc[p] \/ (p \in Clicks /\ pc'[p] = "done")
  BY DEF BotCrash
<1>2. stray' \subseteq Modes /\ ("agent" \in stray' => approvedOnce)
  BY DEF BotCrash, IInv, TypeOK, GateInv
<1>3. UNCHANGED <<fileVars, artifacts, session, local>>
  BY DEF BotCrash
<1>4. TypeOK'
  <2>1. pc' \in [Procs -> ClickPC \cup ReplPC]
    BY DEF BotCrash, IInv, TypeOK, ClickPC
  <2> QED BY <1>1, <1>2, <1>3, <2>1, ProcsDisjoint
       DEF IInv, TypeOK, fileVars, local, Procs, ClickPC
<1>5. GateInv'
  BY <1>1, <1>2, <1>3 DEF IInv, GateInv, PastWrite, fileVars, local, Procs
<1> QED BY <1>4, <1>5 DEF IInv

(* The death of a REPL may leave its run. *)
LEMMA ReplCrashStep == ASSUME IInv, NEW r \in Repls, ReplCrash(r) PROVE IInv'
<1>1. Goto(r, pc[r], "idle")
  BY DEF ReplCrash, Goto
<1>2. stray' \subseteq Modes /\ ("agent" \in stray' => approvedOnce)
  BY LeaveRunType DEF ReplCrash
<1>3. /\ session' \in BOOLEAN
      /\ mode' \in [Clicks \cup Repls -> Modes]
      /\ \A q \in Clicks \cup Repls : mode'[q] = "agent" => approvedOnce
      /\ UNCHANGED <<fileVars, artifacts, text, cmd>>
  BY DEF ReplCrash, local, IInv, TypeOK, GateInv
<1> QED BY <1>1, <1>2, <1>3, GotoKeepsIInv, ProcsDisjoint DEF Procs, ReplPC

-----------------------------------------------------------------------------
(* Every step keeps the invariant. *)
LEMMA NextKeepsIInv == IInv /\ [Next]_vars => IInv'
<1> SUFFICES ASSUME IInv, [Next]_vars PROVE IInv'
  OBVIOUS
<1>1. CASE \E c \in Clicks : ReadModel(c) \/ ClickStep(c)
  <2> PICK c \in Clicks : ReadModel(c) \/ ClickStep(c)
    BY <1>1
  <2>1. c \in Procs
    BY DEF Procs
  <2> QED BY <2>1, ReadModelStep, CheckStatusStep, TruncateStep, FillStep,
             DispatchStep, ContinueStep, ContinueEndsStep, CollectStep,
             PipelineStepKeepsIInv DEF ClickStep
<1>2. CASE \E r \in Repls : Launch(r) \/ TypeLine(r) \/ ReplStep(r) \/ ReplCrash(r)
  <2> PICK r \in Repls : Launch(r) \/ TypeLine(r) \/ ReplStep(r) \/ ReplCrash(r)
    BY <1>2
  <2>1. r \in Procs
    BY DEF Procs
  <2> QED BY <2>1, LaunchStep, TypeLineStep, SendEndsStep, ChooseModeStep,
             AfterMessageStep, PipelineStepKeepsIInv, ReplCrashStep DEF ReplStep
<1>3. CASE \E b \in Batches : StartBatch(b) \/ PipelineStep(b)
  <2> PICK b \in Batches : StartBatch(b) \/ PipelineStep(b)
    BY <1>3
  <2> QED BY StartBatchStep, PipelineStepKeepsIInv DEF Procs
<1>4. CASE EditModel
  <2>1. PICK d \in AgentDocs : Replace(d)
    BY <1>4 DEF EditModel
  <2>2. UNCHANGED <<artifacts, agentVars, pc, local>>
    BY <1>4 DEF EditModel
  <2> QED BY <2>1, <2>2, ReplaceKeepsIInv, AgentDocsAreDocs
<1>5. CASE AgentWrites
  BY <1>5, AgentWritesStep
<1>6. CASE BotCrash
  BY <1>6, BotCrashStep
<1>7. CASE UNCHANGED vars
  <2>1. TypeOK' /\ GateInv'
    BY <1>7 DEF vars, fileVars, agentVars, local, IInv, TypeOK, GateInv, PastWrite
  <2> QED BY <2>1 DEF IInv
<1> QED BY <1>1, <1>2, <1>3, <1>4, <1>5, <1>6, <1>7 DEF Next

(* The invariant holds of every behaviour. *)
LEMMA SpecIInv == Spec => []IInv
BY InitIInv, NextKeepsIInv, PTL DEF Spec

(* Type correctness, for any number of processes and any documents. *)
THEOREM TypeCorrect == Spec => []TypeOK
BY SpecIInv, PTL DEF IInv

(* The conditions the phase gates rest on hold in every interleaving of any  *)
(* number of clicks, REPLs, batches, edits and crashes.                      *)
THEOREM GatesInvariant == Spec => []GateInv
BY SpecIInv, PTL DEF IInv

-----------------------------------------------------------------------------
(* The window of a write.                                                    *)

(* A move of any process that is not filling the file leaves who is. *)
LEMMA MoveKeepsWriters ==
  ASSUME TypeOK, NEW p, NEW from, NEW to, Goto(p, from, to),
         from # "fill", UNCHANGED file, EmptyOnlyDuringWrite
  PROVE  EmptyOnlyDuringWrite'
<1>1. \A c \in Clicks : pc[c] = "fill" => pc'[c] = "fill"
  BY DEF Goto, TypeOK, Procs
<1> QED BY <1>1 DEF EmptyOnlyDuringWrite

LEMMA ClickKeepsWriters ==
  ASSUME IInv, NEW c \in Clicks, ReadModel(c) \/ ClickStep(c), EmptyOnlyDuringWrite
  PROVE  EmptyOnlyDuringWrite'
<1>1. c \in Procs
  BY DEF Procs
<1>2. CASE Truncate(c)
  <2>1. pc'[c] = "fill"
    BY <1>1, <1>2 DEF Truncate, Goto, IInv, TypeOK
  <2> QED BY <2>1 DEF EmptyOnlyDuringWrite
<1>3. CASE Fill(c)
  <2>1. file' = Approve(text[c])
    BY <1>3 DEF Fill, Replace
  <2>2. file'.section # EmptyDoc.section
    BY <2>1 DEF Approve, EmptyDoc
  <2> QED BY <2>2 DEF EmptyOnlyDuringWrite
<1>4. CASE ~Truncate(c) /\ ~Fill(c)
  <2>1. PICK from, to : Goto(c, from, to) /\ from # "fill"
    BY <1>4 DEF ReadModel, ClickStep, CheckStatus, Dispatch, Continue, ContinueEnds,
                Collect, PipelineStep, VerifyApproved, VerifyArtifacts, ToolsEnd, Goto
  <2>2. UNCHANGED file
    BY <1>4 DEF ReadModel, ClickStep, CheckStatus, Dispatch, Continue, ContinueEnds,
                Collect, PipelineStep, VerifyApproved, VerifyArtifacts, ToolsEnd, fileVars
  <2> QED BY <2>1, <2>2, MoveKeepsWriters DEF IInv
<1> QED BY <1>2, <1>3, <1>4

LEMMA OtherKeepsWriters ==
  ASSUME IInv, NEW p \in Repls \cup Batches, EmptyOnlyDuringWrite,
         \/ Launch(p) \/ TypeLine(p) \/ ReplStep(p)
         \/ StartBatch(p) \/ PipelineStep(p)
  PROVE  EmptyOnlyDuringWrite'
<1>1. PICK from, to : Goto(p, from, to) /\ from # "fill"
  BY DEF Launch, TypeLine, ReplStep, BootEnds, ChooseMode, MessageEnds, ReadStatusAfter,
         CollectForTools, StartBatch, PipelineStep, VerifyApproved, VerifyArtifacts, ToolsEnd
<1>2. UNCHANGED file
  BY DEF Launch, TypeLine, ReplStep, BootEnds, ChooseMode, MessageEnds, ReadStatusAfter,
         CollectForTools, StartBatch, PipelineStep, VerifyApproved, VerifyArtifacts, ToolsEnd,
         fileVars
<1> QED BY <1>1, <1>2, MoveKeepsWriters DEF IInv

(* While nothing crashes, the model is empty only between the opening of the  *)
(* file for writing and the write, of whichever clicks: every click that has *)
(* emptied the file writes a text with section 10, and no step of another    *)
(* process takes a click out of its write.                                   *)
THEOREM WriteWindow ==
  ASSUME ~CanCrash, EmptyDoc \notin AgentDocs
  PROVE  Spec => []EmptyOnlyDuringWrite
<1>1. Init => EmptyOnlyDuringWrite
  BY EmptyDocType, MissingIsNoDoc DEF Init, EmptyOnlyDuringWrite
<1>2. IInv /\ EmptyOnlyDuringWrite /\ [Next]_vars => EmptyOnlyDuringWrite'
  <2> SUFFICES ASSUME IInv, EmptyOnlyDuringWrite, [Next]_vars
               PROVE  EmptyOnlyDuringWrite'
    OBVIOUS
  <2>1. CASE EditModel
    BY <2>1 DEF EditModel, Replace, EmptyOnlyDuringWrite
  <2>2. CASE AgentWrites \/ UNCHANGED vars
    BY <2>2 DEF AgentWrites, vars, fileVars, EmptyOnlyDuringWrite
  <2>3. ~BotCrash /\ \A r \in Repls : ~ReplCrash(r)
    BY DEF BotCrash, ReplCrash
  <2> QED BY <2>1, <2>2, <2>3, ClickKeepsWriters, OtherKeepsWriters DEF Next
<1> QED BY <1>1, <1>2, SpecIInv, PTL DEF Spec

-----------------------------------------------------------------------------
(* The implementation of PhaseGates.                                         *)

Running == {p \in Procs : pc[p] = "tools"}

(* A move that does not reach "tools" stops tools or changes nothing.        *)
LEMMA MoveStops ==
  ASSUME TypeOK, NEW p \in Procs, NEW from, NEW to, Goto(p, from, to),
         to # "tools", UNCHANGED <<artifacts, approvedOnce>>
  PROVE  Gates!StopTools
<1>1. Running' \subseteq Running
  BY DEF Running, Goto, TypeOK
<1> QED BY <1>1 DEF Gates!StopTools, Running

(* Only VerifyArtifacts starts tools, and it does so behind both checks.     *)
LEMMA PipelineImplements ==
  ASSUME IInv, NEW p \in Procs, PipelineStep(p)
  PROVE  [Gates!Next]_(Gates!vars)
<1>1. UNCHANGED <<artifacts, approvedOnce>>
  BY DEF PipelineStep, VerifyApproved, VerifyArtifacts, ToolsEnd, fileVars
<1>2. CASE VerifyArtifacts(p) /\ MissingArtifacts = {}
  <2>1. Goto(p, "files", "tools")
    BY <1>2 DEF VerifyArtifacts
  <2>2. approvedOnce
    BY <2>1 DEF Goto, IInv, GateInv
  <2>3. Running' = Running \cup {p}
    BY <2>1 DEF Goto, Running, IInv, TypeOK
  <2>4. Gates!StartTools(p)
    BY <1>1, <1>2, <2>2, <2>3 DEF Gates!StartTools, Running, MissingArtifacts, Required
  <2> QED BY <2>4 DEF Gates!Next
<1>3. CASE ~(VerifyArtifacts(p) /\ MissingArtifacts = {})
  <2>1. PICK from, to : Goto(p, from, to) /\ to # "tools"
    <3>1. CASE VerifyApproved(p)
      BY <3>1, ExitType DEF VerifyApproved
    <3>2. CASE VerifyArtifacts(p)
      BY <1>3, <3>2, ExitType DEF VerifyArtifacts
    <3>3. CASE ToolsEnd(p)
      BY <3>3, ExitType DEF ToolsEnd
    <3> QED BY <3>1, <3>2, <3>3 DEF PipelineStep
  <2>2. Gates!StopTools
    BY <1>1, <2>1, MoveStops DEF IInv
  <2> QED BY <2>2 DEF Gates!Next
<1> QED BY <1>2, <1>3

(* Before the pipeline a click approves, by its write, or moves.             *)
LEMMA ClickImplements ==
  ASSUME IInv, NEW c \in Clicks, ReadModel(c) \/ ClickStep(c)
  PROVE  [Gates!Next]_(Gates!vars)
<1>1. c \in Procs
  BY DEF Procs
<1>2. CASE Fill(c)
  <2>1. text[c] \in Doc /\ HasStatusLine(text[c])
    BY <1>2 DEF Fill, Goto, IInv, TypeOK, GateInv
  <2>2. approvedOnce' = TRUE /\ artifacts' = artifacts
    BY <1>2, <2>1, ApproveApproves DEF Fill, Replace, IInv, TypeOK
  <2>3. Running' = Running
    BY <1>2 DEF Fill, Goto, Running, IInv, TypeOK
  <2>4. Gates!Approve
    BY <2>2, <2>3 DEF Gates!Approve, Running
  <2> QED BY <2>4 DEF Gates!Next
<1>3. CASE PipelineStep(c)
  BY <1>1, <1>3, PipelineImplements
<1>4. CASE ~Fill(c) /\ ~PipelineStep(c)
  <2>1. PICK from, to : Goto(c, from, to) /\ to # "tools"
    BY <1>4, ExitType, <1>1
       DEF ReadModel, ClickStep, CheckStatus, Truncate, Dispatch, Continue,
           ContinueEnds, Collect, Goto
  <2>2. UNCHANGED <<artifacts, approvedOnce>>
    BY <1>4, EmptyDocType
       DEF ReadModel, ClickStep, CheckStatus, Truncate, Dispatch, Continue,
           ContinueEnds, Collect, fileVars, Replace, IInv, TypeOK
  <2>3. Gates!StopTools
    BY <1>1, <2>1, <2>2, MoveStops DEF IInv
  <2> QED BY <2>3 DEF Gates!Next
<1> QED BY <1>2, <1>3, <1>4

(* Outside the pipeline a REPL only moves. *)
LEMMA ReplImplements ==
  ASSUME IInv, NEW r \in Repls, Launch(r) \/ TypeLine(r) \/ ReplStep(r) \/ ReplCrash(r)
  PROVE  [Gates!Next]_(Gates!vars)
<1>1. r \in Procs
  BY DEF Procs
<1>2. CASE PipelineStep(r)
  BY <1>1, <1>2, PipelineImplements
<1>3. CASE ~PipelineStep(r)
  <2>1. PICK from, to : Goto(r, from, to) /\ to # "tools"
    BY <1>3 DEF Launch, TypeLine, ReplStep, ReplCrash, BootEnds, ChooseMode,
                MessageEnds, ReadStatusAfter, CollectForTools, Goto
  <2>2. UNCHANGED <<artifacts, approvedOnce>>
    BY <1>3 DEF Launch, TypeLine, ReplStep, ReplCrash, BootEnds, ChooseMode,
                MessageEnds, ReadStatusAfter, CollectForTools, fileVars
  <2>3. Gates!StopTools
    BY <1>1, <2>1, <2>2, MoveStops DEF IInv
  <2> QED BY <2>3 DEF Gates!Next
<1> QED BY <1>2, <1>3

(* Every step of the flow is a step of the gates or leaves them alone.       *)
LEMMA StepImplements == IInv /\ [Next]_vars => [Gates!Next]_(Gates!vars)
<1> SUFFICES ASSUME IInv, [Next]_vars PROVE [Gates!Next]_(Gates!vars)
  OBVIOUS
<1>1. CASE \E b \in Batches : StartBatch(b) \/ PipelineStep(b)
  <2> PICK b \in Batches : StartBatch(b) \/ PipelineStep(b)
    BY <1>1
  <2>1. b \in Procs
    BY DEF Procs
  <2>2. CASE StartBatch(b)
    <3>1. Gates!StopTools
      BY <2>1, <2>2, MoveStops DEF StartBatch, fileVars, IInv
    <3> QED BY <3>1 DEF Gates!Next
  <2> QED BY <2>1, <2>2, PipelineImplements
<1>2. CASE EditModel
  <2>1. UNCHANGED artifacts /\ Running' = Running
    BY <1>2 DEF EditModel, Running
  <2>2. approvedOnce' = approvedOnce \/ approvedOnce' = TRUE
    BY <1>2 DEF EditModel, Replace, IInv, TypeOK, Approved
  <2> QED BY <2>1, <2>2 DEF Gates!Next, Gates!Approve, Gates!vars, Running
<1>3. CASE AgentWrites
  <2>1. PICK m \in LiveModes, a \in Required :
          (a \in Gated => m = "agent") /\ artifacts' = artifacts \cup {a}
    BY <1>3 DEF AgentWrites
  <2>2. m = "agent" => approvedOnce
    BY DEF LiveModes, IInv, GateInv
  <2>3. UNCHANGED approvedOnce /\ Running' = Running
    BY <1>3 DEF AgentWrites, fileVars, Running
  <2>4. Gates!Generate(a)
    BY <2>1, <2>2, <2>3 DEF Gates!Generate, Running
  <2> QED BY <2>4 DEF Gates!Next, Required
<1>4. CASE BotCrash
  <2>1. UNCHANGED <<artifacts, approvedOnce>> /\ Running' \subseteq Running
    BY <1>4 DEF BotCrash, fileVars, Running
  <2> QED BY <2>1 DEF Gates!Next, Gates!StopTools, Running
<1>5. CASE UNCHANGED vars
  BY <1>5 DEF vars, Gates!vars, Running
<1> QED BY <1>1, <1>2, <1>3, <1>4, <1>5, ClickImplements, ReplImplements DEF Next

(* README, "Workflow phases": no Generate artifact is written and no tools    *)
(* run before an approval, and tools run only with every artifact, for any   *)
(* number of processes and any interleaving of them.                         *)
THEOREM FlowImplementsGates == Spec => ImplementsGates
<1>1. Init => Gates!Init
  BY DEF Init, Gates!Init, Procs, Approved
<1> QED BY <1>1, StepImplements, SpecIInv, PTL DEF Spec, ImplementsGates, Gates!Spec
=============================================================================
