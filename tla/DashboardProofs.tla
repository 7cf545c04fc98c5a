---------------------------- MODULE DashboardProofs ----------------------------
(***************************************************************************)
(* For any cases, files, runs, steps and requests, and any order in which    *)
(* the server reads the phases: what the page shows.                         *)
(***************************************************************************)
EXTENDS Dashboard, FiniteSetTheorems, TLAPS

-----------------------------------------------------------------------------
(* The rail. *)

PhaseStatuses == {"pending", "active", "done", "fail"}
Overlays == [PhaseSet -> {"none", "active", "fail"}]

(* The phases, one by one. *)
LEMMA PhaseSetIs ==
  PhaseSet = {"intake", "plan", "design", "approval", "code", "test", "sizing", "output"}
<1>1. DOMAIN Phases = 1..8
  BY DEF Phases
<1>2. \A p \in PhaseSet : \E i \in 1..8 : p = Phases[i]
  BY <1>1 DEF PhaseSet
<1>3. \A i \in 1..8 : Phases[i] \in PhaseSet
  BY <1>1 DEF PhaseSet
<1>4. 1 \in 1..8 /\ 2 \in 1..8 /\ 3 \in 1..8 /\ 4 \in 1..8 /\ 5 \in 1..8 /\ 6 \in 1..8
      /\ 7 \in 1..8 /\ 8 \in 1..8
  OBVIOUS
<1>5. /\ Phases[1] = "intake" /\ Phases[2] = "plan" /\ Phases[3] = "design"
      /\ Phases[4] = "approval" /\ Phases[5] = "code" /\ Phases[6] = "test"
      /\ Phases[7] = "sizing" /\ Phases[8] = "output"
  BY DEF Phases
<1>6. \A i \in 1..8 : i = 1 \/ i = 2 \/ i = 3 \/ i = 4 \/ i = 5 \/ i = 6 \/ i = 7 \/ i = 8
  OBVIOUS
<1>7. \A p \in PhaseSet : p \in {"intake", "plan", "design", "approval", "code", "test",
                                 "sizing", "output"}
  BY <1>2, <1>5, <1>6
<1>8. {"intake", "plan", "design", "approval", "code", "test", "sizing", "output"}
        \subseteq PhaseSet
  BY <1>3, <1>4, <1>5
<1> QED BY <1>7, <1>8

(* A target belongs to a phase only while that one is active. *)
LEMMA TargetPhase ==
  ASSUME NEW f, NEW active
  PROVE  /\ PhaseFromTarget(f, active) \in PhaseSet \cup {NoPhase}
         /\ PhaseFromTarget(f, active) \in {active, NoPhase}
<1>1. ArtifactPhase(f) \in PhaseSet \cup {NoPhase}
  BY PhaseSetIs DEF ArtifactPhase
<1>2. "plan" \in PhaseSet
  BY PhaseSetIs
<1> QED BY <1>1, <1>2 DEF PhaseFromTarget

LEMMA StepPhaseType ==
  ASSUME NEW s PROVE StepPhase(s) \in PhaseSet \cup {NoPhase}
BY PhaseSetIs DEF StepPhase

(* What is drawn for a state and marks: merely the status of the state, or a  *)
(* mark that is not of another active phase.                                 *)
LEMMA DrawnRail ==
  ASSUME NEW answer \in CaseState, NEW marks \in Overlays, Draw(answer, marks)
  PROVE  LET active == IF answer.known THEN ActivePhase(answer.done) ELSE NoPhase
         IN /\ rail' \in [PhaseSet -> PhaseStatuses]
            /\ \A p \in PhaseSet :
                 rail'[p] = "active" => p = active \/ marks[p] = "active"
<1> DEFINE active == IF answer.known THEN ActivePhase(answer.done) ELSE NoPhase
           status == IF answer.known THEN PhaseStatus(answer.done)
                     ELSE [p \in PhaseSet |-> "pending"]
<1>1. /\ status \in [PhaseSet -> PhaseStatuses]
      /\ \A p \in PhaseSet : status[p] = "active" => p = active
  BY DEF PhaseStatus, PhaseStatuses
<1>2. rail' = MergePhases(status, active, marks)
  BY DEF Draw
<1> HIDE DEF active, status
<1>3. /\ rail' \in [PhaseSet -> PhaseStatuses]
      /\ \A p \in PhaseSet : rail'[p] \in {status[p], marks[p]}
  <2>1. \A p \in PhaseSet : marks[p] = "none" \/ marks[p] \in {"active", "fail"}
    BY DEF Overlays
  <2>2. rail' = [p \in PhaseSet |->
          IF \/ marks[p] = "none"
             \/ marks[p] = "active" /\ active # NoPhase /\ p # active
             \/ PhaseRank(marks[p]) < PhaseRank(status[p])
            THEN status[p] ELSE marks[p]]
    BY <1>2, Zenon DEF MergePhases
  <2>3. ASSUME NEW p \in PhaseSet
        PROVE  rail'[p] \in {status[p], marks[p]} /\ rail'[p] \in PhaseStatuses
    <3>1. CASE marks[p] = "none"
      BY <3>1, <2>2, <1>1
    <3>2. CASE marks[p] \in {"active", "fail"}
      BY <3>2, <2>2, <1>1 DEF PhaseStatuses
    <3> QED BY <3>1, <3>2, <2>1
  <2> QED BY <2>2, <2>3
<1>4. \A p \in PhaseSet : rail'[p] = "active" => p = active \/ marks[p] = "active"
  BY <1>1, <1>3
<1> QED BY <1>3, <1>4 DEF active

(* A mark for the rail is one, and active only for the phase that is so on    *)
(* the disk.                                                                 *)
Marked(marks) ==
  marks \in Overlays /\ \A p \in PhaseSet : marks[p] = "active" => p = ActiveSeen

LEMMA MarkLive ==
  ASSUME Marked(overlay), NEW phase \in PhaseSet \cup {NoPhase},
         NEW status \in {"active", "fail"}
  PROVE  Marked(WithLive(phase, status))
<1>1. CASE phase = NoPhase \/ (status = "active" /\ phase # ActiveSeen)
  BY <1>1 DEF WithLive
<1>2. CASE ~(phase = NoPhase \/ (status = "active" /\ phase # ActiveSeen))
  <2> DEFINE marks == [overlay EXCEPT ![phase] = status]
  <2>1. WithLive(phase, status) = marks /\ phase \in PhaseSet
    BY <1>2 DEF WithLive
  <2>2. marks \in Overlays /\ marks = [overlay EXCEPT ![phase] = status]
    BY <2>1 DEF Marked, Overlays
  <2>3. \A p \in PhaseSet : marks[p] = "active" => p = ActiveSeen
    BY <1>2, <2>1 DEF Marked, Overlays
  <2> QED BY <2>1, <2>2, <2>3, Zenon DEF Marked
<1> QED BY <1>1, <1>2

LEMMA NoMarks == Marked(NoOverlay)
BY DEF Marked, NoOverlay, Overlays

-----------------------------------------------------------------------------
(* Types. *)

(* What the server, the page's connection and the network hold. *)
WayType ==
  /\ log \in Seq(Event) /\ wire \in Seq(Event) /\ late \in Seq(Event)
  /\ over \in BOOLEAN /\ lost \in Nat
  /\ link \in [from : Nat, clean : BOOLEAN, number : Nat]

LEMMA PickedType ==
  ASSUME NEW events \in Seq(Event), NEW some \in SUBSET DOMAIN events
  PROVE  /\ Picked(events, some) \in Seq(Event)
         /\ some = DOMAIN events => Picked(events, some) = events
         /\ some = {} => Picked(events, some) = <<>>
<1>1. DOMAIN events = 1..Len(events)
  OBVIOUS
<1>2. CASE some = {}
  <2>1. Picked(events, some) = <<>>
    BY <1>2 DEF Picked
  <2>2. some = DOMAIN events => events = <<>>
    <3>1. some = DOMAIN events => Len(events) = 0
      <4>1. Len(events) \in Nat /\ (Len(events) # 0 => 1 \in 1..Len(events))
        OBVIOUS
      <4> QED BY <1>1, <1>2, <4>1
    <3>2. Len(events) = 0 => events = <<>>
      OBVIOUS
    <3> QED BY <3>1, <3>2
  <2> QED BY <2>1, <2>2
<1>3. CASE some # {} /\ some = DOMAIN events
  BY <1>3 DEF Picked
<1>4. CASE some # {} /\ some # DOMAIN events
  <2> DEFINE i == CHOOSE i \in some : TRUE
  <2>1. i \in some /\ Picked(events, some) = <<events[i]>>
    BY <1>4 DEF Picked
  <2> HIDE DEF i
  <2>2. events[i] \in Event
    BY <1>1, <2>1
  <2> QED BY <1>4, <2>1, <2>2
<1> QED BY <1>2, <1>3, <1>4

(* The buffer takes what comes and, unless it is over, still holds all. *)
LEMMA BufferType ==
  ASSUME log \in Seq(Event), over \in BOOLEAN, NEW events \in Seq(Event), Buffer(events)
  PROVE  /\ log' \in Seq(Event) /\ over' \in BOOLEAN
         /\ ~over' => ~over /\ log' = log \o events
<1> DEFINE all == log \o events
           excess == Len(all) - MaxBuffer
<1>1. all \in Seq(Event) /\ Len(all) \in Nat /\ MaxBuffer \in Nat \ {0}
  BY DashboardAssumption
<1>2. /\ log' = (IF excess > 0 THEN SubSeq(all, excess + 1, Len(all)) ELSE all)
      /\ over' = (over \/ excess > 0)
  BY DEF Buffer
<1> HIDE DEF all
<1>3. excess > 0 => SubSeq(all, excess + 1, Len(all)) \in Seq(Event)
  <2> DEFINE n == Len(all)
             m == excess + 1
  <2>1. excess > 0 => m \in 1..n + 1 /\ n \in Nat
    BY <1>1
  <2> HIDE DEF m
  <2>2. excess > 0 => SubSeq(all, m, n) \in Seq(Event)
    BY <1>1, <2>1
  <2> QED BY <2>2 DEF m
<1> HIDE DEF excess
<1>4. log' \in Seq(Event) /\ (~(excess > 0) => log' = all)
  BY <1>1, <1>2, <1>3
<1>5. over' \in BOOLEAN /\ (~over' => ~over /\ ~(excess > 0))
  BY <1>2
<1> QED BY <1>4, <1>5 DEF all

(* What is emitted comes to the buffer and to the page's queue, or is counted *)
(* as lost.                                                                  *)
LEMMA EmitType ==
  ASSUME TypeOK, NEW events \in Seq(Event), Emit(events)
  PROVE  /\ WayType' /\ link' = link
         /\ lost' = 0 => lost = 0 /\ wire' = wire \o events /\ late' = late
         /\ lost' = 0 /\ ~over' => ~over /\ log' = log \o events
<1>1. PICK arrived \in SUBSET DOMAIN events, queued \in SUBSET DOMAIN events,
           slow \in SUBSET DOMAIN events :
        /\ queued \subseteq arrived /\ slow \cap arrived = {}
        /\ Buffer(Picked(events, arrived))
        /\ wire' = wire \o Picked(events, queued)
        /\ late' = late \o Picked(events, slow)
        /\ lost' = lost + Cardinality(DOMAIN events \ queued)
        /\ link' = link
  BY DEF Emit
<1>2. /\ log \in Seq(Event) /\ wire \in Seq(Event) /\ late \in Seq(Event)
      /\ over \in BOOLEAN /\ lost \in Nat
      /\ link \in [from : Nat, clean : BOOLEAN, number : Nat]
  BY DEF TypeOK
<1>3. /\ Picked(events, arrived) \in Seq(Event) /\ Picked(events, queued) \in Seq(Event)
      /\ Picked(events, slow) \in Seq(Event)
  BY PickedType
<1>4. /\ log' \in Seq(Event) /\ over' \in BOOLEAN
      /\ ~over' => ~over /\ log' = log \o Picked(events, arrived)
  BY <1>1, <1>2, <1>3, BufferType
<1>5. /\ Cardinality(DOMAIN events \ queued) \in Nat
      /\ Cardinality(DOMAIN events \ queued) = 0 => queued = DOMAIN events
  <2>1. DOMAIN events = 1..Len(events) /\ 1 \in Int /\ Len(events) \in Int
    OBVIOUS
  <2>2. IsFiniteSet(DOMAIN events)
    BY <2>1, FS_Interval
  <2>3. IsFiniteSet(DOMAIN events \ queued)
    BY <2>2, FS_Difference
  <2>4. /\ Cardinality(DOMAIN events \ queued) \in Nat
        /\ Cardinality(DOMAIN events \ queued) = 0 => DOMAIN events \ queued = {}
    BY <2>3, FS_CardinalityType, FS_EmptySet
  <2> QED BY <2>4
<1>6. lost' \in Nat /\ (lost' = 0 => lost = 0 /\ queued = DOMAIN events)
  BY <1>1, <1>2, <1>5
<1>7. WayType'
  BY <1>1, <1>2, <1>3, <1>4, <1>6 DEF WayType
<1>8. ASSUME lost' = 0
      PROVE  /\ Picked(events, queued) = events /\ Picked(events, arrived) = events
             /\ late' = late
  <2>1. queued = DOMAIN events /\ arrived = DOMAIN events /\ slow = {}
    BY <1>1, <1>6, <1>8
  <2>2. Picked(events, slow) = <<>>
    BY <2>1, PickedType
  <2>3. late' = late
    BY <1>1, <1>2, <2>2
  <2> QED BY <2>1, <2>3, PickedType
<1> QED BY <1>1, <1>4, <1>6, <1>7, <1>8

LEMMA ReadingLength == Read \in Nat \ {0} /\ Unseen \in CaseState /\ MaxFetch \in Nat
<1>1. Len(Reading) \in Nat
  BY DashboardAssumption
<1>2. Unseen \in CaseState
  BY DEF Unseen, CaseState, Approvals
<1>3. MaxFetch \in Nat
  BY DashboardAssumption
<1> QED BY <1>1, <1>2, <1>3 DEF Read

Requests(f) == f \subseteq Request /\ IsFiniteSet(f) /\ Cardinality(f) <= MaxFetch

LEMMA AskType ==
  ASSUME Requests(fetch), NEW c \in Cases, Ask(c) \/ UNCHANGED fetch
  PROVE  Requests(fetch')
<1>1. CASE UNCHANGED fetch
  BY <1>1 DEF Requests
<1>2. CASE Ask(c)
  <2> DEFINE r == [at |-> 0, case |-> c, answer |-> Unseen]
  <2>1. r \in Request
    BY ReadingLength DEF Request
  <2>2. fetch' = fetch \cup {r} /\ Cardinality(fetch) < MaxFetch
    BY <1>2 DEF Ask
  <2> HIDE DEF r
  <2>3. /\ IsFiniteSet(fetch \cup {r})
        /\ Cardinality(fetch \cup {r}) \in {Cardinality(fetch), Cardinality(fetch) + 1}
        /\ Cardinality(fetch) \in Nat
    BY FS_AddElement, FS_CardinalityType DEF Requests
  <2> QED BY <2>1, <2>2, <2>3, ReadingLength DEF Requests
<1> QED BY <1>1, <1>2

LEMMA RemoveType ==
  ASSUME Requests(fetch), NEW r \in fetch
  PROVE  Requests(fetch \ {r})
<1>1. /\ IsFiniteSet(fetch \ {r}) /\ Cardinality(fetch \ {r}) = Cardinality(fetch) - 1
      /\ Cardinality(fetch) \in Nat
  BY FS_RemoveElement, FS_CardinalityType DEF Requests
<1> QED BY <1>1, ReadingLength DEF Requests

(* A request that is served takes the place of what it was before. *)
LEMMA ServeType ==
  ASSUME Requests(fetch), NEW r \in fetch, NEW q \in Request
  PROVE  Requests((fetch \ {r}) \cup {q})
<1> DEFINE rest == fetch \ {r}
<1>1. /\ IsFiniteSet(rest) /\ Cardinality(rest) = Cardinality(fetch) - 1
      /\ Cardinality(fetch) \in Nat
  BY FS_RemoveElement, FS_CardinalityType DEF Requests
<1>2. /\ IsFiniteSet(rest \cup {q})
      /\ Cardinality(rest \cup {q}) \in {Cardinality(rest), Cardinality(rest) + 1}
  BY <1>1, FS_AddElement
<1>3. Cardinality(rest \cup {q}) <= MaxFetch
  BY <1>1, <1>2, ReadingLength DEF Requests
<1> QED BY <1>2, <1>3 DEF Requests

(* The marks and the rail call no phase active but the first one not done. *)
Rails ==
  /\ \A p \in PhaseSet : overlay[p] = "active" => p = ActiveSeen
  /\ \A p \in PhaseSet : rail[p] = "active" => p = ActiveSeen

(* The page after an event: what it has drawn, or what it had before. *)
LEMMA DrawKeeps ==
  ASSUME TypeOK, Rails, UNCHANGED seen, Marked(overlay'),
         Draw(seen, overlay') \/ UNCHANGED rail
  PROVE  /\ overlay' \in Overlays /\ rail' \in [PhaseSet -> PhaseStatuses]
         /\ Rails'
<1>1. ActiveSeen' = ActiveSeen
  BY DEF ActiveSeen
<1>2. \A p \in PhaseSet : overlay'[p] = "active" => p = ActiveSeen
  BY DEF Marked
<1>3. /\ rail' \in [PhaseSet -> PhaseStatuses]
      /\ \A p \in PhaseSet : rail'[p] = "active" => p = ActiveSeen
  <2>1. CASE UNCHANGED rail
    BY <2>1 DEF TypeOK, Rails, PhaseStatuses
  <2>2. CASE Draw(seen, overlay')
    <3>1. seen \in CaseState /\ overlay' \in Overlays
      BY DEF TypeOK, Marked
    <3>2. /\ rail' \in [PhaseSet -> PhaseStatuses]
          /\ \A p \in PhaseSet :
               rail'[p] = "active" => p = ActiveSeen \/ overlay'[p] = "active"
      BY <2>2, <3>1, DrawnRail DEF ActiveSeen
    <3> QED BY <3>2, <1>2
  <2> QED BY <2>1, <2>2
<1> QED BY <1>1, <1>2, <1>3 DEF Marked, Rails

LEMMA MarkedNow ==
  ASSUME TypeOK, Rails PROVE Marked(overlay)
BY DEF TypeOK, Rails, Marked, Overlays

(* Text makes a card of text. *)
LEMMA TextCardType ==
  ASSUME TypeOK, NEW s \in Seq(1..MaxText)
  PROVE  /\ TextCard(s) \in Seq(Card) /\ TextCard(s) # <<>>
         /\ Last(TextCard(s)).kind = "text"
<1>1. feed \in Seq(Card) /\ Text(s) \in Card /\ Text(s).kind = "text"
  BY DEF TypeOK, Text, Card
<1>2. CASE ~open
  <2>1. TextCard(s) = Append(feed, Text(s))
    BY <1>2 DEF TextCard
  <2> QED BY <1>1, <2>1 DEF Last
<1>3. CASE open
  <2>1. feed # <<>> /\ Last(feed) \in Card
    BY <1>1, <1>3 DEF TypeOK, Last
  <2>2. Last(feed).text \o s \in Seq(1..MaxText)
    BY <2>1 DEF Card
  <2> DEFINE card == Text(Last(feed).text \o s)
  <2>3. card \in Card /\ card.kind = "text"
    BY <2>2 DEF Text, Card
  <2>4. TextCard(s) = Append(Front(feed), card) /\ Front(feed) \in Seq(Card)
    BY <1>1, <1>3, <2>1 DEF TextCard, Front
  <2> HIDE DEF card
  <2> QED BY <2>3, <2>4 DEF Last
<1> QED BY <1>2, <1>3

(* The pending text of a run, and the events that its end or a tool line sends. *)
LEMMA FlushedType ==
  ASSUME TypeOK
  PROVE  /\ Flushed \in Seq(Event)
         /\ \A t \in Targets :
              Flushed \o <<[type |-> "tool_activity", target |-> t]>> \in Seq(Event)
         /\ \A status \in {"finished", "error"} :
              Flushed \o <<[type |-> "run_finished", status |-> status]>> \in Seq(Event)
<1>1. stream.pending \in Seq(1..MaxText)
  BY DEF TypeOK
<1>2. TextEvent \in Event
  BY <1>1 DEF TextEvent, Event
<1>3. Flushed \in Seq(Event)
  BY <1>2 DEF Flushed
<1>4. ASSUME NEW t \in Targets
      PROVE  Flushed \o <<[type |-> "tool_activity", target |-> t]>> \in Seq(Event)
  <2>1. [type |-> "tool_activity", target |-> t] \in Event
    BY DEF Event
  <2> QED BY <1>3, <2>1
<1>5. ASSUME NEW status \in {"finished", "error"}
      PROVE  Flushed \o <<[type |-> "run_finished", status |-> status]>> \in Seq(Event)
  <2>1. [type |-> "run_finished", status |-> status] \in Event
    BY DEF Event
  <2> QED BY <1>3, <2>1
<1> QED BY <1>3, <1>4, <1>5

LEMMA EventCases ==
  ASSUME NEW e \in Event
  PROVE  /\ e.type = "assistant_text" => e.text \in Seq(1..MaxText)
         /\ e.type = "pipeline_step" => e.status \in StepStatuses
BY DEF Event

(* Every event leaves the page in order. *)
LEMMA ReceiveKeeps ==
  ASSUME TypeOK, Rails, Receive
  PROVE  TypeOK' /\ Rails'
<1> DEFINE e == Head(wire)
<1>1. e \in Event /\ Tail(wire) \in Seq(Event)
  <2>1. wire \in Seq(Event) /\ wire # <<>>
    BY DEF TypeOK, Receive
  <2> QED BY <2>1
<1>2. /\ wire' = Tail(wire)
      /\ UNCHANGED <<disk, stream, printed, used, log, over, late, lost, link, current, seen>>
  BY DEF Receive, program
<1> DEFINE Shape ==
      /\ Marked(overlay') /\ (Draw(seen, overlay') \/ UNCHANGED rail)
      /\ lastTool' \in PhaseSet \cup {NoPhase}
      /\ Requests(fetch')
      /\ feed' \in Seq(Card) /\ open' \in BOOLEAN
      /\ open' => feed' # <<>> /\ Last(feed').kind = "text"
<1>3. /\ Marked(overlay) /\ lastTool \in PhaseSet \cup {NoPhase} /\ Requests(fetch)
      /\ feed \in Seq(Card) /\ current \in Cases
  BY MarkedNow DEF TypeOK, Requests
<1>4. Requests(fetch) /\ (AskAgain => Requests(fetch'))
  BY <1>3, AskType DEF AskAgain, Asked
<1>5. ASSUME e.type = "assistant_text" PROVE Shape
  <2>1. ReceiveText(e)
    BY <1>5 DEF Receive
  <2>2. e.text \in Seq(1..MaxText)
    BY <1>1, <1>5, EventCases
  <2>3. feed' \in Seq(Card) /\ feed' # <<>> /\ Last(feed').kind = "text"
    BY <2>1, <2>2, TextCardType DEF ReceiveText
  <2>4. UNCHANGED <<fetch, overlay, lastTool, rail>> /\ open' = TRUE
    BY <2>1 DEF ReceiveText
  <2>5. Marked(overlay')
    BY <1>2, <1>3, <2>4 DEF Marked, ActiveSeen
  <2>6. Requests(fetch')
    BY <1>3, <2>4
  <2> QED BY <1>3, <2>3, <2>4, <2>5, <2>6
<1>6. ASSUME e.type = "tool_activity" PROVE Shape
  <2> DEFINE phase == PhaseFromTarget(e.target, ActiveSeen)
  <2>1. ReceiveTool(e)
    BY <1>6 DEF Receive
  <2>2. phase \in PhaseSet \cup {NoPhase}
    BY TargetPhase
  <2>3. /\ overlay' = WithLive(phase, "active") /\ Draw(seen, overlay')
        /\ lastTool' = IF phase = NoPhase THEN lastTool ELSE phase
        /\ feed' = Append(feed, Tool) /\ open' = FALSE /\ fetch' = fetch
    BY <2>1 DEF ReceiveTool
  <2> HIDE DEF phase
  <2>4. Marked(overlay')
    BY <1>3, <2>2, <2>3, MarkLive
  <2>5. Tool \in Card
    BY DEF Tool, Card
  <2>6. feed' \in Seq(Card)
    BY <1>3, <2>3, <2>5
  <2>7. lastTool' \in PhaseSet \cup {NoPhase}
    BY <1>3, <2>2, <2>3
  <2>8. Requests(fetch')
    BY <1>3, <2>3
  <2> QED BY <2>3, <2>4, <2>6, <2>7, <2>8
<1>7. ASSUME e.type = "pipeline_step" PROVE Shape
  <2> DEFINE phase == StepPhase(e.step)
  <2>1. ReceiveStep(e)
    BY <1>7 DEF Receive
  <2>2. phase \in PhaseSet \cup {NoPhase}
    BY StepPhaseType
  <2>3. e.status \in StepStatuses
    BY <1>1, <1>7, EventCases
  <2>4. /\ overlay' = CASE e.status = "running" -> WithLive(phase, "active")
                        [] e.status = "fail" -> WithLive(phase, "fail")
                        [] OTHER -> overlay
        /\ Draw(seen, overlay')
        /\ lastTool' = IF phase = NoPhase THEN lastTool ELSE phase
        /\ open' = FALSE /\ fetch' = fetch /\ feed' = feed
    BY <2>1 DEF ReceiveStep
  <2> HIDE DEF phase
  <2>5. overlay' \in {WithLive(phase, "active"), WithLive(phase, "fail"), overlay}
    BY <2>3, <2>4 DEF StepStatuses
  <2>6. Marked(overlay')
    <3>1. CASE overlay' = overlay
      BY <1>2, <1>3, <3>1 DEF Marked, ActiveSeen
    <3>2. CASE overlay' \in {WithLive(phase, "active"), WithLive(phase, "fail")}
      BY <1>3, <2>2, <3>2, MarkLive
    <3> QED BY <2>5, <3>1, <3>2
  <2>7. lastTool' \in PhaseSet \cup {NoPhase}
    BY <1>3, <2>2, <2>4
  <2>8. Requests(fetch')
    BY <1>3, <2>4
  <2> QED BY <1>3, <2>4, <2>6, <2>7, <2>8
<1>8. ASSUME e.type = "run_finished" PROVE Shape
  <2>1. ReceiveFinished(e)
    BY <1>8 DEF Receive
  <2>2. Requests(fetch') /\ feed' = feed /\ open' = FALSE
    BY <1>4, <2>1 DEF ReceiveFinished
  <2>3. CASE e.status = "error" /\ lastTool # NoPhase
    <3>1. overlay' = WithLive(lastTool, "fail") /\ Draw(seen, overlay') /\ lastTool' = lastTool
      BY <2>1, <2>3 DEF ReceiveFinished
    <3>2. Marked(overlay')
      BY <1>3, <3>1, MarkLive
    <3> QED BY <1>3, <2>2, <3>1, <3>2
  <2>4. CASE ~(e.status = "error" /\ lastTool # NoPhase)
    <3>1. overlay' = NoOverlay /\ lastTool' = NoPhase /\ rail' = rail
      BY <2>1, <2>4 DEF ReceiveFinished
    <3>2. Marked(overlay')
      BY <3>1, NoMarks
    <3> QED BY <1>3, <2>2, <3>1, <3>2
  <2> QED BY <2>3, <2>4
<1>9. ASSUME e.type \notin {"assistant_text", "tool_activity", "pipeline_step", "run_finished"}
      PROVE  Shape
  <2>1. ReceiveOther(e)
    BY <1>9 DEF Receive
  <2>2. /\ UNCHANGED <<overlay, lastTool, rail, feed>> /\ open' = FALSE
        /\ AskAgain \/ UNCHANGED fetch
    BY <2>1 DEF ReceiveOther
  <2>3. Requests(fetch')
    BY <1>4, <2>2
  <2> QED BY <1>3, <2>2, <2>3
<1>10. Shape
  BY <1>5, <1>6, <1>7, <1>8, <1>9, Zenon
<1>11. /\ overlay' \in Overlays /\ rail' \in [PhaseSet -> PhaseStatuses] /\ Rails'
  BY <1>2, <1>10, DrawKeeps
<1> HIDE DEF e
<1>12. TypeOK'
  BY <1>1, <1>2, <1>10, <1>11 DEF TypeOK, Requests, Overlays, PhaseStatuses
<1> QED BY <1>11, <1>12

Counts == [text : 0..MaxText, tools : Nat, runs : Nat, steps : Nat, switches : Nat,
           silent : Nat]

LEMMA CountType ==
  ASSUME NEW u \in Counts
  PROVE  /\ [u EXCEPT !.tools = @ + 1] \in Counts /\ [u EXCEPT !.runs = @ + 1] \in Counts
         /\ [u EXCEPT !.steps = @ + 1] \in Counts /\ [u EXCEPT !.switches = @ + 1] \in Counts
         /\ [u EXCEPT !.silent = @ + 1] \in Counts
         /\ MaxText \in Nat /\ u.text < MaxText =>
              /\ u.text + 1 \in 1..MaxText
              /\ [u EXCEPT !.text = @ + 1] \in Counts
              /\ [u EXCEPT !.text = @ + 1].text = u.text + 1
<1>1. /\ u.text \in 0..MaxText /\ u.tools \in Nat /\ u.runs \in Nat /\ u.steps \in Nat
      /\ u.switches \in Nat /\ u.silent \in Nat
  BY DEF Counts
<1>2. MaxText \in Nat /\ u.text < MaxText => u.text + 1 \in 1..MaxText /\ u.text + 1 \in 0..MaxText
  BY <1>1
<1>3. /\ [u EXCEPT !.tools = @ + 1] \in Counts /\ [u EXCEPT !.runs = @ + 1] \in Counts
      /\ [u EXCEPT !.steps = @ + 1] \in Counts /\ [u EXCEPT !.switches = @ + 1] \in Counts
      /\ [u EXCEPT !.silent = @ + 1] \in Counts
  BY DEF Counts
<1>4. ASSUME u.text + 1 \in 0..MaxText
      PROVE  /\ [u EXCEPT !.text = @ + 1] \in Counts
             /\ [u EXCEPT !.text = @ + 1].text = u.text + 1
  BY <1>4 DEF Counts
<1> QED BY <1>2, <1>3, <1>4

(* What changes neither the page nor the requests, only files, the run or     *)
(* what is on its way.                                                       *)
LEMMA ProgramKeeps ==
  ASSUME TypeOK, Rails, UNCHANGED <<fetch, page>>,
         disk' \in [Cases -> Disk],
         stream' \in [on : BOOLEAN, pending : Seq(1..MaxText)],
         used' \in Counts,
         printed' \in Seq(Card),
         WayType'
  PROVE  TypeOK' /\ Rails'
<1>1. UNCHANGED <<fetch, current, seen, overlay, lastTool, rail, feed, open>>
  BY DEF page
<1>2. TypeOK'
  BY <1>1 DEF TypeOK, Counts, WayType
<1>3. Rails'
  BY <1>1 DEF Rails, ActiveSeen
<1> QED BY <1>2, <1>3

LEMMA WayTyped == TypeOK => WayType
BY DEF TypeOK, WayType

LEMMA WayStays == ASSUME WayType, UNCHANGED way PROVE WayType'
BY DEF WayType, way

(* A change of what is asked for. *)
LEMMA RequestKeeps ==
  ASSUME TypeOK, Rails, UNCHANGED <<disk, program, way, page>>,
         used' \in Counts, Requests(fetch')
  PROVE  TypeOK' /\ Rails'
<1>1. UNCHANGED <<disk, stream, printed, log, over, wire, late, lost, link, current, seen,
                  overlay, lastTool, rail, feed, open>>
  BY DEF page, program, way
<1>2. TypeOK'
  BY <1>1 DEF TypeOK, Requests, Counts
<1>3. Rails'
  BY <1>1 DEF Rails, ActiveSeen
<1> QED BY <1>2, <1>3

LEMMA FileKeeps ==
  ASSUME TypeOK, Rails,
         \/ \E w \in Writable : WriteFile(w[1], w[2])
         \/ \E c \in Cases : ApproveModel(c)
  PROVE  TypeOK' /\ Rails'
<1>1. /\ stream \in [on : BOOLEAN, pending : Seq(1..MaxText)] /\ printed \in Seq(Card)
      /\ used \in Counts
      /\ WayType
      /\ disk \in [Cases -> Disk]
  BY WayTyped DEF TypeOK, Counts
<1>2. ASSUME NEW w \in Writable, WriteFile(w[1], w[2])
      PROVE  TypeOK' /\ Rails'
  <2> DEFINE c == w[1]
             f == w[2]
  <2>1. c \in Cases /\ f \in CaseFiles
    BY <1>2, DashboardAssumption
  <2>2. /\ disk' = [disk EXCEPT ![c].files = @ \cup {f},
                                ![c].approval = IF f = "data-model.md" THEN "pending" ELSE @]
        /\ UNCHANGED <<stream, printed, used, way, fetch, page>>
    BY <1>2 DEF WriteFile, program
  <2> HIDE DEF c, f
  <2>3. disk' \in [Cases -> Disk]
    BY <1>1, <2>1, <2>2 DEF Disk, Approvals
  <2> QED BY <1>1, <2>2, <2>3, WayStays, ProgramKeeps
<1>3. ASSUME NEW c \in Cases, ApproveModel(c)
      PROVE  TypeOK' /\ Rails'
  <2>1. /\ disk' = [disk EXCEPT ![c].approval = "approved"]
        /\ UNCHANGED <<stream, printed, used, fetch, page>>
        /\ Emit(<<[type |-> "approval_changed"]>>) \/ UNCHANGED way
    BY <1>3 DEF ApproveModel, program
  <2>2. disk' \in [Cases -> Disk]
    BY <1>1, <2>1 DEF Disk, Approvals
  <2>3. [type |-> "approval_changed"] \in Event
    BY DEF Event
  <2>4. <<[type |-> "approval_changed"]>> \in Seq(Event)
    BY <2>3
  <2>5. WayType'
    BY <1>1, <2>1, <2>4, EmitType, WayStays
  <2> QED BY <1>1, <2>1, <2>2, <2>5, ProgramKeeps
<1> QED BY <1>2, <1>3

LEMMA CardTypes ==
  ASSUME NEW s \in Seq(1..MaxText) PROVE Text(s) \in Card /\ Tool \in Card
BY DEF Text, Tool, Card

LEMMA RunKeeps ==
  ASSUME TypeOK, Rails,
         \/ \E r \in StepReports : ReportStep(r[1], r[2])
         \/ StartRun \/ TextDelta \/ StreamEnds \/ StreamRaises
         \/ \E t \in Targets : ToolCall(t)
  PROVE  TypeOK' /\ Rails'
<1> DEFINE StreamType == [on : BOOLEAN, pending : Seq(1..MaxText)]
<1>1. /\ stream \in StreamType /\ printed \in Seq(Card) /\ used \in Counts
      /\ WayType
      /\ disk \in [Cases -> Disk] /\ MaxText \in Nat
  BY DashboardAssumption, WayTyped DEF TypeOK, Counts
<1>2. ASSUME NEW r \in StepReports, ReportStep(r[1], r[2])
      PROVE  TypeOK' /\ Rails'
  <2> DEFINE s == r[1]
             status == r[2]
  <2>1. /\ used' = [used EXCEPT !.steps = @ + 1]
        /\ Emit(<<[type |-> "pipeline_step", step |-> s, status |-> status]>>)
        /\ UNCHANGED <<disk, fetch, stream, printed, page>>
    BY <1>2 DEF ReportStep, files, program
  <2>2. used' \in Counts
    BY <1>1, <2>1, CountType
  <2>3. [type |-> "pipeline_step", step |-> s, status |-> status] \in Event
    BY DashboardAssumption DEF Event
  <2>4. <<[type |-> "pipeline_step", step |-> s, status |-> status]>> \in Seq(Event)
    BY <2>3
  <2>5. WayType'
    BY <2>1, <2>4, EmitType
  <2> QED BY <1>1, <2>1, <2>2, <2>5, ProgramKeeps
<1>3. CASE StartRun
  <2>1. /\ used' = [used EXCEPT !.runs = @ + 1]
        /\ stream' = [on |-> TRUE, pending |-> <<>>]
        /\ Emit(<<[type |-> "run_started"]>>)
        /\ UNCHANGED <<disk, fetch, printed, page>>
    BY <1>3 DEF StartRun, files
  <2>2. used' \in Counts
    BY <1>1, <2>1, CountType
  <2>3. stream' \in StreamType
    BY <2>1
  <2>4. [type |-> "run_started"] \in Event
    BY DEF Event
  <2>5. <<[type |-> "run_started"]>> \in Seq(Event)
    BY <2>4
  <2>6. WayType'
    BY <2>1, <2>5, EmitType
  <2> QED BY <1>1, <2>1, <2>2, <2>3, <2>6, ProgramKeeps
<1>4. CASE TextDelta
  <2>1. /\ used' = [used EXCEPT !.text = @ + 1] /\ used.text < MaxText
        /\ stream' = [stream EXCEPT !.pending = Append(@, used'.text)]
        /\ printed' = IF stream.pending = <<>> THEN Append(printed, Text(<<used'.text>>))
                      ELSE Append(Front(printed), Text(stream'.pending))
        /\ UNCHANGED <<disk, fetch, way, page>>
    BY <1>4 DEF TextDelta, files
  <2>2. used' \in Counts /\ used'.text \in 1..MaxText
    BY <1>1, <2>1, CountType
  <2>3. stream' \in StreamType /\ stream'.pending \in Seq(1..MaxText)
    <3> DEFINE pending == Append(stream.pending, used'.text)
    <3>1. pending \in Seq(1..MaxText)
      BY <1>1, <2>2
    <3>2. stream' = [stream EXCEPT !.pending = pending]
      BY <2>1
    <3> HIDE DEF pending
    <3> QED BY <1>1, <3>1, <3>2
  <2>4. printed' \in Seq(Card)
    <3>1. Text(<<used'.text>>) \in Card /\ Text(stream'.pending) \in Card
      <4>1. <<used'.text>> \in Seq(1..MaxText)
        BY <2>2
      <4> QED BY <2>3, <4>1, CardTypes
    <3>2. Front(printed) \in Seq(Card)
      BY <1>1 DEF Front
    <3> QED BY <1>1, <2>1, <3>1, <3>2
  <2> QED BY <1>1, <2>1, <2>2, <2>3, <2>4, WayStays, ProgramKeeps
<1>5. CASE StreamEnds
  <2>1. /\ stream' = [on |-> FALSE, pending |-> <<>>]
        /\ UNCHANGED <<disk, fetch, printed, used, page>>
    BY <1>5 DEF StreamEnds, Over, files
  <2>2. stream' \in StreamType
    BY <2>1
  <2>3. \E events \in Seq(Event) : Emit(events)
    BY <1>5, FlushedType DEF StreamEnds
  <2>4. WayType'
    BY <2>3, EmitType
  <2> QED BY <1>1, <2>1, <2>2, <2>4, ProgramKeeps
<1>6. CASE StreamRaises
  <2>1. /\ stream' = [on |-> FALSE, pending |-> <<>>]
        /\ printed' = IF stream.pending = <<>> THEN printed ELSE Front(printed)
        /\ UNCHANGED <<disk, fetch, used, way, page>>
    BY <1>6 DEF StreamRaises, Over, files
  <2>2. stream' \in StreamType
    BY <2>1
  <2>3. printed' \in Seq(Card)
    BY <1>1, <2>1 DEF Front
  <2> QED BY <1>1, <2>1, <2>2, <2>3, WayStays, ProgramKeeps
<1>7. ASSUME NEW t \in Targets, ToolCall(t)
      PROVE  TypeOK' /\ Rails'
  <2>1. /\ used' = [used EXCEPT !.tools = @ + 1]
        /\ stream' = [stream EXCEPT !.pending = <<>>]
        /\ printed' = Append(printed, Tool)
        /\ Emit(Flushed \o <<[type |-> "tool_activity", target |-> t]>>)
        /\ UNCHANGED <<disk, fetch, page>>
    BY <1>7 DEF ToolCall, files
  <2>2. used' \in Counts
    BY <1>1, <2>1, CountType
  <2>3. stream' \in StreamType
    <3>1. stream' = [stream EXCEPT !.pending = <<>>] /\ <<>> \in Seq(1..MaxText)
      BY <2>1
    <3> QED BY <1>1, <3>1
  <2>4. Tool \in Card
    BY DEF Tool, Card
  <2>5. printed' \in Seq(Card)
    BY <1>1, <2>1, <2>4
  <2>6. WayType'
    BY <2>1, FlushedType, EmitType
  <2> QED BY <1>1, <2>1, <2>2, <2>3, <2>5, <2>6, ProgramKeeps
<1> QED BY <1>2, <1>3, <1>4, <1>5, <1>6, <1>7

LEMMA AnswerKeeps ==
  ASSUME TypeOK, Rails, NEW r \in fetch, Answer(r)
  PROVE  TypeOK' /\ Rails'
<1>1. /\ seen' = r.answer /\ overlay' = NoOverlay /\ Draw(r.answer, overlay')
      /\ lastTool' = NoPhase /\ fetch' = fetch \ {r}
      /\ UNCHANGED <<disk, stream, printed, used, log, over, wire, late, lost, link, current,
                      feed, open>>
  BY DEF Answer, OverlayAfterAnswer, program, way
<1>2. r.answer \in CaseState
  BY DEF TypeOK, Request
<1>3. Requests(fetch) => Requests(fetch')
  BY <1>1, RemoveType
<1>4. overlay' \in Overlays /\ \A p \in PhaseSet : overlay'[p] # "active"
  BY <1>1 DEF NoOverlay, Overlays
<1>5. /\ rail' \in [PhaseSet -> PhaseStatuses]
      /\ \A p \in PhaseSet : rail'[p] = "active" =>
           p = (IF r.answer.known THEN ActivePhase(r.answer.done) ELSE NoPhase)
  BY <1>1, <1>2, <1>4, DrawnRail
<1>6. Rails'
  BY <1>1, <1>4, <1>5 DEF Rails, ActiveSeen
<1>7. TypeOK'
  BY <1>1, <1>2, <1>3, <1>4, <1>5 DEF TypeOK, Requests, Overlays, PhaseStatuses
<1> QED BY <1>6, <1>7

LEMMA AskingKeeps ==
  ASSUME TypeOK, Rails,
         Poll \/ (\E r \in fetch : ReadNext(r) \/ NoAnswer(r)) \/ (\E c \in Cases : SetCase(c))
  PROVE  TypeOK' /\ Rails'
<1>1. Requests(fetch) /\ used \in Counts /\ current \in Cases
  BY DEF TypeOK, Requests, Counts
<1>2. CASE Poll
  <2>1. Ask(current) /\ UNCHANGED <<disk, program, used, way, page>>
    BY <1>2 DEF Poll, Asked
  <2>2. Requests(fetch')
    BY <1>1, <2>1, AskType
  <2>3. used' \in Counts
    BY <1>1, <2>1, CountType
  <2> QED BY <2>1, <2>2, <2>3, RequestKeeps
<1>3. ASSUME NEW r \in fetch, ReadNext(r)
      PROVE  TypeOK' /\ Rails'
  <2> DEFINE answer ==
               IF r.at = 0
                 THEN [approval |-> disk[r.case].approval, done |-> {}, known |-> TRUE]
                 ELSE [r.answer EXCEPT !.done = @ \cup {p \in Reading[r.at] :
                        PhaseDone(p, disk[r.case].files, disk[r.case].approval,
                                  r.case \in LegacyCases)}]
             q == [r EXCEPT !.at = @ + 1, !.answer = answer]
  <2>1. r.at < Read /\ fetch' = (fetch \ {r}) \cup {q}
        /\ UNCHANGED <<disk, program, used, way, page>>
    BY <1>3 DEF ReadNext
  <2>2. r \in Request /\ r.at \in 0..Read /\ r.case \in Cases /\ r.answer \in CaseState
    BY <1>1 DEF Requests, Request
  <2>3. disk[r.case].approval \in Approvals
    BY <2>2 DEF TypeOK, Disk
  <2>4. answer \in CaseState
    <3>1. CASE r.at = 0
      BY <3>1, <2>3 DEF CaseState
    <3>2. CASE r.at # 0
      <4> DEFINE more == {p \in Reading[r.at] :
                        PhaseDone(p, disk[r.case].files, disk[r.case].approval,
                                  r.case \in LegacyCases)}
      <4>1. r.at \in 1..Len(Reading)
        <5>1. Len(Reading) \in Nat
          BY DashboardAssumption
        <5> DEFINE k == r.at
                   n == Len(Reading)
        <5>2. k \in 0..n + 1 /\ k # 0 /\ k < n + 1 /\ n \in Nat
          BY <5>1, <3>2, <2>1, <2>2 DEF Read
        <5> HIDE DEF k, n
        <5>3. k \in 1..n
          BY <5>2
        <5> QED BY <5>3 DEF k, n
      <4>2. Reading[r.at] \subseteq PhaseSet
        BY <4>1, DashboardAssumption
      <4>3. more \subseteq PhaseSet
        BY <4>2
      <4>4. answer = [r.answer EXCEPT !.done = @ \cup more]
        BY <3>2
      <4> HIDE DEF more, answer
      <4> QED BY <2>2, <4>3, <4>4 DEF CaseState
    <3> QED BY <3>1, <3>2
  <2> HIDE DEF answer
  <2>5. r.at + 1 \in 0..Read
    BY <2>1, <2>2, ReadingLength
  <2>6. q \in Request
    BY <2>2, <2>4, <2>5 DEF Request
  <2> HIDE DEF q
  <2>7. Requests(fetch')
    BY <1>1, <2>1, <2>6, ServeType
  <2>8. used' \in Counts
    BY <1>1, <2>1
  <2> QED BY <2>1, <2>7, <2>8, RequestKeeps
<1>4. ASSUME NEW r \in fetch, NoAnswer(r)
      PROVE  TypeOK' /\ Rails'
  <2>1. /\ used' = [used EXCEPT !.silent = @ + 1] /\ fetch' = fetch \ {r}
        /\ UNCHANGED <<disk, program, way, page>>
    BY <1>4 DEF NoAnswer
  <2>2. Requests(fetch')
    BY <1>1, <2>1, RemoveType
  <2>3. used' \in Counts
    BY <1>1, <2>1, CountType
  <2> QED BY <2>1, <2>2, <2>3, RequestKeeps
<1>5. ASSUME NEW c \in Cases, SetCase(c)
      PROVE  TypeOK' /\ Rails'
  <2>1. /\ used' = [used EXCEPT !.switches = @ + 1] /\ current' = c
        /\ overlay' = NoOverlay /\ lastTool' = NoPhase
        /\ Ask(c) \/ UNCHANGED fetch
        /\ UNCHANGED <<disk, stream, printed, log, over, wire, late, lost, link, seen, rail,
                        feed, open>>
    BY <1>5 DEF SetCase, program, way
  <2>2. Requests(fetch')
    BY <1>1, <2>1, AskType
  <2>3. used' \in Counts
    BY <1>1, <2>1, CountType
  <2>4. Marked(overlay')
    BY <2>1, NoMarks
  <2>5. /\ overlay' \in Overlays /\ rail' \in [PhaseSet -> PhaseStatuses] /\ Rails'
    BY <2>1, <2>4, DrawKeeps
  <2>6. TypeOK'
    BY <2>1, <2>2, <2>3, <2>5 DEF TypeOK, Requests, Overlays, PhaseStatuses, Counts
  <2> QED BY <2>5, <2>6
<1> QED BY <1>2, <1>3, <1>4, <1>5

LEMMA Starts == Init => TypeOK /\ Rails
<1> SUFFICES ASSUME Init PROVE TypeOK /\ Rails
  OBVIOUS
<1>1. disk \in [Cases -> Disk] /\ current \in Cases
  BY DashboardAssumption DEF Init
<1>2. IsFiniteSet({}) /\ Cardinality({}) = 0
  BY FS_EmptySet
<1>3. 0 \in 0..MaxText /\ 0 <= MaxFetch
  BY DashboardAssumption
<1>4. TypeOK
  <2>1. /\ stream \in [on : BOOLEAN, pending : Seq(1..MaxText)]
        /\ log \in Seq(Event) /\ wire \in Seq(Event) /\ late \in Seq(Event)
        /\ over \in BOOLEAN /\ link \in [from : Nat, clean : BOOLEAN, number : Nat]
        /\ printed \in Seq(Card) /\ feed \in Seq(Card) /\ open = FALSE
    <3>1. <<>> \in Seq(Event) /\ <<>> \in Seq(Card) /\ <<>> \in Seq(1..MaxText)
      OBVIOUS
    <3>2. /\ stream = [on |-> FALSE, pending |-> <<>>] /\ log = <<>> /\ wire = <<>>
          /\ late = <<>> /\ over = FALSE /\ printed = <<>> /\ feed = <<>> /\ open = FALSE
          /\ link = [from |-> 0, clean |-> TRUE, number |-> 0]
      BY DEF Init
    <3>3. stream \in [on : BOOLEAN, pending : Seq(1..MaxText)]
      BY <3>1, <3>2
    <3>4. link \in [from : Nat, clean : BOOLEAN, number : Nat]
      BY <3>2
    <3> QED BY <3>1, <3>2, <3>3, <3>4
  <2>2. used \in Counts
    BY <1>3 DEF Init, Counts
  <2>3. fetch \subseteq Request /\ IsFiniteSet(fetch) /\ Cardinality(fetch) <= MaxFetch
    BY <1>2, <1>3 DEF Init
  <2>4. /\ overlay \in [PhaseSet -> {"none", "active", "fail"}]
        /\ rail \in [PhaseSet -> {"pending", "active", "done", "fail"}]
        /\ lastTool \in PhaseSet \cup {NoPhase} /\ seen \in CaseState /\ lost \in Nat
    BY ReadingLength DEF Init, NoOverlay
  <2> QED BY <1>1, <1>3, <2>1, <2>2, <2>3, <2>4 DEF TypeOK, Counts
<1>5. Rails
  BY DEF Init, Rails, NoOverlay
<1> QED BY <1>4, <1>5

(* The way of the events changes alone: one comes late, or the page connects  *)
(* again.                                                                    *)
LEMMA WayKeeps ==
  ASSUME TypeOK, Rails, Reconnect \/ \E i \in DOMAIN late : LateArrives(i)
  PROVE  TypeOK' /\ Rails'
<1>1. WayType /\ used \in Counts /\ TypeOK
  BY WayTyped DEF TypeOK, Counts
<1>2. WayType'
  <2>1. CASE Reconnect
    <3>1. PICK k \in 0..Len(log) :
            /\ wire' = log \o SubSeq(log, k + 1, Len(log))
            /\ link' = [from |-> Len(feed), clean |-> ~over /\ k = Len(log),
                         number |-> link.number + 1]
      BY <2>1 DEF Reconnect
    <3>2. UNCHANGED <<log, over, late, lost>>
      BY <2>1 DEF Reconnect
    <3>3. SubSeq(log, k + 1, Len(log)) \in Seq(Event)
      <4>1. log \in Seq(Event) /\ k + 1 \in 1..Len(log) + 1
        BY <1>1 DEF WayType
      <4> QED BY <4>1
    <3>4. wire' \in Seq(Event)
      BY <1>1, <3>1, <3>3 DEF WayType
    <3>5. link' \in [from : Nat, clean : BOOLEAN, number : Nat]
      <4>1. Len(feed) \in Nat /\ link.number + 1 \in Nat /\ (~over /\ k = Len(log)) \in BOOLEAN
        BY <1>1 DEF WayType, TypeOK
      <4> QED BY <3>1, <4>1
    <3> QED BY <1>1, <3>2, <3>4, <3>5 DEF WayType
  <2>2. ASSUME NEW i \in DOMAIN late, LateArrives(i)
        PROVE  WayType'
    <3>1. /\ Buffer(<<late[i]>>) /\ wire' = Append(wire, late[i])
          /\ late' = RemoveAt(late, i) /\ UNCHANGED <<lost, link>>
      BY <2>2 DEF LateArrives
    <3>2. late \in Seq(Event) /\ i \in 1..Len(late) /\ late[i] \in Event
      BY <1>1 DEF WayType
    <3>3. <<late[i]>> \in Seq(Event)
      BY <3>2
    <3>4. log' \in Seq(Event) /\ over' \in BOOLEAN
      BY <1>1, <3>1, <3>3, BufferType DEF WayType
    <3>5. late' \in Seq(Event)
      <4>1. SubSeq(late, 1, i - 1) \in Seq(Event)
        BY <3>2
      <4>2. SubSeq(late, i + 1, Len(late)) \in Seq(Event)
        BY <3>2
      <4> QED BY <3>1, <4>1, <4>2 DEF RemoveAt
    <3>6. wire' \in Seq(Event)
      BY <1>1, <3>1, <3>2 DEF WayType
    <3> QED BY <1>1, <3>1, <3>4, <3>5, <3>6 DEF WayType
  <2> QED BY <2>1, <2>2
<1>3. UNCHANGED <<disk, fetch, stream, printed, used, page>>
  BY DEF Reconnect, LateArrives, files, program
<1>4. /\ disk' \in [Cases -> Disk] /\ stream' \in [on : BOOLEAN, pending : Seq(1..MaxText)]
      /\ used' \in Counts /\ printed' \in Seq(Card)
  BY <1>1, <1>3 DEF TypeOK
<1> QED BY <1>2, <1>3, <1>4, ProgramKeeps

LEMMA Steps == TypeOK /\ Rails /\ [Next]_vars => TypeOK' /\ Rails'
<1> SUFFICES ASSUME TypeOK, Rails, [Next]_vars PROVE TypeOK' /\ Rails'
  OBVIOUS
<1>1. CASE UNCHANGED vars
  <2>1. UNCHANGED <<disk, stream, printed, used, log, over, wire, late, lost, link, fetch,
                    current, seen, overlay, lastTool, rail, feed, open>>
    BY <1>1 DEF vars, files, program, way, page
  <2> QED BY <2>1 DEF TypeOK, Rails, ActiveSeen
<1>2. CASE Next
  BY <1>2, FileKeeps, RunKeeps, WayKeeps, ReceiveKeeps, AnswerKeeps, AskingKeeps
     DEF Next, Serve, Deliver
<1> QED BY <1>1, <1>2

(* The state of the dashboard has its types, whatever the programs, the       *)
(* server and the page do and in whatever order.                             *)
THEOREM TypeCorrect == Spec => []TypeOK
<1>1. Spec => [](TypeOK /\ Rails)
  BY Starts, Steps, PTL DEF Spec
<1> QED BY <1>1, PTL

(* Overlays of live events never outlive the state they were made for: a      *)
(* phase that the rail calls active is the first one not done of the last     *)
(* answer.                                                                   *)
THEOREM ActiveIsFirstOpen == Spec => []ActiveIsNext
<1>1. Rails => ActiveIsNext
  BY DEF Rails, ActiveIsNext
<1>2. Spec => [](TypeOK /\ Rails)
  BY Starts, Steps, PTL DEF Spec
<1> QED BY <1>1, <1>2, PTL

-----------------------------------------------------------------------------
(* The feed.                                                                 *)

IsText(e) == e.type = "assistant_text"
IsCard(e) == e.type \in {"assistant_text", "tool_activity"}
CardOf(e) == IF IsText(e) THEN Text(e.text) ELSE Tool

(* Places(w, f, k, n): with the events of w, the cards f become the cards k;   *)
(* n is how many cards there are after each event.                           *)
Places(w, f, k, n) ==
  /\ n \in [0..Len(w) -> 0..Len(k)]
  /\ n[0] = Len(f) /\ n[Len(w)] = Len(k)
  /\ \A i \in 1..Len(w) : n[i] = IF IsCard(w[i]) THEN n[i - 1] + 1 ELSE n[i - 1]
  /\ \A i \in 1..Len(w) : IsCard(w[i]) => k[n[i]] = CardOf(w[i])
  /\ \A i \in 1..Len(f) : k[i] = f[i]
Carried(w, f, k) == \E n : Places(w, f, k, n)

LEMMA CarriedStart == Carried(<<>>, <<>>, <<>>)
<1> DEFINE n == [i \in 0..0 |-> 0]
<1>1. n \in [0..0 -> 0..0] /\ n[0] = 0
  OBVIOUS
<1>2. Len(<<>>) = 0
  OBVIOUS
<1> HIDE DEF n
<1>3. Places(<<>>, <<>>, <<>>, n)
  BY <1>1, <1>2 DEF Places
<1> QED BY <1>3 DEF Carried

(* What is carried begins with what is there, and is that once all is read.   *)
LEMMA CarriedRead ==
  ASSUME NEW w \in Seq(Event), NEW f \in Seq(Card), NEW k \in Seq(Card), Carried(w, f, k)
  PROVE  IsPrefix(f, k) /\ (w = <<>> => f = k)
<1>1. PICK n : Places(w, f, k, n)
  BY DEF Carried
<1>2. Len(w) \in Nat /\ Len(f) \in Nat /\ Len(k) \in Nat
  OBVIOUS
<1>3. Len(f) <= Len(k)
  <2>1. 0 \in 0..Len(w)
    BY <1>2
  <2>2. n[0] \in 0..Len(k) /\ n[0] = Len(f)
    BY <1>1, <2>1 DEF Places
  <2> QED BY <1>2, <2>2
<1>4. \A i \in 1..Len(f) : k[i] = f[i]
  BY <1>1 DEF Places
<1>5. SubSeq(f, 1, Len(f)) = SubSeq(k, 1, Len(f))
  BY <1>2, <1>3, <1>4
<1>6. ASSUME w = <<>> PROVE f = k
  <2>1. Len(f) = Len(k)
    BY <1>1, <1>6 DEF Places
  <2> QED BY <1>4, <2>1
<1> QED BY <1>3, <1>5, <1>6 DEF IsPrefix

(* An event that makes a card is sent. *)
LEMMA CarriedCard ==
  ASSUME NEW w \in Seq(Event), NEW f \in Seq(Card), NEW k \in Seq(Card), Carried(w, f, k),
         NEW e \in Event, IsCard(e)
  PROVE  Carried(Append(w, e), f, Append(k, CardOf(e)))
<1>1. PICK n : Places(w, f, k, n)
  BY DEF Carried
<1> DEFINE a == Len(w)
           b == Len(k)
           v == Append(w, e)
           l == Append(k, CardOf(e))
           m == [i \in 0..a + 1 |-> IF i = a + 1 THEN b + 1 ELSE n[i]]
<1>2. /\ a \in Nat /\ b \in Nat /\ Len(f) \in Nat
      /\ Len(v) = a + 1 /\ Len(l) = b + 1
      /\ \A i \in 1..a : v[i] = w[i]
      /\ v[a + 1] = e
      /\ \A i \in 1..b : l[i] = k[i]
      /\ l[b + 1] = CardOf(e)
  OBVIOUS
<1>3. /\ n \in [0..a -> 0..b] /\ n[0] = Len(f) /\ n[a] = b
      /\ \A i \in 1..a : n[i] = IF IsCard(w[i]) THEN n[i - 1] + 1 ELSE n[i - 1]
      /\ \A i \in 1..a : IsCard(w[i]) => k[n[i]] = CardOf(w[i])
      /\ \A i \in 1..Len(f) : k[i] = f[i]
  BY <1>1 DEF Places
<1> HIDE DEF a, b, v, l
<1>4. /\ m \in [0..a + 1 -> 0..b + 1] /\ m[a + 1] = b + 1
      /\ \A i \in 0..a : m[i] = n[i]
  BY <1>2, <1>3
<1> HIDE DEF m
<1>5. m[0] = Len(f)
  BY <1>2, <1>3, <1>4
<1>6. ASSUME NEW i \in 1..a + 1
      PROVE  /\ m[i] = IF IsCard(v[i]) THEN m[i - 1] + 1 ELSE m[i - 1]
             /\ IsCard(v[i]) => l[m[i]] = CardOf(v[i])
  <2>1. CASE i = a + 1
    <3>1. m[i] = b + 1 /\ m[i - 1] = b /\ v[i] = e
      BY <1>2, <1>3, <1>4, <2>1
    <3> QED BY <1>2, <3>1
  <2>2. CASE i # a + 1
    <3>1. i \in 1..a /\ i - 1 \in 0..a /\ i \in 0..a
      BY <1>2, <2>2
    <3>2. m[i] = n[i] /\ m[i - 1] = n[i - 1] /\ v[i] = w[i]
      BY <1>2, <1>4, <3>1
    <3>3. n[i] \in 0..b /\ n[i - 1] \in 0..b
      BY <1>3, <3>1
    <3>4. m[i] = IF IsCard(v[i]) THEN m[i - 1] + 1 ELSE m[i - 1]
      BY <1>3, <3>1, <3>2
    <3>5. IsCard(v[i]) => n[i] \in 1..b
      BY <1>2, <3>2, <3>3, <3>4
    <3>6. IsCard(v[i]) => l[m[i]] = CardOf(v[i])
      BY <1>2, <1>3, <3>1, <3>2, <3>5
    <3> QED BY <3>4, <3>6
  <2> QED BY <2>1, <2>2
<1>7. ASSUME NEW i \in 1..Len(f) PROVE l[i] = f[i]
  <2>1. Len(f) <= b
    <3>1. n[0] \in 0..b
      BY <1>2, <1>3
    <3> QED BY <1>2, <1>3, <3>1
  <2>2. i \in 1..b
    BY <1>2, <2>1
  <2> QED BY <1>2, <1>3, <2>2
<1>8. Places(v, f, l, m)
  BY <1>2, <1>4, <1>5, <1>6, <1>7 DEF Places
<1> QED BY <1>8 DEF Carried, v, l

(* An event that makes none is sent. *)
LEMMA CarriedOther ==
  ASSUME NEW w \in Seq(Event), NEW f \in Seq(Card), NEW k \in Seq(Card), Carried(w, f, k),
         NEW e \in Event, ~IsCard(e)
  PROVE  Carried(Append(w, e), f, k)
<1>1. PICK n : Places(w, f, k, n)
  BY DEF Carried
<1> DEFINE a == Len(w)
           b == Len(k)
           v == Append(w, e)
           m == [i \in 0..a + 1 |-> IF i = a + 1 THEN b ELSE n[i]]
<1>2. /\ a \in Nat /\ b \in Nat /\ Len(f) \in Nat
      /\ Len(v) = a + 1
      /\ \A i \in 1..a : v[i] = w[i]
      /\ v[a + 1] = e
  OBVIOUS
<1>3. /\ n \in [0..a -> 0..b] /\ n[0] = Len(f) /\ n[a] = b
      /\ \A i \in 1..a : n[i] = IF IsCard(w[i]) THEN n[i - 1] + 1 ELSE n[i - 1]
      /\ \A i \in 1..a : IsCard(w[i]) => k[n[i]] = CardOf(w[i])
      /\ \A i \in 1..Len(f) : k[i] = f[i]
  BY <1>1 DEF Places
<1> HIDE DEF a, v
<1>4. /\ m \in [0..a + 1 -> 0..b] /\ m[a + 1] = b
      /\ \A i \in 0..a : m[i] = n[i]
  BY <1>2, <1>3
<1> HIDE DEF m
<1>5. m[0] = Len(f)
  BY <1>2, <1>3, <1>4
<1>6. ASSUME NEW i \in 1..a + 1
      PROVE  /\ m[i] = IF IsCard(v[i]) THEN m[i - 1] + 1 ELSE m[i - 1]
             /\ IsCard(v[i]) => k[m[i]] = CardOf(v[i])
  <2>1. CASE i = a + 1
    <3>1. m[i] = b /\ m[i - 1] = b /\ v[i] = e
      BY <1>2, <1>3, <1>4, <2>1
    <3> QED BY <1>2, <3>1
  <2>2. CASE i # a + 1
    <3>1. i \in 1..a /\ i - 1 \in 0..a /\ i \in 0..a
      BY <1>2, <2>2
    <3>2. m[i] = n[i] /\ m[i - 1] = n[i - 1] /\ v[i] = w[i]
      BY <1>2, <1>4, <3>1
    <3> QED BY <1>3, <3>1, <3>2
  <2> QED BY <2>1, <2>2
<1>7. Places(v, f, k, m)
  BY <1>2, <1>3, <1>4, <1>5, <1>6 DEF Places
<1> QED BY <1>7 DEF Carried, v

(* The next event is received: what it makes joins the cards that are there.  *)
LEMMA CarriedReceived ==
  ASSUME NEW w \in Seq(Event), NEW f \in Seq(Card), NEW k \in Seq(Card), Carried(w, f, k),
         w # <<>>, NEW g \in Seq(Card),
         g = IF IsCard(Head(w)) THEN Append(f, CardOf(Head(w))) ELSE f
  PROVE  Carried(Tail(w), g, k)
<1>1. PICK n : Places(w, f, k, n)
  BY DEF Carried
<1> DEFINE a == Len(w)
           b == Len(k)
           c == Len(f)
           v == Tail(w)
           m == [i \in 0..a - 1 |-> n[i + 1]]
<1>2. /\ a \in Nat /\ a > 0 /\ b \in Nat /\ c \in Nat
      /\ Len(v) = a - 1
      /\ \A i \in 1..a - 1 : v[i] = w[i + 1]
      /\ Head(w) = w[1]
  OBVIOUS
<1>3. /\ n \in [0..a -> 0..b] /\ n[0] = c /\ n[a] = b
      /\ \A i \in 1..a : n[i] = IF IsCard(w[i]) THEN n[i - 1] + 1 ELSE n[i - 1]
      /\ \A i \in 1..a : IsCard(w[i]) => k[n[i]] = CardOf(w[i])
      /\ \A i \in 1..c : k[i] = f[i]
  BY <1>1 DEF Places
<1>4. /\ Len(g) = IF IsCard(w[1]) THEN c + 1 ELSE c
      /\ \A i \in 1..c : g[i] = f[i]
      /\ IsCard(w[1]) => g[c + 1] = CardOf(w[1])
  <2>1. CASE IsCard(w[1])
    <3>1. g = Append(f, CardOf(w[1]))
      BY <1>2, <2>1
    <3> QED BY <2>1, <3>1
  <2>2. CASE ~IsCard(w[1])
    BY <1>2, <2>2
  <2> QED BY <2>1, <2>2
<1> DEFINE h == Len(g)
<1> HIDE DEF a, b, c, v, h
<1>5. /\ m \in [0..a - 1 -> 0..b] /\ \A i \in 0..a - 1 : m[i] = n[i + 1]
  BY <1>2, <1>3
<1> HIDE DEF m
<1>6. n[1] = (IF IsCard(w[1]) THEN c + 1 ELSE c) /\ n[1] \in 0..b
  <2>1. 1 \in 1..a /\ 1 - 1 = 0 /\ 1 \in 0..a
    BY <1>2
  <2> QED BY <1>3, <2>1
<1>7. m[0] = h /\ m[a - 1] = b
  <2>1. 0 \in 0..a - 1 /\ a - 1 \in 0..a - 1 /\ 0 + 1 = 1 /\ (a - 1) + 1 = a
    BY <1>2
  <2>2. m[0] = n[1] /\ m[a - 1] = n[a]
    BY <1>5, <2>1
  <2> QED BY <1>3, <1>4, <1>6, <2>2 DEF h
<1>8. ASSUME NEW i \in 1..a - 1
      PROVE  /\ m[i] = IF IsCard(v[i]) THEN m[i - 1] + 1 ELSE m[i - 1]
             /\ IsCard(v[i]) => k[m[i]] = CardOf(v[i])
  <2>1. /\ i \in 0..a - 1 /\ i - 1 \in 0..a - 1 /\ (i - 1) + 1 = i
        /\ i + 1 \in 1..a /\ (i + 1) - 1 = i
    BY <1>2
  <2>2. m[i] = n[i + 1] /\ m[i - 1] = n[i] /\ v[i] = w[i + 1]
    BY <1>2, <1>5, <2>1
  <2> QED BY <1>3, <2>1, <2>2
<1>9. ASSUME NEW i \in 1..h PROVE k[i] = g[i]
  <2>1. CASE i \in 1..c
    BY <1>3, <1>4, <2>1
  <2>2. CASE i \notin 1..c
    <3>1. IsCard(w[1]) /\ i = c + 1
      <4>1. h = IF IsCard(w[1]) THEN c + 1 ELSE c
        BY <1>4 DEF h
      <4> QED BY <1>2, <2>2, <4>1
    <3>2. 1 \in 1..a
      BY <1>2
    <3> QED BY <1>3, <1>4, <1>6, <3>1, <3>2
  <2> QED BY <2>1, <2>2
<1>10. Places(v, g, k, m)
  <2>1. Len(v) = a - 1 /\ Len(k) = b /\ Len(g) = h
    BY <1>2 DEF b, h
  <2> QED BY <1>5, <1>7, <1>8, <1>9, <2>1 DEF Places
<1> QED BY <1>10 DEF Carried, v

(* Events of text come apart: each opens a card.                             *)
Apart(w, o, on) ==
  /\ \A i \in 1..Len(w) - 1 : ~(IsText(w[i]) /\ IsText(w[i + 1]))
  /\ o /\ w # <<>> => ~IsText(w[1])
  /\ on => IF w = <<>> THEN ~o ELSE ~IsText(w[Len(w)])

LEMMA ApartSent ==
  ASSUME NEW w \in Seq(Event), NEW o \in BOOLEAN, NEW on \in BOOLEAN, NEW after \in BOOLEAN,
         Apart(w, o, on), NEW e \in Event,
         IsText(e) => on /\ ~after
  PROVE  Apart(Append(w, e), o, after)
<1> DEFINE a == Len(w)
           v == Append(w, e)
<1>1. /\ a \in Nat /\ Len(v) = a + 1 /\ v # <<>>
      /\ \A i \in 1..a : v[i] = w[i]
      /\ v[a + 1] = e
      /\ w = <<>> <=> a = 0
  OBVIOUS
<1>2. /\ \A i \in 1..a - 1 : ~(IsText(w[i]) /\ IsText(w[i + 1]))
      /\ o /\ a # 0 => ~IsText(w[1])
      /\ on => IF a = 0 THEN ~o ELSE ~IsText(w[a])
  BY <1>1 DEF Apart
<1> HIDE DEF a, v
<1>3. ASSUME NEW i \in 1..(a + 1) - 1 PROVE ~(IsText(v[i]) /\ IsText(v[i + 1]))
  <2>1. CASE i = a
    <3>1. v[i + 1] = e /\ v[i] = w[a] /\ a # 0
      BY <1>1, <2>1
    <3> QED BY <1>2, <3>1
  <2>2. CASE i # a
    <3>1. i \in 1..a - 1 /\ v[i] = w[i] /\ v[i + 1] = w[i + 1]
      BY <1>1, <2>2
    <3> QED BY <1>2, <3>1
  <2> QED BY <2>1, <2>2
<1>4. o => ~IsText(v[1])
  <2>1. CASE a = 0
    BY <1>1, <1>2, <2>1
  <2>2. CASE a # 0
    <3>1. v[1] = w[1]
      BY <1>1, <2>2
    <3> QED BY <1>2, <2>2, <3>1
  <2> QED BY <2>1, <2>2
<1>5. after => ~IsText(v[a + 1])
  BY <1>1
<1>6. Apart(v, o, after)
  BY <1>1, <1>3, <1>4, <1>5 DEF Apart
<1> QED BY <1>6 DEF v

LEMMA ApartReceived ==
  ASSUME NEW w \in Seq(Event), NEW o \in BOOLEAN, NEW on \in BOOLEAN, Apart(w, o, on), w # <<>>
  PROVE  Apart(Tail(w), IsText(Head(w)), on)
<1> DEFINE a == Len(w)
           v == Tail(w)
<1>1. /\ a \in Nat /\ a > 0 /\ Len(v) = a - 1 /\ Head(w) = w[1]
      /\ \A i \in 1..a - 1 : v[i] = w[i + 1]
      /\ v = <<>> <=> a = 1
  <2>1. /\ a \in Nat /\ a > 0 /\ Len(v) = a - 1 /\ Head(w) = w[1] /\ v \in Seq(Event)
        /\ \A i \in 1..a - 1 : v[i] = w[i + 1]
    OBVIOUS
  <2> HIDE DEF a, v
  <2>2. v = <<>> <=> Len(v) = 0
    BY <2>1
  <2>3. v = <<>> <=> a = 1
    BY <2>1, <2>2
  <2> QED BY <2>1, <2>3
<1>2. /\ \A i \in 1..a - 1 : ~(IsText(w[i]) /\ IsText(w[i + 1]))
      /\ on => ~IsText(w[a])
  BY DEF Apart
<1> HIDE DEF a, v
<1>3. ASSUME NEW i \in 1..(a - 1) - 1 PROVE ~(IsText(v[i]) /\ IsText(v[i + 1]))
  <2>1. /\ i \in 1..a - 1 /\ i + 1 \in 1..a - 1
    BY <1>1
  <2>2. v[i] = w[i + 1] /\ v[i + 1] = w[(i + 1) + 1]
    BY <1>1, <2>1
  <2> QED BY <1>2, <2>1, <2>2
<1>4. IsText(w[1]) /\ v # <<>> => ~IsText(v[1])
  <2> SUFFICES ASSUME IsText(w[1]), v # <<>> PROVE ~IsText(v[1])
    OBVIOUS
  <2>1. 1 \in 1..a - 1 /\ 1 + 1 = 2
    BY <1>1
  <2>2. v[1] = w[2]
    BY <1>1, <2>1
  <2> QED BY <1>2, <2>1, <2>2
<1>5. on => IF v = <<>> THEN ~IsText(w[1]) ELSE ~IsText(v[a - 1])
  <2>1. CASE v = <<>>
    BY <1>1, <1>2, <2>1
  <2>2. CASE v # <<>>
    <3>1. a - 1 \in 1..a - 1 /\ (a - 1) + 1 = a
      BY <1>1, <2>2
    <3>2. v[a - 1] = w[a]
      BY <1>1, <3>1
    <3> QED BY <1>2, <2>2, <3>2
  <2> QED BY <2>1, <2>2
<1>6. Apart(v, IsText(w[1]), on)
  BY <1>1, <1>3, <1>4, <1>5 DEF Apart
<1> QED BY <1>1, <1>6 DEF v

(* What the terminal has printed but for the text that is not sent yet.       *)
Complete == IF stream.pending = <<>> THEN printed ELSE Front(printed)

(* Text that is not sent yet is the last that was printed.  While nothing is  *)
(* lost, the whole buffer makes an empty feed what is complete, and does so   *)
(* for a page whose last card is open, too: that is what a page needs that    *)
(* connects again.  And the events on their way make what is shown since the  *)
(* last connection that: those of text come apart.                           *)
FeedInv ==
  /\ stream.pending # <<>> =>
       stream.on /\ printed # <<>> /\ Last(printed) = Text(stream.pending)
  /\ lost = 0 => late = <<>>
  /\ lost = 0 /\ ~over => Carried(log, <<>>, Complete) /\ Apart(log, TRUE, stream.on)
  /\ lost = 0 /\ link.clean =>
       /\ link.from <= Len(feed)
       /\ Carried(wire, Shown, Complete) /\ Apart(wire, open, stream.on)

LEMMA CompleteType == TypeOK => Complete \in Seq(Card)
BY DEF TypeOK, Complete, Front

LEMMA ShownType ==
  ASSUME TypeOK, link.from <= Len(feed)
  PROVE  /\ Shown \in Seq(Card) /\ Len(Shown) = Len(feed) - link.from
         /\ \A i \in 1..Len(feed) - link.from : Shown[i] = feed[link.from + i]
<1> DEFINE a == link.from
           n == Len(feed)
<1>1. a \in Nat /\ n \in Nat /\ a <= n /\ feed \in Seq(Card) /\ n = Len(feed)
  BY DEF TypeOK
<1>2. Shown = SubSeq(feed, a + 1, n)
  BY DEF Shown
<1> HIDE DEF a, n
<1>3. /\ SubSeq(feed, a + 1, n) \in Seq(Card) /\ Len(SubSeq(feed, a + 1, n)) = n - a
      /\ \A i \in 1..n - a : SubSeq(feed, a + 1, n)[i] = feed[a + i]
  BY <1>1
<1> QED BY <1>2, <1>3 DEF a, n

(* A card that joins the feed joins what is shown. *)
LEMMA ShownGrows ==
  ASSUME TypeOK, TypeOK', link.from <= Len(feed), UNCHANGED link,
         NEW c \in Card, feed' = Append(feed, c)
  PROVE  Shown' = Append(Shown, c) /\ link'.from <= Len(feed')
<1> DEFINE a == link.from
           n == Len(feed)
           old == Shown
           g == feed'
           new == Shown'
<1>1. /\ a \in Nat /\ n \in Nat /\ a <= n /\ feed \in Seq(Card) /\ Len(g) = n + 1
      /\ \A i \in 1..n : g[i] = feed[i]
      /\ g[n + 1] = c
  <2>1. a \in Nat /\ n \in Nat /\ a <= n /\ feed \in Seq(Card)
    BY DEF TypeOK
  <2>2. /\ Len(Append(feed, c)) = n + 1 /\ \A i \in 1..n : Append(feed, c)[i] = feed[i]
        /\ Append(feed, c)[n + 1] = c
    BY <2>1
  <2> QED BY <2>1, <2>2
<1>2. link'.from = a /\ link'.from <= Len(feed')
  BY <1>1
<1>3. /\ old \in Seq(Card) /\ Len(old) = n - a
      /\ \A i \in 1..n - a : old[i] = feed[a + i]
  BY ShownType
<1>4. /\ new \in Seq(Card) /\ Len(new) = n + 1 - a
      /\ \A i \in 1..n + 1 - a : new[i] = g[a + i]
  <2>1. new = SubSeq(g, a + 1, n + 1)
    BY <1>1 DEF Shown
  <2>2. g \in Seq(Card)
    BY DEF TypeOK
  <2> HIDE DEF a, n, new, g
  <2>3. /\ SubSeq(g, a + 1, n + 1) \in Seq(Card) /\ Len(SubSeq(g, a + 1, n + 1)) = n + 1 - a
        /\ \A i \in 1..n + 1 - a : SubSeq(g, a + 1, n + 1)[i] = g[a + i]
    BY <1>1, <2>2
  <2> QED BY <2>1, <2>3
<1> HIDE DEF a, n, old, new, g
<1>5. /\ Append(old, c) \in Seq(Card) /\ Len(Append(old, c)) = n + 1 - a
      /\ \A i \in 1..n - a : Append(old, c)[i] = old[i]
      /\ Append(old, c)[n + 1 - a] = c
  <2> DEFINE m == Len(old)
  <2>1. /\ Append(old, c) \in Seq(Card) /\ Len(Append(old, c)) = m + 1 /\ m \in Nat
        /\ \A i \in 1..m : Append(old, c)[i] = old[i]
        /\ Append(old, c)[m + 1] = c
    BY <1>3
  <2>2. m = n - a /\ m + 1 = n + 1 - a
    BY <1>1, <1>3
  <2> HIDE DEF m
  <2> QED BY <2>1, <2>2
<1>6. ASSUME NEW i \in 1..n + 1 - a PROVE new[i] = Append(old, c)[i]
  <2>1. CASE i = n + 1 - a
    <3>1. a + i = n + 1
      BY <1>1, <2>1
    <3> QED BY <1>1, <1>4, <1>5, <2>1, <3>1
  <2>2. CASE i # n + 1 - a
    <3>1. i \in 1..n - a /\ a + i \in 1..n
      BY <1>1, <2>2
    <3> QED BY <1>1, <1>3, <1>4, <1>5, <3>1
  <2> QED BY <2>1, <2>2
<1>7. new = Append(old, c)
  BY <1>4, <1>5, <1>6
<1> QED BY <1>2, <1>7 DEF new, old

LEMMA FeedStarts == Init => FeedInv
<1> SUFFICES ASSUME Init PROVE FeedInv
  OBVIOUS
<1>1. /\ stream.pending = <<>> /\ stream.on = FALSE
      /\ log = <<>> /\ wire = <<>> /\ late = <<>> /\ feed = <<>> /\ Complete = <<>>
      /\ open = FALSE /\ link.from = 0
  BY DEF Init, Complete
<1>2. Apart(<<>>, FALSE, FALSE) /\ Apart(<<>>, TRUE, FALSE)
  BY DEF Apart
<1>3. Len(feed) = 0 /\ Shown = <<>>
  <2>1. SubSeq(<<>>, 0 + 1, 0) = <<>>
    OBVIOUS
  <2> QED BY <1>1, <2>1 DEF Shown
<1>4. Carried(<<>>, <<>>, Complete)
  BY <1>1, CarriedStart
<1>5. Carried(log, <<>>, Complete) /\ Apart(log, TRUE, stream.on)
  BY <1>1, <1>2, <1>4, Zenon
<1>7. link.from <= Len(feed)
  BY <1>1, <1>3
<1>6. Carried(wire, Shown, Complete) /\ Apart(wire, open, stream.on)
  BY <1>1, <1>2, <1>3, <1>4, Zenon
<1> QED BY <1>1, <1>5, <1>6, <1>7 DEF FeedInv

(* An event that is not one of text is sent. *)
LEMMA Sending ==
  ASSUME NEW w \in Seq(Event), NEW f \in Seq(Card), NEW k \in Seq(Card), NEW o \in BOOLEAN,
         NEW on \in BOOLEAN, NEW after \in BOOLEAN, NEW e \in Event, ~IsText(e),
         Carried(w, f, k), Apart(w, o, on)
  PROVE  /\ e.type = "tool_activity" => Carried(Append(w, e), f, Append(k, Tool))
         /\ e.type # "tool_activity" => Carried(Append(w, e), f, k)
         /\ Apart(Append(w, e), o, after)
<1>1. IsCard(e) <=> e.type = "tool_activity"
  BY DEF IsCard, IsText
<1>2. CardOf(e) = Tool
  BY DEF CardOf
<1> QED BY <1>1, <1>2, CarriedCard, CarriedOther, ApartSent

(* Sending these events makes the cards k of those that were complete, and    *)
(* "on" says whether another event of text may follow.                       *)
Completes(events, k, on) ==
  \A w \in Seq(Event), f \in Seq(Card), o \in BOOLEAN :
    Carried(w, f, Complete) /\ Apart(w, o, stream.on) =>
      Carried(w \o events, f, k) /\ Apart(w \o events, o, on)

(* A single event that makes no card. *)
LEMMA SendingOne ==
  ASSUME TypeOK, NEW e \in Event, ~IsCard(e), NEW on \in BOOLEAN
  PROVE  <<e>> \in Seq(Event) /\ Completes(<<e>>, Complete, on)
<1>1. stream.on \in BOOLEAN /\ Complete \in Seq(Card)
  BY CompleteType DEF TypeOK
<1>2. e.type # "tool_activity" /\ ~IsText(e)
  BY DEF IsCard, IsText
<1>3. ASSUME NEW w \in Seq(Event), NEW f \in Seq(Card), NEW o \in BOOLEAN,
             Carried(w, f, Complete), Apart(w, o, stream.on)
      PROVE  Carried(w \o <<e>>, f, Complete) /\ Apart(w \o <<e>>, o, on)
  <2>1. w \o <<e>> = Append(w, e)
    OBVIOUS
  <2>2. Carried(Append(w, e), f, Complete) /\ Apart(Append(w, e), o, on)
    BY <1>1, <1>2, <1>3, Sending
  <2> QED BY <2>1, <2>2
<1> QED BY <1>3 DEF Completes

(* What is pending is sent, as one card. *)
LEMMA Flushing ==
  ASSUME TypeOK, FeedInv, stream.on
  PROVE  Flushed \in Seq(Event) /\ Completes(Flushed, printed, FALSE)
<1>1. /\ stream.on \in BOOLEAN /\ Complete \in Seq(Card) /\ printed \in Seq(Card)
      /\ stream.pending \in Seq(1..MaxText)
  BY CompleteType DEF TypeOK
<1>2. ASSUME NEW w \in Seq(Event), NEW f \in Seq(Card), NEW o \in BOOLEAN,
             Carried(w, f, Complete), Apart(w, o, stream.on)
      PROVE  Carried(w \o Flushed, f, printed) /\ Apart(w \o Flushed, o, FALSE)
  <2>3. CASE stream.pending = <<>>
    <3>1. Flushed = <<>> /\ Complete = printed
      BY <2>3 DEF Flushed, Complete
    <3>2. w \o Flushed = w
      BY <3>1
    <3>3. Apart(w, o, FALSE)
      BY <1>2 DEF Apart
    <3> QED BY <1>2, <3>1, <3>2, <3>3
  <2>4. CASE stream.pending # <<>>
    <3>1. Flushed = <<TextEvent>> /\ Complete = Front(printed)
      BY <2>4 DEF Flushed, Complete
    <3>2. /\ TextEvent \in Event /\ IsText(TextEvent) /\ IsCard(TextEvent)
          /\ CardOf(TextEvent) = Text(stream.pending)
      BY <1>1 DEF TextEvent, Event, IsText, IsCard, CardOf
    <3>3. w \o Flushed = Append(w, TextEvent)
      BY <3>1, <3>2
    <3>4. printed # <<>> /\ Last(printed) = Text(stream.pending)
      BY <2>4 DEF FeedInv
    <3>5. printed = Append(Complete, Text(stream.pending))
      BY <1>1, <3>1, <3>4 DEF Front, Last
    <3>6. Carried(Append(w, TextEvent), f, Append(Complete, CardOf(TextEvent)))
      BY <1>1, <1>2, <3>2, CarriedCard
    <3>7. Apart(Append(w, TextEvent), o, FALSE)
      BY <1>1, <1>2, <3>2, ApartSent
    <3> QED BY <3>2, <3>3, <3>5, <3>6, <3>7
  <2> QED BY <2>3, <2>4
<1> QED BY <1>2, FlushedType DEF Completes

(* What is pending is sent, and an event after it. *)
LEMMA FlushingAnd ==
  ASSUME TypeOK, FeedInv, stream.on, NEW e \in Event, ~IsText(e), NEW after \in BOOLEAN
  PROVE  /\ Flushed \o <<e>> \in Seq(Event)
         /\ e.type = "tool_activity" => Completes(Flushed \o <<e>>, Append(printed, Tool), after)
         /\ e.type # "tool_activity" => Completes(Flushed \o <<e>>, printed, after)
<1>1. Flushed \in Seq(Event) /\ printed \in Seq(Card) /\ Completes(Flushed, printed, FALSE)
  BY Flushing DEF TypeOK
<1>2. \A w \in Seq(Event), f \in Seq(Card), o \in BOOLEAN :
        Carried(w, f, Complete) /\ Apart(w, o, stream.on) =>
          Carried(w \o Flushed, f, printed) /\ Apart(w \o Flushed, o, FALSE)
  BY <1>1, Zenon DEF Completes
<1>3. ASSUME NEW w \in Seq(Event), NEW f \in Seq(Card), NEW o \in BOOLEAN,
             Carried(w, f, Complete), Apart(w, o, stream.on)
      PROVE  /\ e.type = "tool_activity" =>
                   Carried(w \o (Flushed \o <<e>>), f, Append(printed, Tool))
             /\ e.type # "tool_activity" => Carried(w \o (Flushed \o <<e>>), f, printed)
             /\ Apart(w \o (Flushed \o <<e>>), o, after)
  <2> DEFINE u == w \o Flushed
  <2>1. u \in Seq(Event) /\ Carried(u, f, printed) /\ Apart(u, o, FALSE)
    <3>1. u \in Seq(Event)
      BY <1>1
    <3>2. Carried(u, f, printed) /\ Apart(u, o, FALSE)
      BY <1>2, <1>3, Zenon
    <3> QED BY <3>1, <3>2
  <2>2. w \o (Flushed \o <<e>>) = Append(u, e)
    BY <1>1
  <2> HIDE DEF u
  <2>3. /\ e.type = "tool_activity" => Carried(Append(u, e), f, Append(printed, Tool))
        /\ e.type # "tool_activity" => Carried(Append(u, e), f, printed)
        /\ Apart(Append(u, e), o, after)
    BY <1>1, <2>1, Sending
  <2> QED BY <2>2, <2>3
<1>4. Flushed \o <<e>> \in Seq(Event)
  BY <1>1
<1> QED BY <1>3, <1>4 DEF Completes

(* The events are emitted: if none is given up, the buffer and the queue of   *)
(* the page go on carrying all.                                              *)
LEMMA Emitted ==
  ASSUME TypeOK, TypeOK', FeedInv, NEW events \in Seq(Event), Emit(events),
         UNCHANGED <<feed, open>>,
         Completes(events, Complete', stream'.on),
         stream'.pending # <<>> =>
           stream'.on /\ printed' # <<>> /\ Last(printed') = Text(stream'.pending)
  PROVE  FeedInv'
<1>1. /\ log \in Seq(Event) /\ wire \in Seq(Event) /\ <<>> \in Seq(Card)
      /\ open \in BOOLEAN /\ TRUE \in BOOLEAN
  BY DEF TypeOK
<1>2. /\ link' = link
      /\ lost' = 0 => lost = 0 /\ wire' = wire \o events /\ late' = late
      /\ lost' = 0 /\ ~over' => ~over /\ log' = log \o events
  BY EmitType
<1> DEFINE k == Complete'
           on == stream'.on
<1>3. \A w \in Seq(Event), f \in Seq(Card), o \in BOOLEAN :
        Carried(w, f, Complete) /\ Apart(w, o, stream.on) =>
          Carried(w \o events, f, k) /\ Apart(w \o events, o, on)
  BY DEF Completes
<1> HIDE DEF k, on
<1>4. ASSUME lost' = 0, ~over'
      PROVE  Carried(log', <<>>, k) /\ Apart(log', TRUE, on)
  <2>1. Carried(log, <<>>, Complete) /\ Apart(log, TRUE, stream.on)
    BY <1>2, <1>4 DEF FeedInv
  <2>2. Carried(log \o events, <<>>, k) /\ Apart(log \o events, TRUE, on)
    BY <1>1, <1>3, <2>1
  <2> QED BY <1>2, <1>4, <2>2
<1>5. ASSUME lost' = 0, link'.clean
      PROVE  /\ link'.from <= Len(feed')
             /\ Carried(wire', Shown', k) /\ Apart(wire', open', on)
  <2>1. /\ link.from <= Len(feed) /\ Carried(wire, Shown, Complete)
        /\ Apart(wire, open, stream.on)
    BY <1>2, <1>5 DEF FeedInv
  <2>2. Shown \in Seq(Card)
    BY <2>1, ShownType
  <2>3. Carried(wire \o events, Shown, k) /\ Apart(wire \o events, open, on)
    BY <1>1, <1>3, <2>1, <2>2
  <2>4. Shown' = Shown
    BY <1>2 DEF Shown
  <2> QED BY <1>2, <1>5, <2>1, <2>3, <2>4
<1>6. lost' = 0 => late' = <<>>
  BY <1>2 DEF FeedInv
<1> QED BY <1>4, <1>5, <1>6 DEF FeedInv, k, on

(* A step that leaves the run, the feed and the wire alone. *)
LEMMA FeedStutters ==
  ASSUME FeedInv, UNCHANGED <<stream, printed, way, feed, open>>
  PROVE  FeedInv'
<1>1. Complete' = Complete /\ Shown' = Shown
  BY DEF Complete, Shown, way
<1> QED BY <1>1 DEF FeedInv, way

LEMMA FeedTextDelta ==
  ASSUME TypeOK, FeedInv, TextDelta
  PROVE  FeedInv'
<1> DEFINE piece == used'.text
           pending == Append(stream.pending, piece)
<1>1. /\ stream' = [stream EXCEPT !.pending = pending]
      /\ printed' = IF stream.pending = <<>> THEN Append(printed, Text(<<piece>>))
                    ELSE Append(Front(printed), Text(stream'.pending))
      /\ stream.on /\ UNCHANGED <<log, over, wire, late, lost, link, feed, open>>
  BY DEF TextDelta, way, page
<1>2. /\ stream \in [on : BOOLEAN, pending : Seq(1..MaxText)] /\ printed \in Seq(Card)
      /\ Front(printed) \in Seq(Card)
  BY DEF TypeOK, Front
<1> HIDE DEF piece
<1>3. /\ pending # <<>> /\ (stream.pending = <<>> => pending = <<piece>>)
  <2> DEFINE old == stream.pending
  <2>1. old \in Seq(1..MaxText)
    BY <1>2
  <2>2. Len(Append(old, piece)) = Len(old) + 1 /\ Len(old) \in Nat
    BY <2>1
  <2>3. old = <<>> => Append(old, piece) = <<piece>>
    OBVIOUS
  <2>4. Append(old, piece) # <<>>
    BY <2>2
  <2> QED BY <2>3, <2>4
<1> HIDE DEF pending
<1>4. stream'.pending = pending /\ stream'.on
  BY <1>1, <1>2
<1> DEFINE before == IF stream.pending = <<>> THEN printed ELSE Front(printed)
           card == Text(pending)
<1>5. before \in Seq(Card) /\ before = Complete
  BY <1>2 DEF Complete
<1>6. printed' = Append(before, card)
  BY <1>1, <1>3, <1>4
<1> HIDE DEF before, card
<1>7. printed' # <<>> /\ Last(printed') = card /\ Front(printed') = before
  <2>1. Len(before) \in Nat /\ Len(printed') = Len(before) + 1
    BY <1>5, <1>6
  <2>2. printed'[Len(before) + 1] = card
    BY <1>5, <1>6
  <2>3. SubSeq(printed', 1, Len(before)) = before
    BY <1>5, <1>6
  <2>4. Len(printed') - 1 = Len(before) /\ printed' # <<>>
    BY <1>5, <1>6, <2>1
  <2> QED BY <2>1, <2>2, <2>3, <2>4 DEF Last, Front
<1>8. Complete' = Complete
  BY <1>3, <1>4, <1>5, <1>7 DEF Complete
<1>9. stream'.on = stream.on /\ Shown' = Shown
  BY <1>1, <1>2 DEF Shown
<1> QED BY <1>1, <1>3, <1>4, <1>7, <1>8, <1>9 DEF FeedInv, card

LEMMA FeedRun ==
  ASSUME TypeOK, TypeOK', FeedInv,
         \/ \E c \in Cases : ApproveModel(c)
         \/ \E r \in StepReports : ReportStep(r[1], r[2])
         \/ StartRun \/ StreamEnds \/ StreamRaises
         \/ \E t \in Targets : ToolCall(t)
  PROVE  FeedInv'
<1>1. /\ stream \in [on : BOOLEAN, pending : Seq(1..MaxText)] /\ stream.on \in BOOLEAN
      /\ printed \in Seq(Card)
  BY DEF TypeOK
<1>2. ASSUME NEW c \in Cases, ApproveModel(c)
      PROVE  FeedInv'
  <2> DEFINE e == [type |-> "approval_changed"]
  <2>1. /\ UNCHANGED <<stream, printed, feed, open>>
        /\ Emit(<<e>>) \/ UNCHANGED way
    BY <1>2 DEF ApproveModel, program, page
  <2>2. e \in Event /\ ~IsCard(e)
    BY DEF Event, IsCard
  <2> HIDE DEF e
  <2>3. CASE Emit(<<e>>)
    <3>1. Complete' = Complete /\ stream'.on = stream.on
      BY <2>1 DEF Complete
    <3>2. <<e>> \in Seq(Event) /\ Completes(<<e>>, Complete, stream.on)
      BY <1>1, <2>2, SendingOne
    <3>3. Completes(<<e>>, Complete', stream'.on)
      BY <3>1, <3>2
    <3> QED BY <2>1, <2>3, <3>2, <3>3, Emitted DEF FeedInv
  <2>4. CASE UNCHANGED way
    BY <2>1, <2>4, FeedStutters
  <2> QED BY <2>1, <2>3, <2>4
<1>3. ASSUME NEW r \in StepReports, ReportStep(r[1], r[2])
      PROVE  FeedInv'
  <2> DEFINE e == [type |-> "pipeline_step", step |-> r[1], status |-> r[2]]
  <2>1. UNCHANGED <<stream, printed, feed, open>> /\ Emit(<<e>>)
    BY <1>3 DEF ReportStep, program, page
  <2>2. e \in Event /\ ~IsCard(e)
    BY DashboardAssumption DEF Event, IsCard
  <2> HIDE DEF e
  <2>3. Complete' = Complete /\ stream'.on = stream.on
    BY <2>1 DEF Complete
  <2>4. <<e>> \in Seq(Event) /\ Completes(<<e>>, Complete, stream.on)
    BY <1>1, <2>2, SendingOne
  <2>5. Completes(<<e>>, Complete', stream'.on)
    BY <2>3, <2>4
  <2> QED BY <2>1, <2>4, <2>5, Emitted DEF FeedInv
<1>4. CASE StartRun
  <2> DEFINE e == [type |-> "run_started"]
  <2>1. /\ ~stream.on /\ stream' = [on |-> TRUE, pending |-> <<>>]
        /\ UNCHANGED <<printed, feed, open>> /\ Emit(<<e>>)
    BY <1>4 DEF StartRun, page
  <2>2. e \in Event /\ ~IsCard(e)
    BY DEF Event, IsCard
  <2> HIDE DEF e
  <2>3. stream.pending = <<>> /\ stream'.pending = <<>> /\ stream'.on = TRUE
    BY <2>1 DEF FeedInv
  <2>4. Complete' = Complete
    BY <2>1, <2>3 DEF Complete
  <2>5. <<e>> \in Seq(Event) /\ Completes(<<e>>, Complete, TRUE)
    BY <2>2, SendingOne
  <2>6. Completes(<<e>>, Complete', stream'.on)
    BY <2>3, <2>4, <2>5
  <2> QED BY <2>1, <2>3, <2>5, <2>6, Emitted
<1>5. CASE StreamEnds
  <2>1. /\ stream.on /\ stream'.on = FALSE /\ stream'.pending = <<>>
        /\ UNCHANGED <<printed, feed, open>>
    BY <1>5 DEF StreamEnds, Over, page
  <2>2. Complete' = printed
    BY <2>1 DEF Complete
  <2>3. PICK events \in Seq(Event) : Emit(events) /\ Completes(events, printed, FALSE)
    <3>1. CASE Emit(Flushed)
      BY <2>1, <3>1, Flushing
    <3>2. ASSUME NEW status \in {"finished", "error"},
                 Emit(Flushed \o <<[type |-> "run_finished", status |-> status]>>)
          PROVE  \E events \in Seq(Event) : Emit(events) /\ Completes(events, printed, FALSE)
      <4> DEFINE e == [type |-> "run_finished", status |-> status]
      <4>1. e \in Event /\ ~IsText(e) /\ e.type # "tool_activity"
        BY DEF Event, IsText
      <4>2. Emit(Flushed \o <<e>>)
        BY <3>2
      <4> HIDE DEF e
      <4>3. Flushed \o <<e>> \in Seq(Event) /\ Completes(Flushed \o <<e>>, printed, FALSE)
        BY <2>1, <4>1, FlushingAnd
      <4> QED BY <4>2, <4>3
    <3> QED BY <1>5, <3>1, <3>2 DEF StreamEnds
  <2>4. Completes(events, Complete', stream'.on)
    BY <2>1, <2>2, <2>3
  <2> QED BY <2>1, <2>3, <2>4, Emitted
<1>6. CASE StreamRaises
  <2>1. /\ stream.on /\ stream'.on = FALSE /\ stream'.pending = <<>>
        /\ printed' = Complete /\ UNCHANGED <<log, over, wire, late, lost, link, feed, open>>
    BY <1>6 DEF StreamRaises, Over, page, way, Complete
  <2>2. Complete' = Complete /\ Shown' = Shown
    <3>1. Complete' = printed'
      BY <2>1 DEF Complete
    <3> QED BY <2>1, <3>1 DEF Shown
  <2>3. /\ lost = 0 /\ ~over => Apart(log, TRUE, FALSE)
        /\ lost = 0 /\ link.clean => Apart(wire, open, FALSE)
    BY DEF FeedInv, Apart
  <2> QED BY <2>1, <2>2, <2>3 DEF FeedInv
<1>7. ASSUME NEW t \in Targets, ToolCall(t)
      PROVE  FeedInv'
  <2> DEFINE e == [type |-> "tool_activity", target |-> t]
  <2>1. /\ stream.on /\ stream' = [stream EXCEPT !.pending = <<>>]
        /\ printed' = Append(printed, Tool)
        /\ Emit(Flushed \o <<e>>)
        /\ UNCHANGED <<feed, open>>
    BY <1>7 DEF ToolCall, page
  <2>2. e \in Event /\ ~IsText(e) /\ e.type = "tool_activity"
    BY DEF Event, IsText
  <2> HIDE DEF e
  <2>3. stream'.on = TRUE /\ stream'.pending = <<>>
    BY <1>1, <2>1
  <2>4. Complete' = Append(printed, Tool)
    BY <2>1, <2>3 DEF Complete
  <2>5. /\ Flushed \o <<e>> \in Seq(Event)
        /\ Completes(Flushed \o <<e>>, Append(printed, Tool), TRUE)
    BY <2>1, <2>2, FlushingAnd
  <2>6. Completes(Flushed \o <<e>>, Complete', stream'.on)
    BY <2>3, <2>4, <2>5
  <2> QED BY <2>1, <2>3, <2>5, <2>6, Emitted
<1> QED BY <1>2, <1>3, <1>4, <1>5, <1>6, <1>7

(* One event comes late: then it was given up. *)
LEMMA FeedLate ==
  ASSUME TypeOK, FeedInv, NEW i \in DOMAIN late, LateArrives(i)
  PROVE  FeedInv'
<1>1. lost # 0
  <2>1. late # <<>>
    BY DEF TypeOK
  <2> QED BY <2>1 DEF FeedInv
<1>2. lost' = lost /\ UNCHANGED <<stream, printed>>
  BY DEF LateArrives, program
<1> QED BY <1>1, <1>2 DEF FeedInv

(* The page connects again: what it is shown starts with the buffer, and that *)
(* carries all, whether or not the last card is open.                        *)
LEMMA FeedReconnect ==
  ASSUME TypeOK, FeedInv, Reconnect
  PROVE  FeedInv'
<1>1. PICK k \in 0..Len(log) :
        /\ wire' = log \o SubSeq(log, k + 1, Len(log))
        /\ link' = [from |-> Len(feed), clean |-> ~over /\ k = Len(log),
                    number |-> link.number + 1]
  BY DEF Reconnect
<1>2. UNCHANGED <<stream, printed, log, over, late, lost, feed, open>>
  BY DEF Reconnect, program, page
<1>3. log \in Seq(Event) /\ feed \in Seq(Card) /\ Len(feed) \in Nat /\ Len(log) \in Nat
  BY DEF TypeOK
<1>4. Complete' = Complete
  BY <1>2 DEF Complete
<1>5. ASSUME lost' = 0, link'.clean
      PROVE  /\ link'.from <= Len(feed')
             /\ Carried(wire', Shown', Complete) /\ Apart(wire', open', stream'.on)
  <2>1. ~over /\ k = Len(log) /\ link'.from = Len(feed)
    BY <1>1, <1>5
  <2>2. wire' = log
    <3>1. SubSeq(log, Len(log) + 1, Len(log)) = <<>>
      BY <1>3
    <3>2. log \o <<>> = log
      BY <1>3
    <3> QED BY <1>1, <2>1, <3>1, <3>2
  <2>3. Shown' = <<>>
    <3>1. SubSeq(feed, Len(feed) + 1, Len(feed)) = <<>>
      BY <1>3
    <3> QED BY <1>2, <2>1, <3>1 DEF Shown
  <2>4. Carried(log, <<>>, Complete) /\ Apart(log, TRUE, stream.on)
    BY <1>2, <1>5, <2>1 DEF FeedInv
  <2>5. Apart(log, open, stream.on)
    BY <2>4 DEF Apart
  <2> QED BY <1>2, <1>3, <2>1, <2>2, <2>3, <2>4, <2>5
<1> QED BY <1>2, <1>4, <1>5 DEF FeedInv

LEMMA FeedReceive ==
  ASSUME TypeOK, FeedInv, TypeOK', Receive
  PROVE  FeedInv'
<1> DEFINE e == Head(wire)
<1>1. /\ wire # <<>> /\ wire' = Tail(wire)
      /\ UNCHANGED <<stream, printed, log, over, late, lost, link>>
  BY DEF Receive, program
<1>2. /\ wire \in Seq(Event) /\ feed \in Seq(Card) /\ feed' \in Seq(Card) /\ open \in BOOLEAN
      /\ stream.on \in BOOLEAN /\ Complete \in Seq(Card) /\ e \in Event
  <2>1. /\ wire \in Seq(Event) /\ feed \in Seq(Card) /\ feed' \in Seq(Card)
        /\ open \in BOOLEAN /\ stream.on \in BOOLEAN /\ Complete \in Seq(Card)
    BY CompleteType DEF TypeOK
  <2>2. e \in Event
    BY <1>1, <2>1
  <2> QED BY <2>1, <2>2
<1>3. Complete' = Complete
  BY <1>1 DEF Complete
<1>4. CASE ~(lost = 0 /\ link.clean)
  BY <1>1, <1>3, <1>4 DEF FeedInv
<1>5. CASE lost = 0 /\ link.clean
  <2>1. /\ link.from <= Len(feed) /\ Carried(wire, Shown, Complete)
        /\ Apart(wire, open, stream.on)
    BY <1>5 DEF FeedInv
  <2>2. /\ open' = IsText(e)
        /\ feed' = IF IsCard(e) THEN Append(feed, CardOf(e)) ELSE feed
    <3>1. CASE IsText(e)
      <4>1. ReceiveText(e)
        BY <3>1 DEF Receive, IsText
      <4>2. ~open
        BY <1>1, <1>2, <2>1, <3>1 DEF Apart
      <4>3. feed' = Append(feed, Text(e.text)) /\ open' = TRUE
        BY <4>1, <4>2 DEF ReceiveText, TextCard
      <4> QED BY <3>1, <4>3 DEF IsText, IsCard, CardOf
    <3>2. CASE e.type = "tool_activity"
      <4>1. ReceiveTool(e)
        BY <3>2 DEF Receive
      <4>2. feed' = Append(feed, Tool) /\ open' = FALSE
        BY <4>1 DEF ReceiveTool
      <4> QED BY <3>2, <4>2 DEF IsText, IsCard, CardOf
    <3>3. CASE ~IsText(e) /\ e.type # "tool_activity"
      <4>1. ReceiveStep(e) \/ ReceiveFinished(e) \/ ReceiveOther(e)
        BY <3>3 DEF Receive, IsText
      <4>2. feed' = feed /\ open' = FALSE
        BY <4>1 DEF ReceiveStep, ReceiveFinished, ReceiveOther
      <4> QED BY <3>3, <4>2 DEF IsText, IsCard
    <3> QED BY <3>1, <3>2, <3>3
  <2>3. /\ link'.from <= Len(feed') /\ Shown' \in Seq(Card) /\ Shown \in Seq(Card)
        /\ Shown' = IF IsCard(e) THEN Append(Shown, CardOf(e)) ELSE Shown
    <3>1. CASE IsCard(e)
      <4>1. CardOf(e) \in Card
        BY <1>2, EventCases DEF CardOf, IsText, Text, Tool, Card
      <4>2. Shown' = Append(Shown, CardOf(e)) /\ link'.from <= Len(feed')
        BY <1>1, <2>1, <2>2, <3>1, <4>1, ShownGrows
      <4>3. Shown \in Seq(Card)
        BY <2>1, ShownType
      <4> QED BY <3>1, <4>1, <4>2, <4>3
    <3>2. CASE ~IsCard(e)
      <4>1. feed' = feed /\ Shown' = Shown
        BY <1>1, <2>2, <3>2 DEF Shown
      <4>2. Shown \in Seq(Card)
        BY <2>1, ShownType
      <4> QED BY <1>1, <2>1, <3>2, <4>1, <4>2
    <3> QED BY <3>1, <3>2
  <2> DEFINE f == Shown
             g == Shown'
  <2>4. Carried(Tail(wire), g, Complete)
    <3>1. /\ f \in Seq(Card) /\ g \in Seq(Card) /\ Carried(wire, f, Complete)
          /\ g = IF IsCard(Head(wire)) THEN Append(f, CardOf(Head(wire))) ELSE f
      BY <2>1, <2>3
    <3> HIDE DEF f, g
    <3> QED BY <1>1, <1>2, <3>1, CarriedReceived
  <2>5. Apart(Tail(wire), IsText(e), stream.on)
    BY <1>1, <1>2, <2>1, ApartReceived
  <2> HIDE DEF f
  <2> QED BY <1>1, <1>3, <2>2, <2>3, <2>4, <2>5 DEF FeedInv
<1> QED BY <1>4, <1>5

LEMMA FeedSteps == TypeOK /\ TypeOK' /\ FeedInv /\ [Next]_vars => FeedInv'
<1> SUFFICES ASSUME TypeOK, TypeOK', FeedInv, [Next]_vars PROVE FeedInv'
  OBVIOUS
<1>1. CASE UNCHANGED vars
  BY <1>1, FeedStutters DEF vars, program, page
<1>2. ASSUME \/ \E w \in Writable : WriteFile(w[1], w[2])
             \/ \E c \in Cases : SetCase(c)
             \/ Poll \/ Serve \/ Deliver \/ \E r \in fetch : NoAnswer(r)
      PROVE  FeedInv'
  <2>1. UNCHANGED <<stream, printed, way, feed, open>>
    BY <1>2 DEF WriteFile, SetCase, Poll, Serve, Deliver, ReadNext, Answer, NoAnswer,
                program, page
  <2> QED BY <2>1, FeedStutters
<1> QED BY <1>1, <1>2, FeedTextDelta, FeedRun, FeedLate, FeedReconnect, FeedReceive DEF Next

(* From each connection on the feed repeats the terminal: what the page shows *)
(* since then is a beginning of what was printed, text between two tool lines *)
(* is one card, and nothing is missing once the run is over and all has       *)
(* arrived, as long as no event was given up and the replay showed the whole  *)
(* buffer and each event once.                                               *)
THEOREM FeedRepeatsTerminal == Spec => []FeedFaithful
<1>1. TypeOK /\ FeedInv => FeedFaithful
  <2> SUFFICES ASSUME TypeOK, FeedInv, lost = 0, link.clean
               PROVE  /\ IsPrefix(Shown, printed)
                      /\ ~stream.on /\ wire = <<>> => Shown = printed
    BY DEF FeedFaithful
  <2> DEFINE shown == Shown
  <2>1. /\ wire \in Seq(Event) /\ shown \in Seq(Card) /\ printed \in Seq(Card)
        /\ Complete \in Seq(Card)
    BY CompleteType, ShownType DEF TypeOK, FeedInv
  <2>2. Carried(wire, shown, Complete)
    BY DEF FeedInv
  <2> HIDE DEF shown
  <2>3. IsPrefix(shown, Complete) /\ (wire = <<>> => shown = Complete)
    BY <2>1, <2>2, CarriedRead
  <2>4. CASE stream.pending = <<>>
    BY <2>3, <2>4 DEF Complete, shown
  <2>5. CASE stream.pending # <<>>
    <3>1. stream.on /\ printed # <<>> /\ Complete = Front(printed)
      BY <2>5 DEF FeedInv, Complete
    <3>2. /\ Len(Complete) = Len(printed) - 1 /\ Len(printed) \in Nat
          /\ \A i \in 1..Len(Complete) : Complete[i] = printed[i]
      <4> DEFINE n == Len(printed)
      <4>1. n \in Nat /\ n # 0
        BY <2>1, <3>1
      <4>2. Front(printed) = SubSeq(printed, 1, n - 1)
        BY DEF Front
      <4>3. /\ Len(SubSeq(printed, 1, n - 1)) = n - 1
            /\ \A i \in 1..n - 1 : SubSeq(printed, 1, n - 1)[i] = printed[i]
        <5> DEFINE m == n - 1
        <5>1. m \in Nat /\ m <= Len(printed) /\ Len(printed) \in Nat
          BY <4>1
        <5> HIDE DEF m
        <5>2. m \in 0..Len(printed)
          BY <5>1
        <5>3. Len(SubSeq(printed, 1, m)) = m
          BY <2>1, <5>1, <5>2
        <5>4. \A i \in 1..m : SubSeq(printed, 1, m)[i] = printed[i]
          BY <2>1, <5>1, <5>2
        <5> QED BY <5>3, <5>4 DEF m
      <4> HIDE DEF n
      <4>4. Len(Complete) = n - 1 /\ \A i \in 1..n - 1 : Complete[i] = printed[i]
        BY <3>1, <4>2, <4>3
      <4> QED BY <4>1, <4>4 DEF n
    <3>3. /\ Len(shown) <= Len(Complete) /\ Len(shown) \in Nat
          /\ \A i \in 1..Len(shown) : shown[i] = Complete[i]
      <4>1. /\ Len(shown) <= Len(Complete) /\ Len(shown) \in Nat
            /\ SubSeq(shown, 1, Len(shown)) = SubSeq(Complete, 1, Len(shown))
        BY <2>1, <2>3 DEF IsPrefix
      <4>2. /\ \A i \in 1..Len(shown) : SubSeq(shown, 1, Len(shown))[i] = shown[i]
            /\ \A i \in 1..Len(shown) : SubSeq(Complete, 1, Len(shown))[i] = Complete[i]
        BY <2>1, <4>1
      <4> QED BY <4>1, <4>2
    <3>4. Len(shown) <= Len(printed) /\ \A i \in 1..Len(shown) : shown[i] = printed[i]
      BY <3>2, <3>3
    <3>5. SubSeq(shown, 1, Len(shown)) = SubSeq(printed, 1, Len(shown))
      BY <2>1, <3>4
    <3> QED BY <3>1, <3>4, <3>5 DEF IsPrefix, shown
  <2> QED BY <2>4, <2>5 DEF shown
<1>2. Init => TypeOK /\ Rails /\ FeedInv
  BY Starts, FeedStarts
<1>3. TypeOK /\ Rails /\ FeedInv /\ [Next]_vars => TypeOK' /\ Rails' /\ FeedInv'
  BY Steps, FeedSteps
<1>4. Spec => [](TypeOK /\ Rails /\ FeedInv)
  BY <1>2, <1>3, PTL DEF Spec
<1> QED BY <1>1, <1>4, PTL
================================================================================
