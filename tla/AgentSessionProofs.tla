-------------------------- MODULE AgentSessionProofs --------------------------
(***************************************************************************)
(* For any number of clicks, agents, runs and crashes: types; no message     *)
(* before the bootstrap, with any number of terminals; and, with a single    *)
(* terminal, one agent.                                                      *)
(***************************************************************************)
EXTENDS AgentSession, TLAPS

Working == {"resume", "recover", "wait", "save", "write", "prompt", "send", "run"}

(* Whoever works has an agent; who creates one is a terminal; who boots is a  *)
(* terminal on its way through the first save and the two messages.          *)
Placed == \A p \in Procs : /\ pc[p] \in Working => agent[p] # 0
                           /\ pc[p] = "create" => p \in Terminals
Booting ==
  \A p \in Procs : boot[p] > 0 =>
    /\ p \in Terminals
    /\ pc[p] \in {"save", "write", "send", "run"}
    /\ pc[p] \in {"save", "write"} => then[p] = "send"

(* Every agent has been prompted, was cut short or is being prompted. *)
Known(a) == \/ a \in prompted \cup cut
            \/ \E t \in Terminals : boot[t] > 0 /\ agent[t] = a
AllKnown == \A a \in 1..created : Known(a)

SessionInv == TypeOK /\ Placed /\ Booting /\ AllKnown

LEMMA Bounds == MaxAgents \in Nat /\ MaxRuns \in Nat /\ MaxCrash \in Nat
BY SessionAssumption

LEMMA InitSession == Init => SessionInv
<1> SUFFICES ASSUME Init PROVE SessionInv  OBVIOUS
<1>1. TypeOK
  BY Bounds DEF Init, TypeOK, PC
<1>2. Placed /\ Booting /\ AllKnown
  BY DEF Init, Placed, Booting, AllKnown, Working
<1> QED  BY <1>1, <1>2 DEF SessionInv

(* A step that leaves the agents, their histories and every bootstrap alone. *)
LEMMA KnownKept ==
  ASSUME SessionInv, created' = created, prompted \subseteq prompted', cut \subseteq cut',
         \A t \in Terminals : boot[t] > 0 =>
            \/ boot'[t] > 0 /\ agent'[t] = agent[t]
            \/ agent[t] \in prompted' \cup cut'
  PROVE  AllKnown'
BY DEF SessionInv, AllKnown, Known

LEMMA LaunchStep ==
  ASSUME SessionInv, NEW t \in Terminals, Launch(t)
  PROVE  SessionInv'
<1>0. t \in Procs /\ pc[t] = "idle"  BY DEF Procs, Launch, Goto
<1>1. TypeOK'
  <2>0. created \in Nat /\ agent \in [Procs -> 0..created] /\ pc \in [Procs -> PC]
    BY Bounds DEF SessionInv, TypeOK
  <2>4. file \in Agents => file \in 1..created
    BY Bounds DEF SessionInv, TypeOK, Agents, Missing, Torn
  <2>5. agent' \in [Procs -> 0..created]
    BY <1>0, <2>0, <2>4 DEF Launch
  <2>6. pc' \in [Procs -> PC]
    BY <1>0, <2>0 DEF Launch, Goto, PC
  <2>1. pc' \in [Procs -> PC] /\ agent' \in [Procs -> 0..created']
    BY <2>5, <2>6 DEF Launch, cursor
  <2>2. \A p \in Procs : pc'[p] \in {"run", "wait"} => run'[p] # 0
    BY <1>0 DEF SessionInv, TypeOK, Launch, Goto
  <2>3. UNCHANGED <<file, cursor, boot, then, run, recover, history, crashes>>
    BY DEF Launch
  <2> QED  BY <2>1, <2>2, <2>3 DEF SessionInv, TypeOK, cursor, recover, history
<1>2. Placed'
  BY <1>0, Bounds DEF SessionInv, TypeOK, Placed, Working, Launch, Goto, Agents, Missing, Torn
<1>3. Booting'
  BY <1>0 DEF SessionInv, TypeOK, Booting, Launch, Goto
<1>4. AllKnown'
  BY <1>0, KnownKept DEF SessionInv, TypeOK, Booting, Launch, Goto, cursor, history, Procs
<1> QED  BY <1>1, <1>2, <1>3, <1>4 DEF SessionInv
LEMMA ContinueStep ==
  ASSUME SessionInv, NEW c \in Clicks, Continue(c)
  PROVE  SessionInv'
<1>0. c \in Procs /\ pc[c] = "idle" /\ c \notin Terminals
  BY SessionAssumption DEF Procs, Continue, Goto
<1>1. TypeOK'
  <2>0. created \in Nat /\ agent \in [Procs -> 0..created] /\ pc \in [Procs -> PC]
    BY Bounds DEF SessionInv, TypeOK
  <2>4. file \in Agents => file \in 1..created
    BY Bounds DEF SessionInv, TypeOK, Agents, Missing, Torn
  <2>5. agent' \in [Procs -> 0..created]
    BY <1>0, <2>0, <2>4 DEF Continue
  <2>6. pc' \in [Procs -> PC]
    BY <1>0, <2>0 DEF Continue, Goto, PC
  <2>2. \A p \in Procs : pc'[p] \in {"run", "wait"} => run'[p] # 0
    BY <1>0 DEF SessionInv, TypeOK, Continue, Goto
  <2>3. UNCHANGED <<file, cursor, boot, then, run, recover, history, crashes>>
    BY DEF Continue
  <2> QED  BY <2>5, <2>6, <2>2, <2>3 DEF SessionInv, TypeOK, cursor, recover, history
<1>2. Placed'
  BY <1>0, Bounds DEF SessionInv, TypeOK, Placed, Working, Continue, Goto, Agents, Missing, Torn
<1>3. Booting'
  BY <1>0 DEF SessionInv, TypeOK, Booting, Continue, Goto
<1>4. AllKnown'
  BY <1>0, KnownKept DEF SessionInv, TypeOK, Booting, Continue, Goto, cursor, history, Procs
<1> QED  BY <1>1, <1>2, <1>3, <1>4 DEF SessionInv

(* A process that is not booting moves; its agent stays. *)
LEMMA MoveKept ==
  ASSUME SessionInv, NEW p \in Procs, NEW to \in PC, boot[p] = 0,
         pc' = [pc EXCEPT ![p] = to], to # "create", to \in Working => pc[p] \in Working,
         UNCHANGED <<created, agent, boot, then, prompted, cut>>
  PROVE  Placed' /\ Booting' /\ AllKnown'
<1>1. Placed'
  BY DEF SessionInv, TypeOK, Placed
<1>2. Booting'
  BY DEF SessionInv, TypeOK, Booting
<1>3. AllKnown'
  BY KnownKept
<1> QED  BY <1>1, <1>2, <1>3

LEMMA NotBooting ==
  ASSUME SessionInv, NEW p \in Procs, pc[p] \notin {"save", "write", "send", "run"}
  PROVE  boot[p] = 0
<1>1. boot[p] \in 0..2 /\ ~(boot[p] > 0)
  BY DEF SessionInv, TypeOK, Booting
<1> QED  BY <1>1

LEMMA RefusedStep ==
  ASSUME SessionInv, NEW p \in Procs, Refused(p)
  PROVE  SessionInv'
<1>1. End(p) \in PC \ Working /\ End(p) # "create"  BY DEF End, PC, Working
<1>2. TypeOK'
  <2>1. pc' = [pc EXCEPT ![p] = End(p)]  BY DEF Refused
  <2>2. pc' \in [Procs -> PC]  BY <1>1, <2>1 DEF SessionInv, TypeOK
  <2>3. \A q \in Procs : pc'[q] \in {"run", "wait"} => run[q] # 0
    BY <1>1, <2>1 DEF SessionInv, TypeOK, End
  <2>4. UNCHANGED <<file, cursor, agent, boot, then, run, recover, history, crashes>>
    BY DEF Refused
  <2> QED  BY <2>2, <2>3, <2>4 DEF SessionInv, TypeOK, cursor, recover, history
<1>3. boot[p] = 0  BY NotBooting DEF Refused
<1>4. Placed' /\ Booting' /\ AllKnown'
  BY <1>1, <1>3, MoveKept DEF Refused, cursor, history
<1> QED  BY <1>2, <1>4 DEF SessionInv

(* An exception leaves resume_agent. *)
LEMMA RecoverRaisesStep ==
  ASSUME SessionInv, NEW p \in Procs, RecoverRaises(p)
  PROVE  SessionInv'
<1>1. End(p) \in PC \ Working /\ End(p) # "create" /\ End(p) \notin {"run", "wait"}
  BY DEF End, PC, Working
<1>2. /\ pc \in [Procs -> PC] /\ sent \in Nat /\ run \in [Procs -> 0..sent]
      /\ todo \in [Procs -> SUBSET (1..sent)]
      /\ pc' = [pc EXCEPT ![p] = End(p)] /\ run' = [run EXCEPT ![p] = 0]
      /\ todo' = [todo EXCEPT ![p] = {}]
      /\ UNCHANGED <<file, created, sent, live, result, agent, boot, then, threads, prompted,
                     cut, orphans, crashes>>
  BY Bounds DEF SessionInv, TypeOK, RecoverRaises, cursor, history
<1>3. TypeOK'
  <2>1. pc' \in [Procs -> PC] /\ todo' \in [Procs -> SUBSET (1..sent)]
    BY <1>1, <1>2
  <2>2. run' \in [Procs -> 0..sent]
    BY <1>2
  <2>3. \A q \in Procs : pc'[q] \in {"run", "wait"} => run'[q] # 0
    <3>1. pc'[p] = End(p) /\ \A q \in Procs \ {p} : pc'[q] = pc[q] /\ run'[q] = run[q]
      BY <1>2
    <3> QED  BY <1>1, <3>1 DEF SessionInv, TypeOK
  <2> QED  BY <1>2, <2>1, <2>2, <2>3 DEF SessionInv, TypeOK
<1>4. boot[p] = 0  BY NotBooting DEF RecoverRaises
<1>5. Placed' /\ Booting' /\ AllKnown'
  BY <1>1, <1>2, <1>4, MoveKept
<1> QED  BY <1>3, <1>5 DEF SessionInv

(* Steps of a process that recovers, or whose user types or leaves.          *)
LEMMA RecoveryStep ==
  ASSUME SessionInv, NEW p \in Procs,
         \/ Resume(p) \/ \E r \in todo[p] : SkipRun(p, r)
         \/ WaitReturns(p) \/ WaitRaises(p) \/ WaitTimesOut(p) \/ Recovered(p)
         \/ TypeMessage(p) \/ Quit(p)
  PROVE  SessionInv'
<1> USE DEF Goto, cursor, recover, history
<1>0. /\ created \in Nat /\ sent \in Nat
      /\ todo \in [Procs -> SUBSET (1..sent)] /\ threads \in [Procs -> SUBSET (1..sent)]
      /\ pc \in [Procs -> PC] /\ run \in [Procs -> 0..sent]
  BY Bounds DEF SessionInv, TypeOK
<1>1. boot[p] = 0
  BY NotBooting DEF Resume, SkipRun, WaitReturns, WaitRaises, WaitTimesOut, Recovered,
                    TypeMessage, Quit
<1>2. UNCHANGED <<file, created, sent, live, result, agent, boot, then, prompted, cut,
                  orphans, crashes>>
  BY DEF Resume, SkipRun, WaitReturns, WaitRaises, WaitTimesOut, Recovered, TypeMessage, Quit
<1>3. PICK to \in PC : /\ pc' = [pc EXCEPT ![p] = to] /\ to # "create"
                       /\ to \in Working => pc[p] \in Working
                       /\ to = "run" => pc[p] = "run"
                       /\ to = "wait" => pc[p] = "wait"
                       /\ to = "wait" => UNCHANGED run
  BY <1>0 DEF Resume, SkipRun, WaitReturns, WaitRaises, WaitTimesOut, Recovered,
              TypeMessage, Quit, PC, Working
<1>4. Placed' /\ Booting' /\ AllKnown'
  BY <1>1, <1>2, <1>3, MoveKept
<1>5. todo' \in [Procs -> SUBSET (1..sent)]
  BY <1>0 DEF Resume, SkipRun, WaitReturns, WaitRaises, WaitTimesOut, Recovered,
              TypeMessage, Quit
<1>6. threads' \in [Procs -> SUBSET (1..sent)] /\ run' \in [Procs -> 0..sent]
  <2>1. CASE WaitTimesOut(p)
    <3>1. run[p] \in 1..sent
      BY <1>0, <2>1 DEF WaitTimesOut, SessionInv, TypeOK
    <3> QED  BY <1>0, <2>1, <3>1 DEF WaitTimesOut
  <2>2. CASE ~WaitTimesOut(p)
    BY <1>0, <2>2 DEF Resume, SkipRun, WaitReturns, WaitRaises, Recovered, TypeMessage, Quit
  <2> QED  BY <2>1, <2>2
<1>7. \A q \in Procs : pc'[q] \in {"run", "wait"} => run'[q] # 0
  <2>1. \A q \in Procs \ {p} : run'[q] = run[q] /\ pc'[q] = pc[q]
    BY <1>0, <1>3 DEF Resume, SkipRun, WaitReturns, WaitRaises, WaitTimesOut, Recovered,
                      TypeMessage, Quit
  <2>2. pc'[p] \in {"run", "wait"} => run'[p] = run[p] /\ pc[p] = pc'[p]
    BY <1>0 DEF Resume, SkipRun, WaitReturns, WaitRaises, WaitTimesOut, Recovered,
                TypeMessage, Quit
  <2> QED  BY <2>1, <2>2 DEF SessionInv, TypeOK
<1>8. TypeOK'
  <2>1. pc' \in [Procs -> PC]  BY <1>0, <1>3
  <2> QED  BY <1>2, <1>5, <1>6, <1>7, <2>1 DEF SessionInv, TypeOK
<1> QED  BY <1>4, <1>8 DEF SessionInv
LEMMA CreateStep ==
  ASSUME SessionInv, NEW t \in Terminals, Create(t)
  PROVE  SessionInv'
<1> USE DEF Goto, cursor, recover, history
<1>0. /\ t \in Procs /\ pc[t] = "create"
      /\ created \in Nat /\ created' = created + 1 /\ created' \in 0..MaxAgents
      /\ agent \in [Procs -> 0..created] /\ live \in [1..MaxRuns -> 0..created]
      /\ pc \in [Procs -> PC] /\ boot \in [Procs -> 0..2]
      /\ then \in [Procs -> {"prompt", "send", "exit", "done"}]
  BY Bounds DEF Create, SaveThen, Procs, SessionInv, TypeOK
<1>1. /\ agent' = [agent EXCEPT ![t] = created + 1]
      /\ boot' = [boot EXCEPT ![t] = 2]
      /\ pc' = [pc EXCEPT ![t] = "save"]
      /\ then' = [then EXCEPT ![t] = "send"]
      /\ UNCHANGED <<file, sent, live, result, run, todo, threads, prompted, cut,
                     orphans, crashes>>
  BY <1>0 DEF Create, SaveThen
<1>2. boot[t] = 0  BY <1>0, NotBooting
<1>3. TypeOK'
  <2>1. agent' \in [Procs -> 0..created'] /\ live' \in [1..MaxRuns -> 0..created']
    BY <1>0, <1>1
  <2>2. /\ pc' \in [Procs -> PC] /\ boot' \in [Procs -> 0..2]
        /\ then' \in [Procs -> {"prompt", "send", "exit", "done"}]
    BY <1>0, <1>1 DEF PC
  <2>3. \A p \in Procs : pc'[p] \in {"run", "wait"} => run'[p] # 0
    BY <1>0, <1>1 DEF SessionInv, TypeOK
  <2>4. /\ file' \in {Missing, Torn} \cup 1..created'
        /\ prompted' \cup cut' \cup orphans' \subseteq 1..created'
    BY <1>0, <1>1 DEF SessionInv, TypeOK
  <2> QED  BY <1>0, <1>1, <2>1, <2>2, <2>3, <2>4 DEF SessionInv, TypeOK
<1>4. Placed'
  BY <1>0, <1>1 DEF SessionInv, Placed
<1>5. Booting'
  BY <1>0, <1>1 DEF SessionInv, Booting
<1>6. AllKnown'
  <2> SUFFICES ASSUME NEW a \in 1..created' PROVE Known(a)'
    BY DEF AllKnown
  <2>1. CASE a = created + 1
    BY <1>0, <1>1, <2>1 DEF Known
  <2>2. CASE a \in 1..created
    <3>1. CASE a \in prompted \cup cut
      BY <1>1, <3>1 DEF Known
    <3>2. ASSUME NEW u \in Terminals, boot[u] > 0, agent[u] = a PROVE Known(a)'
      <4>1. u \in Procs /\ u # t  BY <1>2, <3>2 DEF Procs
      <4> QED  BY <1>0, <1>1, <3>2, <4>1 DEF Known
    <3> QED  BY <2>2, <3>1, <3>2 DEF SessionInv, AllKnown, Known
  <2> QED  BY <1>0, <2>1, <2>2
<1> QED  BY <1>3, <1>4, <1>5, <1>6 DEF SessionInv

LEMMA OpenSessionStep ==
  ASSUME SessionInv, NEW p \in Procs, OpenSession(p)
  PROVE  SessionInv'
<1> USE DEF Goto, cursor, recover, history
<1>1. /\ pc[p] = "save" /\ pc' = [pc EXCEPT ![p] = "write"] /\ file' = Torn
      /\ UNCHANGED <<created, sent, live, result, agent, boot, then, run, todo, threads,
                     prompted, cut, orphans, crashes>>
  BY DEF OpenSession
<1>2. TypeOK'
  <2>1. pc' \in [Procs -> PC]
    BY <1>1 DEF SessionInv, TypeOK, PC
  <2>2. \A q \in Procs : pc'[q] \in {"run", "wait"} => run'[q] # 0
    BY <1>1 DEF SessionInv, TypeOK
  <2> QED  BY <1>1, <2>1, <2>2 DEF SessionInv, TypeOK
<1>3. Placed'
  BY <1>1 DEF SessionInv, TypeOK, Placed, Working
<1>4. Booting'
  BY <1>1 DEF SessionInv, TypeOK, Booting
<1>5. AllKnown'
  BY <1>1, KnownKept
<1> QED  BY <1>2, <1>3, <1>4, <1>5 DEF SessionInv

LEMMA WriteSessionStep ==
  ASSUME SessionInv, NEW p \in Procs, WriteSession(p)
  PROVE  SessionInv'
<1> USE DEF Goto, cursor, recover, history
<1>1. /\ pc[p] = "write" /\ pc' = [pc EXCEPT ![p] = then[p]] /\ file' = agent[p]
      /\ then' = [then EXCEPT ![p] = "exit"]
      /\ agent' = IF then[p] = "done" THEN [agent EXCEPT ![p] = 0] ELSE agent
      /\ UNCHANGED <<created, sent, live, result, boot, run, todo, threads,
                     prompted, cut, orphans, crashes>>
  BY DEF WriteSession
<1>2. /\ agent[p] \in 1..created /\ then[p] \in {"prompt", "send", "exit", "done"}
      /\ created \in Nat /\ agent \in [Procs -> 0..created]
      /\ then \in [Procs -> {"prompt", "send", "exit", "done"}] /\ pc \in [Procs -> PC]
  BY <1>1, Bounds DEF SessionInv, TypeOK, Placed, Working
<1>3. TypeOK'
  <2>1. pc' \in [Procs -> PC]
    BY <1>1, <1>2 DEF PC
  <2>2. \A q \in Procs : pc'[q] \in {"run", "wait"} => run'[q] # 0
    BY <1>1, <1>2 DEF SessionInv, TypeOK
  <2>3. agent' \in [Procs -> 0..created]
    BY <1>1, <1>2
  <2>4. /\ then' \in [Procs -> {"prompt", "send", "exit", "done"}]
        /\ file' \in {Missing, Torn} \cup 1..created
    BY <1>1, <1>2
  <2> QED  BY <1>1, <2>1, <2>2, <2>3, <2>4 DEF SessionInv, TypeOK
<1>4. Placed'
  BY <1>1, <1>2 DEF SessionInv, Placed, Working
<1>5. Booting'
  BY <1>1, <1>2 DEF SessionInv, Booting
<1>6. AllKnown'
  <2>1. \A t \in Terminals : boot[t] > 0 => boot'[t] > 0 /\ agent'[t] = agent[t]
    BY <1>1, <1>2 DEF SessionInv, Booting, Procs
  <2> QED  BY <1>1, <2>1, KnownKept
<1> QED  BY <1>3, <1>4, <1>5, <1>6 DEF SessionInv

(* Runs that end, by themselves or because they are cancelled. *)
LEMMA EndRunTypes ==
  ASSUME SessionInv, NEW r \in 1..sent, NEW status \in Status, EndRun(r, status)
  PROVE  live' \in [1..MaxRuns -> 0..created] /\ result' \in [Procs -> Status \cup {"none"}]
<1>1. r \in 1..MaxRuns /\ created \in Nat
  BY Bounds DEF SessionInv, TypeOK
<1>2. live \in [1..MaxRuns -> 0..created] /\ result \in [Procs -> Status \cup {"none"}]
  BY DEF SessionInv, TypeOK
<1>3. live' \in [1..MaxRuns -> 0..created]
  BY <1>1, <1>2 DEF EndRun
<1>4. result' \in [Procs -> Status \cup {"none"}]
  BY <1>2 DEF EndRun
<1> QED  BY <1>3, <1>4

LEMMA RunEndsStep ==
  ASSUME SessionInv, NEW r \in 1..sent, RunEnds(r)
  PROVE  SessionInv'
<1>1. PICK status \in Status : EndRun(r, status)  BY DEF RunEnds
<1>2. live' \in [1..MaxRuns -> 0..created] /\ result' \in [Procs -> Status \cup {"none"}]
  BY <1>1, EndRunTypes
<1>3. UNCHANGED <<file, created, sent, pc, agent, boot, then, run, recover, history, crashes>>
  BY DEF RunEnds
<1> QED
  BY <1>2, <1>3 DEF SessionInv, TypeOK, Placed, Booting, AllKnown, Known, recover, history

LEMMA CancelRunStep ==
  ASSUME SessionInv, NEW p \in Procs, NEW r \in todo[p], CancelRun(p, r)
  PROVE  SessionInv'
<1> USE DEF Goto, history
<1>0. /\ todo \in [Procs -> SUBSET (1..sent)] /\ run \in [Procs -> 0..sent] /\ sent \in Nat
      /\ r \in 1..sent /\ pc \in [Procs -> PC]
  BY Bounds DEF SessionInv, TypeOK
<1>1. /\ pc[p] = "recover" /\ pc' = [pc EXCEPT ![p] = "wait"]
      /\ todo' = [todo EXCEPT ![p] = @ \ {r}] /\ run' = [run EXCEPT ![p] = r]
      /\ UNCHANGED <<file, created, sent, agent, boot, then, threads, prompted, cut,
                     orphans, crashes>>
  BY DEF CancelRun
<1>2. live' \in [1..MaxRuns -> 0..created] /\ result' \in [Procs -> Status \cup {"none"}]
  BY <1>0, EndRunTypes DEF CancelRun, SessionInv, TypeOK, Status
<1>3. TypeOK'
  <2>1. pc' \in [Procs -> PC] /\ run' \in [Procs -> 0..sent]
        /\ todo' \in [Procs -> SUBSET (1..sent)]
    BY <1>0, <1>1 DEF PC
  <2>2. \A q \in Procs : pc'[q] \in {"run", "wait"} => run'[q] # 0
    BY <1>0, <1>1 DEF SessionInv, TypeOK
  <2> QED  BY <1>1, <1>2, <2>1, <2>2 DEF SessionInv, TypeOK
<1>4. Placed' /\ Booting' /\ AllKnown'
  <2>1. boot[p] = 0  BY <1>1, NotBooting
  <2>2. "wait" \in PC /\ pc[p] \in Working  BY <1>1 DEF PC, Working
  <2> QED  BY <1>1, <2>1, <2>2, MoveKept
<1> QED  BY <1>3, <1>4 DEF SessionInv

LEMMA ExitStep ==
  ASSUME SessionInv, NEW t \in Terminals, Exit(t)
  PROVE  SessionInv'
<1> USE DEF Goto, cursor, history
<1>0. /\ t \in Procs /\ sent \in Nat /\ created \in Nat
      /\ agent \in [Procs -> 0..created] /\ pc \in [Procs -> PC]
      /\ threads \in [Procs -> SUBSET (1..sent)]
  BY Bounds DEF SessionInv, TypeOK, Procs
<1>1. /\ pc[t] = "exit" /\ pc' = [pc EXCEPT ![t] = "idle"]
      /\ agent' = [agent EXCEPT ![t] = 0] /\ threads' = [threads EXCEPT ![t] = {}]
      /\ UNCHANGED <<file, created, sent, live, result, boot, then, run, todo, prompted,
                     cut, orphans, crashes>>
  BY DEF Exit
<1>2. boot[t] = 0  BY <1>0, <1>1, NotBooting
<1>3. TypeOK'
  <2>1. /\ pc' \in [Procs -> PC] /\ agent' \in [Procs -> 0..created]
        /\ threads' \in [Procs -> SUBSET (1..sent)]
    BY <1>0, <1>1 DEF PC
  <2>2. \A q \in Procs : pc'[q] \in {"run", "wait"} => run'[q] # 0
    BY <1>0, <1>1 DEF SessionInv, TypeOK
  <2> QED  BY <1>1, <2>1, <2>2 DEF SessionInv, TypeOK
<1>4. Placed'
  BY <1>0, <1>1 DEF SessionInv, Placed, Working
<1>5. Booting'
  BY <1>0, <1>1, <1>2 DEF SessionInv, Booting
<1>6. AllKnown'
  <2>1. \A u \in Terminals : boot[u] > 0 => boot'[u] > 0 /\ agent'[u] = agent[u]
    BY <1>0, <1>1, <1>2 DEF Procs
  <2> QED  BY <1>1, <2>1, KnownKept
<1> QED  BY <1>3, <1>4, <1>5, <1>6 DEF SessionInv
LEMMA NewRunTypes ==
  ASSUME SessionInv, NEW p \in Procs, NewRun(p)
  PROVE  /\ sent \in Nat /\ sent' = sent + 1 /\ sent' \in 0..MaxRuns
         /\ live' \in [1..MaxRuns -> 0..created]
<1>1. sent \in Nat /\ sent' = sent + 1 /\ sent' \in 0..MaxRuns
  BY Bounds DEF NewRun, SessionInv, TypeOK
<1>2. live \in [1..MaxRuns -> 0..created] /\ agent[p] \in 0..created
  BY DEF SessionInv, TypeOK
<1> QED  BY <1>1, <1>2 DEF NewRun

LEMMA SendStep ==
  ASSUME SessionInv, NEW p \in Procs, Send(p)
  PROVE  SessionInv'
<1> USE DEF Goto, recover, history
<1>1. /\ pc[p] = "send" /\ pc' = [pc EXCEPT ![p] = "run"] /\ run' = [run EXCEPT ![p] = sent']
      /\ UNCHANGED <<file, created, result, agent, boot, then, todo, threads, prompted, cut,
                     orphans, crashes>>
  BY DEF Send
<1>2. /\ sent \in Nat /\ sent' = sent + 1 /\ sent' \in 0..MaxRuns
      /\ live' \in [1..MaxRuns -> 0..created]
  BY NewRunTypes DEF Send
<1>3. TypeOK'
  <2>1. /\ pc' \in [Procs -> PC] /\ run' \in [Procs -> 0..sent']
        /\ {todo', threads'} \subseteq [Procs -> SUBSET (1..sent')]
    BY <1>1, <1>2 DEF SessionInv, TypeOK, PC
  <2>2. \A q \in Procs : pc'[q] \in {"run", "wait"} => run'[q] # 0
    BY <1>1, <1>2 DEF SessionInv, TypeOK
  <2> QED  BY <1>1, <1>2, <2>1, <2>2 DEF SessionInv, TypeOK
<1>4. Placed'
  BY <1>1 DEF SessionInv, TypeOK, Placed, Working
<1>5. Booting'
  BY <1>1 DEF SessionInv, TypeOK, Booting
<1>6. AllKnown'
  BY <1>1, KnownKept
<1> QED  BY <1>3, <1>4, <1>5, <1>6 DEF SessionInv

(* What CursorAgentError leads to, with or without a run left behind. *)
LEMMA FailStep ==
  ASSUME SessionInv, NEW p \in Procs, NEW from \in {"send", "run"}, Fail(p, from),
         NewRun(p) \/ UNCHANGED <<sent, live>>
  PROVE  SessionInv'
<1> USE DEF Goto, recover
<1>0. /\ created \in Nat /\ agent \in [Procs -> 0..created] /\ agent[p] \in 1..created
      /\ pc \in [Procs -> PC] /\ run \in [Procs -> 0..sent] /\ boot \in [Procs -> 0..2]
      /\ then \in [Procs -> {"prompt", "send", "exit", "done"}]
      /\ result \in [Procs -> Status \cup {"none"}]
  BY Bounds DEF SessionInv, TypeOK, Placed, Working, Fail, SaveThen
<1>1. /\ pc[p] = from /\ pc' = [pc EXCEPT ![p] = "save"]
      /\ then' = [then EXCEPT ![p] = IF p \in Terminals /\ boot[p] = 0 THEN "prompt" ELSE End(p)]
      /\ cut' = IF boot[p] > 0 THEN cut \cup {agent[p]} ELSE cut
      /\ boot' = [boot EXCEPT ![p] = 0] /\ run' = [run EXCEPT ![p] = 0]
      /\ result' = [result EXCEPT ![p] = "none"]
      /\ UNCHANGED <<file, created, agent, todo, threads, prompted, orphans, crashes>>
  BY DEF Fail, SaveThen
<1>2. /\ sent \in Nat /\ sent' \in 0..MaxRuns /\ sent <= sent'
      /\ live' \in [1..MaxRuns -> 0..created]
  <2>1. CASE NewRun(p)  BY <2>1, NewRunTypes
  <2>2. CASE UNCHANGED <<sent, live>>  BY <2>2, Bounds DEF SessionInv, TypeOK
  <2> QED  BY <2>1, <2>2
<1>3. TypeOK'
  <2>1. /\ pc' \in [Procs -> PC] /\ boot' \in [Procs -> 0..2]
        /\ then' \in [Procs -> {"prompt", "send", "exit", "done"}]
        /\ result' \in [Procs -> Status \cup {"none"}]
    BY <1>0, <1>1 DEF PC, End
  <2>2. /\ run' \in [Procs -> 0..sent']
        /\ {todo', threads'} \subseteq [Procs -> SUBSET (1..sent')]
    BY <1>0, <1>1, <1>2 DEF SessionInv, TypeOK
  <2>3. \A q \in Procs : pc'[q] \in {"run", "wait"} => run'[q] # 0
    BY <1>0, <1>1 DEF SessionInv, TypeOK
  <2>4. prompted' \cup cut' \cup orphans' \subseteq 1..created'
    BY <1>0, <1>1 DEF SessionInv, TypeOK
  <2> QED  BY <1>1, <1>2, <2>1, <2>2, <2>3, <2>4 DEF SessionInv, TypeOK
<1>4. Placed'
  BY <1>0, <1>1 DEF SessionInv, Placed
<1>5. Booting'
  BY <1>0, <1>1 DEF SessionInv, Booting
<1>6. AllKnown'
  <2>1. cut \subseteq cut'
    BY <1>1
  <2>2. \A t \in Terminals : boot[t] > 0 =>
          \/ boot'[t] > 0 /\ agent'[t] = agent[t]
          \/ agent[t] \in prompted' \cup cut'
    BY <1>0, <1>1 DEF Procs
  <2> QED  BY <1>1, <2>1, <2>2, KnownKept
<1> QED  BY <1>3, <1>4, <1>5, <1>6 DEF SessionInv

LEMMA RunReturnsStep ==
  ASSUME SessionInv, NEW p \in Procs, RunReturns(p)
  PROVE  SessionInv'
<1> USE DEF Goto, recover
<1>0. /\ created \in Nat /\ agent \in [Procs -> 0..created] /\ agent[p] \in 1..created
      /\ pc \in [Procs -> PC] /\ run \in [Procs -> 0..sent] /\ boot \in [Procs -> 0..2]
      /\ then \in [Procs -> {"prompt", "send", "exit", "done"}] /\ sent \in Nat
      /\ result \in [Procs -> Status \cup {"none"}]
  BY Bounds DEF SessionInv, TypeOK, Placed, Working, RunReturns
<1>1. /\ pc[p] = "run"
      /\ boot' = [boot EXCEPT ![p] = IF @ = 0 THEN 0 ELSE @ - 1]
      /\ cut' = IF boot[p] > 0 /\ result[p] = "cancelled" THEN cut \cup {agent[p]} ELSE cut
      /\ prompted' = IF boot[p] = 1 THEN prompted \cup {agent[p]} ELSE prompted
      /\ run' = [run EXCEPT ![p] = 0] /\ result' = [result EXCEPT ![p] = "none"]
      /\ UNCHANGED <<file, created, sent, live, agent, todo, threads, orphans, crashes>>
  BY DEF RunReturns
<1>2. \/ /\ boot[p] = 2
         /\ pc' = [pc EXCEPT ![p] = "send"] /\ then' = then
      \/ /\ boot[p] # 2
         /\ pc' = [pc EXCEPT ![p] = "save"]
         /\ then' = [then EXCEPT ![p] = IF p \in Clicks THEN "done" ELSE "prompt"]
  BY DEF RunReturns, SaveThen
<1>3. TypeOK'
  <2>1. /\ pc' \in [Procs -> PC] /\ boot' \in [Procs -> 0..2]
        /\ then' \in [Procs -> {"prompt", "send", "exit", "done"}]
        /\ result' \in [Procs -> Status \cup {"none"}] /\ run' \in [Procs -> 0..sent]
    BY <1>0, <1>1, <1>2 DEF PC
  <2>2. \A q \in Procs : pc'[q] \in {"run", "wait"} => run'[q] # 0
    BY <1>0, <1>1, <1>2 DEF SessionInv, TypeOK
  <2>3. prompted' \cup cut' \cup orphans' \subseteq 1..created'
    BY <1>0, <1>1 DEF SessionInv, TypeOK
  <2> QED  BY <1>1, <2>1, <2>2, <2>3 DEF SessionInv, TypeOK
<1>4. Placed'
  BY <1>0, <1>1, <1>2 DEF SessionInv, Placed
<1>5. Booting'
  BY <1>0, <1>1, <1>2 DEF SessionInv, Booting
<1>6. AllKnown'
  <2>1. cut \subseteq cut' /\ prompted \subseteq prompted'
    BY <1>1
  <2>2. \A t \in Terminals : boot[t] > 0 =>
          \/ boot'[t] > 0 /\ agent'[t] = agent[t]
          \/ agent[t] \in prompted' \cup cut'
    BY <1>0, <1>1 DEF Procs
  <2> QED  BY <1>1, <2>1, <2>2, KnownKept
<1> QED  BY <1>3, <1>4, <1>5, <1>6 DEF SessionInv

LEMMA CrashStep ==
  ASSUME SessionInv, NEW P \in SUBSET Procs, Crash(P)
  PROVE  SessionInv'
<1>0. /\ created \in Nat /\ sent \in Nat /\ crashes' \in 0..MaxCrash
      /\ agent \in [Procs -> 0..created] /\ pc \in [Procs -> PC]
  BY Bounds DEF SessionInv, TypeOK, Crash
<1>1. /\ pc' \in [Procs -> PC]
      /\ \A p \in Procs \ P : pc'[p] = pc[p]
      /\ \A p \in P : pc'[p] \in {"idle", "done"}
  <2>1. pc' = [p \in Procs |-> IF p \notin P \/ pc[p] = "idle" THEN pc[p]
                               ELSE IF p \in Clicks THEN "done" ELSE "idle"]
    BY DEF Crash
  <2>2. {"idle", "done"} \subseteq PC  BY DEF PC
  <2> QED  BY <1>0, <2>1, <2>2
<1>2. /\ boot' = [p \in Procs |-> IF p \in P THEN 0 ELSE boot[p]]
      /\ agent' = [p \in Procs |-> IF p \in P THEN 0 ELSE agent[p]]
      /\ then' = [p \in Procs |-> IF p \in P THEN "exit" ELSE then[p]]
      /\ run' = [p \in Procs |-> IF p \in P THEN 0 ELSE run[p]]
      /\ UNCHANGED <<file, created, sent, live, prompted>>
  BY DEF Crash
<1>3. \A p \in P : boot[p] > 0 => agent[p] \in 1..created
  BY <1>0 DEF SessionInv, Booting, Placed, Working
<1>4. cut' = cut \cup {agent[p] : p \in {q \in P : boot[q] > 0}}
  BY DEF Crash
<1>5. TypeOK'
  <2>1. /\ boot' \in [Procs -> 0..2] /\ agent' \in [Procs -> 0..created]
        /\ then' \in [Procs -> {"prompt", "send", "exit", "done"}]
        /\ run' \in [Procs -> 0..sent]
    BY <1>0, <1>2 DEF SessionInv, TypeOK
  <2>2. /\ {todo', threads'} \subseteq [Procs -> SUBSET (1..sent)]
        /\ result' \in [Procs -> Status \cup {"none"}]
    BY <1>0 DEF SessionInv, TypeOK, Crash
  <2>3. \A q \in Procs : pc'[q] \in {"run", "wait"} => run'[q] # 0
    BY <1>1, <1>2 DEF SessionInv, TypeOK
  <2>4. prompted' \cup cut' \subseteq 1..created
    BY <1>2, <1>3, <1>4 DEF SessionInv, TypeOK
  <2>5. orphans' \subseteq 1..created
    BY <1>3 DEF SessionInv, TypeOK, Crash
  <2> QED  BY <1>0, <1>1, <1>2, <2>1, <2>2, <2>3, <2>4, <2>5 DEF SessionInv, TypeOK
<1>6. Placed'
  BY <1>1, <1>2 DEF SessionInv, Placed, Working
<1>7. Booting'
  BY <1>1, <1>2 DEF SessionInv, Booting
<1>8. AllKnown'
  <2>1. \A t \in Terminals : boot[t] > 0 =>
          \/ boot'[t] > 0 /\ agent'[t] = agent[t]
          \/ agent[t] \in prompted' \cup cut'
    BY <1>2, <1>4 DEF Procs
  <2> QED  BY <1>2, <1>4, <2>1, KnownKept
<1> QED  BY <1>5, <1>6, <1>7, <1>8 DEF SessionInv
LEMMA NextSession == ASSUME SessionInv, [Next]_vars PROVE SessionInv'
<1>1. CASE UNCHANGED vars
  BY <1>1 DEF SessionInv, TypeOK, Placed, Booting, AllKnown, Known, vars, cursor, recover,
              history
<1>2. ASSUME NEW t \in Terminals, Launch(t) \/ TypeMessage(t) \/ Quit(t) \/ Exit(t)
      PROVE  SessionInv'
  BY <1>2, LaunchStep, RecoveryStep, ExitStep DEF Procs
<1>3. ASSUME NEW c \in Clicks, Continue(c) PROVE SessionInv'
  BY <1>3, ContinueStep
<1>4. ASSUME NEW p \in Procs,
             Step(p) \/ WaitRaises(p) \/ RecoverRaises(p) \/ RunBreaks(p)
      PROVE  SessionInv'
  <2>1. CASE Create(p)
    BY <2>1, CreateStep DEF Create, SaveThen, Goto, SessionInv, Placed
  <2>2. CASE \/ Refused(p) \/ RecoverRaises(p) \/ OpenSession(p) \/ WriteSession(p)
             \/ Send(p) \/ RunReturns(p)
    BY <2>2, RefusedStep, RecoverRaisesStep, OpenSessionStep, WriteSessionStep, SendStep, RunReturnsStep
  <2>3. CASE \/ Resume(p) \/ \E r \in todo[p] : SkipRun(p, r)
             \/ WaitReturns(p) \/ WaitRaises(p) \/ WaitTimesOut(p) \/ Recovered(p)
    BY <2>3, RecoveryStep
  <2>4. CASE \E r \in todo[p] : CancelRun(p, r)
    BY <2>4, CancelRunStep
  <2>5. CASE SendRaises(p) \/ RunRaises(p) \/ RunBreaks(p)
    BY <2>5, FailStep DEF SendRaises, RunRaises, RunBreaks
  <2> QED  BY <1>4, <2>1, <2>2, <2>3, <2>4, <2>5 DEF Step
<1>5. ASSUME NEW P \in {{t} : t \in Terminals} \cup {Clicks}, Crash(P) PROVE SessionInv'
  <2>1. P \in SUBSET Procs  BY DEF Procs
  <2> QED  BY <1>5, <2>1, CrashStep
<1>6. ASSUME NEW r \in 1..sent, RunEnds(r) PROVE SessionInv'
  BY <1>6, RunEndsStep
<1> QED  BY <1>1, <1>2, <1>3, <1>4, <1>5, <1>6 DEF Next

LEMMA SessionInvariant == Spec => []SessionInv
BY InitSession, NextSession, PTL DEF Spec

(* Type correctness of sessions, for any number of processes. *)
THEOREM TypeCorrect == Spec => []TypeOK
<1>1. SessionInv => TypeOK  BY DEF SessionInv
<1> QED  BY <1>1, SessionInvariant, PTL

(* Whatever is created, resumed, cancelled, given up or killed, by any number *)
(* of terminals and clicks: an agent that gets a message of its user or of an *)
(* approval had its whole bootstrap, has it now, or had it cut short.         *)
THEOREM BootstrapComesFirst == Spec => []PromptedFirst
<1>1. SessionInv => PromptedFirst
  <2> SUFFICES ASSUME SessionInv, NEW p \in Procs,
                      pc[p] = "prompt" \/ (pc[p] = "send" /\ boot[p] = 0)
               PROVE  \/ agent[p] \in prompted \cup cut
                      \/ \E t \in Terminals : boot[t] > 0 /\ agent[t] = agent[p]
    BY DEF PromptedFirst
  <2>1. agent[p] \in 1..created
    BY Bounds DEF SessionInv, TypeOK, Placed, Working
  <2> QED  BY <2>1 DEF SessionInv, AllKnown, Known
<1> QED  BY <1>1, SessionInvariant, PTL

-----------------------------------------------------------------------------
(* A single terminal.  Without a session every agent is lost, but for one    *)
(* that is about to be saved.                                                *)
Unsaved(a) == \E t \in Terminals : pc[t] = "save" /\ boot[t] = 2 /\ agent[t] = a

SoleInv ==
  /\ file = Missing => \A a \in 1..created : a \in orphans \/ Unsaved(a)
  /\ \A t \in Terminals : pc[t] = "create" => file = Missing
  /\ \A c \in Clicks : pc[c] \in Working => file # Missing
  /\ OneAgent

LEMMA InitSole == Init => SoleInv
BY DEF Init, SoleInv, OneAgent, Procs, Working

(* Steps that create nothing and lose nothing. *)
LEMMA SoleKept ==
  ASSUME SoleInv, created' = created, orphans \subseteq orphans', file = Missing \/ file' # Missing,
         file' = Missing => \A a \in 1..created : Unsaved(a) => Unsaved(a)' \/ a \in orphans',
         \A t \in Terminals : pc'[t] = "create" => file' = Missing,
         \A c \in Clicks : pc'[c] \in Working => file' # Missing
  PROVE  SoleInv'
BY DEF SoleInv, OneAgent
LEMMA MoveSole ==
  ASSUME SessionInv, SoleInv, NEW p \in Procs, NEW to, pc[p] # "save",
         pc' = [pc EXCEPT ![p] = to], to = "create" => file = Missing,
         p \in Clicks /\ to \in Working => pc[p] \in Working \/ file # Missing,
         UNCHANGED <<file, created, orphans>>,
         \A q \in Procs \ {p} : boot'[q] = boot[q] /\ agent'[q] = agent[q]
  PROVE  SoleInv'
<1>1. /\ \A q \in Procs \ {p} : pc'[q] = pc[q]
      /\ pc'[p] = to
  BY DEF SessionInv, TypeOK
<1>2. \A a \in 1..created : Unsaved(a) => Unsaved(a)'
  BY <1>1 DEF Unsaved, Procs
<1>3. \A t \in Terminals : pc'[t] = "create" => file' = Missing
  BY <1>1 DEF SoleInv, Procs
<1>4. \A c \in Clicks : pc'[c] \in Working => file' # Missing
  BY <1>1 DEF SoleInv, Procs
<1> QED  BY <1>2, <1>3, <1>4, SoleKept

LEMMA CreateSole ==
  ASSUME SessionInv, SoleInv, NEW t \in Terminals, Terminals = {t}, Create(t)
  PROVE  SoleInv'
<1>1. /\ t \in Procs /\ pc[t] = "create" /\ file = Missing /\ file' = file
      /\ created \in Nat /\ created' = created + 1 /\ orphans' = orphans
      /\ pc' = [pc EXCEPT ![t] = "save"]
      /\ boot' = [boot EXCEPT ![t] = 2] /\ agent' = [agent EXCEPT ![t] = created + 1]
  BY Bounds DEF Create, SaveThen, Goto, Procs, SoleInv, SessionInv, TypeOK, history
<1>2. 1..created \subseteq orphans
  BY <1>1 DEF SoleInv, Unsaved
<1>3. (1..created') \ orphans' \subseteq {created + 1}
  BY <1>1, <1>2
<1>4. pc'[t] = "save" /\ boot'[t] = 2 /\ agent'[t] = created + 1
  BY <1>1 DEF SessionInv, TypeOK
<1>5. OneAgent'
  BY <1>3 DEF OneAgent
<1>6. \A a \in 1..created' : a \in orphans' \/ Unsaved(a)'
  BY <1>3, <1>4 DEF Unsaved
<1>7. \A c \in Clicks : pc'[c] \in Working => file' # Missing
  <2>1. \A c \in Clicks : c # t  BY SessionAssumption
  <2>2. \A c \in Clicks : pc'[c] = pc[c]  BY <1>1, <2>1 DEF SessionInv, TypeOK, Procs
  <2> QED  BY <1>1, <2>2 DEF SoleInv
<1> QED  BY <1>1, <1>5, <1>6, <1>7 DEF SoleInv

LEMMA FileSole ==
  ASSUME SessionInv, SoleInv, NEW t \in Terminals, Terminals = {t},
         NEW p \in Procs, OpenSession(p) \/ WriteSession(p)
  PROVE  SoleInv'
<1>1. file' # Missing /\ created' = created /\ orphans' = orphans
  BY Bounds DEF OpenSession, WriteSession, Goto, SessionInv, TypeOK, Placed, Working, Torn,
         Missing, cursor, history
<1>2. PICK to \in PC : pc' = [pc EXCEPT ![p] = to] /\ to # "create"
  BY DEF OpenSession, WriteSession, Goto, SessionInv, TypeOK, PC
<1>3. pc[t] # "create" \/ p = t
  BY DEF OpenSession, WriteSession, Goto, SoleInv, Procs, Working
<1>4. \A u \in Terminals : pc'[u] # "create"
  BY <1>2, <1>3 DEF SessionInv, TypeOK, Procs
<1> QED  BY <1>1, <1>4, SoleKept

LEMMA CrashSole ==
  ASSUME SessionInv, SoleInv, NEW P \in SUBSET Procs, Crash(P)
  PROVE  SoleInv'
<1>1. /\ \A p \in Procs \ P : /\ pc'[p] = pc[p] /\ boot'[p] = boot[p]
                             /\ agent'[p] = agent[p]
      /\ \A p \in P : pc'[p] \in {"idle", "done"}
      /\ UNCHANGED <<file, created>>
  BY DEF Crash
<1>2. orphans' = orphans \cup {agent[p] : p \in {q \in P : boot[q] = 2 /\ pc[q] = "save"}}
  BY DEF Crash
<1>3. \A a \in 1..created : Unsaved(a) => Unsaved(a)' \/ a \in orphans'
  BY <1>1, <1>2 DEF Unsaved, Procs
<1>4. \A u \in Terminals : pc'[u] = "create" => file' = Missing
  BY <1>1 DEF SoleInv, Procs
<1>5. \A c \in Clicks : pc'[c] \in Working => file' # Missing
  BY <1>1 DEF SoleInv, Procs, Working
<1> QED  BY <1>1, <1>2, <1>3, <1>4, <1>5, SoleKept

LEMMA NextSole ==
  ASSUME SessionInv, SoleInv, NEW t \in Terminals, Terminals = {t}, [Next]_vars
  PROVE  SoleInv'
<1>1. CASE UNCHANGED vars
  BY <1>1 DEF SoleInv, OneAgent, Unsaved, vars, cursor, history
<1>2. CASE Launch(t) \/ TypeMessage(t) \/ Quit(t) \/ Exit(t)
  <2>1. t \in Procs /\ t \notin Clicks /\ pc[t] # "save"
    BY <1>2, SessionAssumption DEF Procs, Launch, TypeMessage, Quit, Exit, Goto
  <2>2. PICK to : pc' = [pc EXCEPT ![t] = to] /\ (to = "create" => file = Missing)
    BY <1>2 DEF Launch, TypeMessage, Quit, Exit, Goto
  <2>3. /\ UNCHANGED <<file, created, orphans>>
        /\ \A q \in Procs \ {t} : boot'[q] = boot[q] /\ agent'[q] = agent[q]
    BY <1>2 DEF Launch, TypeMessage, Quit, Exit, cursor, history, SessionInv, TypeOK
  <2> QED  BY <2>1, <2>2, <2>3, MoveSole
<1>3. ASSUME NEW c \in Clicks, Continue(c) PROVE SoleInv'
  <2>1. c \in Procs /\ pc[c] # "save"
    BY <1>3 DEF Procs, Continue, Goto
  <2>2. PICK to \in {"resume", "done"} : /\ pc' = [pc EXCEPT ![c] = to]
                                         /\ to = "resume" => file \in Agents
    BY <1>3 DEF Continue, Goto
  <2>3. /\ UNCHANGED <<file, created, orphans>>
        /\ \A q \in Procs \ {c} : boot'[q] = boot[q] /\ agent'[q] = agent[q]
    BY <1>3 DEF Continue, cursor, history, SessionInv, TypeOK
  <2>4. to \in Working => file # Missing
    BY <2>2, Bounds DEF Working, Agents, Missing
  <2> QED  BY <2>1, <2>2, <2>3, <2>4, MoveSole
<1>4. ASSUME NEW p \in Procs,
             Step(p) \/ WaitRaises(p) \/ RecoverRaises(p) \/ RunBreaks(p)
      PROVE  SoleInv'
  <2>1. CASE Create(p)
    <3>1. p = t  BY <2>1 DEF Create, SaveThen, Goto, SessionInv, Placed
    <3> QED  BY <2>1, <3>1, CreateSole
  <2>2. CASE OpenSession(p) \/ WriteSession(p)
    BY <2>2, FileSole
  <2>3. CASE \/ Resume(p) \/ \E r \in todo[p] : SkipRun(p, r) \/ CancelRun(p, r)
             \/ WaitReturns(p) \/ WaitRaises(p) \/ WaitTimesOut(p) \/ Recovered(p)
    <3>1. /\ pc[p] \in {"resume", "recover", "wait"}
          /\ \E to \in {"recover", "wait", "send", "prompt"} : pc' = [pc EXCEPT ![p] = to]
      BY <2>3 DEF Resume, SkipRun, CancelRun, WaitReturns, WaitRaises, WaitTimesOut, Recovered,
                  Goto, SessionInv, TypeOK
    <3>2. UNCHANGED <<file, created, orphans, boot, agent>>
      BY <2>3 DEF Resume, SkipRun, CancelRun, WaitReturns, WaitRaises, WaitTimesOut, Recovered,
                  cursor, history
    <3> QED  BY <3>1, <3>2, MoveSole DEF Working
  <2>4. CASE Refused(p) \/ RecoverRaises(p)
    <3>1. End(p) \notin Working /\ End(p) # "create"  BY DEF End, Working
    <3> QED  BY <2>4, <3>1, MoveSole DEF Refused, RecoverRaises, cursor, history
  <2>5. CASE \/ Send(p) \/ RunReturns(p) \/ SendRaises(p) \/ RunRaises(p) \/ RunBreaks(p)
    <3>1. /\ pc[p] \in {"send", "run"}
          /\ \E to \in {"run", "send", "save"} : pc' = [pc EXCEPT ![p] = to]
      BY <2>5 DEF Send, RunReturns, SendRaises, RunRaises, RunBreaks, Fail, SaveThen, Goto
    <3>2. /\ UNCHANGED <<file, created, orphans, agent>>
          /\ \A q \in Procs \ {p} : boot'[q] = boot[q]
      BY <2>5 DEF Send, RunReturns, SendRaises, RunRaises, RunBreaks, Fail, recover, history,
                  SessionInv, TypeOK
    <3> QED  BY <3>1, <3>2, MoveSole DEF Working
  <2> QED  BY <1>4, <2>1, <2>2, <2>3, <2>4, <2>5 DEF Step
<1>5. ASSUME NEW P \in {{u} : u \in Terminals} \cup {Clicks}, Crash(P) PROVE SoleInv'
  <2>1. P \in SUBSET Procs  BY DEF Procs
  <2> QED  BY <1>5, <2>1, CrashSole
<1>6. ASSUME NEW r \in 1..sent, RunEnds(r) PROVE SoleInv'
  BY <1>6 DEF RunEnds, SoleInv, OneAgent, Unsaved, history
<1> QED  BY <1>1, <1>2, <1>3, <1>4, <1>5, <1>6 DEF Next

(* With a single terminal and any number of clicks, failures and deaths, a   *)
(* case gets a second agent only when the first was lost before it was saved. *)
THEOREM SingleAgent ==
  ASSUME NEW t, Terminals = {t}
  PROVE  Spec => []OneAgent
<1>1. Init => SoleInv  BY InitSole
<1>2. SessionInv /\ SoleInv /\ [Next]_vars => SoleInv'
  BY NextSole
<1>3. SoleInv => OneAgent  BY DEF SoleInv
<1> QED  BY <1>1, <1>2, <1>3, SessionInvariant, PTL DEF Spec
===============================================================================
