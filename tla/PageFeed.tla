-------------------------------- MODULE PageFeed --------------------------------
(***************************************************************************)
(* What a page of the dashboard may show of the events: there is one log,    *)
(* the same for every page.  A page shows a block of it as it was when the   *)
(* page came, and then follows it in order, without a hole until its queue   *)
(* was full once.                                                            *)
(***************************************************************************)
EXTENDS Integers, Sequences

CONSTANTS Events, Pages

VARIABLES log,          \* the events in the order the server took them
          replay,       \* what each page has been shown of the past
          live,         \* what each page has been shown since
          since,        \* the place in the log from which it follows it
          gaps          \* pages whose queue was full for an event

vars == <<log, replay, live, since, gaps>>

Init ==
  /\ log = <<>>
  /\ replay = [p \in Pages |-> <<>>]
  /\ live = [p \in Pages |-> <<>>]
  /\ since = [p \in Pages |-> 0]
  /\ gaps = {}

(* No event is taken twice. *)
Take ==
  /\ \E ev \in Events : /\ \A i \in DOMAIN log : log[i] # ev
                        /\ log' = Append(log, ev)
  /\ \E full \in SUBSET Pages : gaps' = gaps \cup full
  /\ UNCHANGED <<replay, live, since>>

Join(p) ==
  /\ replay[p] = <<>> /\ live[p] = <<>>
  /\ since' = [since EXCEPT ![p] = Len(log)]
  /\ UNCHANGED <<log, replay, live, gaps>>

(* The past is shown event by event, before anything else. *)
ShowOld(p) ==
  /\ live[p] = <<>>
  /\ \E i \in DOMAIN log :
       /\ replay[p] # <<>> => i > 1 /\ log[i - 1] = replay[p][Len(replay[p])]
       /\ replay' = [replay EXCEPT ![p] = Append(@, log[i])]
  /\ UNCHANGED <<log, live, since, gaps>>

(* The present: later than all that was shown of it, and the next one while  *)
(* nothing was lost.                                                         *)
ShowNew(p) ==
  /\ \E i \in DOMAIN log :
       /\ i > since[p]
       /\ \A j \in DOMAIN live[p], m \in DOMAIN log : log[m] = live[p][j] => m < i
       /\ p \notin gaps => i = since[p] + Len(live[p]) + 1
       /\ live' = [live EXCEPT ![p] = Append(@, log[i])]
  /\ UNCHANGED <<log, replay, since, gaps>>

Next == Take \/ \E p \in Pages : Join(p) \/ ShowOld(p) \/ ShowNew(p)

Spec == Init /\ [][Next]_vars
================================================================================
