------------------------------ MODULE EventStream ------------------------------
(***************************************************************************)
(* The event stream of the dashboard: programs POST events one at a time and *)
(* give up on a slow server (agent/events.py); the server keeps the newest   *)
(* in a ring buffer and puts each into the bounded queue of every stream     *)
(* (dashboard/server.py); a stream first replays the buffer, then reads its  *)
(* queue.  The server is one event loop: a step is what it does between two  *)
(* suspensions.  Every yield of the generator is one, since the middleware   *)
(* takes the chunks of a response one by one.                                *)
(*                                                                         *)
(* An event is the k-th of an emitter.  A stream is one connection of a      *)
(* page; a page that reconnects opens another.                               *)
(***************************************************************************)
EXTENDS Integers, Sequences, SequencesExt

CONSTANTS Emitters,     \* processes that call emit_event
          Streams,      \* connections of pages, one use each
          BufferSize,   \* RING_BUFFER_SIZE
          QueueSize,    \* maxsize of the queue of a stream
          MaxEvents,    \* bound: events of one emitter
          MaxRestart    \* bound: restarts of the server

ASSUME StreamAssumption ==
    /\ Emitters # {}
    /\ Streams # {}
    /\ {BufferSize, QueueSize} \subseteq Nat \ {0}
    /\ {MaxEvents, MaxRestart} \subseteq Nat

VARIABLES sent,         \* events made by each emitter
          busy,         \* is the emitter in a POST
          lateEvents,   \* events whose POST was given up on
          buffer,       \* _event_buffer
          subscribers,  \* the streams whose queue is in _subscribers
          gen,          \* where the generator of each stream is
          queue,        \* its queue
          left,         \* what its replay has still to yield
          mutated,      \* has the buffer changed since the replay began
          posted,       \* history: events in the order the server took them
          shown,        \* history: [replay |-> .., live |-> ..] of each stream
          mark,         \* history: Len(posted) when the stream was registered
                        \* and when it began, and whether it lost an event
          base,         \* history: Len(posted) at the last restart
          restarts

program == <<sent, busy, lateEvents>>
stream  == <<gen, queue, left, mutated>>
history == <<posted, shown, mark, base>>
vars    == <<program, buffer, subscribers, stream, history, restarts>>

Event == [by: Emitters, k: 1..MaxEvents]
Current(e) == [by |-> e, k |-> sent[e]]

TypeOK ==
    /\ sent \in [Emitters -> 0..MaxEvents]
    /\ busy \in [Emitters -> BOOLEAN]
    /\ lateEvents \subseteq Event
    /\ buffer \in Seq(Event) /\ Len(buffer) <= BufferSize
    /\ subscribers \subseteq Streams
    /\ gen \in [Streams -> {"none", "created", "replay", "live", "closed"}]
    /\ queue \in [Streams -> Seq(Event)]
    /\ \A s \in Streams : Len(queue[s]) <= QueueSize
    /\ left \in [Streams -> Seq(Event)]
    /\ mutated \in [Streams -> BOOLEAN]
    /\ posted \in Seq(Event)
    /\ shown \in [Streams -> [replay: Seq(Event), live: Seq(Event)]]
    /\ mark \in [Streams -> [registered: Nat, begun: Nat, lost: BOOLEAN]]
    /\ base \in 0..Len(posted)
    /\ restarts \in 0..MaxRestart

Init ==
    /\ sent = [e \in Emitters |-> 0]
    /\ busy = [e \in Emitters |-> FALSE]
    /\ lateEvents = {}
    /\ buffer = <<>>
    /\ subscribers = {}
    /\ gen = [s \in Streams |-> "none"]
    /\ queue = [s \in Streams |-> <<>>]
    /\ left = [s \in Streams |-> <<>>]
    /\ mutated = [s \in Streams |-> FALSE]
    /\ posted = <<>>
    /\ shown = [s \in Streams |-> [replay |-> <<>>, live |-> <<>>]]
    /\ mark = [s \in Streams |-> [registered |-> 0, begun |-> 0, lost |-> FALSE]]
    /\ base = 0
    /\ restarts = 0

--------------------------------------------------------------------------------
(* emit_event: one POST at a time, no retry, no failure reaches the caller.  *)

Emit(e) ==
    /\ ~busy[e]
    /\ sent[e] < MaxEvents
    /\ sent' = [sent EXCEPT ![e] = @ + 1]
    /\ busy' = [busy EXCEPT ![e] = TRUE]
    /\ UNCHANGED <<lateEvents, buffer, subscribers, stream, history, restarts>>

(* After half a second the request may still reach the server. *)
GiveUp(e) ==
    /\ busy[e]
    /\ busy' = [busy EXCEPT ![e] = FALSE]
    /\ lateEvents' = lateEvents \union {Current(e)}
    /\ UNCHANGED <<sent, buffer, subscribers, stream, history, restarts>>

Unreachable(e) ==
    /\ busy[e]
    /\ busy' = [busy EXCEPT ![e] = FALSE]
    /\ UNCHANGED <<sent, lateEvents, buffer, subscribers, stream, history, restarts>>

--------------------------------------------------------------------------------
(* post_event *)

\* Mutant: one event more than the deque holds.
PushOneMore(b, ev) == LET c == Append(b, ev)
                      IN  IF Len(c) > BufferSize + 1 THEN Tail(c) ELSE c

Push(b, ev) == LET c == Append(b, ev)
               IN  IF Len(c) > BufferSize THEN Tail(c) ELSE c

\* Mutants: the newest first; the oldest makes room for the newest.
PutFirst(q, ev) == IF Len(q) < QueueSize THEN <<ev>> \o q ELSE q
PutEvicting(q, ev) == Append(IF Len(q) < QueueSize THEN q ELSE Tail(q), ev)

(* put_nowait: a full queue loses the event. *)
Put(q, ev) == IF Len(q) < QueueSize THEN Append(q, ev) ELSE q

\* Mutant: a stream is registered once its replay is over.
ReceiversReading == {s \in subscribers : gen[s] = "live"}

Receivers == subscribers

Handle(ev) ==
    /\ posted' = Append(posted, ev)
    /\ buffer' = Push(buffer, ev)
    /\ queue' = [s \in Streams |-> IF s \in Receivers THEN Put(queue[s], ev)
                                                      ELSE queue[s]]
    /\ mutated' = [s \in Streams |-> mutated[s] \/ gen[s] = "replay"]
    /\ mark' = [s \in Streams |->
                   [mark[s] EXCEPT !.lost = @ \/ /\ s \in subscribers
                                                 /\ Len(queue[s]) = QueueSize]]
    /\ UNCHANGED <<sent, subscribers, gen, left, shown, base, restarts>>

Post(e) ==
    /\ busy[e]
    /\ busy' = [busy EXCEPT ![e] = FALSE]
    /\ Handle(Current(e))
    /\ UNCHANGED lateEvents

PostLate(ev) ==
    /\ ev \in lateEvents \ Range(posted)
    /\ Handle(ev)
    /\ UNCHANGED <<busy, lateEvents>>

--------------------------------------------------------------------------------
(* events_stream and its generator *)

Connect(s) ==
    /\ gen[s] = "none"
    /\ gen' = [gen EXCEPT ![s] = "created"]
    /\ subscribers' = subscribers \union {s}
    /\ mark' = [mark EXCEPT ![s].registered = Len(posted)]
    /\ UNCHANGED <<program, buffer, queue, left, mutated, posted, shown, base,
                   restarts>>

(* Up to the first yield of the replay, or to the queue if there is none. *)
Begin(s) ==
    /\ gen[s] = "created"
    /\ mark' = [mark EXCEPT ![s].begun = Len(posted)]
    /\ \/ /\ buffer = <<>>
          /\ gen' = [gen EXCEPT ![s] = "live"]
          /\ UNCHANGED <<left, shown>>
       \/ /\ buffer # <<>>
          /\ gen' = [gen EXCEPT ![s] = "replay"]
          /\ left' = [left EXCEPT ![s] = Tail(buffer)]
          /\ shown' = [shown EXCEPT ![s].replay = <<Head(buffer)>>]
    /\ UNCHANGED <<program, buffer, subscribers, queue, mutated, posted, base,
                   restarts>>

(* The finally clause of the generator. *)
Close(s) ==
    /\ gen' = [gen EXCEPT ![s] = "closed"]
    /\ subscribers' = subscribers \ {s}

ReplayNext(s) ==
    /\ gen[s] = "replay" /\ ~mutated[s] /\ left[s] # <<>>
    /\ shown' = [shown EXCEPT ![s].replay = Append(@, Head(left[s]))]
    /\ left' = [left EXCEPT ![s] = Tail(@)]
    /\ UNCHANGED <<program, buffer, subscribers, gen, queue, mutated, posted, mark,
                   base, restarts>>

\* Mutant: the error is caught and the replay begins again.
ReplayAgain(s) ==
    /\ gen[s] = "replay" /\ mutated[s]
    /\ left' = [left EXCEPT ![s] = buffer]
    /\ mutated' = [mutated EXCEPT ![s] = FALSE]
    /\ UNCHANGED <<program, buffer, subscribers, gen, queue, history, restarts>>

(* "deque mutated during iteration" ends the response. *)
ReplayRaises(s) ==
    /\ gen[s] = "replay" /\ mutated[s]
    /\ Close(s)
    /\ UNCHANGED <<program, buffer, queue, left, mutated, history, restarts>>

ReplayEnds(s) ==
    /\ gen[s] = "replay" /\ ~mutated[s] /\ left[s] = <<>>
    /\ gen' = [gen EXCEPT ![s] = "live"]
    /\ UNCHANGED <<program, buffer, subscribers, queue, left, mutated, history,
                   restarts>>

Get(s) ==
    /\ gen[s] = "live" /\ queue[s] # <<>>
    /\ shown' = [shown EXCEPT ![s].live = Append(@, Head(queue[s]))]
    /\ queue' = [queue EXCEPT ![s] = Tail(@)]
    /\ UNCHANGED <<program, buffer, subscribers, gen, left, mutated, posted, mark,
                   base, restarts>>

(* The page goes away.  A generator that never began has no finally clause   *)
(* to run: its queue stays with the server.                                  *)
Disconnect(s) ==
    /\ \/ gen[s] \in {"replay", "live"} /\ Close(s)
       \/ /\ gen[s] = "created"
          /\ gen' = [gen EXCEPT ![s] = "closed"]
          /\ UNCHANGED subscribers
    /\ UNCHANGED <<program, buffer, queue, left, mutated, history, restarts>>

(* The server dies and comes back with empty memory; open requests fail. *)
Restart ==
    /\ restarts < MaxRestart
    /\ restarts' = restarts + 1
    /\ buffer' = <<>>
    /\ subscribers' = {}
    /\ gen' = [s \in Streams |-> IF gen[s] = "none" THEN "none" ELSE "closed"]
    /\ busy' = [e \in Emitters |-> FALSE]
    /\ lateEvents' = lateEvents \intersect Range(posted)
    /\ base' = Len(posted)
    /\ UNCHANGED <<sent, queue, left, mutated, posted, shown, mark>>

--------------------------------------------------------------------------------
EmitterStep(e) == Emit(e) \/ GiveUp(e) \/ Unreachable(e) \/ Post(e)

Serve(s) == Begin(s) \/ ReplayNext(s) \/ ReplayRaises(s) \/ ReplayEnds(s) \/ Get(s)

Next ==
    \/ \E e \in Emitters : EmitterStep(e)
    \/ \E ev \in lateEvents : PostLate(ev)
    \/ \E s \in Streams : Connect(s) \/ Serve(s) \/ Disconnect(s)
    \/ Restart

(* The event loop serves every stream whose page reads what it is sent. *)
Spec == Init /\ [][Next]_vars /\ \A s \in Streams : WF_vars(Serve(s))

--------------------------------------------------------------------------------
Position(ev) == CHOOSE i \in 1..Len(posted) : posted[i] = ev

InPostingOrder(seq) ==
    \A i, j \in DOMAIN seq : i < j => Position(seq[i]) < Position(seq[j])

(* Replay and queue leave no gap between them: a stream that is live and has  *)
(* not met a full queue shows or holds everything that was in the ring buffer *)
(* when it began, and everything the server took after it was registered,    *)
(* unless a restart came in between.                                         *)
NoGap ==
    \A s \in Streams : gen[s] = "live" /\ ~mark[s].lost =>
        \A i \in 1..Len(posted) :
            /\ i > base
            /\ i > mark[s].begun - BufferSize \/ i > mark[s].registered
            => posted[i] \in Range(shown[s].replay)
                               \union Range(shown[s].live) \union Range(queue[s])

(* A page meets events in the order the server took them, first in the replay *)
(* and again from the queue; it meets an event in both only if that event was *)
(* posted between the registration of the stream and its first step.         *)
ShownInOrder ==
    \A s \in Streams :
        /\ InPostingOrder(shown[s].replay)
        /\ InPostingOrder(shown[s].live)
        /\ \A ev \in Range(shown[s].replay) \intersect Range(shown[s].live) :
               Position(ev) \in mark[s].registered + 1 .. mark[s].begun

(* Since emit_event waits for its answer, a page meets the events of one     *)
(* program in the order they happened, but for those the program gave up on. *)
EmitterOrder ==
    \A s \in Streams : \A seq \in {shown[s].replay, shown[s].live} :
        \A i, j \in DOMAIN seq :
            i < j /\ seq[i].by = seq[j].by /\ seq[j] \notin lateEvents
            => seq[i].k < seq[j].k

(* dashboard/server.py: every page shows one and the same log, a block of its *)
(* past and then its present, without a hole until its queue was full once.  *)
Feed == INSTANCE PageFeed
          WITH Events <- Event, Pages <- Streams,
               log <- posted,
               replay <- [s \in Streams |-> shown[s].replay],
               live <- [s \in Streams |-> shown[s].live],
               since <- [s \in Streams |-> mark[s].registered],
               gaps <- {s \in Streams : mark[s].lost}
ImplementsFeed == Feed!Spec

(* What is put into the queue of a stream is shown, or the stream is over.   *)
QueuedShown ==
    \A s \in Streams : \A ev \in Event :
        ev \in Range(queue[s]) /\ gen[s] # "closed"
            ~> ev \in Range(shown[s].live) \/ gen[s] = "closed"

================================================================================
