--------------------------- MODULE EventStreamProofs ---------------------------
(***************************************************************************)
(* For any number of emitters, streams, events and restarts and any sizes of *)
(* the buffer and the queues: what a page shows.                             *)
(***************************************************************************)
EXTENDS EventStream, SequenceTheorems, TLAPS

Smaller(m, n) == IF m <= n THEN m ELSE n

(* Two events in the order in which they were posted; one after a place.     *)
Before(x, y) == \E m, n \in DOMAIN posted : m < n /\ posted[m] = x /\ posted[n] = y
After(x, r) == \E m \in DOMAIN posted : m > r /\ posted[m] = x

(* An event that an emitter has made, and is not posting now. *)
Made(ev) == ev.k <= sent[ev.by] /\ (busy[ev.by] => ev.k < sent[ev.by])

(* Events are posted once, and those of an emitter in its order, but for the *)
(* ones it gave up on.                                                       *)
Posting ==
  /\ \A m, n \in DOMAIN posted : posted[m] = posted[n] => m = n
  /\ \A m \in DOMAIN posted : Made(posted[m])
  /\ \A ev \in lateEvents : Made(ev)
  /\ \A e \in Emitters : busy[e] => sent[e] > 0
  /\ \A m, n \in DOMAIN posted :
       m < n /\ posted[m].by = posted[n].by /\ posted[n] \notin lateEvents
       => posted[m].k < posted[n].k

(* A sequence that is the part of a log behind the place lo. *)
Window(seq, log, lo) ==
  /\ lo >= 0 /\ lo + Len(seq) <= Len(log)
  /\ \A i \in 1..Len(seq) : seq[i] = log[lo + i]

(* The buffer is the end of what was posted since the last restart. *)
Buffered ==
  /\ Len(buffer) = Smaller(BufferSize, Len(posted) - base)
  /\ Window(buffer, posted, Len(posted) - Len(buffer))

(* What a stream replays is a block that ends where the posts were when it began. *)
Block(s) == Len(shown[s].replay) + Len(left[s])

Replayed(s) ==
  /\ Window(shown[s].replay, posted, mark[s].begun - Block(s))
  /\ Window(left[s], posted, mark[s].begun - Len(left[s]))
  /\ gen[s] \in {"none", "created"} => Block(s) = 0
  /\ gen[s] \in {"replay", "live"} =>
       /\ base <= mark[s].registered /\ mark[s].registered <= mark[s].begun
       /\ Block(s) = Smaller(BufferSize, mark[s].begun - base)
  /\ gen[s] = "live" => left[s] = <<>>

(* What a stream has shown since, and what is in its queue. *)
Line(s) == shown[s].live \o queue[s]

Followed(s) ==
  /\ mark[s].registered <= Len(posted)
  /\ \A i \in DOMAIN Line(s) : After(Line(s)[i], mark[s].registered)
  /\ \A i, j \in DOMAIN Line(s) : i < j => Before(Line(s)[i], Line(s)[j])
  /\ ~mark[s].lost =>
       /\ Window(Line(s), posted, mark[s].registered)
       /\ s \in subscribers => mark[s].registered + Len(Line(s)) = Len(posted)
  /\ gen[s] \in {"none", "created", "replay"} => shown[s].live = <<>>
  /\ gen[s] = "none" => s \notin subscribers /\ queue[s] = <<>> /\ ~mark[s].lost
  /\ gen[s] \in {"created", "replay", "live"} =>
       s \in subscribers /\ base <= mark[s].registered

StreamInv ==
  /\ TypeOK /\ Posting /\ Buffered
  /\ \A s \in Streams : Replayed(s) /\ Followed(s)

LEMMA Sizes == /\ BufferSize \in Nat /\ BufferSize > 0 /\ QueueSize \in Nat /\ QueueSize > 0
               /\ MaxEvents \in Nat /\ MaxRestart \in Nat
BY StreamAssumption

-----------------------------------------------------------------------------
(* Windows *)

LEMMA Lengths ==
  ASSUME NEW S, NEW a \in Seq(S), NEW b \in Seq(S)
  PROVE  /\ Len(a) + Len(b) = 0 => Len(a) = 0 /\ Len(b) = 0
         /\ \A n \in Nat : n - Len(b) \in Int /\ n - (Len(a) + Len(b)) \in Int
<1>1. Len(a) \in Nat /\ Len(b) \in Nat  OBVIOUS
<1> QED  BY <1>1

LEMMA WindowAppend ==
  ASSUME NEW S, NEW seq \in Seq(S), NEW log \in Seq(S), NEW lo \in Int,
         Window(seq, log, lo), lo + Len(seq) + 1 <= Len(log),
         NEW x \in S, x = log[lo + Len(seq) + 1]
  PROVE  Window(Append(seq, x), log, lo)
<1>1. /\ Len(Append(seq, x)) = Len(seq) + 1 /\ Len(seq) \in Nat
      /\ \A i \in 1..Len(seq) : Append(seq, x)[i] = seq[i]
      /\ Append(seq, x)[Len(seq) + 1] = x
  OBVIOUS
<1>2. \A i \in 1..Len(seq) + 1 : i \in 1..Len(seq) \/ i = Len(seq) + 1
  BY <1>1
<1> QED  BY <1>1, <1>2 DEF Window

LEMMA WindowTail ==
  ASSUME NEW S, NEW seq \in Seq(S), NEW log \in Seq(S), NEW lo \in Int,
         Window(seq, log, lo), seq # <<>>
  PROVE  /\ Window(Tail(seq), log, lo + 1)
         /\ Head(seq) = log[lo + 1] /\ lo + 1 \in 1..Len(log)
<1>1. /\ Len(Tail(seq)) = Len(seq) - 1 /\ Len(seq) \in Nat /\ Len(seq) > 0
      /\ \A i \in 1..Len(Tail(seq)) : Tail(seq)[i] = seq[i + 1]
      /\ Head(seq) = seq[1] /\ Len(log) \in Nat
  OBVIOUS
<1>2. \A i \in 1..Len(Tail(seq)) : i + 1 \in 1..Len(seq) /\ lo + (i + 1) = (lo + 1) + i
  BY <1>1
<1> QED  BY <1>1, <1>2 DEF Window

LEMMA WindowGrows ==
  ASSUME NEW S, NEW seq \in Seq(S), NEW log \in Seq(S), NEW lo \in Int,
         Window(seq, log, lo), NEW x \in S
  PROVE  Window(seq, Append(log, x), lo)
<1>1. /\ Len(Append(log, x)) = Len(log) + 1 /\ Len(log) \in Nat /\ Len(seq) \in Nat
      /\ \A i \in 1..Len(log) : Append(log, x)[i] = log[i]
  OBVIOUS
<1>2. \A i \in 1..Len(seq) : lo + i \in 1..Len(log)
  BY <1>1 DEF Window
<1> QED  BY <1>1, <1>2 DEF Window

LEMMA WindowEmpty ==
  ASSUME NEW S, NEW log \in Seq(S), NEW lo \in 0..Len(log)
  PROVE  Window(<<>>, log, lo)
BY DEF Window

LEMMA ConcatAppend ==
  ASSUME NEW S, NEW a \in Seq(S), NEW b \in Seq(S), NEW x \in S
  PROVE  a \o Append(b, x) = Append(a \o b, x)
<1>1. a \o b \in Seq(S)  BY ConcatProperties
<1>2. <<x>> \in Seq(S)  OBVIOUS
<1> QED  BY <1>1, <1>2, AppendIsConcat, ConcatAssociative

LEMMA ConcatHead ==
  ASSUME NEW S, NEW a \in Seq(S), NEW b \in Seq(S), b # <<>>
  PROVE  Append(a, Head(b)) \o Tail(b) = a \o b
<1>1. Head(b) \in S /\ Tail(b) \in Seq(S) /\ <<Head(b)>> \in Seq(S)
  OBVIOUS
<1>2. <<Head(b)>> \o Tail(b) = b
  <2> DEFINE c == <<Head(b)>> \o Tail(b)
  <2>1. /\ c \in Seq(S) /\ Len(c) = 1 + Len(Tail(b))
        /\ \A i \in 1..(1 + Len(Tail(b))) :
             c[i] = IF i <= 1 THEN <<Head(b)>>[i] ELSE Tail(b)[i - 1]
    BY <1>1, ConcatProperties, Len(<<Head(b)>>) = 1
  <2> HIDE DEF c
  <2>2. Len(Tail(b)) = Len(b) - 1 /\ Len(b) \in Nat
     OBVIOUS
  <2>3. Len(c) = Len(b)  BY <2>1, <2>2
  <2>4. ASSUME NEW i \in 1..Len(b) PROVE c[i] = b[i]
    <3>1. CASE i = 1  BY <2>1, <2>2, <3>1
    <3>2. CASE i # 1
      <4>1. c[i] = Tail(b)[i - 1] /\ i - 1 \in 1..Len(Tail(b)) BY <2>1, <2>2, <3>2
      <4>2. Tail(b)[i - 1] = b[(i - 1) + 1]  BY <4>1
      <4> QED  BY <4>1, <4>2
    <3> QED  BY <3>1, <3>2
  <2>5. c = b  BY <2>1, <2>3, <2>4, SeqEqual
  <2> QED  BY <2>5 DEF c
<1> QED  BY <1>1, <1>2, AppendIsConcat, ConcatAssociative
-----------------------------------------------------------------------------
(* Types *)

LEMMA StreamTypes ==
  ASSUME TypeOK, NEW s \in Streams
  PROVE  /\ shown[s].replay \in Seq(Event) /\ shown[s].live \in Seq(Event)
         /\ queue[s] \in Seq(Event) /\ left[s] \in Seq(Event) /\ Line(s) \in Seq(Event)
         /\ mark[s].registered \in Nat /\ mark[s].begun \in Nat /\ mark[s].lost \in BOOLEAN
         /\ posted \in Seq(Event) /\ buffer \in Seq(Event)
         /\ base \in Nat /\ Len(posted) \in Nat /\ base <= Len(posted)
BY DEF TypeOK, Line

LEMMA InitTypes == Init => TypeOK
BY Sizes DEF Init, TypeOK

LEMMA EmitterTypes ==
  ASSUME TypeOK, Posting, NEW e \in Emitters, Emit(e) \/ GiveUp(e) \/ Unreachable(e)
  PROVE  TypeOK'
<1>1. CASE Emit(e)
  BY <1>1, Sizes DEF Emit, TypeOK, stream, history
<1>2. CASE GiveUp(e)
  <2>1. Current(e) \in Event
    BY <1>2, Sizes DEF GiveUp, Current, Event, TypeOK, Posting
  <2> QED  BY <1>2, <2>1 DEF GiveUp, TypeOK, stream, history
<1>3. CASE Unreachable(e)
  BY <1>3 DEF Unreachable, TypeOK, stream, history
<1> QED  BY <1>1, <1>2, <1>3

LEMMA HandleTypes ==
  ASSUME TypeOK, NEW ev \in Event, Handle(ev), busy' \in [Emitters -> BOOLEAN],
         UNCHANGED lateEvents
  PROVE  TypeOK'
<1>1. posted' \in Seq(Event) /\ Len(posted') = Len(posted) + 1
  BY DEF Handle, TypeOK
<1>2. buffer' \in Seq(Event) /\ Len(buffer') <= BufferSize
  BY Sizes DEF Handle, TypeOK, Push
<1>3. \A s \in Streams : Put(queue[s], ev) \in Seq(Event) /\ Len(Put(queue[s], ev)) <= QueueSize
  BY Sizes DEF TypeOK, Put
<1>4. queue' \in [Streams -> Seq(Event)] /\ \A s \in Streams : Len(queue'[s]) <= QueueSize
  BY <1>3 DEF Handle, TypeOK
<1>5. mark' \in [Streams -> [registered: Nat, begun: Nat, lost: BOOLEAN]]
  BY DEF Handle, TypeOK
<1>6. mutated' \in [Streams -> BOOLEAN]
  BY DEF Handle, TypeOK
<1>7. base \in 0..Len(posted')
  BY <1>1 DEF TypeOK
<1> QED  BY <1>1, <1>2, <1>4, <1>5, <1>6, <1>7 DEF Handle, TypeOK

LEMMA ServeTypes ==
  ASSUME TypeOK, NEW s \in Streams, Connect(s) \/ Serve(s) \/ Disconnect(s)
  PROVE  TypeOK'
<1> DEFINE Marks == [registered: Nat, begun: Nat, lost: BOOLEAN]
<1>0. Len(posted) \in Nat /\ mark \in [Streams -> Marks] /\ mark[s] \in Marks
  BY DEF TypeOK
<1>1. CASE Connect(s)
  <2>1. mark' = [mark EXCEPT ![s] = [mark[s] EXCEPT !.registered = Len(posted)]]
    BY <1>1 DEF Connect
  <2>2. [mark[s] EXCEPT !.registered = Len(posted)] \in Marks
    BY <1>0
  <2>3. mark' \in [Streams -> Marks]
    BY <1>0, <2>1, <2>2
  <2> QED  BY <1>1, <2>3 DEF Connect, TypeOK, program
<1>2. CASE Begin(s)
  <2>0. mark' = [mark EXCEPT ![s] = [mark[s] EXCEPT !.begun = Len(posted)]]
    BY <1>2 DEF Begin
  <2>9. [mark[s] EXCEPT !.begun = Len(posted)] \in Marks
    BY <1>0
  <2>1. mark' \in [Streams -> Marks]
    BY <1>0, <2>0, <2>9
  <2>2. CASE buffer = <<>>
    BY <1>2, <2>1, <2>2 DEF Begin, TypeOK, program
  <2>3. CASE buffer # <<>>
    <3>1. Tail(buffer) \in Seq(Event) /\ <<Head(buffer)>> \in Seq(Event)
      BY <2>3 DEF TypeOK
    <3>2. gen' \in [Streams -> {"none", "created", "replay", "live", "closed"}]
      BY <1>2, <2>3 DEF Begin, TypeOK
    <3>3. left' \in [Streams -> Seq(Event)]
      BY <1>2, <2>3, <3>1 DEF Begin, TypeOK
    <3>4. shown' \in [Streams -> [replay: Seq(Event), live: Seq(Event)]]
      <4>1. PICK block \in Seq(Event) : shown' = [shown EXCEPT ![s].replay = block]
        BY <1>2, <2>3, <3>1 DEF Begin
      <4> QED  BY <4>1 DEF TypeOK
    <3> QED  BY <1>2, <2>1, <3>2, <3>3, <3>4 DEF Begin, TypeOK, program
  <2> QED  BY <2>2, <2>3
<1>3. CASE ReplayNext(s)
  <2>1. Tail(left[s]) \in Seq(Event) /\ Append(shown[s].replay, Head(left[s])) \in Seq(Event)
    BY <1>3 DEF ReplayNext, TypeOK
  <2>2. shown' \in [Streams -> [replay: Seq(Event), live: Seq(Event)]]
    BY <1>3, <2>1 DEF ReplayNext, TypeOK
  <2>3. left' \in [Streams -> Seq(Event)]
    BY <1>3, <2>1 DEF ReplayNext, TypeOK
  <2> QED  BY <1>3, <2>2, <2>3 DEF ReplayNext, TypeOK, program
<1>4. CASE ReplayRaises(s)
  BY <1>4 DEF ReplayRaises, Close, TypeOK, program, history
<1>5. CASE ReplayEnds(s)
  BY <1>5 DEF ReplayEnds, TypeOK, program, history
<1>6. CASE Get(s)
  <2>1. /\ Tail(queue[s]) \in Seq(Event) /\ Len(Tail(queue[s])) <= QueueSize
        /\ Append(shown[s].live, Head(queue[s])) \in Seq(Event)
    BY <1>6, Sizes DEF Get, TypeOK
  <2> QED  BY <1>6, <2>1 DEF Get, TypeOK, program
<1>7. CASE Disconnect(s)
  BY <1>7 DEF Disconnect, Close, TypeOK, program, history
<1> QED  BY <1>1, <1>2, <1>3, <1>4, <1>5, <1>6, <1>7 DEF Serve

LEMMA RestartTypes == ASSUME TypeOK, Restart PROVE TypeOK'
BY Sizes DEF Restart, TypeOK

-----------------------------------------------------------------------------
(* Posting *)

LEMMA EmitterPosting ==
  ASSUME TypeOK, Posting, NEW e \in Emitters, Emit(e) \/ GiveUp(e) \/ Unreachable(e)
  PROVE  Posting'
<1>1. /\ posted' = posted
      /\ \A m \in DOMAIN posted : posted[m] \in Event
      /\ sent \in [Emitters -> 0..MaxEvents] /\ busy \in [Emitters -> BOOLEAN]
      /\ lateEvents \subseteq Event
  BY DEF Emit, GiveUp, Unreachable, history, TypeOK
<1>2. /\ \A m, n \in DOMAIN posted' : posted'[m] = posted'[n] => m = n
      /\ lateEvents \subseteq lateEvents'
  BY <1>1 DEF Posting, Emit, GiveUp, Unreachable
<1>3. ASSUME NEW ev \in Event, Made(ev) PROVE Made(ev)'
  <2>1. ev.by \in Emitters /\ ev.k \in Nat  BY DEF Event
  <2>2. CASE Emit(e)
    BY <1>1, <1>3, <2>1, <2>2, Sizes DEF Made, Emit
  <2>3. CASE GiveUp(e) \/ Unreachable(e)
    BY <1>1, <1>3, <2>1, <2>3, Sizes DEF Made, GiveUp, Unreachable
  <2> QED  BY <2>2, <2>3
<1>4. ASSUME NEW ev \in lateEvents' PROVE Made(ev)'
  <2>1. CASE ev \in lateEvents  BY <1>1, <1>3, <2>1 DEF Posting
  <2>2. CASE ev \notin lateEvents
    <3>1. GiveUp(e) /\ ev = Current(e)
      BY <1>4, <2>2 DEF Emit, GiveUp, Unreachable
    <3>2. ev.by = e /\ ev.k = sent[e] /\ sent[e] \in 0..MaxEvents
      BY <1>1, <3>1 DEF Current
    <3> QED  BY <1>1, <3>1, <3>2, Sizes DEF Made, GiveUp
  <2> QED  BY <2>1, <2>2
<1>5. \A d \in Emitters : busy'[d] => sent'[d] > 0
  <2>1. \A d \in Emitters : sent[d] \in Nat  BY <1>1, Sizes
  <2> QED  BY <1>1, <2>1 DEF Emit, GiveUp, Unreachable, Posting
<1>6. \A m, n \in DOMAIN posted' :
        m < n /\ posted'[m].by = posted'[n].by /\ posted'[n] \notin lateEvents'
        => posted'[m].k < posted'[n].k
  BY <1>1, <1>2 DEF Posting
<1>7. (\A m \in DOMAIN posted : Made(posted[m]))'
  BY <1>1, <1>3 DEF Posting
<1>8. (\A ev \in lateEvents : Made(ev))'
  BY <1>4
<1> QED  BY <1>2, <1>5, <1>6, <1>7, <1>8 DEF Posting

LEMMA HandlePosting ==
  ASSUME TypeOK, Posting, NEW ev \in Event, Handle(ev), UNCHANGED lateEvents,
         \A m \in DOMAIN posted : posted[m] # ev,
         ev.k <= sent[ev.by], ~busy'[ev.by] \/ ev.k < sent[ev.by],
         \A e \in Emitters : busy'[e] => busy[e],
         ev \notin lateEvents =>
            \A m \in DOMAIN posted : posted[m].by = ev.by => posted[m].k < ev.k
  PROVE  Posting'
<1>1. /\ posted \in Seq(Event) /\ posted' = Append(posted, ev) /\ sent' = sent
      /\ Len(posted) \in Nat /\ DOMAIN posted = 1..Len(posted)
      /\ DOMAIN posted' = 1..(Len(posted) + 1)
      /\ posted'[Len(posted) + 1] = ev
      /\ \A m \in DOMAIN posted : posted'[m] = posted[m] /\ posted[m] \in Event
  BY DEF Handle, TypeOK
<1>2. \A m, n \in DOMAIN posted' : posted'[m] = posted'[n] => m = n
  BY <1>1 DEF Posting
<1>3. /\ \A m \in DOMAIN posted' : posted'[m].k <= sent'[posted'[m].by]
      /\ \A m \in DOMAIN posted' : busy'[posted'[m].by] => posted'[m].k < sent'[posted'[m].by]
  <2>1. \A m \in DOMAIN posted : posted[m].by \in Emitters  BY <1>1 DEF Event
  <2> QED  BY <1>1, <2>1 DEF Posting, Made
<1>4. \A x \in lateEvents' : /\ x.k <= sent'[x.by]
                             /\ busy'[x.by] => x.k < sent'[x.by]
  <2>1. \A x \in lateEvents : x.by \in Emitters  BY DEF Event, TypeOK
  <2> QED  BY <1>1, <2>1 DEF Posting, Made
<1>5. \A e \in Emitters : busy'[e] => sent'[e] > 0
  BY <1>1 DEF Posting
<1>6. \A m, n \in DOMAIN posted' :
        m < n /\ posted'[m].by = posted'[n].by /\ posted'[n] \notin lateEvents'
        => posted'[m].k < posted'[n].k
  BY <1>1 DEF Posting
<1> QED  BY <1>2, <1>3, <1>4, <1>5, <1>6 DEF Posting, Made

LEMMA RestartPosting == ASSUME TypeOK, Posting, Restart PROVE Posting'
<1>1. /\ UNCHANGED <<sent, posted>> /\ lateEvents' = lateEvents \cap Range(posted)
      /\ \A e \in Emitters : ~busy'[e]
  BY DEF Restart
<1>2. \A m \in DOMAIN posted : posted[m].by \in Emitters /\ posted[m] \in Range(posted)
  <2>1. \A m \in DOMAIN posted : posted[m] \in Event  BY DEF TypeOK
  <2> QED  BY <2>1 DEF Event, Range
<1>3. \A ev \in lateEvents : ev.by \in Emitters
  BY DEF TypeOK, Event
<1> QED  BY <1>1, <1>2, <1>3 DEF Posting, Made

(* Both posts are of an event that was not posted before. *)
LEMMA PostIsNew ==
  ASSUME TypeOK, Posting, NEW e \in Emitters, Post(e)
  PROVE  /\ Current(e) \in Event /\ Handle(Current(e)) /\ TypeOK' /\ Posting'
         /\ \A m \in DOMAIN posted : posted[m] # Current(e)
<1>1. /\ Current(e).by = e /\ Current(e).k = sent[e] /\ Current(e) \in Event
      /\ busy[e] /\ busy' = [busy EXCEPT ![e] = FALSE] /\ busy \in [Emitters -> BOOLEAN]
      /\ Handle(Current(e)) /\ UNCHANGED lateEvents
  BY Sizes DEF Post, Current, Event, TypeOK, Posting
<1>2. \A m \in DOMAIN posted : posted[m].by = e => posted[m].k < sent[e]
  BY <1>1 DEF Posting, Made
<1>3. \A m \in DOMAIN posted : posted[m] \in Event  BY DEF TypeOK
<1>4. sent[e] \in Nat  BY Sizes DEF TypeOK
<1>5. \A m \in DOMAIN posted : posted[m] # Current(e)
  BY <1>1, <1>2, <1>4
<1>6. busy' \in [Emitters -> BOOLEAN] /\ ~busy'[e] /\ \A d \in Emitters : busy'[d] => busy[d]
  BY <1>1
<1>7. TypeOK'  BY <1>1, <1>6, HandleTypes
<1>8. Posting'
  BY <1>1, <1>2, <1>4, <1>5, <1>6, HandlePosting
<1> QED  BY <1>1, <1>5, <1>7, <1>8

LEMMA PostLateIsNew ==
  ASSUME TypeOK, Posting, NEW ev \in lateEvents, PostLate(ev)
  PROVE  /\ ev \in Event /\ Handle(ev) /\ TypeOK' /\ Posting'
         /\ \A m \in DOMAIN posted : posted[m] # ev
<1>1. /\ ev \in Event /\ ev.by \in Emitters /\ Handle(ev) /\ UNCHANGED <<busy, lateEvents>>
      /\ busy \in [Emitters -> BOOLEAN]
      /\ \A m \in DOMAIN posted : posted[m] # ev
  BY DEF PostLate, TypeOK, Event, Range
<1>2. TypeOK'  BY <1>1, HandleTypes
<1>3. ev.k <= sent[ev.by] /\ (~busy'[ev.by] \/ ev.k < sent[ev.by])
  BY <1>1 DEF Posting, Made
<1>4. Posting'
  BY <1>1, <1>3, HandlePosting
<1> QED  BY <1>1, <1>2, <1>4

-----------------------------------------------------------------------------
(* The buffer *)

LEMMA HandleBuffered ==
  ASSUME TypeOK, Buffered, NEW ev \in Event, Handle(ev)
  PROVE  Buffered'
<1> DEFINE L == Len(posted)
           B == Len(buffer)
           lo == L - B
           c == Append(buffer, ev)
<1>1. /\ posted' = Append(posted, ev) /\ base' = base
      /\ posted \in Seq(Event) /\ buffer \in Seq(Event)
      /\ buffer' = IF Len(c) > BufferSize THEN Tail(c) ELSE c
  BY DEF Handle, TypeOK, Push
<1>2. L \in Nat /\ B \in Nat /\ lo \in Int /\ base \in 0..L
  BY DEF TypeOK
<1>3. posted' \in Seq(Event) /\ posted'[L + 1] = ev
  BY <1>1
<1>4. Len(posted') = L + 1
  BY <1>1
<1>5. c \in Seq(Event) /\ c # <<>>
  BY <1>1
<1>6. Len(c) = B + 1
  BY <1>1
<1>7. Len(Tail(c)) = B
  BY <1>2, <1>5, <1>6
<1>8. B = IF BufferSize <= L - base THEN BufferSize ELSE L - base
  BY DEF Buffered, Smaller
<1>9. Window(buffer, Append(posted, ev), lo)
  BY <1>1, <1>2, WindowGrows DEF Buffered
<1> HIDE DEF c, L, B, lo
<1>10. Window(c, posted', lo)
  <2>1. lo + B + 1 = L + 1  BY <1>2 DEF lo
  <2>2. Window(buffer, posted', lo) /\ ev = posted'[lo + B + 1]
    BY <1>1, <1>3, <1>9, <2>1
  <2>3. lo + Len(buffer) + 1 <= Len(posted') /\ ev = posted'[lo + Len(buffer) + 1]
    BY <1>2, <1>4, <2>1, <2>2 DEF B
  <2> QED  BY <1>1, <1>2, <1>3, <2>2, <2>3, WindowAppend DEF c
<1>11. CASE Len(c) > BufferSize
  <2>1. buffer' = Tail(c)
    BY <1>1, <1>11
  <2>0. Len(buffer') = B
    BY <1>7, <2>1
  <2>9. B = BufferSize /\ B = Smaller(BufferSize, (L + 1) - base)
    BY <1>2, <1>6, <1>8, <1>11, Sizes DEF Smaller
  <2>2. Len(buffer') = Smaller(BufferSize, Len(posted') - base)
    BY <1>4, <2>0, <2>9
  <2>3. lo + 1 = Len(posted') - Len(buffer')
    <3>1. lo + 1 = (L + 1) - B  BY <1>2 DEF lo
    <3> QED  BY <1>4, <2>0, <3>1
  <2>4. Window(Tail(c), posted', lo + 1)
    BY <1>2, <1>3, <1>5, <1>10, WindowTail
  <2> QED  BY <1>1, <1>4, <2>1, <2>2, <2>3, <2>4 DEF Buffered
<1>12. CASE ~(Len(c) > BufferSize)
  <2>1. buffer' = c
    BY <1>1, <1>12
  <2>0. Len(buffer') = B + 1
    BY <1>6, <2>1
  <2>9. B + 1 = Smaller(BufferSize, (L + 1) - base)
    BY <1>2, <1>6, <1>8, <1>12, Sizes DEF Smaller
  <2>2. Len(buffer') = Smaller(BufferSize, Len(posted') - base)
    BY <1>4, <2>0, <2>9
  <2>3. lo = Len(posted') - Len(buffer')
    <3>1. lo = (L + 1) - (B + 1)  BY <1>2 DEF lo
    <3> QED  BY <1>4, <2>0, <3>1
  <2> QED  BY <1>1, <1>4, <1>10, <2>1, <2>2, <2>3 DEF Buffered
<1> QED  BY <1>11, <1>12

LEMMA BufferedKept ==
  ASSUME TypeOK, Buffered, UNCHANGED <<buffer, posted, base>> \/ Restart
  PROVE  Buffered'
<1>1. CASE UNCHANGED <<buffer, posted, base>>  BY <1>1 DEF Buffered
<1>2. CASE Restart
  <2>1. /\ buffer' = <<>> /\ posted' = posted /\ base' = Len(posted)
        /\ posted \in Seq(Event) /\ Len(posted) \in Nat /\ Len(buffer') = 0
    BY <1>2 DEF Restart, TypeOK
  <2>2. Window(<<>>, posted, Len(posted))
    BY <2>1, WindowEmpty
  <2> QED  BY <2>1, <2>2, Sizes DEF Buffered, Smaller
<1> QED  BY <1>1, <1>2

-----------------------------------------------------------------------------
(* The replay *)

(* The log of posts only grows at its end. *)
Grows == posted' = posted \/ \E ev \in Event : posted' = Append(posted, ev)

LEMMA WindowKept ==
  ASSUME TypeOK, Grows, NEW seq \in Seq(Event), NEW lo \in Int, Window(seq, posted, lo)
  PROVE  Window(seq, posted', lo)
<1>1. posted \in Seq(Event)  BY DEF TypeOK
<1>2. CASE posted' = posted  BY <1>2
<1>3. ASSUME NEW ev \in Event, posted' = Append(posted, ev)
      PROVE  Window(seq, posted', lo)
  <2>1. Window(seq, Append(posted, ev), lo)  BY <1>1, WindowGrows
  <2> QED  BY <1>3, <2>1
<1> QED  BY <1>2, <1>3 DEF Grows

LEMMA ReplayedKept ==
  ASSUME TypeOK, NEW s \in Streams, Replayed(s), Grows,
         mark'[s].begun = mark[s].begun, left'[s] = left[s],
         shown'[s].replay = shown[s].replay,
         gen'[s] \in {"none", "created"} => gen[s] \in {"none", "created"},
         gen'[s] \in {"replay", "live"} =>
            /\ gen[s] \in {"replay", "live"} /\ base' = base
            /\ mark'[s].registered = mark[s].registered,
         gen'[s] = "live" => left[s] = <<>>
  PROVE  Replayed(s)'
<1>0. shown[s].replay \in Seq(Event) /\ left[s] \in Seq(Event) /\ mark[s].begun \in Nat
  BY StreamTypes
<1>1. mark[s].begun - Block(s) \in Int /\ mark[s].begun - Len(left[s]) \in Int
  BY <1>0, Lengths DEF Block
<1>2. /\ Window(shown[s].replay, posted', mark[s].begun - Block(s))
      /\ Window(left[s], posted', mark[s].begun - Len(left[s]))
  BY <1>0, <1>1, WindowKept DEF Replayed
<1>3. Block(s)' = Block(s)
  BY DEF Block
<1>4. /\ gen'[s] \in {"none", "created"} => Block(s) = 0
      /\ gen'[s] \in {"replay", "live"} =>
           /\ base' <= mark'[s].registered /\ mark'[s].registered <= mark'[s].begun
           /\ Block(s) = Smaller(BufferSize, mark'[s].begun - base')
  BY DEF Replayed
<1> QED  BY <1>2, <1>3, <1>4 DEF Replayed

LEMMA BeginReplayed ==
  ASSUME TypeOK, Buffered, NEW s \in Streams, Replayed(s), Followed(s), Begin(s)
  PROVE  Replayed(s)'
<1> DEFINE L == Len(posted)
<1>1. /\ shown[s].replay \in Seq(Event) /\ left[s] \in Seq(Event)
      /\ posted \in Seq(Event) /\ buffer \in Seq(Event)
      /\ base \in Nat /\ L \in Nat /\ base <= L
      /\ mark[s].registered \in Nat /\ Len(buffer) \in Nat
  BY StreamTypes
<1>2. /\ mark'[s].begun = L /\ mark'[s].registered = mark[s].registered
      /\ base' = base /\ posted' = posted
  BY DEF Begin, TypeOK
<1>3. shown[s].replay = <<>> /\ left[s] = <<>>
  <2>1. Len(shown[s].replay) + Len(left[s]) = 0
    BY DEF Replayed, Begin, Block
  <2>3. Len(shown[s].replay) = 0 /\ Len(left[s]) = 0
    BY <1>1, <2>1, Lengths
  <2> QED  BY <1>1, <2>3
<1>4. base <= mark[s].registered /\ mark[s].registered <= L
  BY DEF Followed, Begin
<1>5. Len(buffer) = Smaller(BufferSize, L - base) /\ Window(buffer, posted, L - Len(buffer))
  BY DEF Buffered
<1>6. CASE buffer = <<>>
  <2>1. gen'[s] = "live" /\ left'[s] = <<>> /\ shown'[s].replay = <<>>
    BY <1>3, <1>6 DEF Begin, TypeOK
  <2>2. Block(s)' = 0 /\ Len(buffer) = 0 /\ Len(left'[s]) = 0
    BY <1>6, <2>1 DEF Block
  <2>3. Window(<<>>, posted, L)
    BY <1>1, WindowEmpty
  <2>4. L - 0 = L  BY <1>1
  <2> QED  BY <1>2, <1>4, <1>5, <2>1, <2>2, <2>3, <2>4 DEF Replayed
<1>7. CASE buffer # <<>>
  <2>1. gen'[s] = "replay" /\ left'[s] = Tail(buffer) /\ shown'[s].replay = <<Head(buffer)>>
    BY <1>7 DEF Begin, TypeOK
  <2>2. /\ Len(left'[s]) = Len(buffer) - 1 /\ Len(shown'[s].replay) = 1
        /\ Block(s)' = Len(buffer)
    BY <1>1, <1>7, <2>1 DEF Block
  <2>3. /\ Window(Tail(buffer), posted, (L - Len(buffer)) + 1)
        /\ Head(buffer) = posted[(L - Len(buffer)) + 1]
        /\ (L - Len(buffer)) + 1 \in 1..L /\ Head(buffer) \in Event
    BY <1>1, <1>5, <1>7, WindowTail
  <2>4. (L - Len(buffer)) + 1 = L - Len(left'[s])
    BY <1>1, <2>2
  <2>5. Window(<<Head(buffer)>>, posted, L - Len(buffer))
    BY <1>1, <2>3 DEF Window
  <2> QED  BY <1>2, <1>4, <1>5, <2>1, <2>2, <2>3, <2>4, <2>5 DEF Replayed
<1> QED  BY <1>6, <1>7

LEMMA ReplayNextReplayed ==
  ASSUME TypeOK, NEW s \in Streams, Replayed(s), ReplayNext(s)
  PROVE  Replayed(s)'
<1> DEFINE b == mark[s].begun
           old == shown[s].replay
           new == left[s]
           k == Len(old)
           l == Len(new)
<1>1. /\ old \in Seq(Event) /\ new \in Seq(Event) /\ new # <<>> /\ posted \in Seq(Event)
  BY StreamTypes DEF ReplayNext
<1>2. b \in Nat  BY StreamTypes
<1>3. k \in Nat /\ l \in Nat /\ Len(posted) \in Nat  BY <1>1
<1>4. Head(new) \in Event /\ Len(Tail(new)) = l - 1 /\ Len(Append(old, Head(new))) = k + 1
  BY <1>1
<1>5. /\ shown'[s].replay = Append(old, Head(new))
      /\ left'[s] = Tail(new)
      /\ gen'[s] = "replay" /\ gen[s] = "replay"
      /\ UNCHANGED <<posted, mark, base>>
  BY DEF ReplayNext, TypeOK
<1>6. /\ Window(old, posted, b - (k + l)) /\ Window(new, posted, b - l)
      /\ base <= mark[s].registered /\ mark[s].registered <= b
      /\ k + l = Smaller(BufferSize, b - base)
  BY <1>5 DEF Replayed, Block
<1> HIDE DEF b, old, new, k, l
<1>7. /\ Window(Tail(new), posted, (b - l) + 1)
      /\ Head(new) = posted[(b - l) + 1] /\ (b - l) + 1 \in 1..Len(posted)
  <2>1. b - l \in Int  BY <1>2, <1>3
  <2> QED  BY <1>1, <1>6, <2>1, WindowTail
<1>8. Window(Append(old, Head(new)), posted, b - (k + l))
  <2>1. /\ (b - (k + l)) + Len(old) + 1 = (b - l) + 1 /\ b - (k + l) \in Int
    BY <1>2, <1>3 DEF k
  <2>2. /\ (b - (k + l)) + Len(old) + 1 <= Len(posted)
        /\ Head(new) = posted[(b - (k + l)) + Len(old) + 1]
    BY <1>3, <1>7, <2>1
  <2> QED  BY <1>1, <1>4, <1>6, <2>1, <2>2, WindowAppend
<1>9. Block(s)' = k + l
  <2>1. Block(s)' = (k + 1) + (l - 1)  BY <1>4, <1>5 DEF Block
  <2> QED  BY <1>3, <2>1
<1>10. Len(left'[s]) = l - 1 /\ b - (l - 1) = (b - l) + 1
  BY <1>2, <1>3, <1>4, <1>5
<1>11. mark'[s].begun = b /\ mark'[s].registered = mark[s].registered
  BY <1>5 DEF b
<1> QED  BY <1>5, <1>6, <1>7, <1>8, <1>9, <1>10, <1>11 DEF Replayed

-----------------------------------------------------------------------------
(* The queue and what was read from it *)

LEMMA LogGrows ==
  ASSUME TypeOK, Grows
  PROVE  /\ DOMAIN posted \subseteq DOMAIN posted'
         /\ \A m \in DOMAIN posted : posted'[m] = posted[m]
         /\ Len(posted) <= Len(posted')
<1>1. posted \in Seq(Event) /\ Len(posted) \in Nat  BY DEF TypeOK
<1>2. CASE posted' = posted  BY <1>1, <1>2
<1>3. ASSUME NEW ev \in Event, posted' = Append(posted, ev)
      PROVE  /\ DOMAIN posted \subseteq DOMAIN posted'
             /\ \A m \in DOMAIN posted : posted'[m] = posted[m]
             /\ Len(posted) <= Len(posted')
  BY <1>1, <1>3
<1> QED  BY <1>2, <1>3 DEF Grows

LEMMA FollowedKept ==
  ASSUME TypeOK, TypeOK', Grows, NEW s \in Streams, Followed(s),
         mark'[s].registered = mark[s].registered, mark'[s].lost = mark[s].lost,
         Line(s)' = Line(s),
         s \in subscribers' => s \in subscribers /\ posted' = posted,
         gen'[s] \in {"none", "created", "replay"} =>
            gen[s] \in {"none", "created", "replay"} /\ shown'[s].live = shown[s].live,
         gen'[s] = "none" => gen[s] = "none" /\ queue'[s] = queue[s],
         gen'[s] \in {"created", "replay", "live"} =>
            /\ gen[s] \in {"created", "replay", "live"}
            /\ s \in subscribers' /\ base' = base
  PROVE  Followed(s)'
<1>1. /\ mark[s].registered \in Nat /\ Line(s) \in Seq(Event)
      /\ Len(posted) \in Nat
  BY StreamTypes
<1>7. Len(posted') \in Nat
  <2>1. posted' \in Seq(Event)  BY DEF TypeOK
  <2> QED  BY <2>1
<1>2. mark[s].registered <= Len(posted')
  BY <1>1, <1>7, LogGrows DEF Followed
<1>3. /\ \A i \in DOMAIN Line(s) :
           \E m \in DOMAIN posted' : m > mark[s].registered /\ posted'[m] = Line(s)[i]
      /\ \A i, j \in DOMAIN Line(s) : i < j =>
           \E m, n \in DOMAIN posted' :
              m < n /\ posted'[m] = Line(s)[i] /\ posted'[n] = Line(s)[j]
  BY LogGrows DEF Followed, After, Before
<1>4. ~mark[s].lost => Window(Line(s), posted', mark[s].registered)
  BY <1>1, WindowKept DEF Followed
<1>5. ~mark[s].lost /\ s \in subscribers' =>
        mark[s].registered + Len(Line(s)) = Len(posted')
  BY DEF Followed
<1>6. /\ gen'[s] \in {"none", "created", "replay"} => shown'[s].live = <<>>
      /\ gen'[s] = "none" => s \notin subscribers' /\ queue'[s] = <<>> /\ ~mark[s].lost
      /\ gen'[s] \in {"created", "replay", "live"} =>
           s \in subscribers' /\ base' <= mark[s].registered
  BY DEF Followed
<1> QED  BY <1>2, <1>3, <1>4, <1>5, <1>6 DEF Followed, After, Before

LEMMA HandleFollowed ==
  ASSUME TypeOK, TypeOK', NEW ev \in Event, Handle(ev), NEW s \in Streams, Followed(s)
  PROVE  Followed(s)'
<1>1. /\ posted' = Append(posted, ev) /\ gen' = gen /\ base' = base
      /\ subscribers' = subscribers /\ shown' = shown
      /\ queue'[s] = IF s \in subscribers THEN Put(queue[s], ev) ELSE queue[s]
      /\ mark'[s].registered = mark[s].registered
      /\ mark'[s].lost = (mark[s].lost \/ (s \in subscribers /\ Len(queue[s]) = QueueSize))
  BY DEF Handle, Receivers, TypeOK
<1>2. Grows  BY <1>1 DEF Grows
<1>3. CASE s \notin subscribers
  <2>1. Line(s)' = Line(s)  BY <1>1, <1>3 DEF Line
  <2>2. gen[s] \in {"created", "replay", "live"} => s \in subscribers
    BY DEF Followed
  <2>3. mark'[s].lost = mark[s].lost  BY <1>1, <1>3, StreamTypes
  <2>4. /\ gen'[s] = gen[s] /\ shown'[s].live = shown[s].live /\ queue'[s] = queue[s]
    BY <1>1, <1>3
  <2> QED  BY <1>1, <1>2, <1>3, <2>1, <2>2, <2>3, <2>4, FollowedKept
<1>4. CASE s \in subscribers
  <2> DEFINE r == mark[s].registered
             old == Line(s)
             L == Len(posted)
  <2>1. /\ r \in Nat /\ old \in Seq(Event) /\ posted \in Seq(Event) /\ L \in Nat
        /\ queue[s] \in Seq(Event) /\ shown[s].live \in Seq(Event)
    BY StreamTypes
  <2>2. L + 1 \in DOMAIN posted' /\ posted'[L + 1] = ev /\ Len(posted') = L + 1
    BY <1>1, <2>1
  <2>3. /\ gen[s] # "none" /\ r <= L
        /\ gen[s] \in {"created", "replay"} => shown[s].live = <<>>
        /\ gen[s] \in {"created", "replay", "live"} => base <= r
    BY <1>4 DEF Followed
  <2>4. \A i \in DOMAIN old :
          \E m \in DOMAIN posted' : m > r /\ m <= L /\ posted'[m] = old[i]
    <3>1. \A m \in DOMAIN posted : m <= L  BY <2>1
    <3> QED  BY <1>2, <3>1, LogGrows DEF Followed, After
  <2>5. \A i, j \in DOMAIN old : i < j =>
          \E m, n \in DOMAIN posted' : m < n /\ posted'[m] = old[i] /\ posted'[n] = old[j]
    BY <1>2, LogGrows DEF Followed, Before
  <2>6. CASE Len(queue[s]) = QueueSize
    <3>0. ~(Len(queue[s]) < QueueSize)  BY <2>6, Sizes
    <3>1. queue'[s] = queue[s] /\ mark'[s].lost = TRUE
      BY <1>1, <1>4, <2>6, <3>0 DEF Put
    <3>2. Line(s)' = old  BY <1>1, <3>1 DEF Line
    <3>3. /\ r <= Len(posted')
          /\ \A i \in DOMAIN old : \E m \in DOMAIN posted' : m > r /\ posted'[m] = old[i]
      BY <2>1, <2>2, <2>3, <2>4
    <3> HIDE DEF old, r
    <3> QED  BY <1>1, <1>4, <2>3, <2>5, <3>1, <3>2, <3>3 DEF Followed, After, Before, r
  <2>7. CASE Len(queue[s]) # QueueSize
    <3>1. /\ queue'[s] = Append(queue[s], ev) /\ mark'[s].lost = mark[s].lost
      <4>1. Len(queue[s]) <= QueueSize /\ Len(queue[s]) \in Nat  BY <2>1 DEF TypeOK
      <4>2. Len(queue[s]) < QueueSize  BY <2>7, <4>1, Sizes
      <4> QED  BY <1>1, <1>4, <2>7, <4>2 DEF Put, TypeOK
    <3>2. Line(s)' = Append(old, ev)
      <4>1. Line(s)' = shown[s].live \o Append(queue[s], ev)  BY <1>1, <3>1 DEF Line
      <4>2. shown[s].live \o Append(queue[s], ev) = Append(shown[s].live \o queue[s], ev)
        <5> DEFINE a == shown[s].live
                   b == queue[s]
        <5>1. a \in Seq(Event) /\ b \in Seq(Event)  BY <2>1
        <5> HIDE DEF a, b
        <5>2. a \o Append(b, ev) = Append(a \o b, ev)  BY <5>1, ConcatAppend
        <5> QED  BY <5>2 DEF a, b
      <4>3. old = shown[s].live \o queue[s]  BY DEF Line
      <4> HIDE DEF old
      <4> QED  BY <4>1, <4>2, <4>3
    <3>3. /\ Len(old) \in Nat /\ DOMAIN old = 1..Len(old)
          /\ DOMAIN Append(old, ev) = 1..(Len(old) + 1)
          /\ \A i \in DOMAIN old : Append(old, ev)[i] = old[i]
          /\ Append(old, ev)[Len(old) + 1] = ev
          /\ Len(Append(old, ev)) = Len(old) + 1
      BY <2>1
    <3>4. \A i \in DOMAIN Append(old, ev) : i \in DOMAIN old \/ i = Len(old) + 1
      BY <3>3
    <3>5. ~mark[s].lost => r + Len(old) = L /\ Window(old, posted, r)
      BY <1>4 DEF Followed
    <3> HIDE DEF old, r, L
    <3>6. \A i \in DOMAIN Append(old, ev) :
            \E m \in DOMAIN posted' : m > r /\ posted'[m] = Append(old, ev)[i]
      <4>1. L + 1 > r  BY <2>1, <2>3
      <4> QED  BY <2>2, <2>4, <3>3, <3>4, <4>1
    <3>7. \A i, j \in DOMAIN Append(old, ev) : i < j =>
            \E m, n \in DOMAIN posted' :
               m < n /\ posted'[m] = Append(old, ev)[i] /\ posted'[n] = Append(old, ev)[j]
      <4> TAKE i, j \in DOMAIN Append(old, ev)
      <4> HAVE i < j
      <4>1. i \in DOMAIN old  BY <3>3, <3>4
      <4>2. CASE j \in DOMAIN old  BY <2>5, <3>3, <4>1, <4>2
      <4>3. CASE j = Len(old) + 1
        <5>1. PICK m \in DOMAIN posted' : m <= L /\ posted'[m] = old[i]
          BY <2>4, <4>1
        <5>2. m < L + 1
          <6>1. m \in Int  BY <1>1, <2>1, <2>2, <5>1
          <6> QED  BY <2>1, <5>1, <6>1
        <5> QED  BY <2>2, <3>3, <4>1, <4>3, <5>1, <5>2
      <4> QED  BY <3>4, <4>2, <4>3
    <3>8. ~mark[s].lost => Window(Append(old, ev), posted', r) /\ r + (Len(old) + 1) = L + 1
      <4> SUFFICES ASSUME ~mark[s].lost
                   PROVE  Window(Append(old, ev), posted', r) /\ r + (Len(old) + 1) = L + 1
        OBVIOUS
      <4>0. posted' \in Seq(Event) /\ r \in Int
        BY <2>1 DEF TypeOK
      <4>1. Window(old, posted', r)
        BY <1>2, <2>1, <3>5, <4>0, WindowKept
      <4>2. r + Len(old) + 1 = L + 1  BY <2>1, <3>3, <3>5
      <4>3. r + Len(old) + 1 <= Len(posted') /\ ev = posted'[r + Len(old) + 1]
        BY <2>1, <2>2, <4>2
      <4>4. Window(Append(old, ev), posted', r)
        BY <2>1, <4>0, <4>1, <4>3, WindowAppend
      <4> DEFINE k == Len(old)
      <4> HIDE DEF k
      <4>5. r + k = L => r + (k + 1) = L + 1
        BY <2>1, <3>3 DEF k
      <4> QED  BY <3>5, <4>4, <4>5 DEF k
    <3>9. r <= Len(posted')  BY <2>1, <2>2, <2>3
    <3>10. mark'[s].registered = r /\ Len(Line(s)') = Len(old) + 1
      BY <1>1, <3>2, <3>3 DEF r
    <3> DEFINE line == Line(s)'
    <3>11. /\ line = Append(old, ev) /\ mark'[s].registered = r /\ Len(line) = Len(old) + 1
           /\ mark'[s].lost = mark[s].lost /\ Len(posted') = L + 1
      BY <2>2, <3>1, <3>2, <3>10
    <3> HIDE DEF line
    <3>12. /\ \A i \in DOMAIN line : \E m \in DOMAIN posted' : m > r /\ posted'[m] = line[i]
           /\ \A i, j \in DOMAIN line : i < j =>
                \E m, n \in DOMAIN posted' : m < n /\ posted'[m] = line[i] /\ posted'[n] = line[j]
           /\ ~mark'[s].lost => Window(line, posted', r) /\ r + Len(line) = Len(posted')
      BY <3>6, <3>7, <3>8, <3>11
    <3>13. /\ gen'[s] \in {"none", "created", "replay"} => shown'[s].live = <<>>
           /\ gen'[s] = "none" => FALSE
           /\ gen'[s] \in {"created", "replay", "live"} => s \in subscribers' /\ base' <= r
      BY <1>1, <1>4, <2>3 DEF r
    <3> QED  BY <3>9, <3>11, <3>12, <3>13 DEF Followed, After, Before, line
  <2> QED  BY <2>6, <2>7
<1> QED  BY <1>3, <1>4

LEMMA ConnectFollowed ==
  ASSUME TypeOK, NEW s \in Streams, Followed(s), Connect(s)
  PROVE  Followed(s)'
<1>1. /\ shown[s].live = <<>> /\ queue[s] = <<>> /\ ~mark[s].lost
      /\ Len(posted) \in Nat /\ base <= Len(posted) /\ posted \in Seq(Event)
  BY DEF Followed, Connect, TypeOK
<1>2. /\ UNCHANGED <<shown, queue, posted, base>> /\ s \in subscribers'
      /\ gen'[s] = "created" /\ mark'[s].registered = Len(posted)
      /\ mark'[s].lost = mark[s].lost
  BY DEF Connect, TypeOK
<1>3. Line(s)' = <<>>
  BY <1>1, <1>2 DEF Line
<1>4. Window(<<>>, posted, Len(posted)) /\ Len(posted) + Len(<<>>) = Len(posted)
  BY <1>1, WindowEmpty
<1> QED  BY <1>1, <1>2, <1>3, <1>4 DEF Followed

-----------------------------------------------------------------------------
(* The steps of a stream *)

LEMMA StreamUnchanged ==
  ASSUME TypeOK, NEW s \in Streams, Connect(s) \/ Serve(s) \/ Disconnect(s)
  PROVE  /\ UNCHANGED <<sent, busy, lateEvents, buffer, posted, base>>
         /\ \A t \in Streams \ {s} :
              /\ gen'[t] = gen[t] /\ queue'[t] = queue[t] /\ left'[t] = left[t]
              /\ shown'[t] = shown[t] /\ mark'[t] = mark[t]
              /\ t \in subscribers' <=> t \in subscribers
<1>1. /\ gen \in [Streams -> {"none", "created", "replay", "live", "closed"}]
      /\ queue \in [Streams -> Seq(Event)] /\ left \in [Streams -> Seq(Event)]
      /\ shown \in [Streams -> [replay: Seq(Event), live: Seq(Event)]]
      /\ mark \in [Streams -> [registered: Nat, begun: Nat, lost: BOOLEAN]]
  BY DEF TypeOK
<1>2. CASE Connect(s)  BY <1>1, <1>2 DEF Connect, program
<1>3. CASE Begin(s)  BY <1>1, <1>3 DEF Begin, program
<1>4. CASE ReplayNext(s)  BY <1>1, <1>4 DEF ReplayNext, program
<1>5. CASE ReplayRaises(s)  BY <1>1, <1>5 DEF ReplayRaises, Close, program, history
<1>6. CASE ReplayEnds(s)  BY <1>1, <1>6 DEF ReplayEnds, program, history
<1>7. CASE Get(s)  BY <1>1, <1>7 DEF Get, program
<1>8. CASE Disconnect(s)  BY <1>1, <1>8 DEF Disconnect, Close, program, history
<1> QED  BY <1>2, <1>3, <1>4, <1>5, <1>6, <1>7, <1>8 DEF Serve

LEMMA StreamReplayed ==
  ASSUME TypeOK, Buffered, NEW s \in Streams, Replayed(s), Followed(s),
         Connect(s) \/ Serve(s) \/ Disconnect(s)
  PROVE  Replayed(s)'
<1>1. UNCHANGED <<posted, base>> /\ Grows
  BY StreamUnchanged DEF Grows
<1>2. CASE Connect(s)
  <2>1. /\ gen[s] = "none" /\ gen'[s] = "created" /\ UNCHANGED <<left, shown>>
        /\ mark'[s].begun = mark[s].begun
    BY <1>2 DEF Connect, TypeOK
  <2> QED  BY <1>1, <2>1, ReplayedKept
<1>3. CASE Begin(s)  BY <1>3, BeginReplayed
<1>4. CASE ReplayNext(s)  BY <1>4, ReplayNextReplayed
<1>5. CASE ReplayRaises(s)
  <2>1. gen'[s] = "closed" /\ UNCHANGED <<left, shown, mark>>
    BY <1>5 DEF ReplayRaises, Close, history, TypeOK
  <2> QED  BY <1>1, <2>1, ReplayedKept
<1>6. CASE ReplayEnds(s)
  <2>1. /\ gen[s] = "replay" /\ left[s] = <<>> /\ gen'[s] = "live"
        /\ UNCHANGED <<left, shown, mark>>
    BY <1>6 DEF ReplayEnds, history, TypeOK
  <2> QED  BY <1>1, <2>1, ReplayedKept
<1>7. CASE Get(s)
  <2>1. /\ gen[s] = "live" /\ gen'[s] = "live" /\ UNCHANGED <<left, mark>>
        /\ shown'[s].replay = shown[s].replay
    BY <1>7 DEF Get, TypeOK
  <2>2. left[s] = <<>>  BY <2>1 DEF Replayed
  <2> QED  BY <1>1, <2>1, <2>2, ReplayedKept
<1>8. CASE Disconnect(s)
  <2>1. gen'[s] = "closed" /\ UNCHANGED <<left, shown, mark>>
    BY <1>8 DEF Disconnect, Close, history, TypeOK
  <2> QED  BY <1>1, <2>1, ReplayedKept
<1> QED  BY <1>2, <1>3, <1>4, <1>5, <1>6, <1>7, <1>8 DEF Serve

LEMMA StreamFollowed ==
  ASSUME TypeOK, TypeOK', NEW s \in Streams, Followed(s),
         Connect(s) \/ Serve(s) \/ Disconnect(s)
  PROVE  Followed(s)'
<1>1. UNCHANGED <<posted, base>> /\ Grows
  BY StreamUnchanged DEF Grows
<1>2. CASE Connect(s)  BY <1>2, ConnectFollowed
<1>3. CASE Begin(s)
  <2>1. /\ gen[s] = "created" /\ gen'[s] \in {"replay", "live"} /\ s \in subscribers
        /\ UNCHANGED <<subscribers, queue>> /\ shown'[s].live = shown[s].live
        /\ mark'[s].registered = mark[s].registered /\ mark'[s].lost = mark[s].lost
    BY <1>3 DEF Begin, TypeOK, Followed
  <2>2. Line(s)' = Line(s)  BY <2>1 DEF Line
  <2> QED  BY <1>1, <2>1, <2>2, FollowedKept
<1>4. CASE ReplayNext(s)
  <2>1. /\ gen[s] = "replay" /\ UNCHANGED <<gen, subscribers, queue, mark>> /\ s \in subscribers
        /\ shown'[s].live = shown[s].live
    BY <1>4 DEF ReplayNext, TypeOK, Followed
  <2>2. Line(s)' = Line(s)  BY <2>1 DEF Line
  <2> QED  BY <1>1, <2>1, <2>2, FollowedKept
<1>5. CASE ReplayRaises(s) \/ Disconnect(s)
  <2>1. /\ gen'[s] = "closed" /\ UNCHANGED <<queue, shown, mark>>
        /\ s \in subscribers' => s \in subscribers
    BY <1>5 DEF ReplayRaises, Disconnect, Close, history, TypeOK
  <2>2. Line(s)' = Line(s)  BY <2>1 DEF Line
  <2> QED  BY <1>1, <2>1, <2>2, FollowedKept
<1>6. CASE ReplayEnds(s)
  <2>1. /\ gen[s] = "replay" /\ gen'[s] = "live" /\ s \in subscribers
        /\ UNCHANGED <<subscribers, queue, shown, mark>>
    BY <1>6 DEF ReplayEnds, history, TypeOK, Followed
  <2>2. Line(s)' = Line(s)  BY <2>1 DEF Line
  <2> QED  BY <1>1, <2>1, <2>2, FollowedKept
<1>7. CASE Get(s)
  <2>1. /\ gen[s] = "live" /\ UNCHANGED <<gen, subscribers, mark>> /\ s \in subscribers
        /\ shown'[s].live = Append(shown[s].live, Head(queue[s]))
        /\ queue'[s] = Tail(queue[s]) /\ queue[s] # <<>>
    BY <1>7 DEF Get, TypeOK, Followed
  <2>2. Append(shown[s].live, Head(queue[s])) \o Tail(queue[s]) = shown[s].live \o queue[s]
    BY <2>1, StreamTypes, ConcatHead
  <2>3. Line(s)' = Line(s)  BY <2>1, <2>2 DEF Line
  <2> QED  BY <1>1, <2>1, <2>3, FollowedKept
<1> QED  BY <1>2, <1>3, <1>4, <1>5, <1>6, <1>7 DEF Serve

LEMMA StreamStep ==
  ASSUME StreamInv, NEW s \in Streams, Connect(s) \/ Serve(s) \/ Disconnect(s)
  PROVE  StreamInv'
<1>1. TypeOK /\ TypeOK' /\ Posting /\ Buffered
  BY ServeTypes DEF StreamInv
<1>2. UNCHANGED <<sent, busy, lateEvents, buffer, posted, base>> /\ Grows
  BY <1>1, StreamUnchanged DEF Grows
<1>3. Posting'
  BY <1>1, <1>2 DEF Posting, Made
<1>4. Buffered'
  BY <1>1, <1>2, BufferedKept
<1>5. Replayed(s)' /\ Followed(s)'
  BY <1>1, StreamReplayed, StreamFollowed DEF StreamInv
<1>6. ASSUME NEW t \in Streams \ {s} PROVE Replayed(t)' /\ Followed(t)'
  <2>1. /\ gen'[t] = gen[t] /\ queue'[t] = queue[t] /\ left'[t] = left[t]
        /\ shown'[t] = shown[t] /\ mark'[t] = mark[t]
        /\ t \in subscribers' <=> t \in subscribers
    BY <1>1, StreamUnchanged
  <2>2. /\ Replayed(t) /\ Followed(t)
        /\ gen[t] \in {"created", "replay", "live"} => t \in subscribers
        /\ gen[t] = "live" => left[t] = <<>>
    BY DEF StreamInv, Followed, Replayed
  <2>3. Line(t)' = Line(t)  BY <2>1 DEF Line
  <2>4. Replayed(t)'  BY <1>1, <1>2, <2>1, <2>2, ReplayedKept
  <2>5. Followed(t)'  BY <1>1, <1>2, <2>1, <2>2, <2>3, FollowedKept
  <2> QED  BY <2>4, <2>5
<1> QED  BY <1>1, <1>3, <1>4, <1>5, <1>6 DEF StreamInv

-----------------------------------------------------------------------------
(* The steps of the server, and the theorems *)

LEMMA HandleStep ==
  ASSUME StreamInv, NEW ev \in Event, Handle(ev), TypeOK', Posting'
  PROVE  StreamInv'
<1>1. TypeOK /\ Buffered  BY DEF StreamInv
<1>2. Buffered'  BY <1>1, HandleBuffered
<1>3. Grows  BY DEF Handle, Grows
<1>4. ASSUME NEW s \in Streams PROVE Replayed(s)' /\ Followed(s)'
  <2>1. /\ UNCHANGED <<gen, left, shown, base>>
        /\ mark'[s].begun = mark[s].begun /\ mark'[s].registered = mark[s].registered
    BY <1>1 DEF Handle, TypeOK
  <2>2. Replayed(s) /\ Followed(s) /\ (gen[s] = "live" => left[s] = <<>>)
    BY DEF StreamInv, Replayed
  <2> QED  BY <1>1, <1>3, <2>1, <2>2, ReplayedKept, HandleFollowed
<1> QED  BY <1>2, <1>4 DEF StreamInv

LEMMA QuietStep ==
  ASSUME StreamInv, TypeOK', Posting',
         UNCHANGED <<buffer, subscribers, gen, queue, left, posted, shown, mark, base>>
  PROVE  StreamInv'
<1>1. TypeOK /\ Buffered'
  BY BufferedKept DEF StreamInv
<1>2. ASSUME NEW s \in Streams PROVE Replayed(s)' /\ Followed(s)'
  <2>1. Line(s)' = Line(s) /\ Grows  BY DEF Line, Grows
  <2>2. /\ Replayed(s) /\ Followed(s)
        /\ gen[s] \in {"created", "replay", "live"} => s \in subscribers
        /\ gen[s] = "live" => left[s] = <<>>
    BY DEF StreamInv, Followed, Replayed
  <2> QED  BY <1>1, <2>1, <2>2, ReplayedKept, FollowedKept
<1> QED  BY <1>1, <1>2 DEF StreamInv

LEMMA EmitterQuiet ==
  ASSUME StreamInv, NEW e \in Emitters, Emit(e) \/ GiveUp(e) \/ Unreachable(e)
  PROVE  StreamInv'
<1>1. TypeOK' /\ Posting'
  BY EmitterTypes, EmitterPosting DEF StreamInv
<1>2. UNCHANGED <<buffer, subscribers, gen, queue, left, posted, shown, mark, base>>
  BY DEF Emit, GiveUp, Unreachable, stream, history
<1> QED  BY <1>1, <1>2, QuietStep

LEMMA RestartStep == ASSUME StreamInv, Restart PROVE StreamInv'
<1>1. TypeOK /\ TypeOK' /\ Posting' /\ Buffered'
  BY RestartTypes, RestartPosting, BufferedKept DEF StreamInv
<1>2. /\ UNCHANGED <<queue, left, posted, shown, mark>> /\ Grows /\ subscribers' = {}
  BY DEF Restart, Grows
<1>3. ASSUME NEW s \in Streams PROVE Replayed(s)' /\ Followed(s)'
  <2>1. gen'[s] \in {"none", "closed"} /\ (gen'[s] = "none" => gen[s] = "none")
    BY DEF Restart
  <2>2. Line(s)' = Line(s)  BY <1>2 DEF Line
  <2>3. Replayed(s) /\ Followed(s)  BY DEF StreamInv
  <2> QED  BY <1>1, <1>2, <2>1, <2>2, <2>3, ReplayedKept, FollowedKept
<1> QED  BY <1>1, <1>3 DEF StreamInv

LEMMA InitStreamInv == Init => StreamInv
<1> SUFFICES ASSUME Init PROVE StreamInv
  OBVIOUS
<1>1. TypeOK  BY InitTypes
<1>2. /\ posted = <<>> /\ buffer = <<>> /\ base = 0 /\ lateEvents = {} /\ subscribers = {}
      /\ \A e \in Emitters : busy[e] = FALSE
      /\ \A s \in Streams : /\ gen[s] = "none" /\ queue[s] = <<>> /\ left[s] = <<>>
                            /\ shown[s].replay = <<>> /\ shown[s].live = <<>>
                            /\ mark[s].registered = 0 /\ mark[s].begun = 0 /\ ~mark[s].lost
  BY DEF Init
<1>3. Posting  BY <1>2 DEF Posting
<1>4. Window(<<>>, <<>>, 0)  BY DEF Window
<1>5. Buffered
  BY <1>2, <1>4, Sizes DEF Buffered, Smaller
<1>6. ASSUME NEW s \in Streams PROVE Replayed(s) /\ Followed(s)
  <2>9. Line(s) = <<>>
    <3>1. <<>> \in Seq(Event) /\ Line(s) = <<>> \o <<>>  BY <1>2 DEF Line
    <3> QED  BY <3>1, ConcatEmptySeq
  <2>8. Len(left[s]) = 0 /\ Len(shown[s].replay) = 0 /\ Len(posted) = 0
    BY <1>2
  <2>1. Block(s) = 0 /\ Line(s) = <<>> /\ Len(left[s]) = 0 /\ Len(posted) = 0
    BY <2>8, <2>9 DEF Block
  <2>2. 0 - 0 = 0 /\ 0 + 0 = 0  OBVIOUS
  <2>3. Replayed(s)
    <3>1. mark[s].begun - Block(s) = 0 /\ mark[s].begun - Len(left[s]) = 0
      BY <1>2, <2>1, <2>2
    <3>2. Window(shown[s].replay, posted, 0) /\ Window(left[s], posted, 0)
      BY <1>2, <1>4
    <3> QED  BY <1>2, <2>1, <3>1, <3>2 DEF Replayed
  <2>4. Followed(s)
    BY <1>2, <1>4, <2>1, <2>2 DEF Followed
  <2> QED  BY <2>3, <2>4
<1> QED  BY <1>1, <1>3, <1>5, <1>6 DEF StreamInv

LEMMA NextStreamInv == StreamInv /\ [Next]_vars => StreamInv'
<1> SUFFICES ASSUME StreamInv, [Next]_vars PROVE StreamInv'
  OBVIOUS
<1>0. TypeOK /\ Posting  BY DEF StreamInv
<1>1. ASSUME NEW e \in Emitters, Post(e) PROVE StreamInv'
  BY <1>0, <1>1, PostIsNew, HandleStep
<1>2. ASSUME NEW e \in Emitters, Emit(e) \/ GiveUp(e) \/ Unreachable(e) PROVE StreamInv'
  BY <1>2, EmitterQuiet
<1>3. ASSUME NEW ev \in lateEvents, PostLate(ev) PROVE StreamInv'
  BY <1>0, <1>3, PostLateIsNew, HandleStep
<1>4. ASSUME NEW s \in Streams, Connect(s) \/ Serve(s) \/ Disconnect(s) PROVE StreamInv'
  BY <1>4, StreamStep
<1>5. CASE Restart  BY <1>5, RestartStep
<1>6. CASE UNCHANGED vars
  <2>1. TypeOK' /\ Posting'
    BY <1>0, <1>6 DEF vars, program, stream, history, TypeOK, Posting, Made
  <2>2. UNCHANGED <<buffer, subscribers, gen, queue, left, posted, shown, mark, base>>
    BY <1>6 DEF vars, stream, history
  <2> QED  BY <2>1, <2>2, QuietStep
<1> QED  BY <1>1, <1>2, <1>3, <1>4, <1>5, <1>6 DEF Next, EmitterStep

(* The buffer, every block that is replayed and every queue is the part of    *)
(* the log of post_event that the code of the server says it is.             *)
THEOREM StreamInvariant == Spec => []StreamInv
BY InitStreamInv, NextStreamInv, PTL DEF Spec

(* The state of the emitters, of the server and of every stream has its type. *)
THEOREM TypeCorrect == Spec => []TypeOK
<1>1. StreamInv => TypeOK  BY DEF StreamInv
<1> QED  BY <1>1, StreamInvariant, PTL

-----------------------------------------------------------------------------
(* What a page shows *)

LEMMA PositionIs ==
  ASSUME Posting, NEW m \in DOMAIN posted, posted \in Seq(Event)
  PROVE  Position(posted[m]) = m
<1>1. /\ m \in 1..Len(posted)
      /\ \A i \in 1..Len(posted) : posted[i] = posted[m] => i = m
  BY DEF Posting
<1> QED  BY <1>1 DEF Position

(* Line(s) begins with what was shown; the queue follows. *)
LEMMA LineParts ==
  ASSUME TypeOK, NEW s \in Streams
  PROVE  /\ \A i \in DOMAIN shown[s].live : i \in DOMAIN Line(s) /\ Line(s)[i] = shown[s].live[i]
         /\ \A i \in DOMAIN Line(s) : Line(s)[i] \in Range(shown[s].live) \cup Range(queue[s])
         /\ queue[s] # <<>> =>
              /\ Len(shown[s].live) + 1 \in DOMAIN Line(s)
              /\ Line(s)[Len(shown[s].live) + 1] = Head(queue[s])
         /\ Len(shown[s].live) \in Nat
<1> DEFINE a == shown[s].live
           b == queue[s]
           k == Len(a)
           l == Len(b)
<1>1. a \in Seq(Event) /\ b \in Seq(Event)  BY StreamTypes
<1>2. k \in Nat /\ l \in Nat /\ (b # <<>> => l > 0 /\ Head(b) = b[1])  BY <1>1
<1>3. /\ a \o b \in Seq(Event) /\ Len(a \o b) = k + l
      /\ \A i \in 1..(k + l) : (a \o b)[i] = IF i <= k THEN a[i] ELSE b[i - k]
  BY <1>1, ConcatProperties
<1>4. DOMAIN (a \o b) = 1..(k + l) /\ DOMAIN a = 1..k /\ DOMAIN b = 1..l
  BY <1>1, <1>3
<1>5. Line(s) = a \o b  BY DEF Line
<1> HIDE DEF a, b, k, l
<1>6. \A i \in DOMAIN a : i \in DOMAIN (a \o b) /\ (a \o b)[i] = a[i]
  BY <1>2, <1>3, <1>4
<1>7. \A i \in DOMAIN (a \o b) : (a \o b)[i] \in Range(a) \cup Range(b)
  <2> TAKE i \in DOMAIN (a \o b)
  <2>1. CASE i <= k
    BY <1>2, <1>3, <1>4, <2>1 DEF Range
  <2>2. CASE ~(i <= k)
    <3>1. i - k \in DOMAIN b /\ (a \o b)[i] = b[i - k]
      BY <1>2, <1>3, <1>4, <2>2
    <3> QED  BY <3>1 DEF Range
  <2> QED  BY <2>1, <2>2
<1>8. b # <<>> => k + 1 \in DOMAIN (a \o b) /\ (a \o b)[k + 1] = Head(b)
  <2>1. (k + 1) - k = 1 /\ ~(k + 1 <= k)  BY <1>2
  <2> QED  BY <1>2, <1>3, <1>4, <2>1
<1> QED  BY <1>2, <1>5, <1>6, <1>7, <1>8 DEF a, b, k

LEMMA NoGapHolds == StreamInv => NoGap
<1> SUFFICES ASSUME StreamInv,
                    NEW s \in Streams, gen[s] = "live", ~mark[s].lost,
                    NEW i \in 1..Len(posted), i > base,
                    i > mark[s].begun - BufferSize \/ i > mark[s].registered
             PROVE  posted[i] \in Range(shown[s].replay)
                                    \cup Range(shown[s].live) \cup Range(queue[s])
  BY DEF NoGap
<1>1. TypeOK /\ Replayed(s) /\ Followed(s)  BY DEF StreamInv
<1> DEFINE b == mark[s].begun
           r == mark[s].registered
           old == shown[s].replay
           k == Len(old)
           L == Len(posted)
           n == Len(Line(s))
<1>2. /\ old \in Seq(Event) /\ posted \in Seq(Event) /\ Line(s) \in Seq(Event)
      /\ b \in Nat /\ r \in Nat /\ base \in Nat /\ i \in 1..L
  BY <1>1, StreamTypes
<1>3. k \in Nat /\ L \in Nat /\ n \in Nat /\ DOMAIN old = 1..k /\ DOMAIN Line(s) = 1..n
  BY <1>2
<1>4. left[s] = <<>> /\ Len(left[s]) = 0 /\ Block(s) = k + Len(left[s])
  BY <1>1 DEF Replayed, Block
<1>5. Block(s) = k  BY <1>3, <1>4
<1>6. /\ Window(old, posted, b - k) /\ base <= r /\ r <= b
      /\ k = Smaller(BufferSize, b - base)
  BY <1>1, <1>5 DEF Replayed
<1>7. /\ Window(Line(s), posted, r) /\ r + n = L
  BY <1>1 DEF Followed
<1> HIDE DEF b, r, old, k, L, n
<1>8. CASE i > r
  <2>1. i - r \in 1..n /\ r + (i - r) = i  BY <1>2, <1>3, <1>7, <1>8
  <2>2. Line(s)[i - r] = posted[i]  BY <1>7, <2>1 DEF Window, n
  <2>3. posted[i] \in Range(shown[s].live) \cup Range(queue[s])
    BY <1>1, <1>3, <2>1, <2>2, LineParts
  <2> QED  BY <2>3
<1>9. CASE ~(i > r)
  <2>1. i > b - BufferSize  BY <1>9 DEF b, r
  <2>2. i - (b - k) \in 1..k /\ (b - k) + (i - (b - k)) = i
    BY <1>2, <1>3, <1>6, <1>9, <2>1, Sizes DEF Smaller
  <2>3. old[i - (b - k)] = posted[i]  BY <1>6, <2>2 DEF Window, k
  <2>4. posted[i] \in Range(old)  BY <1>3, <2>2, <2>3 DEF Range
  <2> QED  BY <2>4 DEF old
<1> QED  BY <1>8, <1>9

LEMMA ShownBefore ==
  ASSUME StreamInv, NEW s \in Streams, NEW seq \in {shown[s].replay, shown[s].live},
         NEW i \in DOMAIN seq, NEW j \in DOMAIN seq, i < j
  PROVE  Before(seq[i], seq[j])
<1>1. TypeOK /\ Replayed(s) /\ Followed(s)  BY DEF StreamInv
<1>2. CASE seq = shown[s].live
  BY <1>1, <1>2, LineParts DEF Followed
<1>3. CASE seq = shown[s].replay
  <2> DEFINE lo == mark[s].begun - Block(s)
  <2>1. seq \in Seq(Event) /\ posted \in Seq(Event) /\ lo \in Int /\ Window(seq, posted, lo)
    <3>1. lo \in Int  BY <1>1, StreamTypes, Lengths DEF Block
    <3> QED  BY <1>1, <1>3, <3>1, StreamTypes DEF Replayed
  <2> HIDE DEF lo
  <2>2. /\ lo + i \in DOMAIN posted /\ lo + j \in DOMAIN posted /\ lo + i < lo + j
        /\ posted[lo + i] = seq[i] /\ posted[lo + j] = seq[j]
    <3>1. i \in 1..Len(seq) /\ j \in 1..Len(seq)  BY <2>1
    <3>2. /\ Len(seq) \in Nat /\ Len(posted) \in Nat /\ DOMAIN posted = 1..Len(posted)
          /\ lo >= 0 /\ lo + Len(seq) <= Len(posted)
      BY <2>1 DEF Window
    <3> QED  BY <2>1, <3>1, <3>2 DEF Window
  <2> QED  BY <2>2 DEF Before
<1> QED  BY <1>2, <1>3

LEMMA ShownInOrderHolds == StreamInv => ShownInOrder
<1> SUFFICES ASSUME StreamInv, NEW s \in Streams
             PROVE  /\ InPostingOrder(shown[s].replay)
                    /\ InPostingOrder(shown[s].live)
                    /\ \A ev \in Range(shown[s].replay) \cap Range(shown[s].live) :
                         Position(ev) \in mark[s].registered + 1 .. mark[s].begun
  BY DEF ShownInOrder
<1>1. TypeOK /\ Posting /\ Replayed(s) /\ Followed(s)  BY DEF StreamInv
<1>2. posted \in Seq(Event) /\ Len(posted) \in Nat  BY <1>1, StreamTypes
<1>3. ASSUME NEW seq \in {shown[s].replay, shown[s].live} PROVE InPostingOrder(seq)
  <2> SUFFICES ASSUME NEW i \in DOMAIN seq, NEW j \in DOMAIN seq, i < j
               PROVE  Position(seq[i]) < Position(seq[j])
    BY DEF InPostingOrder
  <2>1. PICK m, n \in DOMAIN posted : m < n /\ posted[m] = seq[i] /\ posted[n] = seq[j]
    BY ShownBefore DEF Before
  <2> QED  BY <1>1, <1>2, <2>1, PositionIs
<1>4. ASSUME NEW ev \in Range(shown[s].replay) \cap Range(shown[s].live)
      PROVE  Position(ev) \in mark[s].registered + 1 .. mark[s].begun
  <2> DEFINE b == mark[s].begun
             old == shown[s].replay
             k == Len(old)
             l == Len(left[s])
  <2>1. /\ old \in Seq(Event) /\ left[s] \in Seq(Event) /\ b \in Nat
        /\ mark[s].registered \in Nat
    BY <1>1, StreamTypes
  <2>2. k \in Nat /\ l \in Nat /\ DOMAIN old = 1..k  BY <2>1
  <2>3. Window(old, posted, b - (k + l))  BY <1>1 DEF Replayed, Block
  <2>4. PICK i \in DOMAIN old : old[i] = ev  BY DEF Range
  <2>5. PICK j \in DOMAIN shown[s].live : shown[s].live[j] = ev  BY DEF Range
  <2>6. PICK m \in DOMAIN posted : m > mark[s].registered /\ posted[m] = ev
    BY <1>1, <2>5, LineParts DEF Followed, After
  <2> HIDE DEF b, old, k, l
  <2>7. (b - (k + l)) + i \in DOMAIN posted /\ posted[(b - (k + l)) + i] = ev
    <3>1. (b - (k + l)) + k <= Len(posted) /\ b - (k + l) >= 0
      BY <2>3 DEF Window, k
    <3>2. (b - (k + l)) + i \in 1..Len(posted)
      BY <1>2, <2>1, <2>2, <2>4, <3>1
    <3> QED  BY <1>2, <2>2, <2>3, <2>4, <3>2 DEF Window, k
  <2>8. Position(ev) = m /\ Position(ev) = (b - (k + l)) + i
    BY <1>1, <1>2, <2>6, <2>7, PositionIs
  <2>9. (b - (k + l)) + i <= b  BY <2>1, <2>2, <2>4
  <2>10. m \in Int /\ m <= b  BY <1>2, <2>6, <2>8, <2>9
  <2> QED  BY <2>1, <2>6, <2>8, <2>10 DEF b
<1> QED  BY <1>3, <1>4

LEMMA EmitterOrderHolds == StreamInv => EmitterOrder
<1> SUFFICES ASSUME StreamInv, NEW s \in Streams,
                    NEW seq \in {shown[s].replay, shown[s].live},
                    NEW i \in DOMAIN seq, NEW j \in DOMAIN seq,
                    i < j, seq[i].by = seq[j].by, seq[j] \notin lateEvents
             PROVE  seq[i].k < seq[j].k
  BY DEF EmitterOrder
<1>1. PICK m, n \in DOMAIN posted : m < n /\ posted[m] = seq[i] /\ posted[n] = seq[j]
  BY ShownBefore DEF Before
<1> QED  BY <1>1 DEF StreamInv, Posting

(* A stream that reads its queue and never met a full one has missed nothing: *)
(* the queue is registered by events_stream before the replay begins, and no *)
(* event falls between the two, however the posts interleave with it.        *)
THEOREM NoGapCorrect == Spec => []NoGap
BY StreamInvariant, NoGapHolds, PTL

(* Replay and queue each show events in the order post_event took them, and   *)
(* only what came between registration and replay is shown twice.            *)
THEOREM ShownInOrderCorrect == Spec => []ShownInOrder
BY StreamInvariant, ShownInOrderHolds, PTL

(* The events of one program are shown in the order it emitted them, but for *)
(* those whose POST it gave up on after half a second.                       *)
THEOREM EmitterOrderCorrect == Spec => []EmitterOrder
BY StreamInvariant, EmitterOrderHolds, PTL

-----------------------------------------------------------------------------
(* Every step is one the feed may take. *)

LEMMA HandleFeeds ==
  ASSUME StreamInv, NEW ev \in Event, Handle(ev), \A m \in DOMAIN posted : posted[m] # ev
  PROVE  Feed!Take
<1>1. TypeOK  BY DEF StreamInv
<1>2. /\ posted' = Append(posted, ev) /\ shown' = shown
      /\ \A s \in Streams : /\ mark'[s].registered = mark[s].registered
                            /\ mark[s].lost => mark'[s].lost
  BY <1>1 DEF Handle, TypeOK
<1> DEFINE full == {s \in Streams : mark'[s].lost}
<1>3. full = {s \in Streams : mark[s].lost} \cup full
  BY <1>2
<1>4. \E more \in SUBSET Streams : full = {s \in Streams : mark[s].lost} \cup more
  BY <1>3
<1>5. [s \in Streams |-> mark'[s].registered] = [s \in Streams |-> mark[s].registered]
  BY <1>2
<1> QED  BY <1>2, <1>4, <1>5 DEF Feed!Take

LEMMA ConnectFeeds ==
  ASSUME StreamInv, NEW s \in Streams, Connect(s)
  PROVE  Feed!Join(s)
<1>1. TypeOK /\ Replayed(s) /\ Followed(s)  BY DEF StreamInv
<1>2. shown[s].live = <<>>
  BY <1>1 DEF Followed, Connect
<1>3. shown[s].replay = <<>>
  <2>1. Len(shown[s].replay) + Len(left[s]) = 0
    BY <1>1 DEF Replayed, Connect, Block
  <2>2. shown[s].replay \in Seq(Event) /\ left[s] \in Seq(Event)  BY <1>1, StreamTypes
  <2>3. Len(shown[s].replay) = 0  BY <2>1, <2>2, Lengths
  <2> QED  BY <2>2, <2>3
<1>4. /\ UNCHANGED <<posted, shown>>
      /\ mark' = [mark EXCEPT ![s] = [mark[s] EXCEPT !.registered = Len(posted)]]
  BY DEF Connect
<1>5. /\ \A t \in Streams : mark'[t].lost = mark[t].lost
      /\ \A t \in Streams : mark'[t].registered =
           IF t = s THEN Len(posted) ELSE mark[t].registered
  BY <1>1, <1>4 DEF TypeOK
<1>6. [t \in Streams |-> mark'[t].registered]
        = [[t \in Streams |-> mark[t].registered] EXCEPT ![s] = Len(posted)]
  BY <1>5
<1>7. {t \in Streams : mark'[t].lost} = {t \in Streams : mark[t].lost}
  BY <1>5
<1> QED  BY <1>2, <1>3, <1>4, <1>6, <1>7 DEF Feed!Join

(* A step that shows the event at the place i of the log as one of the past. *)
LEMMA OldFeeds ==
  ASSUME TypeOK, NEW s \in Streams, shown[s].live = <<>>, NEW i \in DOMAIN posted,
         shown[s].replay # <<>> =>
           i > 1 /\ posted[i - 1] = shown[s].replay[Len(shown[s].replay)],
         shown' = [shown EXCEPT ![s].replay = Append(shown[s].replay, posted[i])],
         UNCHANGED posted, \A t \in Streams : /\ mark'[t].lost = mark[t].lost
                                              /\ mark'[t].registered = mark[t].registered
  PROVE  Feed!ShowOld(s)
<1> DEFINE replay == [t \in Streams |-> shown[t].replay]
<1>1. \A t \in Streams : /\ shown'[t].live = shown[t].live
                         /\ shown'[t].replay = IF t = s THEN Append(replay[s], posted[i])
                                                        ELSE replay[t]
  BY DEF TypeOK
<1>2. [t \in Streams |-> shown'[t].replay]
        = [replay EXCEPT ![s] = Append(replay[s], posted[i])]
  BY <1>1
<1>3. [t \in Streams |-> shown'[t].live] = [t \in Streams |-> shown[t].live]
  BY <1>1
<1>4. /\ [t \in Streams |-> mark'[t].registered] = [t \in Streams |-> mark[t].registered]
      /\ {t \in Streams : mark'[t].lost} = {t \in Streams : mark[t].lost}
  OBVIOUS
<1>5. replay[s] = shown[s].replay /\ [t \in Streams |-> shown[t].live][s] = <<>>
  OBVIOUS
<1>6. replay[s] # <<>> => i > 1 /\ posted[i - 1] = replay[s][Len(replay[s])]
  BY <1>5
<1> QED  BY <1>2, <1>3, <1>4, <1>5, <1>6 DEF Feed!ShowOld

LEMMA BeginFeeds ==
  ASSUME StreamInv, NEW s \in Streams, Begin(s)
  PROVE  [Feed!Next]_(Feed!vars)
<1>1. TypeOK /\ Buffered /\ Replayed(s) /\ Followed(s)  BY DEF StreamInv
<1>2. /\ posted' = posted
      /\ \A t \in Streams : /\ mark'[t].lost = mark[t].lost
                            /\ mark'[t].registered = mark[t].registered
  BY <1>1 DEF Begin, TypeOK
<1>3. CASE buffer = <<>>
  <2>1. shown' = shown  BY <1>3 DEF Begin
  <2>2. /\ [t \in Streams |-> mark'[t].registered] = [t \in Streams |-> mark[t].registered]
        /\ {t \in Streams : mark'[t].lost} = {t \in Streams : mark[t].lost}
    BY <1>2
  <2> QED  BY <1>2, <2>1, <2>2 DEF Feed!vars
<1>4. CASE buffer # <<>>
  <2>1. shown[s].live = <<>> /\ Block(s) = 0
    BY <1>1 DEF Followed, Replayed, Begin
  <2>2. shown[s].replay = <<>>
    <3>1. shown[s].replay \in Seq(Event) /\ left[s] \in Seq(Event)  BY <1>1, StreamTypes
    <3>2. Len(shown[s].replay) = 0  BY <2>1, <3>1, Lengths DEF Block
    <3> QED  BY <3>1, <3>2
  <2>3. /\ posted \in Seq(Event) /\ buffer \in Seq(Event)
        /\ Len(posted) - Len(buffer) \in Int /\ Window(buffer, posted, Len(posted) - Len(buffer))
    <3>1. posted \in Seq(Event) /\ buffer \in Seq(Event) /\ Len(posted) \in Nat
      BY <1>1, StreamTypes
    <3> QED  BY <1>1, <3>1, Lengths DEF Buffered
  <2>4. PICK i \in DOMAIN posted : Head(buffer) = posted[i]
    <3> DEFINE i == (Len(posted) - Len(buffer)) + 1
    <3>1. Head(buffer) = posted[i] /\ i \in 1..Len(posted)
      BY <1>4, <2>3, WindowTail
    <3> QED  BY <2>3, <3>1
  <2>5. shown' = [shown EXCEPT ![s].replay = Append(shown[s].replay, posted[i])]
    <3>1. shown' = [shown EXCEPT ![s].replay = <<Head(buffer)>>]
      BY <1>4 DEF Begin
    <3>2. Append(shown[s].replay, posted[i]) = <<Head(buffer)>>
      BY <2>2, <2>4
    <3> QED  BY <3>1, <3>2
  <2>6. Feed!ShowOld(s)
    BY <1>1, <1>2, <2>1, <2>2, <2>5, OldFeeds
  <2> QED  BY <2>6 DEF Feed!Next
<1> QED  BY <1>3, <1>4

LEMMA ReplayNextFeeds ==
  ASSUME StreamInv, NEW s \in Streams, ReplayNext(s)
  PROVE  Feed!ShowOld(s)
<1>1. TypeOK /\ Replayed(s) /\ Followed(s)  BY DEF StreamInv
<1> DEFINE b == mark[s].begun
           old == shown[s].replay
           new == left[s]
           k == Len(old)
           l == Len(new)
<1>2. /\ old \in Seq(Event) /\ new \in Seq(Event) /\ new # <<>> /\ posted \in Seq(Event)
      /\ b \in Nat
  BY <1>1, StreamTypes DEF ReplayNext
<1>3. k \in Nat /\ l \in Nat /\ (old # <<>> => k > 0)
  BY <1>2
<1>4. /\ shown[s].live = <<>> /\ UNCHANGED <<posted, mark>>
      /\ shown' = [shown EXCEPT ![s].replay = Append(old, Head(new))]
  BY <1>1 DEF ReplayNext, Followed
<1>5. Window(old, posted, b - (k + l)) /\ Window(new, posted, b - l)
  BY <1>1 DEF Replayed, Block
<1> HIDE DEF b, old, new, k, l
<1>6. Head(new) = posted[(b - l) + 1] /\ (b - l) + 1 \in 1..Len(posted)
  <2>1. b - l \in Int  BY <1>2, <1>3
  <2> QED  BY <1>2, <1>5, <2>1, WindowTail
<1>7. PICK i \in DOMAIN posted : i = (b - l) + 1
  BY <1>2, <1>6
<1>8. old # <<>> => i > 1 /\ posted[i - 1] = old[k]
  <2> SUFFICES ASSUME old # <<>> PROVE i > 1 /\ posted[i - 1] = old[k]
    OBVIOUS
  <2>1. k \in 1..k /\ (b - (k + l)) + k = b - l /\ i - 1 = b - l
    BY <1>2, <1>3, <1>7
  <2>2. b - (k + l) >= 0 /\ \A j \in 1..k : old[j] = posted[(b - (k + l)) + j]
    BY <1>5 DEF Window, k
  <2>3. b - l > 0  BY <1>2, <1>3, <2>2
  <2>4. i > 1  BY <1>2, <1>3, <1>7, <2>3
  <2> QED  BY <2>1, <2>2, <2>4
<1>9. shown' = [shown EXCEPT ![s].replay = Append(shown[s].replay, posted[i])]
  BY <1>4, <1>6, <1>7 DEF old
<1>10. shown[s].replay # <<>> =>
         i > 1 /\ posted[i - 1] = shown[s].replay[Len(shown[s].replay)]
  BY <1>8 DEF old, k
<1> QED  BY <1>1, <1>4, <1>9, <1>10, OldFeeds

LEMMA GetFeeds ==
  ASSUME StreamInv, NEW s \in Streams, Get(s)
  PROVE  Feed!ShowNew(s)
<1>1. TypeOK /\ Posting /\ Followed(s)  BY DEF StreamInv
<1> DEFINE a == shown[s].live
           k == Len(a)
           r == mark[s].registered
           x == Head(queue[s])
<1>2. /\ a \in Seq(Event) /\ r \in Nat /\ posted \in Seq(Event) /\ Line(s) \in Seq(Event)
  BY <1>1, StreamTypes
<1>3. k \in Nat /\ DOMAIN a = 1..k /\ DOMAIN Line(s) = 1..Len(Line(s))
  BY <1>2
<1>4. /\ k + 1 \in DOMAIN Line(s) /\ Line(s)[k + 1] = x
      /\ \A j \in DOMAIN a : j \in DOMAIN Line(s) /\ Line(s)[j] = a[j]
  BY <1>1, LineParts DEF Get
<1>5. PICK i \in DOMAIN posted : i > r /\ posted[i] = x
  BY <1>1, <1>4 DEF Followed, After
<1>6. \A j \in DOMAIN a, m \in DOMAIN posted : posted[m] = a[j] => m < i
  <2> TAKE j \in DOMAIN a, m \in DOMAIN posted
  <2> HAVE posted[m] = a[j]
  <2>1. j < k + 1  BY <1>3
  <2>2. PICK p, q \in DOMAIN posted : p < q /\ posted[p] = a[j] /\ posted[q] = x
    BY <1>1, <1>4, <2>1 DEF Followed, Before
  <2>3. p = m /\ q = i  BY <1>1, <1>5, <2>2 DEF Posting
  <2> QED  BY <2>2, <2>3
<1>7. ~mark[s].lost => i = r + k + 1
  <2> SUFFICES ASSUME ~mark[s].lost PROVE i = r + k + 1
    OBVIOUS
  <2>1. Window(Line(s), posted, r)  BY <1>1 DEF Followed
  <2> HIDE DEF k, r, x
  <2>2. posted[r + (k + 1)] = x  BY <1>3, <1>4, <2>1 DEF Window
  <2>3. r + (k + 1) \in DOMAIN posted
    <3> DEFINE n == Len(Line(s))
    <3>1. n \in Nat /\ r + n <= Len(posted) /\ Len(posted) \in Nat /\ DOMAIN posted = 1..Len(posted)
          /\ k + 1 \in 1..n
      BY <1>2, <1>3, <1>4, <2>1 DEF Window
    <3> HIDE DEF n
    <3> QED  BY <1>2, <1>3, <3>1 DEF r
  <2>4. i = r + (k + 1)  BY <1>1, <1>5, <2>2, <2>3 DEF Posting
  <2> QED  BY <1>2, <1>3, <2>4
<1>8. /\ UNCHANGED <<posted, mark>>
      /\ shown' = [shown EXCEPT ![s].live = Append(a, x)]
  BY DEF Get
<1>9. \A t \in Streams : /\ shown'[t].replay = shown[t].replay
                         /\ shown'[t].live = IF t = s THEN Append(a, x) ELSE shown[t].live
  BY <1>1, <1>8 DEF TypeOK
<1> DEFINE live == [t \in Streams |-> shown[t].live]
<1>10. [t \in Streams |-> shown'[t].live] = [live EXCEPT ![s] = Append(live[s], posted[i])]
  BY <1>5, <1>9
<1>11. [t \in Streams |-> shown'[t].replay] = [t \in Streams |-> shown[t].replay]
  BY <1>9
<1>12. /\ live[s] = a /\ [t \in Streams |-> mark[t].registered][s] = r
       /\ s \notin {t \in Streams : mark[t].lost} => ~mark[s].lost
  OBVIOUS
<1>13. /\ i > [t \in Streams |-> mark[t].registered][s]
       /\ \A j \in DOMAIN live[s], m \in DOMAIN posted : posted[m] = live[s][j] => m < i
       /\ s \notin {t \in Streams : mark[t].lost} =>
            i = [t \in Streams |-> mark[t].registered][s] + Len(live[s]) + 1
  BY <1>5, <1>6, <1>7, <1>12
<1> QED  BY <1>8, <1>10, <1>11, <1>13 DEF Feed!ShowNew

LEMMA StepFeeds == StreamInv /\ [Next]_vars => [Feed!Next]_(Feed!vars)
<1> SUFFICES ASSUME StreamInv, [Next]_vars PROVE [Feed!Next]_(Feed!vars)
  OBVIOUS
<1>0. TypeOK /\ Posting  BY DEF StreamInv
<1>1. ASSUME NEW e \in Emitters, Post(e) PROVE Feed!Take
  BY <1>0, <1>1, PostIsNew, HandleFeeds
<1>2. ASSUME NEW ev \in lateEvents, PostLate(ev) PROVE Feed!Take
  BY <1>0, <1>2, PostLateIsNew, HandleFeeds
<1>3. ASSUME UNCHANGED <<posted, shown, mark>> PROVE UNCHANGED Feed!vars
  BY <1>3 DEF Feed!vars
<1>4. ASSUME NEW e \in Emitters, Emit(e) \/ GiveUp(e) \/ Unreachable(e)
      PROVE  UNCHANGED <<posted, shown, mark>>
  BY <1>4 DEF Emit, GiveUp, Unreachable, history
<1>5. ASSUME NEW s \in Streams, ReplayRaises(s) \/ ReplayEnds(s) \/ Disconnect(s)
      PROVE  UNCHANGED <<posted, shown, mark>>
  BY <1>5 DEF ReplayRaises, ReplayEnds, Disconnect, history
<1>6. Restart \/ UNCHANGED vars => UNCHANGED <<posted, shown, mark>>
  BY DEF Restart, vars, history
<1>7. ASSUME NEW s \in Streams, Connect(s) \/ Serve(s) \/ Disconnect(s)
      PROVE  [Feed!Next]_(Feed!vars)
  <2>1. CASE Connect(s)  BY <2>1, ConnectFeeds DEF Feed!Next
  <2>2. CASE Begin(s)  BY <2>2, BeginFeeds
  <2>3. CASE ReplayNext(s)  BY <2>3, ReplayNextFeeds DEF Feed!Next
  <2>4. CASE Get(s)  BY <2>4, GetFeeds DEF Feed!Next
  <2>5. CASE ReplayRaises(s) \/ ReplayEnds(s) \/ Disconnect(s)
    BY <1>3, <1>5, <2>5
  <2> QED  BY <1>7, <2>1, <2>2, <2>3, <2>4, <2>5 DEF Serve
<1>8. ASSUME NEW e \in Emitters, EmitterStep(e) PROVE [Feed!Next]_(Feed!vars)
  BY <1>1, <1>3, <1>4, <1>8 DEF EmitterStep, Feed!Next
<1> QED  BY <1>2, <1>3, <1>6, <1>7, <1>8 DEF Next, Feed!Next

(* The server and its streams implement the feed: every page shows a block of *)
(* the one log of post_event and then follows it, whatever the interleaving  *)
(* of posts, pages that come and go, full queues and restarts.               *)
THEOREM FeedImplemented == Spec => ImplementsFeed
<1>1. ASSUME Init PROVE Feed!Init
  <2>1. posted = <<>> /\ \A s \in Streams : /\ shown[s].replay = <<>> /\ shown[s].live = <<>>
                                            /\ mark[s].registered = 0 /\ ~mark[s].lost
    BY <1>1 DEF Init
  <2>2. /\ [s \in Streams |-> shown[s].replay] = [s \in Streams |-> <<>>]
        /\ [s \in Streams |-> shown[s].live] = [s \in Streams |-> <<>>]
        /\ [s \in Streams |-> mark[s].registered] = [s \in Streams |-> 0]
        /\ {s \in Streams : mark[s].lost} = {}
    BY <2>1
  <2> QED  BY <2>1, <2>2 DEF Feed!Init
<1> QED  BY <1>1, StepFeeds, StreamInvariant, PTL DEF Spec, ImplementsFeed, Feed!Spec
================================================================================
