----------------------------- MODULE SizingProofs -----------------------------
(***************************************************************************)
(* For any finite set of collections, any bounds and any number of equal     *)
(* readings that is asked for: what settles is of one moment and was read    *)
(* without a change in between; the figures made of it agree, and the disk   *)
(* keeps its floor.                                                          *)
(***************************************************************************)
EXTENDS Sizing, FiniteSetTheorems, TLAPS

Amounts == [storage : Nat, index : Nat]

(* Each collection has at least as many pages in b as in a. *)
Below(a, b) == \A c \in Colls : a[c].storage <= b[c].storage /\ a[c].index <= b[c].index

PagesOK == /\ {alloc, colls, snap, last.colls} \subseteq [Colls -> Amounts]
           /\ unread \subseteq Colls

(* What was read lies between what was there before and what is there now.   *)
Order ==
  /\ pc # "done" => outcome = "none"
  /\ Below(snap, alloc)
  /\ Below(last.colls, alloc)
  /\ pc \in {"collstats", "compare"} => db = Total(snap) /\ Below(last.colls, snap)
  /\ pc = "compare" => unread = {}
  /\ pc \in {"collstats", "compare"} => \A c \in Colls \ unread :
       /\ snap[c].storage <= colls[c].storage /\ colls[c].storage <= alloc[c].storage
       /\ snap[c].index <= colls[c].index /\ colls[c].index <= alloc[c].index

ReadInv == PagesOK /\ Order /\ SettledConsistent

(* Amounts that are below each other are equal. *)
LEMMA BelowBoth ==
  ASSUME NEW a \in [Colls -> Amounts], NEW b \in [Colls -> Amounts],
         Below(a, b), Below(b, a)
  PROVE  a = b
<1>1. ASSUME NEW c \in Colls PROVE a[c] = b[c]
  <2>1. a[c] \in Amounts /\ b[c] \in Amounts  OBVIOUS
  <2>2. /\ a[c].storage <= b[c].storage /\ b[c].storage <= a[c].storage
        /\ a[c].index <= b[c].index /\ b[c].index <= a[c].index
    BY DEF Below
  <2>3. /\ a[c].storage \in Nat /\ a[c].index \in Nat
        /\ b[c].storage \in Nat /\ b[c].index \in Nat
    BY <2>1 DEF Amounts
  <2>4. a[c].storage = b[c].storage /\ a[c].index = b[c].index
    BY <2>2, <2>3
  <2> QED  BY <2>1, <2>4 DEF Amounts
<1> QED  BY <1>1

LEMMA InitRead == Init => ReadInv
<1> SUFFICES ASSUME Init PROVE ReadInv  OBVIOUS
<1>1. PagesOK
  BY DEF Init, PagesOK, Amounts, Blank, Nothing, NoFingerprint
<1>2. Order
  BY DEF Init, Order, Below, Blank, Nothing, NoFingerprint
<1> QED  BY <1>1, <1>2 DEF ReadInv, SettledConsistent, Init

(* Growing leaves what was read below what is there. *)
LEMMA GrowRead ==
  ASSUME ReadInv, NEW c \in Colls, Grow(c)
  PROVE  ReadInv'
<1>1. alloc' \in [Colls -> Amounts] /\ Below(alloc, alloc')
  <2>1. alloc[c] \in Amounts  BY DEF ReadInv, PagesOK
  <2>2. alloc \in [Colls -> Amounts]  BY DEF ReadInv, PagesOK
  <2>3. CASE alloc' = [alloc EXCEPT ![c].storage = @ + 1]
    BY <2>1, <2>2, <2>3 DEF Amounts, Below
  <2>4. CASE alloc' = [alloc EXCEPT ![c].index = @ + 1]
    BY <2>1, <2>2, <2>4 DEF Amounts, Below
  <2> QED  BY <2>3, <2>4 DEF Grow
<1>2. PagesOK'
  BY <1>1 DEF Grow, ReadInv, PagesOK, stats, given, poll
<1>3. Order'
  <2>1. \A d \in Colls : /\ alloc[d] \in Amounts /\ alloc'[d] \in Amounts /\ snap[d] \in Amounts
                         /\ last.colls[d] \in Amounts /\ colls[d] \in Amounts
    BY <1>1 DEF ReadInv, PagesOK
  <2>2. Below(snap, alloc') /\ Below(last.colls, alloc')
    BY <1>1, <2>1 DEF ReadInv, Order, Below, Amounts
  <2>3. UNCHANGED <<pc, db, colls, unread, snap, last>>
    BY DEF Grow, poll
  <2>4. Below(snap, alloc)' /\ Below(last.colls, alloc)'
    BY <2>2, <2>3 DEF Below
  <2>5. pc' \in {"collstats", "compare"} => db' = Total(snap') /\ Below(last.colls, snap)'
    BY <2>3 DEF ReadInv, Order, Below
  <2>6. pc' \in {"collstats", "compare"} => \A d \in Colls \ unread' :
          /\ snap'[d].storage <= colls'[d].storage /\ colls'[d].storage <= alloc'[d].storage
          /\ snap'[d].index <= colls'[d].index /\ colls'[d].index <= alloc'[d].index
    BY <1>1, <2>1, <2>3 DEF ReadInv, Order, Below, Amounts
  <2>7. (pc' # "done" => outcome' = "none") /\ (pc' = "compare" => unread' = {})
    BY DEF Grow, poll, ReadInv, Order
  <2> QED  BY <2>4, <2>5, <2>6, <2>7 DEF Order
<1> QED  BY <1>2, <1>3 DEF ReadInv, SettledConsistent, Grow, poll

(* dbStats are of this moment, and what was read before lies below them. *)
LEMMA DbRead ==
  ASSUME ReadInv, ReadDbStats
  PROVE  ReadInv'
<1>1. PagesOK'
  BY DEF ReadDbStats, ReadInv, PagesOK, Blank, Nothing, Existing, Amounts, poll
<1>2. \A d \in Colls : alloc[d] \in Amounts
  BY DEF ReadInv, PagesOK
<1>3. Order'
  <2>1. /\ snap' = alloc /\ alloc' = alloc /\ last' = last
        /\ db' = Total(alloc) /\ pc' = "collstats" /\ outcome' = "none"
    BY DEF ReadDbStats, ReadInv, Order, Goto, poll
  <2>2. Below(alloc, alloc)
    BY <1>2 DEF Below, Amounts
  <2>3. Below(snap, alloc)' /\ Below(last.colls, alloc)' /\ Below(last.colls, snap)'
    BY <2>1, <2>2 DEF ReadInv, Order, Below
  <2>4. db' = Total(snap')
    BY <2>1
  <2>5. \A d \in Colls \ unread' : snap'[d] = Nothing /\ colls'[d] = Nothing /\ alloc'[d] = Nothing
    BY <2>1 DEF ReadDbStats, Existing, Blank
  <2> QED  BY <2>1, <2>3, <2>4, <2>5 DEF Order, Nothing
<1> QED  BY <1>1, <1>3 DEF ReadInv, Order, SettledConsistent, ReadDbStats, poll, Goto

LEMMA CollRead ==
  ASSUME ReadInv, NEW c \in Colls, ReadCollStats(c)
  PROVE  ReadInv'
<1>1. PagesOK'
  BY DEF ReadCollStats, ReadInv, PagesOK, poll
<1>2. colls'[c] = alloc[c] /\ \A d \in Colls \ {c} : colls'[d] = colls[d]
  BY DEF ReadCollStats, ReadInv, PagesOK
<1>3. alloc[c] \in Amounts /\ snap[c] \in Amounts
  BY DEF ReadInv, PagesOK
<1>4. Order'
  BY <1>2, <1>3 DEF ReadCollStats, ReadInv, Order, Below, poll, Amounts
<1> QED  BY <1>1, <1>4 DEF ReadInv, Order, SettledConsistent, ReadCollStats, poll

LEMMA EndRead ==
  ASSUME ReadInv, ReadingEnds
  PROVE  ReadInv'
<1>1. PagesOK'
  BY DEF ReadingEnds, ReadInv, PagesOK, stats
<1>2. Order'
  BY DEF ReadingEnds, Goto, ReadInv, Order, Below, stats
<1> QED  BY <1>1, <1>2 DEF ReadInv, Order, SettledConsistent, ReadingEnds, Goto, stats

(* Two equal readings: what lies between them, the database, is equal too. *)
LEMMA CompareRead ==
  ASSUME ReadInv, Compare
  PROVE  ReadInv'
<1>1. /\ alloc \in [Colls -> Amounts] /\ colls \in [Colls -> Amounts]
      /\ snap \in [Colls -> Amounts] /\ last.colls \in [Colls -> Amounts]
  BY DEF ReadInv, PagesOK
<1>2. Fingerprint.colls = colls
  BY DEF Fingerprint
<1>3. UNCHANGED <<alloc, db, colls, unread, snap>> /\ pc = "compare" /\ outcome = "none"
  BY DEF Compare, stats, ReadInv, Order
<1>4. Below(snap, colls) /\ Below(colls, alloc)
  BY <1>3 DEF ReadInv, Order, Below
<1>5. last' = last \/ last' = Fingerprint
  BY DEF Compare
<1>6. PagesOK'
  BY <1>1, <1>2, <1>3, <1>5 DEF ReadInv, PagesOK
<1>7. Order'
  <2>1. Below(last'.colls, alloc)
    BY <1>2, <1>4, <1>5 DEF ReadInv, Order
  <2>2. pc' \in {"done", "sleep"} /\ (pc' # "done" => outcome' = "none")
    BY <1>3 DEF Compare
  <2> QED  BY <1>3, <2>1, <2>2 DEF ReadInv, Order, Below
<1>8. ASSUME outcome' = "settled" PROVE db = Total(colls)
  <2>1. Settles(matches') /\ matches' = Matches
    BY <1>3, <1>8 DEF Compare
  <2>2. ~(0 >= StablePolls)
    BY SizingAssumption
  <2>3. Fingerprint = last
    BY <2>1, <2>2 DEF Settles, Matches
  <2>4. last.colls = colls
    BY <2>3, <1>2
  <2>5. Below(colls, snap)
    BY <1>3, <2>4 DEF ReadInv, Order
  <2>6. colls = snap
    BY <1>1, <1>4, <2>5, BelowBoth
  <2> QED  BY <1>3, <2>6 DEF ReadInv, Order
<1> QED  BY <1>3, <1>6, <1>7, <1>8 DEF ReadInv, SettledConsistent

(* Steps that read nothing. *)
LEMMA OtherRead ==
  ASSUME ReadInv, Flush \/ Sleep \/ Fail \/ TimePasses \/ UNCHANGED vars
  PROVE  ReadInv'
<1>1. UNCHANGED <<alloc, db, colls, unread, snap, last, outcome>>
  BY DEF Flush, Sleep, Fail, TimePasses, vars, stats, poll
<1>2. pc' = pc \/ (pc' \in {"dbstats", "flush", "failed"} /\ pc # "done")
  BY DEF Flush, Sleep, Fail, TimePasses, vars, Goto
<1>3. PagesOK'
  BY <1>1 DEF ReadInv, PagesOK
<1>4. Order'
  BY <1>1, <1>2 DEF ReadInv, Order, Below
<1> QED  BY <1>1, <1>3, <1>4 DEF ReadInv, SettledConsistent

(* The invariant of the readings. *)
THEOREM ReadingsOrdered == Spec => []ReadInv
<1>1. Init => ReadInv
  BY InitRead
<1>2. ReadInv /\ [Next]_vars => ReadInv'
  <2> SUFFICES ASSUME ReadInv, [Next]_vars PROVE ReadInv'  OBVIOUS
  <2>1. CASE \E c \in Colls : Grow(c)  BY <2>1, GrowRead
  <2>2. CASE ReadDbStats  BY <2>2, DbRead
  <2>3. CASE \E c \in Colls : ReadCollStats(c)  BY <2>3, CollRead
  <2>4. CASE ReadingEnds  BY <2>4, EndRead
  <2>5. CASE Compare  BY <2>5, CompareRead
  <2>6. CASE Flush \/ Sleep \/ Fail \/ TimePasses \/ UNCHANGED vars
    BY <2>6, OtherRead
  <2> QED  BY <2>1, <2>2, <2>3, <2>4, <2>5, <2>6 DEF Next, Step
<1> QED  BY <1>1, <1>2, PTL DEF Spec

(* size_from_dbstats.py: the report of a wait that settled is of one moment, *)
(* whatever grew between its commands.                                       *)
THEOREM SettledIsOneMoment == Spec => []SettledConsistent
<1>1. ReadInv => SettledConsistent
  BY DEF ReadInv
<1> QED  BY <1>1, ReadingsOrdered, PTL

-----------------------------------------------------------------------------
(* Types *)

Reading == {"collstats", "compare"}

(* A wait that goes on has not seen enough equal readings.                   *)
TypeInv ==
  /\ TypeOK
  /\ pc = "compare" => unread = {}
  /\ outcome = "none" => matches < StablePolls

LEMMA Bounds == /\ MaxPages \in Nat /\ MaxPages >= 1 /\ MaxIndex \in Nat /\ MaxIndex >= 1
                /\ StablePolls \in Nat /\ StablePolls >= 1
BY SizingAssumption

LEMMA InitTypeInv == Init => TypeInv
<1> SUFFICES ASSUME Init PROVE TypeInv  OBVIOUS
<1>1. {Nothing, [storage |-> 1, index |-> 1]} \subseteq Pages
  BY Bounds DEF Pages
<1>2. alloc \in [Colls -> Pages] /\ snap \in [Colls -> Pages]
  BY <1>1 DEF Init
<1>3. colls \in [Colls -> Pages]
  BY DEF Init, Blank, Pages
<1>4. db \in Totals
  BY DEF Init, Totals
<1>5. {fresh, calm} \subseteq [Colls -> 0..StablePolls + 1]
  BY Bounds DEF Init
<1>6. matches \in 0..StablePolls /\ matches < StablePolls
  BY Bounds DEF Init
<1> QED  BY <1>2, <1>3, <1>4, <1>5, <1>6 DEF Init, TypeInv, TypeOK, Reading

LEMMA GrowTypes == ASSUME TypeInv, NEW c \in Colls, Grow(c) PROVE TypeInv'
<1>1. alloc \in [Colls -> Pages] /\ alloc[c] \in [storage : 1..MaxPages, index : 1..MaxIndex]
  BY DEF Grow, TypeInv, TypeOK, Pages
<1>2. alloc' \in [Colls -> Pages]
  <2>1. CASE alloc[c].storage < MaxPages /\ alloc' = [alloc EXCEPT ![c].storage = @ + 1]
    <3>1. alloc' = [alloc EXCEPT ![c] = [alloc[c] EXCEPT !.storage = alloc[c].storage + 1]]
      BY <2>1
    <3>2. [alloc[c] EXCEPT !.storage = alloc[c].storage + 1] \in Pages
      BY <1>1, <2>1, Bounds DEF Pages
    <3> QED  BY <1>1, <3>1, <3>2
  <2>2. CASE alloc[c].index < MaxIndex /\ alloc' = [alloc EXCEPT ![c].index = @ + 1]
    <3>1. alloc' = [alloc EXCEPT ![c] = [alloc[c] EXCEPT !.index = alloc[c].index + 1]]
      BY <2>2
    <3>2. [alloc[c] EXCEPT !.index = alloc[c].index + 1] \in Pages
      BY <1>1, <2>2, Bounds DEF Pages
    <3> QED  BY <1>1, <3>1, <3>2
  <2> QED  BY <2>1, <2>2 DEF Grow
<1>3. fresh' \in [Colls -> 0..StablePolls + 1]
  BY Bounds DEF Grow, TypeInv, TypeOK
<1> QED  BY <1>2, <1>3 DEF Grow, given, poll, TypeInv, TypeOK

LEMMA DbTypes == ASSUME TypeInv, ReadDbStats PROVE TypeInv'
<1>1. db' \in Totals
  BY DEF ReadDbStats, TypeInv, TypeOK, Totals
<1>2. colls' \in [Colls -> Pages]
  BY DEF ReadDbStats, Blank, Pages
<1> QED  BY <1>1, <1>2 DEF ReadDbStats, Existing, Goto, given, poll, TypeInv, TypeOK, Reading

LEMMA CollTypes == ASSUME TypeInv, NEW c \in Colls, ReadCollStats(c) PROVE TypeInv'
<1>1. /\ alloc[c] \in Pages
      /\ colls \in [Colls -> Pages]
      /\ fresh \in [Colls -> 0..StablePolls + 1] /\ calm \in [Colls -> 0..StablePolls + 1]
  BY DEF TypeInv, TypeOK
<1>2. /\ colls' = [colls EXCEPT ![c] = alloc[c]]
      /\ colls' \in [Colls -> Pages]
  BY <1>1 DEF ReadCollStats, TypeInv, Reading
<1>3. fresh' \in [Colls -> 0..StablePolls + 1]
  <2>1. \A n \in 0..StablePolls + 1 : (IF n <= StablePolls THEN n + 1 ELSE n) \in 0..StablePolls + 1
    BY Bounds
  <2> QED  BY <1>1, <2>1 DEF ReadCollStats
<1>4. calm' \in [Colls -> 0..StablePolls + 1]
  BY <1>1, <1>3 DEF ReadCollStats
<1> QED  BY <1>2, <1>3, <1>4 DEF ReadCollStats, given, poll, TypeInv, TypeOK

LEMMA EndTypes == ASSUME TypeInv, ReadingEnds PROVE TypeInv'
BY DEF ReadingEnds, Goto, given, stats, TypeInv, TypeOK, Reading

LEMMA CompareTypes == ASSUME TypeInv, Compare PROVE TypeInv'
<1>1. /\ matches \in 0..StablePolls /\ matches < StablePolls /\ outcome = "none"
      /\ unread = {}
      /\ colls \in [Colls -> Pages]
  BY DEF Compare, TypeInv, TypeOK, Reading
<1>2. matches' \in 0..StablePolls
  BY <1>1, Bounds DEF Compare, Matches
<1>3. Settles(matches') \/ matches' < StablePolls
  BY <1>2, Bounds DEF Settles
<1>4. Fingerprint.colls \in [Colls -> Pages]
  BY <1>1 DEF Fingerprint
<1>5. [storage |-> Fingerprint.storage, index |-> Fingerprint.index] \in Totals
  <2>1. db \in Totals /\ Fingerprint.storage = db.storage /\ Fingerprint.index = db.index
    BY DEF TypeInv, TypeOK, Fingerprint
  <2>2. \A a : \E m, n : Total(a) = [storage |-> m, index |-> n]
    BY Zenon DEF Total
  <2>3. \E m, n : db = [storage |-> m, index |-> n]
    BY <2>1, <2>2 DEF Totals, Nothing
  <2>4. db = [storage |-> db.storage, index |-> db.index]
    BY <2>3
  <2> QED  BY <2>1, <2>4
<1>6. \/ last' = NoFingerprint
      \/ /\ [storage |-> last'.storage, index |-> last'.index] \in Totals
         /\ last'.colls \in [Colls -> Pages]
  BY <1>4, <1>5 DEF Compare, TypeInv, TypeOK
<1>7. /\ pc' \in {"done", "sleep"} /\ (pc' = "done") = (outcome' # "none")
      /\ outcome' \in {"none", "settled", "timeout"}
      /\ outcome' = "none" => matches' < StablePolls
  BY <1>1, <1>3 DEF Compare
<1> QED  BY <1>2, <1>6, <1>7 DEF Compare, given, stats, TypeInv, TypeOK, Reading

LEMMA OtherTypes ==
  ASSUME TypeInv, Flush \/ Sleep \/ Fail \/ TimePasses \/ UNCHANGED vars
  PROVE  TypeInv'
<1>1. UNCHANGED <<given, alloc, stats, poll>> /\ late' \in BOOLEAN
  BY DEF Flush, Sleep, Fail, TimePasses, vars, TypeInv, TypeOK
<1>2. \/ pc' = pc
      \/ pc' \in {"dbstats", "flush", "failed"} /\ pc # "done"
  BY DEF Flush, Sleep, Fail, TimePasses, vars, Goto, TypeInv, TypeOK
<1> QED  BY <1>1, <1>2 DEF given, stats, poll, TypeInv, TypeOK, Reading

LEMMA NextTypes == ASSUME TypeInv, [Next]_vars PROVE TypeInv'
<1>1. CASE \E c \in Colls : Grow(c)  BY <1>1, GrowTypes
<1>2. CASE ReadDbStats  BY <1>2, DbTypes
<1>3. CASE \E c \in Colls : ReadCollStats(c)  BY <1>3, CollTypes
<1>4. CASE ReadingEnds  BY <1>4, EndTypes
<1>5. CASE Compare  BY <1>5, CompareTypes
<1>6. CASE Flush \/ Sleep \/ Fail \/ TimePasses \/ UNCHANGED vars
  BY <1>6, OtherTypes
<1> QED  BY <1>1, <1>2, <1>3, <1>4, <1>5, <1>6 DEF Next, Step

(* The readings, what is compared and what is reported have their types: what *)
(* dbStats says is nothing or the total of an allocation.                    *)
THEOREM TypeCorrect == Spec => []TypeOK
<1>1. TypeInv /\ [Next]_vars => TypeInv'
  BY NextTypes
<1>2. TypeInv => TypeOK
  BY DEF TypeInv
<1> QED  BY InitTypeInv, <1>1, <1>2, PTL DEF Spec

-----------------------------------------------------------------------------
(* The pause between readings *)

(* A collection that this round has still to read: it was read one time more *)
(* than there were equal readings, and those are all its readings since it   *)
(* grew unless it has grown again.                                           *)
Awaited(c) ==
  /\ last.colls[c].storage > 0 => calm[c] >= matches + 1
  /\ alloc[c] = last.colls[c] => fresh[c] = calm[c]

(* One that was read: once more, if it is as it was. *)
Taken(c) ==
  /\ calm[c] >= 1
  /\ colls[c] = last.colls[c] => calm[c] >= matches + 2
  /\ alloc[c] = colls[c] => fresh[c] = calm[c]

CalmInv ==
  /\ \A c \in Existing : pc \in {"flush", "dbstats", "sleep"} \/ (pc \in Reading /\ c \in unread)
                      => Awaited(c)
  /\ \A c \in Existing : pc \in Reading /\ c \notin unread => Taken(c)
  /\ unread \subseteq Existing
  /\ SettledCalm

LEMMA CalmTypes ==
  ASSUME TypeInv, NEW c \in Colls
  PROVE  /\ fresh[c] \in Nat /\ calm[c] \in Nat /\ matches \in Nat
         /\ fresh[c] <= StablePolls + 1
         /\ alloc[c].storage \in Nat /\ alloc[c].index \in Nat
         /\ c \in Existing => alloc[c].storage > 0
         /\ pc # "done" => matches < StablePolls
BY Bounds DEF TypeInv, TypeOK, Pages, Nothing, Existing

LEMMA InitCalm == Init => CalmInv
<1> SUFFICES ASSUME Init PROVE CalmInv  OBVIOUS
<1>1. \A c \in Existing : /\ last.colls[c].storage = 0 /\ fresh[c] = 0 /\ calm[c] = 0
                          /\ alloc[c].storage = 1
  BY DEF Init, NoFingerprint, Blank, Nothing, Existing
<1>2. pc \notin Reading /\ outcome = "none" /\ unread = {}
  BY DEF Init, Reading
<1> QED  BY <1>1, <1>2 DEF CalmInv, Awaited, SettledCalm

(* A collection that has grown differs from all that was read of it. *)
LEMMA GrowCalm ==
  ASSUME ReadInv, TypeInv, CalmInv, NEW c \in Colls, Grow(c)
  PROVE  CalmInv'
<1>1. /\ UNCHANGED <<pc, colls, unread, calm, last, matches, outcome>>
      /\ \A d \in Colls \ {c} : alloc'[d] = alloc[d] /\ fresh'[d] = fresh[d]
  BY DEF Grow, poll, TypeInv, TypeOK
<1>5. Existing' = Existing
  <2>1. alloc'[c] # Nothing /\ alloc[c] # Nothing
    <3>1. /\ alloc'[c].storage = alloc[c].storage + 1 \/ alloc'[c].index = alloc[c].index + 1
          /\ alloc[c].storage \in Nat /\ alloc[c].index \in Nat
      BY CalmTypes DEF Grow, TypeInv, TypeOK, Pages
    <3> QED BY <3>1 DEF Grow, Nothing
  <2> QED BY <1>1, <2>1 DEF Existing
<1>2. \/ alloc'[c].storage = alloc[c].storage + 1
      \/ alloc'[c].index = alloc[c].index + 1
  BY DEF Grow, TypeInv, TypeOK, Pages
<1>3. alloc'[c] # last.colls[c]
  <2>1. /\ last.colls[c].storage <= alloc[c].storage /\ last.colls[c].index <= alloc[c].index
    BY DEF ReadInv, Order, Below
  <2>2. /\ last.colls[c].storage \in Nat /\ last.colls[c].index \in Nat
    BY DEF ReadInv, PagesOK, Amounts
  <2> QED  BY <1>2, <2>1, <2>2, CalmTypes
<1>4. pc \in Reading /\ c \notin unread => alloc'[c] # colls[c]
  <2> SUFFICES ASSUME pc \in Reading, c \notin unread PROVE alloc'[c] # colls[c]
    OBVIOUS
  <2>1. /\ colls[c].storage <= alloc[c].storage /\ colls[c].index <= alloc[c].index
    BY DEF ReadInv, Order, Reading
  <2>2. /\ colls[c].storage \in Nat /\ colls[c].index \in Nat
    BY DEF ReadInv, PagesOK, Amounts
  <2> QED  BY <1>2, <2>1, <2>2, CalmTypes
<1>6. ASSUME NEW d \in Colls
      PROVE  /\ Awaited(d) => Awaited(d)'
             /\ pc \in Reading /\ d \notin unread /\ Taken(d) => Taken(d)'
  BY <1>1, <1>3, <1>4 DEF Awaited, Taken
<1>7. SettledCalm'
  BY <1>1, <1>5 DEF CalmInv, SettledCalm
<1>8. Existing \subseteq Colls
  BY DEF Existing
<1> QED  BY <1>1, <1>5, <1>6, <1>7, <1>8 DEF CalmInv

LEMMA CollCalm ==
  ASSUME ReadInv, TypeInv, CalmInv, NEW c \in Colls, ReadCollStats(c)
  PROVE  CalmInv'
<1> DEFINE f == fresh[c]
           k == calm[c]
<1>1. /\ pc = "collstats" /\ c \in unread /\ unread' = unread \ {c}
      /\ UNCHANGED <<pc, alloc, last, matches, outcome>>
      /\ colls'[c] = alloc[c] /\ \A d \in Colls \ {c} : colls'[d] = colls[d]
      /\ fresh'[c] = (IF f <= StablePolls THEN f + 1 ELSE f)
      /\ calm'[c] = fresh'[c]
      /\ \A d \in Colls \ {c} : fresh'[d] = fresh[d] /\ calm'[d] = calm[d]
  BY DEF ReadCollStats, poll, TypeInv, TypeOK
<1>2. outcome = "none"
  BY <1>1 DEF TypeInv, TypeOK
<1>3. /\ f \in Nat /\ k \in Nat /\ matches \in Nat /\ f <= StablePolls + 1
      /\ matches < StablePolls /\ alloc[c].storage > 0
  <2>1. c \in Existing
    BY <1>1 DEF CalmInv
  <2> QED BY <1>1, <2>1, CalmTypes
<1>4. alloc[c] = last.colls[c] => f = k /\ k >= matches + 1
  <2>1. Awaited(c)  BY <1>1 DEF CalmInv, Reading, Existing
  <2> QED  BY <1>3, <2>1 DEF Awaited
<1> HIDE DEF f, k
<1>5. fresh'[c] >= 1 /\ (alloc[c] = last.colls[c] => fresh'[c] >= matches + 2)
  <2> DEFINE g == IF f <= StablePolls THEN f + 1 ELSE f
  <2>1. g >= 1 /\ (f >= matches + 1 => g >= matches + 2)
    BY <1>3, Bounds
  <2> QED  BY <1>1, <1>4, <2>1
<1>6. Taken(c)'
  BY <1>1, <1>5 DEF Taken
<1>7. \A d \in Colls \ {c} : /\ Awaited(d) => Awaited(d)'
                             /\ Taken(d) => Taken(d)'
  BY <1>1 DEF Awaited, Taken
<1> QED  BY <1>1, <1>2, <1>6, <1>7 DEF CalmInv, SettledCalm, Reading, Existing

LEMMA CompareCalm ==
  ASSUME ReadInv, TypeInv, CalmInv, Compare
  PROVE  CalmInv'
<1>1. /\ pc = "compare" /\ unread = {} /\ outcome = "none" /\ matches' = Matches
      /\ UNCHANGED <<alloc, colls, unread, fresh, calm>>
      /\ pc' \in {"done", "sleep"} /\ (pc' = "sleep" => last' = Fingerprint)
      /\ outcome' = "settled" => Settles(matches')
  BY DEF Compare, stats, TypeInv, TypeOK
<1>2. /\ \A c \in Existing : Taken(c)
      /\ Existing' = Existing /\ Existing \subseteq Colls
  BY <1>1 DEF CalmInv, Reading, Existing
<1>3. \/ matches' = 0
      \/ matches' = matches + 1 /\ \A c \in Colls : colls[c] = last.colls[c]
  BY <1>1 DEF Matches, Fingerprint
<1>4. ASSUME NEW c \in Existing PROVE calm[c] >= matches' + 1
  BY <1>2, <1>3, CalmTypes DEF Taken
<1>5. ASSUME pc' = "sleep", NEW c \in Existing PROVE Awaited(c)'
  <2>1. last'.colls = colls  BY <1>1, <1>5 DEF Fingerprint
  <2>2. calm[c] >= matches' + 1 /\ (alloc[c] = colls[c] => fresh[c] = calm[c])
    BY <1>2, <1>4 DEF Taken
  <2> QED  BY <1>1, <2>1, <2>2 DEF Awaited
<1>6. SettledCalm'
  <2> SUFFICES ASSUME outcome' = "settled", NEW c \in Existing PROVE calm[c] > StablePolls
    BY <1>1, <1>2 DEF SettledCalm
  <2>1. matches' >= StablePolls /\ calm[c] >= matches' + 1
    BY <1>1, <1>4 DEF Settles
  <2>2. matches' \in Nat
    BY <1>2, <1>3, CalmTypes
  <2> QED  BY <1>2, <2>1, <2>2, CalmTypes, Bounds
<1> QED  BY <1>1, <1>2, <1>5, <1>6 DEF CalmInv, Reading

LEMMA OtherCalm ==
  ASSUME TypeInv, CalmInv,
         Flush \/ ReadDbStats \/ ReadingEnds \/ Sleep \/ Fail \/ TimePasses \/ UNCHANGED vars
  PROVE  CalmInv'
<1>1. UNCHANGED <<alloc, fresh, calm, last, matches>>
  BY DEF Flush, ReadDbStats, ReadingEnds, Sleep, Fail, TimePasses, vars, stats, poll
<1>0. Existing' = Existing
  BY <1>1 DEF Existing
<1>2. SettledCalm'
  BY <1>0, <1>1 DEF CalmInv, SettledCalm, TypeInv, TypeOK, Flush, ReadDbStats, ReadingEnds, Sleep,
              Fail, TimePasses, vars, poll
<1>3. CASE ReadDbStats
  BY <1>0, <1>1, <1>2, <1>3 DEF ReadDbStats, Goto, CalmInv, Awaited, Reading
<1>4. CASE ~ReadDbStats
  <2>1. UNCHANGED <<colls, unread>>
    BY <1>4 DEF Flush, ReadingEnds, Sleep, Fail, TimePasses, vars, stats
  <2>2. \/ pc' = pc \/ pc' \in {"done", "failed"}
        \/ pc \in {"flush", "dbstats", "sleep"} /\ pc' \in {"flush", "dbstats", "sleep"}
        \/ pc \in Reading /\ pc' \in Reading
    BY <1>4 DEF Flush, ReadingEnds, Sleep, Fail, TimePasses, vars, Goto, Reading
  <2> QED  BY <1>0, <1>1, <1>2, <2>1, <2>2 DEF CalmInv, Awaited, Taken, Reading
<1> QED  BY <1>3, <1>4

(* What the script calls settled was read StablePolls + 1 times without a     *)
(* change in between, whatever grew between two commands of a reading and in *)
(* whatever order the collections were read.                                 *)
THEOREM SettledIsCalm == Spec => []SettledCalm
<1>1. ReadInv /\ TypeInv /\ CalmInv /\ [Next]_vars => CalmInv'
  BY GrowCalm, CollCalm, CompareCalm, OtherCalm DEF Next, Step
<1>2. TypeInv /\ [Next]_vars => TypeInv'
  BY NextTypes
<1>3. CalmInv => SettledCalm
  BY DEF CalmInv
<1> QED  BY InitTypeInv, InitCalm, ReadingsOrdered, <1>1, <1>2, <1>3, PTL DEF Spec

-----------------------------------------------------------------------------
(* Sums over the collections.  The library's induction theorems take an       *)
(* operator; these take a set.                                               *)

LEMMA NatFromZero ==
  ASSUME NEW T \in SUBSET Nat, 0 \in T, \A n \in T : n + 1 \in T
  PROVE  T = Nat
<1> SUFFICES ASSUME T # Nat PROVE FALSE
  OBVIOUS
<1> DEFINE bad == Nat \ T
<1>1. bad \subseteq Nat /\ bad # {}
  OBVIOUS
<1>2. PICK m \in bad : \A n \in bad : ~(<<n, m>> \in OpToRel(<, Nat))
  BY <1>1, NatLessThanWellFounded, WFMin
<1>3. m \in Nat /\ m \notin T /\ m # 0
  OBVIOUS
<1>4. m - 1 \in Nat /\ m - 1 < m
  BY <1>3
<1>5. <<m - 1, m>> \in OpToRel(<, Nat)
  BY <1>3, <1>4 DEF OpToRel
<1>6. m - 1 \in T
  BY <1>2, <1>4, <1>5
<1>7. (m - 1) + 1 = m
  BY <1>3
<1> QED  BY <1>3, <1>6, <1>7

One(s) == CHOOSE c \in s : TRUE
Rest(s) == s \ {One(s)}

LEMMA RestSmaller ==
  ASSUME NEW s \in SUBSET Colls, s # {}
  PROVE  /\ One(s) \in s /\ Rest(s) \in SUBSET Colls /\ IsFiniteSet(s)
         /\ Cardinality(Rest(s)) = Cardinality(s) - 1
         /\ Cardinality(s) \in Nat \ {0}
<1>1. One(s) \in s
  BY DEF One
<1>2. IsFiniteSet(s)
  BY FS_Subset, SizingAssumption
<1>3. Cardinality(s) \in Nat /\ Cardinality(s) # 0
  BY <1>2, FS_CardinalityType, FS_EmptySet
<1> QED  BY <1>1, <1>2, <1>3, FS_RemoveElement DEF Rest

(* What holds of no collection, and of some whenever it holds of all but one   *)
(* of them, holds of all.                                                    *)
LEMMA CollsInduction ==
  ASSUME NEW B \in SUBSET SUBSET Colls, {} \in B,
         \A s \in SUBSET Colls : s # {} /\ Rest(s) \in B => s \in B
  PROVE  B = SUBSET Colls
<1> DEFINE T == {n \in Nat : \A s \in SUBSET Colls : Cardinality(s) = n => s \in B}
<1>1. 0 \in T
  <2>1. ASSUME NEW s \in SUBSET Colls, Cardinality(s) = 0 PROVE s \in B
    BY <2>1, RestSmaller
  <2> QED BY <2>1
<1>2. ASSUME NEW n \in T PROVE n + 1 \in T
  <2>1. n \in Nat /\ \A s \in SUBSET Colls : Cardinality(s) = n => s \in B
    OBVIOUS
  <2>2. ASSUME NEW s \in SUBSET Colls, Cardinality(s) = n + 1 PROVE s \in B
    <3>1. CASE s = {}
      BY <3>1
    <3>2. CASE s # {}
      <4>1. Cardinality(Rest(s)) = n /\ Rest(s) \in SUBSET Colls
        BY <2>1, <2>2, <3>2, RestSmaller
      <4> QED BY <2>1, <3>2, <4>1
    <3> QED BY <3>1, <3>2
  <2> QED BY <2>1, <2>2
<1>3. T = Nat
  <2>1. T \in SUBSET Nat
    OBVIOUS
  <2> HIDE DEF T
  <2> QED BY <1>1, <1>2, <2>1, NatFromZero
<1>4. ASSUME NEW s \in SUBSET Colls PROVE s \in B
  <2>1. Cardinality(s) \in Nat
    BY SizingAssumption, FS_Subset, FS_CardinalityType
  <2>2. Cardinality(s) \in T
    BY <1>3, <2>1
  <2> QED BY <2>2
<1> QED  BY <1>4

(* The sums over the sets of collections. *)
IsPart(g, f) ==
  g = [s \in SUBSET Colls |-> IF s = {} THEN 0 ELSE f[One(s)] + g[Rest(s)]]
Part(f) == CHOOSE g : IsPart(g, f)

LEMMA PartExists == ASSUME NEW f PROVE IsPart(Part(f), f)
<1> DEFINE Upto(n) == {s \in SUBSET Colls : Cardinality(s) <= n}
           Good(g, n) ==
             g = [s \in Upto(n) |-> IF s = {} THEN 0 ELSE f[One(s)] + g[Rest(s)]]
           T == {n \in Nat : \E g : Good(g, n)}
<1>0. Cardinality({}) = 0 /\ {} \in SUBSET Colls
  BY FS_EmptySet
<1>1. 0 \in T
  <2> DEFINE g == [s \in Upto(0) |-> 0]
  <2>1. \A s \in Upto(0) : s = {}
    <3>1. ASSUME NEW s \in Upto(0), s # {} PROVE FALSE
      <4>1. Cardinality(s) \in Nat \ {0} /\ Cardinality(s) <= 0
        BY <3>1, RestSmaller
      <4> QED BY <4>1
    <3> QED BY <3>1
  <2>2. Good(g, 0)
    BY <2>1
  <2> QED BY <2>2
<1>2. ASSUME NEW n \in T PROVE n + 1 \in T
  <2>1. n \in Nat
    OBVIOUS
  <2>2. PICK g : Good(g, n)
    OBVIOUS
  <2> DEFINE h == [s \in Upto(n + 1) |-> IF s = {} THEN 0 ELSE f[One(s)] + g[Rest(s)]]
  <2>3. ASSUME NEW s \in Upto(n + 1), s # {} PROVE Rest(s) \in Upto(n)
    <3>1. s \in SUBSET Colls /\ Cardinality(s) <= n + 1
      OBVIOUS
    <3>2. /\ Rest(s) \in SUBSET Colls /\ Cardinality(Rest(s)) = Cardinality(s) - 1
          /\ Cardinality(s) \in Nat
      BY <2>3, <3>1, RestSmaller
    <3>3. Cardinality(Rest(s)) <= n
      BY <2>1, <3>1, <3>2
    <3> QED BY <3>2, <3>3
  <2>4. ASSUME NEW s \in Upto(n) PROVE s \in Upto(n + 1) /\ h[s] = g[s]
    <3>1. s \in SUBSET Colls /\ Cardinality(s) <= n
      OBVIOUS
    <3>0. Cardinality(s) \in Nat
      BY <3>1, SizingAssumption, FS_Subset, FS_CardinalityType
    <3>2. Cardinality(s) <= n + 1
      BY <2>1, <3>0, <3>1
    <3>3. s \in Upto(n + 1)
      BY <3>1, <3>2
    <3> QED BY <2>2, <3>3
  <2>5. Good(h, n + 1)
    <3>1. ASSUME NEW s \in Upto(n + 1), s # {} PROVE h[Rest(s)] = g[Rest(s)]
      BY <2>3, <2>4, <3>1
    <3> QED BY <3>1
  <2> HIDE DEF Good, h
  <2> QED BY <2>1, <2>5
<1>3. T = Nat
  <2>1. T \in SUBSET Nat
    OBVIOUS
  <2> HIDE DEF T
  <2> QED BY <1>1, <1>2, <2>1, NatFromZero
<1>4. \E g : IsPart(g, f)
  <2> DEFINE n == Cardinality(Colls)
  <2>1. n \in Nat /\ IsFiniteSet(Colls)
    BY SizingAssumption, FS_CardinalityType
  <2>2. Upto(n) = SUBSET Colls
    BY <2>1, FS_Subset
  <2>3. PICK g : Good(g, n)
    <3>1. n \in T
      BY <1>3, <2>1
    <3> QED BY <3>1
  <2> QED BY <2>2, <2>3 DEF IsPart
<1> QED  BY <1>4 DEF Part

LEMMA SumIsPart == ASSUME NEW f PROVE Sum(f) = Part(f)[Colls]
BY Zenon DEF Sum, MapThenSumSet, MapThenFoldSet, Part, IsPart, One, Rest

LEMMA PartIs ==
  ASSUME NEW f
  PROVE  /\ Part(f)[{}] = 0
         /\ \A s \in SUBSET Colls : s # {} => Part(f)[s] = f[One(s)] + Part(f)[Rest(s)]
<1>1. Part(f) = [s \in SUBSET Colls |-> IF s = {} THEN 0 ELSE f[One(s)] + Part(f)[Rest(s)]]
  BY PartExists DEF IsPart
<1> QED  BY <1>1

LEMMA PartType ==
  ASSUME NEW f \in [Colls -> Nat]
  PROVE  \A s \in SUBSET Colls : Part(f)[s] \in Nat
<1> DEFINE B == {s \in SUBSET Colls : Part(f)[s] \in Nat}
<1>1. {} \in B
  BY PartIs
<1>2. ASSUME NEW s \in SUBSET Colls, s # {}, Rest(s) \in B PROVE s \in B
  <2>1. One(s) \in Colls
    BY <1>2, RestSmaller
  <2>2. Part(f)[s] = f[One(s)] + Part(f)[Rest(s)]
    BY <1>2, PartIs
  <2>3. f[One(s)] \in Nat /\ Part(f)[Rest(s)] \in Nat
    BY <1>2, <2>1
  <2>4. Part(f)[s] \in Nat
    BY <2>2, <2>3
  <2> QED BY <2>4
<1>3. B \in SUBSET SUBSET Colls
  OBVIOUS
<1> HIDE DEF B
<1>4. B = SUBSET Colls
  BY <1>1, <1>2, <1>3, CollsInduction
<1> QED  BY <1>4 DEF B

(* A sum of natural numbers is one, positive when each is and there is one.    *)
LEMMA SumType ==
  ASSUME NEW f \in [Colls -> Nat]
  PROVE  /\ Sum(f) \in Nat
         /\ (\A c \in Colls : f[c] > 0) => Colls = {} \/ Sum(f) > 0
<1>1. Sum(f) = Part(f)[Colls] /\ Part(f)[Colls] \in Nat
  BY SumIsPart, PartType
<1>2. ASSUME \A c \in Colls : f[c] > 0, Colls # {} PROVE Sum(f) > 0
  <2>1. Colls \in SUBSET Colls
    OBVIOUS
  <2>2. Part(f)[Colls] = f[One(Colls)] + Part(f)[Rest(Colls)]
    BY <1>2, <2>1, PartIs
  <2>3. One(Colls) \in Colls /\ Rest(Colls) \in SUBSET Colls
    BY <1>2, <2>1, RestSmaller
  <2>4. f[One(Colls)] \in Nat /\ f[One(Colls)] > 0 /\ Part(f)[Rest(Colls)] \in Nat
    BY <1>2, <2>3, PartType
  <2> QED BY <1>1, <2>2, <2>4
<1> QED  BY <1>1, <1>2

LEMMA Distributes ==
  ASSUME NEW k \in Int, NEW a \in Int, NEW b \in Int
  PROVE  k * (a + b) = k * a + k * b
OBVIOUS

(* A common factor may be taken out of a sum.                                *)
LEMMA SumScaled ==
  ASSUME NEW k \in Nat, NEW f \in [Colls -> Nat]
  PROVE  Sum([c \in Colls |-> k * f[c]]) = k * Sum(f)
<1> DEFINE g == [c \in Colls |-> k * f[c]]
           B == {s \in SUBSET Colls : Part(g)[s] = k * Part(f)[s]}
<1>1. {} \in B
  <2>1. Part(g)[{}] = 0 /\ Part(f)[{}] = 0
    BY PartIs
  <2> QED BY <2>1
<1>2. ASSUME NEW s \in SUBSET Colls, s # {}, Rest(s) \in B PROVE s \in B
  <2>1. One(s) \in Colls /\ Rest(s) \in SUBSET Colls
    BY <1>2, RestSmaller
  <2>2. /\ Part(g)[s] = g[One(s)] + Part(g)[Rest(s)]
        /\ Part(f)[s] = f[One(s)] + Part(f)[Rest(s)]
    BY <1>2, PartIs
  <2>3. g[One(s)] = k * f[One(s)]
    BY <2>1
  <2>4. Part(g)[Rest(s)] = k * Part(f)[Rest(s)]
    BY <1>2
  <2>5. f[One(s)] \in Int /\ Part(f)[Rest(s)] \in Int /\ k \in Int
    BY <2>1, PartType
  <2>6. k * (f[One(s)] + Part(f)[Rest(s)]) = k * f[One(s)] + k * Part(f)[Rest(s)]
    BY <2>5, Distributes
  <2> HIDE DEF g
  <2>7. Part(g)[s] = k * Part(f)[s]
    BY <2>2, <2>3, <2>4, <2>6
  <2> QED BY <2>7
<1>3. B \in SUBSET SUBSET Colls
  OBVIOUS
<1> HIDE DEF B
<1>4. B = SUBSET Colls
  BY <1>1, <1>2, <1>3, CollsInduction
<1>5. Part(g)[Colls] = k * Part(f)[Colls]
  BY <1>4 DEF B
<1> HIDE DEF g
<1>6. Sum(g) = k * Sum(f)
  BY <1>5, SumIsPart
<1> QED  BY <1>6 DEF g

-----------------------------------------------------------------------------
(* Arithmetic. *)

LEMMA Quotient ==
  ASSUME NEW n \in Nat \ {0}, NEW v \in Nat
  PROVE  (n * v) \div n = v
OBVIOUS

LEMMA Cancel ==
  ASSUME NEW n \in Nat \ {0}, NEW x \in Int, NEW y \in Int, n * x = n * y
  PROVE  x = y
OBVIOUS

LEMMA Monotone ==
  ASSUME NEW w \in Nat, NEW x \in Nat, NEW y \in Nat, x <= y
  PROVE  w * x <= w * y
OBVIOUS

LEMMA Quarters ==
  ASSUME NEW a \in Nat
  PROVE  /\ (6 * a) \div 2 = 3 * a
         /\ ((6 * a) * 4) \div 3 = 8 * a
         /\ ((3 * a) * 4) \div 3 = 4 * a
OBVIOUS

-----------------------------------------------------------------------------
(* The figures. *)

LEMMA FigureTypes ==
  ASSUME TypeOK
  PROVE  /\ sample \in [Colls -> [count : Nat, size : Nat]]
         /\ Objects \in Nat /\ DataSize \in Nat /\ ProductionCount \in Nat
         /\ db.storage \in Nat /\ db.index \in Nat
         /\ inputs.prod \in [Colls -> Nat \cup {Missing}]
         /\ Unit \in Nat \ {0}
<1>1. /\ sample \in [Colls -> [count : Nat, size : Nat]]
      /\ inputs.prod \in [Colls -> Nat \cup {Missing}] /\ inputs.given \in Nat \cup {Missing}
      /\ Unit \in Nat \ {0}
  BY SizingAssumption DEF TypeOK
<1>2. /\ [c \in Colls |-> sample[c].count] \in [Colls -> Nat]
      /\ [c \in Colls |-> sample[c].size] \in [Colls -> Nat]
      /\ [c \in Colls |-> IF inputs.prod[c] = Missing THEN 0 ELSE inputs.prod[c]]
           \in [Colls -> Nat]
  BY <1>1
<1>3. Objects \in Nat /\ DataSize \in Nat
  BY <1>2, SumType DEF Objects, DataSize
<1>4. ProductionCount \in Nat
  <2>1. Sum([c \in Colls |-> IF inputs.prod[c] = Missing THEN 0 ELSE inputs.prod[c]]) \in Nat
    BY <1>2, SumType
  <2> QED BY <1>1, <2>1 DEF ProductionCount
<1>5. db.storage \in Nat /\ db.index \in Nat
  <2>1. db \in Totals
    BY DEF TypeOK
  <2>2. CASE db = [storage |-> 0, index |-> 0]
    BY <2>2
  <2>3. ASSUME NEW a \in [Colls -> Pages], db = Total(a)
        PROVE  db.storage \in Nat /\ db.index \in Nat
    <3>1. /\ [c \in Colls |-> a[c].storage] \in [Colls -> Nat]
          /\ [c \in Colls |-> a[c].index] \in [Colls -> Nat]
      BY DEF Pages, Nothing
    <3>2. /\ db.storage = Sum([c \in Colls |-> a[c].storage])
          /\ db.index = Sum([c \in Colls |-> a[c].index])
      BY <2>3 DEF Total
    <3> QED BY <3>1, <3>2, SumType
  <2> QED BY <2>1, <2>2, <2>3 DEF Totals, Nothing
<1> QED  BY <1>1, <1>3, <1>4, <1>5

(* What the disk has to hold, counted so that all figures are whole. *)
LEMMA DiskFigures ==
  ASSUME TypeOK
  PROVE  \E a \in Nat, b \in Nat :
           /\ DataSizeProduction = 6 * b
           /\ Scale(db.storage, Objects, ProductionCount) = 6 * a
           /\ 20 * db.storage >= DataSize => 20 * a >= b
           /\ DataSize = 0 => b = 0
<1> DEFINE n == Objects
           d == DataSize
           p == ProductionCount
           s == db.storage
<1>1. n \in Nat /\ d \in Nat /\ p \in Nat /\ s \in Nat /\ Unit \in Nat \ {0}
  BY FigureTypes
<1>2. CASE n = 0
  <2>1. DataSizeProduction = 6 * 0 /\ Scale(s, n, p) = 6 * 0
    BY <1>2 DEF DataSizeProduction, Scale
  <2>2. 0 \in Nat /\ 20 * 0 >= 0
    OBVIOUS
  <2> QED BY <2>1, <2>2
<1>3. CASE n # 0
  <2>1. PICK k \in 1..Unit : Unit = n * (6 * k)
    <3>1. sample \in Samples /\ n = Sum([c \in Colls |-> sample[c].count]) /\ n > 0
      BY <1>1, <1>3 DEF Objects, TypeOK
    <3> HIDE DEF n
    <3> QED BY <3>1, UnitAssumption
  <2>2. k \in Nat /\ 6 * k \in Nat
    BY <1>1, <2>1
  <2>3. Unit \div n = 6 * k
    BY <1>1, <1>3, <2>1, <2>2, Quotient
  <2>4. /\ DataSizeProduction = (6 * k) * d * p
        /\ Scale(s, n, p) = (6 * k) * s * p
    BY <1>3, <2>3 DEF DataSizeProduction, Scale
  <2> DEFINE w == k * p
             a == w * s
             b == w * d
  <2> HIDE DEF n, d, p, s
  <2>5. w \in Nat /\ a \in Nat /\ b \in Nat
    BY <1>1, <2>2
  <2>6. (6 * k) * d * p = 6 * b /\ (6 * k) * s * p = 6 * a
    BY <1>1, <2>2
  <2>7. 20 * s >= d => 20 * a >= b
    <3>1. ASSUME d <= 20 * s PROVE w * d <= w * (20 * s)
      <4>1. 20 * s \in Nat
        BY <1>1
      <4> QED BY <1>1, <2>5, <3>1, <4>1, Monotone
    <3>2. w * (20 * s) = 20 * a
      BY <1>1, <2>5
    <3> QED BY <1>1, <3>1, <3>2
  <2>8. d = 0 => b = 0
    BY <2>5
  <2> HIDE DEF a, b
  <2>9. /\ DataSizeProduction = 6 * b /\ Scale(s, n, p) = 6 * a
    BY <2>4, <2>6
  <2> QED BY <2>5, <2>7, <2>8, <2>9 DEF n, d, p, s
<1> QED  BY <1>2, <1>3

LEMMA DiskIsEnough ==
  ASSUME TypeOK
  PROVE  /\ 3 * 20 * DiskRequired >= 4 * DataSizeProduction
         /\ (db.storage <= 1 /\ DataSize > 1) =>
              3 * 2 * DiskRequired >= 4 * DataSizeProduction
<1>1. PICK a \in Nat, b \in Nat :
           /\ DataSizeProduction = 6 * b
           /\ Scale(db.storage, Objects, ProductionCount) = 6 * a
           /\ 20 * db.storage >= DataSize => 20 * a >= b
           /\ DataSize = 0 => b = 0
  BY DiskFigures
<1>2. Scale(DataSize, Objects, ProductionCount) = 6 * b
  BY <1>1 DEF DataSizeProduction
<1>3. StorageSizeProduction = IF StorageSampleUntrusted /\ (6 * b) \div 2 > 6 * a
                                THEN (6 * b) \div 2 ELSE 6 * a
  BY <1>1, <1>2 DEF StorageSizeProduction
<1>4. (6 * b) \div 2 = 3 * b
  BY Quarters
<1>5. DataSize \in Nat /\ db.storage \in Nat
  BY FigureTypes
<1>6. CASE StorageSampleUntrusted /\ 3 * b > 6 * a
  <2>1. StorageSizeProduction = 3 * b
    BY <1>3, <1>4, <1>6
  <2>2. DiskRequired = 4 * b
    BY <2>1, Quarters DEF DiskRequired
  <2> QED BY <1>1, <2>2
<1>7. CASE ~(StorageSampleUntrusted /\ 3 * b > 6 * a)
  <2>1. StorageSizeProduction = 6 * a
    BY <1>3, <1>4, <1>7
  <2>2. DiskRequired = 8 * a
    BY <2>1, Quarters DEF DiskRequired
  <2>3. CASE ~StorageSampleUntrusted
    <3>1. b <= 20 * a
      BY <1>1, <1>5, <2>3 DEF StorageSampleUntrusted
    <3>2. ~(db.storage <= 1 /\ DataSize > 1)
      BY <1>5, <2>3 DEF StorageSampleUntrusted
    <3> QED BY <1>1, <2>2, <3>1, <3>2
  <2>4. CASE 3 * b <= 6 * a
    BY <1>1, <2>2, <2>4
  <2>5. 3 * b <= 6 * a \/ 3 * b > 6 * a
    OBVIOUS
  <2> QED BY <1>7, <2>3, <2>4, <2>5
<1> QED  BY <1>6, <1>7

(* Factors of a product of three may be put in any order. *)
LEMMA Products ==
  ASSUME NEW x \in Nat, NEW y \in Nat, NEW w \in Nat
  PROVE  /\ x * y \in Nat /\ (x * y) * w = (x * w) * y /\ (x * y) * w = x * (y * w)
         /\ x * y = y * x
OBVIOUS

(* The figures of the collections, counted in units of those of the database.  *)
LEMMA CollectionFigure ==
  ASSUME TypeOK, NEW c \in Colls, sample[c].count > 0, Objects # 0,
         inputs.prod[c] * Objects = sample[c].count * ProductionCount
  PROVE  /\ ProductionCount * (Unit \div Objects) \in Nat
         /\ \A m \in Nat : CollectionScaling(c, m) = (ProductionCount * (Unit \div Objects)) * m
<1> DEFINE n == Objects
           p == ProductionCount
           q == sample[c].count
           r == inputs.prod[c]
<1>1. n \in Nat \ {0} /\ p \in Nat /\ q \in Nat \ {0} /\ r \in Nat \cup {Missing}
  BY FigureTypes
<1>2. r \in Nat
  <2> HIDE DEF n, p, q, r
  <2>1. r * n = q * p
    BY DEF n, p, q, r
  <2>2. q * p >= 0
    BY <1>1
  <2>3. r # -1
    BY <1>1, <2>1, <2>2
  <2> QED BY <1>1, <2>3 DEF Missing
<1>3. PICK k \in 1..Unit : Unit = n * (6 * k)
  <2>1. sample \in Samples /\ n = Sum([d \in Colls |-> sample[d].count]) /\ n > 0
    BY <1>1 DEF Objects, TypeOK
  <2> HIDE DEF n
  <2> QED BY <2>1, UnitAssumption
<1>4. PICK j \in 1..Unit : Unit = q * j
  <2>1. sample \in Samples
    BY DEF TypeOK
  <2> QED BY <2>1, UnitAssumption
<1> DEFINE v == 6 * k
<1>5. v \in Nat /\ j \in Nat
  BY FigureTypes
<1>6. Unit \div n = v /\ Unit \div q = j
  <2>1. Unit = n * v
    BY <1>3
  <2> HIDE DEF n, q, v
  <2> QED BY <1>1, <1>4, <1>5, <2>1, Quotient
<1>7. r # Missing /\ q # 0 /\ \A m : CollectionScaling(c, m) = j * m * r
  BY <1>1, <1>2, <1>6 DEF CollectionScaling, Scale, Missing
<1>8. r * n = q * p /\ Unit = n * v /\ Unit = q * j
  BY <1>3, <1>4
<1> HIDE DEF n, p, q, r, v
<1>9. j * r = p * v
  <2>1. n * (j * r) = (r * n) * j
    BY <1>1, <1>2, <1>5, Products
  <2>2. (q * p) * j = (q * j) * p
    BY <1>1, <1>5, Products
  <2>3. (n * v) * p = n * (p * v)
    BY <1>1, <1>5, Products
  <2>4. n * (j * r) = n * (p * v)
    BY <1>8, <2>1, <2>2, <2>3
  <2>5. j * r \in Int /\ p * v \in Int
    BY <1>1, <1>2, <1>5
  <2> QED BY <1>1, <2>4, <2>5, Cancel
<1>10. ASSUME NEW m \in Nat PROVE j * m * r = (p * v) * m
  BY <1>2, <1>5, <1>9, Products
<1>11. p * v \in Nat
  BY <1>1, <1>5
<1> QED  BY <1>6, <1>7, <1>10, <1>11 DEF n, p

(* Whatever is scaled: the figures of the collections add up. *)
LEMMA FiguresAdd ==
  ASSUME TypeOK, NEW z \in [Colls -> Nat],
         \A c \in Colls : sample[c].count > 0,
         \A c \in Colls : inputs.prod[c] * Objects = sample[c].count * ProductionCount
  PROVE  Sum([c \in Colls |-> CollectionScaling(c, z[c])])
           = Scale(Sum(z), Objects, ProductionCount)
<1> DEFINE counts == [c \in Colls |-> sample[c].count]
           terms == [c \in Colls |-> CollectionScaling(c, z[c])]
<1>1. CASE Colls = {}
  <2>1. \A f : Sum(f) = 0
    <3>1. ASSUME NEW f PROVE Sum(f) = 0
      BY <1>1, SumIsPart, PartIs
    <3> QED BY <3>1
  <2> QED BY <2>1 DEF Scale, Objects
<1>2. CASE Colls # {}
  <2>1. Objects \in Nat /\ Objects # 0
    <3>1. counts \in [Colls -> Nat] /\ \A c \in Colls : counts[c] > 0
      BY FigureTypes
    <3>2. Sum(counts) \in Nat /\ Sum(counts) > 0
      BY <1>2, <3>1, SumType
    <3> QED BY <3>2 DEF Objects
  <2> DEFINE u == ProductionCount * (Unit \div Objects)
  <2>2. ASSUME NEW c \in Colls PROVE u \in Nat /\ terms[c] = u * z[c]
    BY <2>1, CollectionFigure
  <2>3. u \in Nat
    BY <1>2, <2>2
  <2> HIDE DEF u
  <2>4. terms = [c \in Colls |-> u * z[c]]
    BY <2>2
  <2>5. Sum(terms) = u * Sum(z)
    BY <2>3, <2>4, SumScaled
  <2>6. Scale(Sum(z), Objects, ProductionCount) = (Unit \div Objects) * Sum(z) * ProductionCount
    BY <2>1 DEF Scale
  <2>7. ProductionCount \in Nat /\ Unit \div Objects \in Nat /\ Sum(z) \in Nat
    <3>1. Unit \in Nat \ {0} /\ ProductionCount \in Nat
      BY FigureTypes
    <3>2. Unit \div Objects \in Nat
      BY <2>1, <3>1
    <3> QED BY <3>1, <3>2, SumType
  <2>8. (Unit \div Objects) * Sum(z) * ProductionCount = u * Sum(z)
    BY <2>7, Products DEF u
  <2> QED BY <2>5, <2>6, <2>8
<1> QED  BY <1>1, <1>2

LEMMA SettledAdds ==
  ASSUME TypeOK, SettledConsistent
  PROVE  SettledAgrees
<1> SUFFICES ASSUME outcome = "settled", \A c \in Colls : sample[c].count > 0,
                    \A c \in Colls : inputs.prod[c] * Objects = sample[c].count * ProductionCount
             PROVE  /\ Sum([c \in Colls |-> CollectionScaling(c, sample[c].size)])
                         = DataSizeProduction
                    /\ Sum([c \in Colls |-> CollectionScaling(c, colls[c].index)])
                         = IndexSizeProduction
  BY DEF SettledAgrees
<1> DEFINE sizes == [c \in Colls |-> sample[c].size]
           indexes == [c \in Colls |-> colls[c].index]
<1>1. sizes \in [Colls -> Nat]
  BY FigureTypes
<1>2. indexes \in [Colls -> Nat]
  <2>1. \A c \in Colls : colls[c] \in Pages
    BY DEF TypeOK
  <2> QED BY <2>1, SizingAssumption DEF Pages, Nothing
<1>3. Sum(sizes) = DataSize
  BY DEF DataSize
<1>4. Sum(indexes) = db.index
  BY DEF SettledConsistent, Total
<1>5. /\ [c \in Colls |-> CollectionScaling(c, sizes[c])]
           = [c \in Colls |-> CollectionScaling(c, sample[c].size)]
      /\ [c \in Colls |-> CollectionScaling(c, indexes[c])]
           = [c \in Colls |-> CollectionScaling(c, colls[c].index)]
  OBVIOUS
<1> HIDE DEF sizes, indexes
<1>6. /\ Sum([c \in Colls |-> CollectionScaling(c, sizes[c])])
           = Scale(Sum(sizes), Objects, ProductionCount)
      /\ Sum([c \in Colls |-> CollectionScaling(c, indexes[c])])
           = Scale(Sum(indexes), Objects, ProductionCount)
  BY <1>1, <1>2, FiguresAdd
<1> QED  BY <1>3, <1>4, <1>5, <1>6 DEF DataSizeProduction, IndexSizeProduction

(* build_report: however the wait ended, the disk that is asked for holds a   *)
(* twentieth of the production data, half of it where the database showed a   *)
(* single page.                                                              *)
THEOREM DiskKeepsFloor == Spec => []DiskHolds
<1>1. TypeOK => DiskHolds
  BY DiskIsEnough DEF DiskHolds
<1> QED  BY <1>1, TypeCorrect, PTL

(* build_report: for production in the proportions of the sample, what is      *)
(* reported of the collections adds up to what is reported of the database.   *)
THEOREM FiguresAgree == Spec => []SettledAgrees
<1>1. TypeOK /\ SettledConsistent => SettledAgrees
  BY SettledAdds
<1> QED  BY <1>1, TypeCorrect, SettledIsOneMoment, PTL
================================================================================
