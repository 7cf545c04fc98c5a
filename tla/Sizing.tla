--------------------------------- MODULE Sizing ---------------------------------
(***************************************************************************)
(* scripts/size_from_dbstats.py: statistics of a seeded database are read     *)
(* again and again, one command after the other, while WiredTiger still      *)
(* allocates; when they have settled, or the time is up, they are scaled to  *)
(* production.  Sizes are counted in WiredTiger pages of 4096 bytes; figures *)
(* for production are multiples of 1/Unit, so that divisions are exact.      *)
(***************************************************************************)
EXTENDS Integers, FiniteSetsExt

CONSTANTS Colls,        \* collections of the database
          Samples,      \* what seeding may leave: [Colls -> [count, size]]
          Inputs,       \* sizing inputs: [given, prod: [Colls -> count]]
          MaxPages,     \* bound: pages of storage of a collection
          MaxIndex,     \* bound: pages of its indexes
          Unit,         \* figures for production are counted in 1/Unit
          StablePolls   \* readings that have to equal the one before

Missing == -1           \* a count that the inputs do not give

ASSUME SizingAssumption ==
  /\ IsFiniteSet(Colls)
  /\ {MaxPages, MaxIndex, Unit, StablePolls} \subseteq Nat \ {0}
  /\ \A s \in Samples : s \in [Colls -> [count : Nat, size : Nat]]
  /\ \A i \in Inputs : /\ i.given \in Nat \cup {Missing}
                       /\ i.prod \in [Colls -> Nat \cup {Missing}]

VARIABLES sample,       \* the documents: their number and size
          inputs,       \* sizing_inputs.json, with --production-count
          alloc,        \* pages of storage and of indexes, at the moment
          pc,           \* where the reading is
          wait,         \* not --no-wait
          db,           \* what dbStats has said
          colls,        \* what collStats has said
          unread,       \* collections whose collStats are still to be read
          last,         \* fingerprint of the reading before
          matches,      \* stable_seen
          late,         \* the deadline has passed
          outcome,      \* how the wait ended
          snap,         \* history: alloc when dbStats was read
          fresh,        \* history: collStats of a collection since it last grew
          calm          \* history: fresh, at its last collStats

stats  == <<db, colls, unread, snap, fresh, calm>>
poll   == <<last, matches, outcome>>
given  == <<sample, inputs, wait>>
vars == <<given, alloc, pc, late, stats, poll>>

(* A collection has a page of its own and one for its index on _id, or more; *)
(* one into which nothing was seeded need not exist.                         *)
Nothing == [storage |-> 0, index |-> 0]
Pages == [storage : 1..MaxPages, index : 1..MaxIndex] \cup {Nothing}
Existing == {c \in Colls : alloc[c] # Nothing}
Blank == [c \in Colls |-> Nothing]
Sum(f) == MapThenSumSet(LAMBDA c : f[c], Colls)
Total(a) == [storage |-> Sum([c \in Colls |-> a[c].storage]),
             index   |-> Sum([c \in Colls |-> a[c].index])]

(* Unit makes every division exact, those by 2 and by 3 of the result, too.  *)
ASSUME UnitAssumption ==
  \A s \in Samples :
    /\ \A c \in Colls : s[c].count > 0 => \E k \in 1..Unit : Unit = s[c].count * k
    /\ LET n == Sum([c \in Colls |-> s[c].count])
       IN n > 0 => \E k \in 1..Unit : Unit = n * (6 * k)

(* What dbStats may have said: nothing yet, or the total of some allocation. *)
Totals == {Nothing} \cup {Total(a) : a \in [Colls -> Pages]}
NoFingerprint == [storage |-> Missing, index |-> Missing, colls |-> Blank]

TypeOK ==
  /\ sample \in Samples /\ inputs \in Inputs
  /\ alloc \in [Colls -> Pages]
  /\ pc \in {"flush", "dbstats", "collstats", "compare", "sleep", "done", "failed"}
  /\ {wait, late} \subseteq BOOLEAN
  /\ db \in Totals
  /\ colls \in [Colls -> Pages]
  /\ unread \subseteq Colls
  /\ \/ last = NoFingerprint
     \/ /\ [storage |-> last.storage, index |-> last.index] \in Totals
        /\ last.colls \in [Colls -> Pages]
  /\ matches \in 0..StablePolls
  /\ outcome \in {"none", "settled", "timeout", "immediate"}
  /\ (pc = "done") = (outcome # "none")
  /\ snap \in [Colls -> Pages]
  /\ {fresh, calm} \subseteq [Colls -> 0..StablePolls + 1]

Init ==
  /\ sample \in Samples
  /\ inputs \in Inputs
  /\ alloc \in [Colls -> {Nothing, [storage |-> 1, index |-> 1]}]
  /\ \A c \in Colls : sample[c].count > 0 => alloc[c] # Nothing
  /\ wait \in BOOLEAN
  /\ pc = IF wait THEN "flush" ELSE "dbstats"
  /\ db = Nothing
  /\ colls = Blank
  /\ unread = {}
  /\ last = NoFingerprint
  /\ matches = 0
  /\ late = FALSE
  /\ outcome = "none"
  /\ snap = alloc
  /\ fresh = [c \in Colls |-> 0]
  /\ calm = [c \in Colls |-> 0]

-----------------------------------------------------------------------------
Goto(from, to) == pc = from /\ pc' = to

(* External: a checkpoint of WiredTiger writes pages of a collection or of   *)
(* its indexes; nothing is freed while the database is only read.            *)
Grow(c) ==
  /\ pc \notin {"done", "failed"} /\ alloc[c] # Nothing
  /\ \/ alloc[c].storage < MaxPages /\ alloc' = [alloc EXCEPT ![c].storage = @ + 1]
     \/ alloc[c].index < MaxIndex /\ alloc' = [alloc EXCEPT ![c].index = @ + 1]
  /\ fresh' = [fresh EXCEPT ![c] = 0]
  /\ UNCHANGED <<given, pc, late, db, colls, unread, snap, calm, poll>>

(* External: 30 seconds, or --wait-timeout. *)
TimePasses ==
  /\ wait /\ ~late
  /\ late' = TRUE
  /\ UNCHANGED <<given, alloc, pc, stats, poll>>

(* flush_storage_stats; what it asks WiredTiger for is done by Grow. *)
Flush ==
  /\ Goto("flush", "dbstats")
  /\ UNCHANGED <<given, alloc, late, stats, poll>>

(* The collections there are have to be read one by one. *)
ReadDbStats ==
  /\ Goto("dbstats", "collstats")
  /\ db' = Total(alloc)
  /\ snap' = alloc
  /\ colls' = Blank
  /\ unread' = Existing
  /\ UNCHANGED <<given, alloc, late, fresh, calm, poll>>

ReadCollStats(c) ==
  /\ pc = "collstats" /\ c \in unread
  /\ colls' = [colls EXCEPT ![c] = alloc[c]]
  /\ unread' = unread \ {c}
  /\ fresh' = [fresh EXCEPT ![c] = IF @ <= StablePolls THEN @ + 1 ELSE @]
  /\ calm' = [calm EXCEPT ![c] = fresh'[c]]
  /\ UNCHANGED <<given, alloc, pc, late, db, snap, poll>>

(* --no-wait: the first reading is used. *)
ReadingEnds ==
  /\ unread = {}
  /\ IF wait THEN Goto("collstats", "compare") /\ UNCHANGED outcome
             ELSE Goto("collstats", "done") /\ outcome' = "immediate"
  /\ UNCHANGED <<given, alloc, late, stats, last, matches>>

\* Mutant: the collections have no part in it.
FingerprintOfDatabase ==
  [storage |-> db.storage, index |-> db.index,
   colls |-> [c \in Colls |-> [storage |-> 1, index |-> 1]]]

Fingerprint == [storage |-> db.storage, index |-> db.index, colls |-> colls]

MinimumPageOnly ==
  \E c \in Colls : sample[c].count > 0 /\ sample[c].size > 2 /\ colls[c].storage <= 1

\* Mutant: a reading that differs does not start the count again.
MatchesKept ==
  IF ~MinimumPageOnly /\ Fingerprint = last THEN matches + 1 ELSE matches

(* stable_seen after this reading: it has to equal the one before, and no    *)
(* collection of more than two pages may still show one.                     *)
Matches ==
  IF ~MinimumPageOnly /\ Fingerprint = last THEN matches + 1 ELSE 0

\* Mutant: one more reading than is counted.
SettlesAfter(n) == n > StablePolls

Settles(n) == n >= StablePolls

\* Mutant: no deadline.
CompareForEver ==
  /\ pc = "compare"
  /\ matches' = Matches
  /\ last' = Fingerprint
  /\ IF Settles(matches') THEN pc' = "done" /\ outcome' = "settled"
                                ELSE pc' = "sleep" /\ UNCHANGED outcome
  /\ UNCHANGED <<given, alloc, late, stats>>

(* A reading that settles counts also when the deadline has passed. *)
Compare ==
  /\ pc = "compare"
  /\ matches' = Matches
  /\ IF Settles(matches')
       THEN pc' = "done" /\ outcome' = "settled" /\ UNCHANGED last
       ELSE /\ last' = Fingerprint
            /\ IF late THEN pc' = "done" /\ outcome' = "timeout"
                       ELSE pc' = "sleep" /\ UNCHANGED outcome
  /\ UNCHANGED <<given, alloc, late, stats>>

Sleep ==
  /\ Goto("sleep", "flush")
  /\ UNCHANGED <<given, alloc, late, stats, poll>>

(* A command that raises ends the script without a report. *)
Fail ==
  /\ \/ pc \in {"flush", "dbstats"}
     \/ pc = "collstats" /\ unread # {}
  /\ pc' = "failed"
  /\ UNCHANGED <<given, alloc, late, stats, poll>>

-----------------------------------------------------------------------------
(* build_report *)

Objects == Sum([c \in Colls |-> sample[c].count])
DataSize == Sum([c \in Colls |-> sample[c].size])

(* --production-count, or else databaseProductionDocumentCount, or else the  *)
(* sum over the collections, to which a missing count contributes nothing.   *)
ProductionCount ==
  IF inputs.given # Missing THEN inputs.given
  ELSE Sum([c \in Colls |-> IF inputs.prod[c] = Missing THEN 0 ELSE inputs.prod[c]])

(* (size / count) * production, nothing when there is nothing to scale. *)
Scale(size, count, production) ==
  IF count = 0 THEN 0 ELSE (Unit \div count) * size * production

(* _storage_sample_untrusted: one page for more data, or less than 0.05. *)
StorageSampleUntrusted ==
  /\ DataSize > 0
  /\ \/ db.storage <= 1 /\ DataSize > 1
     \/ 20 * db.storage < DataSize

\* Mutant: only the ratio is looked at.
StorageOfRatioFloor ==
  LET measured == Scale(db.storage, Objects, ProductionCount)
      floor == Scale(DataSize, Objects, ProductionCount) \div 2
  IN IF 20 * db.storage < DataSize /\ floor > measured THEN floor ELSE measured

\* Mutant: only the page is looked at.
StorageOfPageFloor ==
  LET measured == Scale(db.storage, Objects, ProductionCount)
      floor == Scale(DataSize, Objects, ProductionCount) \div 2
  IN IF db.storage <= 1 /\ DataSize > 1 /\ floor > measured THEN floor ELSE measured

StorageSizeProduction ==
  LET measured == Scale(db.storage, Objects, ProductionCount)
      floor == Scale(DataSize, Objects, ProductionCount) \div 2
  IN IF StorageSampleUntrusted /\ floor > measured THEN floor ELSE measured

DataSizeProduction == Scale(DataSize, Objects, ProductionCount)
IndexSizeProduction == Scale(db.index, Objects, ProductionCount)
DiskRequired == (StorageSizeProduction * 4) \div 3
RamRequired == (IndexSizeProduction * 3) \div 2

\* Mutant: scaled by the documents of the whole database.
CollectionByObjects(c, size) ==
  IF inputs.prod[c] = Missing THEN 0 ELSE Scale(size, Objects, inputs.prod[c])

CollectionScaling(c, size) ==
  IF inputs.prod[c] = Missing THEN 0 ELSE Scale(size, sample[c].count, inputs.prod[c])

-----------------------------------------------------------------------------
(* One thread. *)
Step == \/ Flush \/ ReadDbStats \/ \E c \in Colls : ReadCollStats(c)
        \/ ReadingEnds \/ Compare \/ Sleep \/ Fail

Next == Step \/ TimePasses \/ \E c \in Colls : Grow(c)

Spec == Init /\ [][Next]_vars /\ WF_vars(Step) /\ WF_vars(TimePasses)

-----------------------------------------------------------------------------
(* The database and its collections are read at different moments, and yet   *)
(* the report of a wait that settled is of one moment: the storage and the   *)
(* indexes of the database are those of its collections together.            *)
SettledConsistent == outcome = "settled" => db = Total(colls)

(* What settled has been read StablePolls + 1 times without a change in      *)
(* between: a pause of WiredTiger between two readings does not pass for it. *)
SettledCalm == outcome = "settled" => \A c \in Existing : calm[c] > StablePolls

(* Production counts in the proportions of a sample without an empty         *)
(* collection: the figures for the collections add up to those for the       *)
(* database.  (The indexes of an empty collection count for the latter only.) *)
SettledAgrees ==
  (/\ outcome = "settled"
   /\ \A c \in Colls : sample[c].count > 0
   /\ \A c \in Colls : inputs.prod[c] * Objects = sample[c].count * ProductionCount)
  => /\ Sum([c \in Colls |-> CollectionScaling(c, sample[c].size)]) = DataSizeProduction
     /\ Sum([c \in Colls |-> CollectionScaling(c, colls[c].index)]) = IndexSizeProduction

(* However the wait ended and whatever was still unwritten, three quarters   *)
(* of the disk hold a twentieth of the production data, and half of it where *)
(* the database shows a single page.                                         *)
DiskHolds ==
  outcome # "none" =>
    /\ 3 * 20 * DiskRequired >= 4 * DataSizeProduction
    /\ (db.storage <= 1 /\ DataSize > 1) => 3 * 2 * DiskRequired >= 4 * DataSizeProduction

(* The wait ends, also when the statistics never settle. *)
WaitEnds == (pc = "flush") ~> pc \in {"done", "failed"}
================================================================================
