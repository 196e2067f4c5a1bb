------------------------------ MODULE LsmTree ------------------------------
(***************************************************************************)
(* The storage engine (engine/src/engine.cpp) with its threads taking      *)
(* turns: a batch of the writer thread, a memtable handed over, an SSTable *)
(* flushed and a level compacted are one step each.  What is left is the   *)
(* LSM algorithm, and this module says whether it implements a map.        *)
(* StorageEngine has the same operations cut into the threads' real steps. *)
(***************************************************************************)
EXTENDS Tables

CONSTANTS
    Keys,           \* the keys, a set of numbers
    MemTableLimit,  \* kMemTableThreshold, in entries
    L0Files,        \* files in L0 that trigger a compaction (4)
    LevelLimit,     \* klevelSizes of L1 and L2, in entries
    MaxWrites,      \* bound: writes
    MaxDels,        \* bound: deletes among them
    MaxFlushes,     \* bound: calls of flush()
    MaxReopens      \* bound: clean restarts

ASSUME LsmAssumption ==
    /\ Keys \subseteq Nat /\ IsFiniteSet(Keys)
    /\ MemTableLimit \in Nat \ {0} /\ L0Files \in Nat \ {0}
    /\ LevelLimit \in [1..2 -> Nat]
    /\ {MaxWrites, MaxDels, MaxFlushes, MaxReopens} \subseteq Nat

VARIABLES
    memtable,       \* memtable_
    immutable,      \* immutable_memtable_: at most one table
    flushDue,       \* the writer is in checkFlush, its batch not yet answered
    version,        \* version_manager_'s current version
    tables,         \* contents of the SSTable files, by id
    seq,            \* seq_number_
    counter,        \* flush_counter_
    log,            \* the records in data_dir/log.bin
    linked,         \* the open log is still data_dir/log.bin
    saved,          \* metadata.txt and levels.txt: at most one record
    dels, flushes, reopens

vars == <<memtable, immutable, flushDue, version, tables, seq, counter, log,
          linked, saved, dels, flushes, reopens>>

treeVars  == <<version, tables, counter, saved>>
countVars == <<dels, flushes, reopens>>

Init ==
    /\ memtable = EmptyTable /\ immutable = {} /\ flushDue = FALSE
    /\ version = EmptyVersion /\ tables = EmptyTable
    /\ seq = 1 /\ counter = 0
    /\ log = <<>> /\ linked = TRUE /\ saved = {}
    /\ dels = 0 /\ flushes = 0 /\ reopens = 0

\* get()
Candidate(k) ==
    Newest(EntryOf(memtable, k) \cup UNION {EntryOf(t, k) : t \in immutable})

Get(k) == Visible(Lookup(version, tables, k, Candidate(k)))

-----------------------------------------------------------------------------
(* writerThreadLoop: the memtable, the log, the sequence number; then      *)
(* checkFlush, which may have to wait for the flush thread.                *)
Write(k, type) ==
    /\ ~flushDue /\ seq <= MaxWrites
    /\ memtable' = PutEntry(memtable, k, [seq |-> seq, type |-> type])
    /\ log' = IF linked
              THEN Append(log, [key |-> k, seq |-> seq, type |-> type])
              ELSE log
    /\ seq' = seq + 1
    /\ flushDue' = (Cardinality(DOMAIN memtable') >= MemTableLimit)
    /\ UNCHANGED <<immutable, treeVars, linked, flushes, reopens>>

Put(k) == Write(k, "PUT") /\ UNCHANGED dels

Del(k) == dels < MaxDels /\ dels' = dels + 1 /\ Write(k, "DELETE")

(* checkFlush: the memtable becomes the immutable one and log.bin is       *)
(* removed; the log's descriptor stays open on the removed file.           *)
HandOver ==
    /\ immutable = {}
    /\ immutable' = {memtable}
    /\ memtable' = EmptyTable
    /\ log' = <<>> /\ linked' = FALSE
    /\ UNCHANGED <<treeVars, seq, dels, reopens>>

CheckFlush == flushDue /\ flushDue' = FALSE /\ HandOver /\ UNCHANGED flushes

Flush ==
    /\ ~flushDue /\ flushes < MaxFlushes
    /\ flushes' = flushes + 1
    /\ HandOver
    /\ UNCHANGED flushDue

-----------------------------------------------------------------------------
Save(v, n) == saved' = {[counter |-> n, seq |-> seq, levels |-> v.levels]}

(* flushThreadLoop: an empty memtable leaves no file.                      *)
FlushThread ==
    \E t \in immutable :
        /\ immutable' = {}
        /\ IF t = EmptyTable THEN UNCHANGED treeVars
           ELSE /\ counter' = counter + 1
                /\ tables' = With(tables, counter + 1, t)
                /\ version' = AddSSTable(version, MetaOf(counter + 1, 0, t))
                /\ Save(version', counter + 1)
        /\ UNCHANGED <<memtable, flushDue, seq, log, linked, countVars>>

(* compactL0toL1 and compactlevelN.  When nothing survives the merge they  *)
(* return at once and leave the files as they are.                         *)
Compact(l) ==
    /\ ShouldCompact(version, l, L0Files, LevelLimit) /\ CanCompact(version, l)
    /\ LET ids    == CompactionInputs(version, l)
           merged == MergeSSTables(tables, ids)
           meta   == MetaOf(counter + 1, l + 1, merged)
       IN  /\ merged # EmptyTable
           /\ counter' = counter + 1
           /\ version' = CompactedVersion(version, ids, meta)
           /\ tables' = With(Restrict(tables, DOMAIN tables \ ids),
                             counter + 1, merged)
           /\ Save(version', counter + 1)
    /\ UNCHANGED <<memtable, immutable, flushDue, seq, log, linked, countVars>>

-----------------------------------------------------------------------------
(* The destructor, which lets the flush thread finish but leaves the       *)
(* memtable to the log, and then the constructor.                          *)
Reopen ==
    /\ ~flushDue /\ immutable = {} /\ reopens < MaxReopens
    /\ reopens' = reopens + 1
    /\ counter' = IF saved = {} THEN 0
                  ELSE (CHOOSE m \in saved : TRUE).counter
    /\ version' = IF saved = {} THEN EmptyVersion
                  ELSE LoadedVersion((CHOOSE m \in saved : TRUE).levels,
                                     DOMAIN tables)
    /\ LET start == IF saved = {} THEN 1 ELSE (CHOOSE m \in saved : TRUE).seq
       IN  seq' = IF log = <<>> THEN start
                  ELSE Max({start} \cup {r.seq : r \in Range(log)}) + 1
    /\ memtable' = Replayed(log)
    /\ linked' = TRUE
    /\ UNCHANGED <<immutable, flushDue, tables, log, saved, dels, flushes>>

-----------------------------------------------------------------------------
Next ==
    \/ \E k \in Keys : Put(k) \/ Del(k)
    \/ CheckFlush \/ Flush \/ FlushThread
    \/ \E l \in 0..2 : Compact(l)
    \/ Reopen

Spec == Init /\ [][Next]_vars

-----------------------------------------------------------------------------
Metas == [id : Nat, level : Levels, minKey : Keys, maxKey : Keys, size : Nat]

TypeOK ==
    /\ \A t \in {memtable} \cup immutable \cup Range(tables) :
           DOMAIN t \subseteq Keys /\ Range(t) \subseteq Entry
    /\ Cardinality(immutable) <= 1
    /\ flushDue \in BOOLEAN /\ linked \in BOOLEAN
    /\ \A l \in Levels : Range(version.levels[l]) \subseteq Metas
    /\ version.sstables \subseteq DOMAIN tables
    /\ seq \in Nat /\ counter \in Nat
    /\ {dels, flushes, reopens} \subseteq Nat

\* The files of L1 and below never overlap and are sorted, whatever the order
\* of flushes and compactions: get() searches them by bisection and looks at
\* one file per level (compactL0toL1, compactlevelN, get).
LevelsStaySorted == SortedLevels(version)

\* A file on a level is newer than every file below it that holds the same
\* key, so that the first level with a hit has the newest entry (get).
LevelsInOrder ==
    \A l, m \in Levels : l < m =>
        \A a \in Range(version.levels[l]), b \in Range(version.levels[m]) :
            \A k \in DOMAIN tables[a.id] \cap DOMAIN tables[b.id] :
                tables[a.id][k].seq > tables[b.id][k].seq

\* What get() takes for granted: one file per level to look at, found by
\* bisection, and on the first level with a hit the newest entry, through
\* every order of flushes, compactions and restarts.
LevelsSound == TypeOK /\ LevelsStaySorted /\ LevelsInOrder

Value(found) == IF found = {} THEN 0 ELSE (CHOOSE e \in found : TRUE).seq

Contents == [k \in Keys |-> Value(Get(k))]

\* What get() would return if the memtable were empty.
Below == [k \in Keys |->
    Value(Visible(Lookup(version, tables, k,
                         UNION {EntryOf(t, k) : t \in immutable})))]

KV == INSTANCE KVStore WITH
    kv <- Contents, kept <- Below, logged <- linked,
    deep <- version.levels[2] # <<>> \/ version.levels[3] # <<>>,
    writes <- seq - 1, NoValue <- 0

\* The engine is a map: what get() returns changes by a put or a delete of
\* that key and by no other step, flushes, compactions and restarts included,
\* but for the two exceptions KVStore names (get, checkFlush, flushThreadLoop,
\* compactL0toL1, compactlevelN, the constructor).
ImplementsMap == KV!Spec
=============================================================================
