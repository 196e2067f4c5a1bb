--------------------------- MODULE StorageEngine ---------------------------
(***************************************************************************)
(* The storage engine (engine/src/engine.cpp) with its threads: the writer *)
(* thread, the flush thread, the compaction thread, client threads inside  *)
(* get() and client threads inside flush(), together with what is on disk  *)
(* and crashes of the process.                                             *)
(*                                                                         *)
(* A step is what a thread does under one lock, or between two accesses to *)
(* shared state.  The write queue is abstracted to the batches it yields   *)
(* (WriteQueue) and the log to its two buffers and its file (Wal).         *)
(***************************************************************************)
EXTENDS Tables, LRUCache

CONSTANTS
    Keys,           \* the keys, a set of numbers
    Readers,        \* client threads that call get()
    Flushers,       \* client threads that call flush()
    CacheSize,      \* capacity of the LRU cache; 0: no cache
    MemTableLimit,  \* kMemTableThreshold, in entries
    L0Files,        \* files in L0 that trigger a compaction (4)
    LevelLimit,     \* klevelSizes of L1 and L2, in entries
    MaxBatch,       \* MAX_BATCH_SIZE
    MaxWrites,      \* bound: writes
    MaxGets,        \* bound: calls of get()
    MaxFlushes,     \* bound: calls of flush()
    MaxCrashes      \* bound: crashes

ASSUME EngineAssumption ==
    /\ Keys \subseteq Nat /\ IsFiniteSet(Keys)
    /\ "writer" \notin Flushers
    /\ {MemTableLimit, L0Files, MaxBatch} \subseteq Nat \ {0}
    /\ LevelLimit \in [1..2 -> Nat]
    /\ {CacheSize, MaxWrites, MaxGets, MaxFlushes, MaxCrashes} \subseteq Nat

Callers == Flushers \cup {"writer"}      \* the threads that run checkFlush

VARIABLES
    \* Shared memory
    memtable, immutable, version, cache,
    seq,            \* seq_number_
    counter,        \* flush_counter_
    pending,        \* flush_pending_
    needed,         \* compaction_needed_
    opened,         \* ids of the SSTables whose file handle is open
    \* Disk
    tables,         \* contents of the SSTable files, by id, removed ones too
    files,          \* ids of the SSTable files that exist
    metaFile,       \* metadata.txt: absent, truncated (<<>>) or its two lines
    levelsFile,     \* levels.txt: absent or its lines
    log,            \* the records in data_dir/log.bin
    linked,         \* the open log is still data_dir/log.bin
    walBuf,         \* write_buffer_ of the log
    walSyncing,     \* sync_buffer_, until its generation is published
    \* Threads
    proc,           \* "up", or "failed": the constructor or a thread threw
    w,              \* the writer thread: its batch and position in it
    cf,             \* checkFlush in each caller, with its snapshot
    f,              \* the flush thread: memtable_to_flush, id, new version
    c,              \* the compaction thread: its inputs and results
    save,           \* saveMetadata, under metadata_mutex_
    rd,             \* each reader: its key, candidate and version; ghosts:
                    \* acked[key] when its get began (floor), whether it read
                    \* immutable_memtable_ during a hand-over or hit a tainted
                    \* entry (gap), whether its key was written meanwhile (overlap)
    \* Ghosts and bound counters
    acked,          \* acked[k]: the last write of k that was answered
    settled,        \* settled[k]: the last one answered one batch earlier
    flushed,        \* flushed[k]: the last one in a table of levels.txt
    lastDel,        \* lastDel[k]: the last delete of k that was written, or, from
                    \* a restart on, that it recovered
    tainted,        \* keys a get with gap or overlap has put in the cache
    lostUpdate,     \* a version was installed over one it was not made from
    lostWrite,      \* the memtable was cleared of an entry not handed over
    disorder,       \* lostUpdate, now or before a crash; or a restart replayed
                    \* an older entry than a table has, or numbers start again
    gets, flushes, crashes

memVars   == <<memtable, immutable, version, seq, counter, pending, needed>>
fileVars  == <<tables, files, metaFile, levelsFile>>
logVars   == <<log, linked, walBuf, walSyncing>>
readVars  == <<rd, opened, gets>>
ackVars   == <<acked, settled>>
raceVars  == <<tainted, lostUpdate, lostWrite, disorder>>
boundVars == <<proc, flushes, crashes>>

vars == <<memVars, cache, fileVars, logVars, w, cf, f, c, save, readVars,
          ackVars, flushed, lastDel, raceVars, boundVars>>

WriterStart == [pc |-> "pop", batch |-> <<>>, pos |-> 1]
CheckFlushStart == [t \in Callers |-> [pc |-> "idle", snap |-> EmptyTable]]
FlushStart == [pc |-> "test", table |-> EmptyTable, id |-> 0,
               version |-> EmptyVersion]
CompactStart == [pc |-> "test", level |-> 0, ids |-> {}, table |-> EmptyTable,
                 id |-> 0, version |-> EmptyVersion]
NotSaving == [by |-> "none", step |-> "none", levels |-> EmptyVersion.levels]
ReadersStart == [r \in Readers |->
    [pc |-> "idle", key |-> 0, cand |-> {}, version |-> EmptyVersion,
     floor |-> 0, gap |-> FALSE, overlap |-> FALSE]]

Init ==
    /\ memtable = EmptyTable /\ immutable = {} /\ version = EmptyVersion
    /\ cache = CacheClear
    /\ seq = 1 /\ counter = 0 /\ pending = FALSE /\ needed = FALSE
    /\ tables = EmptyTable /\ files = {} /\ opened = {}
    /\ metaFile = {} /\ levelsFile = {}
    /\ log = <<>> /\ linked = TRUE /\ walBuf = <<>> /\ walSyncing = <<>>
    /\ proc = "up"
    /\ w = WriterStart /\ cf = CheckFlushStart
    /\ f = FlushStart /\ c = CompactStart
    /\ save = NotSaving /\ rd = ReadersStart
    /\ acked = [k \in Keys |-> 0] /\ settled = acked /\ flushed = acked
    /\ lastDel = acked /\ tainted = {} /\ lostUpdate = FALSE /\ lostWrite = FALSE
    /\ disorder = FALSE
    /\ gets = 0 /\ flushes = 0 /\ crashes = 0

-----------------------------------------------------------------------------
(* The log.  Once log.bin has been removed its records are of no use, and  *)
(* neither buffer nor file is followed any further.                        *)
LogAppend(rec) == walBuf' = IF linked THEN Append(walBuf, rec) ELSE walBuf

\* The sync thread swaps the buffers ...
WalSwap ==
    /\ proc = "up" /\ walSyncing = <<>> /\ walBuf # <<>>
    /\ walSyncing' = walBuf /\ walBuf' = <<>>
    /\ UNCHANGED <<memVars, cache, fileVars, log, linked, w, cf, f, c, save,
                   readVars, ackVars, flushed, lastDel, raceVars, boundVars>>

\* ... writes, and publishes.
WalPublish ==
    /\ proc = "up" /\ walSyncing # <<>>
    /\ log' = log \o walSyncing
    /\ walSyncing' = <<>>
    /\ UNCHANGED <<memVars, cache, fileVars, linked, walBuf, w, cf, f, c, save,
                   readVars, ackVars, flushed, lastDel, raceVars, boundVars>>

\* flush() returns at the next publication: of a sync that was under way when
\* it was called, or of one that takes the whole buffer.
WalFlushAsync ==         \* mutant: flush() does not wait
    UNCHANGED <<log, walSyncing, walBuf>>
WalFlush ==
    \/ /\ log' = log \o walSyncing \o walBuf
       /\ walSyncing' = <<>> /\ walBuf' = <<>>
    \/ /\ walSyncing # <<>>
       /\ log' = log \o walSyncing
       /\ walSyncing' = <<>> /\ UNCHANGED walBuf

-----------------------------------------------------------------------------
(* writerThreadLoop *)
Requests == [key : Keys, type : {"PUT", "DELETE"}]

WriterPop ==
    /\ proc = "up" /\ w.pc = "pop"
    /\ \E n \in 1..MaxBatch : \E b \in [1..n -> Requests] :
           /\ seq + n <= MaxWrites + 1
           /\ w' = [pc |-> "apply", batch |-> b, pos |-> 1]
    /\ UNCHANGED <<memVars, cache, fileVars, logVars, cf, f, c, save, readVars,
                   ackVars, flushed, lastDel, raceVars, boundVars>>

Request == w.batch[w.pos]

\* memtable_.put or del
WriterApply ==
    /\ proc = "up" /\ w.pc = "apply"
    /\ memtable' = PutEntry(memtable, Request.key,
                            [seq |-> seq, type |-> Request.type])
    /\ lastDel' = IF Request.type = "DELETE"
                  THEN [lastDel EXCEPT ![Request.key] = seq] ELSE lastDel
    /\ w' = [w EXCEPT !.pc = "log"]
    /\ rd' = [r \in Readers |->
           IF /\ rd[r].key = Request.key
              /\ rd[r].pc \in {"imm", "version", "search", "fill"}
           THEN [rd[r] EXCEPT !.overlap = TRUE] ELSE rd[r]]
    /\ UNCHANGED <<immutable, version, seq, counter, pending, needed, cache,
                   fileVars, logVars, cf, f, c, save, opened, gets, ackVars,
                   flushed, raceVars, boundVars>>

\* wal_.append, seq_number_++
WriterLog ==
    /\ proc = "up" /\ w.pc = "log"
    /\ LogAppend([key |-> Request.key, seq |-> seq, type |-> Request.type])
    /\ seq' = seq + 1
    /\ w' = [w EXCEPT !.pc = "invalidate"]
    /\ UNCHANGED <<memtable, immutable, version, counter, pending, needed, cache,
                   fileVars, log, linked, walSyncing, cf, f, c, save, readVars,
                   ackVars, flushed, lastDel, raceVars, boundVars>>

\* cache_->invalidate, and on to the next request
WriterInvalidate ==
    /\ proc = "up" /\ w.pc = "invalidate"
    /\ cache' = CacheInvalidate(cache, Request.key)
    /\ tainted' = tainted \ {Request.key}
    /\ w' = IF w.pos < Len(w.batch)
            THEN [w EXCEPT !.pc = "apply", !.pos = @ + 1]
            ELSE [w EXCEPT !.pc = "flush"]
    /\ UNCHANGED <<memVars, fileVars, logVars, cf, f, c, save, readVars, ackVars,
                   flushed, lastDel, lostUpdate, lostWrite, disorder, boundVars>>

\* wal_.flush, then checkFlush if the memtable is large enough
WriterFlush ==
    /\ proc = "up" /\ w.pc = "flush"
    /\ WalFlush
    /\ IF Cardinality(DOMAIN memtable) >= MemTableLimit
       THEN /\ w' = [w EXCEPT !.pc = "checkFlush"]
            /\ cf' = [cf EXCEPT !["writer"].pc = "wal"]
       ELSE /\ w' = [w EXCEPT !.pc = "ack"]
            /\ UNCHANGED cf
    /\ UNCHANGED <<memVars, cache, fileVars, linked, f, c, save, readVars,
                   ackVars, flushed, lastDel, raceVars, boundVars>>

\* The promises of the batch are set.  The writer is alone in changing
\* seq_number_, so the batch has the numbers just below it.
SeqAt(i) == seq - Len(w.batch) + i - 1

WriterAck ==
    /\ proc = "up" /\ w.pc = "ack"
    /\ settled' = acked
    /\ acked' = [k \in Keys |->
           Max({acked[k]} \cup {SeqAt(i) : i \in {j \in DOMAIN w.batch :
                                                      w.batch[j].key = k}})]
    /\ w' = WriterStart
    /\ UNCHANGED <<memVars, cache, fileVars, logVars, cf, f, c, save, readVars,
                   flushed, lastDel, raceVars, boundVars>>

-----------------------------------------------------------------------------
(* checkFlush, in the writer thread or in a client's flush().  While a     *)
(* caller tests, copies, clears and stores it holds flush_mutex_.          *)
FlushMutexFree == \A t \in Callers : cf[t].pc \notin {"toSleep", "clear", "store"}

FlushCall(t) ==
    /\ proc = "up" /\ t # "writer" /\ cf[t].pc = "idle"
    /\ flushes < MaxFlushes
    /\ flushes' = flushes + 1
    /\ cf' = [cf EXCEPT ![t].pc = "wal"]
    /\ UNCHANGED <<memVars, cache, fileVars, logVars, w, f, c, save, readVars,
                   ackVars, flushed, lastDel, raceVars, proc, crashes>>

CheckFlushWal(t) ==
    /\ proc = "up" /\ cf[t].pc = "wal"
    /\ WalFlush
    /\ cf' = [cf EXCEPT ![t].pc = "lock"]
    /\ UNCHANGED <<memVars, cache, fileVars, linked, w, f, c, save, readVars,
                   ackVars, flushed, lastDel, raceVars, boundVars>>

\* The loop around flush_cv_.wait: another memtable is still being flushed.
CheckFlushTest(t) ==
    /\ proc = "up" /\ cf[t].pc = "lock" /\ FlushMutexFree
    /\ immutable # {}
    /\ cf' = [cf EXCEPT ![t].pc = "toSleep"]
    /\ UNCHANGED <<memVars, cache, fileVars, logVars, w, f, c, save, readVars,
                   ackVars, flushed, lastDel, raceVars, boundVars>>

CheckFlushSleep(t) ==
    /\ proc = "up" /\ cf[t].pc = "toSleep"
    /\ cf' = [cf EXCEPT ![t].pc = "asleep"]
    /\ UNCHANGED <<memVars, cache, fileVars, logVars, w, f, c, save, readVars,
                   ackVars, flushed, lastDel, raceVars, boundVars>>

CheckFlushSnapshotNoWait(t) ==      \* mutant: no wait for the last memtable
    /\ proc = "up" /\ cf[t].pc = "lock" /\ FlushMutexFree
    /\ cf' = [cf EXCEPT ![t] = [pc |-> "clear", snap |-> memtable]]
    /\ UNCHANGED <<memVars, cache, fileVars, logVars, w, f, c, save, readVars,
                   ackVars, flushed, lastDel, raceVars, boundVars>>
CheckFlushSnapshot(t) ==
    /\ proc = "up" /\ cf[t].pc = "lock" /\ FlushMutexFree
    /\ immutable = {}
    /\ cf' = [cf EXCEPT ![t] = [pc |-> "clear", snap |-> memtable]]
    /\ UNCHANGED <<memVars, cache, fileVars, logVars, w, f, c, save, readVars,
                   ackVars, flushed, lastDel, raceVars, boundVars>>

CheckFlushClear(t) ==
    /\ proc = "up" /\ cf[t].pc = "clear"
    /\ memtable' = EmptyTable
    /\ lostWrite' = (lostWrite \/ memtable # cf[t].snap)
    /\ cf' = [cf EXCEPT ![t].pc = "store"]
    /\ UNCHANGED <<immutable, version, seq, counter, pending, needed, cache,
                   fileVars, logVars, w, f, c, save, readVars, ackVars, flushed,
                   lastDel, tainted, lostUpdate, disorder, boundVars>>

CheckFlushStore(t) ==
    /\ proc = "up" /\ cf[t].pc = "store"
    /\ immutable' = {cf[t].snap}
    /\ pending' = TRUE
    /\ cf' = [cf EXCEPT ![t] = [pc |-> "notify", snap |-> EmptyTable]]
    /\ UNCHANGED <<memtable, version, seq, counter, needed, cache, fileVars,
                   logVars, w, f, c, save, readVars, ackVars, flushed, lastDel,
                   raceVars, boundVars>>

\* flush_cv_ has two kinds of waiters; notify_one wakes any one of them.
Asleep == {t \in Callers : cf[t].pc = "asleep"}

CheckFlushNotifyNone(t) ==          \* mutant: no notification
    /\ proc = "up" /\ cf[t].pc = "notify"
    /\ cf' = [cf EXCEPT ![t].pc = "remove"]
    /\ UNCHANGED <<memVars, cache, fileVars, logVars, w, f, c, save, readVars,
                   ackVars, flushed, lastDel, raceVars, boundVars>>
CheckFlushNotify(t) ==
    /\ proc = "up" /\ cf[t].pc = "notify"
    /\ \/ /\ Asleep = {} /\ f.pc # "asleep"
          /\ cf' = [cf EXCEPT ![t].pc = "remove"] /\ UNCHANGED f
       \/ /\ f.pc = "asleep"
          /\ f' = [f EXCEPT !.pc = "test"]
          /\ cf' = [cf EXCEPT ![t].pc = "remove"]
       \/ \E u \in Asleep :
             /\ cf' = [cf EXCEPT ![t].pc = "remove", ![u].pc = "lock"]
             /\ UNCHANGED f
    /\ UNCHANGED <<memVars, cache, fileVars, logVars, w, c, save, readVars,
                   ackVars, flushed, lastDel, raceVars, boundVars>>

\* std::remove of log.bin; the log's descriptor stays open.
CheckFlushRemove(t) ==
    /\ proc = "up" /\ cf[t].pc = "remove"
    /\ linked' = FALSE /\ log' = <<>> /\ walBuf' = <<>> /\ walSyncing' = <<>>
    /\ cf' = [cf EXCEPT ![t].pc = "idle"]
    /\ w' = IF t = "writer" THEN [w EXCEPT !.pc = "ack"] ELSE w
    /\ UNCHANGED <<memVars, cache, fileVars, f, c, save, readVars, ackVars,
                   flushed, lastDel, raceVars, boundVars>>

-----------------------------------------------------------------------------
(* saveMetadata: metadata_mutex_ is held from the first step to the last,  *)
(* and each file is truncated before it is written.                        *)
MetadataMutexFree == save.by = "none"

SaveBegin(thread) ==
    /\ MetadataMutexFree
    /\ save' = [by |-> thread, step |-> "meta", levels |-> version.levels]
    /\ metaFile' = {<<>>}
    /\ UNCHANGED levelsFile

SaveMeta ==
    /\ proc = "up" /\ save.step = "meta"
    /\ metaFile' = {<<counter, seq>>}
    /\ save' = [save EXCEPT !.step = "truncate"]
    /\ UNCHANGED <<memVars, cache, tables, files, levelsFile, logVars, w, cf, f,
                   c, readVars, ackVars, flushed, lastDel, raceVars, boundVars>>

SaveTruncate ==
    /\ proc = "up" /\ save.step = "truncate"
    /\ levelsFile' = {EmptyVersion.levels}
    /\ save' = [save EXCEPT !.step = "levels"]
    /\ UNCHANGED <<memVars, cache, tables, files, metaFile, logVars, w, cf, f,
                   c, readVars, ackVars, flushed, lastDel, raceVars, boundVars>>

InFiles(ids, k) == UNION {EntryOf(tables[id], k) : id \in ids}

SeqsIn(ids, k) == {e.seq : e \in InFiles(ids, k)}

\* The last step; the thread that saves goes on.
SaveLevels ==
    /\ proc = "up" /\ save.step = "levels"
    /\ levelsFile' = {save.levels}
    /\ flushed' = [k \in Keys |->
           Max({flushed[k]} \cup SeqsIn(IdsOf(save.levels), k))]
    /\ save' = NotSaving
    /\ f' = IF save.by = "flush" THEN [f EXCEPT !.pc = "cache"] ELSE f
    /\ c' = IF save.by = "compact" THEN [c EXCEPT !.pc = "remove"] ELSE c
    /\ UNCHANGED <<memVars, cache, tables, files, metaFile, logVars, w, cf,
                   readVars, ackVars, lastDel, raceVars, boundVars>>

-----------------------------------------------------------------------------
(* flushThreadLoop.  The predicate of its wait is tested under             *)
(* flush_mutex_, under which flush_pending_ is set.                        *)
FlushTakeMoves ==       \* mutant: the memtable is moved out, not shared
    /\ proc = "up" /\ f.pc = "test" /\ FlushMutexFree
    /\ pending
    /\ \E t \in immutable :
           f' = [f EXCEPT !.pc = IF t = EmptyTable THEN "null" ELSE "build",
                          !.table = t]
    /\ pending' = FALSE /\ immutable' = {}
    /\ UNCHANGED <<memtable, version, seq, counter, needed, cache, fileVars,
                   logVars, w, cf, c, save, readVars, ackVars, flushed, lastDel,
                   raceVars, boundVars>>
FlushTake ==
    /\ proc = "up" /\ f.pc = "test" /\ FlushMutexFree
    /\ pending
    /\ \E t \in immutable :
           f' = [f EXCEPT !.pc = IF t = EmptyTable THEN "null" ELSE "build",
                          !.table = t]
    /\ pending' = FALSE
    /\ UNCHANGED <<memtable, immutable, version, seq, counter, needed, cache,
                   fileVars, logVars, w, cf, c, save, readVars, ackVars, flushed,
                   lastDel, raceVars, boundVars>>

FlushSleep ==
    /\ proc = "up" /\ f.pc = "test" /\ FlushMutexFree
    /\ ~pending
    /\ f' = [f EXCEPT !.pc = "asleep"]
    /\ UNCHANGED <<memVars, cache, fileVars, logVars, w, cf, c, save, readVars,
                   ackVars, flushed, lastDel, raceVars, boundVars>>

\* A new id and SSTable::flush.
FlushBuild ==
    /\ proc = "up" /\ f.pc = "build" /\ MetadataMutexFree
    /\ counter' = counter + 1
    /\ tables' = With(tables, counter', f.table)
    /\ files' = files \cup {counter'}
    /\ f' = [f EXCEPT !.pc = "copy", !.id = counter']
    /\ UNCHANGED <<memtable, immutable, version, seq, pending, needed, cache,
                   metaFile, levelsFile, logVars, w, cf, c, save, readVars,
                   ackVars, flushed, lastDel, raceVars, boundVars>>

\* getVersionForModification and addSSTable
FlushCopy ==
    /\ proc = "up" /\ f.pc = "copy"
    /\ f' = [f EXCEPT !.pc = "install",
                      !.version = AddSSTable(version, MetaOf(f.id, 0, f.table))]
    /\ UNCHANGED <<memVars, cache, fileVars, logVars, w, cf, c, save, readVars,
                   ackVars, flushed, lastDel, raceVars, boundVars>>

\* installVersion.  If the compaction thread is between its own copy and its
\* install, the update that is installed first is lost.
FlushInstall ==
    /\ proc = "up" /\ f.pc = "install"
    /\ version' = f.version
    /\ lostUpdate' = (lostUpdate \/ c.pc = "install")
    /\ disorder' = (disorder \/ lostUpdate')
    /\ f' = [f EXCEPT !.pc = "save", !.version = EmptyVersion]
    /\ UNCHANGED <<memtable, immutable, seq, counter, pending, needed, cache,
                   fileVars, logVars, w, cf, c, save, readVars, ackVars, flushed,
                   lastDel, tainted, lostWrite, boundVars>>

FlushSave ==
    /\ proc = "up" /\ f.pc = "save"
    /\ SaveBegin("flush")
    /\ f' = [f EXCEPT !.pc = "saving"]
    /\ UNCHANGED <<memVars, cache, tables, files, logVars, w, cf, c, readVars,
                   ackVars, flushed, lastDel, raceVars, boundVars>>

\* cache_->clear and scheduleCompaction, which notifies without the mutex.
FlushCache ==
    /\ proc = "up" /\ f.pc = "cache"
    /\ cache' = CacheClear /\ tainted' = {}
    /\ needed' = TRUE
    /\ c' = IF c.pc = "asleep" THEN [c EXCEPT !.pc = "test"] ELSE c
    /\ f' = [f EXCEPT !.pc = "null"]
    /\ UNCHANGED <<memtable, immutable, version, seq, counter, pending, fileVars,
                   logVars, w, cf, save, readVars, ackVars, flushed, lastDel,
                   lostUpdate, lostWrite, disorder, boundVars>>

\* immutable_memtable_ is reset and flush_cv_ notified without flush_mutex_.
FlushReset ==
    /\ proc = "up" /\ f.pc = "null"
    /\ immutable' = {}
    /\ f' = [f EXCEPT !.pc = "notify"]
    /\ UNCHANGED <<memtable, version, seq, counter, pending, needed, cache,
                   fileVars, logVars, w, cf, c, save, readVars, ackVars, flushed,
                   lastDel, raceVars, boundVars>>

FlushNotify ==
    /\ proc = "up" /\ f.pc = "notify"
    /\ cf' = [t \in Callers |-> IF t \in Asleep THEN [cf[t] EXCEPT !.pc = "lock"]
                                                ELSE cf[t]]
    /\ f' = FlushStart
    /\ UNCHANGED <<memVars, cache, fileVars, logVars, w, c, save, readVars,
                   ackVars, flushed, lastDel, raceVars, boundVars>>

-----------------------------------------------------------------------------
(* compactionThreadLoop: its wait may miss a notification sent between the *)
(* test of the predicate and the wait, for scheduleCompaction takes no     *)
(* lock.  maybeCompactBackground goes through the levels.                  *)
CompactTest ==
    /\ proc = "up" /\ c.pc = "test"
    /\ c' = [c EXCEPT !.pc = IF needed THEN "level" ELSE "toSleep"]
    /\ needed' = FALSE
    /\ UNCHANGED <<memtable, immutable, version, seq, counter, pending, cache,
                   fileVars, logVars, w, cf, f, save, readVars, ackVars, flushed,
                   lastDel, raceVars, boundVars>>

CompactSleep ==
    /\ proc = "up" /\ c.pc = "toSleep"
    /\ c' = [c EXCEPT !.pc = "asleep"]
    /\ UNCHANGED <<memVars, cache, fileVars, logVars, w, cf, f, save, readVars,
                   ackVars, flushed, lastDel, raceVars, boundVars>>

\* The files to merge on level l of the current version, if there is work.
Inputs(l) ==
    IF ShouldCompact(version, l, L0Files, LevelLimit) /\ CanCompact(version, l)
    THEN CompactionInputs(version, l) ELSE {}

CompactSkip ==
    /\ proc = "up" /\ c.pc = "level"
    /\ \/ /\ c.level = 3
          /\ c' = CompactStart
       \/ /\ c.level < 3
          /\ Inputs(c.level) \subseteq files
          /\ MergeSSTables(tables, Inputs(c.level)) = EmptyTable
          /\ c' = [c EXCEPT !.level = @ + 1]
    /\ UNCHANGED <<memVars, cache, fileVars, logVars, w, cf, f, save, readVars,
                   ackVars, flushed, lastDel, raceVars, boundVars>>

CompactMerge ==
    /\ proc = "up" /\ c.pc = "level" /\ c.level < 3
    /\ LET ids == Inputs(c.level)
       IN  /\ ids \subseteq files
           /\ MergeSSTables(tables, ids) # EmptyTable
           /\ c' = [c EXCEPT !.pc = "build", !.ids = ids,
                             !.table = MergeSSTables(tables, ids)]
    /\ UNCHANGED <<memVars, cache, fileVars, logVars, w, cf, f, save, readVars,
                   ackVars, flushed, lastDel, raceVars, boundVars>>

\* SSTable::Iterator throws when its file is gone; nothing catches it, and an
\* exception that leaves the thread ends the process.
CompactThrow ==
    /\ proc = "up" /\ c.pc = "level" /\ c.level < 3
    /\ ~(Inputs(c.level) \subseteq files)
    /\ proc' = "failed"
    /\ UNCHANGED <<memVars, cache, fileVars, logVars, w, cf, f, c, save, readVars,
                   ackVars, flushed, lastDel, raceVars, flushes, crashes>>

CompactBuildRemoves ==          \* mutant: the inputs are removed too early
    /\ proc = "up" /\ c.pc = "build" /\ MetadataMutexFree
    /\ counter' = counter + 1
    /\ tables' = With(tables, counter', c.table)
    /\ files' = (files \ c.ids) \cup {counter'}
    /\ c' = [c EXCEPT !.pc = "copy", !.id = counter']
    /\ UNCHANGED <<memtable, immutable, version, seq, pending, needed, cache,
                   metaFile, levelsFile, logVars, w, cf, f, save, readVars,
                   ackVars, flushed, lastDel, raceVars, boundVars>>
CompactBuild ==
    /\ proc = "up" /\ c.pc = "build" /\ MetadataMutexFree
    /\ counter' = counter + 1
    /\ tables' = With(tables, counter', c.table)
    /\ files' = files \cup {counter'}
    /\ c' = [c EXCEPT !.pc = "copy", !.id = counter']
    /\ UNCHANGED <<memtable, immutable, version, seq, pending, needed, cache,
                   metaFile, levelsFile, logVars, w, cf, f, save, readVars,
                   ackVars, flushed, lastDel, raceVars, boundVars>>

CompactCopy ==
    /\ proc = "up" /\ c.pc = "copy"
    /\ c' = [c EXCEPT !.pc = "install",
                      !.version = CompactedVersion(version, c.ids,
                                      MetaOf(c.id, c.level + 1, c.table))]
    /\ UNCHANGED <<memVars, cache, fileVars, logVars, w, cf, f, save, readVars,
                   ackVars, flushed, lastDel, raceVars, boundVars>>

CompactInstallUnsaved ==        \* mutant: saveMetadata is forgotten
    /\ proc = "up" /\ c.pc = "install"
    /\ version' = c.version
    /\ lostUpdate' = (lostUpdate \/ f.pc = "install")
    /\ disorder' = (disorder \/ lostUpdate')
    /\ c' = [c EXCEPT !.pc = "remove", !.version = EmptyVersion]
    /\ UNCHANGED <<memtable, immutable, seq, counter, pending, needed, cache,
                   fileVars, logVars, w, cf, f, save, readVars, ackVars, flushed,
                   lastDel, tainted, lostWrite, boundVars>>
CompactInstall ==
    /\ proc = "up" /\ c.pc = "install"
    /\ version' = c.version
    /\ lostUpdate' = (lostUpdate \/ f.pc = "install")
    /\ disorder' = (disorder \/ lostUpdate')
    /\ c' = [c EXCEPT !.pc = "save", !.version = EmptyVersion]
    /\ UNCHANGED <<memtable, immutable, seq, counter, pending, needed, cache,
                   fileVars, logVars, w, cf, f, save, readVars, ackVars, flushed,
                   lastDel, tainted, lostWrite, boundVars>>

CompactSave ==
    /\ proc = "up" /\ c.pc = "save"
    /\ SaveBegin("compact")
    /\ c' = [c EXCEPT !.pc = "saving"]
    /\ UNCHANGED <<memVars, cache, tables, files, logVars, w, cf, f, readVars,
                   ackVars, flushed, lastDel, raceVars, boundVars>>

CompactRemove ==
    /\ proc = "up" /\ c.pc = "remove"
    /\ files' = files \ c.ids
    /\ c' = [c EXCEPT !.pc = "cache"]
    /\ UNCHANGED <<memVars, cache, tables, metaFile, levelsFile, logVars, w, cf,
                   f, save, readVars, ackVars, flushed, lastDel, raceVars,
                   boundVars>>

CompactCache ==
    /\ proc = "up" /\ c.pc = "cache"
    /\ cache' = CacheClear /\ tainted' = {}
    /\ c' = [CompactStart EXCEPT !.pc = "level", !.level = c.level + 1]
    /\ UNCHANGED <<memVars, fileVars, logVars, w, cf, f, save, readVars, ackVars,
                   flushed, lastDel, lostUpdate, lostWrite, disorder, boundVars>>

-----------------------------------------------------------------------------
(* get() in a client thread *)
GetBegin(r, k) ==
    /\ proc = "up" /\ rd[r].pc \in {"idle", "done"} /\ gets < MaxGets
    /\ gets' = gets + 1
    /\ cache' = CacheTouch(cache, k)
    /\ rd' = [rd EXCEPT ![r] =
           [pc |-> IF CachedIn(cache, k) = {} THEN "mem" ELSE "done",
            key |-> k, cand |-> CachedIn(cache, k), version |-> EmptyVersion,
            floor |-> acked[k],
            gap |-> CachedIn(cache, k) # {} /\ k \in tainted,
            overlap |-> FALSE]]
    /\ UNCHANGED <<memVars, fileVars, logVars, w, cf, f, c, save, opened, ackVars,
                   flushed, lastDel, raceVars, boundVars>>

GetMemtable(r) ==
    /\ proc = "up" /\ rd[r].pc = "mem"
    /\ rd' = [rd EXCEPT ![r].pc = "imm",
                        ![r].cand = EntryOf(memtable, rd[r].key)]
    /\ UNCHANGED <<memVars, cache, fileVars, logVars, w, cf, f, c, save, opened,
                   gets, ackVars, flushed, lastDel, raceVars, boundVars>>

ImmutableEntry(k) == UNION {EntryOf(t, k) : t \in immutable}

GetImmutable(r) ==
    /\ proc = "up" /\ rd[r].pc = "imm"
    /\ rd' = [rd EXCEPT ![r].pc = "version",
                        ![r].cand = Newest(@ \cup ImmutableEntry(rd[r].key)),
                        ![r].gap = \E t \in Callers : cf[t].pc = "store"]
    /\ UNCHANGED <<memVars, cache, fileVars, logVars, w, cf, f, c, save, opened,
                   gets, ackVars, flushed, lastDel, raceVars, boundVars>>

\* The key is in neither memtable, L0 nor L1 and has been deleted: what L2 and
\* L3 hold of it a compaction has uncovered by dropping the tombstone.
ComeBack(r) ==
    /\ rd[r].cand = {}
    /\ \A l \in {0, 1} : Hits(version, tables, l, rd[r].key) = {}
    /\ lastDel[rd[r].key] >= rd[r].floor

\* getCurrentVersion
GetVersion(r) ==
    /\ proc = "up" /\ rd[r].pc = "version"
    /\ rd' = [rd EXCEPT ![r].pc = "search", ![r].version = version,
                        ![r].gap = @ \/ ComeBack(r)]
    /\ UNCHANGED <<memVars, cache, fileVars, logVars, w, cf, f, c, save, opened,
                   gets, ackVars, flushed, lastDel, raceVars, boundVars>>

NeededFiles(r) ==
    FilesRead(rd[r].version, tables, rd[r].key, rd[r].cand)

\* The search through the levels; SSTable::getFile opens a file at its first
\* use and keeps it open.
GetSearch(r) ==
    /\ proc = "up" /\ rd[r].pc = "search"
    /\ NeededFiles(r) \subseteq opened \cup files
    /\ opened' = opened \cup NeededFiles(r)
    /\ LET found == Visible(Lookup(rd[r].version, tables, rd[r].key, rd[r].cand))
       IN  rd' = [rd EXCEPT
               ![r].pc = IF found # {} /\ CacheSize > 0 THEN "fill" ELSE "done",
               ![r].cand = found, ![r].version = EmptyVersion]
    /\ UNCHANGED <<memVars, cache, fileVars, logVars, w, cf, f, c, save, gets,
                   ackVars, flushed, lastDel, raceVars, boundVars>>

\* A compaction has removed the file since the version was read.
GetThrow(r) ==
    /\ proc = "up" /\ rd[r].pc = "search"
    /\ ~(NeededFiles(r) \subseteq opened \cup files)
    /\ rd' = [rd EXCEPT ![r].pc = "threw", ![r].version = EmptyVersion]
    /\ UNCHANGED <<memVars, cache, fileVars, logVars, w, cf, f, c, save, opened,
                   gets, ackVars, flushed, lastDel, raceVars, boundVars>>

\* cache_->put
GetFill(r) ==
    /\ proc = "up" /\ rd[r].pc = "fill"
    /\ \E e \in rd[r].cand : cache' = CachePut(cache, rd[r].key, e, CacheSize)
    /\ tainted' = IF rd[r].gap \/ rd[r].overlap THEN tainted \cup {rd[r].key}
                                                ELSE tainted \ {rd[r].key}
    /\ rd' = [rd EXCEPT ![r].pc = "done"]
    /\ UNCHANGED <<memVars, fileVars, logVars, w, cf, f, c, save, opened, gets,
                   ackVars, flushed, lastDel, lostUpdate, lostWrite, disorder, boundVars>>

-----------------------------------------------------------------------------
(* What the engine holds of a key: the answer a get() would give that ran  *)
(* alone, with a memtable that is just being handed over counted in.       *)
HandedOver(k) ==
    UNION {EntryOf(cf[t].snap, k) : t \in {u \in Callers : cf[u].pc = "store"}}

Current(k) ==
    Lookup(version, tables, k,
           Newest(EntryOf(memtable, k) \cup ImmutableEntry(k) \cup HandedOver(k)))

\* What L0 and L1 hold of k; what L1 and everything above it holds of k.
Shallow(k) == Hits(version, tables, 0, k) \cup Hits(version, tables, 1, k)

Upper(k) ==
    EntryOf(memtable, k) \cup ImmutableEntry(k) \cup HandedOver(k) \cup Shallow(k)

SeqOf(cand) == Max({0} \cup {e.seq : e \in cand})

\* File id holds an entry with a number still to be given, or one that is newer
\* than the memtable's.
Misplaced(id) ==
    \E k \in DOMAIN tables[id] :
        \/ tables[id][k].seq >= seq
        \/ /\ k \in DOMAIN memtable /\ memtable[k] # tables[id][k]
           /\ tables[id][k].seq >= memtable[k].seq

(* The process dies and is started again; no write is answered in between. *)
(* The constructor reads metadata.txt, levels.txt (loadLevelMetadata,      *)
(* loadSSTables) and the log; stoull throws on a truncated metadata.txt.   *)
(* The ghosts start again from what has been recovered.                    *)
CrashRestart ==
    /\ proc = "up" /\ crashes < MaxCrashes
    /\ crashes' = crashes + 1
    /\ UNCHANGED <<fileVars, log, gets, flushes>>
    /\ proc' = IF metaFile = {<<>>} THEN "failed" ELSE "up"
    /\ LET known  == metaFile \ {<<>>}
           levels == IF known = {} \/ levelsFile = {} THEN EmptyVersion.levels
                     ELSE CHOOSE ls \in levelsFile : TRUE
           start  == Max({1} \cup {m[2] : m \in known})
       IN  /\ counter' = Max({0} \cup {m[1] : m \in known})
           /\ version' = LoadedVersion(levels, files)
           /\ seq' = IF log = <<>> THEN start
                     ELSE Max({start} \cup {r.seq : r \in Range(log)}) + 1
    /\ memtable' = Replayed(log)
    /\ immutable' = {} /\ cache' = CacheClear
    /\ pending' = FALSE /\ needed' = FALSE /\ opened' = {}
    /\ linked' = TRUE /\ walBuf' = <<>> /\ walSyncing' = <<>>
    /\ w' = WriterStart /\ cf' = CheckFlushStart
    /\ f' = FlushStart /\ c' = CompactStart
    /\ save' = NotSaving /\ rd' = ReadersStart
    /\ acked' = [k \in Keys |-> SeqOf(Current(k)')]
    /\ settled' = acked'
    /\ lastDel' = [k \in Keys |->
           SeqOf({e \in EntryOf(memtable', k) \cup InFiles(version'.sstables, k) :
                      e.type = "DELETE"})]
    /\ flushed' = [k \in Keys |-> Max({0} \cup SeqsIn(version'.sstables, k))]
    /\ tainted' = {} /\ lostUpdate' = FALSE /\ lostWrite' = FALSE
    /\ disorder' = (disorder \/ \E id \in version'.sstables : Misplaced(id)')

-----------------------------------------------------------------------------
WriterStep ==
    \/ WriterApply \/ WriterLog \/ WriterInvalidate \/ WriterFlush \/ WriterAck

CheckFlush(t) ==
    \/ CheckFlushWal(t) \/ CheckFlushTest(t) \/ CheckFlushSleep(t)
    \/ CheckFlushSnapshot(t) \/ CheckFlushClear(t) \/ CheckFlushStore(t)
    \/ CheckFlushNotify(t) \/ CheckFlushRemove(t)

SaveMetadata == SaveMeta \/ SaveTruncate \/ SaveLevels

FlushThread ==
    \/ FlushTake \/ FlushSleep \/ FlushBuild \/ FlushCopy \/ FlushInstall
    \/ FlushSave \/ FlushCache \/ FlushReset \/ FlushNotify

CompactionThread ==
    \/ CompactTest \/ CompactSleep \/ CompactSkip \/ CompactMerge \/ CompactThrow
    \/ CompactBuild \/ CompactCopy \/ CompactInstall \/ CompactSave
    \/ CompactRemove \/ CompactCache

Get(r) ==
    \/ GetMemtable(r) \/ GetImmutable(r) \/ GetVersion(r) \/ GetSearch(r)
    \/ GetThrow(r) \/ GetFill(r)

Next ==
    \/ WalSwap \/ WalPublish
    \/ WriterPop \/ WriterStep
    \/ \E t \in Flushers : FlushCall(t)
    \/ \E t \in Callers : CheckFlush(t)
    \/ SaveMetadata \/ FlushThread \/ CompactionThread
    \/ \E r \in Readers, k \in Keys : GetBegin(r, k)
    \/ \E r \in Readers : Get(r)
    \/ CrashRestart

Spec == Init /\ [][Next]_vars

\* The operating system runs every ready thread; that a client writes, reads
\* or flushes, and that the process crashes, is never due.
Fairness ==
    /\ WF_vars(WriterStep)
    /\ \A t \in Callers : WF_vars(CheckFlush(t))
    /\ WF_vars(SaveMetadata) /\ WF_vars(FlushThread) /\ WF_vars(CompactionThread)
    /\ \A r \in Readers : WF_vars(Get(r))

FairSpec == Spec /\ Fairness

-----------------------------------------------------------------------------
TypeOK ==
    /\ \A t \in {memtable} \cup immutable \cup Range(tables) :
           DOMAIN t \subseteq Keys /\ Range(t) \subseteq Entry
    /\ Cardinality(immutable) <= 1
    /\ version.sstables \subseteq DOMAIN tables /\ files \subseteq DOMAIN tables
    /\ Len(cache) <= CacheSize
    /\ {seq, counter, gets, flushes, crashes} \subseteq Nat
    /\ {pending, needed, linked, lostUpdate, lostWrite, disorder} \subseteq BOOLEAN
    /\ proc \in {"up", "failed"}
    /\ save.by \in {"none", "flush", "compact"}

\* cand answers for key k if write number n of k had been answered before: it
\* is that write or a later one, or a delete since then explains its absence.
Answers(cand, k, n) ==
    IF Visible(cand) = {} THEN n = 0 \/ lastDel[k] >= n ELSE SeqOf(cand) >= n

\* A compaction into L1 drops the tombstones it meets, also those of keys that
\* L2 or L3 still hold.  So with nothing of k in upper, in L1 and above, a key
\* that has been deleted since write number n may be back with an older value.
AnswersFrom(cand, upper, k, n) ==
    Answers(cand, k, n) \/ (upper = {} /\ lastDel[k] >= n)

\* No answered write is lost on its way from the memtable to the SSTables, as
\* long as none of the engine's races has happened: a version installed over
\* another thread's or a restart from files out of order (disorder), an entry
\* written while a client's flush() was copying (lostWrite).
NothingLost ==
    ~disorder /\ ~lostWrite /\ proc = "up" =>
        \A k \in Keys : AnswersFrom(Current(k), Upper(k), k, acked[k])

\* A get() that overlaps no hand-over returns a write at least as new as the
\* last one answered before it began, whatever the other threads do between
\* its reads of the memtable, the immutable memtable and the version.
ReadsFresh ==
    ~disorder /\ ~lostWrite =>
        \A r \in Readers : rd[r].pc = "done" /\ ~rd[r].gap =>
            Answers(rd[r].cand, rd[r].key, rd[r].floor)

\* A cached entry is current once its write has been answered, unless a get()
\* that a write of the key, or a hand-over, overlapped put it there.
CacheCurrent ==
    ~disorder /\ ~lostWrite =>
        \A i \in DOMAIN cache :
            cache[i].key \notin tainted =>
                Answers({cache[i].entry}, cache[i].key, acked[cache[i].key])

\* get() throws only when the version it searches has been replaced since it
\* read it: the files of a version outlive it, and of those of an old one only
\* the ones not yet opened can be missing (getFile, compactL0toL1).
ThrowsOnlyStale ==
    [][\A r \in Readers :
           GetThrow(r) /\ ~lostUpdate => rd[r].version # version]_vars

\* The tables of the current version are on disk: compaction removes files
\* only after the version without them is installed and saved.
FilesExist == ~lostUpdate /\ proc = "up" => version.sstables \subseteq files

\* When no thread is between installing a version and saving it, levels.txt
\* describes the current version, whichever of the two threads saved last.
LevelsFileCurrent ==
    /\ proc = "up" /\ MetadataMutexFree
    /\ f.pc # "save" /\ c.pc # "save"
    => version.levels = IF levelsFile = {} THEN EmptyVersion.levels
                        ELSE CHOOSE ls \in levelsFile : TRUE

\* Version, levels.txt and the directory agree, whatever the order in which
\* the flush and the compaction thread install, save and remove.
FilesCurrent == TypeOK /\ FilesExist /\ LevelsFileCurrent

\* A crash spares what levels.txt refers to, except in the middle of
\* saveMetadata, and unless the log replays an older entry than a table has
\* (disorder').  Once a compaction has dropped a tombstone, an older record in
\* the log brings the key back, too.
FlushedSurvive ==
    [][CrashRestart /\ MetadataMutexFree /\ ~disorder' =>
           \A k \in Keys :
               AnswersFrom(Current(k)', Shallow(k)', k, flushed[k])]_vars

\* Before the first hand-over of a process, a crash spares every write that
\* was answered before the last answered batch.
SettledSurvive ==
    [][CrashRestart /\ linked /\ MetadataMutexFree /\ ~disorder =>
           \A k \in Keys :
               AnswersFrom(Current(k)', Upper(k)', k, settled[k])]_vars

\* What README.md says of the log ("Leader appends to WAL (durability)") and
\* test_recovery_from_wal tests: an answered write survives a crash.  FALSE of
\* the code: checkFlush removes log.bin before the flush thread has written the
\* table, and every later record goes to the removed file.
AckedSurvive ==
    [][CrashRestart =>
           \A k \in Keys : Answers(Current(k)', k, acked[k])]_vars

\* A memtable handed over is written and released, unless the process ends.
ImmutableDrains == immutable # {} ~> immutable = {} \/ proc = "failed"
=============================================================================
