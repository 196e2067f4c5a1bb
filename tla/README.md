# Verification of kv-storage-engine

TLA+ models of the LSM storage engine (`engine/`), its replication layer
(`distributed/`) and its server (`server/`), the TLC runs that check them on small instances, and TLAPS proofs. Paths below are
relative to `src/`. `PROJECT.json` maps every definition to the lines it models.

## 1. Inventory

| Component | State | Operations | Talks to |
|---|---|---|---|
| Write-ahead log `engine/src/wal.cpp` | two buffers, `sync_generation_`, `synced_generation_`, `log.bin` | `append`, `flush`, `replay`, sync thread (`doSync`), close | engine writer, `checkFlush` |
| Write queue `engine/src/write_queue.cpp` | bounded deque of requests with promises | `push`, `popBatch`, `shutdown` | `put`/`del` callers, writer thread |
| Memtable `engine/src/memtable.cpp` | key to entry | `put`, `del`, `get`, `snapshot`, `clear` | writer, `get`, `checkFlush` |
| Table version `engine/src/table_version.cpp` | metadata of files per level, open tables | copy, `addSSTable`, `removeSSTablesByIds`, `installVersion` | flush and compaction threads, `get` |
| SSTable `engine/src/sstable.cpp`, `bloom_filter.cpp` | a file, a lazily opened handle, sparse index, Bloom filter, a line of `levels.txt` | `flush`, `loadMetadata`, `get`, `getData`, `Iterator` | the same |
| LRU cache `engine/src/lru_cache.cpp` | recency list | `get`, `put`, `invalidate`, `clear` | `get`, writer, flush and compaction threads |
| Storage engine `engine/src/engine.cpp` | all of the above, `metadata.txt`, `levels.txt` | `put`, `del`, `get`, `flush`, `pauseCompaction`, `resumeCompaction`, `waitForCompaction`, writer, flush and compaction threads, `recover`, destructor | clients, disk |
| Replication `distributed/replication/*` | leader's log, commit and apply indexes; the same per follower; connections | `replicate`, `appendLog`, `applyLoop`, `shipEntries`, reconnection, `handleReplication` | TCP, server |
| Server `server/src/tcp_server.cpp`, `main.cpp` | connections, thread pool, `running_` | `run`, `acceptLoop`, `ThreadPool`, `executeCommand`, `applyLogEntry`, signal handler, `shutdown` | engine, replication, connection handlers |
| Connection `server/src/connection_handler.cpp`, `protocol.cpp` | read buffer, socket | `readLine`, `parse`, `writeResponse` | client, `executeCommand` |

Further parts (configuration, heartbeat, node registry, interactive and command
line clients, tests and deployment) are listed in
`PROJECT.json` with the reason why they are left out.

What is hard here, and where it bites (the full list is `hazards` in
`PROJECT.json`):

- Five kinds of threads share the engine's memory: callers of `get` and `flush`,
  the writer, the flush thread, the compaction thread, the log's sync thread.
  The memtable, the cache and the version pointer each have a lock; nothing locks
  two of them together, so an entry moves memtable, immutable memtable, version
  in steps that others can see between.
- The condition variables (`sync_done_cv_`, `flush_cv_`, `compaction_cv_`,
  `apply_cv_`) are partly notified without the waiter's mutex, and two kinds of
  threads wait on `flush_cv_` and on `compaction_cv_`, which are notified one at a time.
- Crashes between a hand-over, a table, a version, its metadata and the removal
  of the log; torn log records.
- In replication, client threads race for the log's last entry, each write is
  stored twice on the leader, connections break, acknowledgements come late and
  both sides forget their logs at a restart.
- The server is shut down by a signal handler on top of the thread that accepts
  connections, and joins threads that may be waiting for a peer.
- Requests arrive and responses leave in pieces.

What makes each part correct: the log keeps order and a flush makes what came
before it durable; the queue answers every request exactly once; the engine is a
map, with and without crashes; readers see answered writes; followers apply the
leader's writes in order and agree with it; a table file gives back the map it was
made from; every line a client sends is executed and answered once, in order; the
server serves what it has admitted, and ends when told to.

## 2. Modules

| Module | Models | Used by |
|---|---|---|
| `Wal` | the log with its sync thread, faults, crash, close, reopening | `MCWal`, `WritePathProofs` |
| `WriteQueue` | queue, producers, the writer's answers, shutdown | `MCWriteQueue`, `WritePathProofs` |
| `Tables` | pure operations: memtable, version, lookup by levels, choice of inputs and merge of a compaction, recovery | `LsmTree`, `StorageEngine`, `TablesProofs` |
| `LRUCache` | pure operations of the cache | `StorageEngine` |
| `KVStore` | the abstract specification: a map that only puts and deletes change, with what a restart may lose and when a deleted key may come back | refinement target of `LsmTree` |
| `LsmTree` | the engine with its threads taking turns: what the data structures do | `MCLsmTree`, `LsmTreeProofs` |
| `StorageEngine` | the engine with its threads interleaved, its files, crashes and restart | `MCStorageEngine`, `StorageEngineProofs`, `RecoveryProofs` |
| `EngineThreads` | how the engine's threads wake, wait for and stop one another; no data | `MCEngineThreads`, `EngineThreadsProofs` |
| `SSTable` | one table file: layout, sparse index, Bloom filter, its line of `levels.txt`, left-over files | `MCSSTable`, `WritePathProofs` |
| `Connection` | one client connection: chunks, lines, parser, commands, partial sends | `MCConnection`, `ServerProofs` |
| `Server` | accept loop, connection limit, thread pool, signal, shutdown of pool and replication | `MCServer`, `ServerProofs` |
| `Replication` | leader, shipper, followers, connections, and `executeCommand` | `MCReplication`, `ReplicationProofs` |
| `WritePathProofs` | theorems about `WriteQueue`, `Wal` and `SSTable`, the stages of a write outside the memtable | |
| `EngineThreadsProofs` | theorems about `EngineThreads` | |
| `ServerProofs` | theorems about `Server` and about `Connection`, the session a worker serves | |
| `ReplicationProofs` | theorems about `Replication` | |
| `TablesProofs` | lemmas on the operations of `Tables` | `LsmTreeProofs`, `StorageEngineProofs` |
| `LsmTreeProofs` | theorems about `LsmTree`, the refinement of `KVStore` among them | |
| `StorageEngineProofs` | theorems about `StorageEngine`: files, values, readers and cache | `RecoveryProofs` |
| `RecoveryProofs` | theorems about `StorageEngine`: what a restart finds again | |

The parts meet where one module's promise is another's step: `StorageEngine` uses
tables as the maps `SSTable` shows them to be, batches as `WriteQueue` answers
them and the log as `Wal` keeps it; `EngineThreads` has the same threads and locks as
`StorageEngine` with all data left out, which leaves room for the destructor and
for clients that pause and wait; `Server` takes a session as something that ends,
`Connection` is what happens in it, and `Replication` what a write in it sets off.

`MC*` modules only define constants that a `.cfg` cannot write. Definitions
with a comment "mutant" are changed versions of the definition after them; they
serve to show that a property can fail and are used by no specification.

How the models correspond to the code:

- *Steps.* What a thread does while it holds one lock is one step, and so is each
  access to shared state outside a lock (an atomic load or store, a
  notification). A wait on a condition variable is a test and a separate step
  that goes to sleep; the two are one atomic step only where every notifier
  changes the predicate under the same mutex. The variable `pc` (or the field `pc`) of a
  thread says where it is; the comments and `map` name the lines.
- *Data.* Log records are numbered. A table is a function from keys to entries
  with their sequence numbers, and stands for a value. Keys are numbers because
  lookups compare them. In `Replication` write *n* stores *n* under its key, which is
  one of `Keys` or any other (`"other"`).
- *`Wal`.* `writeBuf`, `syncBuf`, `file`, `gen`, `synced` are the members of
  `WriteAheadLog`. `Torn` is an incomplete record. `mark`, `need`, `returned`,
  `promised`, `base` are ghosts that remember what had been appended when a flush
  was called or returned.
- *`StorageEngine`.* `w`, `cf`, `f`, `c`, `rd` are the writer, the calls of
  `checkFlush`, the flush thread, the compaction thread and the readers; `save`
  is `saveMetadata` under `metadata_mutex_`. The queue is reduced to batches and
  the log to buffers and file, with the guarantees `WriteQueue` and `Wal` show.
  Once `log.bin` has been unlinked (`linked` false) its contents no longer
  matter. `lostUpdate`, `lostWrite`, `disorder`, `gap`, `tainted` are ghosts that record
  that one of the cases of section 4 has happened: the properties say what holds
  without it.
- *`EngineThreads`.* `pc` places each thread; at `toSleep` (`cToSleep`) it is
  between the test of its predicate and its wait and holds `flush_mutex_`
  (`compaction_mutex_`). A memtable is absent, empty or filled. `handed`,
  `built`, `unseen` and `begun` are ghosts.
- *`SSTable`.* A record has an offset and a size (one unit, two with a value), so
  that an index of another file points into the middle of one; the offset of a key is
  the room the smaller keys take. `UpperBounds` are the places where
  `std::upper_bound` may end: one in a sorted index, any that bisection can reach in
  one that is not. `get` is a function of the place. Keys are numbers, `WordsOf` gives the words that `operator>>` makes of each, `Hash` its two hash values.
- *`Connection`.* Characters are tokens: a command name, a blank, a letter. `stream`
  is all the client has written, `out` all it can read. The engine of a standalone server
  is the map `store` and what it does for a request (`EngineMay`): it succeeds, answers
  false, or throws, and `get` and `del` find something or nothing. Each has its answer:
  `STORED` or `STORE_FAILED`, `DELETED` or `DELETE_FAILED`, the value or `NOT_FOUND`,
  and `INTERNAL_ERROR`. A write that failed may have been made all the same, because
  `writerThreadLoop` answers false for a whole batch, so its key is in doubt until the
  next write of it: `store` gives the set of what a key may hold. `results` is the history of
  what the engine did. Left out are the follower's refusal of writes (`NOT_LEADER`), the leader's
  call of `replicate`, which is in `Replication`, and other clients of the same engine.
- *`Server`.* `main` places the main thread, `stop` the signal handler on top of
  it; the limit is tested (`Admit`) and counted up (`Count`), and a connection closed (`Close`)
  and counted down (`CountOff`), in steps of their own; while the handler runs the main thread does not. The kernel may deliver the signal to any
  thread that does not block it; the model has it on the main thread, where it
  interrupts `accept`. Pool threads and replication threads have
  a variable each.
- *`Replication`.* The vector of entries, of all keys, reallocates when it is full;
  a reference used after the lock is released is then stale (`applier.stale`), and so may
  be what a client reads at `log_.back()` without the lock (`Appending`). What is read is
  the entry, or any entry of `Torn`: a value under the wrong key, a wrong value under the
  right key, a moved-from string (`ReadThrough`). The end of the process is a restart at that
  point. The write is lost and counts as applied all the same. `tears` counts such reads,
  `failures` the writes that an engine did not make and `applyLogEntry` ignored.
  `overlapped` is a ghost: two clients' writes have been under way together.
- *Reopening* (`LsmTree`) is the destructor followed by the constructor.
  *CrashRestart* (`StorageEngine`) is the loss of memory followed by the
  constructor: metadata, levels, files, log.

## 3. Passing runs

| Run | Checks | Shows |
|---|---|---|
| `Wal` | `TwoFlushesSync` `FileInOrder` `CloseDrains` `SettledReplayed` `FlushReturns` | Two flushes one after the other settle what came before the first, and recovery replays it; the file keeps append order through failed writes and crashes; a clean close leaves nothing behind; a missed notification is repaired by the timer. |
| `Queue` | `InOrder` `Bounded` `ExitDrained` `AnsweredOnce` `EveryCallAnswered` | Order, bound and one outcome per request, with a shutdown and an exception in any place; no caller of `put` waits for ever. |
| `Lsm` | `LevelsSound` `ImplementsMap` | Flushes, compactions down to L3, deletes and a clean restart implement the map; bisection stays right. |
| `Engine` | `NothingLost` `FilesCurrent` `FlushedSurvive` `ImmutableDrains` | Writer, flush and compaction threads interleaved, with a crash anywhere: no answered write is lost until two threads have installed versions over each other (`disorder`), files and `levels.txt` follow the version, a crash outside `saveMetadata` spares what `levels.txt` refers to, and hand-overs are flushed. |
| `EngineLog` | `SettledSurvive` | A client's `flush()` beside the writer: before the first hand-over a crash spares all but the last answered batch. |
| `EngineReads` | `ReadsFresh` `CacheCurrent` `ThrowsOnlyStale` | Two calls of `get` beside batches of two, a hand-over, a flush, a compaction and the writer's invalidations. A `get` throws only if a compaction has replaced a table of the version it had read. |
| `Threads` | `FlushedOnce` `ScheduleKept` `CheckFlushReturns` `DestructorReturns` `CompactionFollows` | Every memtable handed over becomes a table once, also when the destructor overtakes it; no table escapes compaction, and a pause lets at most one more begin; `flush()`, the destructor and compactions come to their end but for the missed notifications of section 4. |
| `SSTable` | `GetExact` `ScanExact` `MetaKept` | All tables of up to five keys, with hash collisions: a lookup finds what was written and nothing else, before and after reloading. Over a left-over file it may miss keys, but a full read does not. `levels.txt` keeps number and level of every table. |
| `Connection` | `ParsesGrammar` `AnswersInOrder` `LinesAnswered` | Three lines of a client in chunks of any size, answers sent in any pieces, and an engine that may fail once: as if one reader had seen the whole stream. The parser against an independent grammar of a line. |
| `Server` | `LimitKept` `ShutdownDrains` `QueuedServed` `SignalEnds` | Three connections, two workers, a limit of two, a signal at any point, in all three roles: the count is right although it is tested and changed in separate steps, queued connections are served before the end, and a signal ends the process but for the three hangs of section 4. |
| `Repl` | `AgreeWhenCaughtUp` `ConfirmedReceived` `FollowerMonotone` `FollowerProgress` `CallsReturn` | Two client threads that write one key or others, a follower, and one fault: a late acknowledgement, a broken connection, a restart of either side, a failed write or a torn read of the log. |

*Types.* `TypeOK` is proved for `Wal` and `WriteQueue`; in the other modules it is the
first conjunct of one of the invariants (`LevelsSound`, `FilesCurrent`,
`FlushedOnce`, `GetExact`, `AnswersInOrder`, `LimitKept`, `ConfirmedReceived`; in `Connection`
and `SSTable`, whose definitions share a proof module with those of others, it is `ConnectionTypeOK` and `SSTableTypeOK`).

*Conditions in the properties.* Several properties except a race or a fault that
the code is known not to handle, and name it: `~disorder`, `~lostUpdate` and `~lostWrite`
(`NothingLost`, `ReadsFresh`, ...), a deleted key of which only L2 and L3 hold
something (`AnswersFrom`), `gap` and `tainted` (readers),
`MetadataMutexFree` (no crash inside `saveMetadata`), `restarts = 0`,
`timeouts = 0`, `tears = 0`, `failures = 0` and `~overlapped` (replication), `Missed`, `Stolen` and `Overslept`
(`Threads`), `stale` (`SSTable`), `Short` (`Connection`), `Hung` (`Server`). The excepted cases are states of the model like
any other; section 4 lists them. In `Repl` TLC finds a counterexample within the
same bounds when `tears = 0` or `failures = 0` is taken out of `AgreeWhenCaughtUp`, or `tears' = 0`
out of `FollowerMonotone`.

*Bounds.* Each is a constant named `Max...` that limits how often something is
begun, never what a thread does once it has begun. They are chosen so that the
case a property is about occurs: two threads in `Wal`, for a flush that overlaps
another's publication; a memtable limit of one or two entries and one or two L0 files, so
that two or three writes already reach a compaction; tiny level limits in `Lsm`,
so that L3 is reached; a queue of three places with batches of two, so that it
fills and a batch leaves something behind; two batches before a crash in
`EngineLog`; two gets in `EngineReads`, the second of which may hit the cache; two clients in
`Repl`, whose writes can overlap, and one fault of any kind, since two take more states than a
run should have (safety is proved for any number); an index entry for every second key in
`SSTable`, so that a table has up to three blocks; a buffer of ten characters in
`Connection`, which the longest lines exceed together with a chunk, and one failure of its engine; one client and
three calls in `Threads`, enough to pause, flush and wait beside the writer's two
batches; one more connection than the limit, and as many workers, in `Server`. Every property has a mutant of the code that violates it within the
same bounds. With the code's own sizes (10000 places, batches of 1000) and with
those of the run no producer sleeps when a batch of one is taken, so
`notify_one` never has anybody to wake.

*Deadlock* checking is off: the bounded instances come to an end, and idle
threads wait for clients. Liveness properties say that nobody waits who should
not.

*Fairness* is weak fairness of each thread's own steps: the operating system runs
ready threads and a mutex is eventually granted. Nothing requires a client to
call, a fault to happen, or a process to restart. `FlushReturns` relies on the
sync thread's `wait_for` ending after `sync_interval_ms_`, `CallsReturn` on the
receive timeout of the shipper's sockets, `WaitTimeout` in `Threads` on the five
seconds of `waitForCompaction`, and the accept loop of `Server` on the timeout of
`accept`. That sessions end is a hypothesis of `QueuedServed` and `SignalEnds`, not
an assumption: a client that goes on talking holds up a shutdown.

## 4. Where code and documentation disagree

The violation run `EngineDurable` (`AckedSurvive`) states what a document and a
test say, and TLC finds a behaviour of the modelled code against it: a crash after
`log.bin` is removed loses answered writes. `findings` in `PROJECT.json` quotes
both sides.

Behaviours the models have and the passing properties step around, by a ghost or by
a condition that names them:

- `Wal`: one flush is not enough (`TwoFlushesSync` asks for two); records behind
  a torn one are never replayed (`SettledReplayed`).
- `StorageEngine`: the flush and the compaction thread copy the version, change the
  copy and install it without a common lock (`engine.cpp:418` and `767`), so that one undoes the other's
  change (`lostUpdate`), and the damage outlives the process, because
  `levels.txt` has it too (`disorder`); a reader between `clear` and the store of the immutable
  memtable (`gap`); a value cached after its invalidation (`tainted`); a put
  between a client's snapshot and clear (`lostWrite`); a client's `flush()` that hands over
  an entry the writer has not logged yet, so that after a crash the replay puts
  an older entry above it or its number is given again (`disorder`, by `Misplaced`); a crash inside
  `saveMetadata`, after which the constructor throws (`proc = "failed"`); a delete
  whose tombstone was flushed and then dropped by a compaction, while the log still
  has an older record of the key, which the crash replays (the second case of
  `FlushedSurvive`); a
  reader whose file a compaction has removed (`GetThrow`); a client inside
  `flush()` that takes the one notification meant for the flush thread.
- `LsmTree`: a clean restart loses what was written after a hand-over (`Restart`
  in `KVStore`); compaction into L1 drops a tombstone that hides a value in L2
  (`engine.cpp:734`), so a deleted key comes back. In `StorageEngine` this is the
  second case of `AnswersFrom`, and a ghost of the reader (`ComeBack`).
- `EngineThreads`: the flush thread resets `immutable_memtable_` and notifies
  (`engine.cpp:435`, `437`) without `flush_mutex_`, so a caller between its test and its
  wait sleeps on (`Missed`); a `notify_one` wakes a caller of `checkFlush` in place of the
  flush thread (`Stolen`), or one of `waitForCompaction` in place of the compaction
  thread, which then sleeps until the next flush (`Overslept`).
- `SSTable`: `flush` constructs its object from a left-over file of the same name
  (`sstable.cpp:65`), keeps that file's index in front of the new one, and `get` may miss
  keys (`stale`) or, over a torn file, the flush throws; a key with a blank shifts the key range and the size in
  `levels.txt`, an empty one too.
- `Connection`: `del` (`engine.cpp:130`) answers by what its `get` found and ignores what
  the writer said, so `+OK DELETED` may stand for a tombstone that was never written, and
  `-ERR DELETE_FAILED` for one that was; a `PUT` answered with an error may have been stored. The buffer limit is tested before a line end is looked for
  (`connection_handler.cpp:158`), so a complete line may go unanswered. `STATUS`
  (`README.md:322`) is answered with `UNKNOWN_COMMAND`, because `parseCommand` never
  produces it.
- `Server` (`Hung`): the handler interrupts `submit()` and waits for the mutex of its
  own thread; `stop()` notifies the apply thread without `log_mutex_` and is missed; the
  follower's listener stays in `recv` until the leader sends or closes. A connection
  submitted after the pool's shutdown is dropped without being closed.
- `Replication`: an append, of an entry of whatever key, moves the log while an apply thread copies an
  entry out of it (`leader.cpp:101`, `follower.cpp:171`) or another client reads
  `log_.back()` (`tears`): the write is lost for ever, or something else is stored, and leader and
  follower differ from then on although every index agrees; a write that an engine
  fails to make counts as applied (`failures`). `log_.back()` read without its lock ships another client's
  entry, and clients whose writes overlap store them in another order than the log
  has (`overlapped`), after which leader and follower may differ; the apply thread stores an older value over a newer one on the leader; a late `+OK`
  confirms the next entry (`timeouts`); a missed entry is never sent again and
  stops the follower; a restarted leader starts its indexes again (`restarts`).

Besides, `README.md:480` says of Bloom filters "Not persisted (rebuilt on startup)". The code
writes each into its table file (`sstable.cpp:125`) and reads it back (`sstable.cpp:268`), and
`SSTable` follows the code.

## 5. Proofs

`WritePathProofs` proves about `Wal`, for any set of threads and any bounds, from the
assumption `WalAssumption` only (the bounds are natural numbers, `Torn` is not a
record number):

- `TypeCorrect`: `Spec => []TypeOK`.
- `TwoFlushesCorrect`: `Spec => []TwoFlushesSync`.
- `CloseCorrect`: `Spec => []CloseDrains`.
- `FileInOrderCorrect`: `Spec => []FileInOrder`.
- `ReplayCorrect`: `Spec => []SettledReplayed`.

The second and third follow from `InvCorrect`: `Spec => []IInv`. `TwoFlushesSync` is not
inductive: it says nothing of flushes under way. `IInv` adds

- `Bounds`: buffered records belong to this process, marks and generations do not
  run ahead of their counters;
- `Swapped`: while a sync is in progress, what is in `write_buffer_` was appended after
  every flush that has returned;
- `Settled`: the heart of the argument. A flush whose generation has been
  published, or is about to be, finds nothing pending that had to be settled before
  it was called. The swap that its publication follows came after the return of
  the earlier flush, so it took those records along; that is why two flushes are
  enough and one is not;
- `NothingDropped`: without a failed write, every record is in the file or on its way;
- `Draining`: after the last swap of a close nothing is appended.

`InvStep` has one step per action and below it one per part the action can
disturb.

The order of records is a second invariant on top of it, `OrderCorrect`: `Ordered`
(file, sync buffer and write buffer follow one another, each in the order of
`append`) gives `FileInOrderCorrect`; `TornLast` (before the first reopening only
the last record of the file can be torn, and only once the process is gone) gives,
with `IInv`, `ReplayCorrect`: `replay()` does not stop before a settled record.

About `WriteQueue` it proves, for any set of producers, any
capacity, batch size and number of exceptions, from `QueueAssumption` only (sizes
are positive, bounds are natural numbers): `QueueTypeCorrect`, `InOrderCorrect`,
`BoundedCorrect`, `ExitCorrect` and `AnsweredCorrect`, each `QueueSpec => []` the
property it is named after. They follow from one inductive invariant, `QueueInv`.
(`WriteQueue` calls its specification `QueueSpec` so that one module can extend both.)
`AnsweredOnce` alone is not inductive: setting the promise of one request must
not be setting that of another, and refusing a request must not touch one that is
queued. `QueueInv` therefore adds

- `Phases`: when the writer holds a batch, and that it ends only with an empty
  queue after `shutdown()`;
- `Numbers` and `Queued`: a request is queued at most once, and as long as it is not
  it has no outcome (`Unqueued` says when that is);
- `InOrder`, which with `Queued` gives `Distinct`: the batch and the queue have no
  request in common, because they are disjoint parts of the order of arrival.

The proof has one lemma per group of actions; `NothingMoves` serves all those
that only move threads.

About `SSTable` it proves, for any finite set of keys, any hash values and words of
them, any index interval and any number of tables, from `SSTableAssumption` only:
`GetExactCorrect`, `ScanExactCorrect` and `MetaKeptCorrect`. The inductive invariant
`TableInv` says what the file is of the object and the object of the map: a file that is neither
absent nor torn is `Written` of some map on some index, the object is `TableOf` the map in
`contents` on that index, the index found is empty unless a file was under the
name (`stale`), and the line of `levels.txt` is that of the table's meta. That it is
preserved needs one fact, that loading a file gives back the object that `flush` returned
(`TableParts`). The work is in the lemmas about the operators:

- `BloomRead`: a filter read back from its bytes is the filter, also when the
  last byte is not full (`BytePlace`); `BloomContains`: it hides none of its keys;
- `KeyNumbered`: the records are numbered 0 to n - 1 by their keys, because the rank of a
  key is an injection into as many numbers; `OffsetOrder`: their offsets ascend with the keys and stay
  below the metadata;
- `IndexPlaces`: the index begins with the smallest key, and every entry of it is a
  record with its offset, also when the last block is not full;
- `SearchEnds`: the bisection has a place to end at; `LookupExact`: at any such place
  the part of the file that is read begins at a record and contains the key's, if it has one. The
  proof uses only the two comparisons that `std::upper_bound` leaves behind;
- `LookupOwn`: on any index at all, what is found is the key's own entry;
- `LineRead`: the words of a line are found again where they were put.

That the numbers in a line are told from other words up to `MaxNumber` only is a bound
of the model; the theorems hold for each.

`EngineThreadsProofs` proves about `EngineThreads`, for any set of clients and any
bounds, `FlushedOnceCorrect` and `ScheduleKeptCorrect`. Neither property is
inductive. `IInv` adds

- `Places`: which steps each kind of thread can be at;
- `FlushHolds`: while the flush thread works on a memtable, `flush_pending_` is
  down and `immutable_memtable_` is not reset, so that no caller can hand over
  another; it ends only after `shutdown_`, when the writer, the last caller, is gone;
- `PauseSeen`: if the compaction thread is past its test of `compaction_paused_`
  although compactions are paused, none has begun since the pause.

`Moves` says what all steps of a thread have in common (one thread goes somewhere,
others are at most woken), so that each action is argued about through it.

`ServerProofs` proves about `Server`, for any set of connections, any pool and any
limit, from `ServerAssumption`: `LimitCorrect` and `DrainsCorrect`. `IInv` is
`ConnInv` (the connection between `accept` and the push is in nobody else's hands,
`tasks_` holds every queued connection once, a worker its own session until it has
counted it off, and `active_connections_` is the cardinality of what is admitted and not
counted off; `Room`: what `acceptLoop` has tested is still true when it counts up, because
the others only count down),
`Stopping` (how far `shutdown()` is, and what has ended by then) and `Dropped`.
`DrainsCorrect` has the hypothesis that there is a pool thread (`Workers # {}`).
Nothing in `config_parser.cpp` or `main.cpp` rules out `num_threads = 0`, and the
theorem is false then: `shutdown()` joins nobody and leaves the queue unserved.

`ServerProofs` proves about `Connection`, for any lines, any chunk size, any limit of
the buffer and any number of failures of the engine, from `ConnectionAssumption` (a line is a sequence of symbols with its line end
last): `ParsesGrammarCorrect` (`ConnectionSpec => []ParsesGrammar`) and
`AnswersInOrderCorrect` (`ConnectionSpec => []AnswersInOrder`). The first rests on the lemma
`ParserExact`, which has nothing to do with the run: for every sequence of symbols the
requests of `Parse` are those of `Grammar`. `TrimPart` and `FindPart` say which part of the
line `trim` and `find` leave; `CommandWord`, `ArgsOne` and `PairsOne` that the parts the grammar
speaks of are unique, so that comparing them with what the parser took is enough. `AnswersInOrder`
compares what the client can read with an interpreter that sees the whole stream (`Runs`), and
its invariant, `CInv`, says how far that interpreter has come:

- `Sent` and `Buffered`: the stream is a sequence of whole lines, and the buffer is what has been
  received of it behind the last line taken. This is where the line ends matter: the first one
  in the buffer ends the next line of the stream (`TakeLine`), wherever `recv` cut it;
- `Answering`: after *h* lines the store is that of the interpreter, to which the engine has done
  the same (`results`), and what is sent is
  its text so far, or its text one line earlier and the first `total` symbols of the answer
  under way. It also says that a connection whose last answer was to QUIT is closed, without
  which a further line could be taken.

The lines are found by counting line ends (`UptoSteps`, `LineBetween`), and what is sent later changes
neither the earlier lines nor what the interpreter did with them (`SendKeeps`, `RunsAgree`). That
the answers can be counted in what the client reads rests on `HandleOk`: no value that the store may hold has
a line end in it, because none came with the line that stored it, so each response has one. The steps
are `AnswerNext` for a line, `RecvKeeps` and `SendMore` for a part received or sent.

`ReplicationProofs` proves about `Replication`, for any number of clients,
followers and keys, anything that a torn read may yield and any bounds, from `ReplicationAssumption`
(the peers are followers, each listed once, and `Torn` is a set of entries). Four invariants rest on each other:

- `TypeInv`, `TypeCorrect`: types, and that commit and apply indexes stay within
  their logs;
- `AckInv`, `ConfirmedCorrect`: until an acknowledgement is late (`timeouts = 0`)
  and while clients take turns, the live connection to a peer carries something
  only while a client waits for that peer, namely its own message or the
  acknowledgement of it (`Matches`). So what is counted was received (`Counted`);
- `NumberInv`, `MonotoneCorrect`: until the leader restarts or a read is torn, entry *i* of its log
  has index *i*, and everything on its way to or in a follower is one of
  them (`EntriesNumbered`). Two clients may ship the same entry twice, and none
  the other; but a peer is sent to once per call (`TodoOnce`) and the first entry
  is sent to it once altogether (`FirstOnce`), so that a follower that has forgotten
  its log in a restart waits for an entry that never comes, in place of
  applying again what it has applied;
- `AgreeInv`, `AgreeCorrect`: until an engine fails besides, a follower has under each key the
  last write among the entries it has applied (`CaughtUp`, `IsLast`), whether or not
  clients take turns, since entry *i* is what it applies as its *i*-th. While they do, the call
  under way is that of the last entry (`OwnLast`), and the leader, whose apply thread may
  put an older write of a key over a newer one, has the last write of a key again
  once that thread has passed it (`LeaderLast`).

`LeastNatural`, from the library's theorem on well-founded relations, is what
induction over indexes is done with there: by a least counterexample.

`LsmTreeProofs` proves about `LsmTree`, for any finite set of keys, any limits and
any bounds, from `LsmAssumption`: `LevelsCorrect` (`Spec => []LevelsSound`) and
`MapCorrect`, the refinement `Spec => KV!Spec` that the run `Lsm` checks as
`ImplementsMap`. `LevelsSound` is not inductive: whether a new file of L0 is newer
than all below it depends on where its entries come from. `Inv` adds

- `Types` and `Files`: every file of a level is loaded, its table is known and
  lies within the key range of its metadata; no table has a number above the counter,
  so a new file never takes an old one's number;
- `Saved`: what `saveMetadata` wrote last is the current version, and the saved
  `seq_number_` is beyond all that the tables hold. Without it nothing would be
  known of the version that reopening reads back, nor that a write after it is
  newer than the tables;
- `Recency`: what is in the memtable, in the immutable one and in the log was
  written after all that is in tables, and the log has nothing after a hand-over.

Compaction is the hard step. `OutsideInputs` shows that a file of the target
level that is not an input does not overlap the merged one, which keeps the
level sorted; a merged entry comes from an input, so it is older than what the
levels above hold. Below L0 some files of the source level stay behind, above
the merged one: they share no key with the source input, because their level is sorted,
and are newer than the other inputs by `LevelsInOrder`.

`MapCorrect` rests on `Inv` and on `Values`, a second invariant: entries of a key with
one number are one entry (`Once`), no number is 0, the value that stands for
"absent" (`Numbered`), and until the first hand-over a replay of the log gives the
memtable (`LogKept`). `View` says what `get` returns in terms of the tables:
memtable first, then the immutable one, then the newest entry that any table
of the version holds. It is here that the search of `get` (newest of L0, then bisection
level by level) is shown to give the newest entry; it follows from `LevelsSound`.
Each action then maps to a step of `KVStore`:

- `put` and `del` change one key of `kv`;
- a hand-over is `HandOver`; a flush stutters, because what leaves the immutable
  memtable is then the newest in the tables;
- a compaction is `Rearrange`. The newest entry of a key survives the merge,
  unless it is a tombstone that is dropped. Then either nothing of the key is
  left, and `get` still finds nothing, or the next entry is on a level deeper
  than the target, which is the case in which `KVStore` lets a deleted key come
  back (`CompactedKey`);
- reopening is `Restart`, by `Saved` and `LogKept`.

`TablesProofs` has what these proofs use of the operations of `Tables`: that
sorting and removing keep a level's files, what a merge and a replay of the
log contain, and that bisection over a sorted level finds the one file that
may hold a key. `Sorted` and `Without`, which stand for `std::sort` and
`std::remove_if`, and the searches are reasoned about by least counterexample.

`StorageEngineProofs` proves about `StorageEngine`, for any finite set of keys, any
set of `flush()` callers and of readers, any limits and any bounds, from
`EngineAssumption`: `FilesCorrect` (`Spec => []FilesCurrent`), `ThrowsCorrect`
(`Spec => ThrowsOnlyStale`), `NothingLostCorrect` (`Spec => []NothingLost`),
`ReadsFreshCorrect` (`Spec => []ReadsFresh`) and `CacheCurrentCorrect`
(`Spec => []CacheCurrent`); `RecoveryProofs` adds `FlushedSurviveCorrect`
(`Spec => FlushedSurvive`) and `SettledSurviveCorrect` (`Spec => SettledSurvive`). Five
invariants stand behind them: the first about files and numbers, the second, on top of it, about
values; the third about readers and the cache and the fourth about what is saved rest on these
two, and the fifth about the log on these two and the fourth. The flush and the compaction thread each change a copy
of the version, and each calls `saveMetadata`; what they owe to one another is
`TreeInv`, the part of `Inv` that goes beyond types:

- `Numbers`: `flush_counter_` is not behind the number of any file in the version, in
  a copy of it or in `levels.txt`, and the counter in `metadata.txt` is not behind
  `levels.txt`. A restart begins with that counter, so it gives new files numbers that no
  file of the version has. This is where it matters that `saveMetadata` writes
  `metadata.txt` before `levels.txt`;
- `Fresh` and `Written`: a file that the flush thread has written is neither in a version
  yet nor an input of the compaction under way;
- `Kept`: the files of the current version, and of a copy that is about to
  replace it, are on disk and are none that the compaction thread will remove.
  It is lost once a copy has replaced a version that it was not made from
  (`lostUpdate`), for then removed tables come back;
- `Saving`: which thread is inside `saveMetadata`, that `metadata.txt` exists before
  `levels.txt`, and that, unless a thread still has its version to save, the levels being
  written, or those in `levels.txt`, are the current ones. Two threads that install and
  then save in the opposite order thus leave the right levels: the
  second to save reads the version under `metadata_mutex_`.

`ThrowsCorrect` is the part of `Kept` about the current version seen from `get`. Every
thread's steps, the crash and the constructor preserve `Inv` by a lemma of their own;
`QuietStep` serves the steps that touch none of it.

`NothingLost` compares what `get` would answer with the last answered write. Its
invariant, `VInv`, follows an entry from the batch of the writer to the levels:

- `HandOvers`: one caller at a time holds `flush_mutex_`, it hands over only when
  `immutable_memtable_` is empty, and that holds what the flush thread works on.
  It is where the wait on `flush_cv_` matters;
- `Acks` and `Due`: the numbers that have been answered for a key, or will be as soon
  as the writer sets the promises of its batch. Without the second kind `WriterAck`
  would not preserve anything;
- `Recency`: what is in the memtable is newer than what has been handed over, and that is
  newer than what the tables hold;
- `TreeOrder`: the levels of the version are sorted, without overlaps, and newer entries
  of a key lie above older ones (`Orderly`, the `LevelsInOrder` of `LsmTree`). The
  same is true of `levels.txt` and of what is being written to it (`SavedOrderly`), since a
  crash makes it the version. A copy about to be installed is the current version
  plus the new file, or with its inputs merged (`Installing`), and the inputs of
  a compaction stay mergeable while flushes install beside it (`Compacting`);
- `Values`: every due number is covered (`Covers`): the newest entry outside the
  immutable memtable has it or a later one, and if that entry is a tombstone a
  delete was written since; or the key is in neither memtable, L0 nor L1 and a
  delete explains it, which is the state a dropped tombstone leaves. From the
  moment the flush thread has installed its table the immutable memtable counts no more
  (`Unfiled`): what a `get` still finds there is in the tables as well, or is a
  tombstone that a compaction may have dropped from them in the meantime.

`TreeOrder` and the rest hold until `disorder`; `Values` asks for `~lostWrite` besides.
`CompactInstallValues` is the hard step: a merged file takes the place of its inputs,
the newest entry of a key survives unless it is a tombstone into L1, and then nothing is left
of the key above L2. `VInvNothingLost` derives the answer of a lookup from `Covers`, and
`CrashRestartValues` shows that the constructor starts from such a state again,
since only a `levels.txt` that is in order and a log without `Misplaced` entries
leave `disorder` down.

`ReadsFresh` speaks of a `get` that has ended. Its invariant, `ReadInv`, has to say of a
`get` at each of its steps why it will not miss a write, while memtable, immutable
memtable and version change behind it and ahead of it:

- `Goals`: the writes it must not miss, the one that had been answered when it
  began (`floor`) and, until its key is written (`overlap`), those due. The second kind is
  there for the cache: an entry that is put there must not be older than a write of the
  batch whose promise is not yet set;
- `ReadImm` and `ReadVersion`: with nothing found so far, every goal lies ahead
  (`Passed`, `PassedAll`): entries move from memory to files and never back, and what
  is in the memtable later is newer. A copy that `checkFlush` has cleared from the
  memtable and not yet stored is neither behind nor ahead; that is the `gap`;
- `ReadSearch`: the version it has taken still has the entry (`InVersion`), whatever has
  become the current version since, because a file never changes;
- `ReadFill` and `ReadDone`: what has been found is as new as every goal (`Reaches`);
- `CacheOk`: a node that is not tainted is a put as new as every due write of its key,
  except between `memtable_.put` and `cache_->invalidate` (`Writing`), and in
  that window as new as every answered one. `OnePlace` is what makes the cache answer
  with one entry;
- `Tombstones`: a tombstone in a file is that of a known delete, so a `get` that ends in
  one is explained by it.

The steps of the other threads leave a reader what it has passed by (`Onward`, used by
`ReaderOnward`, `QuietReads` and `IdleReads`). The hard steps are the hand-over
(`ClearReads`, `StoreReads`), the two installations, and the write itself
(`WriterApplyReads`), where a reader that is under way is marked as overlapped.

`FlushedSurvive` compares what the constructor finds after a crash with the newest
entry of each key that had been in a table named by `levels.txt` (`flushed`). `VInv` says
nothing of the kind: it starts afresh from whatever a restart recovers. `SaveInv` adds,
while the process is up and there is no `disorder`,

- `SavedHold`: the tables named by `levels.txt`, or by what `saveMetadata` holds
  while it runs, have that entry or a newer one (`FiledIn`), or L0 and L1 have nothing of
  the key and a delete explains it. It cannot be kept from one save to the next without
- `Held`: the current version has it too, and memory is newer. This is asked of `flushed`
  and of every entry that the save under way is going to add to it (`Marks`), because the
  flush thread installs and the compaction thread merges while the other one saves;
- `LogDeletes`: a tombstone that the replay may bring back, from the file or from
  the two buffers of the log, is that of a known delete, also between `memtable_.put` and
  the append to the log;
- `Tombstones`, as in `ReadInv`, and `MetaWhole`: outside the truncation in
  `saveMetadata` the constructor can read `metadata.txt`.

The hard steps are the two installations (`FlushInstallSave`, `CompactInstallSave`, by the
lemmas about merged files of `VInv`), the begin and the end of `saveMetadata`
(`SaveCallSave`, `SaveLevelsSave`), where `flushed` and the version have to agree although
the other thread has installed in between, and the restart (`RestartSave`).
`RestartKeepsFlushed` then combines `SavedHold` with what is replayed: a replayed entry is
newer than the tables (`Misplaced` would raise `disorder'`), so it answers in their place, and
if it is a tombstone it is a known one.
A first attempt showed that the property had been too strong beyond the bounds of
its run (the dropped tombstone of section 4); the property now names that case.

`SettledSurvive` is about the writes that no table holds yet. The writer flushes the log
after every batch, but a `flush()` that finds another one under way (the sync thread's, a
client's) returns with the batch still in the buffer. What it promises is thus one batch less: the
writes answered before the last answered batch (`settled`) are in `log.bin`. `LogInv` says,
while the process is up,

- `LogOrder`: `log.bin`, the buffer being written and the buffer of appends are each in
  the order of the writes and follow one another, so that a replay ends with the newest
  record of a key;
- `LogWritten`: once a batch has been through `flush()` both buffers hold nothing older
  than it, and records of earlier batches are in the buffer of appends only while none are
  being written. Without the second half, the next `flush()` could leave them there again;
- `SavedDeleted`: a tombstone in a table of `levels.txt` is that of a known delete;
- `AckedLogged`, as long as `log.bin` is the file that is written (`linked`) and there is
  no `disorder`: every answered write of a key has its record, or a newer one of the key, in
  the log or its buffers, and every settled one has it in `log.bin`; or a table of `levels.txt` has
  it and the log has nothing older (`Recorded`). The second case is how every
  process begins, since the constructor replays a log that may be a process behind the tables.

The hard steps are the acknowledgement, where what had been answered becomes settled
(`WriterAckLog`), the two outcomes of `flush()` (`FlushLog`), and the restart (`RestartLog`), which has to
find `AckedLogged` again in whatever it recovers. `RestartKeepsSettled` takes the entry from
the replay, by `ReplayedNewest`, or from the tables, by `SavedHold` of `SaveInv`. The proof
does not need `~lostWrite`: a write that a client's `flush()` clears from the memtable
is still in the log.

Only model-checked: liveness under fairness (`FlushReturns`, `EveryCallAnswered`,
`ImmutableDrains`, `CheckFlushReturns`, `DestructorReturns`,
`CompactionFollows`, `LinesAnswered`, `QueuedServed`, `SignalEnds`,
`FollowerProgress`, `CallsReturn`), which is out of the prover's reach. Every invariant
and every action property of the runs that pass is a theorem.

## 6. Not modelled, and the plan

Not modelled:

- the bytes of log records, table records and replication messages, and a message
  split over two `recv` calls (records, sizes and whole messages stand for them);
- `clearData`, which the interactive front end `engine/src/main.cpp` calls through `handleCommand`
  (`engine.cpp:322`) and the server never does; `WriteQueue::pop`, which nothing calls;
- files and sockets that cannot be opened: `SSTable::flush` throws (`sstable.cpp:69`), which in the flush
  thread ends the process; `saveMetadata` returns with the old files; `TcpServer::run`
  throws before replication is started or a connection accepted. Failing writes to an open log are modelled;
- `findSSTableById` finds a table by a pattern in the name of its file (`table_version.cpp:17`), directories
  included. The models have it find the table with that id, which is so unless a part of `data_dir` looks
  like `_7.`;
- the detached retry thread of `Leader::start` after its leader is destroyed: it sleeps up to 100 ms between
  two looks at a member of an object that is gone by then, which no state of the models can show;
- signals delivered to other threads than the main one;
- the configuration file and the options of `main`, read once before anything else
  runs; the interactive parser of the engine; heartbeat and node registry, which the
  server does not use; the Go client.

Order of work:

1. (done) log, tables and LSM tree against the map, engine threads, write queue,
   replication, and the proofs of log and queue.
2. (done) server, connection, table files, wake-ups and destructor of the engine.
3. (done) Proofs of engine wake-ups, server, replication, and of the log's order.
4. (done) Proofs of `LsmTree` and of its refinement of `KVStore`.
5. (done) Proofs of the files and the saved state of `StorageEngine`.
6. (done) Proof of `NothingLost`, an invariant of values on top of the one of files.
7. (done) Proofs of `ReadsFresh` and `CacheCurrent`, on top of `VInv`.
8. (done) Proofs of `FlushedSurvive`, on top of `VInv`, and of `SettledSurvive`, on top of it.
9. (done) Proofs of `ParsesGrammar` and `AnswersInOrder`, with lemmas about `trim`, `find`
   and the lines of a stream.
10. (done) Proofs about `SSTable`, with lemmas about its Bloom filter, its offsets and the
   lines of `levels.txt`.
