-------------------------------- MODULE Wal --------------------------------
(***************************************************************************)
(* WriteAheadLog (engine/src/wal.cpp): the double-buffered log with a      *)
(* background sync thread.  Engine threads append records to write_buffer_ *)
(* and call flush(), which waits until synced_generation_ reaches the      *)
(* generation it asked for.  The sync thread swaps the buffers under       *)
(* buffer_mutex_, writes and fsyncs outside it, and then publishes the     *)
(* generation it reads at that moment.                                     *)
(*                                                                         *)
(* A record is abstracted to its position in the order of append calls;    *)
(* Torn stands for the bytes of an incompletely written record, which      *)
(* replay() detects by its checksum and at which it stops.                 *)
(***************************************************************************)
EXTENDS Integers, Sequences, FiniteSets, Functions

CONSTANTS
    Threads,        \* engine threads that append and flush
    Torn,           \* a record on disk that fails its checksum
    SyncIntervalMs, \* sync_interval_ms_; 0: no timer
    MaxBuffer,      \* MAX_BUFFER_SIZE, in records
    MaxRecords,     \* bound: append calls
    MaxFlushes,     \* bound: flush calls
    MaxFaults,      \* bound: failed or short writes
    MaxCrashes      \* bound: crashes and clean closes

ASSUME WalAssumption ==
    /\ Torn \notin Nat
    /\ {SyncIntervalMs, MaxBuffer} \subseteq Nat
    /\ {MaxRecords, MaxFlushes, MaxFaults, MaxCrashes} \subseteq Nat

VARIABLES
    proc,           \* "up", "closing" (in the destructor) or "down"
    writeBuf,       \* write_buffer_
    syncBuf,        \* sync_buffer_
    file,           \* contents of log.bin
    fd,             \* fd_ # -1
    requested,      \* sync_requested_
    gen,            \* sync_generation_
    synced,         \* synced_generation_
    syncPc,         \* where the sync thread is
    loaded,         \* the generation doSync has read and is about to publish
    last,           \* the sync thread has left its loop: the final doSync
    pc,             \* where each engine thread is
    myGen,          \* my_gen of each thread's flush
    \* Ghosts and bound counters
    appended,       \* number of the last record appended
    base,           \* appended when this process opened the log
    mark,           \* mark[t]: appended when t called flush
    returned,       \* the highest mark of a flush that has returned
    need,           \* need[t]: returned when t called flush
    promised,       \* the highest need of a flush that has returned
    flushes, faults, crashes

vars == <<proc, writeBuf, syncBuf, file, fd, requested, gen, synced, syncPc,
          loaded, last, pc, myGen, appended, base, mark, returned, need,
          promised, flushes, faults, crashes>>

logVars    == <<proc, writeBuf, syncBuf, file, fd>>
syncVars   == <<syncPc, loaded, last>>
callVars   == <<pc, myGen, mark, need, flushes>>
ghostVars  == <<appended, base, returned, promised>>
faultVars  == <<faults, crashes>>

Larger(a, b) == IF a >= b THEN a ELSE b

Records(s) == Range(s) \ {Torn}

\* The records replay() applies: those before the first corrupt one.
ReplayShort(f) ==       \* mutant: the record before the corrupt one is dropped
    {f[i] : i \in {j \in DOMAIN f :
                       \A n \in 1..(j + 1) : n \in DOMAIN f => f[n] # Torn}}
Replay(f) ==
    {f[i] : i \in {j \in DOMAIN f : \A n \in 1..j : f[n] # Torn}}

\* What a write of s that does not complete can leave in the file.
PartialWrites(s) ==
    {SubSeq(s, 1, n) : n \in 0..(Len(s) - 1)} \cup
    {Append(SubSeq(s, 1, n), Torn) : n \in 0..(Len(s) - 1)}

\* buffer_mutex_ is held across steps only by a flush that has found its
\* predicate false and is about to block on sync_done_cv_.
BufferFree == \A t \in Threads : pc[t] # "toSleep"

\* open() in the constructor may fail, which is only logged.
OpenResults == IF MaxFaults > 0 THEN BOOLEAN ELSE {TRUE}

Init ==
    /\ proc = "up"
    /\ writeBuf = <<>> /\ syncBuf = <<>> /\ file = <<>>
    /\ fd \in OpenResults
    /\ requested = FALSE
    /\ gen = 0 /\ synced = 0
    /\ syncPc = "wait" /\ loaded = 0 /\ last = FALSE
    /\ pc = [t \in Threads |-> "idle"]
    /\ myGen = [t \in Threads |-> 0]
    /\ appended = 0 /\ base = 0
    /\ mark = [t \in Threads |-> 0] /\ returned = 0
    /\ need = [t \in Threads |-> 0] /\ promised = 0
    /\ flushes = 0 /\ faults = 0 /\ crashes = 0

-----------------------------------------------------------------------------
(* append(): under buffer_mutex_; a full buffer only asks for a sync.      *)
AppendRecord(t) ==
    /\ proc = "up" /\ pc[t] = "idle" /\ BufferFree
    /\ appended < MaxRecords
    /\ appended' = appended + 1
    /\ writeBuf' = Append(writeBuf, appended + 1)
    /\ requested' = (requested \/ Len(writeBuf) + 1 > MaxBuffer)
    /\ UNCHANGED <<proc, syncBuf, file, fd, gen, synced, syncVars, callVars,
                   base, returned, promised, faultVars>>

(* flush(), syncFlush(): fetch_add of sync_generation_ ...                 *)
FlushBegin(t) ==
    /\ proc = "up" /\ pc[t] = "idle"
    /\ flushes < MaxFlushes
    /\ flushes' = flushes + 1
    /\ gen' = gen + 1
    /\ myGen' = [myGen EXCEPT ![t] = gen + 1]
    /\ mark' = [mark EXCEPT ![t] = appended]
    /\ need' = [need EXCEPT ![t] = returned]
    /\ pc' = [pc EXCEPT ![t] = "load"]
    /\ UNCHANGED <<logVars, requested, synced, syncVars, ghostVars, faultVars>>

(* ... then a separate load, which may see another flush's increment ...   *)
FlushLoad(t) ==
    /\ pc[t] = "load"
    /\ myGen' = [myGen EXCEPT ![t] = gen]
    /\ pc' = [pc EXCEPT ![t] = "request"]
    /\ UNCHANGED <<logVars, requested, gen, synced, syncVars, mark, need,
                   flushes, ghostVars, faultVars>>

(* ... sync_requested_ set under sync_mutex_, sync_cv_ notified ...        *)
FlushRequest(t) ==
    /\ pc[t] = "request"
    /\ requested' = TRUE
    /\ pc' = [pc EXCEPT ![t] = "check"]
    /\ UNCHANGED <<logVars, gen, synced, syncVars, myGen, mark, need, flushes,
                   ghostVars, faultVars>>

(* ... and the wait on sync_done_cv_: the predicate is evaluated with      *)
(* buffer_mutex_ held; if it is false the thread blocks in a later step.   *)
FlushReturn(t) ==
    /\ pc[t] = "check" /\ BufferFree
    /\ synced >= myGen[t]
    /\ pc' = [pc EXCEPT ![t] = "idle"]
    /\ returned' = Larger(returned, mark[t])
    /\ promised' = Larger(promised, need[t])
    /\ UNCHANGED <<logVars, requested, gen, synced, syncVars, myGen, mark, need,
                   flushes, appended, base, faultVars>>

FlushCheck(t) ==
    /\ pc[t] = "check" /\ BufferFree
    /\ synced < myGen[t]
    /\ pc' = [pc EXCEPT ![t] = "toSleep"]
    /\ UNCHANGED <<logVars, requested, gen, synced, syncVars, myGen, mark, need,
                   flushes, ghostVars, faultVars>>

FlushSleep(t) ==
    /\ pc[t] = "toSleep"
    /\ pc' = [pc EXCEPT ![t] = "asleep"]
    /\ UNCHANGED <<logVars, requested, gen, synced, syncVars, myGen, mark, need,
                   flushes, ghostVars, faultVars>>

-----------------------------------------------------------------------------
(* syncThreadLoop(): wait_for on sync_cv_ ends when a sync is requested,   *)
(* at shutdown, or after sync_interval_ms_ if that is positive.            *)
TimerNever == FALSE          \* mutant: wait instead of wait_for
TimerExpires == SyncIntervalMs > 0

SyncWake ==
    /\ syncPc = "wait"
    /\ requested \/ proc = "closing" \/ TimerExpires
    /\ requested' = FALSE
    /\ syncPc' = "swap"
    /\ UNCHANGED <<logVars, gen, synced, loaded, last, callVars, ghostVars,
                   faultVars>>

\* Where the sync thread goes when a doSync is over.
SyncNextNoFinal ==           \* mutant: no doSync after the loop
    /\ syncPc' = IF proc = "closing" THEN "done" ELSE "wait"
    /\ UNCHANGED last
SyncNext ==
    /\ syncPc' = IF last THEN "done" ELSE IF proc = "closing" THEN "swap"
                                                              ELSE "wait"
    /\ last' = (last \/ proc = "closing")

Published == gen              \* sync_generation_.load()

\* notify_all on sync_done_cv_
WakeFlushers ==
    [t \in Threads |-> IF pc[t] = "asleep" THEN "check" ELSE pc[t]]

(* doSync(): with an empty buffer it publishes at once, under the lock.    *)
SyncNothing ==
    /\ syncPc = "swap" /\ BufferFree
    /\ writeBuf = <<>>
    /\ synced' = Published
    /\ pc' = WakeFlushers
    /\ SyncNext
    /\ UNCHANGED <<logVars, requested, gen, loaded, myGen, mark, need, flushes,
                   ghostVars, faultVars>>

SyncSwapEarly ==              \* mutant: publish before the write
    /\ syncPc = "swap" /\ BufferFree
    /\ writeBuf # <<>>
    /\ syncBuf' = writeBuf
    /\ writeBuf' = <<>>
    /\ syncPc' = "write"
    /\ synced' = gen
    /\ pc' = WakeFlushers
    /\ UNCHANGED <<proc, file, fd, requested, gen, loaded, last, myGen, mark,
                   need, flushes, ghostVars, faultVars>>
AfterSwapKeep == writeBuf     \* mutant: write_buffer_ not cleared
AfterSwap == <<>>

SyncSwap ==
    /\ syncPc = "swap" /\ BufferFree
    /\ writeBuf # <<>>
    /\ syncBuf' = writeBuf
    /\ writeBuf' = AfterSwap
    /\ syncPc' = "write"
    /\ UNCHANGED <<proc, file, fd, requested, gen, synced, loaded, last,
                   callVars, ghostVars, faultVars>>

(* The write and fsync, outside the lock.  An error or a short count is    *)
(* only logged; without a file descriptor nothing is written at all.       *)
SyncWrite ==
    /\ syncPc = "write"
    /\ syncPc' = "load"
    /\ \/ /\ ~fd
          /\ UNCHANGED <<file, syncBuf, faults>>
       \/ /\ fd
          /\ file' = file \o syncBuf
          /\ syncBuf' = <<>>
          /\ UNCHANGED faults
       \/ /\ fd /\ faults < MaxFaults
          /\ faults' = faults + 1
          /\ \E part \in PartialWrites(syncBuf) : file' = file \o part
          /\ syncBuf' = <<>>
    /\ UNCHANGED <<proc, writeBuf, fd, requested, gen, synced, loaded, last,
                   callVars, ghostVars, crashes>>

SyncLoad ==
    /\ syncPc = "load"
    /\ loaded' = Published
    /\ syncPc' = "store"
    /\ UNCHANGED <<logVars, requested, gen, synced, last, callVars, ghostVars,
                   faultVars>>

(* synced_generation_ is stored and sync_done_cv_ notified without         *)
(* buffer_mutex_: a thread about to block does not hear it.                *)
SyncStore ==
    /\ syncPc = "store"
    /\ synced' = loaded
    /\ pc' = WakeFlushers
    /\ SyncNext
    /\ UNCHANGED <<logVars, requested, gen, loaded, myGen, mark, need, flushes,
                   ghostVars, faultVars>>

-----------------------------------------------------------------------------
(* ~WriteAheadLog: shutdown_ and a last request, then join and close.      *)
Close ==
    /\ proc = "up" /\ \A t \in Threads : pc[t] = "idle"
    /\ crashes < MaxCrashes
    /\ crashes' = crashes + 1
    /\ proc' = "closing"
    /\ requested' = TRUE
    /\ UNCHANGED <<writeBuf, syncBuf, file, fd, gen, synced, syncVars, callVars,
                   ghostVars, faults>>

CloseDone ==
    /\ proc = "closing" /\ syncPc = "done"
    /\ proc' = "down"
    /\ UNCHANGED <<writeBuf, syncBuf, file, fd, requested, gen, synced, syncVars,
                   callVars, ghostVars, faultVars>>

(* The process dies: every thread and both buffers are gone, and a write   *)
(* that was in progress leaves part of itself.                             *)
Crash ==
    /\ proc # "down" /\ crashes < MaxCrashes
    /\ crashes' = crashes + 1
    /\ proc' = "down"
    /\ writeBuf' = <<>> /\ syncBuf' = <<>>
    /\ syncPc' = "off"
    /\ pc' = [t \in Threads |-> "idle"]
    /\ \/ UNCHANGED file
       \/ /\ syncPc = "write" /\ fd
          /\ \E part \in PartialWrites(syncBuf) : file' = file \o part
    /\ UNCHANGED <<fd, requested, gen, synced, loaded, last, myGen, mark, need,
                   flushes, ghostVars, faults>>

(* The constructor: O_APPEND on whatever file is there; no truncation.     *)
Open ==
    /\ proc = "down"
    /\ proc' = "up"
    /\ writeBuf' = <<>> /\ syncBuf' = <<>>
    /\ fd' \in OpenResults
    /\ requested' = FALSE
    /\ gen' = 0 /\ synced' = 0
    /\ syncPc' = "wait" /\ loaded' = 0 /\ last' = FALSE
    /\ pc' = [t \in Threads |-> "idle"]
    /\ myGen' = [t \in Threads |-> 0]
    /\ mark' = [t \in Threads |-> appended]
    /\ need' = [t \in Threads |-> appended]
    /\ base' = appended /\ returned' = appended /\ promised' = appended
    /\ UNCHANGED <<file, appended, flushes, faultVars>>

-----------------------------------------------------------------------------
CallerStep(t) ==
    \/ FlushLoad(t) \/ FlushRequest(t) \/ FlushReturn(t) \/ FlushCheck(t)
    \/ FlushSleep(t)

SyncThread ==
    SyncWake \/ SyncNothing \/ SyncSwap \/ SyncWrite \/ SyncLoad \/ SyncStore

Next ==
    \/ \E t \in Threads : AppendRecord(t) \/ FlushBegin(t) \/ CallerStep(t)
    \/ SyncThread
    \/ Close \/ CloseDone
    \/ Crash
    \/ Open

Spec == Init /\ [][Next]_vars

\* The operating system runs every ready thread and a blocked mutex is
\* eventually granted; that a thread appends, flushes or crashes is never due.
Fairness ==
    /\ \A t \in Threads : WF_vars(CallerStep(t))
    /\ WF_vars(SyncThread)
    /\ WF_vars(CloseDone)

FairSpec == Spec /\ Fairness

-----------------------------------------------------------------------------
TypeOK ==
    /\ proc \in {"up", "closing", "down"}
    /\ writeBuf \in Seq(Nat) /\ syncBuf \in Seq(Nat)
    /\ file \in Seq(Nat \cup {Torn})
    /\ fd \in BOOLEAN /\ requested \in BOOLEAN /\ last \in BOOLEAN
    /\ gen \in Nat /\ synced \in Nat /\ loaded \in Nat
    /\ syncPc \in {"wait", "swap", "write", "load", "store", "done", "off"}
    /\ pc \in [Threads -> {"idle", "load", "request", "check", "toSleep",
                           "asleep"}]
    /\ myGen \in [Threads -> Nat]
    /\ appended \in Nat /\ base \in Nat /\ returned \in Nat /\ promised \in Nat
    /\ mark \in [Threads -> Nat] /\ need \in [Threads -> Nat]
    /\ flushes \in Nat /\ faults \in Nat /\ crashes \in Nat

\* Records an engine thread has appended and the sync thread has not yet
\* handed to write().
Pending ==
    Range(writeBuf) \cup (IF syncPc = "write" THEN Range(syncBuf) ELSE {})

\* What flush() promises: a record appended before a flush that has returned is
\* settled once any later flush, called after that return, returns; it is in
\* log.bin, a crash included, unless a write failed.  One flush is not enough:
\* doSync publishes the generation it reads after the write, so a flush called
\* between the swap and the publication returns with its records still in
\* write_buffer_.
TwoFlushesSync ==
    /\ \A r \in Pending : r > promised
    /\ fd /\ faults = 0 => (base + 1)..promised \subseteq Records(file)

\* The file keeps append order across buffer swaps, failed and short writes,
\* crashes and reopenings, so that replay applies writes in their order.
FileInOrder ==
    \A i, j \in DOMAIN file :
        i < j /\ file[i] # Torn /\ file[j] # Torn => file[i] < file[j]

\* The destructor's last doSync leaves nothing behind: after a clean close
\* every record appended since the log was opened is in log.bin.
CloseDrains ==
    syncPc = "done" /\ fd /\ faults = 0 =>
        (base + 1)..appended \subseteq Records(file)

\* flush() always returns, although sync_done_cv_ can be notified between a
\* thread's test of the predicate and its wait: the timer repeats the sync.
FlushReturns ==
    \A t \in Threads : pc[t] # "idle" ~> pc[t] = "idle"

\* After the first crash of a log replay() applies every record that two
\* flushes have settled: what the crash tears lies behind them.  It does not
\* hold of later processes, since the constructor appends behind the torn
\* record, at which replay() goes on stopping.
SettledReplayed ==
    fd /\ faults = 0 /\ base = 0 => 1..promised \subseteq Replay(file)
=============================================================================
