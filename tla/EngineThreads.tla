--------------------------- MODULE EngineThreads ---------------------------
(***************************************************************************)
(* How the threads of the storage engine (engine/src/engine.cpp) wake,     *)
(* wait for and stop one another: the writer and client threads inside     *)
(* checkFlush, the flush thread, the compaction thread, client threads     *)
(* inside waitForCompaction, pauseCompaction and resumeCompaction, and the *)
(* destructor.  What the tables hold is the subject of StorageEngine; here *)
(* a memtable is only absent, empty or filled.                             *)
(***************************************************************************)
EXTENDS Naturals, FiniteSets

CONSTANTS
    Clients,        \* threads that call flush(), waitForCompaction(),
                    \* pauseCompaction() and resumeCompaction()
    MaxBatches,     \* bound: batches of the writer
    MaxCalls        \* bound: calls of the clients

Callers == Clients \cup {"writer"}             \* the threads in checkFlush
Threads == Callers \cup {"flush", "compact", "destructor"}

ASSUME ThreadsAssumption ==
    /\ Clients \cap {"writer", "flush", "compact", "destructor"} = {}
    /\ {MaxBatches, MaxCalls} \subseteq Nat

VARIABLES
    pc,             \* where each thread is
    filled,         \* memtable_ has entries
    immutable,      \* immutable_memtable_: "none", "empty" or "filled"
    pending,        \* flush_pending_
    needed,         \* compaction_needed_
    paused,         \* compaction_paused_
    inProgress,     \* compaction_in_progress_
    shutdown,       \* shutdown_
    handed, built,  \* ghosts: filled memtables handed over, tables written
    unseen,         \* ghost: a table no compaction has looked at
    begun,          \* ghost: compactions begun since the last pause
    batches, calls

flushVars   == <<filled, immutable, pending, handed, built>>
compactVars == <<needed, paused, inProgress, unseen, begun>>
boundVars   == <<batches, calls>>
vars == <<pc, flushVars, compactVars, shutdown, boundVars>>

Init ==
    /\ pc = [t \in Threads |->
           CASE t = "flush" -> "test" [] t = "compact" -> "cTest" [] OTHER -> "idle"]
    /\ filled = FALSE /\ immutable = "none" /\ pending = FALSE
    /\ needed = FALSE /\ paused = FALSE /\ inProgress = FALSE /\ shutdown = FALSE
    /\ handed = 0 /\ built = 0 /\ unseen = FALSE /\ begun = 0
    /\ batches = 0 /\ calls = 0

Goto(t, l) == pc' = [pc EXCEPT ![t] = l]

\* The engine is used by others until its destructor is called, and not after.
InUse == pc["destructor"] = "idle"

\* A thread between the test of its condition and its wait holds the mutex:
\* flush_mutex_ at "toSleep", compaction_mutex_ at "cToSleep".
FlushMutexFree == \A t \in Threads : pc[t] # "toSleep"
CompactionMutexFree == \A t \in Threads : pc[t] # "cToSleep"

\* Thread t goes on to l after notify_one, or after notify_all: one sleeper, or
\* every one, goes back to the test of its condition.
Sleepers(l) == {t \in Threads : pc[t] = l}
NotifyOne(asleep, test, t, l) ==
    \/ Sleepers(asleep) = {} /\ Goto(t, l)
    \/ \E u \in Sleepers(asleep) : pc' = [pc EXCEPT ![t] = l, ![u] = test]
NotifyAll(asleep, test, t, l) ==
    pc' = [u \in Threads |-> IF u = t THEN l
                             ELSE IF pc[u] = asleep THEN test ELSE pc[u]]

-----------------------------------------------------------------------------
(* writerThreadLoop: a batch is applied and, if the memtable is large      *)
(* enough, handed over.  After WriteQueue::shutdown the queue is emptied.  *)
WriterBatch ==
    /\ pc["writer"] = "idle" /\ batches < MaxBatches
    /\ batches' = batches + 1
    /\ filled' = TRUE
    /\ \/ Goto("writer", "test")
       \/ UNCHANGED pc
    /\ UNCHANGED <<immutable, pending, handed, built, compactVars, shutdown, calls>>

WriterExit ==
    /\ pc["writer"] = "idle" /\ ~InUse
    /\ Goto("writer", "exited")
    /\ UNCHANGED <<flushVars, compactVars, shutdown, boundVars>>

Call(t) ==
    /\ pc[t] = "idle" /\ InUse /\ calls < MaxCalls
    /\ calls' = calls + 1

FlushCall(t) ==
    /\ Call(t)
    /\ Goto(t, "test")
    /\ UNCHANGED <<flushVars, compactVars, shutdown, batches>>

-----------------------------------------------------------------------------
(* checkFlush.  The flush thread changes immutable_memtable_ without       *)
(* flush_mutex_, so it may do so between a caller's test and its wait.     *)
(* shutdown_ is set after the last caller has left, so the return in line  *)
(* 346 is never taken.                                                     *)
CheckFlushTest(t) ==
    /\ pc[t] = "test" /\ FlushMutexFree
    /\ immutable # "none" /\ ~shutdown
    /\ Goto(t, "toSleep")
    /\ UNCHANGED <<flushVars, compactVars, shutdown, boundVars>>

CheckFlushSleep(t) ==
    /\ pc[t] = "toSleep"
    /\ Goto(t, "asleep")
    /\ UNCHANGED <<flushVars, compactVars, shutdown, boundVars>>

\* The copy, the clearing and the store of the new immutable memtable.
HandOver(t) ==
    /\ pc[t] = "test" /\ FlushMutexFree
    /\ immutable = "none" /\ ~shutdown
    /\ immutable' = IF filled THEN "filled" ELSE "empty"
    /\ handed' = IF filled THEN handed + 1 ELSE handed
    /\ filled' = FALSE /\ pending' = TRUE
    /\ Goto(t, "notify")
    /\ UNCHANGED <<built, compactVars, shutdown, boundVars>>

CheckFlushNotify(t) ==
    /\ pc[t] = "notify"
    /\ NotifyOne("asleep", "test", t, "idle")
    /\ UNCHANGED <<flushVars, compactVars, shutdown, boundVars>>

-----------------------------------------------------------------------------
(* flushThreadLoop.  flush_pending_ and shutdown_ are set under            *)
(* flush_mutex_, so this thread cannot miss a notification.                *)
FlushSleep ==
    /\ pc["flush"] = "test" /\ FlushMutexFree
    /\ ~shutdown /\ ~pending
    /\ Goto("flush", "asleep")
    /\ UNCHANGED <<flushVars, compactVars, shutdown, boundVars>>

FlushTakeSkipsEmpty ==      \* mutant: an empty memtable is passed over
    /\ pc["flush"] = "test" /\ FlushMutexFree
    /\ shutdown \/ pending
    /\ immutable # "none"
    /\ pending' = FALSE
    /\ Goto("flush", IF immutable = "filled" THEN "build" ELSE "test")
    /\ UNCHANGED <<filled, immutable, handed, built, compactVars, shutdown,
                   boundVars>>
FlushTake ==
    /\ pc["flush"] = "test" /\ FlushMutexFree
    /\ shutdown \/ pending
    /\ immutable # "none"
    /\ pending' = FALSE
    /\ Goto("flush", IF immutable = "filled" THEN "build" ELSE "reset")
    /\ UNCHANGED <<filled, immutable, handed, built, compactVars, shutdown,
                   boundVars>>

FlushExitAtOnce ==          \* mutant: the last memtable is not looked for
    /\ pc["flush"] = "test" /\ FlushMutexFree
    /\ shutdown
    /\ Goto("flush", "exited")
    /\ UNCHANGED <<flushVars, compactVars, shutdown, boundVars>>
FlushExit ==
    /\ pc["flush"] = "test" /\ FlushMutexFree
    /\ shutdown /\ immutable = "none"
    /\ Goto("flush", "exited")
    /\ UNCHANGED <<flushVars, compactVars, shutdown, boundVars>>

\* The table is written, the version with it installed and saved.
FlushBuild ==
    /\ pc["flush"] = "build"
    /\ built' = built + 1
    /\ unseen' = TRUE
    /\ Goto("flush", "schedule")
    /\ UNCHANGED <<filled, immutable, pending, handed, needed, paused,
                   inProgress, begun, shutdown, boundVars>>

\* scheduleCompaction, in the flush thread or in resumeCompaction: a store and
\* a notification, neither under compaction_mutex_.
ScheduleStore(t) ==
    /\ pc[t] = "schedule"
    /\ needed' = TRUE
    /\ Goto(t, "notifyCompaction")
    /\ UNCHANGED <<flushVars, paused, inProgress, unseen, begun, shutdown,
                   boundVars>>

ScheduleNotify(t) ==
    /\ pc[t] = "notifyCompaction"
    /\ NotifyOne("cAsleep", "cTest", t, IF t = "flush" THEN "reset" ELSE "idle")
    /\ UNCHANGED <<flushVars, compactVars, shutdown, boundVars>>

FlushReset ==
    /\ pc["flush"] = "reset"
    /\ immutable' = "none"
    /\ Goto("flush", "notify")
    /\ UNCHANGED <<filled, pending, handed, built, compactVars, shutdown,
                   boundVars>>

FlushNotify ==
    /\ pc["flush"] = "notify"
    /\ NotifyAll("asleep", "test", "flush", "test")
    /\ UNCHANGED <<flushVars, compactVars, shutdown, boundVars>>

-----------------------------------------------------------------------------
(* compactionThreadLoop.  Only this thread resets compaction_needed_, and  *)
(* shutdown_ is never reset, so reading the three atomics of the wait's    *)
(* predicate counts as one step.                                           *)
CanCompact == needed /\ ~paused

CompactTest ==
    /\ pc["compact"] = "cTest" /\ CompactionMutexFree
    /\ Goto("compact", IF shutdown \/ CanCompact THEN "woken" ELSE "cToSleep")
    /\ UNCHANGED <<flushVars, compactVars, shutdown, boundVars>>

CompactSleep(t) ==
    /\ pc[t] = "cToSleep"
    /\ Goto(t, "cAsleep")
    /\ UNCHANGED <<flushVars, compactVars, shutdown, boundVars>>

CompactWake ==
    /\ pc["compact"] = "woken"
    /\ Goto("compact", CASE shutdown -> "exited"
                         [] ~shutdown /\ CanCompact -> "clear"
                         [] OTHER -> "cTest")
    /\ UNCHANGED <<flushVars, compactVars, shutdown, boundVars>>

CompactClear ==
    /\ pc["compact"] = "clear"
    /\ needed' = FALSE
    /\ Goto("compact", "begin")
    /\ UNCHANGED <<flushVars, paused, inProgress, unseen, begun, shutdown,
                   boundVars>>

\* maybeCompactBackground first reads the current version.
CompactBegin ==
    /\ pc["compact"] = "begin"
    /\ inProgress' = TRUE
    /\ unseen' = FALSE
    /\ begun' = IF paused THEN begun + 1 ELSE begun
    /\ Goto("compact", "merge")
    /\ UNCHANGED <<flushVars, needed, paused, shutdown, boundVars>>

CompactEndClears ==         \* mutant: compaction_needed_ is reset at the end
    /\ pc["compact"] = "merge"
    /\ inProgress' = FALSE /\ needed' = FALSE
    /\ Goto("compact", "notify")
    /\ UNCHANGED <<flushVars, paused, unseen, begun, shutdown, boundVars>>
CompactEnd ==
    /\ pc["compact"] = "merge"
    /\ inProgress' = FALSE
    /\ Goto("compact", "notify")
    /\ UNCHANGED <<flushVars, needed, paused, unseen, begun, shutdown, boundVars>>

CompactNotifyOnce ==        \* mutant: the loop ends after one compaction
    /\ pc["compact"] = "notify" /\ CompactionMutexFree
    /\ NotifyAll("cAsleep", "cTest", "compact", "exited")
    /\ UNCHANGED <<flushVars, compactVars, shutdown, boundVars>>
CompactNotify ==
    /\ pc["compact"] = "notify" /\ CompactionMutexFree
    /\ NotifyAll("cAsleep", "cTest", "compact", "cTest")
    /\ UNCHANGED <<flushVars, compactVars, shutdown, boundVars>>

-----------------------------------------------------------------------------
(* waitForCompaction, pauseCompaction and resumeCompaction, in clients.    *)
WaitCall(t) ==
    /\ Call(t)
    /\ Goto(t, "cTest")
    /\ UNCHANGED <<flushVars, compactVars, shutdown, batches>>

WaitTest(t) ==
    /\ pc[t] = "cTest" /\ CompactionMutexFree
    /\ Goto(t, IF ~inProgress /\ ~needed THEN "idle" ELSE "cToSleep")
    /\ UNCHANGED <<flushVars, compactVars, shutdown, boundVars>>

\* After five seconds the predicate no longer matters.
WaitTimeout(t) ==
    /\ pc[t] = "cAsleep"
    /\ Goto(t, "idle")
    /\ UNCHANGED <<flushVars, compactVars, shutdown, boundVars>>

PauseCompaction(t) ==
    /\ Call(t)
    /\ paused' = TRUE /\ begun' = 0
    /\ UNCHANGED <<pc, flushVars, needed, inProgress, unseen, shutdown, batches>>

ResumeCompaction(t) ==
    /\ Call(t)
    /\ paused' = FALSE
    /\ Goto(t, "schedule")
    /\ UNCHANGED <<flushVars, needed, inProgress, unseen, begun, shutdown, batches>>

-----------------------------------------------------------------------------
(* ~StorageEngine: the writer, the flush thread and the compaction thread  *)
(* are stopped and joined one after the other.                             *)
Destroy ==
    /\ InUse
    /\ \A t \in Clients : pc[t] = "idle"
    /\ Goto("destructor", "joinWriter")
    /\ UNCHANGED <<flushVars, compactVars, shutdown, boundVars>>

JoinWriter ==
    /\ pc["destructor"] = "joinWriter" /\ pc["writer"] = "exited"
    /\ FlushMutexFree
    /\ shutdown' = TRUE
    /\ Goto("destructor", "notifyFlush")
    /\ UNCHANGED <<flushVars, compactVars, boundVars>>

StopFlush ==
    /\ pc["destructor"] = "notifyFlush"
    /\ NotifyOne("asleep", "test", "destructor", "joinFlush")
    /\ UNCHANGED <<flushVars, compactVars, shutdown, boundVars>>

\* compaction_mutex_ is taken and released, so that the compaction thread is
\* not between its test and its wait when it is notified.
JoinFlushNoLock ==          \* mutant: without the empty critical section
    /\ pc["destructor"] = "joinFlush" /\ pc["flush"] = "exited"
    /\ Goto("destructor", "notifyCompact")
    /\ UNCHANGED <<flushVars, compactVars, shutdown, boundVars>>
JoinFlush ==
    /\ pc["destructor"] = "joinFlush" /\ pc["flush"] = "exited"
    /\ CompactionMutexFree
    /\ Goto("destructor", "notifyCompact")
    /\ UNCHANGED <<flushVars, compactVars, shutdown, boundVars>>

StopCompact ==
    /\ pc["destructor"] = "notifyCompact"
    /\ NotifyOne("cAsleep", "cTest", "destructor", "joinCompact")
    /\ UNCHANGED <<flushVars, compactVars, shutdown, boundVars>>

JoinCompact ==
    /\ pc["destructor"] = "joinCompact" /\ pc["compact"] = "exited"
    /\ Goto("destructor", "done")
    /\ UNCHANGED <<flushVars, compactVars, shutdown, boundVars>>

-----------------------------------------------------------------------------
CheckFlush(t) ==
    CheckFlushTest(t) \/ CheckFlushSleep(t) \/ HandOver(t) \/ CheckFlushNotify(t)

FlushThread ==
    \/ FlushSleep \/ FlushTake \/ FlushExit \/ FlushBuild
    \/ ScheduleStore("flush") \/ ScheduleNotify("flush")
    \/ FlushReset \/ FlushNotify

CompactionThread ==
    \/ CompactTest \/ CompactSleep("compact") \/ CompactWake \/ CompactClear
    \/ CompactBegin \/ CompactEnd \/ CompactNotify

ClientCalls(t) ==
    FlushCall(t) \/ WaitCall(t) \/ PauseCompaction(t) \/ ResumeCompaction(t)

Client(t) ==
    \/ CheckFlush(t)
    \/ WaitTest(t) \/ CompactSleep(t) \/ WaitTimeout(t)
    \/ ScheduleStore(t) \/ ScheduleNotify(t)

Writer == WriterExit \/ CheckFlush("writer")

Destructor == JoinWriter \/ StopFlush \/ JoinFlush \/ StopCompact \/ JoinCompact

Next ==
    \/ WriterBatch \/ Writer
    \/ FlushThread \/ CompactionThread
    \/ \E t \in Clients : ClientCalls(t) \/ Client(t)
    \/ Destroy \/ Destructor

\* Threads that can run do; that clients call, and that the engine is
\* destroyed, is never due.
Fairness ==
    /\ WF_vars(Writer) /\ WF_vars(FlushThread) /\ WF_vars(CompactionThread)
    /\ \A t \in Clients : WF_vars(Client(t))
    /\ WF_vars(Destructor)

Spec == Init /\ [][Next]_vars /\ Fairness

-----------------------------------------------------------------------------
TypeOK ==
    /\ pc \in [Threads -> {"idle", "test", "toSleep", "asleep", "notify",
           "cTest", "cToSleep", "cAsleep", "exited", "build", "schedule", "notifyCompaction", "reset", "woken",
           "clear", "begin", "merge", "joinWriter", "notifyFlush",
           "joinFlush", "notifyCompact", "joinCompact", "done"}]
    /\ immutable \in {"none", "empty", "filled"}
    /\ pending => immutable # "none"
    /\ {filled, pending, needed, paused, inProgress, shutdown, unseen}
           \subseteq BOOLEAN
    /\ {handed, built, begun, batches, calls} \subseteq Nat

\* Every memtable handed over becomes a table exactly once, and none is left
\* when the flush thread has ended: callers of checkFlush, the flush thread's
\* unlocked reset and the destructor never drop or repeat one.
FlushedOnce ==
    /\ TypeOK
    /\ handed = built + (IF /\ immutable = "filled"
                            /\ pc["flush"] \notin {"schedule", "notifyCompaction", "reset"}
                         THEN 1 ELSE 0)
    /\ pc["flush"] = "exited" => immutable = "none"

\* A table that no compaction has looked at is announced by
\* compaction_needed_, is about to be, or a compaction is about to look:
\* scheduleCompaction racing the compaction thread's reset loses no table.
\* And after pauseCompaction at most one more compaction begins, the one whose
\* test of compaction_paused_ came before the pause.
ScheduleKept ==
    /\ unseen => \/ needed
                 \/ pc["flush"] = "schedule"
                 \/ pc["compact"] = "begin"
    /\ paused => begun <= 1

\* Two ways for a caller of checkFlush to sleep on: it tested before the flush
\* thread's reset and slept after its notification; or the notify_one meant for
\* the flush thread went to another caller.
Missed ==
    /\ immutable = "none" /\ pc["flush"] # "notify"
    /\ \E t \in Callers : pc[t] = "asleep"
Stolen ==
    /\ pending /\ pc["flush"] = "asleep"
    /\ \A t \in Callers : pc[t] # "notify"

\* A client's flush() returns, unless one of the two notifications was missed.
CheckFlushReturns ==
    \A t \in Clients : pc[t] = "test" ~> pc[t] = "idle" \/ Missed \/ Stolen

\* The destructor joins its three threads one after the other and returns,
\* unless the writer has missed a notification in checkFlush.
DestructorReturns ==
    pc["destructor"] = "joinWriter" ~>
        pc["destructor"] = "done" \/ Missed \/ Stolen

\* The compaction thread sleeps although a compaction is needed: it missed the
\* notification of scheduleCompaction, or a caller of waitForCompaction got it.
Overslept ==
    /\ pc["compact"] = "cAsleep" /\ needed /\ ~paused
    /\ \A t \in Threads : pc[t] # "notifyCompaction"

\* Every flushed table is looked at by a compaction, unless compaction is
\* paused, the engine is destroyed or the compaction thread overslept.
CompactionFollows == unseen ~> ~unseen \/ paused \/ ~InUse \/ Overslept
=============================================================================
