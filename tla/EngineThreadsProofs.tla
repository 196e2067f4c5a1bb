------------------------ MODULE EngineThreadsProofs ------------------------
(* Theorems about EngineThreads, for any set of clients and any bounds.    *)
EXTENDS EngineThreads, TLAPS

Labels == {"idle", "test", "toSleep", "asleep", "notify",
           "cTest", "cToSleep", "cAsleep", "exited", "build", "schedule", "notifyCompaction", "reset", "woken",
           "clear", "begin", "merge", "joinWriter", "notifyFlush",
           "joinFlush", "notifyCompact", "joinCompact", "done"}

\* The steps of flushThreadLoop, of compactionThreadLoop and of the callers.
Places ==
    /\ pc["flush"] \in {"test", "asleep", "build", "schedule",
                        "notifyCompaction", "reset", "notify", "exited"}
    /\ pc["compact"] \in {"cTest", "cToSleep", "cAsleep", "woken", "clear",
                          "begin", "merge", "notify", "exited"}
    /\ pc["writer"] \in {"idle", "test", "toSleep", "asleep", "notify", "exited"}

\* The flush thread has taken the immutable memtable and not yet reset it.
Flushing == pc["flush"] \in {"build", "schedule", "notifyCompaction", "reset"}

\* While it does, flush_pending_ is down and the memtable stays where it is,
\* so that no caller of checkFlush can hand over another one.  It ends only
\* after shutdown_, when nobody calls checkFlush any more.
FlushHolds ==
    /\ Flushing => immutable # "none" /\ ~pending
    /\ pc["flush"] \in {"build", "schedule", "notifyCompaction"} =>
           immutable = "filled"
    /\ pc["flush"] = "exited" => shutdown

\* A compaction that has passed its test of compaction_paused_ and not begun
\* is the first one since the pause.
PauseSeen == paused /\ pc["compact"] \in {"clear", "begin"} => begun = 0

IInv ==
    /\ TypeOK
    /\ Places
    /\ FlushHolds
    /\ FlushedOnce
    /\ PauseSeen
    /\ ScheduleKept
-----------------------------------------------------------------------------
\* Thread t goes to l; of the others, sleepers at a may be sent to b.
Moves(t, l, a, b) ==
    /\ pc' \in [Threads -> Labels]
    /\ pc'[t] = l
    /\ \A u \in Threads \ {t} : pc'[u] = pc[u] \/ (pc[u] = a /\ pc'[u] = b)

\* Goto moves one thread.
LEMMA GotoMoves ==
    ASSUME pc \in [Threads -> Labels], NEW t \in Threads, NEW l \in Labels, Goto(t, l)
    PROVE  /\ pc' \in [Threads -> Labels]
           /\ pc'[t] = l
           /\ \A u \in Threads \ {t} : pc'[u] = pc[u]
BY DEF Goto

\* notify_one moves the notifying thread and at most one sleeper.
LEMMA NotifyOneMoves ==
    ASSUME pc \in [Threads -> Labels], NEW t \in Threads, NEW l \in Labels,
           NEW a \in Labels, NEW b \in Labels, pc[t] # a, NotifyOne(a, b, t, l)
    PROVE  Moves(t, l, a, b)
<1>1. CASE Goto(t, l)
  BY <1>1, GotoMoves DEF Moves
<1>2. ASSUME NEW u \in Sleepers(a), pc' = [pc EXCEPT ![t] = l, ![u] = b]
      PROVE  Moves(t, l, a, b)
  <2>1. u \in Threads /\ pc[u] = a /\ u # t
    BY <1>2 DEF Sleepers
  <2> QED BY <1>2, <2>1 DEF Moves
<1> QED BY <1>1, <1>2 DEF NotifyOne

\* notify_all moves the notifying thread and every sleeper.
LEMMA NotifyAllMoves ==
    ASSUME pc \in [Threads -> Labels], NEW t \in Threads, NEW l \in Labels,
           NEW a \in Labels, NEW b \in Labels, NotifyAll(a, b, t, l)
    PROVE  Moves(t, l, a, b)
BY DEF Moves, NotifyAll

\* The engine's own threads are four different ones and none is a client.
LEMMA ThreadNames ==
    /\ {"writer", "flush", "compact", "destructor"} \subseteq Threads
    /\ \A t \in Clients : /\ t \in Threads /\ t \in Callers
                          /\ t \notin {"writer", "flush", "compact", "destructor"}
BY ThreadsAssumption DEF Threads, Callers

\* A step that only moves threads, the flush thread not into or out of a flush
\* and the compaction thread not past its test, keeps the invariant.
LEMMA QuietStep ==
    ASSUME IInv, pc' \in [Threads -> Labels], Places',
           UNCHANGED <<flushVars, compactVars, shutdown, boundVars>>,
           \/ pc'["flush"] = pc["flush"]
           \/ pc["flush"] \in {"test", "asleep", "notify"} /\
              pc'["flush"] \in {"test", "asleep"},
           \/ pc'["compact"] = pc["compact"]
           \/ pc["compact"] # "begin" /\ pc'["compact"] \notin {"clear", "begin"}
    PROVE  IInv'
<1>1. /\ UNCHANGED <<filled, immutable, pending, handed, built>>
      /\ UNCHANGED <<needed, paused, inProgress, unseen, begun>>
      /\ UNCHANGED <<shutdown, batches, calls>>
  BY DEF flushVars, compactVars, boundVars
<1>2. TypeOK'
  BY <1>1 DEF IInv, TypeOK, Labels
<1>3. FlushHolds'
  BY <1>1 DEF IInv, FlushHolds, Flushing
<1>4. FlushedOnce'
  BY <1>1, <1>2 DEF IInv, FlushedOnce
<1>5. PauseSeen'
  BY <1>1 DEF IInv, PauseSeen
<1>6. ScheduleKept'
  BY <1>1 DEF IInv, ScheduleKept
<1> QED BY <1>2, <1>3, <1>4, <1>5, <1>6 DEF IInv

\* checkFlush keeps the invariant, whichever caller runs it.
LEMMA CheckFlushStep ==
    ASSUME IInv, NEW t \in Callers, CheckFlush(t)
    PROVE  IInv'
<1>0. /\ pc \in [Threads -> Labels] /\ Places
      /\ t \in Threads /\ t # "flush" /\ t # "compact"
  BY ThreadNames DEF IInv, TypeOK, Labels, Callers
<1>1. CASE CheckFlushTest(t) \/ CheckFlushSleep(t)
  <2>1. /\ UNCHANGED <<flushVars, compactVars, shutdown, boundVars>>
        /\ Goto(t, "toSleep") \/ Goto(t, "asleep")
    BY <1>1 DEF CheckFlushTest, CheckFlushSleep
  <2>2. /\ pc' \in [Threads -> Labels] /\ pc'[t] \in {"toSleep", "asleep"}
        /\ \A u \in Threads \ {t} : pc'[u] = pc[u]
    BY <1>0, <2>1, GotoMoves DEF Labels
  <2> QED BY <1>0, <2>1, <2>2, QuietStep, ThreadNames DEF Places
<1>2. CASE CheckFlushNotify(t)
  <2>1. /\ UNCHANGED <<flushVars, compactVars, shutdown, boundVars>>
        /\ pc[t] = "notify" /\ NotifyOne("asleep", "test", t, "idle")
    BY <1>2 DEF CheckFlushNotify
  <2>2. Moves(t, "idle", "asleep", "test")
    BY <1>0, <2>1, NotifyOneMoves, ZenonT(60) DEF Labels
  <2> QED BY <1>0, <2>1, <2>2, QuietStep, ThreadNames DEF Places, Moves
<1>3. CASE HandOver(t)
  <2>1. /\ pc' \in [Threads -> Labels] /\ pc'[t] = "notify"
        /\ \A u \in Threads \ {t} : pc'[u] = pc[u]
    BY <1>0, <1>3, GotoMoves DEF HandOver, Labels
  <2>2. pc'["flush"] = pc["flush"] /\ pc'["compact"] = pc["compact"]
    BY <1>0, <2>1, ThreadNames
  <2>3. /\ UNCHANGED <<needed, paused, inProgress, unseen, begun>>
        /\ UNCHANGED <<built, shutdown, batches, calls>>
        /\ immutable = "none" /\ ~shutdown
        /\ immutable' = IF filled THEN "filled" ELSE "empty"
        /\ handed' = IF filled THEN handed + 1 ELSE handed
        /\ filled' = FALSE /\ pending' = TRUE
    BY <1>3 DEF HandOver, compactVars, boundVars
  <2>4. ~Flushing /\ pc["flush"] # "exited"
    BY <2>3 DEF IInv, FlushHolds
  <2>5. TypeOK'
    <3>1. handed' \in Nat
      BY <2>3 DEF IInv, TypeOK
    <3>2. {filled, pending, needed, paused, inProgress, shutdown, unseen}'
              \subseteq BOOLEAN
      BY <2>3 DEF IInv, TypeOK
    <3>3. {handed, built, begun, batches, calls}' \subseteq Nat
      BY <2>3, <3>1 DEF IInv, TypeOK
    <3>4. immutable' \in {"empty", "filled"}
      BY <2>3
    <3> QED BY <2>1, <3>2, <3>3, <3>4 DEF TypeOK, Labels
  <2>6. Places'
    BY <1>0, <2>1, <2>2, ThreadNames DEF Places
  <2>7. FlushHolds'
    BY <2>2, <2>4 DEF FlushHolds, Flushing
  <2>8. FlushedOnce'
    <3>1. handed = built /\ handed \in Nat
      BY <2>3 DEF IInv, FlushedOnce, TypeOK
    <3> QED BY <2>2, <2>3, <2>4, <2>5, <3>1 DEF FlushedOnce, Flushing
  <2>9. PauseSeen' /\ ScheduleKept'
    BY <2>2, <2>3 DEF IInv, PauseSeen, ScheduleKept
  <2> QED BY <2>5, <2>6, <2>7, <2>8, <2>9 DEF IInv
<1> QED BY <1>1, <1>2, <1>3 DEF CheckFlush

\* scheduleCompaction keeps the invariant, in the flush thread and in a client.
LEMMA ScheduleStep ==
    ASSUME IInv, NEW t \in Clients \cup {"flush"},
           ScheduleStore(t) \/ ScheduleNotify(t)
    PROVE  IInv'
<1>0. /\ pc \in [Threads -> Labels] /\ Places
      /\ t \in Threads /\ t # "compact" /\ t # "writer"
  BY ThreadNames DEF IInv, TypeOK, Labels
<1>1. CASE ScheduleStore(t)
  <2>1. /\ pc' \in [Threads -> Labels] /\ pc'[t] = "notifyCompaction"
        /\ \A u \in Threads \ {t} : pc'[u] = pc[u]
    BY <1>0, <1>1, GotoMoves DEF ScheduleStore, Labels
  <2>2. /\ pc'["compact"] = pc["compact"] /\ pc'["writer"] = pc["writer"]
        /\ \/ pc'["flush"] = pc["flush"]
           \/ pc["flush"] = "schedule" /\ pc'["flush"] = "notifyCompaction"
    BY <1>0, <1>1, <2>1, ThreadNames DEF ScheduleStore
  <2>3. /\ needed' = TRUE /\ UNCHANGED flushVars
        /\ UNCHANGED <<paused, inProgress, unseen, begun, shutdown, batches, calls>>
    BY <1>1 DEF ScheduleStore, boundVars
  <2>4. UNCHANGED <<filled, immutable, pending, handed, built>>
    BY <2>3 DEF flushVars
  <2>5. TypeOK'
    BY <2>1, <2>3, <2>4 DEF IInv, TypeOK, Labels
  <2>6. Places'
    BY <1>0, <2>2 DEF Places
  <2>7. FlushHolds'
    BY <2>2, <2>3, <2>4 DEF IInv, FlushHolds, Flushing
  <2>8. FlushedOnce'
    BY <2>2, <2>4, <2>5 DEF IInv, FlushedOnce
  <2>9. PauseSeen' /\ ScheduleKept'
    BY <2>2, <2>3 DEF IInv, PauseSeen, ScheduleKept
  <2> QED BY <2>5, <2>6, <2>7, <2>8, <2>9 DEF IInv
<1>2. CASE ScheduleNotify(t)
  <2> DEFINE l == IF t = "flush" THEN "reset" ELSE "idle"
  <2>1. /\ UNCHANGED <<flushVars, compactVars, shutdown, boundVars>>
        /\ pc[t] = "notifyCompaction" /\ NotifyOne("cAsleep", "cTest", t, l)
    BY <1>2 DEF ScheduleNotify
  <2>2. Moves(t, l, "cAsleep", "cTest")
    <3>1. l \in Labels /\ "cTest" \in Labels /\ "cAsleep" \in Labels
      BY DEF Labels
    <3>2. pc[t] # "cAsleep"
      BY <2>1
    <3> HIDE DEF l
    <3> QED BY <1>0, <2>1, <3>1, <3>2, NotifyOneMoves
  <2>3. pc' \in [Threads -> Labels] /\ Places'
    BY <1>0, <2>2, ThreadNames DEF Places, Moves
  <2>4. CASE t # "flush"
    BY <1>0, <2>1, <2>2, <2>3, <2>4, QuietStep, ThreadNames DEF Moves, Places
  <2>5. CASE t = "flush"
    <3>1. /\ pc["flush"] = "notifyCompaction" /\ pc'["flush"] = "reset"
          /\ \/ pc'["compact"] = pc["compact"]
             \/ pc["compact"] = "cAsleep" /\ pc'["compact"] = "cTest"
      BY <2>1, <2>2, <2>5, ThreadNames DEF Moves
    <3>2. /\ UNCHANGED <<filled, immutable, pending, handed, built>>
          /\ UNCHANGED <<needed, paused, inProgress, unseen, begun>>
          /\ UNCHANGED <<shutdown, batches, calls>>
      BY <2>1 DEF flushVars, compactVars, boundVars
    <3>3. TypeOK'
      BY <2>3, <3>2 DEF IInv, TypeOK, Labels
    <3>4. FlushHolds'
      BY <3>1, <3>2 DEF IInv, FlushHolds, Flushing
    <3>5. FlushedOnce'
      BY <3>1, <3>2, <3>3 DEF IInv, FlushedOnce
    <3>6. PauseSeen' /\ ScheduleKept'
      BY <3>1, <3>2 DEF IInv, PauseSeen, ScheduleKept
    <3> QED BY <2>3, <3>3, <3>4, <3>5, <3>6 DEF IInv
  <2> QED BY <2>4, <2>5
<1> QED BY <1>1, <1>2

\* flushThreadLoop keeps the invariant.
LEMMA FlushThreadStep == ASSUME IInv, FlushThread PROVE IInv'
<1>0. pc \in [Threads -> Labels] /\ Places
  BY DEF IInv, TypeOK, Labels
<1>1. CASE FlushSleep
  <2>1. /\ UNCHANGED <<flushVars, compactVars, shutdown, boundVars>>
        /\ pc["flush"] = "test" /\ Goto("flush", "asleep")
    BY <1>1 DEF FlushSleep
  <2>2. /\ pc' \in [Threads -> Labels] /\ pc'["flush"] = "asleep"
        /\ \A u \in Threads \ {"flush"} : pc'[u] = pc[u]
    BY <1>0, <2>1, GotoMoves, ThreadNames DEF Labels
  <2> QED BY <1>0, <2>1, <2>2, QuietStep, ThreadNames DEF Places
<1>2. CASE FlushNotify
  <2>1. /\ UNCHANGED <<flushVars, compactVars, shutdown, boundVars>>
        /\ pc["flush"] = "notify" /\ NotifyAll("asleep", "test", "flush", "test")
    BY <1>2 DEF FlushNotify
  <2>2. Moves("flush", "test", "asleep", "test")
    BY <1>0, <2>1, NotifyAllMoves, ThreadNames, ZenonT(60) DEF Labels
  <2> QED BY <1>0, <2>1, <2>2, QuietStep, ThreadNames DEF Places, Moves
<1>3. CASE FlushTake
  <2> DEFINE l == IF immutable = "filled" THEN "build" ELSE "reset"
  <2>1. /\ pc' \in [Threads -> Labels] /\ pc'["flush"] = l
        /\ \A u \in Threads \ {"flush"} : pc'[u] = pc[u]
    BY <1>0, <1>3, GotoMoves, ThreadNames DEF FlushTake, Labels
  <2>2. /\ pc["flush"] = "test" /\ immutable # "none" /\ pending' = FALSE
        /\ UNCHANGED <<filled, immutable, handed, built, shutdown>>
        /\ UNCHANGED <<needed, paused, inProgress, unseen, begun>>
        /\ UNCHANGED <<batches, calls>>
    BY <1>3 DEF FlushTake, compactVars, boundVars
  <2>3. pc'["compact"] = pc["compact"] /\ pc'["writer"] = pc["writer"]
    BY <2>1, ThreadNames
  <2>4. TypeOK'
    BY <2>1, <2>2 DEF IInv, TypeOK, Labels
  <2>5. Places'
    BY <1>0, <2>1, <2>3 DEF Places
  <2>6. FlushHolds'
    BY <2>1, <2>2 DEF FlushHolds, Flushing
  <2>7. FlushedOnce'
    BY <2>1, <2>2, <2>4 DEF IInv, FlushedOnce
  <2>8. PauseSeen' /\ ScheduleKept'
    BY <2>1, <2>2, <2>3 DEF IInv, PauseSeen, ScheduleKept
  <2> QED BY <2>4, <2>5, <2>6, <2>7, <2>8 DEF IInv
<1>4. CASE FlushExit
  <2>1. /\ pc' \in [Threads -> Labels] /\ pc'["flush"] = "exited"
        /\ \A u \in Threads \ {"flush"} : pc'[u] = pc[u]
    BY <1>0, <1>4, GotoMoves, ThreadNames DEF FlushExit, Labels
  <2>2. /\ pc["flush"] = "test" /\ immutable = "none" /\ shutdown
        /\ UNCHANGED <<filled, immutable, pending, handed, built, shutdown>>
        /\ UNCHANGED <<needed, paused, inProgress, unseen, begun>>
        /\ UNCHANGED <<batches, calls>>
    BY <1>4 DEF FlushExit, flushVars, compactVars, boundVars
  <2>3. pc'["compact"] = pc["compact"] /\ pc'["writer"] = pc["writer"]
    BY <2>1, ThreadNames
  <2>4. TypeOK'
    BY <2>1, <2>2 DEF IInv, TypeOK, Labels
  <2>5. Places'
    BY <1>0, <2>1, <2>3 DEF Places
  <2>6. FlushHolds'
    BY <2>1, <2>2 DEF FlushHolds, Flushing
  <2>7. FlushedOnce'
    BY <2>1, <2>2, <2>4 DEF IInv, FlushedOnce
  <2>8. PauseSeen' /\ ScheduleKept'
    BY <2>1, <2>2, <2>3 DEF IInv, PauseSeen, ScheduleKept
  <2> QED BY <2>4, <2>5, <2>6, <2>7, <2>8 DEF IInv
<1>5. CASE FlushBuild
  <2>1. /\ pc' \in [Threads -> Labels] /\ pc'["flush"] = "schedule"
        /\ \A u \in Threads \ {"flush"} : pc'[u] = pc[u]
    BY <1>0, <1>5, GotoMoves, ThreadNames DEF FlushBuild, Labels
  <2>2. /\ pc["flush"] = "build" /\ built' = built + 1 /\ unseen' = TRUE
        /\ UNCHANGED <<filled, immutable, pending, handed, shutdown>>
        /\ UNCHANGED <<needed, paused, inProgress, begun>>
        /\ UNCHANGED <<batches, calls>>
    BY <1>5 DEF FlushBuild, boundVars
  <2>3. pc'["compact"] = pc["compact"] /\ pc'["writer"] = pc["writer"]
    BY <2>1, ThreadNames
  <2>4. TypeOK'
    <3>1. {filled, pending, needed, paused, inProgress, shutdown, unseen}'
              \subseteq BOOLEAN
      BY <2>2 DEF IInv, TypeOK
    <3>2. {handed, built, begun, batches, calls}' \subseteq Nat
      BY <2>2 DEF IInv, TypeOK
    <3> QED BY <2>1, <2>2, <3>1, <3>2 DEF IInv, TypeOK, Labels
  <2>5. Places'
    BY <1>0, <2>1, <2>3 DEF Places
  <2>6. FlushHolds'
    BY <2>1, <2>2 DEF IInv, FlushHolds, Flushing
  <2>7. FlushedOnce'
    <3>1. immutable = "filled" /\ handed = built + 1
      BY <2>2 DEF IInv, FlushHolds, FlushedOnce
    <3> QED BY <2>1, <2>2, <2>4, <3>1 DEF IInv, TypeOK, FlushedOnce
  <2>8. PauseSeen' /\ ScheduleKept'
    BY <2>1, <2>2, <2>3 DEF IInv, PauseSeen, ScheduleKept
  <2> QED BY <2>4, <2>5, <2>6, <2>7, <2>8 DEF IInv
<1>6. CASE FlushReset
  <2>1. /\ pc' \in [Threads -> Labels] /\ pc'["flush"] = "notify"
        /\ \A u \in Threads \ {"flush"} : pc'[u] = pc[u]
    BY <1>0, <1>6, GotoMoves, ThreadNames DEF FlushReset, Labels
  <2>2. /\ pc["flush"] = "reset" /\ immutable' = "none" /\ ~pending
        /\ UNCHANGED <<filled, pending, handed, built, shutdown>>
        /\ UNCHANGED <<needed, paused, inProgress, unseen, begun>>
        /\ UNCHANGED <<batches, calls>>
    BY <1>6 DEF FlushReset, compactVars, boundVars, IInv, FlushHolds, Flushing
  <2>3. pc'["compact"] = pc["compact"] /\ pc'["writer"] = pc["writer"]
    BY <2>1, ThreadNames
  <2>4. TypeOK'
    BY <2>1, <2>2 DEF IInv, TypeOK, Labels
  <2>5. Places'
    BY <1>0, <2>1, <2>3 DEF Places
  <2>6. FlushHolds'
    BY <2>1, <2>2 DEF FlushHolds, Flushing
  <2>7. FlushedOnce'
    BY <2>1, <2>2, <2>4 DEF IInv, FlushedOnce
  <2>8. PauseSeen' /\ ScheduleKept'
    BY <2>1, <2>2, <2>3 DEF IInv, PauseSeen, ScheduleKept
  <2> QED BY <2>4, <2>5, <2>6, <2>7, <2>8 DEF IInv
<1> QED
  BY <1>1, <1>2, <1>3, <1>4, <1>5, <1>6, ScheduleStep DEF FlushThread

\* A step that leaves the flush thread and its variables alone keeps the part
\* of the invariant that is about them.
LEMMA FlushUntouched ==
    ASSUME IInv, pc' \in [Threads -> Labels], pc'["flush"] = pc["flush"],
           UNCHANGED <<flushVars, shutdown>>,
           {needed, paused, inProgress, unseen}' \subseteq BOOLEAN,
           {begun, batches, calls}' \subseteq Nat
    PROVE  TypeOK' /\ FlushHolds' /\ FlushedOnce'
<1>1. UNCHANGED <<filled, immutable, pending, handed, built, shutdown>>
  BY DEF flushVars
<1>2. TypeOK'
  <2>1. {filled, pending, needed, paused, inProgress, shutdown, unseen}'
            \subseteq BOOLEAN
    BY <1>1 DEF IInv, TypeOK
  <2>2. {handed, built, begun, batches, calls}' \subseteq Nat
    BY <1>1 DEF IInv, TypeOK
  <2> QED BY <1>1, <2>1, <2>2 DEF IInv, TypeOK, Labels
<1> QED BY <1>1, <1>2 DEF IInv, FlushHolds, Flushing, FlushedOnce

\* compactionThreadLoop keeps the invariant.
LEMMA CompactionThreadStep == ASSUME IInv, CompactionThread PROVE IInv'
<1>0. pc \in [Threads -> Labels] /\ Places
  BY DEF IInv, TypeOK, Labels
<1>t. /\ {needed, paused, inProgress, unseen} \subseteq BOOLEAN
      /\ {begun, batches, calls} \subseteq Nat
  BY DEF IInv, TypeOK
<1>1. CASE CompactTest \/ CompactSleep("compact")
  <2>1. /\ UNCHANGED <<flushVars, compactVars, shutdown, boundVars>>
        /\ pc["compact"] \in {"cTest", "cToSleep"}
        /\ \E l \in {"woken", "cToSleep", "cAsleep"} : Goto("compact", l)
    BY <1>1 DEF CompactTest, CompactSleep
  <2>2. /\ pc' \in [Threads -> Labels]
        /\ pc'["compact"] \in {"woken", "cToSleep", "cAsleep"}
        /\ \A u \in Threads \ {"compact"} : pc'[u] = pc[u]
    BY <1>0, <2>1, GotoMoves, ThreadNames DEF Labels
  <2> QED BY <1>0, <2>1, <2>2, QuietStep, ThreadNames DEF Places
<1>2. CASE CompactNotify
  <2>1. /\ UNCHANGED <<flushVars, compactVars, shutdown, boundVars>>
        /\ pc["compact"] = "notify"
        /\ NotifyAll("cAsleep", "cTest", "compact", "cTest")
    BY <1>2 DEF CompactNotify
  <2>2. Moves("compact", "cTest", "cAsleep", "cTest")
    BY <1>0, <2>1, NotifyAllMoves, ThreadNames, ZenonT(60) DEF Labels
  <2> QED BY <1>0, <2>1, <2>2, QuietStep, ThreadNames DEF Places, Moves
<1>3. CASE CompactWake
  <2>1. /\ UNCHANGED <<flushVars, compactVars, shutdown, boundVars>>
        /\ pc["compact"] = "woken"
        /\ \/ Goto("compact", "exited")
           \/ Goto("compact", "clear") /\ ~paused
           \/ Goto("compact", "cTest")
    BY <1>3 DEF CompactWake, CanCompact
  <2>2. /\ pc' \in [Threads -> Labels]
        /\ pc'["compact"] \in {"exited", "clear", "cTest"}
        /\ pc'["compact"] = "clear" => ~paused
        /\ \A u \in Threads \ {"compact"} : pc'[u] = pc[u]
    BY <1>0, <2>1, GotoMoves, ThreadNames DEF Labels
  <2>3. /\ pc'["flush"] = pc["flush"]
        /\ UNCHANGED <<needed, paused, inProgress, unseen, begun, batches, calls>>
    BY <2>1, <2>2, ThreadNames DEF compactVars, boundVars
  <2>4. TypeOK' /\ FlushHolds' /\ FlushedOnce'
    BY <1>t, <2>1, <2>2, <2>3, FlushUntouched
  <2>5. Places'
    BY <1>0, <2>2, ThreadNames DEF Places
  <2>6. PauseSeen' /\ ScheduleKept'
    BY <2>1, <2>2, <2>3 DEF IInv, PauseSeen, ScheduleKept
  <2> QED BY <2>4, <2>5, <2>6 DEF IInv
<1>4. CASE CompactClear
  <2>1. /\ pc' \in [Threads -> Labels] /\ pc'["compact"] = "begin"
        /\ \A u \in Threads \ {"compact"} : pc'[u] = pc[u]
    BY <1>0, <1>4, GotoMoves, ThreadNames DEF CompactClear, Labels
  <2>2. /\ pc["compact"] = "clear" /\ needed' = FALSE
        /\ UNCHANGED <<flushVars, shutdown>>
        /\ UNCHANGED <<paused, inProgress, unseen, begun, batches, calls>>
    BY <1>4 DEF CompactClear, boundVars
  <2>3. pc'["flush"] = pc["flush"]
    BY <2>1, ThreadNames
  <2>4. TypeOK' /\ FlushHolds' /\ FlushedOnce'
    BY <1>t, <2>1, <2>2, <2>3, FlushUntouched
  <2>5. Places'
    BY <1>0, <2>1, ThreadNames DEF Places
  <2>6. PauseSeen' /\ ScheduleKept'
    BY <2>1, <2>2, <2>3 DEF IInv, PauseSeen, ScheduleKept
  <2> QED BY <2>4, <2>5, <2>6 DEF IInv
<1>5. CASE CompactBegin
  <2>1. /\ pc' \in [Threads -> Labels] /\ pc'["compact"] = "merge"
        /\ \A u \in Threads \ {"compact"} : pc'[u] = pc[u]
    BY <1>0, <1>5, GotoMoves, ThreadNames DEF CompactBegin, Labels
  <2>2. /\ pc["compact"] = "begin" /\ inProgress' = TRUE /\ unseen' = FALSE
        /\ begun' = IF paused THEN begun + 1 ELSE begun
        /\ UNCHANGED <<flushVars, shutdown>>
        /\ UNCHANGED <<needed, paused, batches, calls>>
    BY <1>5 DEF CompactBegin, boundVars
  <2>3. pc'["flush"] = pc["flush"]
    BY <2>1, ThreadNames
  <2>4. TypeOK' /\ FlushHolds' /\ FlushedOnce'
    <3>1. begun' \in Nat
      BY <1>t, <2>2
    <3> QED BY <1>t, <2>1, <2>2, <2>3, <3>1, FlushUntouched
  <2>5. Places'
    BY <1>0, <2>1, ThreadNames DEF Places
  <2>6. PauseSeen' /\ ScheduleKept'
    <3>1. paused => begun' = 1
      BY <2>2 DEF IInv, PauseSeen
    <3> QED BY <2>1, <2>2, <3>1 DEF PauseSeen, ScheduleKept
  <2> QED BY <2>4, <2>5, <2>6 DEF IInv
<1>6. CASE CompactEnd
  <2>1. /\ pc' \in [Threads -> Labels] /\ pc'["compact"] = "notify"
        /\ \A u \in Threads \ {"compact"} : pc'[u] = pc[u]
    BY <1>0, <1>6, GotoMoves, ThreadNames DEF CompactEnd, Labels
  <2>2. /\ pc["compact"] = "merge" /\ inProgress' = FALSE
        /\ UNCHANGED <<flushVars, shutdown>>
        /\ UNCHANGED <<needed, paused, unseen, begun, batches, calls>>
    BY <1>6 DEF CompactEnd, boundVars
  <2>3. pc'["flush"] = pc["flush"]
    BY <2>1, ThreadNames
  <2>4. TypeOK' /\ FlushHolds' /\ FlushedOnce'
    BY <1>t, <2>1, <2>2, <2>3, FlushUntouched
  <2>5. Places'
    BY <1>0, <2>1, ThreadNames DEF Places
  <2>6. PauseSeen' /\ ScheduleKept'
    BY <2>1, <2>2, <2>3 DEF IInv, PauseSeen, ScheduleKept
  <2> QED BY <2>4, <2>5, <2>6 DEF IInv
<1> QED
  BY <1>1, <1>2, <1>3, <1>4, <1>5, <1>6 DEF CompactionThread

\* waitForCompaction, pauseCompaction and resumeCompaction keep the invariant.
LEMMA ClientStep ==
    ASSUME IInv, NEW t \in Clients, ClientCalls(t) \/ Client(t)
    PROVE  IInv'
<1>0. /\ pc \in [Threads -> Labels] /\ Places
      /\ t \in Threads /\ t \in Callers
      /\ t \notin {"writer", "flush", "compact", "destructor"}
  BY ThreadNames DEF IInv, TypeOK, Labels
<1>t. /\ {needed, paused, inProgress, unseen} \subseteq BOOLEAN
      /\ {begun, batches, calls} \subseteq Nat
  BY DEF IInv, TypeOK
<1>1. CASE WaitTest(t) \/ CompactSleep(t) \/ WaitTimeout(t)
  <2>1. /\ UNCHANGED <<flushVars, compactVars, shutdown, boundVars>>
        /\ \E l \in {"idle", "cToSleep", "cAsleep"} : Goto(t, l)
    BY <1>1 DEF WaitTest, CompactSleep, WaitTimeout
  <2>2. /\ pc' \in [Threads -> Labels]
        /\ \A u \in Threads \ {t} : pc'[u] = pc[u]
    BY <1>0, <2>1, GotoMoves DEF Labels
  <2> QED BY <1>0, <2>1, <2>2, QuietStep, ThreadNames DEF Places
<1>2. CASE ClientCalls(t)
  <2>1. /\ calls' = calls + 1 /\ UNCHANGED <<flushVars, shutdown, batches>>
        /\ UNCHANGED <<needed, inProgress, unseen>>
        /\ \/ UNCHANGED pc
           \/ \E l \in {"test", "cTest", "schedule"} : Goto(t, l)
        /\ \/ UNCHANGED <<paused, begun>>
           \/ paused' = TRUE /\ begun' = 0
           \/ paused' = FALSE /\ UNCHANGED begun
    BY <1>2 DEF ClientCalls, FlushCall, WaitCall, PauseCompaction,
       ResumeCompaction, Call, compactVars
  <2>2. /\ pc' \in [Threads -> Labels]
        /\ \A u \in Threads \ {t} : pc'[u] = pc[u]
    BY <1>0, <2>1, GotoMoves DEF Labels
  <2>3. /\ pc'["flush"] = pc["flush"] /\ pc'["compact"] = pc["compact"]
        /\ pc'["writer"] = pc["writer"]
    BY <1>0, <2>2, ThreadNames
  <2>4. TypeOK' /\ FlushHolds' /\ FlushedOnce'
    <3>1. calls' \in Nat /\ begun' \in Nat
      BY <1>t, <2>1
    <3>2. paused' \in BOOLEAN
      BY <1>t, <2>1
    <3> QED BY <1>t, <2>1, <2>2, <2>3, <3>1, <3>2, FlushUntouched
  <2>5. Places'
    BY <1>0, <2>3 DEF Places
  <2>6. PauseSeen' /\ ScheduleKept'
    BY <2>1, <2>3 DEF IInv, PauseSeen, ScheduleKept
  <2> QED BY <2>4, <2>5, <2>6 DEF IInv
<1> QED
  BY <1>0, <1>1, <1>2, CheckFlushStep, ScheduleStep DEF Client

\* The writer thread keeps the invariant.
LEMMA WriterStep == ASSUME IInv, WriterBatch \/ Writer PROVE IInv'
<1>0. pc \in [Threads -> Labels] /\ Places
  BY DEF IInv, TypeOK, Labels
<1>1. CASE WriterExit
  <2>1. /\ UNCHANGED <<flushVars, compactVars, shutdown, boundVars>>
        /\ Goto("writer", "exited")
    BY <1>1 DEF WriterExit
  <2>2. /\ pc' \in [Threads -> Labels] /\ pc'["writer"] = "exited"
        /\ \A u \in Threads \ {"writer"} : pc'[u] = pc[u]
    BY <1>0, <2>1, GotoMoves, ThreadNames DEF Labels
  <2> QED BY <1>0, <2>1, <2>2, QuietStep, ThreadNames DEF Places
<1>2. CASE WriterBatch
  <2>1. /\ batches' = batches + 1 /\ filled' = TRUE
        /\ Goto("writer", "test") \/ UNCHANGED pc
        /\ UNCHANGED <<immutable, pending, handed, built, shutdown, calls>>
        /\ UNCHANGED <<needed, paused, inProgress, unseen, begun>>
    BY <1>2 DEF WriterBatch, compactVars
  <2>2. /\ pc' \in [Threads -> Labels] /\ pc'["writer"] \in {"test", pc["writer"]}
        /\ \A u \in Threads \ {"writer"} : pc'[u] = pc[u]
    BY <1>0, <2>1, GotoMoves, ThreadNames DEF Labels
  <2>3. pc'["flush"] = pc["flush"] /\ pc'["compact"] = pc["compact"]
    BY <2>2, ThreadNames
  <2>4. TypeOK'
    <3>1. {filled, pending, needed, paused, inProgress, shutdown, unseen}'
              \subseteq BOOLEAN
      BY <2>1 DEF IInv, TypeOK
    <3>2. {handed, built, begun, batches, calls}' \subseteq Nat
      BY <2>1 DEF IInv, TypeOK
    <3> QED BY <2>1, <2>2, <3>1, <3>2 DEF IInv, TypeOK, Labels
  <2>5. Places'
    BY <1>0, <2>2, <2>3 DEF Places
  <2>6. FlushHolds' /\ FlushedOnce'
    BY <2>1, <2>3, <2>4 DEF IInv, FlushHolds, Flushing, FlushedOnce
  <2>7. PauseSeen' /\ ScheduleKept'
    BY <2>1, <2>3 DEF IInv, PauseSeen, ScheduleKept
  <2> QED BY <2>4, <2>5, <2>6, <2>7 DEF IInv
<1> QED BY <1>1, <1>2, CheckFlushStep DEF Writer, Callers

\* The destructor keeps the invariant.
LEMMA DestructorStep == ASSUME IInv, Destroy \/ Destructor PROVE IInv'
<1>0. pc \in [Threads -> Labels] /\ Places
  BY DEF IInv, TypeOK, Labels
<1>1. CASE Destroy \/ JoinFlush \/ JoinCompact
  <2>1. /\ UNCHANGED <<flushVars, compactVars, shutdown, boundVars>>
        /\ \E l \in {"joinWriter", "notifyCompact", "done"} : Goto("destructor", l)
    BY <1>1 DEF Destroy, JoinFlush, JoinCompact
  <2>2. /\ pc' \in [Threads -> Labels]
        /\ \A u \in Threads \ {"destructor"} : pc'[u] = pc[u]
    BY <1>0, <2>1, GotoMoves, ThreadNames DEF Labels
  <2> QED BY <1>0, <2>1, <2>2, QuietStep, ThreadNames DEF Places
<1>2. CASE StopFlush
  <2>1. /\ UNCHANGED <<flushVars, compactVars, shutdown, boundVars>>
        /\ pc["destructor"] = "notifyFlush"
        /\ NotifyOne("asleep", "test", "destructor", "joinFlush")
    BY <1>2 DEF StopFlush
  <2>2. Moves("destructor", "joinFlush", "asleep", "test")
    BY <1>0, <2>1, NotifyOneMoves, ThreadNames, ZenonT(60) DEF Labels
  <2> QED BY <1>0, <2>1, <2>2, QuietStep, ThreadNames DEF Places, Moves
<1>3. CASE StopCompact
  <2>1. /\ UNCHANGED <<flushVars, compactVars, shutdown, boundVars>>
        /\ pc["destructor"] = "notifyCompact"
        /\ NotifyOne("cAsleep", "cTest", "destructor", "joinCompact")
    BY <1>3 DEF StopCompact
  <2>2. Moves("destructor", "joinCompact", "cAsleep", "cTest")
    BY <1>0, <2>1, NotifyOneMoves, ThreadNames, ZenonT(60) DEF Labels
  <2> QED BY <1>0, <2>1, <2>2, QuietStep, ThreadNames DEF Places, Moves
<1>4. CASE JoinWriter
  <2>1. /\ shutdown' = TRUE
        /\ UNCHANGED <<filled, immutable, pending, handed, built>>
        /\ UNCHANGED <<needed, paused, inProgress, unseen, begun>>
        /\ UNCHANGED <<batches, calls>>
        /\ Goto("destructor", "notifyFlush")
    BY <1>4 DEF JoinWriter, flushVars, compactVars, boundVars
  <2>2. /\ pc' \in [Threads -> Labels]
        /\ \A u \in Threads \ {"destructor"} : pc'[u] = pc[u]
    BY <1>0, <2>1, GotoMoves, ThreadNames DEF Labels
  <2>3. /\ pc'["flush"] = pc["flush"] /\ pc'["compact"] = pc["compact"]
        /\ pc'["writer"] = pc["writer"]
    BY <2>2, ThreadNames
  <2>4. TypeOK'
    BY <2>1, <2>2 DEF IInv, TypeOK, Labels
  <2>5. Places'
    BY <1>0, <2>3 DEF Places
  <2>6. FlushHolds' /\ FlushedOnce'
    BY <2>1, <2>3, <2>4 DEF IInv, FlushHolds, Flushing, FlushedOnce
  <2>7. PauseSeen' /\ ScheduleKept'
    BY <2>1, <2>3 DEF IInv, PauseSeen, ScheduleKept
  <2> QED BY <2>4, <2>5, <2>6, <2>7 DEF IInv
<1> QED BY <1>1, <1>2, <1>3, <1>4 DEF Destructor

-----------------------------------------------------------------------------
\* The invariant holds of a new engine and every step of every thread keeps
\* it: the flush thread works on one memtable at a time and ends after the
\* last one, whatever the callers of checkFlush do.
THEOREM InvCorrect == Spec => []IInv
<1>1. Init => IInv
  <2> SUFFICES ASSUME Init PROVE IInv
    OBVIOUS
  <2>1. /\ pc \in [Threads -> Labels]
        /\ pc["flush"] = "test" /\ pc["compact"] = "cTest" /\ pc["writer"] = "idle"
    BY ThreadNames DEF Init, Labels
  <2>2. TypeOK
    <3>1. {filled, pending, needed, paused, inProgress, shutdown, unseen}
              \subseteq BOOLEAN
      BY DEF Init
    <3>2. {handed, built, begun, batches, calls} \subseteq Nat
      BY DEF Init
    <3>3. immutable = "none" /\ ~pending
      BY DEF Init
    <3> QED BY <2>1, <3>1, <3>2, <3>3 DEF TypeOK, Labels
  <2> QED BY <2>1, <2>2
          DEF Init, IInv, Places, FlushHolds, Flushing, FlushedOnce, PauseSeen,
              ScheduleKept, TypeOK
<1>2. IInv /\ [Next]_vars => IInv'
  <2> SUFFICES ASSUME IInv, [Next]_vars PROVE IInv'
    OBVIOUS
  <2>1. CASE UNCHANGED vars
    <3>1. /\ UNCHANGED <<pc, flushVars, compactVars, shutdown, boundVars>>
          /\ pc \in [Threads -> Labels] /\ Places
      BY <2>1 DEF vars, IInv, TypeOK, Labels
    <3> QED BY <3>1, QuietStep DEF Places
  <2> QED
    BY <2>1, WriterStep, FlushThreadStep, CompactionThreadStep, ClientStep,
       DestructorStep DEF Next
<1> QED BY <1>1, <1>2, PTL DEF Spec

\* Every memtable handed over by checkFlush becomes a table exactly once and
\* none is left when flushThreadLoop has ended.
THEOREM FlushedOnceCorrect == Spec => []FlushedOnce
<1>1. IInv => FlushedOnce
  BY DEF IInv
<1> QED BY <1>1, InvCorrect, PTL

\* A new table is announced to compactionThreadLoop until a compaction looks
\* at it, and after pauseCompaction at most one more compaction begins.
THEOREM ScheduleKeptCorrect == Spec => []ScheduleKept
<1>1. IInv => ScheduleKept
  BY DEF IInv
<1> QED BY <1>1, InvCorrect, PTL
=============================================================================
