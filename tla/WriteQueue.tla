----------------------------- MODULE WriteQueue -----------------------------
(***************************************************************************)
(* The queue between the threads that call put() or del() and the writer   *)
(* thread (engine/src/write_queue.cpp), with the writer's use of it        *)
(* (writerThreadLoop in engine/src/engine.cpp) and its shutdown.           *)
(*                                                                         *)
(* mutex_ is never held across a step: what a thread does while it holds   *)
(* it is one step, and so is each notification sent without it.  A request *)
(* is known by its thread and its number; what became of its promise is in *)
(* outcome.                                                                *)
(***************************************************************************)
EXTENDS Integers, Sequences, FiniteSets

CONSTANTS
    Producers,      \* threads that call push()
    MaxSize,        \* max_size_ (10000)
    MaxBatch,       \* max_batch_size (1000)
    YieldBelow,     \* max_batch_size / 10 (100)
    MaxPushes,      \* bound: calls of push() per thread
    MaxThrows       \* bound: exceptions in the writer's try block

ASSUME QueueAssumption ==
    /\ {MaxSize, MaxBatch} \subseteq Nat \ {0}
    /\ {YieldBelow, MaxPushes, MaxThrows} \subseteq Nat

VARIABLES
    queue,          \* queue_
    shutdown,       \* shutdown_
    prod,           \* each producer: where it is in push(), its request number
    cons,           \* where the writer thread is
    batch,          \* the batch it has popped
    applied,        \* how many requests of it are in results
    failed,         \* its try block threw
    answered,       \* how many of its promises are set
    closer,         \* where the thread that calls shutdown() is
    outcome,        \* the promise of each request
    accepted,       \* ghost: the requests that were queued, in order
    settled,        \* ghost: the requests of the batches done with, in order
    throws

queueVars == <<queue, shutdown, prod, cons, batch, applied, failed, answered,
               closer, outcome, accepted, settled, throws>>

writerVars == <<batch, applied, failed, answered>>

Requests == Producers \X (1..MaxPushes)

QueueInit ==
    /\ queue = <<>> /\ shutdown = FALSE
    /\ prod = [p \in Producers |-> [pc |-> "idle", n |-> 0]]
    /\ cons = "test" /\ batch = <<>> /\ applied = 0 /\ failed = FALSE
    /\ answered = 0 /\ closer = "idle"
    /\ outcome = [r \in Requests |-> "none"]
    /\ accepted = <<>> /\ settled = <<>> /\ throws = 0

-----------------------------------------------------------------------------
(* push() *)
Request(p) == <<p, prod[p].n>>

PushCall(p) ==
    /\ prod[p].pc = "idle" /\ prod[p].n < MaxPushes
    /\ prod' = [prod EXCEPT ![p] = [pc |-> "test", n |-> @.n + 1]]
    /\ UNCHANGED <<queue, shutdown, cons, writerVars, closer, outcome, accepted,
                   settled, throws>>

\* The wait on not_full_cv_: test and sleep are one step, under mutex_.
PushWait(p) ==
    /\ prod[p].pc = "test" /\ ~shutdown
    /\ Len(queue) >= MaxSize
    /\ prod' = [prod EXCEPT ![p].pc = "asleep"]
    /\ UNCHANGED <<queue, shutdown, cons, writerVars, closer, outcome, accepted,
                   settled, throws>>

PushRefuse(p) ==
    /\ prod[p].pc = "test" /\ shutdown
    /\ outcome' = [outcome EXCEPT ![Request(p)] = "false"]
    /\ prod' = [prod EXCEPT ![p].pc = "idle"]
    /\ UNCHANGED <<queue, shutdown, cons, writerVars, closer, accepted, settled,
                   throws>>

PushAcceptLate(p) ==        \* mutant: shutdown_ is not tested after the wait
    /\ prod[p].pc = "test"
    /\ shutdown \/ Len(queue) < MaxSize
    /\ queue' = Append(queue, Request(p))
    /\ accepted' = Append(accepted, Request(p))
    /\ prod' = [prod EXCEPT ![p].pc = "notify"]
    /\ UNCHANGED <<shutdown, cons, writerVars, closer, outcome, settled, throws>>
PushAcceptFull(p) ==        \* mutant: not_full_cv_ without its predicate
    /\ prod[p].pc = "test" /\ ~shutdown
    /\ Len(queue) <= MaxSize
    /\ queue' = Append(queue, Request(p))
    /\ accepted' = Append(accepted, Request(p))
    /\ prod' = [prod EXCEPT ![p].pc = "notify"]
    /\ UNCHANGED <<shutdown, cons, writerVars, closer, outcome, settled, throws>>
PushAccept(p) ==
    /\ prod[p].pc = "test" /\ ~shutdown
    /\ Len(queue) < MaxSize
    /\ queue' = Append(queue, Request(p))
    /\ accepted' = Append(accepted, Request(p))
    /\ prod' = [prod EXCEPT ![p].pc = "notify"]
    /\ UNCHANGED <<shutdown, cons, writerVars, closer, outcome, settled, throws>>

\* not_empty_cv_.notify_one(), after mutex_ is released; only the writer waits
\* on it.
Woken == IF cons = "asleep" THEN "test" ELSE cons

PushNotifyNone(p) ==        \* mutant: no notification
    /\ prod[p].pc = "notify"
    /\ prod' = [prod EXCEPT ![p].pc = "idle"]
    /\ UNCHANGED <<queue, shutdown, cons, writerVars, closer, outcome, accepted,
                   settled, throws>>
PushNotify(p) ==
    /\ prod[p].pc = "notify"
    /\ cons' = Woken
    /\ prod' = [prod EXCEPT ![p].pc = "idle"]
    /\ UNCHANGED <<queue, shutdown, writerVars, closer, outcome, accepted,
                   settled, throws>>

-----------------------------------------------------------------------------
(* popBatch() *)
PopWait ==
    /\ cons = "test" /\ queue = <<>> /\ ~shutdown
    /\ cons' = "asleep"
    /\ UNCHANGED <<queue, shutdown, prod, writerVars, closer, outcome, accepted,
                   settled, throws>>

\* An empty batch ends writerThreadLoop.
PopExit ==
    /\ cons = "test" /\ queue = <<>> /\ shutdown
    /\ cons' = "exited"
    /\ UNCHANGED <<queue, shutdown, prod, writerVars, closer, outcome, accepted,
                   settled, throws>>

\* With few requests queued mutex_ is released for a moment.
PopYield ==
    /\ cons = "test" /\ queue # <<>> /\ Len(queue) < YieldBelow
    /\ cons' = "yield"
    /\ UNCHANGED <<queue, shutdown, prod, writerVars, closer, outcome, accepted,
                   settled, throws>>

Sleepers == {p \in Producers : prod[p].pc = "asleep"}

\* not_full_cv_: notify_all after several requests, notify_one after one.
WakeProducers(n) ==
    \E woken \in SUBSET Sleepers :
        /\ Cardinality(woken) = IF n > 1 \/ Sleepers = {} THEN Cardinality(Sleepers)
                                                         ELSE 1
        /\ prod' = [p \in Producers |-> IF p \in woken
                                        THEN [prod[p] EXCEPT !.pc = "test"]
                                        ELSE prod[p]]

BatchSize == IF Len(queue) < MaxBatch THEN Len(queue) ELSE MaxBatch

PopTakeAll ==           \* mutant: the queue is cleared after the batch
    /\ \/ cons = "yield"
       \/ cons = "test" /\ queue # <<>> /\ Len(queue) >= YieldBelow
    /\ batch' = SubSeq(queue, 1, BatchSize)
    /\ queue' = <<>>
    /\ WakeProducers(BatchSize)
    /\ cons' = "apply" /\ applied' = 0 /\ failed' = FALSE /\ answered' = 0
    /\ UNCHANGED <<shutdown, closer, outcome, accepted, settled, throws>>
PopTake ==
    /\ \/ cons = "yield"
       \/ cons = "test" /\ queue # <<>> /\ Len(queue) >= YieldBelow
    /\ batch' = SubSeq(queue, 1, BatchSize)
    /\ queue' = SubSeq(queue, BatchSize + 1, Len(queue))
    /\ WakeProducers(BatchSize)
    /\ cons' = "apply" /\ applied' = 0 /\ failed' = FALSE /\ answered' = 0
    /\ UNCHANGED <<shutdown, closer, outcome, accepted, settled, throws>>

-----------------------------------------------------------------------------
(* writerThreadLoop: apply every request, then set the promises of those   *)
(* that are in results; an exception skips the requests that are left.     *)
WriterApply ==
    /\ cons = "apply" /\ applied < Len(batch)
    /\ applied' = applied + 1
    /\ UNCHANGED <<queue, shutdown, prod, cons, batch, failed, answered, closer,
                   outcome, accepted, settled, throws>>

WriterFlush ==
    /\ cons = "apply" /\ applied = Len(batch)
    /\ cons' = "answer"
    /\ UNCHANGED <<queue, shutdown, prod, writerVars, closer, outcome, accepted,
                   settled, throws>>

WriterThrow ==
    /\ cons = "apply" /\ throws < MaxThrows
    /\ throws' = throws + 1
    /\ failed' = TRUE /\ cons' = "answer"
    /\ UNCHANGED <<queue, shutdown, prod, batch, applied, answered, closer,
                   outcome, accepted, settled>>

WriterAnswer ==
    /\ cons = "answer" /\ answered < applied
    /\ answered' = answered + 1
    /\ outcome' = [outcome EXCEPT ![batch[answered + 1]] =
                       IF failed THEN "false" ELSE "true"]
    /\ UNCHANGED <<queue, shutdown, prod, cons, batch, applied, failed, closer,
                   accepted, settled, throws>>

Unanswered == {batch[i] : i \in (answered + 1)..Len(batch)}

\* The batch goes out of scope: a promise that was never set is broken, and
\* the future of its caller throws.
WriterDoneSilent ==     \* mutant: promises that are not in results are kept
    /\ cons = "answer" /\ answered = applied
    /\ settled' = settled \o batch
    /\ batch' = <<>> /\ applied' = 0 /\ answered' = 0 /\ failed' = FALSE
    /\ cons' = "test"
    /\ UNCHANGED <<queue, shutdown, prod, closer, outcome, accepted, throws>>
WriterDone ==
    /\ cons = "answer" /\ answered = applied
    /\ outcome' = [r \in Requests |-> IF r \in Unanswered THEN "broken"
                                                          ELSE outcome[r]]
    /\ settled' = settled \o batch
    /\ batch' = <<>> /\ applied' = 0 /\ answered' = 0 /\ failed' = FALSE
    /\ cons' = "test"
    /\ UNCHANGED <<queue, shutdown, prod, closer, accepted, throws>>

-----------------------------------------------------------------------------
(* shutdown(), called once by the engine's destructor *)
Shutdown ==
    /\ closer = "idle"
    /\ shutdown' = TRUE /\ closer' = "notEmpty"
    /\ UNCHANGED <<queue, prod, cons, writerVars, outcome, accepted, settled,
                   throws>>

ShutdownNotEmpty ==
    /\ closer = "notEmpty"
    /\ cons' = Woken /\ closer' = "notFull"
    /\ UNCHANGED <<queue, shutdown, prod, writerVars, outcome, accepted, settled,
                   throws>>

ShutdownNotFull ==
    /\ closer = "notFull"
    /\ prod' = [p \in Producers |-> IF p \in Sleepers
                                    THEN [prod[p] EXCEPT !.pc = "test"]
                                    ELSE prod[p]]
    /\ closer' = "done"
    /\ UNCHANGED <<queue, shutdown, cons, writerVars, outcome, accepted, settled,
                   throws>>

-----------------------------------------------------------------------------
Push(p) ==
    PushWait(p) \/ PushRefuse(p) \/ PushAccept(p) \/ PushNotify(p)

Writer ==
    \/ PopWait \/ PopExit \/ PopYield \/ PopTake
    \/ WriterApply \/ WriterFlush \/ WriterThrow \/ WriterAnswer \/ WriterDone

Closer == ShutdownNotEmpty \/ ShutdownNotFull

QueueNext ==
    \/ \E p \in Producers : PushCall(p) \/ Push(p)
    \/ Writer \/ Shutdown \/ Closer

QueueSpec == QueueInit /\ [][QueueNext]_queueVars

\* Threads that can run do; nobody has to call push() or shutdown().
QueueFairSpec ==
    /\ QueueSpec
    /\ \A p \in Producers : WF_queueVars(Push(p))
    /\ WF_queueVars(Writer) /\ WF_queueVars(Closer)

-----------------------------------------------------------------------------
QueueTypeOK ==
    /\ queue \in Seq(Requests) /\ batch \in Seq(Requests)
    /\ accepted \in Seq(Requests) /\ settled \in Seq(Requests)
    /\ shutdown \in BOOLEAN /\ failed \in BOOLEAN
    /\ prod \in [Producers -> [pc : {"idle", "test", "asleep", "notify"},
                               n : 0..MaxPushes]]
    /\ cons \in {"test", "asleep", "yield", "apply", "answer", "exited"}
    /\ applied \in 0..Len(batch) /\ answered \in 0..applied /\ throws \in 0..MaxThrows
    /\ closer \in {"idle", "notEmpty", "notFull", "done"}
    /\ outcome \in [Requests -> {"none", "true", "false", "broken"}]

\* Requests leave the queue in the order in which they were queued, and none is
\* dropped or repeated on the way through popBatch and writerThreadLoop.
InOrder == accepted = settled \o batch \o queue

\* The queue never exceeds max_size_, however many producers are woken at once.
Bounded == Len(queue) <= MaxSize

\* The writer thread ends with nothing queued, and nothing is queued after it
\* has ended (push against shutdown, popBatch against both).
ExitDrained == cons = "exited" => queue = <<>>

\* A promise is set by the writer exactly when its request has been through the
\* writer, and never twice: what is still queued has no outcome yet.
AnsweredOnce ==
    /\ \A i \in DOMAIN queue : outcome[queue[i]] = "none"
    /\ \A i \in DOMAIN settled : outcome[settled[i]] # "none"
    /\ \A i \in DOMAIN batch : outcome[batch[i]] = "none" <=> i > answered

\* Every future gets a value or an exception, whatever the shutdown and an
\* exception in the writer interrupt: no caller of put() waits for ever.
EveryCallAnswered ==
    \A r \in Requests :
        (prod[r[1]].n >= r[2]) ~> (outcome[r] # "none")

=============================================================================
