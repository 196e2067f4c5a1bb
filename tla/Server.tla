------------------------------- MODULE Server -------------------------------
(***************************************************************************)
(* The life of a server process (server/src/tcp_server.cpp, main.cpp): the *)
(* accept loop in the main thread, the thread pool that serves the         *)
(* connections, and shutdown(), which the signal handler runs on top of    *)
(* whatever the main thread is doing.  Of the replication layer there are  *)
(* the threads stop() has to join: the apply thread of a leader or         *)
(* follower and the listener of a follower (distributed/replication).      *)
(*                                                                         *)
(* What a session does is in Connection, what is replicated in Replication.*)
(* A process-directed signal goes to the main thread, which never blocks   *)
(* it: the kernel prefers that thread.                                     *)
(***************************************************************************)
EXTENDS Integers, Sequences, FiniteSets

CONSTANTS
    Roles,          \* configurations: "standalone", "leader", "follower"
    Workers,        \* the pool's threads
    Conns,          \* client connections, each made at most once
    MaxConnections, \* config_.max_connections
    None

ASSUME ServerAssumption ==
    /\ Roles \subseteq {"standalone", "leader", "follower"}
    /\ IsFiniteSet(Conns) /\ None \notin Conns
    /\ MaxConnections \in Nat

VARIABLES
    role,           \* config_.role
    main,           \* the main thread: where it is in run() and acceptLoop()
    fd,             \* the connection acceptLoop has accepted
    stop,           \* where the signal handler is in shutdown()
    running,        \* running_
    listening,      \* server_fd_ is open
    conns,          \* what has become of each connection
    active,         \* active_connections_
    tasks,          \* tasks_
    poolDown,       \* shutdown_ of the pool
    worker,         \* each thread of the pool
    serving,        \* the connection each of them serves
    replDown,       \* shutdown_ of the leader or follower
    apply,          \* its apply thread
    listener        \* the follower's listener thread

mainVars == <<main, fd>>
poolVars == <<tasks, poolDown, worker, serving>>
replVars == <<replDown, apply, listener>>

vars == <<role, mainVars, stop, running, listening, conns, active, poolVars,
          replVars>>

Init ==
    /\ role \in Roles
    /\ main = "start" /\ fd = None /\ stop = "none"
    /\ running = FALSE /\ listening = FALSE
    /\ conns = [c \in Conns |-> "none"] /\ active = 0
    /\ tasks = <<>> /\ poolDown = FALSE
    /\ worker = [w \in Workers |-> "test"]
    /\ serving = [w \in Workers |-> None]
    /\ replDown = FALSE /\ apply = "none" /\ listener = "none"

\* The handler is on top of the main thread.
InHandler == stop \notin {"none", "ignored", "returned"}

\* mutex_ of the pool.  Only submit() is cut open while it is held.
MutexFree == main # "locked"

-----------------------------------------------------------------------------
(* run() and, when it has returned, ~TcpServer *)
RunListen ==
    /\ main = "start"
    /\ main' = "starting" /\ listening' = TRUE /\ running' = TRUE
    /\ UNCHANGED replVars

\* leader_->start, follower_->start
RunStart ==
    /\ main = "starting"
    /\ main' = "loop"
    /\ apply' = IF role = "standalone" THEN "none" ELSE "test"
    /\ listener' = IF role = "follower" THEN "accept" ELSE "none"
    /\ UNCHANGED <<running, listening, replDown>>

\* shutdown() again, to no effect, then the members are destroyed, of which the
\* leader or follower stops again; the engine is the last.
Leave ==
    /\ main = "leaving"
    /\ main' = "joining"
    /\ replDown' = TRUE
    /\ apply' = IF apply = "asleep" THEN "test" ELSE apply
    /\ UNCHANGED <<running, listening, listener>>

Exit ==
    /\ main = "joining"
    /\ apply \in {"none", "ended"} /\ listener \in {"none", "ended"}
    /\ main' = "exited"
    /\ UNCHANGED <<running, listening, replVars>>

Run ==
    /\ ~InHandler
    /\ RunListen \/ RunStart \/ Leave \/ Exit
    /\ UNCHANGED <<role, fd, stop, conns, active, poolVars>>

-----------------------------------------------------------------------------
(* acceptLoop *)
Loop ==
    /\ main = "loop"
    /\ main' = IF running THEN "accept" ELSE "leaving"
    /\ UNCHANGED <<fd, conns, active, tasks, worker>>

Accept(c) ==
    /\ main = "accept" /\ listening /\ conns[c] = "pending"
    /\ main' = "accepted" /\ fd' = c
    /\ conns' = [conns EXCEPT ![c] = "accepted"]
    /\ UNCHANGED <<active, tasks, worker>>

\* Timeout, interruption, or the socket is closed.
AcceptNone ==
    /\ main = "accept"
    /\ main' = "loop"
    /\ UNCHANGED <<fd, conns, active, tasks, worker>>

\* The limit is tested, and the connection counted, in two steps; workers count
\* theirs off in between.
AdmitOneMore ==             \* mutant: > for >=
    /\ main = "accepted"
    /\ IF active > MaxConnections
       THEN /\ main' = "loop" /\ fd' = None
            /\ conns' = [conns EXCEPT ![fd] = "refused"]
       ELSE /\ main' = "admitted"
            /\ UNCHANGED <<fd, conns>>
    /\ UNCHANGED <<active, tasks, worker>>
Admit ==
    /\ main = "accepted"
    /\ IF active >= MaxConnections
       THEN /\ main' = "loop" /\ fd' = None
            /\ conns' = [conns EXCEPT ![fd] = "refused"]
       ELSE /\ main' = "admitted"
            /\ UNCHANGED <<fd, conns>>
    /\ UNCHANGED <<active, tasks, worker>>

Count ==
    /\ main = "admitted"
    /\ main' = "submit" /\ active' = active + 1
    /\ UNCHANGED <<fd, conns, tasks, worker>>

\* ThreadPool::submit.  A connection the pool refuses is never closed and
\* stays counted.
SubmitLock ==
    /\ main = "submit"
    /\ main' = "locked"
    /\ UNCHANGED <<fd, conns, active, tasks, worker>>

SubmitPush ==
    /\ main = "locked"
    /\ main' = IF poolDown THEN "loop" ELSE "notify"
    /\ tasks' = IF poolDown THEN tasks ELSE Append(tasks, fd)
    /\ conns' = [conns EXCEPT ![fd] = IF poolDown THEN "dropped" ELSE "queued"]
    /\ fd' = None
    /\ UNCHANGED <<active, worker>>

Sleepers == {w \in Workers : worker[w] = "asleep"}

SubmitNotifyNone ==         \* mutant: no notification
    /\ main = "notify"
    /\ main' = "loop"
    /\ UNCHANGED <<fd, conns, active, tasks, worker>>
SubmitNotify ==
    /\ main = "notify"
    /\ main' = "loop"
    /\ \/ Sleepers = {} /\ UNCHANGED worker
       \/ \E w \in Sleepers : worker' = [worker EXCEPT ![w] = "test"]
    /\ UNCHANGED <<fd, conns, active, tasks>>

AcceptLoop ==
    /\ ~InHandler
    /\ \/ Loop \/ (\E c \in Conns : Accept(c)) \/ AcceptNone \/ Admit \/ Count
       \/ SubmitLock \/ SubmitPush \/ SubmitNotify
    /\ UNCHANGED <<role, stop, running, listening, poolDown, serving, replVars>>

-----------------------------------------------------------------------------
(* workerLoop, and the task acceptLoop submits *)
Take(w) ==
    /\ tasks # <<>>
    /\ worker' = [worker EXCEPT ![w] = "serve"]
    /\ serving' = [serving EXCEPT ![w] = Head(tasks)]
    /\ conns' = [conns EXCEPT ![Head(tasks)] = "served"]
    /\ tasks' = Tail(tasks)

WorkerTestNoDrain(w) ==     \* mutant: shutdown_ alone ends a worker
    /\ worker[w] = "test" /\ MutexFree
    /\ \/ ~poolDown /\ Take(w)
       \/ /\ poolDown \/ tasks = <<>>
          /\ worker' = [worker EXCEPT ![w] = IF poolDown THEN "ended" ELSE "asleep"]
          /\ UNCHANGED <<tasks, serving, conns>>
    /\ UNCHANGED active
WorkerTest(w) ==
    /\ worker[w] = "test" /\ MutexFree
    /\ \/ Take(w)
       \/ /\ tasks = <<>>
          /\ worker' = [worker EXCEPT ![w] = IF poolDown THEN "ended" ELSE "asleep"]
          /\ UNCHANGED <<tasks, serving, conns>>
    /\ UNCHANGED active

\* The session ends: its client quits, goes, or sends nothing for 30 seconds.
EndSession(w) ==
    /\ worker[w] = "serve"
    /\ worker' = [worker EXCEPT ![w] = "close"]
    /\ UNCHANGED <<conns, active, tasks, serving>>

\* close(client_fd), then active_connections_--
Close(w) ==
    /\ worker[w] = "close"
    /\ worker' = [worker EXCEPT ![w] = "closed"]
    /\ conns' = [conns EXCEPT ![serving[w]] = "closed"]
    /\ UNCHANGED <<active, tasks, serving>>

CountOff(w) ==
    /\ worker[w] = "closed"
    /\ worker' = [worker EXCEPT ![w] = "test"]
    /\ serving' = [serving EXCEPT ![w] = None]
    /\ active' = active - 1
    /\ UNCHANGED <<conns, tasks>>

otherThanPool == <<role, mainVars, stop, running, listening, poolDown, replVars>>

PoolThread(w) ==
    (WorkerTest(w) \/ Close(w) \/ CountOff(w)) /\ UNCHANGED otherThanPool

ClientEnds(w) == EndSession(w) /\ UNCHANGED otherThanPool

-----------------------------------------------------------------------------
(* signalHandler and TcpServer::shutdown.  Before running_ is set a signal *)
(* is swallowed; a second one finds it cleared.                            *)
Signal ==
    /\ main # "exited" /\ stop \in {"none", "ignored"}
    /\ stop' = IF running THEN "stopping" ELSE "ignored"
    /\ running' = FALSE
    /\ UNCHANGED <<role, mainVars, listening, conns, active, poolVars, replVars>>

\* Leader::stop and Follower::stop set shutdown_ and notify without log_mutex_.
StopRepl ==
    /\ stop = "stopping"
    /\ stop' = "join"
    /\ replDown' = TRUE
    /\ apply' = IF apply = "asleep" THEN "test" ELSE apply
    /\ UNCHANGED <<listening, conns, poolDown, worker>>

\* The threads are joined, those start() has made, and server_fd_ is closed.
StopJoinRepl ==
    /\ stop = "join"
    /\ apply \in {"none", "ended"} /\ listener \in {"none", "ended"}
    /\ stop' = "pool" /\ listening' = FALSE
    /\ conns' = [c \in Conns |-> IF conns[c] = "pending" THEN "refused" ELSE conns[c]]
    /\ UNCHANGED <<poolDown, worker, replDown, apply>>

\* ThreadPool::shutdown needs mutex_, which its own thread may hold.
StopPoolQuiet ==            \* mutant: no notification
    /\ stop = "pool" /\ MutexFree
    /\ stop' = "joinPool" /\ poolDown' = TRUE
    /\ UNCHANGED <<listening, conns, worker, replDown, apply>>
StopPool ==
    /\ stop = "pool" /\ MutexFree
    /\ stop' = "joinPool" /\ poolDown' = TRUE
    /\ worker' = [w \in Workers |-> IF w \in Sleepers THEN "test" ELSE worker[w]]
    /\ UNCHANGED <<listening, conns, replDown, apply>>

StopJoinPool ==
    /\ stop = "joinPool" /\ \A w \in Workers : worker[w] = "ended"
    /\ stop' = "returned"
    /\ UNCHANGED <<listening, conns, poolDown, worker, replDown, apply>>

Shutdown ==
    /\ StopRepl \/ StopJoinRepl \/ StopPool \/ StopJoinPool
    /\ UNCHANGED <<role, mainVars, running, active, tasks, serving, listener>>

-----------------------------------------------------------------------------
(* The apply thread: the test of its wait, then the sleep.  It holds       *)
(* log_mutex_ from one to the other, which stop() does not take.           *)
ApplyTest ==
    /\ apply = "test"
    /\ apply' = IF replDown THEN "ended" ELSE "toSleep"
    /\ UNCHANGED listener

ApplySleep == apply = "toSleep" /\ apply' = "asleep" /\ UNCHANGED listener

\* There is an entry to apply: from a client of the leader, or from the leader.
Entry ==
    /\ apply = "asleep"
    /\ \/ role = "leader" /\ \E w \in Workers : worker[w] = "serve"
       \/ listener = "recv"
    /\ apply' = "test"
    /\ UNCHANGED listener

\* The listener.  stop() closes its socket, which ends accept(); nothing ends
\* recv() but the leader, who closes the connection or, after stop(), sends.
ListenerAccept ==
    /\ listener = "accept" /\ ~replDown
    /\ listener' = "recv" /\ UNCHANGED apply

ListenerWake == listener = "recv" /\ listener' = "accept" /\ UNCHANGED apply

ListenerEnd ==
    /\ listener = "accept" /\ replDown
    /\ listener' = "ended" /\ UNCHANGED apply

otherThanRepl == <<role, mainVars, stop, running, listening, conns, active,
                   poolVars, replDown>>

ReplThreads ==
    (ApplyTest \/ ApplySleep \/ ListenerEnd) /\ UNCHANGED otherThanRepl

PeerActs ==
    (Entry \/ ListenerAccept \/ ListenerWake) /\ UNCHANGED otherThanRepl

-----------------------------------------------------------------------------
Connect(c) ==
    /\ conns[c] = "none" /\ listening
    /\ conns' = [conns EXCEPT ![c] = "pending"]
    /\ UNCHANGED <<role, mainVars, stop, running, listening, active, poolVars,
                   replVars>>

Next ==
    \/ Run \/ AcceptLoop \/ Signal \/ Shutdown
    \/ \E w \in Workers : PoolThread(w) \/ ClientEnds(w)
    \/ ReplThreads \/ PeerActs
    \/ \E c \in Conns : Connect(c)

\* The threads run.  That a client or the leader ever does anything, and that a
\* signal comes, is not assumed.
Spec ==
    /\ Init /\ [][Next]_vars
    /\ WF_vars(Run \/ AcceptLoop) /\ WF_vars(Shutdown)
    /\ \A w \in Workers : WF_vars(PoolThread(w))
    /\ WF_vars(ReplThreads)

-----------------------------------------------------------------------------
TypeOK ==
    /\ role \in Roles /\ fd \in Conns \cup {None}
    /\ {running, listening, poolDown, replDown} \subseteq BOOLEAN
    /\ active \in Nat /\ tasks \in Seq(Conns)
    /\ serving \in [Workers -> Conns \cup {None}]
    /\ apply \in {"none", "test", "toSleep", "asleep", "ended"}
    /\ listener \in {"none", "accept", "recv", "ended"}

\* active_connections_ counts the connections that were admitted and are not
\* counted off, queued ones and dropped ones too and one that is just closed, and
\* stays within the limit although it is tested before it is counted up, with
\* workers at it in between (acceptLoop, the task it submits).  No more sockets
\* than that are open to clients.
Admitted(c) ==
    \/ conns[c] \in {"queued", "served", "dropped"}
    \/ c = fd /\ main \in {"submit", "locked"}
    \/ \E w \in Workers : worker[w] = "closed" /\ serving[w] = c

LimitKept ==
    /\ TypeOK
    /\ active = Cardinality({c \in Conns : Admitted(c)})
    /\ active <= MaxConnections

\* When shutdown() has returned every connection that reached the pool has
\* been served to its end, those that were still in its queue included; at
\* most the one acceptLoop had in its hands is dropped.  The engine is
\* destroyed, with the server, only when no session uses it (workerLoop,
\* shutdown, ~TcpServer).
ShutdownDrains ==
    /\ stop = "returned" =>
           /\ tasks = <<>>
           /\ \A c \in Conns : conns[c] \notin {"queued", "served"}
           /\ Cardinality({c \in Conns : conns[c] = "dropped"}) <= 1
    /\ main \in {"joining", "exited"} => \A w \in Workers : worker[w] = "ended"

\* The three ways in which shutdown() hangs.  The signal came while the main
\* thread was inside submit(); stop() and the apply thread's wait have crossed,
\* and its notification is missed; the leader keeps its connection.
Hung ==
    \/ stop = "pool" /\ main = "locked"
    \/ stop = "join" /\ apply \in {"toSleep", "asleep"}
    \/ stop = "join" /\ listener = "recv"

\* Every session ends some time, and shutdown() is not left hanging.
Unhindered ==
    (\A w \in Workers : []<>(worker[w] # "serve")) /\ []<>~Hung

\* Then a connection in the pool's queue is served, whatever the order of
\* submissions, sleeps and shutdown (submit, workerLoop).
QueuedServed ==
    Unhindered => \A c \in Conns : (conns[c] = "queued") ~> (conns[c] = "closed")

\* And a signal that finds the server running ends the process: nothing but the
\* three ways above, or a client that stays, holds shutdown() up.
SignalEnds == Unhindered => (InHandler ~> (main = "exited"))
=============================================================================
