---------------------------- MODULE ServerProofs ----------------------------
(* Theorems about Server, for any pool, any set of connections and any     *)
(* limit, and about Connection, the session a worker of the pool serves,   *)
(* for any lines, any chunks and any limit of the buffer.                  *)
EXTENDS Server, Connection, SequenceTheorems, FiniteSetTheorems,
        WellFoundedInduction, TLAPS

\* The values of the variables TypeOK leaves open.
Places ==
    /\ conns \in [Conns -> {"none", "pending", "accepted", "refused", "queued",
                            "served", "dropped", "closed"}]
    /\ worker \in [Workers -> {"test", "asleep", "serve", "close", "closed", "ended"}]
    /\ main \in {"start", "starting", "loop", "accept", "accepted", "admitted",
                 "submit", "locked", "notify", "leaving", "joining", "exited"}
    /\ stop \in {"none", "ignored", "stopping", "join", "pool", "joinPool",
                 "returned"}

\* Between accept() and the push of submit() the main thread has a connection
\* in its hands that nobody else knows of.
InHand ==
    main \in {"accepted", "admitted", "submit", "locked"} =>
        fd \in Conns /\ conns[fd] = "accepted"

\* tasks_ holds every queued connection, once.
Queue ==
    /\ \A i \in DOMAIN tasks : conns[tasks[i]] = "queued"
    /\ \A i, j \in DOMAIN tasks : tasks[i] = tasks[j] => i = j
    /\ \A c \in Conns : conns[c] = "queued" => \E i \in DOMAIN tasks : tasks[i] = c

\* A thread of the pool is busy with one connection and no other thread is,
\* until it has counted off what it has closed.
Busy(w) == worker[w] \in {"serve", "close", "closed"}
Sessions ==
    /\ \A w \in Workers : Busy(w) =>
           /\ serving[w] \in Conns
           /\ conns[serving[w]] = IF worker[w] = "closed" THEN "closed" ELSE "served"
    /\ \A w \in Workers : ~Busy(w) => serving[w] = None
    /\ \A w, v \in Workers : Busy(w) /\ serving[w] = serving[v] => w = v
    /\ \A c \in Conns : conns[c] = "served" => \E w \in Workers : serving[w] = c

\* The connections the counter counts.
Counted == {c \in Conns : Admitted(c)}

\* What the main thread has tested is still true when it counts up: nobody else
\* counts up in between.
Room == main = "admitted" => active + 1 <= MaxConnections

ConnInv ==
    /\ TypeOK
    /\ Places
    /\ InHand
    /\ Queue
    /\ Sessions
    /\ active = Cardinality(Counted) /\ active <= MaxConnections
    /\ Room

\* How far shutdown() is tells where everybody else can be: running_ is
\* cleared by the signal that starts it, the pool goes down near its end, a
\* worker ends when it finds the pool down and the queue empty, and run()
\* returns only after shutdown() has.
Stopping ==
    /\ main = "start" => ~running
    /\ main # "start" /\ stop \in {"none", "ignored"} => running
    /\ stop \notin {"none", "ignored"} => ~running /\ main # "start"
    /\ poolDown => stop \in {"joinPool", "returned"}
    /\ main \in {"leaving", "joining", "exited"} => stop = "returned"
    /\ stop = "returned" => \A w \in Workers : worker[w] = "ended"
    /\ \A w \in Workers : worker[w] = "ended" => poolDown /\ tasks = <<>>

\* submit() drops a connection only after shutdown() has returned, and the main
\* thread is then on its way out.
Dropped ==
    /\ \A c \in Conns : conns[c] = "dropped" =>
           poolDown /\ main \in {"loop", "leaving", "joining", "exited"}
    /\ \A c, d \in Conns : conns[c] = "dropped" /\ conns[d] = "dropped" => c = d

IInv == ConnInv /\ Stopping /\ Dropped
-----------------------------------------------------------------------------
\* active_connections_ as a count: one more, one less.
LEMMA CountedFinite ==
    /\ IsFiniteSet(Counted) /\ Cardinality(Counted) \in Nat
    /\ IsFiniteSet(Counted') /\ Cardinality(Counted') \in Nat
<1>1. IsFiniteSet(Conns) /\ Counted \subseteq Conns /\ Counted' \subseteq Conns
  BY ServerAssumption DEF Counted
<1>2. IsFiniteSet(Counted) /\ IsFiniteSet(Counted')
  BY <1>1, FS_Subset
<1> QED BY <1>2, FS_CardinalityType

\* acceptLoop counts a connection that was not counted.
LEMMA CountOneMore ==
    ASSUME NEW c \in Conns, c \notin Counted, Counted' = Counted \cup {c}
    PROVE  Cardinality(Counted') = Cardinality(Counted) + 1
BY CountedFinite, FS_AddElement

\* The task acceptLoop submits uncounts the connection it has closed.
LEMMA CountOneLess ==
    ASSUME NEW c \in Counted, Counted' = Counted \ {c}
    PROVE  Cardinality(Counted') = Cardinality(Counted) - 1
BY CountedFinite, FS_RemoveElement

\* A step that leaves the connections, the queue and the sessions alone keeps
\* the part of the invariant that is about them.
LEMMA ConnQuiet ==
    ASSUME ConnInv, TypeOK', Places',
           UNCHANGED <<fd, conns, active, tasks, serving>>,
           \A w \in Workers : Busy(w)' <=> Busy(w),
           \A w \in Workers : worker'[w] = "closed" <=> worker[w] = "closed",
           main' \in {"submit", "locked"} <=> main \in {"submit", "locked"},
           main' \in {"accepted", "admitted"} => main' = main
    PROVE  ConnInv'
<1>1. InHand'
  BY DEF ConnInv, InHand
<1>2. Queue'
  BY DEF ConnInv, Queue
<1>3. Sessions'
  BY DEF ConnInv, Sessions
<1>4. Counted' = Counted
  BY DEF Counted, Admitted
<1>5. Room'
  BY DEF ConnInv, Room
<1> QED BY <1>1, <1>2, <1>3, <1>4, <1>5 DEF ConnInv

\* run() and ~TcpServer keep the invariant.
LEMMA RunStep == ASSUME IInv, Run PROVE IInv'
<1>t. TypeOK /\ Places
  BY DEF IInv, ConnInv
<1>0. /\ UNCHANGED <<role, fd, stop, conns, active>>
      /\ UNCHANGED <<tasks, poolDown, worker, serving>>
      /\ stop \in {"none", "ignored", "returned"}
  BY <1>t DEF Run, poolVars, InHandler, Places
<1>1. /\ \/ main = "start" /\ main' = "starting" /\ running' = TRUE
         \/ main = "starting" /\ main' = "loop" /\ UNCHANGED running
         \/ main = "leaving" /\ main' = "joining" /\ UNCHANGED running
         \/ main = "joining" /\ main' = "exited" /\ UNCHANGED running
      /\ running' \in BOOLEAN /\ listening' \in BOOLEAN /\ replDown' \in BOOLEAN
      /\ apply' \in {"none", "test", "toSleep", "asleep", "ended"}
      /\ listener' \in {"none", "accept", "recv", "ended"}
  <2>1. CASE RunListen
    BY <1>t, <2>1 DEF RunListen, TypeOK, replVars
  <2>2. CASE RunStart
    BY <1>t, <2>2 DEF RunStart, TypeOK
  <2>3. CASE Leave
    BY <1>t, <2>3 DEF Leave, TypeOK
  <2>4. CASE Exit
    BY <1>t, <2>4 DEF Exit, TypeOK, replVars
  <2> QED BY <2>1, <2>2, <2>3, <2>4 DEF Run
<1>2. TypeOK' /\ Places'
  BY <1>t, <1>0, <1>1 DEF TypeOK, Places
<1>3. ConnInv'
  BY <1>0, <1>1, <1>2, ConnQuiet DEF IInv, Busy
<1>4. Stopping'
  BY <1>0, <1>1 DEF IInv, Stopping
<1>5. Dropped'
  BY <1>0, <1>1 DEF IInv, Dropped
<1> QED BY <1>3, <1>4, <1>5 DEF IInv

\* The signal handler and shutdown() keep the invariant.
LEMMA SignalStep == ASSUME IInv, Signal PROVE IInv'
<1>t. TypeOK /\ Places
  BY DEF IInv, ConnInv
<1>0. /\ UNCHANGED <<role, main, fd, listening, conns, active>>
      /\ UNCHANGED <<tasks, poolDown, worker, serving, replDown, apply, listener>>
      /\ stop \in {"none", "ignored"} /\ main # "exited"
      /\ stop' = IF running THEN "stopping" ELSE "ignored"
      /\ running' = FALSE
  BY DEF Signal, mainVars, poolVars, replVars
<1>2. TypeOK' /\ Places'
  BY <1>t, <1>0 DEF TypeOK, Places
<1>3. ConnInv'
  BY <1>0, <1>2, ConnQuiet DEF IInv, Busy
<1>4. Stopping'
  BY <1>0 DEF IInv, Stopping
<1>5. Dropped'
  BY <1>0 DEF IInv, Dropped
<1> QED BY <1>3, <1>4, <1>5 DEF IInv

\* shutdown() keeps the invariant: it joins the pool after it is down.
LEMMA ShutdownStep == ASSUME IInv, Shutdown PROVE IInv'
<1>t. TypeOK /\ Places
  BY DEF IInv, ConnInv
<1>0. /\ UNCHANGED <<role, main, fd, running, active, tasks, serving, listener>>
      /\ \/ StopRepl \/ StopJoinRepl \/ StopPool \/ StopJoinPool
  BY DEF Shutdown, mainVars
<1>1. CASE StopRepl
  <2>1. /\ stop = "stopping" /\ stop' = "join" /\ replDown' = TRUE
        /\ UNCHANGED <<listening, conns, poolDown, worker>>
        /\ apply' \in {"none", "test", "toSleep", "asleep", "ended"}
    BY <1>t, <1>1 DEF StopRepl, TypeOK
  <2>2. TypeOK' /\ Places'
    BY <1>t, <1>0, <2>1 DEF TypeOK, Places
  <2>3. ConnInv'
    BY <1>0, <2>1, <2>2, ConnQuiet DEF IInv, Busy
  <2>4. Stopping' /\ Dropped'
    BY <1>0, <2>1 DEF IInv, Stopping, Dropped
  <2> QED BY <2>3, <2>4 DEF IInv
<1>2. CASE StopJoinRepl
  <2>1. /\ stop = "join" /\ stop' = "pool" /\ listening' = FALSE
        /\ conns' = [c \in Conns |-> IF conns[c] = "pending" THEN "refused"
                                                             ELSE conns[c]]
        /\ UNCHANGED <<poolDown, worker, replDown, apply>>
    BY <1>2 DEF StopJoinRepl
  <2>2. \A c \in Conns : /\ conns[c] = "pending" => conns'[c] = "refused"
                         /\ conns[c] # "pending" => conns'[c] = conns[c]
    BY <2>1
  <2>3. TypeOK' /\ Places'
    BY <1>t, <1>0, <2>1 DEF TypeOK, Places
  <2>4. InHand'
    BY <1>0, <2>2 DEF IInv, ConnInv, InHand
  <2>5. Queue'
    BY <1>t, <1>0, <2>2 DEF IInv, ConnInv, Queue, TypeOK
  <2>6. Sessions'
    BY <1>0, <2>1, <2>2 DEF IInv, ConnInv, Sessions, Busy
  <2>7. Counted' = Counted
    BY <1>0, <2>1, <2>2 DEF Counted, Admitted
  <2>8. ConnInv'
    BY <1>0, <2>3, <2>4, <2>5, <2>6, <2>7 DEF IInv, ConnInv, Room
  <2>9. Stopping' /\ Dropped'
    BY <1>0, <2>1, <2>2 DEF IInv, Stopping, Dropped
  <2> QED BY <2>8, <2>9 DEF IInv
<1>3. CASE StopPool
  <2>1. /\ stop = "pool" /\ stop' = "joinPool" /\ poolDown' = TRUE
        /\ worker' = [w \in Workers |-> IF w \in Sleepers THEN "test" ELSE worker[w]]
        /\ UNCHANGED <<listening, conns, replDown, apply>>
    BY <1>3 DEF StopPool
  <2>2. \A w \in Workers : \/ worker'[w] = worker[w]
                           \/ worker[w] = "asleep" /\ worker'[w] = "test"
    BY <2>1 DEF Sleepers
  <2>3. TypeOK' /\ Places'
    BY <1>t, <1>0, <2>1 DEF TypeOK, Places
  <2>4. ConnInv'
    BY <1>0, <2>1, <2>2, <2>3, ConnQuiet DEF IInv, Busy
  <2>5. Stopping' /\ Dropped'
    BY <1>0, <2>1, <2>2 DEF IInv, Stopping, Dropped
  <2> QED BY <2>4, <2>5 DEF IInv
<1>4. CASE StopJoinPool
  <2>1. /\ stop = "joinPool" /\ stop' = "returned"
        /\ \A w \in Workers : worker[w] = "ended"
        /\ UNCHANGED <<listening, conns, poolDown, worker, replDown, apply>>
    BY <1>4 DEF StopJoinPool
  <2>2. TypeOK' /\ Places'
    BY <1>t, <1>0, <2>1 DEF TypeOK, Places
  <2>3. ConnInv'
    BY <1>0, <2>1, <2>2, ConnQuiet DEF IInv, Busy
  <2>4. Stopping' /\ Dropped'
    BY <1>0, <2>1 DEF IInv, Stopping, Dropped
  <2> QED BY <2>3, <2>4 DEF IInv
<1> QED BY <1>0, <1>1, <1>2, <1>3, <1>4

\* The threads of the replication layer do not touch the connections.
LEMMA ReplStep == ASSUME IInv, ReplThreads \/ PeerActs PROVE IInv'
<1>t. TypeOK /\ Places
  BY DEF IInv, ConnInv
<1>0. /\ UNCHANGED <<role, main, fd, stop, running, listening, conns, active>>
      /\ UNCHANGED <<tasks, poolDown, worker, serving, replDown>>
      /\ apply' \in {"none", "test", "toSleep", "asleep", "ended"}
      /\ listener' \in {"none", "accept", "recv", "ended"}
  BY <1>t DEF ReplThreads, PeerActs, otherThanRepl, mainVars, poolVars, ApplyTest,
     ApplySleep, Entry, ListenerAccept, ListenerWake, ListenerEnd, TypeOK
<1>1. TypeOK' /\ Places'
  BY <1>t, <1>0 DEF TypeOK, Places
<1>2. ConnInv'
  BY <1>0, <1>1, ConnQuiet DEF IInv, Busy
<1>3. Stopping' /\ Dropped'
  BY <1>0 DEF IInv, Stopping, Dropped
<1> QED BY <1>2, <1>3 DEF IInv

\* acceptLoop keeps the invariant: it counts what it admits below the limit.
LEMMA AcceptLoopStep == ASSUME IInv, AcceptLoop PROVE IInv'
<1>t. TypeOK /\ Places
  BY DEF IInv, ConnInv
<1>0. /\ UNCHANGED <<role, stop, running, listening, poolDown, serving>>
      /\ UNCHANGED <<replDown, apply, listener>>
      /\ stop \in {"none", "ignored", "returned"}
  BY <1>t DEF AcceptLoop, replVars, InHandler, Places
<1>1. CASE Loop \/ AcceptNone \/ SubmitLock
  <2>1. /\ UNCHANGED <<fd, conns, active, tasks, worker>>
        /\ \/ main = "loop" /\ main' = "accept" /\ running
           \/ main = "loop" /\ main' = "leaving" /\ ~running
           \/ main = "accept" /\ main' = "loop"
           \/ main = "submit" /\ main' = "locked"
    BY <1>1 DEF Loop, AcceptNone, SubmitLock
  <2>2. TypeOK' /\ Places'
    BY <1>t, <1>0, <2>1 DEF TypeOK, Places
  <2>3. ConnInv'
    BY <1>0, <2>1, <2>2, ConnQuiet DEF IInv, Busy
  <2>4. Stopping'
    BY <1>0, <2>1 DEF IInv, Stopping
  <2>5. Dropped'
    BY <1>0, <2>1 DEF IInv, Dropped, Stopping
  <2> QED BY <2>3, <2>4, <2>5 DEF IInv
<1>2. CASE SubmitNotify
  <2>1. /\ UNCHANGED <<fd, conns, active, tasks>>
        /\ main = "notify" /\ main' = "loop"
        /\ \/ UNCHANGED worker
           \/ \E w \in Sleepers : worker' = [worker EXCEPT ![w] = "test"]
    BY <1>2 DEF SubmitNotify
  <2>2. /\ worker' \in [Workers -> {"test", "asleep", "serve", "close", "closed", "ended"}]
        /\ \A w \in Workers : \/ worker'[w] = worker[w]
                              \/ worker[w] = "asleep" /\ worker'[w] = "test"
    BY <1>t, <2>1 DEF Sleepers, Places
  <2>3. TypeOK' /\ Places'
    BY <1>t, <1>0, <2>1, <2>2 DEF TypeOK, Places
  <2>4. ConnInv'
    BY <1>0, <2>1, <2>2, <2>3, ConnQuiet DEF IInv, Busy
  <2>5. Stopping' /\ Dropped'
    BY <1>0, <2>1, <2>2 DEF IInv, Stopping, Dropped
  <2> QED BY <2>4, <2>5 DEF IInv
<1>3. ASSUME NEW c \in Conns, Accept(c) PROVE IInv'
  <2>1. /\ main = "accept" /\ main' = "accepted" /\ fd' = c
        /\ conns[c] = "pending" /\ conns' = [conns EXCEPT ![c] = "accepted"]
        /\ UNCHANGED <<active, tasks, worker>>
    BY <1>3 DEF Accept
  <2>2. /\ conns'[c] = "accepted"
        /\ \A d \in Conns : d # c => conns'[d] = conns[d]
    BY <1>t, <2>1 DEF Places
  <2>3. TypeOK' /\ Places'
    BY <1>t, <1>0, <2>1 DEF TypeOK, Places
  <2>4. InHand'
    BY <2>1, <2>2 DEF InHand
  <2>5. Queue'
    BY <1>t, <2>1, <2>2 DEF IInv, ConnInv, Queue, TypeOK
  <2>6. Sessions'
    BY <1>0, <2>1, <2>2 DEF IInv, ConnInv, Sessions, Busy
  <2>7. Counted' = Counted
    BY <1>0, <2>1, <2>2 DEF Counted, Admitted
  <2>8. ConnInv'
    BY <2>1, <2>3, <2>4, <2>5, <2>6, <2>7 DEF IInv, ConnInv, Room
  <2>9. Stopping' /\ Dropped'
    BY <1>0, <2>1, <2>2 DEF IInv, Stopping, Dropped
  <2> QED BY <2>8, <2>9 DEF IInv
<1>4. CASE Admit /\ active >= MaxConnections
  <2>1. /\ main = "accepted" /\ main' = "loop" /\ fd' = None
        /\ conns' = [conns EXCEPT ![fd] = "refused"]
        /\ UNCHANGED <<active, tasks, worker>>
        /\ fd \in Conns /\ conns[fd] = "accepted"
    BY <1>4 DEF Admit, IInv, ConnInv, InHand
  <2>2. /\ conns'[fd] = "refused"
        /\ \A d \in Conns : d # fd => conns'[d] = conns[d]
    BY <1>t, <2>1 DEF Places
  <2>3. TypeOK' /\ Places'
    BY <1>t, <1>0, <2>1 DEF TypeOK, Places
  <2>4. InHand'
    BY <2>1 DEF InHand
  <2>5. Queue'
    BY <1>t, <2>1, <2>2 DEF IInv, ConnInv, Queue, TypeOK
  <2>6. Sessions'
    BY <1>0, <2>1, <2>2 DEF IInv, ConnInv, Sessions, Busy
  <2>7. Counted' = Counted
    BY <1>0, <2>1, <2>2 DEF Counted, Admitted
  <2>8. ConnInv'
    BY <2>1, <2>3, <2>4, <2>5, <2>6, <2>7 DEF IInv, ConnInv, Room
  <2>9. Stopping' /\ Dropped'
    BY <1>0, <2>1, <2>2 DEF IInv, Stopping, Dropped
  <2> QED BY <2>8, <2>9 DEF IInv
<1>5. CASE Admit /\ ~(active >= MaxConnections)
  <2>1. /\ main = "accepted" /\ main' = "admitted"
        /\ UNCHANGED <<fd, conns, active, tasks, worker>>
    BY <1>5 DEF Admit
  <2>2. TypeOK' /\ Places'
    BY <1>t, <1>0, <2>1 DEF TypeOK, Places
  <2>3. InHand' /\ Queue' /\ Sessions'
    BY <1>0, <2>1 DEF IInv, ConnInv, InHand, Queue, Sessions, Busy
  <2>4. Counted' = Counted
    BY <1>0, <2>1 DEF Counted, Admitted
  <2>5. Room'
    <3>1. active \in Nat /\ MaxConnections \in Nat /\ active' = active
      BY <1>t, <2>1, ServerAssumption DEF TypeOK
    <3> QED BY <1>5, <3>1 DEF Room
  <2>6. ConnInv'
    BY <2>1, <2>2, <2>3, <2>4, <2>5 DEF IInv, ConnInv
  <2>7. Stopping' /\ Dropped'
    BY <1>0, <2>1 DEF IInv, Stopping, Dropped
  <2> QED BY <2>6, <2>7 DEF IInv
<1>6. CASE Count
  <2>1. /\ main = "admitted" /\ main' = "submit" /\ active' = active + 1
        /\ UNCHANGED <<fd, conns, tasks, worker>>
        /\ fd \in Conns /\ conns[fd] = "accepted"
    BY <1>6 DEF Count, IInv, ConnInv, InHand
  <2>2. fd \notin Counted /\ Counted' = Counted \cup {fd}
    <3>1. \A w \in Workers : worker[w] = "closed" => serving[w] # fd
      BY <2>1 DEF IInv, ConnInv, Sessions, Busy
    <3>2. \A c \in Conns : Admitted(c)' <=> Admitted(c) \/ c = fd
      BY <1>0, <2>1 DEF Admitted
    <3>3. ~Admitted(fd)
      BY <2>1, <3>1 DEF Admitted
    <3> QED BY <2>1, <3>2, <3>3 DEF Counted
  <2>3. /\ active' = Cardinality(Counted') /\ active' <= MaxConnections
        /\ active' \in Nat
    <3>1. active \in Nat /\ MaxConnections \in Nat /\ active = Cardinality(Counted)
      BY <1>t, ServerAssumption DEF IInv, ConnInv, TypeOK
    <3>2. Cardinality(Counted') = Cardinality(Counted) + 1
      BY <2>1, <2>2, CountOneMore
    <3>3. active + 1 <= MaxConnections
      BY <2>1 DEF IInv, ConnInv, Room
    <3> QED BY <2>1, <3>1, <3>2, <3>3
  <2>4. TypeOK' /\ Places'
    BY <1>t, <1>0, <2>1, <2>3 DEF TypeOK, Places
  <2>5. InHand' /\ Queue'
    BY <2>1 DEF IInv, ConnInv, InHand, Queue
  <2>6. Sessions'
    BY <1>0, <2>1 DEF IInv, ConnInv, Sessions, Busy
  <2>7. ConnInv'
    BY <2>1, <2>3, <2>4, <2>5, <2>6 DEF ConnInv, Room
  <2>8. Stopping' /\ Dropped'
    BY <1>0, <2>1 DEF IInv, Stopping, Dropped
  <2> QED BY <2>7, <2>8 DEF IInv
<1>7. CASE SubmitPush
  <2>1. /\ main = "locked" /\ fd' = None /\ UNCHANGED <<active, worker>>
        /\ main' = IF poolDown THEN "loop" ELSE "notify"
        /\ tasks' = IF poolDown THEN tasks ELSE Append(tasks, fd)
        /\ conns' = [conns EXCEPT ![fd] = IF poolDown THEN "dropped" ELSE "queued"]
        /\ fd \in Conns /\ conns[fd] = "accepted"
    BY <1>7 DEF SubmitPush, IInv, ConnInv, InHand
  <2>2. /\ conns'[fd] = IF poolDown THEN "dropped" ELSE "queued"
        /\ \A d \in Conns : d # fd => conns'[d] = conns[d]
    BY <1>t, <2>1 DEF Places
  <2>3. tasks' \in Seq(Conns)
    BY <1>t, <2>1 DEF TypeOK
  <2>4. TypeOK' /\ Places'
    BY <1>t, <1>0, <2>1, <2>3 DEF TypeOK, Places
  <2>5. InHand'
    BY <2>1 DEF InHand
  <2>6. Queue'
    <3>1. tasks \in Seq(Conns) /\ Queue
      BY <1>t DEF TypeOK, IInv, ConnInv
    <3>2. \A i \in DOMAIN tasks : tasks[i] \in Conns /\ tasks[i] # fd
      BY <2>1, <3>1 DEF Queue
    <3>3. CASE poolDown
      BY <2>1, <2>2, <3>1, <3>2, <3>3 DEF Queue
    <3>4. CASE ~poolDown
      <4>1. /\ DOMAIN tasks' = 1..(Len(tasks) + 1) /\ tasks'[Len(tasks) + 1] = fd
            /\ DOMAIN tasks = 1..Len(tasks) /\ Len(tasks) \in Nat
            /\ \A i \in DOMAIN tasks : tasks'[i] = tasks[i]
        BY <2>1, <3>1, <3>4
      <4>2. \A i \in DOMAIN tasks' : conns'[tasks'[i]] = "queued"
        BY <2>2, <3>1, <3>2, <3>4, <4>1 DEF Queue
      <4>3. \A i, j \in DOMAIN tasks' : tasks'[i] = tasks'[j] => i = j
        BY <3>1, <3>2, <4>1 DEF Queue
      <4>4. ASSUME NEW c \in Conns, conns'[c] = "queued"
            PROVE  \E i \in DOMAIN tasks' : tasks'[i] = c
        <5>1. CASE c = fd
          BY <4>1, <5>1
        <5>2. CASE c # fd
          <6>1. PICK i \in DOMAIN tasks : tasks[i] = c
            BY <2>2, <3>1, <4>4, <5>2 DEF Queue
          <6>2. i \in DOMAIN tasks'
            BY <4>1
          <6> QED BY <4>1, <6>1, <6>2
        <5> QED BY <5>1, <5>2
      <4> QED BY <4>2, <4>3, <4>4 DEF Queue
    <3> QED BY <3>3, <3>4
  <2>7. Sessions'
    BY <1>0, <2>1, <2>2 DEF IInv, ConnInv, Sessions, Busy
  <2>8. Counted' = Counted
    BY <1>0, <2>1, <2>2 DEF Counted, Admitted
  <2>9. ConnInv'
    BY <2>1, <2>4, <2>5, <2>6, <2>7, <2>8 DEF IInv, ConnInv, Room
  <2>10. Stopping'
    <3>1. ~poolDown => \A w \in Workers : worker[w] # "ended"
      BY DEF IInv, Stopping
    <3> QED BY <1>0, <2>1, <3>1 DEF IInv, Stopping
  <2>11. Dropped'
    <3>1. \A c \in Conns : conns[c] # "dropped"
      BY <2>1 DEF IInv, Dropped
    <3> QED BY <1>0, <2>1, <2>2, <3>1 DEF Dropped
  <2> QED BY <2>9, <2>10, <2>11 DEF IInv
<1> QED
  BY <1>1, <1>2, <1>3, <1>4, <1>5, <1>6, <1>7 DEF AcceptLoop

\* workerLoop and the task it runs keep the invariant: a connection is taken
\* from the queue by one thread and uncounted once.
LEMMA PoolStep ==
    ASSUME IInv, NEW w \in Workers, PoolThread(w) \/ ClientEnds(w)
    PROVE  IInv'
<1>t. TypeOK /\ Places
  BY DEF IInv, ConnInv
<1>0. /\ UNCHANGED <<role, main, fd, stop, running, listening, poolDown>>
      /\ UNCHANGED <<replDown, apply, listener>>
  BY DEF PoolThread, ClientEnds, otherThanPool, mainVars, replVars
<1>1. CASE EndSession(w)
  <2>1. /\ worker[w] = "serve" /\ worker' = [worker EXCEPT ![w] = "close"]
        /\ UNCHANGED <<conns, active, tasks, serving>>
    BY <1>1 DEF EndSession
  <2>2. /\ worker'[w] = "close"
        /\ \A v \in Workers : v # w => worker'[v] = worker[v]
    BY <1>t, <2>1 DEF Places
  <2>3. TypeOK' /\ Places'
    BY <1>t, <1>0, <2>1 DEF TypeOK, Places
  <2>4. ConnInv'
    BY <1>0, <2>1, <2>2, <2>3, ConnQuiet DEF IInv, Busy
  <2>5. Stopping' /\ Dropped'
    BY <1>0, <2>1, <2>2 DEF IInv, Stopping, Dropped
  <2> QED BY <2>4, <2>5 DEF IInv
<1>2. CASE WorkerTest(w) /\ tasks = <<>> /\ ~Take(w)
  <2>1. /\ worker[w] = "test"
        /\ worker' = [worker EXCEPT ![w] = IF poolDown THEN "ended" ELSE "asleep"]
        /\ UNCHANGED <<conns, active, tasks, serving>>
    BY <1>2 DEF WorkerTest
  <2>2. /\ worker'[w] = IF poolDown THEN "ended" ELSE "asleep"
        /\ \A v \in Workers : v # w => worker'[v] = worker[v]
    BY <1>t, <2>1 DEF Places
  <2>3. TypeOK' /\ Places'
    BY <1>t, <1>0, <2>1 DEF TypeOK, Places
  <2>4. ConnInv'
    BY <1>0, <2>1, <2>2, <2>3, ConnQuiet DEF IInv, Busy
  <2>5. Stopping' /\ Dropped'
    BY <1>0, <1>2, <2>1, <2>2 DEF IInv, Stopping, Dropped
  <2> QED BY <2>4, <2>5 DEF IInv
<1>3. CASE WorkerTest(w) /\ Take(w)
  <2> DEFINE c == Head(tasks)
  <2>1. /\ worker[w] = "test" /\ worker' = [worker EXCEPT ![w] = "serve"]
        /\ serving' = [serving EXCEPT ![w] = c]
        /\ conns' = [conns EXCEPT ![c] = "served"]
        /\ tasks # <<>> /\ tasks' = Tail(tasks) /\ active' = active
    BY <1>3 DEF WorkerTest, Take
  <2>2. /\ tasks \in Seq(Conns) /\ c \in Conns /\ c = tasks[1]
        /\ Len(tasks) \in Nat /\ Len(tasks) > 0 /\ DOMAIN tasks = 1..Len(tasks)
        /\ tasks' \in Seq(Conns) /\ DOMAIN tasks' = 1..(Len(tasks) - 1)
        /\ \A i \in DOMAIN tasks' : tasks'[i] = tasks[i + 1]
    <3>1. tasks \in Seq(Conns) /\ tasks # <<>>
      BY <1>t, <2>1 DEF TypeOK
    <3> QED BY ONLY <2>1, <3>1
  <2>3. conns[c] = "queued"
    BY <2>2 DEF IInv, ConnInv, Queue
  <2> HIDE DEF c
  <2>4. /\ conns'[c] = "served"
        /\ \A d \in Conns : d # c => conns'[d] = conns[d]
        /\ worker'[w] = "serve" /\ serving'[w] = c
        /\ \A v \in Workers : v # w => /\ worker'[v] = worker[v]
                                       /\ serving'[v] = serving[v]
    BY <1>t, <2>1, <2>2 DEF TypeOK, Places
  <2>5. TypeOK' /\ Places'
    BY <1>t, <1>0, <2>1, <2>2 DEF TypeOK, Places
  <2>6. InHand'
    BY <1>0, <2>3, <2>4 DEF IInv, ConnInv, InHand
  <2>7. Queue'
    <3>1. /\ \A i \in DOMAIN tasks : tasks[i] \in Conns /\ conns[tasks[i]] = "queued"
          /\ \A i, j \in DOMAIN tasks : tasks[i] = tasks[j] => i = j
          /\ \A d \in Conns : conns[d] = "queued" => \E i \in DOMAIN tasks : tasks[i] = d
      BY <2>2 DEF IInv, ConnInv, Queue
    <3>2. \A i \in DOMAIN tasks' : i + 1 \in DOMAIN tasks /\ i + 1 # 1
      BY <2>2
    <3>3. \A i \in DOMAIN tasks' : tasks'[i] # c /\ conns'[tasks'[i]] = "queued"
      BY <2>2, <2>4, <3>1, <3>2
    <3>4. \A i, j \in DOMAIN tasks' : tasks'[i] = tasks'[j] => i = j
      BY <2>2, <3>1, <3>2
    <3>5. ASSUME NEW d \in Conns, conns'[d] = "queued"
          PROVE  \E i \in DOMAIN tasks' : tasks'[i] = d
      <4>1. d # c /\ conns[d] = "queued"
        BY <2>4, <3>5
      <4>2. PICK i \in DOMAIN tasks : tasks[i] = d
        BY <3>1, <4>1
      <4>3. i # 1 /\ i - 1 \in DOMAIN tasks' /\ (i - 1) + 1 = i
        BY <2>2, <4>1, <4>2
      <4>4. tasks'[i - 1] = d
        BY <2>2, <4>2, <4>3
      <4> QED BY <4>3, <4>4
    <3> QED BY <3>3, <3>4, <3>5 DEF Queue
  <2>8. Sessions'
    <3>1. \A v \in Workers : Busy(v) => serving[v] # c
      BY <2>3 DEF IInv, ConnInv, Sessions
    <3>2. \A v \in Workers : serving[v] # c
      BY <2>2, <3>1, ServerAssumption DEF IInv, ConnInv, Sessions
    <3>3. Busy(w)' /\ \A v \in Workers : v # w => (Busy(v)' <=> Busy(v))
      BY <2>4 DEF Busy
    <3>4. ~Busy(w)
      BY <2>1 DEF Busy
    <3>5. \A v \in Workers : Busy(v)' =>
              /\ serving'[v] \in Conns
              /\ conns'[serving'[v]] = IF worker'[v] = "closed" THEN "closed" ELSE "served"
      BY <2>2, <2>4, <3>2, <3>3 DEF IInv, ConnInv, Sessions
    <3>6. \A v \in Workers : ~Busy(v)' => serving'[v] = None
      BY <2>4, <3>3 DEF IInv, ConnInv, Sessions
    <3>7. \A u, v \in Workers : Busy(u)' /\ serving'[u] = serving'[v] => u = v
      BY <2>4, <3>2, <3>3 DEF IInv, ConnInv, Sessions
    <3>8. ASSUME NEW d \in Conns, conns'[d] = "served"
          PROVE  \E v \in Workers : serving'[v] = d
      <4>1. CASE d = c
        BY <2>4, <4>1
      <4>2. CASE d # c
        <5>1. PICK v \in Workers : serving[v] = d
          BY <2>4, <3>8, <4>2 DEF IInv, ConnInv, Sessions
        <5>2. v # w
          BY <3>4, <5>1, ServerAssumption DEF IInv, ConnInv, Sessions
        <5> QED BY <2>4, <5>1, <5>2
      <4> QED BY <4>1, <4>2
    <3> QED BY <3>5, <3>6, <3>7, <3>8 DEF Sessions
  <2>9. Counted' = Counted
    <3>1. \A v \in Workers : /\ worker'[v] = "closed" <=> worker[v] = "closed"
                             /\ worker[v] = "closed" => serving'[v] = serving[v]
      BY <2>1, <2>4
    <3> QED BY <1>0, <2>3, <2>4, <3>1 DEF Counted, Admitted
  <2>10. ConnInv'
    BY <1>0, <2>1, <2>5, <2>6, <2>7, <2>8, <2>9 DEF IInv, ConnInv, Room
  <2>11. Stopping'
    BY <1>0, <2>1, <2>4 DEF IInv, Stopping
  <2>12. Dropped'
    BY <1>0, <2>4 DEF IInv, Dropped
  <2> QED BY <2>10, <2>11, <2>12 DEF IInv
<1>4. CASE Close(w)
  <2>c. PICK c \in Conns : c = serving[w]
    BY <1>4 DEF Close, IInv, ConnInv, Sessions, Busy
  <2>1. /\ worker[w] = "close" /\ worker' = [worker EXCEPT ![w] = "closed"]
        /\ conns' = [conns EXCEPT ![c] = "closed"]
        /\ UNCHANGED <<active, tasks, serving>>
    BY <1>4, <2>c DEF Close
  <2>2. c \in Conns /\ conns[c] = "served" /\ Busy(w)
    BY <2>c, <2>1 DEF IInv, ConnInv, Sessions, Busy
  <2>3. \A v \in Workers : v # w => serving[v] # c
    BY <2>c, <2>2 DEF IInv, ConnInv, Sessions
  <2>4. /\ conns'[c] = "closed"
        /\ \A d \in Conns : d # c => conns'[d] = conns[d]
        /\ worker'[w] = "closed"
        /\ \A v \in Workers : v # w => worker'[v] = worker[v]
    BY <1>t, <2>1, <2>2 DEF TypeOK, Places
  <2>5. TypeOK' /\ Places'
    BY <1>t, <1>0, <2>1 DEF TypeOK, Places
  <2>6. InHand'
    BY <1>0, <2>2, <2>4 DEF IInv, ConnInv, InHand
  <2>7. Queue'
    <3>1. tasks \in Seq(Conns)
      BY <1>t DEF TypeOK
    <3> QED BY <2>1, <2>2, <2>4, <3>1 DEF IInv, ConnInv, Queue
  <2>8. Sessions'
    <3>1. \A v \in Workers : Busy(v)' <=> Busy(v)
      BY <2>1, <2>4 DEF Busy
    <3>2. \A v \in Workers : Busy(v)' =>
              /\ serving'[v] \in Conns
              /\ conns'[serving'[v]] = IF worker'[v] = "closed" THEN "closed" ELSE "served"
      BY <2>c, <2>1, <2>3, <2>4, <3>1 DEF IInv, ConnInv, Sessions
    <3>3. \A v \in Workers : ~Busy(v)' => serving'[v] = None
      BY <2>1, <3>1 DEF IInv, ConnInv, Sessions
    <3>4. \A u, v \in Workers : Busy(u)' /\ serving'[u] = serving'[v] => u = v
      BY <2>1, <3>1 DEF IInv, ConnInv, Sessions
    <3>5. \A d \in Conns : conns'[d] = "served" => \E v \in Workers : serving'[v] = d
      BY <2>1, <2>4 DEF IInv, ConnInv, Sessions
    <3> QED BY <3>2, <3>3, <3>4, <3>5 DEF Sessions
  <2>9. Counted' = Counted
    <3>1. Admitted(c) /\ Admitted(c)'
      BY <2>c, <2>1, <2>2, <2>4 DEF Admitted
    <3>2. ASSUME NEW d \in Conns, d # c PROVE Admitted(d)' <=> Admitted(d)
      <4>1. \A v \in Workers :
                worker'[v] = "closed" /\ serving'[v] = d <=> worker[v] = "closed" /\ serving[v] = d
        BY <2>c, <2>1, <2>4, <3>2
      <4> QED BY <1>0, <2>4, <3>2, <4>1 DEF Admitted
    <3> QED BY <3>1, <3>2 DEF Counted
  <2>10. ConnInv'
    BY <1>0, <2>1, <2>5, <2>6, <2>7, <2>8, <2>9 DEF IInv, ConnInv, Room
  <2>11. Stopping' /\ Dropped'
    BY <1>0, <2>1, <2>4 DEF IInv, Stopping, Dropped
  <2> QED BY <2>10, <2>11 DEF IInv
<1>5. CASE CountOff(w)
  <2>c. PICK c \in Conns : c = serving[w]
    BY <1>5 DEF CountOff, IInv, ConnInv, Sessions, Busy
  <2>1. /\ worker[w] = "closed" /\ worker' = [worker EXCEPT ![w] = "test"]
        /\ serving' = [serving EXCEPT ![w] = None]
        /\ active' = active - 1 /\ UNCHANGED <<conns, tasks>>
    BY <1>5 DEF CountOff
  <2>2. c \in Conns /\ conns[c] = "closed" /\ Busy(w)
    BY <2>c, <2>1 DEF IInv, ConnInv, Sessions, Busy
  <2>3. \A v \in Workers : v # w => serving[v] # c
    BY <2>c, <2>2 DEF IInv, ConnInv, Sessions
  <2>4. /\ worker'[w] = "test" /\ serving'[w] = None
        /\ \A v \in Workers : v # w => /\ worker'[v] = worker[v]
                                       /\ serving'[v] = serving[v]
    BY <1>t, <2>1 DEF TypeOK, Places
  <2>5. Admitted(c) /\ ~Admitted(c)'
    <3>1. \A v \in Workers : ~(worker'[v] = "closed" /\ serving'[v] = c)
      BY <2>3, <2>4
    <3>2. ~(c = fd /\ main \in {"submit", "locked"})
      BY <2>2 DEF IInv, ConnInv, InHand
    <3> QED BY <1>0, <2>c, <2>1, <2>2, <3>1, <3>2 DEF Admitted
  <2>6. ASSUME NEW d \in Conns, d # c PROVE Admitted(d)' <=> Admitted(d)
    <3>1. \A v \in Workers :
              worker'[v] = "closed" /\ serving'[v] = d <=> worker[v] = "closed" /\ serving[v] = d
      BY <2>c, <2>4, <2>6
    <3> QED BY <1>0, <2>1, <3>1 DEF Admitted
  <2>7. c \in Counted /\ Counted' = Counted \ {c}
    BY <2>5, <2>6 DEF Counted
  <2>8. /\ active' = Cardinality(Counted') /\ active' <= MaxConnections
        /\ active' \in Nat /\ Room'
    <3>1. /\ active \in Nat /\ MaxConnections \in Nat /\ active <= MaxConnections
          /\ active = Cardinality(Counted) /\ Room
      BY <1>t, ServerAssumption DEF IInv, ConnInv, TypeOK
    <3>2. Cardinality(Counted') = Cardinality(Counted) - 1
      BY <2>7, CountOneLess
    <3>3. Cardinality(Counted') \in Nat
      BY CountedFinite
    <3> QED BY <1>0, <2>1, <3>1, <3>2, <3>3 DEF Room
  <2>9. TypeOK' /\ Places'
    BY <1>t, <1>0, <2>1, <2>8 DEF TypeOK, Places
  <2>10. InHand' /\ Queue'
    BY <1>0, <2>1 DEF IInv, ConnInv, InHand, Queue
  <2>11. Sessions'
    <3>1. ~Busy(w)' /\ \A v \in Workers : v # w => (Busy(v)' <=> Busy(v))
      BY <2>4 DEF Busy
    <3>2. \A v \in Workers : Busy(v)' =>
              /\ serving'[v] \in Conns
              /\ conns'[serving'[v]] = IF worker'[v] = "closed" THEN "closed" ELSE "served"
      BY <2>1, <2>4, <3>1 DEF IInv, ConnInv, Sessions
    <3>3. \A v \in Workers : ~Busy(v)' => serving'[v] = None
      BY <2>4, <3>1 DEF IInv, ConnInv, Sessions
    <3>4. \A u, v \in Workers : Busy(u)' /\ serving'[u] = serving'[v] => u = v
      BY <2>4, <3>1, <3>2, ServerAssumption DEF IInv, ConnInv, Sessions
    <3>5. ASSUME NEW d \in Conns, conns'[d] = "served"
          PROVE  \E v \in Workers : serving'[v] = d
      <4>1. d # c /\ conns[d] = "served"
        BY <2>1, <2>2, <3>5
      <4>2. PICK v \in Workers : serving[v] = d
        BY <4>1 DEF IInv, ConnInv, Sessions
      <4>3. v # w
        BY <2>c, <4>1, <4>2
      <4> QED BY <2>4, <4>2, <4>3
    <3> QED BY <3>2, <3>3, <3>4, <3>5 DEF Sessions
  <2>12. ConnInv'
    BY <2>8, <2>9, <2>10, <2>11 DEF ConnInv
  <2>13. Stopping' /\ Dropped'
    BY <1>0, <2>1, <2>4 DEF IInv, Stopping, Dropped
  <2> QED BY <2>12, <2>13 DEF IInv
<1> QED
  BY <1>1, <1>2, <1>3, <1>4, <1>5 DEF PoolThread, ClientEnds, WorkerTest

\* A client that connects is in nobody's count yet.
LEMMA ConnectStep == ASSUME IInv, NEW c \in Conns, Connect(c) PROVE IInv'
<1>t. TypeOK /\ Places
  BY DEF IInv, ConnInv
<1>1. /\ conns[c] = "none" /\ conns' = [conns EXCEPT ![c] = "pending"]
      /\ UNCHANGED <<role, main, fd, stop, running, listening, active>>
      /\ UNCHANGED <<tasks, poolDown, worker, serving, replDown, apply, listener>>
  BY DEF Connect, mainVars, poolVars, replVars
<1>2. /\ conns'[c] = "pending"
      /\ \A d \in Conns : d # c => conns'[d] = conns[d]
  BY <1>t, <1>1 DEF Places
<1>3. TypeOK' /\ Places'
  BY <1>t, <1>1 DEF TypeOK, Places
<1>4. InHand'
  BY <1>1, <1>2 DEF IInv, ConnInv, InHand
<1>5. Queue'
  <2>1. tasks \in Seq(Conns)
    BY <1>t DEF TypeOK
  <2> QED BY <1>1, <1>2, <2>1 DEF IInv, ConnInv, Queue
<1>6. Sessions'
  BY <1>1, <1>2 DEF IInv, ConnInv, Sessions, Busy
<1>7. Counted' = Counted
  BY <1>1, <1>2 DEF Counted, Admitted, IInv, ConnInv, InHand
<1>8. ConnInv'
  BY <1>1, <1>3, <1>4, <1>5, <1>6, <1>7 DEF IInv, ConnInv, Room
<1>9. Stopping' /\ Dropped'
  BY <1>1, <1>2 DEF IInv, Stopping, Dropped
<1> QED BY <1>8, <1>9 DEF IInv

-----------------------------------------------------------------------------
\* The invariant holds of a new server and every step of every thread keeps
\* it: the counter, the queue and the sessions agree on what has become of
\* each connection, and shutdown() proceeds in the order of its calls.
THEOREM InvCorrect == Spec => []IInv
<1>1. Init => IInv
  <2> SUFFICES ASSUME Init PROVE IInv
    OBVIOUS
  <2>1. TypeOK
    <3>1. {running, listening, poolDown, replDown} \subseteq BOOLEAN
      BY DEF Init
    <3>2. active \in Nat /\ tasks \in Seq(Conns)
      BY DEF Init
    <3> QED BY <3>1, <3>2 DEF Init, TypeOK
  <2>2. Places
    BY DEF Init, Places
  <2>3. InHand /\ Queue /\ Sessions
    BY DEF Init, InHand, Queue, Sessions, Busy
  <2>4. Counted = {}
    BY DEF Init, Counted, Admitted
  <2>5. active = Cardinality(Counted) /\ active <= MaxConnections
    BY <2>4, FS_EmptySet, ServerAssumption DEF Init
  <2>6. Room /\ Stopping /\ Dropped
    BY DEF Init, Room, Stopping, Dropped
  <2> QED BY <2>1, <2>2, <2>3, <2>5, <2>6 DEF IInv, ConnInv
<1>2. IInv /\ [Next]_vars => IInv'
  <2> SUFFICES ASSUME IInv, [Next]_vars PROVE IInv'
    OBVIOUS
  <2>1. CASE UNCHANGED vars
    <3>1. /\ UNCHANGED <<role, main, fd, stop, running, listening, conns, active>>
          /\ UNCHANGED <<tasks, poolDown, worker, serving, replDown, apply, listener>>
      BY <2>1 DEF vars, mainVars, poolVars, replVars
    <3>2. TypeOK' /\ Places'
      BY <3>1 DEF IInv, ConnInv, TypeOK, Places
    <3>3. ConnInv'
      BY <3>1, <3>2, ConnQuiet DEF IInv, Busy
    <3>4. Stopping' /\ Dropped'
      BY <3>1 DEF IInv, Stopping, Dropped
    <3> QED BY <3>3, <3>4 DEF IInv
  <2> QED
    BY <2>1, RunStep, AcceptLoopStep, SignalStep, ShutdownStep, PoolStep, ReplStep,
       ConnectStep DEF Next
<1> QED BY <1>1, <1>2, PTL DEF Spec

\* active_connections_ is the number of connections that were admitted and are
\* not counted off, and stays within max_connections although it is tested before
\* it is counted up (acceptLoop and its task).
THEOREM LimitCorrect == Spec => []LimitKept
<1>1. IInv => LimitKept
  BY DEF IInv, ConnInv, LimitKept, Counted
<1> QED BY <1>1, InvCorrect, PTL

\* When shutdown() has returned every connection that reached the pool was
\* served to its end and at most one was dropped, and the server is destroyed
\* only after its pool; for a pool that has a thread at all (num_threads > 0).
THEOREM DrainsCorrect ==
    ASSUME Workers # {}
    PROVE  Spec => []ShutdownDrains
<1>1. IInv => ShutdownDrains
  <2> SUFFICES ASSUME IInv PROVE ShutdownDrains
    OBVIOUS
  <2>1. ASSUME stop = "returned"
        PROVE  /\ tasks = <<>>
               /\ \A c \in Conns : conns[c] \notin {"queued", "served"}
    <3>1. \A w \in Workers : worker[w] = "ended"
      BY <2>1 DEF IInv, Stopping
    <3>2. tasks = <<>>
      BY <3>1 DEF IInv, Stopping
    <3>3. \A c \in Conns : conns[c] # "queued"
      BY <3>2 DEF IInv, ConnInv, Queue
    <3>4. \A w \in Workers : serving[w] = None
      BY <3>1 DEF IInv, ConnInv, Sessions, Busy
    <3>5. \A c \in Conns : conns[c] # "served"
      BY <3>4, ServerAssumption DEF IInv, ConnInv, Sessions
    <3> QED BY <3>2, <3>3, <3>5
  <2>2. Cardinality({c \in Conns : conns[c] = "dropped"}) <= 1
    <3> DEFINE D == {c \in Conns : conns[c] = "dropped"}
    <3>1. CASE D = {}
      BY <3>1, FS_EmptySet
    <3>2. CASE D # {}
      <4>1. PICK c \in D : TRUE
        BY <3>2
      <4>2. D = {c}
        BY <4>1 DEF IInv, Dropped
      <4>3. Cardinality({c}) = 1
        BY FS_Singleton
      <4> QED BY <4>2, <4>3
    <3> QED BY <3>1, <3>2
  <2>3. main \in {"joining", "exited"} => \A w \in Workers : worker[w] = "ended"
    BY DEF IInv, Stopping
  <2> QED BY <2>1, <2>2, <2>3 DEF ShutdownDrains
<1> QED BY <1>1, InvCorrect, PTL

-----------------------------------------------------------------------------
(* The parser finds in every line what the grammar of a request gives.     *)

\* A nonempty set of naturals has a least element.
LEMMA LeastNatural ==
    ASSUME NEW S \in SUBSET Nat, S # {}
    PROVE  \E n \in S : \A m \in S : n <= m
<1> DEFINE R == OpToRel(<, Nat)
<1>1. IsWellFoundedOn(R, Nat)
  BY NatLessThanWellFounded
<1>2. \A x, y \in Nat : x < y => <<x, y>> \in R
  BY DEF OpToRel
<1> HIDE DEF R
<1>3. PICK n \in S : \A y \in S : ~ (<<y, n>> \in R)
  BY <1>1, WFMin
<1>4. S \subseteq Nat /\ n \in Nat
  OBVIOUS
<1>5. \A m \in S : ~(m < n)
  BY <1>2, <1>3, <1>4
<1> QED BY <1>4, <1>5

\* A nonempty bounded set of naturals has a largest element.
LEMMA LargestNatural ==
    ASSUME NEW S \in SUBSET Nat, S # {}, NEW b \in Nat, \A n \in S : n <= b
    PROVE  \E n \in S : \A m \in S : m <= n
<1> DEFINE B == {c \in Nat : \A n \in S : n <= c}
<1>1. PICK c \in B : \A d \in B : c <= d
  <2>1. B \subseteq Nat /\ b \in B
    OBVIOUS
  <2> QED BY <2>1, LeastNatural
<1>2. c \in Nat /\ \A n \in S : n <= c
  OBVIOUS
<1>3. c \in S
  <2> SUFFICES ASSUME c \notin S PROVE FALSE
    OBVIOUS
  <2>1. \A n \in S : n \in Nat /\ n <= c - 1
    BY <1>2
  <2>2. c - 1 \in Nat
    <3>1. PICK n \in S : TRUE
      OBVIOUS
    <3>2. n \in Nat /\ n <= c - 1
      BY <2>1, <3>1
    <3> QED BY <1>2, <3>2
  <2>3. c - 1 \in B
    BY <2>1, <2>2
  <2> QED BY <1>1, <1>2, <2>3
<1> QED BY <1>2, <1>3

\* A part of a line that substr() takes.
LEMMA PartOf ==
    ASSUME NEW S, NEW text \in Seq(S), NEW f \in Nat, NEW g \in Nat, 1 <= f, g <= Len(text)
    PROVE  /\ SubSeq(text, f, g) \in Seq(S)
           /\ Len(SubSeq(text, f, g)) = IF f <= g THEN g - f + 1 ELSE 0
           /\ \A i \in 1..(g - f + 1) : SubSeq(text, f, g)[i] = text[f + i - 1]
<1>1. \A i \in f..g : text[i] \in S
  OBVIOUS
<1> QED BY <1>1, SubSeqProperties

\* A part of a part of a line (trim() of what is behind the command).
LEMMA PartOfPart ==
    ASSUME NEW S, NEW text \in Seq(S), NEW f \in Nat, NEW g \in Nat, 1 <= f, f <= g,
           g <= Len(text), NEW x \in Nat, NEW y \in Nat, 1 <= x, y <= g - f + 1
    PROVE  SubSeq(SubSeq(text, f, g), x, y) = SubSeq(text, f + x - 1, f + y - 1)
<1> DEFINE p == SubSeq(text, f, g)
           q == SubSeq(p, x, y)
           r == SubSeq(text, f + x - 1, f + y - 1)
<1>1. p \in Seq(S) /\ Len(p) = g - f + 1 /\ \A i \in 1..Len(p) : p[i] = text[f + i - 1]
  BY PartOf
<1> HIDE DEF p
<1>2. \A i \in x..y : p[i] \in S
  BY <1>1
<1>3. /\ q \in Seq(S) /\ Len(q) = IF x <= y THEN y - x + 1 ELSE 0
      /\ \A i \in 1..(y - x + 1) : q[i] = p[x + i - 1]
  BY <1>2, SubSeqProperties
<1>4. \A i \in (f + x - 1)..(f + y - 1) : text[i] \in S
  OBVIOUS
<1>5. /\ r \in Seq(S) /\ Len(r) = IF x <= y THEN y - x + 1 ELSE 0
      /\ \A i \in 1..(y - x + 1) : r[i] = text[f + x - 1 + i - 1]
  <2>1. f + x - 1 \in Int /\ f + y - 1 \in Int
    OBVIOUS
  <2> QED BY <1>4, <2>1, SubSeqProperties
<1> HIDE DEF q, r
<1>6. ASSUME NEW i \in 1..Len(q) PROVE q[i] = r[i]
  <2>1. i \in 1..(y - x + 1) /\ x + i - 1 \in 1..Len(p)
    BY <1>1, <1>3
  <2>2. q[i] = p[x + i - 1] /\ r[i] = text[f + x - 1 + i - 1]
    BY <1>3, <1>5, <2>1
  <2>3. p[x + i - 1] = text[f + (x + i - 1) - 1]
    BY <1>1, <2>1
  <2>4. f + (x + i - 1) - 1 = f + x - 1 + i - 1
    BY <2>1
  <2> QED BY <2>2, <2>3, <2>4
<1>7. q = r
  BY <1>3, <1>5, <1>6, SeqEqual
<1> QED BY <1>7 DEF q, r, p

\* find() from the beginning of a part of the line.
LEMMA FindPart ==
    ASSUME NEW S, NEW s \in Seq(S), NEW c
    PROVE  \/ Find(s, c) = 0 /\ \A i \in 1..Len(s) : s[i] # c
           \/ /\ Find(s, c) \in 1..Len(s) /\ s[Find(s, c)] = c
              /\ \A i \in 1..(Find(s, c) - 1) : s[i] # c
<1> DEFINE P == {i \in DOMAIN s : s[i] = c}
           n == Len(s)
           m == Min(P \cup {n + 1})
<1>1. n \in Nat /\ P \subseteq 1..n /\ P \cup {n + 1} \in SUBSET Nat
  OBVIOUS
<1>2. \A T \in SUBSET Nat : T # {} => Min(T) \in T /\ \A k \in T : Min(T) <= k
  BY LeastNatural DEF Min
<1>3. m \in P \cup {n + 1} /\ \A k \in P \cup {n + 1} : m <= k
  BY <1>1, <1>2
<1>4. Find(s, c) = m % (n + 1)
  BY DEF Find
<1> HIDE DEF m
<1>5. CASE m = n + 1
  <2>1. \A i \in 1..n : s[i] # c
    BY <1>1, <1>3, <1>5
  <2>2. m % (n + 1) = 0
    BY <1>1, <1>5
  <2> QED BY <1>4, <2>1, <2>2
<1>6. CASE m \in P
  <2>1. m \in 1..n /\ m % (n + 1) = m
    BY <1>1, <1>6
  <2>2. s[m] = c /\ \A i \in 1..(m - 1) : s[i] # c
    BY <1>1, <1>3, <1>6, <2>1
  <2> QED BY <1>4, <2>1, <2>2
<1> QED BY <1>3, <1>5, <1>6

\* trim() of a part of the line takes it from its first to its last solid symbol.
LEMMA TrimPart ==
    ASSUME NEW S, NEW text \in Seq(S), NEW f \in Nat, NEW g \in Nat, 1 <= f, g <= Len(text)
    PROVE  \/ Blank(text, f, g) /\ Trim(SubSeq(text, f, g)) = <<>>
           \/ \E i, j \in f..g :
                  /\ Field(text, i, j) /\ Blank(text, f, i - 1) /\ Blank(text, j + 1, g)
                  /\ Trim(SubSeq(text, f, g)) = SubSeq(text, i, j)
<1> DEFINE s == SubSeq(text, f, g)
           solid == {i \in DOMAIN s : s[i] \notin Blanks}
<1>1. /\ s \in Seq(S) /\ Len(s) = IF f <= g THEN g - f + 1 ELSE 0
      /\ \A i \in 1..(g - f + 1) : s[i] = text[f + i - 1]
  BY PartOf
<1>2. Trim(s) = IF solid = {} THEN <<>> ELSE SubSeq(s, Min(solid), Max(solid))
  BY DEF Trim
<1> HIDE DEF s
<1>3. CASE solid = {}
  <2>1. \A n \in f..g : text[n] \in Blanks
    <3> SUFFICES ASSUME NEW n \in f..g PROVE text[n] \in Blanks
      OBVIOUS
    <3>1. n - f + 1 \in 1..Len(s) /\ n - f + 1 \in 1..(g - f + 1) /\ f + (n - f + 1) - 1 = n
      BY <1>1
    <3>2. s[n - f + 1] = text[n]
      BY <1>1, <3>1
    <3>3. n - f + 1 \in DOMAIN s
      BY <1>1, <3>1
    <3> QED BY <1>3, <3>2, <3>3
  <2> QED BY <1>2, <1>3, <2>1 DEF Blank, s
<1>4. CASE solid # {}
  <2>1. solid \in SUBSET Nat /\ Len(s) \in Nat /\ \A n \in solid : n \in 1..Len(s)
    BY <1>1
  <2>2. Min(solid) \in solid /\ \A n \in solid : Min(solid) <= n
    BY <1>4, <2>1, LeastNatural DEF Min
  <2>3. \E n \in solid : \A k \in solid : k <= n
    <3>1. \A n \in solid : n <= Len(s)
      BY <2>1
    <3> QED BY <1>4, <2>1, <3>1, LargestNatural
  <2>4. Max(solid) \in solid /\ \A n \in solid : n <= Max(solid)
    <3>1. \E n \in solid : \A k \in solid : n >= k
      BY <2>1, <2>3
    <3>2. Max(solid) \in solid /\ \A n \in solid : Max(solid) >= n
      BY <3>1 DEF Max
    <3> QED BY <2>1, <3>2
  <2>5. PICK x \in Nat, y \in Nat : x = Min(solid) /\ y = Max(solid)
    BY <2>1, <2>2, <2>4
  <2>6. /\ x \in 1..Len(s) /\ y \in 1..Len(s) /\ x <= y
        /\ s[x] \notin Blanks /\ s[y] \notin Blanks
        /\ \A n \in 1..Len(s) : s[n] \notin Blanks => x <= n /\ n <= y
    <3>1. x \in solid /\ y \in solid /\ \A n \in solid : x <= n /\ n <= y
      BY <2>2, <2>4, <2>5
    <3>2. DOMAIN s = 1..Len(s)
      BY <1>1
    <3> QED BY <3>1, <3>2
  <2>7. f <= g /\ Len(s) = g - f + 1
    BY <1>1, <2>6
  <2> DEFINE i == f + x - 1
             j == f + y - 1
  <2>8. /\ i \in f..g /\ j \in f..g /\ i <= j
        /\ text[i] \notin Blanks /\ text[j] \notin Blanks
    BY <1>1, <2>6, <2>7
  <2>9. ASSUME NEW n \in f..g, n < i \/ j < n PROVE text[n] \in Blanks
    <3>1. n - f + 1 \in 1..Len(s) /\ f + (n - f + 1) - 1 = n
      BY <2>7
    <3>2. s[n - f + 1] = text[n]
      BY <1>1, <2>7, <3>1
    <3>3. n - f + 1 < x \/ y < n - f + 1
      BY <2>6, <2>9
    <3> QED BY <2>6, <3>1, <3>2, <3>3
  <2>10. Blank(text, f, i - 1) /\ Blank(text, j + 1, g)
    BY <2>8, <2>9 DEF Blank
  <2>11. Trim(s) = SubSeq(text, i, j)
    <3>1. Trim(s) = SubSeq(s, x, y)
      BY <1>2, <1>4, <2>5
    <3>2. 1 <= x /\ y <= g - f + 1 /\ f <= g
      BY <2>6, <2>7
    <3>3. SubSeq(s, x, y) = SubSeq(text, i, j)
      BY <3>2, PartOfPart DEF s
    <3> QED BY <3>1, <3>3
  <2> QED BY <2>8, <2>10, <2>11 DEF Field, s
<1> QED BY <1>3, <1>4
\* A line between its first and its last solid symbol.
Bounded(text, a, b) ==
    /\ a \in 1..Len(text) /\ b \in 1..Len(text) /\ Field(text, a, b)
    /\ Blank(text, 1, a - 1) /\ Blank(text, b + 1, Len(text))

\* A command's arguments end where the line does, behind the command and a space.
LEMMA ArgsFollow ==
    ASSUME NEW S, NEW text \in Seq(S), NEW a, NEW b, Bounded(text, a, b),
           NEW names, names \cap Blanks = {}, NEW x \in Args(text, names)
    PROVE  /\ x[1] \in Nat /\ x[2] = b /\ x = <<x[1], b>> /\ a + 2 <= x[1] /\ x[1] <= b
           /\ text[x[1]] \notin Blanks /\ text[a] \in names /\ text[a + 1] = "SP"
           /\ Blank(text, a + 1, x[1] - 1)
<1>1. /\ x \in (1..Len(text)) \X (1..Len(text))
      /\ Field(text, x[1], x[2]) /\ Blank(text, x[2] + 1, Len(text))
  BY DEF Args
<1>2. PICK c \in 1..(x[1] - 2) :
          /\ text[c] \in names /\ Blank(text, 1, c - 1)
          /\ text[c + 1] = "SP" /\ Blank(text, c + 1, x[1] - 1)
  BY DEF Args
<1>3. /\ x[1] \in 1..Len(text) /\ x[2] \in 1..Len(text) /\ x = <<x[1], x[2]>>
      /\ x[1] <= x[2] /\ text[x[1]] \notin Blanks /\ text[x[2]] \notin Blanks
  BY <1>1 DEF Field
<1>4. /\ a \in 1..Len(text) /\ b \in 1..Len(text) /\ a <= b
      /\ text[a] \notin Blanks /\ text[b] \notin Blanks
  BY DEF Bounded, Field
<1>5. \A n \in 1..Len(text) : text[n] \notin Blanks => a <= n /\ n <= b
  BY <1>4 DEF Bounded, Blank
<1>6. x[2] = b
  <2>1. x[2] <= b
    BY <1>3, <1>5
  <2>2. ~(x[2] < b)
    <3>1. x[2] < b => b \in (x[2] + 1)..Len(text)
      BY <1>3, <1>4
    <3> QED BY <1>1, <1>4, <3>1 DEF Blank
  <2> QED BY <1>3, <1>4, <2>1, <2>2
<1>7. c = a
  <2>1. c \in 1..Len(text) /\ text[c] \notin Blanks
    BY <1>2, <1>3
  <2>2. a <= c
    BY <1>5, <2>1
  <2>3. ~(a < c)
    <3>1. a < c => a \in 1..(c - 1)
      BY <1>4, <2>1
    <3> QED BY <1>2, <1>4, <3>1 DEF Blank
  <2> QED BY <1>4, <2>1, <2>2, <2>3
<1> QED BY <1>2, <1>3, <1>6, <1>7

\* Where the space behind the command is, and the first solid symbol after it.
LEMMA ArgsOne ==
    ASSUME NEW S, NEW text \in Seq(S), NEW a, NEW b, Bounded(text, a, b),
           NEW names, names \cap Blanks = {},
           text[a + 1] = "SP", NEW i \in (a + 2)..b, text[i] \notin Blanks,
           Blank(text, a + 1, i - 1)
    PROVE  Args(text, names) = IF text[a] \in names THEN {<<i, b>>} ELSE {}
<1>1. /\ a \in 1..Len(text) /\ b \in 1..Len(text) /\ a <= b /\ text[b] \notin Blanks
      /\ Blank(text, 1, a - 1) /\ Blank(text, b + 1, Len(text))
  BY DEF Bounded, Field
<1>2. ASSUME NEW x \in Args(text, names)
      PROVE  text[a] \in names /\ x = <<i, b>>
  <2>1. /\ x[1] \in Nat /\ x = <<x[1], b>> /\ a + 2 <= x[1] /\ x[1] <= b
        /\ text[x[1]] \notin Blanks /\ text[a] \in names
        /\ Blank(text, a + 1, x[1] - 1)
    BY ArgsFollow
  <2>2. ~(i < x[1])
    <3>1. i < x[1] => i \in (a + 1)..(x[1] - 1)
      BY <1>1, <2>1
    <3> QED BY <2>1, <3>1 DEF Blank
  <2>3. ~(x[1] < i)
    <3>1. x[1] < i => x[1] \in (a + 1)..(i - 1)
      BY <1>1, <2>1
    <3> QED BY <2>1, <3>1 DEF Blank
  <2>4. x[1] = i
    BY <1>1, <2>1, <2>2, <2>3
  <2> QED BY <2>1, <2>4
<1>3. ASSUME text[a] \in names PROVE <<i, b>> \in Args(text, names)
  <2>1. <<i, b>> \in (1..Len(text)) \X (1..Len(text)) /\ Field(text, i, b)
    BY <1>1 DEF Field
  <2>2. a \in 1..(i - 2)
    BY <1>1
  <2> QED BY <1>1, <1>3, <2>1, <2>2 DEF Args
<1> QED BY <1>2, <1>3

\* The key of PUT ends at the first space, and the value begins at the first
\* solid symbol behind it (parse).
LEMMA PairsOne ==
    ASSUME NEW S, NEW text \in Seq(S), NEW i \in Nat, NEW b \in Nat, 1 <= i, b <= Len(text),
           Field(text, i, b)
    PROVE  LET rest == SubSeq(text, i, b)
               e == Find(rest, "SP")
           IN  \/ e = 0 /\ Pairs(text, <<i, b>>) = {}
               \/ \E m, p \in 1..Len(text) :
                      /\ e # 0 /\ Pairs(text, <<i, b>>) = {<<m, p>>}
                      /\ Before(rest, e) = SubSeq(text, i, m - 1)
                      /\ Before(rest, e) # <<>>
                      /\ Trim(After(rest, e)) = SubSeq(text, p, b)
                      /\ Trim(After(rest, e)) # <<>>
<1> DEFINE rest == SubSeq(text, i, b)
           e == Find(rest, "SP")
           Claim == \/ e = 0 /\ Pairs(text, <<i, b>>) = {}
                    \/ \E m, p \in 1..Len(text) :
                          /\ e # 0 /\ Pairs(text, <<i, b>>) = {<<m, p>>}
                          /\ Before(rest, e) = SubSeq(text, i, m - 1)
                          /\ Before(rest, e) # <<>>
                          /\ Trim(After(rest, e)) = SubSeq(text, p, b)
                          /\ Trim(After(rest, e)) # <<>>
<1> SUFFICES Claim
  OBVIOUS
<1>1. i <= b /\ text[i] \notin Blanks /\ text[b] \notin Blanks /\ "SP" \in Blanks
  BY DEF Field, Blanks
<1>2. /\ rest \in Seq(S) /\ Len(rest) = b - i + 1
      /\ \A n \in 1..(b - i + 1) : rest[n] = text[i + n - 1]
  BY <1>1, PartOf
<1>6. \/ e = 0 /\ \A n \in 1..Len(rest) : rest[n] # "SP"
      \/ /\ e \in 1..Len(rest) /\ rest[e] = "SP"
         /\ \A n \in 1..(e - 1) : rest[n] # "SP"
  BY <1>2, FindPart
<1>7. rest = SubSeq(text, i, b)
  OBVIOUS
<1> HIDE DEF rest, e
<1>3. ASSUME NEW q \in Pairs(text, <<i, b>>)
      PROVE  \E u, v \in Nat :
                 /\ q = <<u, v>> /\ i < u /\ u < v /\ v <= b
                 /\ text[v] \notin Blanks /\ \A n \in i..(u - 1) : text[n] # "SP"
                 /\ text[u] = "SP" /\ Blank(text, u, v - 1)
  <2>1. /\ q \in (1..Len(text)) \X (1..Len(text))
        /\ i < q[1] /\ q[1] < q[2] /\ q[2] <= b /\ text[q[2]] \notin Blanks
        /\ \A n \in i..(q[1] - 1) : text[n] # "SP"
        /\ text[q[1]] = "SP" /\ Blank(text, q[1], q[2] - 1)
    BY DEF Pairs, Field
  <2>2. PICK u \in 1..Len(text), v \in 1..Len(text) : q = <<u, v>>
    BY <2>1
  <2>3. q[1] = u /\ q[2] = v
    BY <2>2
  <2> QED BY <2>1, <2>2, <2>3
<1>4. CASE e = 0 /\ \A n \in 1..Len(rest) : rest[n] # "SP"
  <2>1. ASSUME NEW q \in Pairs(text, <<i, b>>) PROVE FALSE
    <3>1. PICK u \in Nat : i < u /\ u <= b /\ text[u] = "SP"
      <4>1. PICK u \in Nat, v \in Nat : i < u /\ u < v /\ v <= b /\ text[u] = "SP"
        BY <1>3, <2>1
      <4> QED BY <4>1
    <3>2. u - i + 1 \in 1..(b - i + 1) /\ i + (u - i + 1) - 1 = u
      BY <3>1
    <3>3. rest[u - i + 1] = text[u]
      BY <1>2, <3>2
    <3> QED BY <1>2, <1>4, <3>1, <3>2, <3>3
  <2> QED BY <1>4, <2>1
<1>5. CASE /\ e \in 1..Len(rest) /\ rest[e] = "SP"
           /\ \A n \in 1..(e - 1) : rest[n] # "SP"
  <2>1. PICK m \in Nat : m = i + e - 1
    BY <1>2, <1>5
  <2>2. /\ text[m] = "SP" /\ i < m /\ m < b
        /\ \A n \in i..(m - 1) : text[n] # "SP"
    <3>1. text[m] = "SP" /\ i <= m /\ m <= b
      BY <1>2, <1>5, <2>1
    <3>2. m # i /\ m # b
      BY <1>1, <3>1
    <3>3. ASSUME NEW n \in i..(m - 1) PROVE text[n] # "SP"
      <4>1. n - i + 1 \in 1..(e - 1) /\ i + (n - i + 1) - 1 = n
        BY <1>2, <1>5, <2>1
      <4>2. rest[n - i + 1] = text[n]
        BY <1>2, <1>5, <4>1
      <4> QED BY <1>5, <4>1, <4>2
    <3> QED BY <3>1, <3>2, <3>3
  <2>3. Before(rest, e) = SubSeq(text, i, m - 1) /\ Before(rest, e) # <<>>
    <3>1. Before(rest, e) = SubSeq(rest, 1, e - 1)
      BY <1>2, <1>5 DEF Before
    <3>2. 1 <= e - 1 /\ e - 1 <= b - i + 1 /\ i + (e - 1) - 1 = m - 1 /\ i + 1 - 1 = i
      BY <1>2, <1>5, <2>1, <2>2
    <3>3. SubSeq(rest, 1, e - 1) = SubSeq(text, i + 1 - 1, i + (e - 1) - 1)
      <4>1. PICK x \in Nat, y \in Nat : x = 1 /\ y = e - 1
        BY <1>2, <1>5, <3>2
      <4>2. 1 <= x /\ y <= b - i + 1
        BY <3>2, <4>1
      <4>3. SubSeq(SubSeq(text, i, b), x, y) = SubSeq(text, i + x - 1, i + y - 1)
        BY <1>1, <1>7, <4>2, PartOfPart
      <4> QED BY <1>7, <4>1, <4>3
    <3>4. Before(rest, e) = SubSeq(text, i, m - 1)
      BY <3>1, <3>2, <3>3
    <3>5. PICK y \in Nat : y = m - 1
      BY <2>2
    <3>6. SubSeq(text, i, y) \in Seq(S) /\ Len(SubSeq(text, i, y)) # 0
      BY <2>2, <3>5, PartOf
    <3>7. SubSeq(text, i, m - 1) # <<>>
      BY <3>5, <3>6, EmptySeq
    <3> QED BY <3>4, <3>7
  <2>4. After(rest, e) = SubSeq(text, m + 1, b)
    <3>1. After(rest, e) = SubSeq(rest, e + 1, Len(rest))
      BY <1>2, <1>5 DEF After
    <3>2. PICK x \in Nat, y \in Nat : x = e + 1 /\ y = Len(rest)
      BY <1>2, <1>5
    <3>5. 1 <= x /\ y <= b - i + 1
      BY <1>2, <1>5, <3>2
    <3>3. SubSeq(SubSeq(text, i, b), x, y) = SubSeq(text, i + x - 1, i + y - 1)
      BY <1>1, <3>5, PartOfPart
    <3>4. i + x - 1 = m + 1 /\ i + y - 1 = b
      BY <1>2, <1>5, <2>1, <3>2
    <3> QED BY <1>7, <3>1, <3>2, <3>3, <3>4
  <2>5. \E p, j \in (m + 1)..b :
           /\ Field(text, p, j) /\ Blank(text, m + 1, p - 1) /\ Blank(text, j + 1, b)
           /\ Trim(SubSeq(text, m + 1, b)) = SubSeq(text, p, j)
    <3>1. ~ Blank(text, m + 1, b)
      BY <1>1, <2>2 DEF Blank
    <3>2. PICK x \in Nat : x = m + 1
      OBVIOUS
    <3>3. 1 <= x /\ ~ Blank(text, x, b)
      BY <3>1, <3>2
    <3>4. \E p, j \in x..b :
           /\ Field(text, p, j) /\ Blank(text, x, p - 1) /\ Blank(text, j + 1, b)
           /\ Trim(SubSeq(text, x, b)) = SubSeq(text, p, j)
      BY <3>3, TrimPart
    <3> QED BY <3>2, <3>4
  <2>6. PICK p \in (m + 1)..b :
           /\ text[p] \notin Blanks /\ Blank(text, m + 1, p - 1)
           /\ Trim(SubSeq(text, m + 1, b)) = SubSeq(text, p, b)
    <3>1. PICK p \in (m + 1)..b, j \in (m + 1)..b :
           /\ Field(text, p, j) /\ Blank(text, m + 1, p - 1) /\ Blank(text, j + 1, b)
           /\ Trim(SubSeq(text, m + 1, b)) = SubSeq(text, p, j)
      BY <2>5
    <3>2. j < b => b \in (j + 1)..b
      OBVIOUS
    <3>3. j = b
      BY <1>1, <3>1, <3>2 DEF Blank
    <3> QED BY <3>1, <3>3 DEF Field
  <2>7. SubSeq(text, p, b) # <<>>
    <3>1. Len(SubSeq(text, p, b)) = b - p + 1
      BY <2>2, PartOf
    <3> QED BY <3>1
  <2>8. <<m, p>> \in Pairs(text, <<i, b>>)
    <3>1. m \in 1..Len(text) /\ p \in 1..Len(text) /\ m < p /\ p <= b
      BY <2>2, <2>6
    <3>3. Field(text, p, b)
      BY <1>1, <2>6, <3>1 DEF Field
    <3>2. Blank(text, m, p - 1)
      BY <1>1, <2>2, <2>6 DEF Blank
    <3> QED BY <2>2, <3>1, <3>2, <3>3 DEF Pairs
  <2>9. ASSUME NEW q \in Pairs(text, <<i, b>>) PROVE q = <<m, p>>
    <3>1. PICK u \in Nat, v \in Nat :
              /\ q = <<u, v>> /\ i < u /\ u < v /\ v <= b
              /\ text[v] \notin Blanks /\ \A n \in i..(u - 1) : text[n] # "SP"
              /\ text[u] = "SP" /\ Blank(text, u, v - 1)
      BY <1>3, <2>9
    <3>2. ~(u < m) /\ ~(m < u)
      BY <2>2, <3>1
    <3>3. u = m
      BY <3>1, <3>2
    <3>4. ~(v < p)
      <4>1. v < p => v \in (m + 1)..(p - 1)
        BY <3>1, <3>3
      <4> QED BY <2>6, <3>1, <4>1 DEF Blank
    <3>5. ~(p < v)
      <4>1. p < v => p \in m..(v - 1)
        BY <2>6, <3>1
      <4> QED BY <2>6, <3>1, <3>3, <4>1 DEF Blank
    <3> QED BY <3>1, <3>3, <3>4, <3>5
  <2>10. Pairs(text, <<i, b>>) = {<<m, p>>}
    BY <2>8, <2>9
  <2>11. m \in 1..Len(text) /\ p \in 1..Len(text) /\ e # 0
    BY <1>5, <2>2, <1>2
  <2> QED BY <2>3, <2>4, <2>6, <2>7, <2>10, <2>11
<1> QED BY <1>4, <1>5, <1>6

\* The table of commands (parseCommand).
LEMMA CommandTable ==
    ASSUME NEW cmd
    PROVE  /\ ParseCommand(cmd) = "PUT" <=> cmd \in {<<"PUT">>, <<"SET">>}
           /\ ParseCommand(cmd) = "GET" <=> cmd = <<"GET">>
           /\ ParseCommand(cmd) = "DELETE" <=> cmd \in {<<"DELETE">>, <<"DEL">>}
<1>1. /\ <<"PUT">> # <<"GET">> /\ <<"PUT">> # <<"DELETE">> /\ <<"PUT">> # <<"DEL">>
      /\ <<"SET">> # <<"GET">> /\ <<"SET">> # <<"DELETE">> /\ <<"SET">> # <<"DEL">>
      /\ <<"GET">> # <<"DELETE">> /\ <<"GET">> # <<"DEL">>
  OBVIOUS
<1>2. CASE cmd \in {<<"PUT">>, <<"SET">>}
  BY <1>1, <1>2 DEF ParseCommand
<1>3. CASE cmd = <<"GET">>
  BY <1>1, <1>3 DEF ParseCommand
<1>4. CASE cmd \in {<<"DELETE">>, <<"DEL">>}
  BY <1>1, <1>4 DEF ParseCommand
<1>5. CASE cmd \notin {<<"PUT">>, <<"SET">>, <<"GET">>, <<"DELETE">>, <<"DEL">>}
  BY <1>5 DEF ParseCommand
<1> QED BY <1>2, <1>3, <1>4, <1>5

\* A line has a command of one word and something behind it exactly when its
\* second solid position follows a space (parse).
LEMMA CommandWord ==
    ASSUME NEW S, NEW text \in Seq(S), NEW a \in Nat, NEW b \in Nat, Bounded(text, a, b)
    PROVE  LET trimmed == SubSeq(text, a, b)
               p == Find(trimmed, "SP")
           IN  \/ /\ p = 2 /\ text[a + 1] = "SP" /\ a + 2 <= b
                  /\ Before(trimmed, p) = <<text[a]>>
                  /\ After(trimmed, p) = SubSeq(text, a + 2, b)
               \/ /\ p # 2 /\ ~(text[a + 1] = "SP" /\ a + 2 <= b)
                  /\ \A w : Before(trimmed, p) = <<w>> => p = 0
<1> DEFINE trimmed == SubSeq(text, a, b)
           p == Find(trimmed, "SP")
           Claim == \/ /\ p = 2 /\ text[a + 1] = "SP" /\ a + 2 <= b
                       /\ Before(trimmed, p) = <<text[a]>>
                       /\ After(trimmed, p) = SubSeq(text, a + 2, b)
                    \/ /\ p # 2 /\ ~(text[a + 1] = "SP" /\ a + 2 <= b)
                       /\ \A w : Before(trimmed, p) = <<w>> => p = 0
<1> SUFFICES Claim
  OBVIOUS
<1>1. /\ 1 <= a /\ a <= b /\ b <= Len(text) /\ "SP" \in Blanks
      /\ text[a] \notin Blanks /\ text[b] \notin Blanks
  BY DEF Bounded, Field, Blanks
<1>2. /\ trimmed \in Seq(S) /\ Len(trimmed) = b - a + 1
      /\ \A n \in 1..(b - a + 1) : trimmed[n] = text[a + n - 1]
  BY <1>1, PartOf
<1>3. \/ p = 0 /\ \A n \in 1..Len(trimmed) : trimmed[n] # "SP"
      \/ /\ p \in 1..Len(trimmed) /\ trimmed[p] = "SP"
         /\ \A n \in 1..(p - 1) : trimmed[n] # "SP"
  BY <1>2, FindPart
<1>4. trimmed = SubSeq(text, a, b)
  OBVIOUS
<1> HIDE DEF trimmed, p
<1>5. trimmed[1] = text[a] /\ trimmed[1] # "SP"
  BY <1>1, <1>2
<1>6. a + 1 <= b => trimmed[2] = text[a + 1]
  BY <1>1, <1>2
<1>7. \A w : Len(<<w>>) = 1
  OBVIOUS
<1>8. CASE p = 0
  <2>1. ~(text[a + 1] = "SP" /\ a + 2 <= b)
    BY <1>1, <1>2, <1>3, <1>6, <1>8
  <2> QED BY <1>8, <2>1
<1>9. CASE p \in 1..Len(trimmed) /\ p # 2
  <2>1. p # 1
    BY <1>3, <1>5, <1>9
  <2>2. p \in 3..Len(trimmed) /\ 2 \in 1..(p - 1) /\ a + 1 <= b
    BY <1>2, <1>9, <2>1
  <2>3. text[a + 1] # "SP"
    BY <1>3, <1>6, <2>2
  <2>4. \A w : Before(trimmed, p) # <<w>>
    <3>1. Before(trimmed, p) = SubSeq(trimmed, 1, p - 1)
      BY <2>2 DEF Before
    <3>2. PICK y \in Nat, x \in Nat : y = p - 1 /\ x = 1
      BY <2>2
    <3>3. x <= y /\ y <= Len(trimmed)
      BY <2>2, <3>2
    <3>4. Len(SubSeq(trimmed, x, y)) = y - x + 1
      BY <1>2, <3>2, <3>3, PartOf
    <3>5. Len(SubSeq(trimmed, x, y)) # 1
      BY <2>2, <3>2, <3>4
    <3> QED BY <1>7, <3>1, <3>2, <3>5
  <2> QED BY <1>9, <2>3, <2>4
<1>10. CASE p = 2
  <2>1. 2 <= b - a + 1 /\ trimmed[2] = "SP"
    BY <1>2, <1>3, <1>10
  <2>2. a + 1 <= b /\ text[a + 1] = "SP"
    BY <1>1, <1>6, <2>1
  <2>3. a + 2 <= b
    BY <1>1, <2>2
  <2>4. Before(trimmed, p) = <<text[a]>>
    <3>1. Before(trimmed, p) = SubSeq(trimmed, 1, 1)
      BY <1>10 DEF Before
    <3> DEFINE s == SubSeq(trimmed, 1, 1)
    <3>2. PICK x \in Nat : x = 1
      OBVIOUS
    <3>3. s \in Seq(S) /\ Len(s) = 1 /\ s[1] = trimmed[1]
      <4>1. /\ SubSeq(trimmed, x, x) \in Seq(S) /\ Len(SubSeq(trimmed, x, x)) = x - x + 1
            /\ \A n \in 1..(x - x + 1) : SubSeq(trimmed, x, x)[n] = trimmed[x + n - 1]
        BY <1>2, <2>1, <3>2, PartOf
      <4> QED BY <3>2, <4>1
    <3> HIDE DEF s
    <3>4. s = <<text[a]>>
      BY <1>5, <3>3
    <3> QED BY <3>1, <3>4 DEF s
  <2>5. After(trimmed, p) = SubSeq(text, a + 2, b)
    <3>1. After(trimmed, p) = SubSeq(trimmed, 3, Len(trimmed))
      BY <1>10 DEF After
    <3>2. PICK x \in Nat, y \in Nat : x = 3 /\ y = Len(trimmed)
      BY <1>2, <2>1
    <3>3. 1 <= x /\ y <= b - a + 1
      BY <1>2, <3>2
    <3>4. SubSeq(SubSeq(text, a, b), x, y) = SubSeq(text, a + x - 1, a + y - 1)
      BY <1>1, <3>3, PartOfPart
    <3>5. a + x - 1 = a + 2 /\ a + y - 1 = b
      BY <1>2, <3>2
    <3> QED BY <1>4, <3>1, <3>2, <3>4, <3>5
  <2> QED BY <1>10, <2>2, <2>3, <2>4, <2>5
<1> QED BY <1>3, <1>8, <1>9, <1>10

\* The requests of a line with this command and these arguments.
LEMMA GrammarOf ==
    ASSUME NEW text, NEW i, NEW b
    PROVE  LET puts == Args(text, {"PUT", "SET"})
               gets == Args(text, {"GET"})
               deletes == Args(text, {"DELETE", "DEL"})
           IN  /\ puts = {} /\ gets = {} /\ deletes = {} => Grammar(text) = {}
               /\ puts = {<<i, b>>} /\ gets = {} /\ deletes = {} =>
                      Grammar(text) = {RequestOf("PUT", SubSeq(text, i, q[1] - 1),
                                           SubSeq(text, q[2], b)) : q \in Pairs(text, <<i, b>>)}
               /\ puts = {} /\ gets = {<<i, b>>} /\ deletes = {} =>
                      Grammar(text) = {RequestOf("GET", SubSeq(text, i, b), <<>>)}
               /\ puts = {} /\ gets = {} /\ deletes = {<<i, b>>} =>
                      Grammar(text) = {RequestOf("DELETE", SubSeq(text, i, b), <<>>)}
<1> DEFINE puts == Args(text, {"PUT", "SET"})
           gets == Args(text, {"GET"})
           deletes == Args(text, {"DELETE", "DEL"})
           P == UNION {{RequestOf("PUT", SubSeq(text, a[1], q[1] - 1),
                                  SubSeq(text, q[2], a[2])) : q \in Pairs(text, a)} :
                           a \in puts}
           G == {RequestOf("GET", SubSeq(text, a[1], a[2]), <<>>) : a \in gets}
           D == {RequestOf("DELETE", SubSeq(text, a[1], a[2]), <<>>) : a \in deletes}
<1>1. Grammar(text) = P \cup G \cup D
  BY DEF Grammar
<1> HIDE DEF puts, gets, deletes
<1>2. /\ puts = {} => P = {}
      /\ gets = {} => G = {}
      /\ deletes = {} => D = {}
  OBVIOUS
<1>3. <<i, b>>[1] = i /\ <<i, b>>[2] = b
  OBVIOUS
<1>4. puts = {<<i, b>>} =>
          P = {RequestOf("PUT", SubSeq(text, i, q[1] - 1),
                         SubSeq(text, q[2], b)) : q \in Pairs(text, <<i, b>>)}
  BY <1>3
<1>5. gets = {<<i, b>>} => G = {RequestOf("GET", SubSeq(text, i, b), <<>>)}
  BY <1>3
<1>6. deletes = {<<i, b>>} => D = {RequestOf("DELETE", SubSeq(text, i, b), <<>>)}
  BY <1>3
<1> HIDE DEF P, G, D
<1>7. /\ puts = {} /\ gets = {} /\ deletes = {} => Grammar(text) = {}
      /\ puts = {<<i, b>>} /\ gets = {} /\ deletes = {} =>
             Grammar(text) = {RequestOf("PUT", SubSeq(text, i, q[1] - 1),
                                  SubSeq(text, q[2], b)) : q \in Pairs(text, <<i, b>>)}
      /\ puts = {} /\ gets = {<<i, b>>} /\ deletes = {} =>
             Grammar(text) = {RequestOf("GET", SubSeq(text, i, b), <<>>)}
      /\ puts = {} /\ gets = {} /\ deletes = {<<i, b>>} =>
             Grammar(text) = {RequestOf("DELETE", SubSeq(text, i, b), <<>>)}
  BY <1>1, <1>2, <1>4, <1>5, <1>6
<1> QED BY <1>7 DEF puts, gets, deletes

\* For every line, the parser returns a PUT, GET or DELETE exactly when the line
\* has that form, with the key and the value the form gives (ProtocolParser::parse).
LEMMA ParserExact ==
    ASSUME NEW S, NEW text \in Seq(S)
    PROVE  {r \in Parse(text) : r.type \in {"PUT", "GET", "DELETE"}} = Grammar(text)
<1> DEFINE n == Len(text)
           Some == {"PUT", "GET", "DELETE"}
           puts == {"PUT", "SET"}
           deletes == {"DELETE", "DEL"}
<1>1. /\ puts \cap Blanks = {} /\ {"GET"} \cap Blanks = {} /\ deletes \cap Blanks = {}
      /\ n \in Nat
  BY DEF Blanks
<1>2. SubSeq(text, 1, n) = text
  BY SubSeqFull
<1>3. Trim(<<>>) = <<>> /\ Find(<<>>, "SP") = 0
  <2>1. {i \in DOMAIN <<>> : <<>>[i] \notin Blanks} = {}
    OBVIOUS
  <2>2. Trim(<<>>) = <<>>
    BY <2>1 DEF Trim
  <2>3. <<>> \in Seq(S) /\ Len(<<>>) = 0
    OBVIOUS
  <2>4. Find(<<>>, "SP") \notin 1..Len(<<>>)
    BY <2>3
  <2> QED BY <2>2, <2>3, <2>4, FindPart
<1>4. \/ Blank(text, 1, n) /\ Trim(text) = <<>>
      \/ \E i, j \in 1..n : /\ Field(text, i, j) /\ Blank(text, 1, i - 1)
                            /\ Blank(text, j + 1, n) /\ Trim(text) = SubSeq(text, i, j)
  <2>1. PICK f \in Nat, g \in Nat : f = 1 /\ g = n
    BY <1>1
  <2>2. \/ Blank(text, f, g) /\ Trim(SubSeq(text, f, g)) = <<>>
        \/ \E i, j \in f..g : /\ Field(text, i, j) /\ Blank(text, f, i - 1)
                              /\ Blank(text, j + 1, g)
                              /\ Trim(SubSeq(text, f, g)) = SubSeq(text, i, j)
    <3>1. 1 <= f /\ g <= Len(text)
      BY <2>1
    <3> QED BY <3>1, TrimPart
  <2> QED BY <1>2, <2>1, <2>2
<1>5. CASE Blank(text, 1, n) /\ Trim(text) = <<>>
  <2>1. Parse(text) = {}
    BY <1>5 DEF Parse
  <2>2. \A names : Args(text, names) = {}
    BY <1>5 DEF Args, Field, Blank
  <2> QED BY <2>1, <2>2 DEF Grammar
<1>6. CASE \E i, j \in 1..n : /\ Field(text, i, j) /\ Blank(text, 1, i - 1)
                              /\ Blank(text, j + 1, n) /\ Trim(text) = SubSeq(text, i, j)
  <2>1. PICK a \in 1..n, b \in 1..n :
            /\ Field(text, a, b) /\ Blank(text, 1, a - 1)
            /\ Blank(text, b + 1, n) /\ Trim(text) = SubSeq(text, a, b)
    BY <1>6
  <2>2. a \in Nat /\ b \in Nat /\ Bounded(text, a, b) /\ text[b] \notin Blanks /\ a <= b
    BY <1>1, <2>1 DEF Bounded, Field
  <2> DEFINE trimmed == SubSeq(text, a, b)
             p == Find(trimmed, "SP")
             type == ParseCommand(Before(trimmed, p))
             rest == Trim(After(trimmed, p))
             e == Find(rest, "SP")
             key == CASE type = "PUT" -> Before(rest, e)
                      [] type \in {"GET", "DELETE"} -> rest
                      [] OTHER -> <<>>
             value == IF type = "PUT" THEN Trim(After(rest, e)) ELSE <<>>
             req == [type |-> type, key |-> key, value |-> value]
             Accepted == /\ trimmed # <<>>
                         /\ type = "PUT" => e # 0 /\ key # <<>> /\ value # <<>>
                         /\ type \in {"GET", "DELETE"} => key # <<>>
  <2>3. Parse(text) = {r \in {req} : Accepted}
    BY <2>1 DEF Parse
  <2>4. trimmed # <<>>
    <3>1. trimmed \in Seq(S) /\ Len(trimmed) # 0
      BY <2>1, <2>2, PartOf
    <3> QED BY <3>1, EmptySeq
  <2>5. /\ type = "PUT" <=> Before(trimmed, p) \in {<<"PUT">>, <<"SET">>}
        /\ type = "GET" <=> Before(trimmed, p) = <<"GET">>
        /\ type = "DELETE" <=> Before(trimmed, p) \in {<<"DELETE">>, <<"DEL">>}
    BY CommandTable
  <2>6. \/ /\ p = 2 /\ text[a + 1] = "SP" /\ a + 2 <= b
           /\ Before(trimmed, p) = <<text[a]>>
           /\ After(trimmed, p) = SubSeq(text, a + 2, b)
        \/ /\ p # 2 /\ ~(text[a + 1] = "SP" /\ a + 2 <= b)
           /\ \A w : Before(trimmed, p) = <<w>> => p = 0
    BY <2>2, CommandWord
  <2> HIDE DEF trimmed
  <2>7. CASE /\ p # 2 /\ ~(text[a + 1] = "SP" /\ a + 2 <= b)
             /\ \A w : Before(trimmed, p) = <<w>> => p = 0
    <3>1. ASSUME NEW names, names \cap Blanks = {} PROVE Args(text, names) = {}
      <4>1. ASSUME NEW x \in Args(text, names) PROVE FALSE
        <5>1. /\ x[1] \in Nat /\ a + 2 <= x[1] /\ x[1] <= b /\ text[a + 1] = "SP"
          BY <2>2, <3>1, ArgsFollow
        <5> QED BY <2>2, <2>7, <5>1
      <4> QED BY <4>1
    <3>2. Grammar(text) = {}
      BY <1>1, <3>1 DEF Grammar
    <3>3. ASSUME type \in Some PROVE ~Accepted
      <4>1. p = 0
        BY <2>5, <2>7, <3>3
      <4>2. rest = <<>> /\ e = 0
        BY <1>3, <4>1 DEF After
      <4> HIDE DEF p, rest, e, type
      <4> QED BY <3>3, <4>2
    <3>4. req.type = type
      OBVIOUS
    <3> HIDE DEF req, type, Accepted
    <3> QED BY <2>3, <3>2, <3>3, <3>4
  <2>8. CASE /\ p = 2 /\ text[a + 1] = "SP" /\ a + 2 <= b
             /\ Before(trimmed, p) = <<text[a]>>
             /\ After(trimmed, p) = SubSeq(text, a + 2, b)
    <3>1. PICK i \in (a + 2)..b :
              /\ text[i] \notin Blanks /\ Blank(text, a + 2, i - 1)
              /\ rest = SubSeq(text, i, b)
      <4>1. PICK f \in Nat : f = a + 2
        BY <2>2
      <4>2. 1 <= f /\ f <= b /\ b <= Len(text) /\ ~Blank(text, f, b)
        BY <2>1, <2>2, <2>8, <4>1 DEF Blank
      <4>3. PICK i \in f..b, j \in f..b :
                /\ Field(text, i, j) /\ Blank(text, f, i - 1) /\ Blank(text, j + 1, b)
                /\ Trim(SubSeq(text, f, b)) = SubSeq(text, i, j)
        BY <2>2, <4>2, TrimPart
      <4>4. j < b => b \in (j + 1)..b
        OBVIOUS
      <4>5. j = b
        BY <2>2, <4>3, <4>4 DEF Blank
      <4> QED BY <2>8, <4>1, <4>3, <4>5 DEF Field
    <3>2. /\ i \in Nat /\ 1 <= i /\ b <= Len(text) /\ Field(text, i, b)
          /\ Blank(text, a + 1, i - 1)
      <4>1. Field(text, i, b)
        BY <2>2, <3>1 DEF Field
      <4>2. "SP" \in Blanks
        BY DEF Blanks
      <4>3. Blank(text, a + 1, i - 1)
        BY <2>2, <2>8, <3>1, <4>2 DEF Blank
      <4> QED BY <2>1, <2>2, <3>1, <4>1, <4>3
    <3>3. ASSUME NEW names, names \cap Blanks = {}
          PROVE  Args(text, names) = IF text[a] \in names THEN {<<i, b>>} ELSE {}
      BY <2>2, <2>8, <3>1, <3>2, <3>3, ArgsOne
    <3>4. /\ type = "PUT" <=> text[a] \in puts
          /\ type = "GET" <=> text[a] \in {"GET"}
          /\ type = "DELETE" <=> text[a] \in deletes
      BY <2>5, <2>8
    <3>5. rest # <<>>
      <4>1. SubSeq(text, i, b) \in Seq(S) /\ Len(SubSeq(text, i, b)) # 0
        BY <2>2, <3>1, <3>2, PartOf
      <4> QED BY <3>1, <4>1, EmptySeq
    <3>11. e = Find(rest, "SP")
      OBVIOUS
    <3> HIDE DEF type, rest, e
    <3>6. \/ e = 0 /\ Pairs(text, <<i, b>>) = {}
          \/ \E m, q \in 1..Len(text) :
                  /\ e # 0 /\ Pairs(text, <<i, b>>) = {<<m, q>>}
                  /\ Before(rest, e) = SubSeq(text, i, m - 1)
                  /\ Before(rest, e) # <<>>
                  /\ Trim(After(rest, e)) = SubSeq(text, q, b)
                  /\ Trim(After(rest, e)) # <<>>
      <4> DEFINE s == SubSeq(text, i, b)
                 d == Find(s, "SP")
      <4>1. \/ d = 0 /\ Pairs(text, <<i, b>>) = {}
            \/ \E m, q \in 1..Len(text) :
                    /\ d # 0 /\ Pairs(text, <<i, b>>) = {<<m, q>>}
                    /\ Before(s, d) = SubSeq(text, i, m - 1)
                    /\ Before(s, d) # <<>>
                    /\ Trim(After(s, d)) = SubSeq(text, q, b)
                    /\ Trim(After(s, d)) # <<>>
        BY <2>2, <3>2, PairsOne
      <4>2. s = rest /\ d = e
        BY <3>1, <3>11
      <4> HIDE DEF s, d
      <4> QED BY <4>1, <4>2
    <3>7. CASE type = "PUT"
      <4>1. /\ Args(text, puts) = {<<i, b>>}
            /\ Args(text, {"GET"}) = {} /\ Args(text, deletes) = {}
        BY <1>1, <3>3, <3>4, <3>7
      <4>2. Grammar(text) = {RequestOf("PUT", SubSeq(text, i, q[1] - 1),
                                       SubSeq(text, q[2], b)) : q \in Pairs(text, <<i, b>>)}
        BY <4>1, GrammarOf
      <4>3. key = Before(rest, e) /\ value = Trim(After(rest, e)) /\ req.type = "PUT"
        BY <3>7
      <4>4. CASE e = 0 /\ Pairs(text, <<i, b>>) = {}
        BY <2>3, <3>7, <4>2, <4>4
      <4>5. ASSUME NEW m \in 1..Len(text), NEW q \in 1..Len(text),
                   /\ e # 0 /\ Pairs(text, <<i, b>>) = {<<m, q>>}
                   /\ Before(rest, e) = SubSeq(text, i, m - 1)
                   /\ Before(rest, e) # <<>>
                   /\ Trim(After(rest, e)) = SubSeq(text, q, b)
                   /\ Trim(After(rest, e)) # <<>>
            PROVE  {r \in Parse(text) : r.type \in Some} = Grammar(text)
        <5>1. Accepted
          BY <2>4, <3>7, <4>3, <4>5
        <5>2. Grammar(text) = {RequestOf("PUT", SubSeq(text, i, m - 1), SubSeq(text, q, b))}
          <6>1. <<m, q>>[1] = m /\ <<m, q>>[2] = q
            OBVIOUS
          <6> QED BY <4>2, <4>5, <6>1
        <5>3. req = RequestOf("PUT", SubSeq(text, i, m - 1), SubSeq(text, q, b))
          BY <3>7, <4>3, <4>5 DEF RequestOf
        <5> HIDE DEF req, Accepted
        <5> QED BY <2>3, <4>3, <5>1, <5>2, <5>3
      <4> QED BY <3>6, <4>4, <4>5
    <3>8. CASE type = "GET"
      <4>1. /\ Args(text, {"GET"}) = {<<i, b>>}
            /\ Args(text, puts) = {} /\ Args(text, deletes) = {}
        BY <1>1, <3>3, <3>4, <3>8
      <4>2. Grammar(text) = {RequestOf("GET", SubSeq(text, i, b), <<>>)}
        BY <4>1, GrammarOf
      <4>3. key = rest /\ value = <<>> /\ req.type = "GET" /\ Accepted
        BY <2>4, <3>5, <3>8
      <4>4. req = RequestOf("GET", SubSeq(text, i, b), <<>>)
        BY <3>1, <3>8, <4>3 DEF RequestOf
      <4> HIDE DEF req, Accepted
      <4> QED BY <2>3, <4>2, <4>3, <4>4
    <3>9. CASE type = "DELETE"
      <4>1. /\ Args(text, deletes) = {<<i, b>>}
            /\ Args(text, puts) = {} /\ Args(text, {"GET"}) = {}
        BY <1>1, <3>3, <3>4, <3>9
      <4>2. Grammar(text) = {RequestOf("DELETE", SubSeq(text, i, b), <<>>)}
        BY <4>1, GrammarOf
      <4>3. key = rest /\ value = <<>> /\ req.type = "DELETE" /\ Accepted
        BY <2>4, <3>5, <3>9
      <4>4. req = RequestOf("DELETE", SubSeq(text, i, b), <<>>)
        BY <3>1, <3>9, <4>3 DEF RequestOf
      <4> HIDE DEF req, Accepted
      <4> QED BY <2>3, <4>2, <4>3, <4>4
    <3>10. CASE type \notin Some
      <4>1. /\ Args(text, deletes) = {} /\ Args(text, puts) = {} /\ Args(text, {"GET"}) = {}
        BY <1>1, <3>3, <3>4, <3>10
      <4>2. Grammar(text) = {}
        BY <4>1, GrammarOf
      <4>3. req.type = type
        OBVIOUS
      <4> HIDE DEF req, Accepted
      <4> QED BY <2>3, <3>10, <4>2, <4>3
    <3> QED BY <3>7, <3>8, <3>9, <3>10
  <2> QED BY <2>6, <2>7, <2>8
<1> QED BY <1>4, <1>5, <1>6

-----------------------------------------------------------------------------
(* The lines of a stream.                                                  *)

\* The symbols of what clients send and of what the server answers.
Symbols ==
    (UNION {Range(l) : l \in Lines})
    \cup {"CR", "LF", "-ERR", "+OK", "+VALUE", "NOT_FOUND", "UNKNOWN_COMMAND",
          "INVALID_COMMAND", "STORED", "DELETED", "PONG", "BYE", "STORE_FAILED",
          "DELETE_FAILED", "INTERNAL_ERROR"}

\* The codes behind -ERR and +OK.
Errors == {"NOT_FOUND", "UNKNOWN_COMMAND", "INVALID_COMMAND", "STORE_FAILED",
           "DELETE_FAILED", "INTERNAL_ERROR"}
Oks == {"STORED", "DELETED", "PONG", "BYE"}

\* How many line ends there are up to a position.
LEMMA UptoSteps ==
    ASSUME NEW s \in Seq(Symbols)
    PROVE  /\ IsFiniteSet(Ends(s)) /\ Cardinality(Ends(s)) \in Nat
           /\ Ends(s) \subseteq 1..Len(s)
           /\ \A i \in Nat : Upto(s, i) \in Nat /\ Upto(s, i) <= Cardinality(Ends(s))
           /\ Upto(s, 0) = 0
           /\ \A i, k \in Nat : /\ i < k /\ k \in Ends(s)
                                /\ \A j \in (i + 1)..(k - 1) : j \notin Ends(s)
                                => Upto(s, k) = Upto(s, i) + 1
           /\ \A i, k \in Nat : i < k /\ k \in Ends(s) => Upto(s, i) < Upto(s, k)
           /\ \A i \in Nat : (\A j \in Ends(s) : j <= i) => Upto(s, i) = Cardinality(Ends(s))
<1> DEFINE E(i) == {j \in Ends(s) : j <= i}
<1>1. Ends(s) \subseteq 1..Len(s) /\ Len(s) \in Nat
  BY DEF Ends
<1>2. IsFiniteSet(Ends(s)) /\ Cardinality(Ends(s)) \in Nat
  <2>1. IsFiniteSet(1..Len(s))
    BY <1>1, FS_Interval
  <2> QED BY <1>1, <2>1, FS_Subset, FS_CardinalityType
<1>3. \A i : IsFiniteSet(E(i)) /\ Cardinality(E(i)) \in Nat
             /\ Cardinality(E(i)) <= Cardinality(Ends(s))
  <2>1. \A i : E(i) \subseteq Ends(s)
    OBVIOUS
  <2> QED BY <1>2, <2>1, FS_Subset, FS_CardinalityType
<1>4. Upto(s, 0) = 0
  <2>1. E(0) = {}
    BY <1>1
  <2> QED BY <2>1, FS_EmptySet DEF Upto
<1>5. ASSUME NEW i \in Nat, NEW k \in Nat, i < k, k \in Ends(s),
             \A j \in (i + 1)..(k - 1) : j \notin Ends(s)
      PROVE  Upto(s, k) = Upto(s, i) + 1
  <2>1. E(k) = E(i) \cup {k} /\ k \notin E(i)
    BY <1>1, <1>5
  <2> HIDE DEF E
  <2>2. Cardinality(E(i) \cup {k}) = Cardinality(E(i)) + 1
    BY <1>3, <2>1, FS_AddElement
  <2> QED BY <2>1, <2>2 DEF Upto, E
<1>6. ASSUME NEW i \in Nat, NEW k \in Nat, i < k, k \in Ends(s)
      PROVE  Upto(s, i) < Upto(s, k)
  <2>1. E(i) \subseteq E(k) /\ E(i) # E(k)
    BY <1>1, <1>6
  <2> HIDE DEF E
  <2>2. Cardinality(E(i)) < Cardinality(E(k))
    BY <1>3, <2>1, FS_Subset
  <2> QED BY <2>2 DEF Upto, E
<1>7. ASSUME NEW i \in Nat, \A j \in Ends(s) : j <= i PROVE Upto(s, i) = Cardinality(Ends(s))
  <2>1. E(i) = Ends(s)
    BY <1>7
  <2> QED BY <2>1 DEF Upto
<1> QED BY <1>1, <1>2, <1>3, <1>4, <1>5, <1>6, <1>7 DEF Upto

\* A line end is found by its number.
LEMMA EndNumber ==
    ASSUME NEW s \in Seq(Symbols), NEW i \in Ends(s) \cup {0}
    PROVE  EndOf(s, Upto(s, i)) = i
<1>1. \A k \in Ends(s) \cup {0} : k \in Nat
  BY UptoSteps
<1>2. ASSUME NEW k \in Ends(s) \cup {0}, Upto(s, k) = Upto(s, i) PROVE k = i
  <2>1. i < k => Upto(s, i) < Upto(s, k)
    BY <1>1, UptoSteps
  <2>2. k < i => Upto(s, k) < Upto(s, i)
    BY <1>1, UptoSteps
  <2>3. Upto(s, i) \in Nat /\ Upto(s, k) \in Nat
    BY <1>1, UptoSteps
  <2> QED BY <1>1, <1>2, <2>1, <2>2, <2>3
<1> QED BY <1>2 DEF EndOf

\* Every number up to that of the last line end is the number of one.
LEMMA EndExists ==
    ASSUME NEW s \in Seq(Symbols), NEW n \in Nat, n <= Cardinality(Ends(s))
    PROVE  \E i \in Ends(s) \cup {0} : Upto(s, i) = n
<1>1. CASE n = 0
  BY <1>1, UptoSteps
<1>2. CASE n # 0
  <2> DEFINE Q == {i \in Ends(s) : n <= Upto(s, i)}
  <2>1. /\ Ends(s) \subseteq Nat /\ Len(s) \in Nat
        /\ \A j \in Ends(s) : 1 <= j /\ j <= Len(s)
    BY UptoSteps
  <2>2. Ends(s) # {}
    <3> SUFFICES ASSUME Ends(s) = {} PROVE FALSE
      OBVIOUS
    <3>1. Cardinality(Ends(s)) = 0
      BY FS_EmptySet
    <3> QED BY <1>2, <3>1
  <2>3. PICK z \in Ends(s) : \A j \in Ends(s) : j <= z
    BY <2>1, <2>2, LargestNatural
  <2>4. Upto(s, z) = Cardinality(Ends(s))
    BY <2>1, <2>3, UptoSteps
  <2>5. Q \in SUBSET Nat /\ Q # {}
    BY <2>1, <2>3, <2>4
  <2>6. PICK i \in Q : \A k \in Q : i <= k
    BY <2>5, LeastNatural
  <2>7. i \in Nat /\ i \in Ends(s) /\ n <= Upto(s, i) /\ Upto(s, i) \in Nat
    BY <2>1, UptoSteps
  <2>8. ASSUME Upto(s, i) # n PROVE FALSE
    <3> DEFINE B == {j \in Ends(s) \cup {0} : j < i}
    <3>1. 0 \in B /\ B \in SUBSET Nat /\ \A j \in B : j <= i
      BY <2>1, <2>7
    <3>2. PICK k \in B : \A j \in B : j <= k
      BY <2>7, <3>1, LargestNatural
    <3>3. k \in Nat /\ k < i /\ \A j \in (k + 1)..(i - 1) : j \notin Ends(s)
      BY <2>1, <2>7, <3>1, <3>2
    <3>4. Upto(s, i) = Upto(s, k) + 1
      BY <2>7, <3>3, UptoSteps
    <3>5. Upto(s, k) \in Nat
      BY <3>3, UptoSteps
    <3>6. n <= Upto(s, k)
      BY <2>7, <2>8, <3>4, <3>5
    <3>7. k # 0
      BY <1>2, <3>6, UptoSteps
    <3>8. k \in Q
      BY <3>6, <3>7
    <3> QED BY <2>6, <2>7, <3>3, <3>8
  <2> QED BY <2>7, <2>8
<1> QED BY <1>1, <1>2

\* A line of a stream lies between two line ends with none between them.
LEMMA LineBetween ==
    ASSUME NEW s \in Seq(Symbols), NEW i \in Ends(s) \cup {0}, NEW k \in Ends(s), i < k,
           \A j \in (i + 1)..(k - 1) : j \notin Ends(s)
    PROVE  /\ Upto(s, k) = Upto(s, i) + 1 /\ Upto(s, i) \in Nat
           /\ Upto(s, k) \in 1..Len(LinesOf(s))
           /\ LinesOf(s)[Upto(s, i) + 1] = SubSeq(s, i + 1, k - 1)
<1>1. i \in Nat /\ k \in Nat
  <2>1. Ends(s) \subseteq 1..Len(s)
    BY UptoSteps
  <2>2. 1..Len(s) \subseteq Nat
    OBVIOUS
  <2> QED BY <2>1, <2>2
<1>2. /\ Upto(s, k) = Upto(s, i) + 1 /\ Upto(s, i) \in Nat
      /\ Upto(s, k) <= Cardinality(Ends(s)) /\ Cardinality(Ends(s)) \in Nat
  BY <1>1, UptoSteps
<1>3. EndOf(s, Upto(s, i)) = i /\ EndOf(s, Upto(s, k)) = k
  BY EndNumber
<1>4. PICK n \in Nat : n = Upto(s, k)
  BY <1>2
<1>5. n \in 1..Cardinality(Ends(s)) /\ n - 1 = Upto(s, i)
  BY <1>2, <1>4
<1>6. LinesOf(s)[n] = SubSeq(s, EndOf(s, n - 1) + 1, EndOf(s, n) - 1)
  BY <1>5 DEF LinesOf
<1>7. Len(LinesOf(s)) = Cardinality(Ends(s))
  BY <1>2 DEF LinesOf
<1> QED BY <1>2, <1>3, <1>4, <1>5, <1>6, <1>7

\* Sequences that agree on a part.
LEMMA PartSame ==
    ASSUME NEW s \in Seq(Symbols), NEW u \in Seq(Symbols), Len(s) <= Len(u),
           \A i \in 1..Len(s) : u[i] = s[i],
           NEW x \in Int, NEW y \in Int, 1 <= x, y <= Len(s)
    PROVE  SubSeq(u, x, y) = SubSeq(s, x, y)
<1> DEFINE p == SubSeq(s, x, y)
           q == SubSeq(u, x, y)
<1>1. \A i \in x..y : s[i] \in Symbols /\ u[i] \in Symbols /\ u[i] = s[i]
  OBVIOUS
<1>2. /\ p \in Seq(Symbols) /\ Len(p) = IF x <= y THEN y - x + 1 ELSE 0
      /\ \A i \in 1..(y - x + 1) : p[i] = s[x + i - 1]
  BY <1>1, SubSeqProperties
<1>3. /\ q \in Seq(Symbols) /\ Len(q) = IF x <= y THEN y - x + 1 ELSE 0
      /\ \A i \in 1..(y - x + 1) : q[i] = u[x + i - 1]
  BY <1>1, SubSeqProperties
<1> HIDE DEF p, q
<1>4. ASSUME NEW i \in 1..Len(p) PROVE p[i] = q[i]
  <2>1. i \in 1..(y - x + 1) /\ x + i - 1 \in x..y
    BY <1>2
  <2>2. p[i] = s[x + i - 1] /\ q[i] = u[x + i - 1]
    BY <1>2, <1>3, <2>1
  <2> QED BY <1>1, <2>1, <2>2
<1>5. p = q
  BY <1>2, <1>3, <1>4, SeqEqual
<1> QED BY <1>5 DEF p, q

\* What is behind a stream does not change its lines.
LEMMA LinesExtend ==
    ASSUME NEW s \in Seq(Symbols), NEW t \in Seq(Symbols)
    PROVE  /\ Ends(s) \subseteq Ends(s \o t)
           /\ \A i \in 1..Len(s) : i \in Ends(s \o t) <=> i \in Ends(s)
           /\ \A i \in 0..Len(s) : Upto(s \o t, i) = Upto(s, i)
           /\ Len(LinesOf(s)) = Cardinality(Ends(s))
           /\ Len(LinesOf(s)) \in Nat /\ Len(LinesOf(s \o t)) \in Nat
           /\ Len(LinesOf(s)) <= Len(LinesOf(s \o t))
           /\ \A n \in 1..Len(LinesOf(s)) : LinesOf(s \o t)[n] = LinesOf(s)[n]
<1>9. PICK u \in Seq(Symbols) : u = s \o t
  BY ConcatProperties
<1>1. /\ u \in Seq(Symbols) /\ Len(u) = Len(s) + Len(t) /\ Len(s) \in Nat /\ Len(t) \in Nat
      /\ \A i \in 1..Len(s) : u[i] = s[i]
  BY <1>9, ConcatProperties
<1>2. \A i \in 1..Len(s) : i \in Ends(u) <=> i \in Ends(s)
  BY <1>1 DEF Ends
<1>3. Ends(s) \subseteq Ends(u) /\ Ends(s) \subseteq 1..Len(s)
  BY <1>2, UptoSteps
<1>4. ASSUME NEW i \in 0..Len(s) PROVE Upto(u, i) = Upto(s, i)
  <2>1. {j \in Ends(u) : j <= i} = {j \in Ends(s) : j <= i}
    <3>1. Ends(u) \subseteq 1..Len(u)
      BY <1>1, UptoSteps
    <3> QED BY <1>1, <1>2, <1>3, <3>1
  <2> QED BY <2>1 DEF Upto
<1>5. /\ Cardinality(Ends(s)) \in Nat /\ Cardinality(Ends(u)) \in Nat
      /\ Cardinality(Ends(s)) <= Cardinality(Ends(u))
  <2>1. IsFiniteSet(Ends(u)) /\ Cardinality(Ends(u)) \in Nat /\ Cardinality(Ends(s)) \in Nat
    BY <1>1, UptoSteps
  <2> QED BY <1>3, <2>1, FS_Subset
<1>6. Len(LinesOf(s)) = Cardinality(Ends(s)) /\ Len(LinesOf(u)) = Cardinality(Ends(u))
  BY <1>5 DEF LinesOf
<1>7. ASSUME NEW n \in Nat, n <= Cardinality(Ends(s))
      PROVE  EndOf(u, n) = EndOf(s, n) /\ EndOf(s, n) \in 0..Len(s)
  <2>1. PICK i \in Ends(s) \cup {0} : Upto(s, i) = n
    BY <1>7, EndExists
  <2>2. i \in 0..Len(s) /\ i \in Ends(u) \cup {0}
    BY <1>1, <1>3
  <2>3. Upto(u, i) = n
    BY <1>4, <2>1, <2>2
  <2>4. EndOf(s, Upto(s, i)) = i
    BY EndNumber
  <2>5. EndOf(u, Upto(u, i)) = i
    BY <1>1, <2>2, EndNumber
  <2> QED BY <2>1, <2>2, <2>3, <2>4, <2>5
<1>8. ASSUME NEW n \in 1..Len(LinesOf(s)) PROVE LinesOf(u)[n] = LinesOf(s)[n]
  <2>1. n \in 1..Cardinality(Ends(s)) /\ n \in 1..Cardinality(Ends(u))
    BY <1>5, <1>6
  <2>2. PICK m \in Nat, k \in Nat : m = n - 1 /\ k = n
    BY <2>1
  <2>3. EndOf(u, m) = EndOf(s, m) /\ EndOf(s, m) \in 0..Len(s)
        /\ EndOf(u, k) = EndOf(s, k) /\ EndOf(s, k) \in 0..Len(s)
    BY <1>5, <1>7, <2>1, <2>2
  <2>4. /\ LinesOf(u)[n] = SubSeq(u, EndOf(u, n - 1) + 1, EndOf(u, n) - 1)
        /\ LinesOf(s)[n] = SubSeq(s, EndOf(s, n - 1) + 1, EndOf(s, n) - 1)
    BY <2>1 DEF LinesOf
  <2>5. PICK x \in Int, y \in Int : x = EndOf(s, m) + 1 /\ y = EndOf(s, k) - 1
    BY <2>3
  <2>6. 1 <= x /\ y <= Len(s) /\ Len(s) <= Len(u)
    BY <1>1, <2>3, <2>5
  <2>7. SubSeq(u, x, y) = SubSeq(s, x, y)
    BY <1>1, <2>6, PartSame
  <2> QED BY <2>2, <2>3, <2>4, <2>5, <2>7
<1> QED BY <1>2, <1>3, <1>4, <1>5, <1>6, <1>8, <1>9

-----------------------------------------------------------------------------
(* One turn of run(): what is stored, and what is answered.                *)

\* A line without its line end, or a part of it; what the engine may hold, and
\* what it may do; and a serialised response.
Plain == {s \in Seq(Symbols) : \A i \in 1..Len(s) : s[i] # "LF"}
Stored(kv) == \A k \in DOMAIN kv : k # <<>> /\ kv[k] # {} /\ kv[k] \subseteq Plain
Outcome == [how : {"done", "false", "throws"}, found : Plain]
Serialised == {r \in Seq(Symbols) : Ends(r) = {Len(r)}}

\* What substr(), trim() and getline() take of a line has no line end either.
LEMMA PlainParts ==
    ASSUME NEW s \in Plain, NEW c
    PROVE  /\ Trim(s) \in Plain /\ StripCR(s) \in Plain
           /\ Before(s, Find(s, c)) \in Plain /\ After(s, Find(s, c)) \in Plain
<1>1. s \in Seq(Symbols) /\ Len(s) \in Nat /\ \A i \in 1..Len(s) : s[i] # "LF"
  BY DEF Plain
<1>2. ASSUME NEW f \in Nat, NEW g \in Nat, 1 <= f, g <= Len(s)
      PROVE  SubSeq(s, f, g) \in Plain
  <2> DEFINE p == SubSeq(s, f, g)
  <2>1. /\ p \in Seq(Symbols) /\ Len(p) = IF f <= g THEN g - f + 1 ELSE 0
        /\ \A i \in 1..(g - f + 1) : p[i] = s[f + i - 1]
    BY <1>1, <1>2, PartOf
  <2> HIDE DEF p
  <2>2. ASSUME NEW i \in 1..Len(p) PROVE p[i] # "LF"
    <3>1. i \in 1..(g - f + 1) /\ f + i - 1 \in 1..Len(s)
      BY <1>1, <1>2, <2>1
    <3> QED BY <1>1, <2>1, <3>1
  <2>3. p \in Plain
    BY <2>1, <2>2 DEF Plain
  <2> QED BY <2>3 DEF p
<1>3. <<>> \in Plain
  BY DEF Plain
<1>4. Trim(s) \in Plain
  <2>1. PICK f \in Nat, g \in Nat : f = 1 /\ g = Len(s)
    BY <1>1
  <2>2. SubSeq(s, f, g) = s
    BY <1>1, <2>1, SubSeqFull
  <2>3. \/ Trim(s) = <<>>
        \/ \E i, j \in f..g : Field(s, i, j) /\ Trim(s) = SubSeq(s, i, j)
    <3>1. 1 <= f /\ g <= Len(s)
      BY <2>1
    <3>2. \/ Blank(s, f, g) /\ Trim(SubSeq(s, f, g)) = <<>>
          \/ \E i, j \in f..g :
                 /\ Field(s, i, j) /\ Blank(s, f, i - 1) /\ Blank(s, j + 1, g)
                 /\ Trim(SubSeq(s, f, g)) = SubSeq(s, i, j)
      BY <1>1, <3>1, TrimPart
    <3> QED BY <2>2, <3>2
  <2>4. CASE Trim(s) = <<>>
    BY <1>3, <2>4
  <2>5. CASE \E i, j \in f..g : Field(s, i, j) /\ Trim(s) = SubSeq(s, i, j)
    <3>1. PICK i \in f..g, j \in f..g : Trim(s) = SubSeq(s, i, j)
      BY <2>5
    <3>2. i \in Nat /\ j \in Nat /\ 1 <= i /\ j <= Len(s)
      BY <1>1, <2>1
    <3> QED BY <1>2, <3>1, <3>2
  <2> QED BY <2>3, <2>4, <2>5
<1>5. StripCR(s) \in Plain
  <2>1. CASE s # <<>> /\ Last(s) = "CR"
    <3>1. Len(s) # 0
      BY <1>1, <2>1
    <3>2. PICK f \in Nat, g \in Nat : f = 1 /\ g = Len(s) - 1
      BY <1>1, <3>1
    <3>3. SubSeq(s, f, g) \in Plain
      BY <1>1, <1>2, <3>2
    <3> QED BY <2>1, <3>2, <3>3 DEF StripCR, Front
  <2>2. CASE ~(s # <<>> /\ Last(s) = "CR")
    BY <2>2 DEF StripCR
  <2> QED BY <2>1, <2>2
<1>6. PICK e \in 0..Len(s) : e = Find(s, c)
  <2>1. 0 \in 0..Len(s)
    BY <1>1
  <2> QED BY <1>1, <2>1, FindPart
<1>7. Before(s, e) \in Plain
  <2>1. CASE e = 0
    BY <2>1 DEF Before
  <2>2. CASE e # 0
    <3>1. PICK f \in Nat, g \in Nat : f = 1 /\ g = e - 1
      BY <1>1, <2>2
    <3>2. SubSeq(s, f, g) \in Plain
      BY <1>1, <1>2, <3>1
    <3> QED BY <2>2, <3>1, <3>2 DEF Before
  <2> QED BY <2>1, <2>2
<1>8. After(s, e) \in Plain
  <2>1. CASE e = 0
    BY <1>3, <2>1 DEF After
  <2>2. CASE e # 0
    <3>3. e + 1 \in Nat
      BY <1>1
    <3>1. PICK f \in Nat, g \in Nat : f = e + 1 /\ g = Len(s)
      BY <1>1, <3>3
    <3>2. SubSeq(s, f, g) \in Plain
      BY <1>1, <1>2, <3>1
    <3> QED BY <2>2, <3>1, <3>2 DEF After
  <2> QED BY <2>1, <2>2
<1> QED BY <1>4, <1>5, <1>6, <1>7, <1>8

\* A request of a line has a key where it needs one, and a value to store.
LEMMA ParseOk ==
    ASSUME NEW l \in Plain, NEW r \in Parse(l)
    PROVE  /\ r.type \in {"PUT", "GET", "DELETE", "PING", "QUIT", "UNKNOWN"}
           /\ r.type \in {"PUT", "DELETE"} => r.key # <<>>
           /\ r.type = "PUT" => r.value \in Plain
<1> DEFINE trimmed == Trim(l)
           p == Find(trimmed, "SP")
           type == ParseCommand(Before(trimmed, p))
           rest == Trim(After(trimmed, p))
           e == Find(rest, "SP")
           key == CASE type = "PUT" -> Before(rest, e)
                    [] type \in {"GET", "DELETE"} -> rest
                    [] OTHER -> <<>>
           value == IF type = "PUT" THEN Trim(After(rest, e)) ELSE <<>>
<1>1. Trim(After(rest, e)) \in Plain
  <2>1. trimmed \in Plain
    BY PlainParts
  <2> HIDE DEF trimmed
  <2>2. After(trimmed, p) \in Plain
    BY <2>1, PlainParts
  <2>3. rest \in Plain
    BY <2>2, PlainParts
  <2> HIDE DEF rest
  <2>4. After(rest, e) \in Plain
    BY <2>3, PlainParts
  <2> QED BY <2>4, PlainParts
<1>2. type \in {"PUT", "GET", "DELETE", "PING", "QUIT", "UNKNOWN"}
  BY DEF ParseCommand
<1> DEFINE req == [type |-> type, key |-> key, value |-> value]
<1> HIDE DEF trimmed, p, type, rest, e, key
<1>3. Parse(l) = {q \in {req} : /\ trimmed # <<>>
                                /\ type = "PUT" => e # 0 /\ q.key # <<>> /\ q.value # <<>>
                                /\ type \in {"GET", "DELETE"} => q.key # <<>>}
  BY DEF Parse, trimmed, p, type, rest, e, key
<1>4. r = req /\ (type \in {"PUT", "DELETE"} => r.key # <<>>)
  BY <1>3
<1>5. r.type = type /\ r.value = value
  BY <1>4
<1> QED BY <1>1, <1>2, <1>4, <1>5

\* The pieces a response is serialised from.
LEMMA Four ==
    ASSUME NEW S, NEW a \in S, NEW b \in S, NEW c \in S, NEW d \in S
    PROVE  /\ <<a>> \in Seq(S) /\ Len(<<a>>) = 1 /\ <<a>>[1] = a
           /\ <<a, b>> \in Seq(S) /\ Len(<<a, b>>) = 2 /\ <<a, b>>[1] = a /\ <<a, b>>[2] = b
           /\ <<a, b, c, d>> \in Seq(S) /\ Len(<<a, b, c, d>>) = 4
<1>1. <<a>> \in Seq(S) /\ Len(<<a>>) = 1 /\ <<a>>[1] = a
  OBVIOUS
<1>2. <<a, b>> \in Seq(S) /\ Len(<<a, b>>) = 2 /\ <<a, b>>[1] = a /\ <<a, b>>[2] = b
  OBVIOUS
<1>3. <<a, b, c, d>> \in Seq(S)
  OBVIOUS
<1>4. Len(<<a, b, c, d>>) = 4
  OBVIOUS
<1> QED BY <1>1, <1>2, <1>3, <1>4

\* Every response ends with the only line end in it (Response::serialize).
LEMMA ResponseOk ==
    /\ \A m \in Errors : Error(m) \in Serialised
    /\ \A m \in Oks : Ok(m) \in Serialised
    /\ \A v \in Plain : ValueResponse(v) \in Serialised
<1>1. ASSUME NEW a \in Symbols, NEW m \in Symbols, a # "LF", m # "LF"
      PROVE  <<a, m, "CR", "LF">> \in Serialised
  <2> DEFINE s == <<a, m, "CR", "LF">>
  <2>5. "CR" \in Symbols /\ "LF" \in Symbols
    BY DEF Symbols
  <2>1. s \in Seq(Symbols)
    BY <2>5, Four
  <2>6. Len(s) = 4
    BY <2>5, Four
  <2>2. s[1] = a /\ s[2] = m /\ s[3] = "CR" /\ s[4] = "LF"
    OBVIOUS
  <2>3. DOMAIN s = 1..4
    BY <2>1, <2>6
  <2> HIDE DEF s
  <2>4. Ends(s) = {4}
    BY <1>1, <2>2, <2>3 DEF Ends
  <2> QED BY <2>1, <2>4, <2>6 DEF Serialised, s
<1>2. ASSUME NEW v \in Plain PROVE ValueResponse(v) \in Serialised
  <2> DEFINE a == <<"+VALUE">>
             b == <<"CR", "LF">>
             x == a \o v
             y == x \o b
  <2>1. v \in Seq(Symbols) /\ Len(v) \in Nat /\ \A i \in 1..Len(v) : v[i] # "LF"
    BY DEF Plain
  <2>12. "+VALUE" \in Symbols /\ "CR" \in Symbols /\ "LF" \in Symbols
    BY DEF Symbols
  <2>2. a \in Seq(Symbols) /\ Len(a) = 1 /\ a[1] = "+VALUE"
    BY <2>12, Four
  <2>3. b \in Seq(Symbols) /\ Len(b) = 2 /\ b[1] = "CR" /\ b[2] = "LF"
    BY <2>12, Four
  <2> HIDE DEF a, b
  <2>13. /\ x \in Seq(Symbols) /\ Len(x) = Len(a) + Len(v)
         /\ \A i \in 1..(Len(a) + Len(v)) : x[i] = IF i <= Len(a) THEN a[i] ELSE v[i - Len(a)]
    BY <2>1, <2>2, ConcatProperties
  <2> HIDE DEF x
  <2>4. /\ x \in Seq(Symbols) /\ Len(x) = 1 + Len(v)
        /\ \A i \in 1..(1 + Len(v)) : x[i] = IF i <= 1 THEN a[i] ELSE v[i - 1]
    BY <2>2, <2>13
  <2>14. /\ y \in Seq(Symbols) /\ Len(y) = Len(x) + Len(b)
         /\ \A i \in 1..(Len(x) + Len(b)) : y[i] = IF i <= Len(x) THEN x[i] ELSE b[i - Len(x)]
    BY <2>3, <2>4, ConcatProperties
  <2> HIDE DEF y
  <2>5. /\ y \in Seq(Symbols) /\ Len(y) = 1 + Len(v) + 2
        /\ \A i \in 1..(1 + Len(v) + 2) :
               y[i] = IF i <= 1 + Len(v) THEN x[i] ELSE b[i - (1 + Len(v))]
    BY <2>3, <2>4, <2>14
  <2>6. \A i \in 1..(1 + Len(v)) : x[i] # "LF"
    BY <2>1, <2>2, <2>4
  <2>7. y[2 + Len(v)] = "CR" /\ y[3 + Len(v)] = "LF"
    BY <2>1, <2>3, <2>5
  <2>8. \A i \in 1..(2 + Len(v)) : y[i] # "LF"
    BY <2>1, <2>5, <2>6, <2>7
  <2>9. DOMAIN y = 1..(3 + Len(v))
    BY <2>1, <2>5
  <2>10. Ends(y) = {3 + Len(v)}
    BY <2>1, <2>7, <2>8, <2>9 DEF Ends
  <2>11. y \in Serialised
    BY <2>1, <2>5, <2>10 DEF Serialised
  <2> QED BY <2>11 DEF ValueResponse, a, b, x, y
<1>3. \A m \in Errors : Error(m) \in Serialised
  <2>1. \A m \in Errors : m \in Symbols /\ m # "LF"
    BY DEF Symbols, Errors
  <2>2. "-ERR" \in Symbols /\ "-ERR" # "LF"
    BY DEF Symbols
  <2> QED BY <1>1, <2>1, <2>2 DEF Error
<1>4. \A m \in Oks : Ok(m) \in Serialised
  <2>1. \A m \in Oks : m \in Symbols /\ m # "LF"
    BY DEF Symbols, Oks
  <2>2. "+OK" \in Symbols /\ "+OK" # "LF"
    BY DEF Symbols
  <2> QED BY <1>1, <2>1, <2>2 DEF Ok
<1> QED BY <1>2, <1>3, <1>4

\* What a key may hold, and so what is found under it, is a part of a line.
LEMMA FoundOk ==
    ASSUME NEW kv, Stored(kv), NEW key, NEW req
    PROVE  /\ Found(kv, key) # {} /\ Found(kv, key) \subseteq Plain
           /\ EngineMay(req, kv) \subseteq Outcome
<1>1. \A k : Found(kv, k) # {} /\ Found(kv, k) \subseteq Plain
  <2>1. <<>> \in Plain
    BY DEF Plain
  <2> QED BY <2>1 DEF Stored, Found
<1>2. {<<>>} \subseteq Plain
  BY DEF Plain
<1>3. EngineMay(req, kv) \subseteq Outcome
  <2>1. \A H \in SUBSET {"done", "false", "throws"}, F \in SUBSET Plain :
            [how : H, found : F] \subseteq Outcome
    BY DEF Outcome
  <2>2. /\ {"done", "false", "throws"} \in SUBSET {"done", "false", "throws"}
        /\ {"done", "throws"} \in SUBSET {"done", "false", "throws"}
        /\ {"done"} \in SUBSET {"done", "false", "throws"}
    OBVIOUS
  <2>3. PICK F \in SUBSET Plain : F = Found(kv, req.key)
    BY <1>1
  <2>4. CASE req.type = "PUT"
    BY <1>2, <2>1, <2>2, <2>4 DEF EngineMay
  <2>5. CASE req.type = "GET"
    BY <2>1, <2>2, <2>3, <2>5 DEF EngineMay
  <2>6. CASE req.type = "DELETE"
    BY <2>1, <2>2, <2>3, <2>6 DEF EngineMay
  <2>7. CASE req.type \notin {"PUT", "GET", "DELETE"}
    BY <1>2, <2>1, <2>2, <2>7 DEF EngineMay
  <2> QED BY <2>4, <2>5, <2>6, <2>7
<1> QED BY <1>1, <1>3

\* Executing a request of a line keeps the store and answers with one line,
\* whatever the engine does.
LEMMA ExecuteOk ==
    ASSUME NEW l \in Plain, NEW req \in Parse(l), NEW kv, Stored(kv), NEW r \in Outcome
    PROVE  Stored(Execute(req, kv, r).kv) /\ Execute(req, kv, r).response \in Serialised
<1>1. /\ req.type \in {"PUT", "GET", "DELETE", "PING", "QUIT", "UNKNOWN"}
      /\ req.type \in {"PUT", "DELETE"} => req.key # <<>>
      /\ req.type = "PUT" => req.value \in Plain
  BY ParseOk
<1>2. r.how \in {"done", "false", "throws"} /\ r.found \in Plain
  BY DEF Outcome
<1>3. Answer(req, r) \in Serialised
  <2>1. \/ \E m \in Errors : Answer(req, r) = Error(m)
        \/ \E m \in Oks : Answer(req, r) = Ok(m)
        \/ Answer(req, r) = ValueResponse(r.found)
    BY <1>1 DEF Answer, Errors, Oks
  <2> QED BY <1>2, <2>1, ResponseOk
<1>4. ASSUME NEW x \in Plain, req.key # <<>> PROVE Stored(Written(kv, req.key, x, r))
  <2>1. PICK F \in SUBSET Plain : F = Found(kv, req.key)
    BY FoundOk
  <2>2. PICK G \in SUBSET Plain :
            G # {} /\ G = IF r.how = "done" THEN {x} ELSE Found(kv, req.key) \cup {x}
    BY <2>1
  <2>3. Written(kv, req.key, x, r) = With(kv, req.key, G)
    BY <2>2 DEF Written
  <2> QED BY <1>4, <2>2, <2>3 DEF Stored, With
<1>5. <<>> \in Plain
  BY DEF Plain
<1>6. /\ req.type = "PUT" => Execute(req, kv, r).kv = Written(kv, req.key, req.value, r)
      /\ req.type = "DELETE" => Execute(req, kv, r).kv = Written(kv, req.key, <<>>, r)
      /\ req.type \notin {"PUT", "DELETE"} => Execute(req, kv, r).kv = kv
      /\ Execute(req, kv, r).response = Answer(req, r)
  BY DEF Execute
<1> QED BY <1>1, <1>3, <1>4, <1>5, <1>6

\* What clients send has its line ends at the ends of the lines, and every line
\* is one run() is ready for.
LEMMA LineOk ==
    ASSUME ConnectionAssumption, NEW m \in Lines
    PROVE  /\ m \in Seq(Symbols) /\ Ends(m) = {Len(m)} /\ Len(m) \in Nat
           /\ Front(m) \in Plain /\ StripCR(Front(m)) \in Plain
           /\ Parsed[StripCR(Front(m))] = Parse(StripCR(Front(m)))
<1>1. /\ m \in Seq(Symbols) /\ Len(m) \in Nat /\ Len(m) > 0 /\ m[Len(m)] = "LF"
      /\ \A i \in 1..(Len(m) - 1) : m[i] # "LF"
  <2>1. m \in Seq(STRING) /\ m[Len(m)] = "LF" /\ Len(m) > 0
        /\ \A i \in 1..(Len(m) - 1) : m[i] # "LF"
    BY DEF ConnectionAssumption, Last
  <2>2. m \in Seq(Range(m))
    BY <2>1, SeqOfRange
  <2>3. Range(m) \subseteq Symbols
    BY DEF Symbols
  <2>4. m \in Seq(Symbols)
    BY <2>2, <2>3, SeqMonotonic
  <2> QED BY <2>1, <2>4
<1>2. Ends(m) = {Len(m)}
  BY <1>1 DEF Ends
<1>3. Front(m) \in Plain
  <2> DEFINE p == SubSeq(m, 1, Len(m) - 1)
  <2>5. 1 \in Nat /\ Len(m) - 1 \in Nat
    BY <1>1
  <2>1. PICK f \in Nat, g \in Nat : f = 1 /\ g = Len(m) - 1
    BY <2>5
  <2>2. /\ SubSeq(m, f, g) \in Seq(Symbols)
        /\ Len(SubSeq(m, f, g)) = IF f <= g THEN g - f + 1 ELSE 0
        /\ \A i \in 1..(g - f + 1) : SubSeq(m, f, g)[i] = m[f + i - 1]
    <3>1. 1 <= f /\ g <= Len(m)
      BY <1>1, <2>1
    <3> QED BY <1>1, <3>1, PartOf
  <2>3. p \in Seq(Symbols) /\ Len(p) = g /\ \A i \in 1..g : p[i] = m[i]
    BY <2>1, <2>2
  <2> HIDE DEF p
  <2>4. p \in Plain
    BY <1>1, <2>1, <2>3 DEF Plain
  <2> QED BY <2>4 DEF p, Front
<1>4. StripCR(Front(m)) \in Plain
  BY <1>3, PlainParts
<1>5. Parsed[StripCR(Front(m))] = Parse(StripCR(Front(m)))
  BY DEF Parsed
<1> QED BY <1>1, <1>2, <1>3, <1>4, <1>5

\* A turn of run() keeps the store and answers with one line.
LEMMA HandleOk ==
    ASSUME ConnectionAssumption, NEW m \in Lines, NEW kv, Stored(kv), NEW r \in Outcome
    PROVE  LET l == StripCR(Front(m))
           IN  Stored(Handle(l, kv, r).kv) /\ Handle(l, kv, r).response \in Serialised
<1> DEFINE l == StripCR(Front(m))
<1>1. l \in Plain /\ Parsed[l] = Parse(l)
  BY LineOk
<1> HIDE DEF l
<1>2. CASE Parse(l) = {}
  <2>1. Handle(l, kv, r) = [kv |-> kv, response |-> Error("INVALID_COMMAND")]
    BY <1>1, <1>2 DEF Handle
  <2> QED BY <2>1, ResponseOk DEF l, Errors
<1>3. CASE Parse(l) # {}
  <2>1. PICK req \in Parse(l) : req = RequestIn(l)
    BY <1>1, <1>3 DEF RequestIn
  <2>2. Handle(l, kv, r) = Execute(req, kv, r)
    BY <1>1, <1>3, <2>1 DEF Handle
  <2> QED BY <1>1, <2>2, ExecuteOk DEF l
<1> QED BY <1>2, <1>3

-----------------------------------------------------------------------------
(* What one interpreter of all the lines would answer.                     *)

Cut == {Front(m) : m \in Lines}

\* Turns 1 to n, taken one after the other.
Taking(lines, rs, n, g) ==
    g = [i \in 0..n |-> IF i = 0 THEN Start ELSE Turn(g[i - 1], lines[i], rs[i])]

\* run() goes through the lines one by one to the last that the engine has seen.
LEMMA TakingExists ==
    ASSUME NEW lines, NEW rs, Len(rs) \in Nat
    PROVE  \E g : Taking(lines, rs, Len(rs), g)
<1> DEFINE Can(n) == \E g : Taking(lines, rs, n, g)
           Cannot == {n \in 0..Len(rs) : ~Can(n)}
<1>1. SUFFICES ASSUME Cannot # {} PROVE FALSE
  OBVIOUS
<1>2. Cannot \in SUBSET Nat
  OBVIOUS
<1>3. PICK n \in Cannot : \A m \in Cannot : n <= m
  BY <1>1, <1>2, LeastNatural
<1>4. n \in 0..Len(rs) /\ ~Can(n)
  OBVIOUS
<1>5. Can(0)
  <2> DEFINE g == [i \in 0..0 |-> Start]
  <2>1. g = [i \in 0..0 |-> IF i = 0 THEN Start ELSE Turn(g[i - 1], lines[i], rs[i])]
    OBVIOUS
  <2>2. Taking(lines, rs, 0, g)
    BY <2>1 DEF Taking
  <2> QED BY <2>2
<1>6. n # 0
  BY <1>4, <1>5
<1>7. n \in Nat /\ n - 1 \in 0..Len(rs) /\ n - 1 < n
  BY <1>4, <1>6
<1>8. Can(n - 1)
  <2> SUFFICES ASSUME ~Can(n - 1) PROVE FALSE
    OBVIOUS
  <2>1. n - 1 \in Cannot
    BY <1>7
  <2> QED BY <1>3, <1>7, <2>1
<1>9. PICK g : Taking(lines, rs, n - 1, g)
  BY <1>8
<1> DEFINE h == [i \in 0..n |-> IF i < n THEN g[i] ELSE Turn(g[n - 1], lines[n], rs[n])]
<1>10. ASSUME NEW i \in 0..n
       PROVE  h[i] = IF i = 0 THEN Start ELSE Turn(h[i - 1], lines[i], rs[i])
  <2>1. \A j \in 0..(n - 1) : g[j] = IF j = 0 THEN Start ELSE Turn(g[j - 1], lines[j], rs[j])
    BY <1>9 DEF Taking
  <2>2. CASE i < n
    <3>1. i \in 0..(n - 1) /\ (i # 0 => i - 1 \in 0..n /\ i - 1 < n)
      BY <1>7, <2>2
    <3>2. h[i] = g[i] /\ (i # 0 => h[i - 1] = g[i - 1])
      BY <2>2, <3>1
    <3> QED BY <2>1, <3>1, <3>2
  <2>3. CASE i = n
    <3>1. h[n] = Turn(g[n - 1], lines[n], rs[n])
      BY <1>7
    <3>2. h[n - 1] = g[n - 1]
      BY <1>6, <1>7
    <3> QED BY <1>6, <2>3, <3>1, <3>2
  <2> QED BY <1>7, <2>2, <2>3
<1>11. h = [i \in 0..n |-> h[i]]
  OBVIOUS
<1> HIDE DEF h
<1>12. h = [i \in 0..n |-> IF i = 0 THEN Start ELSE Turn(h[i - 1], lines[i], rs[i])]
  BY <1>10, <1>11
<1>13. Can(n)
  BY <1>12 DEF Taking
<1> QED BY <1>4, <1>13

\* The interpreter begins with an empty store and takes a turn with every line.
LEMMA RunsSteps ==
    ASSUME NEW lines, NEW rs, Len(rs) \in Nat
    PROVE  /\ Runs(lines, rs)[0] = Start
           /\ \A n \in 1..Len(rs) : Runs(lines, rs)[n] = Turn(Runs(lines, rs)[n - 1], lines[n], rs[n])
<1> DEFINE F(k) == [n \in 0..Len(rs) |->
                        IF n = 0 THEN Start ELSE Turn(k[n - 1], lines[n], rs[n])]
<1>1. PICK g : Taking(lines, rs, Len(rs), g)
  BY TakingExists
<1>2. g = F(g)
  BY <1>1 DEF Taking
<1>3. (CHOOSE k : k = F(k)) = F(CHOOSE k : k = F(k))
  BY <1>2
<1>4. Runs(lines, rs) = CHOOSE k : k = F(k)
  BY DEF Runs
<1> DEFINE k == CHOOSE k : k = F(k)
<1>5. k = F(k)
  BY <1>3
<1> HIDE DEF k
<1>6. /\ k[0] = Start
      /\ \A n \in 1..Len(rs) : k[n] = Turn(k[n - 1], lines[n], rs[n])
  BY <1>5
<1> QED BY <1>4, <1>6 DEF k

\* Lines that come later do not change what the earlier ones did.
LEMMA RunsAgree ==
    ASSUME NEW s, NEW t, NEW a, NEW b, Len(a) \in Nat, Len(b) \in Nat, Len(a) <= Len(b),
           \A n \in 1..Len(a) : t[n] = s[n] /\ b[n] = a[n]
    PROVE  \A n \in 0..Len(a) : Runs(t, b)[n] = Runs(s, a)[n]
<1> DEFINE Bad == {n \in 0..Len(a) : Runs(t, b)[n] # Runs(s, a)[n]}
<1>1. SUFFICES ASSUME Bad # {} PROVE FALSE
  OBVIOUS
<1>2. Bad \in SUBSET Nat
  OBVIOUS
<1>3. PICK n \in Bad : \A m \in Bad : n <= m
  BY <1>1, <1>2, LeastNatural
<1>4. n \in 0..Len(a) /\ Runs(t, b)[n] # Runs(s, a)[n]
  OBVIOUS
<1>5. n # 0
  BY <1>4, RunsSteps
<1>6. n \in 1..Len(a) /\ n \in 1..Len(b) /\ n - 1 \in 0..Len(a) /\ n - 1 < n
  BY <1>4, <1>5
<1>7. Runs(t, b)[n - 1] = Runs(s, a)[n - 1]
  BY <1>3, <1>6
<1>8. /\ Runs(t, b)[n] = Turn(Runs(t, b)[n - 1], t[n], b[n])
      /\ Runs(s, a)[n] = Turn(Runs(s, a)[n - 1], s[n], a[n])
  BY <1>6, RunsSteps
<1> QED BY <1>4, <1>6, <1>7, <1>8

\* A response adds its one line end to what the client has; a part of it none.
LEMMA EndsJoin ==
    ASSUME NEW s \in Seq(Symbols), NEW t \in Seq(Symbols)
    PROVE  /\ Ends(t) = {Len(t)} => Cardinality(Ends(s \o t)) = Cardinality(Ends(s)) + 1
           /\ Ends(t) = {} => Cardinality(Ends(s \o t)) = Cardinality(Ends(s))
           /\ Ends(t) = {Len(t)} =>
                  /\ Len(s \o t) \in Ends(s \o t) /\ Len(s) < Len(s \o t)
                  /\ \A j \in (Len(s) + 1)..(Len(s \o t) - 1) : j \notin Ends(s \o t)
<1>1. PICK u \in Seq(Symbols) : u = s \o t
  BY ConcatProperties
<1>2. /\ Len(u) = Len(s) + Len(t) /\ Len(s) \in Nat /\ Len(t) \in Nat /\ Len(u) \in Nat
      /\ \A i \in 1..(Len(s) + Len(t)) : u[i] = IF i <= Len(s) THEN s[i] ELSE t[i - Len(s)]
  BY <1>1, ConcatProperties
<1>3. \A j \in (Len(s) + 1)..Len(u) : j \in Ends(u) <=> j - Len(s) \in Ends(t)
  <2>1. SUFFICES ASSUME NEW j \in (Len(s) + 1)..Len(u)
                 PROVE  j \in Ends(u) <=> j - Len(s) \in Ends(t)
    OBVIOUS
  <2>2. j \in 1..Len(u) /\ j - Len(s) \in 1..Len(t) /\ ~(j <= Len(s)) /\ j \in 1..(Len(s) + Len(t))
    BY <1>2, <2>1
  <2>3. u[j] = t[j - Len(s)]
    BY <1>2, <2>2
  <2>4. DOMAIN u = 1..Len(u) /\ DOMAIN t = 1..Len(t)
    OBVIOUS
  <2> QED BY <2>2, <2>3, <2>4 DEF Ends
<1>4. Upto(u, Len(s)) = Upto(s, Len(s))
  <2>1. Len(s) \in 0..Len(s)
    BY <1>2
  <2> QED BY <1>1, <2>1, LinesExtend
<1>5. Upto(s, Len(s)) = Cardinality(Ends(s))
  <2>1. \A j \in Ends(s) : j <= Len(s)
    BY <1>2, UptoSteps
  <2> QED BY <1>2, <2>1, UptoSteps
<1>6. Ends(u) \subseteq 1..Len(u) /\ Ends(t) \subseteq 1..Len(t)
  BY UptoSteps
<1>7. CASE Ends(t) = {Len(t)}
  <2>1. Len(t) \in 1..Len(t)
    BY <1>6, <1>7
  <2>2. /\ Len(u) \in Ends(u) /\ Len(s) < Len(u)
        /\ \A j \in (Len(s) + 1)..(Len(u) - 1) : j \notin Ends(u)
    BY <1>2, <1>3, <1>7, <2>1
  <2>3. Upto(u, Len(u)) = Upto(u, Len(s)) + 1
    BY <1>2, <2>2, UptoSteps
  <2>4. Upto(u, Len(u)) = Cardinality(Ends(u))
    <3>1. \A j \in Ends(u) : j <= Len(u)
      BY <1>2, <1>6
    <3> QED BY <1>2, <3>1, UptoSteps
  <2>5. Ends(t) # {}
    BY <1>7
  <2> QED BY <1>1, <1>4, <1>5, <2>2, <2>3, <2>4, <2>5
<1>8. CASE Ends(t) = {}
  <2>1. \A j \in Ends(u) : j <= Len(s)
    BY <1>2, <1>3, <1>6, <1>8
  <2>2. Upto(u, Len(s)) = Cardinality(Ends(u))
    BY <1>2, <2>1, UptoSteps
  <2>3. Ends(t) # {Len(t)}
    BY <1>8
  <2> QED BY <1>1, <1>4, <1>5, <2>2, <2>3
<1> QED BY <1>7, <1>8

-----------------------------------------------------------------------------
(* The connection is where the interpreter is.                             *)

\* A stream is made of whole lines; the buffer holds what is received of it
\* behind the last line taken.
Sent(s) ==
    LinesOf(s) \in Seq(Cut) /\ Len(s) \in Ends(s) \cup {0}
Buffered(s, n, b) ==
    /\ Len(b) <= n /\ n - Len(b) \in Ends(s) \cup {0}
    /\ b = SubSeq(s, n - Len(b) + 1, n)

\* After h lines the store is that of the interpreter R, which has answered each
\* line with one; o is what is sent of its answers, d the answer on its way and t
\* how much of that is sent.
Text(r, n) == r.text \in Seq(Symbols) /\ Cardinality(Ends(r.text)) = n

Answering(R, h, kv, d, t, q, op, o) ==
    /\ kv = R[h].kv /\ Text(R[h], h)
    /\ d = <<>> => o = R[h].text /\ ~(R[h].quit /\ op)
    /\ d # <<>> => /\ h # 0 /\ d \in Serialised /\ Text(R[h - 1], h - 1)
                   /\ R[h].text = R[h - 1].text \o d
                   /\ t < Len(d) /\ o = R[h - 1].text \o SubSeq(d, 1, t)
                   /\ R[h].quit = q

Answers(s, k, rs, kv, d, t, q, op, o) ==
    /\ Len(rs) = Upto(s, k)
    /\ Answering(Runs(LinesOf(s), rs), Len(rs), kv, d, t, q, op, o)

Typed ==
    /\ stream \in Seq(Symbols) /\ received \in 0..Len(stream)
    /\ read_buffer \in Seq(Symbols) /\ line \in Seq(Symbols) /\ data \in Seq(Symbols)
    /\ out \in Seq(Symbols) /\ total \in Nat
    /\ client \in {"there", "gone"} /\ open \in BOOLEAN /\ quitting \in BOOLEAN
    /\ Stored(store) /\ results \in Seq(Outcome)

CInv ==
    /\ Typed /\ Sent(stream) /\ Buffered(stream, received, read_buffer)
    /\ Answers(stream, received - Len(read_buffer), results, store, data, total, quitting,
               open, out)

\* What is sent later leaves what has been answered as it is (ClientSend).
LEMMA SendKeeps ==
    ASSUME ConnectionAssumption, NEW s \in Seq(Symbols), NEW l \in Lines, Sent(s)
    PROVE  /\ s \o l \in Seq(Symbols) /\ Len(s) <= Len(s \o l) /\ Sent(s \o l)
           /\ \A n, b : n \in 0..Len(s) /\ b \in Seq(Symbols) /\ Buffered(s, n, b) =>
                  Buffered(s \o l, n, b)
           /\ \A k, rs, kv, d, t, q, op, o :
                  k \in 0..Len(s) /\ Answers(s, k, rs, kv, d, t, q, op, o) =>
                      Answers(s \o l, k, rs, kv, d, t, q, op, o)
<1>1. l \in Seq(Symbols) /\ Ends(l) = {Len(l)} /\ Len(l) \in Nat /\ Front(l) \in Cut
  BY LineOk DEF Cut
<1>2. PICK u \in Seq(Symbols) : u = s \o l
  BY <1>1, ConcatProperties
<1>3. /\ Len(u) = Len(s) + Len(l) /\ Len(s) \in Nat /\ Len(u) \in Nat
      /\ \A i \in 1..Len(s) : u[i] = s[i]
  BY <1>1, <1>2, ConcatProperties
<1>4. /\ Len(u) \in Ends(u) /\ Len(s) < Len(u)
      /\ \A j \in (Len(s) + 1)..(Len(u) - 1) : j \notin Ends(u)
      /\ Cardinality(Ends(u)) = Cardinality(Ends(s)) + 1
  BY <1>1, <1>2, EndsJoin
<1>5. /\ Ends(s) \subseteq Ends(u)
      /\ \A i \in 0..Len(s) : Upto(u, i) = Upto(s, i)
      /\ Len(LinesOf(s)) = Cardinality(Ends(s))
      /\ Len(LinesOf(s)) \in Nat /\ Len(LinesOf(u)) \in Nat
      /\ Len(LinesOf(s)) <= Len(LinesOf(u))
      /\ \A n \in 1..Len(LinesOf(s)) : LinesOf(u)[n] = LinesOf(s)[n]
  BY <1>1, <1>2, LinesExtend
<1>6. Cardinality(Ends(u)) \in Nat /\ Cardinality(Ends(s)) \in Nat
      /\ LinesOf(u) = [n \in 1..Cardinality(Ends(u)) |-> LinesOf(u)[n]]
      /\ Len(LinesOf(u)) = Cardinality(Ends(u))
  <2>1. Cardinality(Ends(u)) \in Nat /\ Cardinality(Ends(s)) \in Nat
    BY UptoSteps
  <2>2. Len(LinesOf(u)) = Cardinality(Ends(u))
    BY <2>1 DEF LinesOf
  <2>3. LinesOf(u) = [n \in 1..Cardinality(Ends(u)) |-> LinesOf(u)[n]]
    BY DEF LinesOf
  <2> QED BY <2>1, <2>2, <2>3
<1>7. Upto(u, Len(s)) = Cardinality(Ends(s))
  <2>1. \A j \in Ends(s) : j <= Len(s)
    BY <1>3, UptoSteps
  <2>2. Upto(s, Len(s)) = Cardinality(Ends(s))
    BY <1>3, <2>1, UptoSteps
  <2>3. Len(s) \in 0..Len(s)
    BY <1>3
  <2> QED BY <1>5, <2>2, <2>3
<1>8. SubSeq(u, Len(s) + 1, Len(u) - 1) = Front(l)
  <2>1. CASE Len(l) = 1
    <3>1. Len(u) - 1 < Len(s) + 1 /\ Len(s) + 1 \in Int /\ Len(u) - 1 \in Int
      BY <1>3, <2>1
    <3>2. SubSeq(u, Len(s) + 1, Len(u) - 1) = <<>>
      BY <3>1, SubSeqEmpty
    <3>3. SubSeq(l, 1, 0) = <<>>
      BY SubSeqEmpty
    <3> QED BY <2>1, <3>2, <3>3 DEF Front
  <2>2. CASE Len(l) # 1
    <3>1. PICK x \in Nat, y \in Nat : x = Len(s) + 1 /\ y = Len(u) - 1
      <4>1. Len(s) + 1 \in Nat /\ Len(u) - 1 \in Nat
        BY <1>3, <1>4
      <4> QED BY <4>1
    <3>5. PICK a \in Nat, b \in Nat : a = Len(s) /\ b = Len(l)
      BY <1>1, <1>3
    <3>6. b # 1 /\ b # 0 /\ x = a + 1 /\ y = a + b - 1
      BY <1>3, <1>4, <2>2, <3>1, <3>5
    <3>7. x \in (a + 1)..(a + b) /\ y \in (a + 1)..(a + b)
      BY <3>6
    <3>2. x \in (Len(s) + 1)..(Len(s) + Len(l)) /\ y \in (Len(s) + 1)..(Len(s) + Len(l))
      BY <3>5, <3>7
    <3>3. SubSeq(s \o l, x, y) = SubSeq(l, x - Len(s), y - Len(s))
      BY <1>1, <3>2, SubSeqOfConcat2
    <3>4. x - Len(s) = 1 /\ y - Len(s) = Len(l) - 1
      BY <1>1, <1>3, <3>1
    <3> QED BY <1>2, <3>1, <3>3, <3>4 DEF Front
  <2> QED BY <2>1, <2>2
<1>9. LinesOf(u)[Cardinality(Ends(u))] = Front(l)
  <2>1. Len(s) \in Ends(u) \cup {0}
    BY <1>5 DEF Sent
  <2>2. PICK i \in Ends(u) \cup {0} : i = Len(s)
    BY <2>1
  <2>3. PICK k \in Ends(u) : k = Len(u)
    BY <1>4
  <2>4. LinesOf(u)[Upto(u, i) + 1] = SubSeq(u, i + 1, k - 1)
    <3>1. i < k /\ \A j \in (i + 1)..(k - 1) : j \notin Ends(u)
      BY <1>4, <2>2, <2>3
    <3> QED BY <3>1, LineBetween
  <2> QED BY <1>4, <1>7, <1>8, <2>2, <2>3, <2>4
<1>10. Sent(u)
  <2>1. \A n \in 1..Cardinality(Ends(u)) : LinesOf(u)[n] \in Cut
    <3>1. \A n \in 1..Cardinality(Ends(s)) : LinesOf(s)[n] \in Cut
      <4>1. LinesOf(s) \in Seq(Cut)
        BY DEF Sent
      <4> QED BY <1>5, <4>1, ElementOfSeq
    <3>2. \A n \in 1..Cardinality(Ends(u)) :
              n \in 1..Cardinality(Ends(s)) \/ n = Cardinality(Ends(u))
      BY <1>4, <1>6
    <3> QED BY <1>1, <1>5, <1>9, <3>1, <3>2
  <2>2. LinesOf(u) \in [1..Cardinality(Ends(u)) -> Cut]
    BY <1>6, <2>1
  <2>3. LinesOf(u) \in Seq(Cut)
    <3>1. PICK N \in Nat : N = Cardinality(Ends(u))
      BY <1>6
    <3>2. \A f \in [1..N -> Cut] : f \in Seq(Cut)
      OBVIOUS
    <3> QED BY <2>2, <3>1, <3>2
  <2> QED BY <1>4, <2>3 DEF Sent
<1>11. ASSUME NEW n, NEW b, n \in 0..Len(s), b \in Seq(Symbols), Buffered(s, n, b)
       PROVE  Buffered(u, n, b)
  <2>1. /\ Len(b) <= n /\ n - Len(b) \in Ends(s) \cup {0} /\ Len(b) \in Nat /\ n \in Nat
        /\ b = SubSeq(s, n - Len(b) + 1, n)
    BY <1>3, <1>11 DEF Buffered
  <2>2. PICK x \in Int : x = n - Len(b) + 1
    <3>1. n - Len(b) + 1 \in Int
      BY <2>1
    <3> QED BY <3>1
  <2>3. 1 <= x /\ n <= Len(s) /\ n \in Int /\ Len(s) <= Len(u)
    BY <1>3, <1>4, <1>11, <2>1, <2>2
  <2>4. SubSeq(u, x, n) = SubSeq(s, x, n)
    BY <1>3, <2>3, PartSame
  <2> QED BY <1>5, <2>1, <2>2, <2>4 DEF Buffered
<1>12. ASSUME NEW k, NEW rs, NEW kv, NEW d, NEW t, NEW q, NEW op, NEW o, k \in 0..Len(s),
              Answers(s, k, rs, kv, d, t, q, op, o)
       PROVE  Answers(u, k, rs, kv, d, t, q, op, o)
  <2>1. Upto(s, k) \in Nat /\ Upto(s, k) <= Len(LinesOf(s)) /\ Upto(u, k) = Upto(s, k)
    BY <1>3, <1>5, <1>12, UptoSteps
  <2>2. PICK h \in Nat : h = Len(rs) /\ h = Upto(s, k)
    BY <1>12, <2>1 DEF Answers
  <2>3. \A n \in 1..Len(rs) : LinesOf(u)[n] = LinesOf(s)[n] /\ rs[n] = rs[n]
    <3>1. \A n \in 1..h : n \in 1..Len(LinesOf(s))
      BY <1>5, <2>1, <2>2
    <3> QED BY <1>5, <2>2, <3>1
  <2>10. Len(rs) \in Nat /\ Len(rs) <= Len(rs)
    BY <2>2
  <2>11. \A n \in 0..Len(rs) : Runs(LinesOf(u), rs)[n] = Runs(LinesOf(s), rs)[n]
    BY <2>3, <2>10, RunsAgree
  <2>4. \A n \in 0..h : Runs(LinesOf(u), rs)[n] = Runs(LinesOf(s), rs)[n]
    BY <2>2, <2>11
  <2>5. PICK R : R = Runs(LinesOf(s), rs)
    OBVIOUS
  <2>6. PICK V : V = Runs(LinesOf(u), rs)
    OBVIOUS
  <2>7. V[h] = R[h] /\ (h # 0 => V[h - 1] = R[h - 1])
    BY <2>2, <2>4, <2>5, <2>6
  <2>8. Answering(R, h, kv, d, t, q, op, o)
    BY <1>12, <2>2, <2>5 DEF Answers
  <2>9. Answering(V, h, kv, d, t, q, op, o)
    BY <2>7, <2>8 DEF Answering
  <2> QED BY <2>1, <2>2, <2>6, <2>9 DEF Answers
<1> QED BY <1>2, <1>3, <1>4, <1>10, <1>11, <1>12

\* What recv() returns goes behind what is buffered (Recv).
LEMMA RecvKeeps ==
    ASSUME NEW s \in Seq(Symbols), NEW n \in 0..Len(s), NEW b \in Seq(Symbols),
           Buffered(s, n, b), NEW m \in Nat, n + m <= Len(s)
    PROVE  LET c == b \o SubSeq(s, n + 1, n + m)
           IN  /\ c \in Seq(Symbols) /\ Buffered(s, n + m, c)
               /\ n + m - Len(c) = n - Len(b)
<1> DEFINE p == SubSeq(s, n + 1, n + m)
           c == b \o p
<1>1. /\ Len(b) <= n /\ n - Len(b) \in Ends(s) \cup {0} /\ Len(b) \in Nat /\ n \in Nat
      /\ b = SubSeq(s, n - Len(b) + 1, n) /\ Len(s) \in Nat
  BY DEF Buffered
<1>2. p \in Seq(Symbols) /\ Len(p) = m
  <2>1. \A i \in (n + 1)..(n + m) : s[i] \in Symbols
    BY <1>1
  <2>2. PICK x \in Int, y \in Int : x = n + 1 /\ y = n + m
    BY <1>1
  <2>3. /\ SubSeq(s, x, y) \in Seq(Symbols)
        /\ Len(SubSeq(s, x, y)) = IF x <= y THEN y - x + 1 ELSE 0
    BY <2>1, <2>2, SubSeqProperties
  <2> QED BY <1>1, <2>2, <2>3
<1>3. c = SubSeq(s, n - Len(b) + 1, n + m)
  <2>1. PICK x \in Nat, y \in Nat : x = n - Len(b) + 1 /\ y = n + m
    <3>1. n - Len(b) + 1 \in Nat /\ n + m \in Nat
      BY <1>1
    <3> QED BY <3>1
  <2>2. x \in 1..(Len(s) + 1) /\ n \in (x - 1)..Len(s) /\ y \in n..Len(s)
    BY <1>1, <2>1
  <2>3. SubSeq(s, x, n) \o SubSeq(s, n + 1, y) = SubSeq(s, x, y)
    BY <2>2, ConcatAdjacentSubSeq
  <2> QED BY <1>1, <2>1, <2>3
<1> HIDE DEF p
<1>4. c \in Seq(Symbols) /\ Len(c) = Len(b) + m
  BY <1>2, ConcatProperties
<1> HIDE DEF c
<1>5. n + m - Len(c) = n - Len(b) /\ Len(c) <= n + m
  BY <1>1, <1>4
<1>6. Buffered(s, n + m, c)
  <2>1. PICK k \in Nat, x \in Int : k = n + m /\ x = n - Len(b)
    <3>1. n + m \in Nat /\ n - Len(b) \in Int
      BY <1>1
    <3> QED BY <3>1
  <2>2. Len(c) <= k /\ k - Len(c) = x /\ x \in Ends(s) \cup {0}
    BY <1>1, <1>5, <2>1
  <2>3. c = SubSeq(s, x + 1, k)
    BY <1>3, <2>1
  <2>4. Buffered(s, k, c)
    BY <2>2, <2>3 DEF Buffered
  <2> QED BY <2>1, <2>4
<1> QED BY <1>4, <1>5, <1>6 DEF c, p

\* The line cut off the buffer is the next line of the stream (readLine, HandleLine).
LEMMA TakeLine ==
    ASSUME NEW s \in Seq(Symbols), NEW n \in 0..Len(s), NEW b \in Seq(Symbols),
           Buffered(s, n, b), Sent(s), Find(b, "LF") # 0
    PROVE  LET c == After(b, Find(b, "LF"))
               h == Upto(s, n - Len(b))
           IN  /\ c \in Seq(Symbols) /\ Buffered(s, n, c)
               /\ Upto(s, n - Len(c)) = h + 1 /\ h \in Nat
               /\ h + 1 \in 1..Len(LinesOf(s))
               /\ LinesOf(s)[h + 1] = Before(b, Find(b, "LF"))
<1>1. /\ Len(b) <= n /\ n - Len(b) \in Ends(s) \cup {0} /\ Len(b) \in Nat /\ n \in Nat
      /\ Len(s) \in Nat
  BY DEF Buffered
<1>2. PICK k \in Nat : k = n - Len(b)
  <2>1. n - Len(b) \in Nat
    BY <1>1
  <2> QED BY <2>1
<1>3. k + Len(b) = n /\ k \in Ends(s) \cup {0}
  BY <1>1, <1>2
<1>4. b = SubSeq(s, k + 1, n)
  BY <1>2 DEF Buffered
<1>5. PICK p \in 1..Len(b) : /\ p = Find(b, "LF") /\ b[p] = "LF"
                             /\ \A i \in 1..(p - 1) : b[i] # "LF"
  BY FindPart
<1>6. p \in Nat /\ 1 <= p /\ p <= Len(b) /\ Len(b) # 0
  BY <1>1, <1>5
<1>7. PICK f \in Nat : f = k + 1
  <2>1. k + 1 \in Nat
    BY <1>2
  <2> QED BY <2>1
<1>8. 1 <= f /\ f <= n /\ n <= Len(s) /\ n - f + 1 = Len(b) /\ f - 1 = k
  BY <1>1, <1>3, <1>6, <1>7
<1>9. \A i \in 1..Len(b) : b[i] = s[f + i - 1]
  <2>1. \A i \in 1..(n - f + 1) : SubSeq(s, f, n)[i] = s[f + i - 1]
    BY <1>1, <1>8, PartOf
  <2> QED BY <1>4, <1>7, <1>8, <2>1
<1>10. \A x, y \in Nat : 1 <= x /\ y <= Len(b) => SubSeq(b, x, y) = SubSeq(s, f + x - 1, f + y - 1)
  <2>1. SUFFICES ASSUME NEW x \in Nat, NEW y \in Nat, 1 <= x, y <= Len(b)
                 PROVE  SubSeq(b, x, y) = SubSeq(s, f + x - 1, f + y - 1)
    OBVIOUS
  <2>2. SubSeq(SubSeq(s, f, n), x, y) = SubSeq(s, f + x - 1, f + y - 1)
    <3>1. y <= n - f + 1
      BY <1>8, <2>1
    <3> QED BY <1>1, <1>8, <2>1, <3>1, PartOfPart
  <2> QED BY <1>4, <1>7, <2>2
<1>11. PICK z \in Nat : z = k + p
  <2>1. k + p \in Nat
    BY <1>2, <1>6
  <2> QED BY <2>1
<1>12. /\ z \in Ends(s) /\ k < z /\ z <= n /\ \A j \in (k + 1)..(z - 1) : j \notin Ends(s)
  <2>1. s[z] = "LF" /\ z \in 1..Len(s)
    <3>1. z = f + p - 1 /\ k < z /\ z <= n
      BY <1>3, <1>6, <1>7, <1>11
    <3>2. s[f + p - 1] = b[p]
      BY <1>9
    <3>3. 1 <= z /\ z <= Len(s)
      BY <1>2, <1>8, <3>1
    <3> QED BY <1>1, <1>5, <3>1, <3>2, <3>3
  <2>2. ASSUME NEW j \in (k + 1)..(z - 1) PROVE s[j] # "LF"
    <3>1. PICK i \in Int : i = j - k
      BY <1>2
    <3>2. i \in 1..(p - 1) /\ i \in 1..Len(b) /\ f + i - 1 = j
      BY <1>6, <1>7, <1>11, <3>1
    <3> QED BY <1>5, <1>9, <3>2
  <2>3. k < z /\ z <= n
    BY <1>3, <1>6, <1>11
  <2> QED BY <2>1, <2>2, <2>3 DEF Ends
<1>13. /\ Upto(s, z) = Upto(s, k) + 1 /\ Upto(s, k) \in Nat
       /\ Upto(s, z) \in 1..Len(LinesOf(s))
       /\ LinesOf(s)[Upto(s, k) + 1] = SubSeq(s, k + 1, z - 1)
  BY <1>3, <1>12, LineBetween
<1>14. Before(b, p) = SubSeq(s, k + 1, z - 1)
  <2>1. PICK x \in Nat, y \in Nat : x = 1 /\ y = p - 1
    <3>1. p - 1 \in Nat
      BY <1>6
    <3> QED BY <3>1
  <2>2. SubSeq(b, x, y) = SubSeq(s, f + x - 1, f + y - 1)
    BY <1>6, <1>10, <2>1
  <2>3. f + x - 1 = k + 1 /\ f + y - 1 = z - 1
    BY <1>6, <1>7, <1>11, <2>1
  <2>4. p # 0
    BY <1>6
  <2> QED BY <2>1, <2>2, <2>3, <2>4 DEF Before
<1>15. After(b, p) = SubSeq(s, z + 1, n)
  <2>1. PICK x \in Nat, y \in Nat : x = p + 1 /\ y = Len(b)
    <3>1. p + 1 \in Nat
      BY <1>6
    <3> QED BY <1>1, <3>1
  <2>5. 1 <= x /\ y <= Len(b)
    BY <1>1, <1>6, <2>1
  <2>2. SubSeq(b, x, y) = SubSeq(s, f + x - 1, f + y - 1)
    BY <1>10, <2>5
  <2>3. f + x - 1 = z + 1 /\ f + y - 1 = n
    BY <1>3, <1>6, <1>7, <1>11, <2>1
  <2>4. p # 0
    BY <1>6
  <2> QED BY <2>1, <2>2, <2>3, <2>4 DEF After
<1>16. SubSeq(s, z + 1, n) \in Seq(Symbols) /\ Len(SubSeq(s, z + 1, n)) = n - z
  <2>1. PICK x \in Nat : x = z + 1
    <3>1. z + 1 \in Nat
      BY <1>11
    <3> QED BY <3>1
  <2>2. /\ SubSeq(s, x, n) \in Seq(Symbols)
        /\ Len(SubSeq(s, x, n)) = IF x <= n THEN n - x + 1 ELSE 0
    <3>1. 1 <= x /\ n <= Len(s)
      BY <1>8, <2>1
    <3> QED BY <1>1, <3>1, PartOf
  <2>3. (IF x <= n THEN n - x + 1 ELSE 0) = n - z
    BY <1>1, <1>12, <2>1
  <2> QED BY <2>1, <2>2, <2>3
<1>17. PICK c \in Seq(Symbols) : c = After(b, p) /\ Len(c) = n - z
  BY <1>15, <1>16
<1>18. n - Len(c) = z /\ Len(c) <= n /\ n - Len(c) + 1 = z + 1
  BY <1>1, <1>12, <1>17
<1>19. Buffered(s, n, c)
  BY <1>12, <1>15, <1>17, <1>18 DEF Buffered
<1> QED BY <1>2, <1>5, <1>13, <1>14, <1>17, <1>18, <1>19

\* The next turn of run() is the next turn of the interpreter (HandleLine).
LEMMA AnswerNext ==
    ASSUME ConnectionAssumption, NEW lines \in Seq(Cut), NEW rs \in Seq(Outcome),
           NEW h \in Nat, h = Len(rs), h + 1 \in 1..Len(lines), NEW e \in Outcome,
           NEW kv, Stored(kv), NEW t, NEW q, NEW o,
           Answering(Runs(lines, rs), h, kv, <<>>, t, q, TRUE, o)
    PROVE  LET l == StripCR(lines[h + 1])
               done == Handle(l, kv, e)
           IN  /\ l \in Plain /\ Stored(done.kv) /\ done.response \in Serialised
               /\ Answering(Runs(lines, Append(rs, e)), h + 1, done.kv, done.response, 0,
                            IsQuit(l), TRUE, o)
<1> DEFINE as == Append(rs, e)
           R == Runs(lines, rs)
           V == Runs(lines, as)
           l == StripCR(lines[h + 1])
           done == Handle(l, kv, e)
           d == done.response
<1>1. PICK g \in 1..Len(lines) : g = h + 1
  OBVIOUS
<1>2. Len(lines) \in Nat /\ g - 1 = h /\ g # 0 /\ h \in 0..h
  BY <1>1
<1>3. lines[g] \in Cut
  OBVIOUS
<1>4. PICK m \in Lines : lines[g] = Front(m)
  BY <1>3 DEF Cut
<1>5. /\ Len(as) = g /\ as[g] = e /\ \A i \in 1..h : as[i] = rs[i]
  BY <1>1, AppendProperties
<1> HIDE DEF as
<1>6. V[h] = R[h]
  <2>1. Len(rs) \in Nat /\ Len(as) \in Nat /\ Len(rs) <= Len(as)
    BY <1>1, <1>5
  <2>2. \A n \in 1..Len(rs) : lines[n] = lines[n] /\ as[n] = rs[n]
    BY <1>5
  <2>4. PICK a, b : a = rs /\ b = as
    OBVIOUS
  <2>5. /\ Len(a) \in Nat /\ Len(b) \in Nat /\ Len(a) <= Len(b)
        /\ \A n \in 1..Len(a) : lines[n] = lines[n] /\ b[n] = a[n]
    BY <2>1, <2>2, <2>4
  <2>6. \A n \in 0..Len(a) : Runs(lines, b)[n] = Runs(lines, a)[n]
    BY <2>5, RunsAgree
  <2>3. \A n \in 0..Len(rs) : Runs(lines, as)[n] = Runs(lines, rs)[n]
    BY <2>4, <2>6
  <2> QED BY <1>2, <2>3
<1>7. V[g] = Turn(V[h], lines[g], e)
  <2>1. Len(as) \in Nat /\ g \in 1..Len(as)
    BY <1>1, <1>5
  <2>2. V[g] = Turn(V[g - 1], lines[g], as[g])
    BY <2>1, RunsSteps
  <2> QED BY <1>2, <1>5, <2>2
<1>8. kv = R[h].kv /\ Text(R[h], h) /\ o = R[h].text /\ ~R[h].quit
  BY DEF Answering
<1> HIDE DEF R, V
<1>9. l \in Plain
  BY <1>1, <1>4, LineOk
<1>10. Stored(done.kv) /\ d \in Serialised
  BY <1>1, <1>4, HandleOk
<1>11. V[g] = [kv |-> done.kv, text |-> V[h].text \o d, quit |-> IsQuit(l)]
  BY <1>1, <1>6, <1>7, <1>8 DEF Turn
<1> HIDE DEF l, done, d
<1>12. V[g].kv = done.kv /\ V[g].text = V[h].text \o d
  BY <1>11
<1>13. V[g].quit = IsQuit(l)
  <2>1. \A a, b, c : [kv |-> a, text |-> b, quit |-> c].quit = c
    OBVIOUS
  <2>2. PICK c : c = IsQuit(l)
    OBVIOUS
  <2>3. V[g] = [kv |-> done.kv, text |-> V[h].text \o d, quit |-> c]
    BY <1>11, <2>2, Zenon
  <2>4. V[g].quit = c
    BY <2>1, <2>3
  <2> QED BY <2>2, <2>4
<1>14. d \in Seq(Symbols) /\ Ends(d) = {Len(d)}
  BY <1>10 DEF Serialised
<1>15. PICK x \in Seq(Symbols) : x = V[h].text /\ Cardinality(Ends(x)) = h
  BY <1>6, <1>8 DEF Text
<1>16. Text(V[h], h) /\ Text(V[g], g)
  <2>1. x \o d \in Seq(Symbols)
    BY <1>14, ConcatProperties
  <2>3. PICK y \in Seq(Symbols) : y = d
    BY <1>14
  <2>4. Ends(y) = {Len(y)}
    BY <1>14, <2>3
  <2>5. Cardinality(Ends(x \o y)) = Cardinality(Ends(x)) + 1
    BY <2>4, EndsJoin
  <2>2. Cardinality(Ends(x \o d)) = h + 1
    BY <1>15, <2>3, <2>5
  <2> QED BY <1>1, <1>6, <1>8, <1>12, <1>15, <2>1, <2>2 DEF Text
<1>17. Len(d) \in Nat /\ 0 < Len(d) /\ d # <<>>
  <2>3. Len(d) \in Nat
    BY <1>14
  <2>4. PICK y \in Seq(Symbols) : y = d
    BY <1>14
  <2>5. Ends(y) \subseteq 1..Len(y)
    BY UptoSteps
  <2>1. Ends(d) \subseteq 1..Len(d) /\ Len(d) \in Nat
    BY <2>3, <2>4, <2>5
  <2>2. Len(d) \in 1..Len(d)
    BY <1>14, <2>1
  <2> QED BY <2>1, <2>2
<1>18. o = V[h].text \o SubSeq(d, 1, 0)
  <2>1. SubSeq(d, 1, 0) = <<>>
    BY SubSeqEmpty
  <2> QED BY <1>6, <1>8, <1>15, <2>1, ConcatEmptySeq
<1>19. Answering(V, g, done.kv, d, 0, IsQuit(l), TRUE, o)
  BY <1>2, <1>10, <1>12, <1>13, <1>16, <1>17, <1>18 DEF Answering
<1> QED BY <1>1, <1>9, <1>10, <1>19 DEF V, as, l, done, d

\* It does not matter to the client in how many parts it is sent something.
LEMMA PartsJoin ==
    \A x, y, z \in Seq(Symbols) : (x \o y) \o z = x \o (y \o z)
<1> DEFINE S == Symbols
<1> HIDE DEF S
<1>1. \A x, y, z \in Seq(S) : (x \o y) \o z = x \o (y \o z)
  BY ConcatAssociative
<1> QED BY <1>1 DEF S

\* It does not matter in how many parts a response is sent.
LEMMA SentParts ==
    ASSUME NEW d \in Seq(Symbols), NEW x \in Seq(Symbols), NEW t \in Nat, NEW n \in Nat,
           t <= n, n <= Len(d)
    PROVE  /\ (x \o SubSeq(d, 1, t)) \o SubSeq(d, t + 1, n) = x \o SubSeq(d, 1, n)
           /\ x \o SubSeq(d, 1, n) \in Seq(Symbols)
<1>1. Len(d) \in Nat /\ t <= Len(d)
  OBVIOUS
<1>6. PICK a \in Seq(Symbols) : a = SubSeq(d, 1, t)
  <2>1. PICK f \in Nat : f = 1
    OBVIOUS
  <2>2. SubSeq(d, f, t) \in Seq(Symbols)
    BY <2>1, PartOf
  <2> QED BY <2>1, <2>2
<1>7. PICK b \in Seq(Symbols) : b = SubSeq(d, t + 1, n)
  <2>1. PICK f \in Nat : f = t + 1
    OBVIOUS
  <2>2. 1 <= f
    BY <2>1
  <2>3. SubSeq(d, f, n) \in Seq(Symbols)
    BY <2>2, PartOf
  <2> QED BY <2>1, <2>3
<1>8. a \o b = SubSeq(d, 1, n)
  <2>1. PICK f \in Nat : f = 1
    OBVIOUS
  <2>2. f \in 1..(Len(d) + 1) /\ t \in (f - 1)..Len(d) /\ n \in t..Len(d)
    BY <2>1
  <2>3. SubSeq(d, f, t) \o SubSeq(d, t + 1, n) = SubSeq(d, f, n)
    BY <2>2, ConcatAdjacentSubSeq
  <2> QED BY <1>6, <1>7, <2>1, <2>3
<1>9. (x \o a) \o b = x \o (a \o b) /\ (x \o a) \o b \in Seq(Symbols)
  <2>1. x \o a \in Seq(Symbols)
    BY ConcatProperties
  <2>2. (x \o a) \o b = x \o (a \o b)
    BY PartsJoin
  <2>3. (x \o a) \o b \in Seq(Symbols)
    BY <2>1, ConcatProperties
  <2> QED BY <2>2, <2>3
<1> QED BY <1>6, <1>7, <1>8, <1>9

\* What send() takes goes behind what is sent, and with its last part the answer
\* is complete (Send).
LEMMA SendMore ==
    ASSUME NEW R, NEW h, NEW kv, NEW d, NEW t \in Nat, NEW q, NEW o,
           Answering(R, h, kv, d, t, q, TRUE, o), d # <<>>,
           NEW m \in 1..(Len(d) - t)
    PROVE  LET more == o \o SubSeq(d, t + 1, t + m)
           IN  /\ more \in Seq(Symbols) /\ t + m \in Nat
               /\ t + m = Len(d) => Answering(R, h, kv, <<>>, t + m, q, ~q, more)
               /\ t + m # Len(d) => Answering(R, h, kv, d, t + m, q, TRUE, more)
<1> DEFINE more == o \o SubSeq(d, t + 1, t + m)
<1>1. /\ kv = R[h].kv /\ Text(R[h], h)
      /\ h # 0 /\ d \in Serialised /\ Text(R[h - 1], h - 1)
      /\ R[h].text = R[h - 1].text \o d
      /\ t < Len(d) /\ o = R[h - 1].text \o SubSeq(d, 1, t)
      /\ R[h].quit = q
  BY DEF Answering
<1>2. d \in Seq(Symbols) /\ Len(d) \in Nat
  BY <1>1 DEF Serialised
<1>3. PICK n \in Nat : n = t + m
  <2>1. m \in Nat /\ t + m \in Nat
    BY <1>1, <1>2
  <2> QED BY <2>1
<1>4. t <= Len(d) /\ n <= Len(d) /\ t <= n /\ (n # Len(d) => n < Len(d))
  <2>1. PICK z \in Nat : z = Len(d)
    BY <1>2
  <2>2. m \in 1..(z - t)
    BY <2>1
  <2>3. t <= z /\ n <= z /\ t <= n /\ (n # z => n < z)
    BY <1>3, <2>2
  <2> QED BY <2>1, <2>3
<1>5. /\ (R[h - 1].text \o SubSeq(d, 1, t)) \o SubSeq(d, t + 1, n) =
             R[h - 1].text \o SubSeq(d, 1, n)
      /\ R[h - 1].text \o SubSeq(d, 1, n) \in Seq(Symbols)
  BY <1>1, <1>2, <1>4, SentParts DEF Text
<1>10. more = R[h - 1].text \o SubSeq(d, 1, n) /\ more \in Seq(Symbols)
  BY <1>1, <1>3, <1>5
<1> HIDE DEF more
<1>11. CASE n = Len(d)
  <2>1. SubSeq(d, 1, Len(d)) = d
    BY <1>2, SubSeqFull
  <2>2. more = R[h].text
    BY <1>1, <1>10, <1>11, <2>1
  <2>3. Answering(R, h, kv, <<>>, n, q, ~q, more)
    <3>1. kv = R[h].kv /\ Text(R[h], h) /\ ~(R[h].quit /\ ~q)
      BY <1>1
    <3>2. <<>> = <<>>
      OBVIOUS
    <3> QED BY <2>2, <3>1, <3>2 DEF Answering
  <2> QED BY <1>3, <1>10, <1>11, <2>3 DEF more
<1>12. CASE n # Len(d)
  <2>1. Answering(R, h, kv, d, n, q, TRUE, more)
    BY <1>1, <1>4, <1>10, <1>12 DEF Answering
  <2> QED BY <1>3, <1>10, <1>12, <2>1 DEF more
<1> QED BY <1>11, <1>12

\* A new connection has sent nothing and has nothing to answer.
LEMMA ConnectionBegins ==
    ConnectionInit => CInv
<1> SUFFICES ASSUME ConnectionInit PROVE CInv
  OBVIOUS
<1>1. /\ stream = <<>> /\ received = 0 /\ client = "there"
      /\ read_buffer = <<>> /\ line = <<>> /\ data = <<>> /\ total = 0
      /\ quitting = FALSE /\ open = TRUE /\ store = <<>> /\ results = <<>> /\ out = <<>>
  BY DEF ConnectionInit
<1>2. PICK e \in Seq(Symbols) : e = <<>> /\ Len(e) = 0
  <2>1. <<>> \in Seq(Symbols) /\ Len(<<>>) = 0
    BY EmptySeq
  <2> QED BY <2>1
<1>3. Typed
  <2>1. Len(stream) = 0 /\ 0 \in 0..0
    BY <1>1, <1>2
  <2>2. received \in 0..Len(stream)
    BY <1>1, <2>1
  <2>3. Stored(store)
    BY <1>1 DEF Stored
  <2>4. open \in BOOLEAN /\ quitting \in BOOLEAN
    BY <1>1
  <2>5. results \in Seq(Outcome)
    BY <1>1
  <2> QED BY <1>1, <1>2, <2>2, <2>3, <2>4, <2>5 DEF Typed
<1>4. Ends(e) = {} /\ Cardinality({}) = 0
  BY <1>2, FS_EmptySet DEF Ends
<1>5. LinesOf(e) \in Seq(Cut) /\ Len(LinesOf(e)) = 0
  <2>1. LinesOf(e) = [n \in 1..0 |-> LinesOf(e)[n]]
    BY <1>4 DEF LinesOf
  <2>2. LinesOf(e) \in [1..0 -> Cut]
    BY <2>1
  <2>3. \A f \in [1..0 -> Cut] : f \in Seq(Cut) /\ Len(f) = 0
    OBVIOUS
  <2> QED BY <2>2, <2>3
<1>6. Sent(e)
  BY <1>2, <1>5 DEF Sent
<1>7. Buffered(e, 0, e)
  <2>1. PICK z \in Nat : z = Len(e) /\ z = 0
    BY <1>2
  <2>2. SubSeq(e, 1, 0) = e
    BY <1>2, SubSeqEmpty
  <2>3. 0 - z = 0 /\ 0 - z + 1 = 1 /\ z <= 0
    BY <2>1
  <2> QED BY <2>1, <2>2, <2>3 DEF Buffered
<1>8. Upto(e, 0) = 0
  BY UptoSteps
<1>9. Len(results) = 0 /\ Len(results) \in Nat
  BY <1>1
<1>16. PICK rs : rs = results /\ Len(rs) \in Nat
  BY <1>9
<1>17. Runs(LinesOf(e), rs)[0] = Start
  BY <1>16, RunsSteps
<1>10. PICK R : R = Runs(LinesOf(e), results) /\ R[0] = Start
  BY <1>16, <1>17
<1>18. R[0].kv = <<>> /\ R[0].text = <<>> /\ ~R[0].quit
  BY <1>10 DEF Start
<1>11. R[0].kv = <<>> /\ R[0].text = <<>> /\ ~R[0].quit /\ Text(R[0], 0)
  <2>1. R[0].text = e /\ Cardinality(Ends(e)) = 0
    BY <1>2, <1>4, <1>18
  <2>2. Text(R[0], 0)
    BY <2>1 DEF Text
  <2> QED BY <1>18, <2>2
<1>12. Answering(R, 0, store, data, total, quitting, open, out)
  BY <1>1, <1>2, <1>11 DEF Answering
<1>13. received - Len(read_buffer) = 0
  <2>1. PICK z \in Nat : z = Len(e) /\ z = 0
    BY <1>2
  <2>2. read_buffer = e /\ 0 - z = 0
    BY <1>1, <1>2, <2>1
  <2> QED BY <1>1, <2>1, <2>2
<1>14. Answers(e, 0, results, store, data, total, quitting, open, out)
  BY <1>8, <1>9, <1>10, <1>12 DEF Answers
<1>15. stream = e /\ read_buffer = e /\ received = 0
  BY <1>1, <1>2
<1> QED BY <1>3, <1>6, <1>7, <1>13, <1>14, <1>15 DEF CInv

\* Every step of the client and of the handler keeps the connection where the
\* interpreter is.
LEMMA ConnectionSteps ==
    CInv /\ [ConnectionNext]_connectionVars => CInv'
<1> SUFFICES ASSUME CInv, [ConnectionNext]_connectionVars PROVE CInv'
  OBVIOUS
<1>1. /\ stream \in Seq(Symbols) /\ received \in 0..Len(stream)
      /\ read_buffer \in Seq(Symbols) /\ line \in Seq(Symbols) /\ data \in Seq(Symbols)
      /\ out \in Seq(Symbols) /\ total \in Nat
      /\ client \in {"there", "gone"} /\ open \in BOOLEAN /\ quitting \in BOOLEAN
      /\ Stored(store) /\ results \in Seq(Outcome)
  BY DEF CInv, Typed
<1>2. Sent(stream) /\ Buffered(stream, received, read_buffer)
  BY DEF CInv
<1>3. PICK k \in Nat : k = received - Len(read_buffer)
  <2>1. Len(read_buffer) <= received /\ Len(read_buffer) \in Nat /\ received \in Nat
    BY <1>1, <1>2 DEF Buffered
  <2>2. received - Len(read_buffer) \in Nat
    BY <2>1
  <2> QED BY <2>2
<1>4. Answers(stream, k, results, store, data, total, quitting, open, out)
  BY <1>3 DEF CInv
<1>5. k \in 0..Len(stream)
  <2>1. /\ Len(read_buffer) \in Nat /\ Len(stream) \in Nat /\ received \in Nat
        /\ received <= Len(stream)
    BY <1>1
  <2> QED BY <1>3, <2>1
<1>6. LinesOf(stream) \in Seq(Cut)
  BY <1>2 DEF Sent
<1>7. PICK R : R = Runs(LinesOf(stream), results)
  OBVIOUS
<1>8. PICK h \in Nat : h = Upto(stream, k) /\ h \in 0..Len(LinesOf(stream))
  <2>1. /\ Upto(stream, k) \in Nat /\ Upto(stream, k) <= Cardinality(Ends(stream))
        /\ Cardinality(Ends(stream)) \in Nat
    BY <1>1, UptoSteps
  <2>2. Len(LinesOf(stream)) = Cardinality(Ends(stream))
    BY <2>1 DEF LinesOf
  <2> QED BY <2>1, <2>2
<1>9. h = Len(results) /\ Answering(R, h, store, data, total, quitting, open, out)
  BY <1>4, <1>7, <1>8 DEF Answers
<1>10. ASSUME UNCHANGED <<stream, received, client, read_buffer, line, data, total,
                          quitting, store, results, out>>,
              open' = FALSE
       PROVE  CInv'
  <2>1. Typed'
    BY <1>1, <1>10 DEF Typed
  <2>2. Answering(R, h, store, data, total, quitting, FALSE, out)
    BY <1>9 DEF Answering
  <2>3. Answers(stream, k, results, store, data, total, quitting, FALSE, out)
    BY <1>7, <1>8, <1>9, <2>2 DEF Answers
  <2>4. Answers(stream', received' - Len(read_buffer'), results', store', data', total',
                quitting', open', out')
    BY <1>3, <1>10, <2>3
  <2>5. Sent(stream') /\ Buffered(stream', received', read_buffer')
    BY <1>2, <1>10
  <2> QED BY <2>1, <2>4, <2>5 DEF CInv
<1>11. CASE ClientSend
  <2>1. PICK l \in Lines : stream' = stream \o l
    BY <1>11 DEF ClientSend
  <2>2. UNCHANGED <<received, client, read_buffer, line, data, total, quitting, open,
                    store, results, out>>
    BY <1>11 DEF ClientSend
  <2>3. PICK s \in Seq(Symbols) : s = stream
    BY <1>1
  <2>4. /\ s \o l \in Seq(Symbols) /\ Len(s) <= Len(s \o l) /\ Sent(s \o l)
        /\ \A n, b : n \in 0..Len(s) /\ b \in Seq(Symbols) /\ Buffered(s, n, b) =>
               Buffered(s \o l, n, b)
        /\ \A j, rs, kv, d, t, q, op, o :
               j \in 0..Len(s) /\ Answers(s, j, rs, kv, d, t, q, op, o) =>
                   Answers(s \o l, j, rs, kv, d, t, q, op, o)
    BY <1>2, <2>3, ConnectionAssumption, SendKeeps
  <2>5. Sent(stream')
    BY <2>1, <2>3, <2>4
  <2>6. Buffered(stream', received', read_buffer')
    BY <1>1, <1>2, <2>1, <2>2, <2>3, <2>4
  <2>7. Answers(stream', received' - Len(read_buffer'), results', store', data', total',
                quitting', open', out')
    BY <1>3, <1>4, <1>5, <2>1, <2>2, <2>3, <2>4
  <2>8. Typed'
    <3>1. stream' \in Seq(Symbols) /\ received \in 0..Len(stream')
      <4>1. stream' \in Seq(Symbols) /\ Len(stream) <= Len(stream')
        BY <2>1, <2>3, <2>4
      <4>2. Len(stream) \in Nat /\ Len(stream') \in Nat
        BY <1>1, <4>1
      <4> QED BY <1>1, <4>1, <4>2
    <3> QED BY <1>1, <2>2, <3>1 DEF Typed
  <2> QED BY <2>5, <2>6, <2>7, <2>8 DEF CInv
<1>12. CASE ClientGo
  <2>1. /\ client' = "gone"
        /\ UNCHANGED <<stream, received, read_buffer, line, data, total, quitting,
                       open, store, results, out>>
    BY <1>12 DEF ClientGo
  <2>2. Typed'
    BY <1>1, <2>1 DEF Typed
  <2>3. Sent(stream') /\ Buffered(stream', received', read_buffer')
    BY <1>2, <2>1
  <2>4. Answers(stream', received' - Len(read_buffer'), results', store', data', total',
                quitting', open', out')
    BY <1>3, <1>4, <2>1
  <2> QED BY <2>2, <2>3, <2>4 DEF CInv
<1>13. CASE Recv
  <2>1. open /\ data = <<>>
    BY <1>13 DEF Recv, Reading
  <2>2. PICK n \in 1..ChunkSize :
            /\ received + n <= Len(stream) /\ received' = received + n
            /\ read_buffer' = read_buffer \o SubSeq(stream, received + 1, received + n)
    BY <1>13 DEF Recv
  <2>3. UNCHANGED <<stream, client, line, data, total, quitting, store, results, out>>
    BY <1>13 DEF Recv
  <2>4. open' \in BOOLEAN
    BY <1>13 DEF Recv
  <2>5. n \in Nat
    BY <2>2, ConnectionAssumption DEF ConnectionAssumption
  <2>6. PICK s \in Seq(Symbols), b \in Seq(Symbols), r \in 0..Len(stream) :
            s = stream /\ b = read_buffer /\ r = received
    BY <1>1
  <2>7. LET c == b \o SubSeq(s, r + 1, r + n)
        IN  c \in Seq(Symbols) /\ Buffered(s, r + n, c) /\ r + n - Len(c) = r - Len(b)
    <3>1. r \in 0..Len(s) /\ Buffered(s, r, b) /\ r + n <= Len(s)
      BY <1>2, <2>2, <2>6
    <3> QED BY <2>5, <3>1, RecvKeeps
  <2>8. /\ read_buffer' \in Seq(Symbols) /\ Buffered(stream', received', read_buffer')
        /\ received' - Len(read_buffer') = k
    BY <1>3, <2>2, <2>3, <2>6, <2>7
  <2>9. ~(R[h].quit /\ open) /\ Answering(R, h, store, data, total, quitting, open', out)
    BY <1>9, <2>1 DEF Answering
  <2>10. Answers(stream', received' - Len(read_buffer'), results', store', data', total',
                 quitting', open', out')
    BY <1>7, <1>8, <1>9, <2>3, <2>8, <2>9 DEF Answers
  <2>11. received' \in 0..Len(stream')
    <3>1. received \in Nat /\ Len(stream) \in Nat
      BY <1>1
    <3> QED BY <2>2, <2>3, <2>5, <3>1
  <2>12. Typed'
    BY <1>1, <2>3, <2>4, <2>8, <2>11 DEF Typed
  <2> QED BY <1>2, <2>3, <2>8, <2>10, <2>12 DEF CInv
<1>14. CASE RecvEnd
  BY <1>10, <1>14 DEF RecvEnd
<1>15. CASE HandleLine
  <2> DEFINE p == Find(read_buffer, "LF")
             l == StripCR(Before(read_buffer, p))
  <2>1. open /\ data = <<>> /\ p # 0
    BY <1>15 DEF HandleLine, Reading
  <2>2. /\ read_buffer' = After(read_buffer, p)
        /\ line' = l /\ total' = 0 /\ UNCHANGED <<stream, received, client, open, out>>
    BY <1>15 DEF HandleLine, Erase
  <2>3. quitting' = IsQuit(l)
    BY <1>15 DEF HandleLine
  <2>16. PICK e \in EngineMay(RequestIn(l), store) :
             /\ results' = Append(results, e)
             /\ store' = Handle(l, store, e).kv /\ data' = Handle(l, store, e).response
    BY <1>15 DEF HandleLine
  <2>17. e \in Outcome
    BY <1>1, FoundOk
  <2> HIDE DEF p
  <2>14. PICK s \in Seq(Symbols), b \in Seq(Symbols), n \in 0..Len(stream) :
             s = stream /\ b = read_buffer /\ n = received
    BY <1>1
  <2>15. PICK c : c = After(b, p)
    OBVIOUS
  <2>4. s = stream /\ b = read_buffer /\ n = received /\ c = After(b, p)
    BY <2>14, <2>15
  <2>5. /\ c \in Seq(Symbols) /\ Buffered(s, n, c)
        /\ Upto(s, n - Len(c)) = h + 1 /\ h + 1 \in 1..Len(LinesOf(s))
        /\ LinesOf(s)[h + 1] = Before(b, p)
    <3>1. n \in 0..Len(s) /\ Buffered(s, n, b) /\ Sent(s) /\ Find(b, "LF") # 0 /\ p = Find(b, "LF")
      BY <1>2, <2>1, <2>4 DEF p
    <3>2. Upto(s, n - Len(b)) = h
      BY <1>3, <1>8, <2>4
    <3>3. LET a == After(b, Find(b, "LF"))
              g == Upto(s, n - Len(b))
          IN  /\ a \in Seq(Symbols) /\ Buffered(s, n, a)
              /\ Upto(s, n - Len(a)) = g + 1 /\ g + 1 \in 1..Len(LinesOf(s))
              /\ LinesOf(s)[g + 1] = Before(b, Find(b, "LF"))
      BY <3>1, TakeLine
    <3>4. c = After(b, Find(b, "LF"))
      BY <2>4, <3>1
    <3> QED BY <3>1, <3>2, <3>3, <3>4
  <2>6. /\ read_buffer' \in Seq(Symbols) /\ Buffered(stream', received', read_buffer')
        /\ Upto(stream', received' - Len(read_buffer')) = h + 1
    BY <2>2, <2>4, <2>5
  <2>7. PICK lines \in Seq(Cut) : lines = LinesOf(stream)
    BY <1>6
  <2>8. h + 1 \in 1..Len(lines) /\ l = StripCR(lines[h + 1])
    BY <2>4, <2>5, <2>7
  <2>9. Answering(Runs(lines, results), h, store, <<>>, total, quitting, TRUE, out)
    <3>1. open = TRUE
      BY <1>1, <2>1
    <3> QED BY <1>7, <1>9, <2>1, <2>7, <3>1
  <2> HIDE DEF l
  <2>18. PICK rs \in Seq(Outcome) : rs = results
    BY <1>1
  <2>10. /\ l \in Plain /\ Stored(Handle(l, store, e).kv)
         /\ Handle(l, store, e).response \in Serialised
         /\ Answering(Runs(lines, Append(rs, e)), h + 1, Handle(l, store, e).kv,
                      Handle(l, store, e).response, 0, IsQuit(l), TRUE, out)
    <3>1. h = Len(rs) /\ Answering(Runs(lines, rs), h, store, <<>>, total, quitting, TRUE, out)
      BY <1>9, <2>9, <2>18
    <3> QED BY <1>1, <2>8, <2>17, <3>1, ConnectionAssumption, AnswerNext
  <2>19. results' = Append(rs, e) /\ results' \in Seq(Outcome) /\ Len(results') = h + 1
    BY <1>9, <2>16, <2>17, <2>18, AppendProperties
  <2>11. Answering(Runs(lines, results'), h + 1, store', data', total', quitting', open', out')
    <3>1. open' = TRUE
      BY <1>1, <2>1, <2>2
    <3> QED BY <2>2, <2>3, <2>10, <2>16, <2>19, <3>1
  <2>12. Answers(stream', received' - Len(read_buffer'), results', store', data', total',
                 quitting', open', out')
    BY <2>2, <2>6, <2>7, <2>11, <2>19 DEF Answers
  <2>13. Typed'
    <3>1. line' \in Seq(Symbols) /\ data' \in Seq(Symbols) /\ total' \in Nat /\ Stored(store')
      BY <2>2, <2>10, <2>16 DEF Plain, Serialised
    <3>2. quitting' \in BOOLEAN
      BY <2>3 DEF IsQuit
    <3> QED BY <1>1, <2>2, <2>6, <2>19, <3>1, <3>2 DEF Typed
  <2> QED BY <1>2, <2>2, <2>6, <2>12, <2>13 DEF CInv
<1>16. CASE Send
  <2>1. open /\ data # <<>>
    BY <1>16 DEF Send
  <2>2. PICK m \in 1..(Len(data) - total) :
            total' = total + m /\ out' = out \o SubSeq(data, total + 1, total + m)
    BY <1>16 DEF Send
  <2>3. IF total' = Len(data) THEN data' = <<>> /\ open' = ~quitting
                              ELSE data' = data /\ open' = open
    BY <1>16 DEF Send
  <2>4. UNCHANGED <<stream, received, client, read_buffer, line, quitting, store, results>>
    BY <1>16 DEF Send
  <2>6. Answering(R, h, store, data, total, quitting, TRUE, out)
    <3>1. open = TRUE
      BY <1>1, <2>1
    <3> QED BY <1>9, <3>1
  <2>13. PICK t \in Nat : t = total
    BY <1>1
  <2>14. PICK d, o : d = data /\ o = out
    OBVIOUS
  <2>7. d = data /\ t = total /\ o = out
    BY <2>13, <2>14
  <2>8. LET more == o \o SubSeq(d, t + 1, t + m)
        IN  /\ more \in Seq(Symbols) /\ t + m \in Nat
            /\ t + m = Len(d) => Answering(R, h, store, <<>>, t + m, quitting, ~quitting, more)
            /\ t + m # Len(d) => Answering(R, h, store, d, t + m, quitting, TRUE, more)
    <3>1. Answering(R, h, store, d, t, quitting, TRUE, o) /\ d # <<>> /\ m \in 1..(Len(d) - t)
      BY <2>1, <2>6, <2>7
    <3> QED BY <3>1, SendMore
  <2>9. out' \in Seq(Symbols) /\ total' \in Nat
    BY <2>2, <2>7, <2>8
  <2>10. Answering(R, h, store, data', total', quitting, open', out')
    <3>1. CASE total' = Len(data)
      BY <2>2, <2>3, <2>7, <2>8, <3>1
    <3>2. CASE total' # Len(data)
      <4>1. open' = TRUE
        BY <1>1, <2>1, <2>3, <3>2
      <4> QED BY <2>2, <2>3, <2>7, <2>8, <3>2, <4>1
    <3> QED BY <3>1, <3>2
  <2>11. Answers(stream', received' - Len(read_buffer'), results', store', data', total',
                 quitting', open', out')
    BY <1>3, <1>7, <1>8, <1>9, <2>4, <2>10 DEF Answers
  <2>12. Typed'
    <3>2. data' = data \/ data' = <<>>
      BY <2>3
    <3>3. <<>> \in Seq(Symbols)
      OBVIOUS
    <3>4. data' \in Seq(Symbols)
      BY <1>1, <3>2, <3>3
    <3>5. open' \in BOOLEAN
      BY <1>1, <2>3
    <3>1. data' \in Seq(Symbols) /\ open' \in BOOLEAN
      BY <3>4, <3>5
    <3> QED BY <1>1, <2>4, <2>9, <3>1 DEF Typed
  <2> QED BY <1>2, <2>4, <2>11, <2>12 DEF CInv
<1>17. CASE SendFail
  BY <1>10, <1>17 DEF SendFail
<1>18. CASE UNCHANGED connectionVars
  <2>1. UNCHANGED <<stream, received, client, read_buffer, line, data, total, quitting, open,
                    store, results, out>>
    BY <1>18 DEF connectionVars
  <2>2. Typed'
    BY <1>1, <2>1 DEF Typed
  <2>3. Sent(stream') /\ Buffered(stream', received', read_buffer')
    BY <1>2, <2>1
  <2>4. Answers(stream', received' - Len(read_buffer'), results', store', data', total',
                quitting', open', out')
    BY <1>3, <1>4, <2>1
  <2> QED BY <2>2, <2>3, <2>4 DEF CInv
<1> QED BY <1>11, <1>12, <1>13, <1>14, <1>15, <1>16, <1>17, <1>18 DEF ConnectionNext, Handler

\* Store, buffer, answers and what is sent of them are at every step those of an
\* interpreter that has taken the same lines (ConnectionHandler::run).
THEOREM CInvCorrect == ConnectionSpec => []CInv
<1> QED BY ConnectionBegins, ConnectionSteps, PTL DEF ConnectionSpec

\* The parser takes each line for a PUT, GET or DELETE exactly when it has that
\* form, and finds the key and value the form gives (ProtocolParser::parse).
THEOREM ParsesGrammarCorrect == ConnectionSpec => []ParsesGrammar
<1>1. CInv => ParsesGrammar
  <2> SUFFICES ASSUME CInv PROVE ParsesGrammar
    OBVIOUS
  <2>1. line \in Seq(Symbols)
    BY DEF CInv, Typed
  <2> QED BY <2>1, ParserExact DEF ParsesGrammar
<1> QED BY <1>1, CInvCorrect, PTL

\* Whatever the chunks of recv() and send(), the client reads the answers to its
\* lines, one each and in order, and none after that to QUIT; no line is executed
\* twice or on the strength of a part of it, and what the engine holds is what it
\* holds after those lines, also where it has failed (run, readLine, writeResponse).
THEOREM AnswersInOrderCorrect == ConnectionSpec => []AnswersInOrder
<1>1. CInv => AnswersInOrder
  <2> SUFFICES ASSUME CInv PROVE AnswersInOrder
    OBVIOUS
  <2>1. /\ stream \in Seq(Symbols) /\ received \in 0..Len(stream)
        /\ read_buffer \in Seq(Symbols) /\ data \in Seq(Symbols)
        /\ out \in Seq(Symbols) /\ total \in Nat
        /\ client \in {"there", "gone"} /\ open \in BOOLEAN /\ quitting \in BOOLEAN
        /\ Stored(store) /\ Buffered(stream, received, read_buffer)
    BY DEF CInv, Typed
  <2>2. PICK h \in Nat : /\ h = Len(results)
                         /\ h = Upto(stream, received - Len(read_buffer))
                         /\ h <= Len(LinesOf(stream))
    <3>1. received - Len(read_buffer) \in Nat
      <4>1. Len(read_buffer) <= received /\ Len(read_buffer) \in Nat /\ received \in Nat
        BY <2>1 DEF Buffered
      <4> QED BY <4>1
    <3>2. \A i \in Nat : Upto(stream, i) \in Nat /\ Upto(stream, i) <= Cardinality(Ends(stream))
      BY <2>1, UptoSteps
    <3>3. Cardinality(Ends(stream)) \in Nat
      BY <2>1, UptoSteps
    <3>4. Len(LinesOf(stream)) = Cardinality(Ends(stream))
      BY <3>3 DEF LinesOf
    <3> QED BY <3>1, <3>2, <3>4 DEF CInv, Answers
  <2>3. PICK R : R = Runs(LinesOf(stream), results)
    OBVIOUS
  <2>4. Answering(R, h, store, data, total, quitting, open, out)
    BY <2>2, <2>3 DEF CInv, Answers
  <2>5. Answered = Cardinality(Ends(out))
    <3>1. Cardinality(Ends(out)) \in Nat
      BY <2>1, UptoSteps
    <3> QED BY <3>1 DEF Answered, LinesOf
  <2>6. ConnectionTypeOK
    BY <2>1 DEF ConnectionTypeOK, Stored
  <2>7. store = R[h].kv /\ Text(R[h], h)
    BY <2>4 DEF Answering
  <2>8. CASE data = <<>>
    <3>1. out = R[h].text
      BY <2>4, <2>8 DEF Answering
    <3>2. Answered = h
      BY <2>5, <2>7, <3>1 DEF Text
    <3>3. SubSeq(data, total + 1, Len(data)) = <<>>
      <4>1. PICK a \in Int, b \in Int : a = total + 1 /\ b = 0 /\ b < a
        BY <2>1
      <4>2. SubSeq(data, a, b) = <<>>
        BY <4>1, SubSeqEmpty
      <4>3. Len(data) = 0
        BY <2>8
      <4> QED BY <4>1, <4>2, <4>3
    <3>4. out \o SubSeq(data, total + 1, Len(data)) = R[h].text
      <4>1. PICK x \in Seq(Symbols) : x = out
        BY <2>1
      <4>2. PICK e : e = SubSeq(data, total + 1, Len(data))
        OBVIOUS
      <4>3. x \o <<>> = x
        BY ConcatEmptySeq
      <4> QED BY <3>1, <3>3, <4>1, <4>2, <4>3
    <3>5. Answered = Len(results) - (IF data = <<>> THEN 0 ELSE 1)
      BY <2>2, <2>8, <3>2
    <3> QED BY <2>2, <2>3, <2>6, <2>7, <3>4, <3>5 DEF AnswersInOrder
  <2>9. CASE data # <<>>
    <3>1. /\ h # 0 /\ data \in Serialised /\ Text(R[h - 1], h - 1)
          /\ R[h].text = R[h - 1].text \o data
          /\ total < Len(data) /\ out = R[h - 1].text \o SubSeq(data, 1, total)
      BY <2>4, <2>9 DEF Answering
    <3>2. PICK x \in Seq(Symbols) : x = R[h - 1].text /\ Cardinality(Ends(x)) = h - 1
      BY <3>1 DEF Text
    <3>3. PICK d \in Seq(Symbols) : d = data
      BY <2>1
    <3>4. total < Len(d) /\ Ends(d) = {Len(d)} /\ Len(d) \in Nat
      BY <3>1, <3>3 DEF Serialised
    <3>5. /\ SubSeq(d, 1, total) \in Seq(Symbols) /\ Len(SubSeq(d, 1, total)) = total
          /\ \A i \in 1..total : SubSeq(d, 1, total)[i] = d[i]
      <4>1. PICK f \in Nat, g \in Nat : f = 1 /\ g = total
        BY <2>1
      <4>2. 1 <= f /\ g <= Len(d)
        BY <2>1, <3>4, <4>1
      <4>3. /\ SubSeq(d, f, g) \in Seq(Symbols)
            /\ Len(SubSeq(d, f, g)) = IF f <= g THEN g - f + 1 ELSE 0
            /\ \A i \in 1..(g - f + 1) : SubSeq(d, f, g)[i] = d[f + i - 1]
        BY <4>2, PartOf
      <4> QED BY <4>1, <4>3
    <3>6. PICK a \in Seq(Symbols) : a = SubSeq(d, 1, total)
      BY <3>5
    <3>7. Len(a) = total /\ \A i \in 1..total : a[i] = d[i]
      BY <3>5, <3>6
    <3>8. Ends(a) = {}
      <4>1. \A i \in 1..total : i \in DOMAIN d /\ i # Len(d)
        BY <2>1, <3>4
      <4>2. \A i \in 1..total : d[i] # "LF"
        BY <3>4, <4>1 DEF Ends
      <4>3. DOMAIN a = 1..total
        BY <3>7
      <4> QED BY <3>7, <4>2, <4>3 DEF Ends
    <3>9. out = x \o a
      BY <3>1, <3>2, <3>3, <3>6
    <3>10. Cardinality(Ends(x \o a)) = Cardinality(Ends(x))
      BY <3>8, EndsJoin
    <3>11. Answered = h - 1
      BY <2>5, <3>2, <3>9, <3>10
    <3>12. out \o SubSeq(data, total + 1, Len(data)) = R[h].text
      <4>1. PICK t \in Nat, n \in Nat : t = total /\ n = Len(d)
        BY <2>1, <3>4
      <4>2. t <= n /\ n <= Len(d)
        BY <3>4, <4>1
      <4>3. (x \o SubSeq(d, 1, t)) \o SubSeq(d, t + 1, n) = x \o SubSeq(d, 1, n)
        BY <4>2, SentParts
      <4>4. SubSeq(d, 1, n) = d
        BY <4>1, SubSeqFull
      <4> QED BY <3>1, <3>2, <3>3, <4>1, <4>3, <4>4
    <3>13. Answered = Len(results) - (IF data = <<>> THEN 0 ELSE 1)
      BY <2>2, <2>9, <3>11
    <3> QED BY <2>2, <2>3, <2>6, <2>7, <3>12, <3>13 DEF AnswersInOrder
  <2> QED BY <2>8, <2>9
<1> QED BY <1>1, CInvCorrect, PTL

=============================================================================
