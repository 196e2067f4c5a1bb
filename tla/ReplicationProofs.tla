------------------------- MODULE ReplicationProofs -------------------------
(* Theorems about Replication, for any number of clients and followers and *)
(* any number of writes and faults.                                        *)
EXTENDS Replication, WellFoundedInduction, TLAPS

Msg == [commit : Nat, entry : Entries]
Conn == [msgs : Seq(Msg), open : BOOLEAN, acks : Nat]
Applier == [pc : {"asleep", "test", "call"}, stale : BOOLEAN]
ClientPcs == {"idle", "commit", "read", "build", "lock", "ship", "recv", "execute"}
ClientRec == [pc : ClientPcs, own : Entries, commit : Nat, entry : Entries,
              todo : Seq(Followers), acks : Nat]
Nodes == Followers \cup {"leader"}

\* The type of every variable.
Types ==
    /\ log \in Seq(Entries) /\ commit \in Nat /\ lastApplied \in Nat
    /\ applier \in Applier
    /\ client \in [Clients -> ClientRec]
    /\ peer \in [Followers -> BOOLEAN]
    /\ flog \in [Followers -> Seq(Entries)]
    /\ fcommit \in [Followers -> Nat] /\ flastApplied \in [Followers -> Nat]
    /\ fapplier \in [Followers -> Applier]
    /\ conns \in [Followers -> Seq(Conn)]
    /\ store \in [Nodes -> [Keys -> Nat]]
    /\ received \subseteq Entries /\ confirmed \subseteq Entries
    /\ overlapped \in BOOLEAN
    /\ writes \in Nat /\ timeouts \in Nat /\ resets \in Nat
    /\ crashes \in Nat /\ restarts \in Nat
    /\ failures \in Nat /\ tears \in Nat

\* The leader applies what it has committed, and commits what it has logged; an
\* apply thread is called for an entry that is there.  A client has a log to
\* read from and, in recv(), a peer to hear from.
LeaderBounds ==
    /\ lastApplied <= commit /\ commit <= Len(log)
    /\ applier.pc = "call" => lastApplied < commit

FollowerBounds ==
    \A f \in Followers :
        /\ flastApplied[f] <= fcommit[f]
        /\ fapplier[f].pc = "call" =>
               flastApplied[f] < fcommit[f] /\ FollowerFind(f) # {}

ClientBounds ==
    \A c \in Clients : /\ client[c].pc # "idle" => log # <<>>
                       /\ client[c].pc = "recv" => client[c].todo # <<>>

Bounded == LeaderBounds /\ FollowerBounds /\ ClientBounds

TypeInv == Types /\ Bounded
-----------------------------------------------------------------------------
\* The records the actions build have their types.
LEMMA Constructed ==
    /\ NoEntry \in Entries /\ Idle \in ClientRec
    /\ Asleep \in Applier /\ NewConn \in Conn
    /\ \A b \in BOOLEAN : /\ [pc |-> "test", stale |-> b] \in Applier
                          /\ [pc |-> "call", stale |-> b] \in Applier
    /\ [msgs |-> <<>>, open |-> FALSE, acks |-> 0] \in Conn
<1>1. NoEntry \in Entries
  BY DEF NoEntry, Entries
<1>2. Idle \in ClientRec
  BY <1>1 DEF Idle, ClientRec, ClientPcs
<1>3. /\ Asleep \in Applier
      /\ \A b \in BOOLEAN : /\ [pc |-> "test", stale |-> b] \in Applier
                            /\ [pc |-> "call", stale |-> b] \in Applier
  BY DEF Asleep, Applier
<1>4. NewConn \in Conn /\ [msgs |-> <<>>, open |-> FALSE, acks |-> 0] \in Conn
  BY DEF NewConn, Conn
<1> QED BY <1>1, <1>2, <1>3, <1>4

\* push_back and notify_one keep an apply thread what it is: a push can only
\* leave its reference stale, a notification can only wake it.
LEMMA ApplierMoves ==
    ASSUME NEW t \in Applier, NEW n
    PROVE  /\ AfterPush(t, n) \in Applier /\ AfterPush(t, n).pc = t.pc
           /\ t.stale => AfterPush(t, n).stale
           /\ AfterPush(t, n).stale => t.stale \/ t.pc = "call"
           /\ Notified(t) \in Applier /\ Notified(t).stale = t.stale
           /\ t.pc = "asleep" => Notified(t).pc = "test"
           /\ t.pc # "asleep" => Notified(t).pc = t.pc
BY DEF AfterPush, Notified, Applier

\* The next peer of shipEntries.
LEMMA NextPeerType ==
    ASSUME Types, NEW c \in Clients, client[c].todo # <<>>
    PROVE  /\ NextPeer(c) \in ClientRec
           /\ NextPeer(c).pc = "ship" /\ NextPeer(c).todo = Tail(client[c].todo)
           /\ NextPeer(c).own = client[c].own /\ NextPeer(c).acks = client[c].acks
           /\ NextPeer(c).entry = client[c].entry
           /\ Head(client[c].todo) \in Followers
<1>1. client[c] \in ClientRec
  BY DEF Types
<1>2. client[c].todo \in Seq(Followers)
  BY <1>1 DEF ClientRec
<1>3. Tail(client[c].todo) \in Seq(Followers) /\ Head(client[c].todo) \in Followers
  BY <1>2
<1> QED BY <1>1, <1>3 DEF NextPeer, ClientRec, ClientPcs

-----------------------------------------------------------------------------
(* What the actions do to the connections of a follower.                    *)

\* A connection is live: it is the last one and the leader's end is open.
LEMMA AliveConn ==
    ASSUME Types, NEW f \in Followers
    PROVE  /\ conns[f] \in Seq(Conn)
           /\ Len(conns[f]) \in Nat /\ DOMAIN conns[f] = 1..Len(conns[f])
           /\ \A i \in 1..Len(conns[f]) : /\ conns[f][i] \in Conn
                                          /\ conns[f][i].msgs \in Seq(Msg)
                                          /\ conns[f][i].acks \in Nat
                                          /\ conns[f][i].open \in BOOLEAN
           /\ conns[f] # <<>> => /\ Len(conns[f]) \in 1..Len(conns[f])
                                 /\ Len(conns[f]) # 0 /\ 1 \in 1..Len(conns[f])
                                 /\ Last(conns[f]) = conns[f][Len(conns[f])]
                                 /\ Head(conns[f]) = conns[f][1]
           /\ Alive(f) => /\ conns[f] # <<>>
                          /\ conns[f][Len(conns[f])].open
           /\ conns[f] # <<>> /\ conns[f][Len(conns[f])].open => Alive(f)
<1>1. conns[f] \in Seq(Conn)
  BY DEF Types
<1>2. \A k \in Conn : k.msgs \in Seq(Msg) /\ k.acks \in Nat /\ k.open \in BOOLEAN
  BY DEF Conn
<1> QED BY <1>1, <1>2 DEF Alive, Last

\* A connection with other messages or another number of acknowledgements.
LEMMA ConnFields ==
    ASSUME NEW k \in Conn, NEW m \in Seq(Msg), NEW a \in Nat
    PROVE  /\ [k EXCEPT !.msgs = m] \in Conn
           /\ [k EXCEPT !.msgs = m].msgs = m
           /\ [k EXCEPT !.msgs = m].open = k.open
           /\ [k EXCEPT !.msgs = m].acks = k.acks
           /\ [k EXCEPT !.acks = a] \in Conn
           /\ [k EXCEPT !.acks = a].msgs = k.msgs
           /\ [k EXCEPT !.acks = a].open = k.open
           /\ [k EXCEPT !.acks = a].acks = a
           /\ [k EXCEPT !.msgs = m, !.acks = a] \in Conn
           /\ [k EXCEPT !.msgs = m, !.acks = a].msgs = m
           /\ [k EXCEPT !.msgs = m, !.acks = a].open = k.open
           /\ [k EXCEPT !.msgs = m, !.acks = a].acks = a
<1>1. /\ [k EXCEPT !.msgs = m] \in Conn
      /\ [k EXCEPT !.acks = a] \in Conn
      /\ [k EXCEPT !.msgs = m, !.acks = a] \in Conn
  BY DEF Conn
<1>2. /\ [k EXCEPT !.msgs = m].msgs = m
      /\ [k EXCEPT !.msgs = m].open = k.open
      /\ [k EXCEPT !.msgs = m].acks = k.acks
  BY DEF Conn
<1>3. /\ [k EXCEPT !.acks = a].msgs = k.msgs
      /\ [k EXCEPT !.acks = a].open = k.open
      /\ [k EXCEPT !.acks = a].acks = a
  BY DEF Conn
<1>4. /\ [k EXCEPT !.msgs = m, !.acks = a].msgs = m
      /\ [k EXCEPT !.msgs = m, !.acks = a].open = k.open
      /\ [k EXCEPT !.msgs = m, !.acks = a].acks = a
  BY DEF Conn
<1> QED BY <1>1, <1>2, <1>3, <1>4

\* Only connection i of follower f differs.
OnlyConn(f, i) ==
    /\ conns' \in [Followers -> Seq(Conn)]
    /\ \A g \in Followers : g # f => conns'[g] = conns[g]
    /\ Len(conns'[f]) = Len(conns[f]) /\ DOMAIN conns'[f] = 1..Len(conns[f])
    /\ \A h \in 1..Len(conns[f]) : h # i => conns'[f][h] = conns[f][h]

\* send() puts the message behind the others of the live connection.
LEMMA SendEffect ==
    ASSUME Types, NEW f \in Followers, Alive(f), NEW m \in Msg,
           conns' = [conns EXCEPT ![f][Len(conns[f])].msgs = Append(@, m)]
    PROVE  LET n == Len(conns[f])
           IN  /\ OnlyConn(f, n)
               /\ conns'[f][n].msgs = Append(conns[f][n].msgs, m)
               /\ conns'[f][n].open = conns[f][n].open
               /\ conns'[f][n].acks = conns[f][n].acks
<1> DEFINE n == Len(conns[f])
           u == Append(conns[f][n].msgs, m)
           k == [conns[f][n] EXCEPT !.msgs = u]
           s == [conns[f] EXCEPT ![n] = k]
<1>1. n \in 1..Len(conns[f]) /\ conns[f][n] \in Conn /\ u \in Seq(Msg)
  BY AliveConn
<1>2. conns' = [conns EXCEPT ![f] = s]
  OBVIOUS
<1> HIDE DEF u
<1>3. /\ k \in Conn /\ k.msgs = u /\ k.open = conns[f][n].open
      /\ k.acks = conns[f][n].acks
  BY <1>1, ConnFields
<1> HIDE DEF n, k
<1>4. s = [conns[f] EXCEPT ![n] = k]
  OBVIOUS
<1> HIDE DEF s
<1>5. OnlyConn(f, n) /\ conns'[f][n] = k
  <2>1. conns[f] \in Seq(Conn) /\ conns \in [Followers -> Seq(Conn)]
    BY DEF Types
  <2>2. /\ s \in Seq(Conn) /\ Len(s) = Len(conns[f]) /\ DOMAIN s = 1..Len(conns[f])
        /\ s[n] = k
        /\ \A h \in 1..Len(conns[f]) : h # n => s[h] = conns[f][h]
    BY <2>1, <1>1, <1>2, <1>3, <1>4
  <2>3. conns'[f] = s /\ \A g \in Followers : g # f => conns'[g] = conns[g]
    BY <2>1, <1>1, <1>2, <1>3, <1>4
  <2>4. conns' \in [Followers -> Seq(Conn)]
    BY <2>1, <2>2, <1>1, <1>2, <1>3, <1>4
  <2> QED BY <2>2, <2>3, <2>4 DEF OnlyConn
<1> QED BY <1>3, <1>5 DEF n, u

\* recv() of the acknowledgements of a live connection.
LEMMA AckEffect ==
    ASSUME Types, NEW f \in Followers, Alive(f),
           conns' = [conns EXCEPT ![f][Len(conns[f])].acks =
                         IF @ > AckBuf THEN @ - AckBuf ELSE 0]
    PROVE  LET n == Len(conns[f])
           IN  /\ OnlyConn(f, n)
               /\ conns'[f][n].msgs = conns[f][n].msgs
               /\ conns'[f][n].open = conns[f][n].open
               /\ conns[f][n].acks <= AckBuf => conns'[f][n].acks = 0
<1> DEFINE n == Len(conns[f])
           a == IF conns[f][n].acks > AckBuf THEN conns[f][n].acks - AckBuf ELSE 0
           k == [conns[f][n] EXCEPT !.acks = a]
           s == [conns[f] EXCEPT ![n] = k]
<1>1. n \in 1..Len(conns[f]) /\ conns[f][n] \in Conn /\ conns[f][n].acks \in Nat
  BY AliveConn
<1>2. a \in Nat /\ (conns[f][n].acks <= AckBuf => a = 0)
  BY <1>1 DEF AckBuf
<1>3. conns' = [conns EXCEPT ![f] = s]
  OBVIOUS
<1> HIDE DEF a
<1>4. /\ k \in Conn /\ k.msgs = conns[f][n].msgs /\ k.open = conns[f][n].open
      /\ k.acks = a
  <2>1. <<>> \in Seq(Msg)
    OBVIOUS
  <2> QED BY <1>1, <1>2, <2>1, ConnFields, ZenonT(60)
<1> HIDE DEF n, k
<1>5. s = [conns[f] EXCEPT ![n] = k]
  OBVIOUS
<1> HIDE DEF s
<1>6. OnlyConn(f, n) /\ conns'[f][n] = k
  <2>1. conns[f] \in Seq(Conn) /\ conns \in [Followers -> Seq(Conn)]
    BY DEF Types
  <2>2. /\ s \in Seq(Conn) /\ Len(s) = Len(conns[f]) /\ DOMAIN s = 1..Len(conns[f])
        /\ s[n] = k
        /\ \A h \in 1..Len(conns[f]) : h # n => s[h] = conns[f][h]
    BY <2>1, <1>1, <1>3, <1>4, <1>5
  <2>3. conns'[f] = s /\ \A g \in Followers : g # f => conns'[g] = conns[g]
    BY <2>1, <1>1, <1>3, <1>4, <1>5
  <2>4. conns' \in [Followers -> Seq(Conn)]
    BY <2>1, <2>2, <1>1, <1>3, <1>4, <1>5
  <2> QED BY <2>2, <2>3, <2>4 DEF OnlyConn
<1> QED BY <1>2, <1>4, <1>6 DEF n

\* handleReplication takes a message from the first connection and answers it.
LEMMA HandleEffect ==
    ASSUME Types, NEW f \in Followers, conns[f] # <<>>, Head(conns[f]).msgs # <<>>,
           conns' = [conns EXCEPT ![f][1].msgs = Tail(@), ![f][1].acks = @ + 1]
    PROVE  /\ OnlyConn(f, 1)
           /\ conns'[f][1].msgs = Tail(conns[f][1].msgs)
           /\ conns'[f][1].open = conns[f][1].open
           /\ conns'[f][1].acks = conns[f][1].acks + 1
           /\ Head(Head(conns[f]).msgs) = conns[f][1].msgs[1]
           /\ conns[f][1].msgs[1] \in Msg /\ 1 \in 1..Len(conns[f])
           /\ conns[f][1].msgs \in Seq(Msg) /\ Len(conns[f][1].msgs) > 0
<1> DEFINE u == Tail(conns[f][1].msgs)
           a == conns[f][1].acks + 1
           k == [conns[f][1] EXCEPT !.msgs = u, !.acks = a]
           s == [conns[f] EXCEPT ![1] = k]
<1>1. /\ 1 \in 1..Len(conns[f]) /\ conns[f][1] \in Conn
      /\ Head(conns[f]) = conns[f][1]
      /\ conns[f][1].msgs \in Seq(Msg) /\ conns[f][1].acks \in Nat
  BY AliveConn
<1>2. conns[f][1].msgs # <<>>
  BY <1>1
<1>3. /\ u \in Seq(Msg) /\ a \in Nat
      /\ Head(conns[f][1].msgs) = conns[f][1].msgs[1]
      /\ conns[f][1].msgs[1] \in Msg /\ Len(conns[f][1].msgs) > 0
  BY <1>1, <1>2
<1>4. conns' = [conns EXCEPT ![f] = s]
  BY <1>1 DEF Types
<1> HIDE DEF u, a
<1>5. k \in Conn /\ k.msgs = u /\ k.open = conns[f][1].open /\ k.acks = a
  BY <1>1, <1>3 DEF Conn
<1> HIDE DEF k
<1>6. s = [conns[f] EXCEPT ![1] = k]
  OBVIOUS
<1> HIDE DEF s
<1>7. OnlyConn(f, 1) /\ conns'[f][1] = k
  <2>1. conns[f] \in Seq(Conn) /\ conns \in [Followers -> Seq(Conn)]
    BY DEF Types
  <2>2. /\ s \in Seq(Conn) /\ Len(s) = Len(conns[f]) /\ DOMAIN s = 1..Len(conns[f])
        /\ s[1] = k
        /\ \A h \in 1..Len(conns[f]) : h # 1 => s[h] = conns[f][h]
    BY <2>1, <1>1, <1>4, <1>5, <1>6
  <2>3. conns'[f] = s /\ \A g \in Followers : g # f => conns'[g] = conns[g]
    BY <2>1, <1>1, <1>4, <1>5, <1>6
  <2>4. conns' \in [Followers -> Seq(Conn)]
    BY <2>1, <2>2, <1>1, <1>4, <1>5, <1>6
  <2> QED BY <2>2, <2>3, <2>4 DEF OnlyConn
<1> QED BY <1>1, <1>3, <1>5, <1>7 DEF u, a

\* Reset, the restart of a follower, connectToPeers and the next accept(): the
\* connections of one follower afterwards.
LEMMA ConnsReplaced ==
    ASSUME Types, NEW f \in Followers
    PROVE  /\ \A s \in Seq(Conn) : conns' = [conns EXCEPT ![f] = s] =>
                  /\ conns' \in [Followers -> Seq(Conn)] /\ conns'[f] = s
                  /\ \A g \in Followers : g # f => conns'[g] = conns[g]
           /\ Append(conns[f], NewConn) \in Seq(Conn)
           /\ conns[f] # <<>> => Tail(conns[f]) \in Seq(Conn)
           /\ conns[f] # <<>> =>
                  [conns[f] EXCEPT ![Len(conns[f])] =
                      [msgs |-> <<>>, open |-> FALSE, acks |-> 0]] \in Seq(Conn)
<1>1. conns[f] \in Seq(Conn) /\ conns \in [Followers -> Seq(Conn)]
  BY DEF Types
<1>2. \A s \in Seq(Conn) : conns' = [conns EXCEPT ![f] = s] =>
          /\ conns' \in [Followers -> Seq(Conn)] /\ conns'[f] = s
          /\ \A g \in Followers : g # f => conns'[g] = conns[g]
  BY <1>1
<1>3. Append(conns[f], NewConn) \in Seq(Conn)
  BY <1>1, Constructed
<1>4. conns[f] # <<>> => Tail(conns[f]) \in Seq(Conn)
  BY <1>1
<1>5. conns[f] # <<>> =>
          [conns[f] EXCEPT ![Len(conns[f])] =
              [msgs |-> <<>>, open |-> FALSE, acks |-> 0]] \in Seq(Conn)
  BY <1>1, Constructed
<1> QED BY <1>2, <1>3, <1>4, <1>5

-----------------------------------------------------------------------------
(* What the actions do to the record of a client.                           *)

\* Only client c moves, and its record is now this one.
Now(c, pc, own, com, entry, todo, acks) ==
    /\ client' \in [Clients -> ClientRec]
    /\ \A d \in Clients : d # c => client'[d] = client[d]
    /\ client'[c].pc = pc /\ client'[c].own = own /\ client'[c].commit = com
    /\ client'[c].entry = entry /\ client'[c].todo = todo /\ client'[c].acks = acks

\* Client c has appended an entry of its own to the log.
Appended(c) ==
    /\ log' \in Seq(Entries) /\ Len(log') = Len(log) + 1
    /\ \A i \in 1..Len(log) : log'[i] = log[i]
    /\ log'[Len(log) + 1] \in Entries
    /\ log'[Len(log) + 1].index = Len(log) + 1 /\ log'[Len(log) + 1].val = writes + 1
    /\ Now(c, "commit", log'[Len(log) + 1], 0, NoEntry, <<>>, 0)

\* Client c has read entry e from the end of the log.
HasRead(c, e) ==
    /\ e \in Entries /\ ReadThrough(Appending(c), Last(log), e)
    /\ tears' \in Nat /\ tears' >= tears
    /\ tears' = tears => e = Last(log)
    /\ tears' = tears \/ Appending(c)
    /\ Now(c, "lock", client[c].own, client[c].commit, e, client[c].todo, client[c].acks)

\* The fields of a client's record.
LEMMA ClientFields ==
    ASSUME Types, NEW c \in Clients
    PROVE  /\ client[c] \in ClientRec /\ client[c].pc \in ClientPcs
           /\ client[c].own \in Entries /\ client[c].commit \in Nat
           /\ client[c].entry \in Entries /\ client[c].todo \in Seq(Followers)
           /\ client[c].acks \in Nat
BY DEF Types, ClientRec

\* appendLog begins a call; commit, read, build and lock are its next steps.
LEMMA CallEffects ==
    ASSUME Types, NEW c \in Clients
    PROVE  /\ AppendLog(c) => Appended(c)
           /\ Commit(c) => Now(c, "read", client[c].own, client[c].commit,
                               client[c].entry, client[c].todo, client[c].acks)
           /\ ReadCommit(c) => Now(c, "build", client[c].own, commit,
                                   client[c].entry, client[c].todo, client[c].acks)
           /\ ReadBack(c) /\ log # <<>> => \E e \in Entries : HasRead(c, e)
           /\ ShipLock(c) => Now(c, "ship", client[c].own, client[c].commit,
                                 client[c].entry, Peers, client[c].acks)
           /\ Execute(c) => Now(c, "idle", NoEntry, 0, NoEntry, <<>>, 0)
<1>1. client \in [Clients -> ClientRec] /\ client[c] \in ClientRec
      /\ writes \in Nat /\ commit \in Nat /\ log \in Seq(Entries)
  BY DEF Types
<1>2. AppendLog(c) => Appended(c)
  <2> SUFFICES ASSUME NEW k \in Keys \cup {"other"},
                      LET e == [index |-> Len(log) + 1, key |-> k, val |-> writes + 1]
                      IN  /\ log' = Append(log, e)
                          /\ client' = [client EXCEPT ![c] = [Idle EXCEPT !.pc = "commit",
                                                                          !.own = e]]
               PROVE  Appended(c)
    BY DEF AppendLog
  <2> DEFINE e == [index |-> Len(log) + 1, key |-> k, val |-> writes + 1]
             r == [Idle EXCEPT !.pc = "commit", !.own = e]
  <2>1. /\ e \in Entries /\ e.index = Len(log) + 1 /\ e.val = writes + 1
        /\ log' = Append(log, e)
    BY <1>1 DEF Entries
  <2> HIDE DEF e
  <2>2. /\ r \in ClientRec /\ r.pc = "commit" /\ r.own = e
        /\ r.commit = 0 /\ r.entry = NoEntry /\ r.todo = <<>> /\ r.acks = 0
    <3>1. /\ Idle \in ClientRec /\ Idle.commit = 0 /\ Idle.entry = NoEntry
          /\ Idle.todo = <<>> /\ Idle.acks = 0
      BY Constructed DEF Idle
    <3>2. r \in ClientRec
      <4> DEFINE i == Idle
      <4>1. i \in ClientRec
        BY <3>1
      <4> HIDE DEF i
      <4>2. [i EXCEPT !.pc = "commit", !.own = e] \in ClientRec
        BY <2>1, <4>1 DEF ClientRec, ClientPcs
      <4> QED BY <4>2 DEF i
    <3>3. r.pc = "commit" /\ r.own = e
      BY <3>1 DEF ClientRec
    <3>4. r.commit = 0 /\ r.entry = NoEntry /\ r.todo = <<>> /\ r.acks = 0
      BY <3>1 DEF ClientRec
    <3> QED BY <3>2, <3>3, <3>4
  <2>3. client' = [client EXCEPT ![c] = r]
    BY DEF e
  <2> HIDE DEF r
  <2>4. Now(c, "commit", e, 0, NoEntry, <<>>, 0)
    BY <2>2, <2>3, <1>1 DEF Now
  <2>5. /\ log' \in Seq(Entries) /\ Len(log') = Len(log) + 1
        /\ log'[Len(log) + 1] = e
        /\ \A i \in 1..Len(log) : log'[i] = log[i]
    BY <2>1, <1>1
  <2> QED BY <2>1, <2>4, <2>5 DEF Appended
<1>3. Commit(c) => Now(c, "read", client[c].own, client[c].commit,
                       client[c].entry, client[c].todo, client[c].acks)
  <2> SUFFICES ASSUME Commit(c)
               PROVE  Now(c, "read", client[c].own, client[c].commit, client[c].entry,
                          client[c].todo, client[c].acks)
    OBVIOUS
  <2> DEFINE k == [client[c] EXCEPT !.pc = "read"]
  <2>1. client' = [client EXCEPT ![c] = k]
    BY DEF Commit
  <2>2. k \in ClientRec
    BY <1>1 DEF ClientRec, ClientPcs
  <2>3. /\ k.pc = "read" /\ k.own = client[c].own /\ k.commit = client[c].commit
        /\ k.entry = client[c].entry /\ k.todo = client[c].todo /\ k.acks = client[c].acks
    BY <1>1 DEF ClientRec
  <2> HIDE DEF k
  <2> QED BY <1>1, <2>1, <2>2, <2>3 DEF Now
<1>4. ReadCommit(c) => Now(c, "build", client[c].own, commit,
                           client[c].entry, client[c].todo, client[c].acks)
  <2> SUFFICES ASSUME ReadCommit(c)
               PROVE  Now(c, "build", client[c].own, commit, client[c].entry,
                          client[c].todo, client[c].acks)
    OBVIOUS
  <2> DEFINE k == [client[c] EXCEPT !.pc = "build", !.commit = commit]
  <2>1. client' = [client EXCEPT ![c] = k]
    BY DEF ReadCommit
  <2>2. k \in ClientRec
    BY <1>1 DEF ClientRec, ClientPcs
  <2>3. /\ k.pc = "build" /\ k.own = client[c].own /\ k.commit = commit
        /\ k.entry = client[c].entry /\ k.todo = client[c].todo /\ k.acks = client[c].acks
    BY <1>1 DEF ClientRec
  <2> HIDE DEF k
  <2> QED BY <1>1, <2>1, <2>2, <2>3 DEF Now
<1>5. ReadBack(c) /\ log # <<>> => \E e \in Entries : HasRead(c, e)
  <2> SUFFICES ASSUME ReadBack(c) /\ log # <<>>
               PROVE  \E e \in Entries : HasRead(c, e)
    OBVIOUS
  <2>1. Last(log) \in Entries
    BY <1>1 DEF Last
  <2>2. PICK e \in Torn \cup {Last(log)} :
            /\ ReadThrough(Appending(c), Last(log), e)
            /\ client' = [client EXCEPT ![c].pc = "lock", ![c].entry = e]
    BY DEF ReadBack
  <2>3. e \in Entries
    BY <2>1, ReplicationAssumption
  <2> DEFINE k == [client[c] EXCEPT !.pc = "lock", !.entry = e]
  <2>4. client' = [client EXCEPT ![c] = k]
    BY <2>2
  <2>5. k \in ClientRec
    BY <1>1, <2>3 DEF ClientRec, ClientPcs
  <2>6. /\ k.pc = "lock" /\ k.own = client[c].own /\ k.commit = client[c].commit
        /\ k.entry = e /\ k.todo = client[c].todo /\ k.acks = client[c].acks
    BY <1>1 DEF ClientRec
  <2> HIDE DEF k
  <2>7. Now(c, "lock", client[c].own, client[c].commit, e, client[c].todo, client[c].acks)
    BY <1>1, <2>4, <2>5, <2>6 DEF Now
  <2>8. /\ tears' \in Nat /\ tears' >= tears /\ (tears' = tears => e = Last(log))
        /\ tears' = tears \/ Appending(c)
    BY <2>2 DEF ReadThrough, Types
  <2> QED BY <2>2, <2>3, <2>7, <2>8 DEF HasRead
<1>6. ShipLock(c) => Now(c, "ship", client[c].own, client[c].commit,
                         client[c].entry, Peers, client[c].acks)
  <2> SUFFICES ASSUME ShipLock(c)
               PROVE  Now(c, "ship", client[c].own, client[c].commit, client[c].entry,
                          Peers, client[c].acks)
    OBVIOUS
  <2> DEFINE k == [client[c] EXCEPT !.pc = "ship", !.todo = Peers]
  <2>1. client' = [client EXCEPT ![c] = k]
    BY DEF ShipLock
  <2>2. k \in ClientRec
    BY <1>1, ReplicationAssumption DEF ClientRec, ClientPcs
  <2>3. /\ k.pc = "ship" /\ k.own = client[c].own /\ k.commit = client[c].commit
        /\ k.entry = client[c].entry /\ k.todo = Peers /\ k.acks = client[c].acks
    BY <1>1 DEF ClientRec
  <2> HIDE DEF k
  <2> QED BY <1>1, <2>1, <2>2, <2>3 DEF Now
<1>7. Execute(c) => Now(c, "idle", NoEntry, 0, NoEntry, <<>>, 0)
  <2>1. /\ Idle \in ClientRec /\ Idle.pc = "idle" /\ Idle.own = NoEntry /\ Idle.commit = 0
        /\ Idle.entry = NoEntry /\ Idle.todo = <<>> /\ Idle.acks = 0
    BY Constructed DEF Idle
  <2> QED BY <1>1, <2>1 DEF Execute, Now
<1> QED BY <1>2, <1>3, <1>4, <1>5, <1>6, <1>7

\* The steps of shipEntries.
LEMMA ShipEffects ==
    ASSUME TypeInv, NEW c \in Clients
    PROVE  /\ ShipSkip(c) \/ ShipFail(c) \/ ShipNoAck(c) =>
                  Now(c, "ship", client[c].own, client[c].commit, client[c].entry,
                      Tail(client[c].todo), client[c].acks)
           /\ ShipAck(c) =>
                  Now(c, "ship", client[c].own, client[c].commit, client[c].entry,
                      Tail(client[c].todo), client[c].acks + 1)
           /\ ShipSend(c) =>
                  Now(c, "recv", client[c].own, client[c].commit, client[c].entry,
                      client[c].todo, client[c].acks)
           /\ ShipDone(c) =>
                  Now(c, "execute", client[c].own, client[c].commit, client[c].entry,
                      client[c].todo, client[c].acks)
           /\ ShipSkip(c) \/ ShipFail(c) \/ ShipSend(c) \/ ShipAck(c) \/ ShipNoAck(c) =>
                  client[c].todo # <<>> /\ Head(client[c].todo) \in Followers
<1>1. client \in [Clients -> ClientRec] /\ client[c] \in ClientRec
  BY DEF TypeInv, Types
<1>2. ShipSkip(c) \/ ShipFail(c) \/ ShipSend(c) \/ ShipAck(c) \/ ShipNoAck(c) =>
          client[c].todo # <<>> /\ Head(client[c].todo) \in Followers
  <2>1. ShipAck(c) \/ ShipNoAck(c) => client[c].todo # <<>>
    BY DEF ShipAck, ShipNoAck, TypeInv, Bounded, ClientBounds
  <2>2. ShipSkip(c) \/ ShipFail(c) \/ ShipSend(c) => client[c].todo # <<>>
    BY DEF ShipSkip, ShipFail, ShipSend
  <2>3. client[c].todo \in Seq(Followers)
    BY ClientFields DEF TypeInv
  <2> QED BY <2>1, <2>2, <2>3
<1>3. ASSUME client[c].todo # <<>>
      PROVE  /\ NextPeer(c) \in ClientRec
             /\ NextPeer(c).pc = "ship" /\ NextPeer(c).todo = Tail(client[c].todo)
             /\ NextPeer(c).own = client[c].own /\ NextPeer(c).acks = client[c].acks
             /\ NextPeer(c).entry = client[c].entry
             /\ NextPeer(c).commit = client[c].commit
  BY <1>1, <1>3, NextPeerType DEF TypeInv, NextPeer, ClientRec
<1>4. ShipSkip(c) \/ ShipFail(c) \/ ShipNoAck(c) =>
          Now(c, "ship", client[c].own, client[c].commit, client[c].entry,
              Tail(client[c].todo), client[c].acks)
  <2> SUFFICES ASSUME ShipSkip(c) \/ ShipFail(c) \/ ShipNoAck(c)
               PROVE  Now(c, "ship", client[c].own, client[c].commit, client[c].entry,
                          Tail(client[c].todo), client[c].acks)
    OBVIOUS
  <2>1. client' = [client EXCEPT ![c] = NextPeer(c)]
    BY DEF ShipSkip, ShipFail, ShipNoAck
  <2> QED BY <1>1, <1>2, <1>3, <2>1 DEF Now
<1>5. ShipAck(c) =>
          Now(c, "ship", client[c].own, client[c].commit, client[c].entry,
              Tail(client[c].todo), client[c].acks + 1)
  <2> SUFFICES ASSUME ShipAck(c)
               PROVE  Now(c, "ship", client[c].own, client[c].commit, client[c].entry,
                          Tail(client[c].todo), client[c].acks + 1)
    OBVIOUS
  <2> DEFINE p == NextPeer(c)
             k == [p EXCEPT !.acks = p.acks + 1]
  <2>1. client' = [client EXCEPT ![c] = k]
    BY DEF ShipAck
  <2>2. /\ p \in ClientRec /\ p.pc = "ship" /\ p.todo = Tail(client[c].todo)
        /\ p.own = client[c].own /\ p.acks = client[c].acks
        /\ p.entry = client[c].entry /\ p.commit = client[c].commit
    BY <1>2, <1>3
  <2> HIDE DEF p
  <2>3. /\ k \in ClientRec /\ k.pc = p.pc /\ k.todo = p.todo /\ k.own = p.own
        /\ k.acks = p.acks + 1 /\ k.entry = p.entry /\ k.commit = p.commit
    BY <2>2 DEF ClientRec
  <2> HIDE DEF k
  <2> QED BY <1>1, <2>1, <2>2, <2>3 DEF Now
<1>6. ShipSend(c) =>
          Now(c, "recv", client[c].own, client[c].commit, client[c].entry,
              client[c].todo, client[c].acks)
  <2> SUFFICES ASSUME ShipSend(c)
               PROVE  Now(c, "recv", client[c].own, client[c].commit, client[c].entry,
                          client[c].todo, client[c].acks)
    OBVIOUS
  <2> DEFINE k == [client[c] EXCEPT !.pc = "recv"]
  <2>1. client' = [client EXCEPT ![c] = k]
    BY DEF ShipSend
  <2>2. k \in ClientRec
    BY <1>1 DEF ClientRec, ClientPcs
  <2>3. /\ k.pc = "recv" /\ k.own = client[c].own /\ k.commit = client[c].commit
        /\ k.entry = client[c].entry /\ k.todo = client[c].todo /\ k.acks = client[c].acks
    BY <1>1 DEF ClientRec
  <2> HIDE DEF k
  <2> QED BY <1>1, <2>1, <2>2, <2>3 DEF Now
<1>7. ShipDone(c) =>
          Now(c, "execute", client[c].own, client[c].commit, client[c].entry,
              client[c].todo, client[c].acks)
  <2> SUFFICES ASSUME ShipDone(c)
               PROVE  Now(c, "execute", client[c].own, client[c].commit, client[c].entry,
                          client[c].todo, client[c].acks)
    OBVIOUS
  <2> DEFINE k == [client[c] EXCEPT !.pc = "execute"]
  <2>1. client' = [client EXCEPT ![c] = k]
    BY DEF ShipDone
  <2>2. k \in ClientRec
    BY <1>1 DEF ClientRec, ClientPcs
  <2>3. /\ k.pc = "execute" /\ k.own = client[c].own /\ k.commit = client[c].commit
        /\ k.entry = client[c].entry /\ k.todo = client[c].todo /\ k.acks = client[c].acks
    BY <1>1 DEF ClientRec
  <2> HIDE DEF k
  <2> QED BY <1>1, <2>1, <2>2, <2>3 DEF Now
<1> QED BY <1>2, <1>4, <1>5, <1>6, <1>7

-----------------------------------------------------------------------------
(* What put() and del() do to the engines.                                  *)

\* The engine of node n has entry e, and is otherwise as it was.
Written(n, e) ==
    \A k \in Keys : store'[n][k] = IF e.key = k THEN e.val ELSE store[n][k]

\* A write changes one key of one engine, or a key that is not followed.
LEMMA StoredEffect ==
    ASSUME Types, NEW n \in Nodes, NEW e \in Entries, store' = Stored(n, e)
    PROVE  /\ store' \in [Nodes -> [Keys -> Nat]] /\ Written(n, e)
           /\ \A m \in Nodes : m # n => store'[m] = store[m]
<1>1. store \in [Nodes -> [Keys -> Nat]] /\ store[n] \in [Keys -> Nat]
  BY DEF Types
<1>2. e.val \in Nat
  BY DEF Entries
<1>3. CASE e.key \in Keys
  <2> DEFINE v == e.val
             r == [store[n] EXCEPT ![e.key] = v]
  <2>1. store' = [store EXCEPT ![n] = r]
    BY <1>3 DEF Stored
  <2> HIDE DEF v
  <2>2. r \in [Keys -> Nat] /\ \A k \in Keys : r[k] = IF e.key = k THEN v ELSE store[n][k]
    BY <1>1, <1>2, <1>3 DEF v
  <2> HIDE DEF r
  <2>3. /\ store' \in [Nodes -> [Keys -> Nat]] /\ store'[n] = r
        /\ \A m \in Nodes : m # n => store'[m] = store[m]
    BY <1>1, <2>1, <2>2
  <2> QED BY <2>2, <2>3 DEF Written, v
<1>4. CASE e.key \notin Keys
  <2>1. store' = store
    BY <1>4 DEF Stored
  <2> QED BY <1>1, <1>4, <2>1 DEF Written
<1> QED BY <1>3, <1>4

\* An entry is written, unless an engine fails or another one is read.
LEMMA ApplyEffect ==
    ASSUME Types, NEW n \in Nodes, NEW stale \in BOOLEAN, NEW e \in Entries,
           ApplyLogEntry(n, stale, e)
    PROVE  /\ store' \in [Nodes -> [Keys -> Nat]]
           /\ \A m \in Nodes : m # n => store'[m] = store[m]
           /\ failures' \in Nat /\ failures' >= failures
           /\ tears' \in Nat /\ tears' >= tears
           /\ \/ Written(n, e)
              \/ store' = store /\ failures' > failures
              \/ tears' > tears
<1>1. failures \in Nat /\ tears \in Nat /\ store \in [Nodes -> [Keys -> Nat]]
  BY DEF Types
<1>2. ASSUME NEW read \in Torn \cup {e}, ReadThrough(stale, e, read),
             store' = Stored(n, read), UNCHANGED failures
      PROVE  /\ store' \in [Nodes -> [Keys -> Nat]]
             /\ \A m \in Nodes : m # n => store'[m] = store[m]
             /\ failures' \in Nat /\ failures' >= failures
             /\ tears' \in Nat /\ tears' >= tears
             /\ Written(n, e) \/ tears' > tears
  <2>1. read \in Entries
    BY ReplicationAssumption
  <2>2. /\ store' \in [Nodes -> [Keys -> Nat]] /\ Written(n, read)
        /\ \A m \in Nodes : m # n => store'[m] = store[m]
    BY <1>2, <2>1, StoredEffect
  <2>3. (read = e /\ tears' = tears) \/ tears' = tears + 1
    BY <1>2 DEF ReadThrough
  <2> QED BY <1>1, <1>2, <2>2, <2>3
<1>3. ASSUME failures' = failures + 1, UNCHANGED <<store, tears>>
      PROVE  /\ store' = store /\ failures' \in Nat /\ failures' > failures
             /\ tears' = tears
  BY <1>1, <1>3
<1>4. CASE \E read \in Torn \cup {e} :
              /\ ReadThrough(stale, e, read) /\ store' = Stored(n, read)
              /\ UNCHANGED failures
  BY <1>2, <1>4
<1>5. CASE failures' = failures + 1 /\ UNCHANGED <<store, tears>>
  BY <1>1, <1>3, <1>5
<1> QED BY <1>4, <1>5 DEF ApplyLogEntry

-----------------------------------------------------------------------------
(* Types and bounds.                                                        *)

\* What the followers keep is bounded as before when nothing of it changes.
LEMMA FollowersSame ==
    ASSUME FollowerBounds, UNCHANGED followVars
    PROVE  FollowerBounds'
BY DEF FollowerBounds, followVars, FollowerFind, WithIndex

\* ... and so are the leader's log, commit index and apply thread.
LEMMA LeaderSame ==
    ASSUME LeaderBounds, UNCHANGED leaderVars
    PROVE  LeaderBounds'
BY DEF LeaderBounds, leaderVars

\* A step of a client that changes nothing but the client, its peers, the
\* connections, and the counters.
LEMMA ClientStepTypes ==
    ASSUME TypeInv, NEW c \in Clients, UNCHANGED <<leaderVars, followVars>>,
           client' \in [Clients -> ClientRec], \A d \in Clients : d # c => client'[d] = client[d],
           client[c].pc # "idle" \/ client'[c].pc = "idle",
           client'[c].pc = "recv" => client'[c].todo # <<>>
    PROVE  Bounded'
<1>1. FollowerBounds' /\ LeaderBounds'
  BY FollowersSame, LeaderSame DEF TypeInv, Bounded
<1>2. ClientBounds'
  BY DEF TypeInv, Bounded, ClientBounds, leaderVars
<1> QED BY <1>1, <1>2 DEF Bounded

\* appendLog keeps the types and the bounds.
LEMMA AppendLogTypes ==
    ASSUME TypeInv, NEW c \in Clients, AppendLog(c)
    PROVE  TypeInv'
<1> USE DEF TypeInv
<1>1. Appended(c)
  BY CallEffects
<1>2. /\ log \in Seq(Entries) /\ writes \in Nat /\ applier \in Applier
      /\ lastApplied \in Nat /\ commit \in Nat
  BY DEF Types
<1>3. client' \in [Clients -> ClientRec]
  BY <1>1 DEF Appended, Now
<1>4. /\ log' \in Seq(Entries) /\ Len(log') = Len(log) + 1 /\ log' # <<>>
  BY <1>1, <1>2 DEF Appended
<1>5. applier' \in Applier /\ applier'.pc = applier.pc
  BY <1>2, ApplierMoves, ZenonT(60) DEF AppendLog
<1>6. Types'
  BY <1>2, <1>3, <1>4, <1>5, SMTT(30)
     DEF Types, AppendLog, followVars, ghostVars, faultVars
<1>7. LeaderBounds'
  BY <1>2, <1>4, <1>5 DEF Bounded, LeaderBounds, AppendLog
<1>8. FollowerBounds'
  BY FollowersSame DEF Bounded, AppendLog
<1>9. ClientBounds'
  BY <1>1, <1>4 DEF ClientBounds, Bounded, Appended, Now
<1> QED BY <1>6, <1>7, <1>8, <1>9 DEF Bounded

\* The steps of a call that only move the client keep the types and the bounds.
LEMMA CallTypes ==
    ASSUME TypeInv, NEW c \in Clients,
           Commit(c) \/ ReadCommit(c) \/ ReadBack(c) \/ ShipLock(c) \/ Execute(c)
    PROVE  TypeInv'
<1> USE DEF TypeInv
<1>1. CASE Commit(c)
  <2>1. Now(c, "read", client[c].own, client[c].commit,
            client[c].entry, client[c].todo, client[c].acks)
    BY <1>1, CallEffects
  <2>2. log \in Seq(Entries) /\ lastApplied \in Nat /\ commit \in Nat
    BY DEF Types
  <2>3. Types'
    BY <1>1, <2>1, <2>2 DEF Types, Commit, followVars, ghostVars, callVars, faultVars, Now
  <2>4. LeaderBounds'
    BY <1>1, <2>2 DEF Bounded, LeaderBounds, Commit
  <2>5. FollowerBounds'
    BY <1>1, FollowersSame DEF Bounded, Commit
  <2>6. ClientBounds'
    BY <1>1, <2>1 DEF ClientBounds, Bounded, Now, Commit
  <2> QED BY <2>3, <2>4, <2>5, <2>6 DEF Bounded
<1>2. CASE ReadCommit(c)
  <2>1. Now(c, "build", client[c].own, commit,
            client[c].entry, client[c].todo, client[c].acks)
    BY <1>2, CallEffects
  <2>2. Types'
    BY <1>2, <2>1 DEF Types, ReadCommit, leaderVars, followVars, ghostVars, callVars,
                      faultVars, Now
  <2>3. Bounded'
    BY <1>2, <2>1, ClientStepTypes DEF ReadCommit, Now
  <2> QED BY <2>2, <2>3
<1>3. CASE ReadBack(c)
  <2>1. log # <<>>
    BY <1>3 DEF Bounded, ClientBounds, ReadBack
  <2>2. PICK e \in Entries : HasRead(c, e)
    BY <1>3, <2>1, CallEffects
  <2>3. Types'
    BY <1>3, <2>2 DEF Types, ReadBack, leaderVars, followVars, ghostVars, callVars,
                      HasRead, Now
  <2>4. Bounded'
    BY <1>3, <2>2, ClientStepTypes DEF ReadBack, HasRead, Now
  <2> QED BY <2>3, <2>4
<1>4. CASE ShipLock(c)
  <2>1. Now(c, "ship", client[c].own, client[c].commit,
            client[c].entry, Peers, client[c].acks)
    BY <1>4, CallEffects
  <2>2. Types'
    BY <1>4, <2>1 DEF Types, ShipLock, leaderVars, followVars, ghostVars, callVars,
                      faultVars, Now
  <2>3. Bounded'
    BY <1>4, <2>1, ClientStepTypes DEF ShipLock, Now
  <2> QED BY <2>2, <2>3
<1>5. CASE Execute(c)
  <2>1. Now(c, "idle", NoEntry, 0, NoEntry, <<>>, 0)
    BY <1>5, CallEffects
  <2>2. /\ store' \in [Nodes -> [Keys -> Nat]]
        /\ failures' \in Nat /\ tears' \in Nat
    <3>1. client[c].own \in Entries /\ "leader" \in Nodes
      BY ClientFields DEF Nodes
    <3> QED BY <1>5, <3>1, ApplyEffect DEF Execute
  <2>3. Types'
    BY <1>5, <2>1, <2>2 DEF Types, Execute, leaderVars, followVars, ghostVars, callVars, Now
  <2>4. Bounded'
    BY <1>5, <2>1, ClientStepTypes DEF Execute, Now
  <2> QED BY <2>3, <2>4
<1> QED BY <1>1, <1>2, <1>3, <1>4, <1>5

\* shipEntries keeps the types and the bounds.
LEMMA ShipTypes ==
    ASSUME TypeInv, NEW c \in Clients,
           \/ ShipSkip(c) \/ ShipSend(c) \/ ShipFail(c) \/ ShipAck(c) \/ ShipNoAck(c)
           \/ ShipDone(c)
    PROVE  TypeInv'
<1> USE DEF TypeInv
<1>1. CASE ShipSkip(c) \/ ShipFail(c) \/ ShipNoAck(c)
  <2>1. Now(c, "ship", client[c].own, client[c].commit, client[c].entry,
            Tail(client[c].todo), client[c].acks)
    BY <1>1, ShipEffects
  <2>2. Types'
    <3>1. UNCHANGED <<leaderVars, followVars, conns, store, ghostVars, callVars,
                      resets, crashes, restarts, failures, tears>>
      BY <1>1 DEF ShipSkip, ShipFail, ShipNoAck, faultVars
    <3>2. timeouts' \in Nat
      <4>1. timeouts' = timeouts \/ timeouts' = timeouts + 1
        BY <1>1 DEF ShipSkip, ShipFail, ShipNoAck, faultVars
      <4> QED BY <4>1 DEF Types
    <3>3. peer' \in [Followers -> BOOLEAN]
      <4>1. peer' = peer \/ \E f \in Followers : peer' = [peer EXCEPT ![f] = FALSE]
        BY <1>1, ShipEffects DEF ShipSkip, ShipFail, ShipNoAck
      <4> QED BY <4>1 DEF Types
    <3> QED BY <2>1, <3>1, <3>2, <3>3
            DEF Types, leaderVars, followVars, ghostVars, callVars, Now
  <2>3. Bounded'
    BY <1>1, <2>1, ClientStepTypes DEF ShipSkip, ShipFail, ShipNoAck, Now
  <2> QED BY <2>2, <2>3
<1>2. CASE ShipSend(c)
  <2>1. Now(c, "recv", client[c].own, client[c].commit, client[c].entry,
            client[c].todo, client[c].acks)
    BY <1>2, ShipEffects
  <2>2. conns' \in [Followers -> Seq(Conn)]
    <3> DEFINE f == Head(client[c].todo)
    <3>1. f \in Followers
      BY <1>2, ShipEffects
    <3>2. CASE Alive(f)
      <4>1. conns' = [conns EXCEPT ![f][Len(conns[f])].msgs = Append(@, Message(c))]
        BY <1>2, <3>2 DEF ShipSend
      <4>2. Message(c) \in Msg
        BY ClientFields DEF Message, Msg
      <4> HIDE DEF f
      <4> QED BY <3>1, <3>2, <4>1, <4>2, SendEffect DEF OnlyConn
    <3>3. CASE ~Alive(f)
      BY <1>2, <3>3 DEF ShipSend, Types
    <3> QED BY <3>2, <3>3
  <2>3. Types'
    BY <1>2, <2>1, <2>2 DEF Types, ShipSend, leaderVars, followVars, ghostVars, callVars,
                      faultVars, Now
  <2>4. Bounded'
    BY <1>2, <2>1, ClientStepTypes DEF ShipSend, Now
  <2> QED BY <2>3, <2>4
<1>3. CASE ShipAck(c)
  <2>1. Now(c, "ship", client[c].own, client[c].commit, client[c].entry,
            Tail(client[c].todo), client[c].acks + 1)
    BY <1>3, ShipEffects
  <2>2. conns' \in [Followers -> Seq(Conn)]
    <3> DEFINE f == Head(client[c].todo)
    <3>1. f \in Followers
      BY <1>3, ShipEffects
    <3>2. /\ Alive(f)
          /\ conns' = [conns EXCEPT ![f][Len(conns[f])].acks =
                            IF @ > AckBuf THEN @ - AckBuf ELSE 0]
      BY <1>3 DEF ShipAck
    <3> HIDE DEF f
    <3> QED BY <3>1, <3>2, AckEffect DEF OnlyConn
  <2>3. Types'
    BY <1>3, <2>1, <2>2 DEF Types, ShipAck, leaderVars, followVars, ghostVars, callVars,
                      faultVars, Now
  <2>4. Bounded'
    BY <1>3, <2>1, ClientStepTypes DEF ShipAck, Now
  <2> QED BY <2>3, <2>4
<1>4. CASE ShipDone(c)
  <2>1. Now(c, "execute", client[c].own, client[c].commit, client[c].entry,
            client[c].todo, client[c].acks)
    BY <1>4, ShipEffects
  <2>2. /\ applier' \in Applier
        /\ applier.pc # "call" => applier'.pc # "call"
    BY <1>4, ApplierMoves DEF ShipDone, Types
  <2>3. confirmed' \subseteq Entries
    BY <1>4, ClientFields DEF ShipDone, Types
  <2>4. Types'
    BY <1>4, <2>1, <2>2, <2>3 DEF Types, ShipDone, followVars, ghostVars, callVars,
                      faultVars, Now
  <2>5. LeaderBounds'
    BY <1>4, <2>2 DEF Bounded, LeaderBounds, ShipDone
  <2>6. FollowerBounds'
    BY <1>4, FollowersSame DEF Bounded, ShipDone
  <2>7. ClientBounds'
    BY <1>4, <2>1 DEF ClientBounds, Bounded, Now, ShipDone
  <2> QED BY <2>4, <2>5, <2>6, <2>7 DEF Bounded
<1> QED BY <1>1, <1>2, <1>3, <1>4

\* connectToPeers and the leader's apply thread keep the types and the bounds.
LEMMA LeaderTypes ==
    ASSUME TypeInv, ApplyTest \/ ApplyCall \/ \E f \in Followers : ConnectToPeer(f)
    PROVE  TypeInv'
<1> USE DEF TypeInv
<1>1. CASE ApplyTest
  <2>1. /\ applier' \in Applier
        /\ applier'.pc = "call" => lastApplied < commit
    <3>1. commit \in Nat /\ lastApplied \in Nat
      BY DEF Types
    <3>2. CASE commit > lastApplied
      <4>1. applier' = [pc |-> "call", stale |-> FALSE]
        BY <1>1, <3>2 DEF ApplyTest
      <4> QED BY <3>1, <3>2, <4>1, Constructed
    <3>3. CASE ~(commit > lastApplied)
      <4>1. applier' = Asleep
        BY <1>1, <3>3 DEF ApplyTest
      <4> QED BY <4>1, Constructed DEF Asleep
    <3> QED BY <3>2, <3>3
  <2>2. Types'
    BY <1>1, <2>1 DEF Types, ApplyTest, followVars, ghostVars, callVars, faultVars
  <2>3. LeaderBounds'
    BY <1>1, <2>1 DEF Bounded, LeaderBounds, ApplyTest
  <2>4. FollowerBounds'
    BY <1>1, FollowersSame DEF Bounded, ApplyTest
  <2>5. ClientBounds'
    BY <1>1 DEF ClientBounds, Bounded, ApplyTest
  <2> QED BY <2>2, <2>3, <2>4, <2>5 DEF Bounded
<1>2. CASE ApplyCall
  <2>1. /\ commit \in Nat /\ lastApplied \in Nat /\ log \in Seq(Entries)
        /\ lastApplied < commit /\ commit <= Len(log) /\ applier \in Applier
    BY <1>2 DEF Types, Bounded, LeaderBounds, ApplyCall
  <2>2. log[lastApplied + 1] \in Entries
    BY <2>1
  <2>3. "leader" \in Nodes /\ applier.stale \in BOOLEAN
    BY <2>1 DEF Nodes, Applier
  <2>4. store' \in [Nodes -> [Keys -> Nat]] /\ failures' \in Nat /\ tears' \in Nat
    BY <1>2, <2>2, <2>3, ApplyEffect DEF ApplyCall
  <2>5. applier' \in Applier /\ applier'.pc = "test"
    BY <1>2, Constructed DEF ApplyCall
  <2>6. lastApplied' \in Nat /\ lastApplied' <= commit
    BY <1>2, <2>1 DEF ApplyCall
  <2>7. Types'
    BY <1>2, <2>4, <2>5, <2>6
       DEF Types, ApplyCall, followVars, ghostVars, callVars
  <2>8. LeaderBounds'
    BY <1>2, <2>1, <2>5, <2>6 DEF LeaderBounds, ApplyCall
  <2>9. FollowerBounds'
    BY <1>2, FollowersSame DEF Bounded, ApplyCall
  <2>10. ClientBounds'
    BY <1>2 DEF ClientBounds, Bounded, ApplyCall
  <2> QED BY <2>7, <2>8, <2>9, <2>10 DEF Bounded
<1>3. ASSUME NEW f \in Followers, ConnectToPeer(f)
      PROVE  TypeInv'
  <2>1. Append(conns[f], NewConn) \in Seq(Conn) /\ conns \in [Followers -> Seq(Conn)]
    BY ConnsReplaced DEF Types
  <2>2. conns' \in [Followers -> Seq(Conn)] /\ peer' \in [Followers -> BOOLEAN]
    BY <1>3, <2>1 DEF ConnectToPeer, Types
  <2>3. Types'
    BY <1>3, <2>2
       DEF Types, ConnectToPeer, leaderVars, followVars, ghostVars, callVars, faultVars
  <2>4. FollowerBounds' /\ LeaderBounds'
    BY <1>3, FollowersSame, LeaderSame DEF Bounded, ConnectToPeer
  <2>5. ClientBounds'
    BY <1>3 DEF ClientBounds, Bounded, ConnectToPeer, leaderVars
  <2> QED BY <2>3, <2>4, <2>5 DEF Bounded
<1> QED BY <1>1, <1>2, <1>3

-----------------------------------------------------------------------------
(* What the actions of a follower do.                                       *)

\* handleReplication: the log of one follower grows by the entry of the message,
\* and its commit index does not fall.
LEMMA HandleFollower ==
    ASSUME TypeInv, NEW f \in Followers, HandleReplication(f)
    PROVE  LET e == conns[f][1].msgs[1].entry
               m == conns[f][1].msgs[1].commit
           IN  /\ e \in Entries /\ m \in Nat
               /\ flog' \in [Followers -> Seq(Entries)]
               /\ flog'[f] = Append(flog[f], e)
               /\ Len(flog'[f]) = Len(flog[f]) + 1
               /\ flog'[f][Len(flog[f]) + 1] = e
               /\ \A n \in DOMAIN flog[f] : n \in DOMAIN flog'[f] /\ flog'[f][n] = flog[f][n]
               /\ fcommit' \in [Followers -> Nat]
               /\ fcommit'[f] = (IF m > fcommit[f] THEN m ELSE fcommit[f])
               /\ fapplier' \in [Followers -> Applier]
               /\ fapplier'[f].pc = "call" => fapplier[f].pc = "call"
               /\ fapplier[f].pc = "call" => fapplier'[f].pc = "call"
               /\ \A g \in Followers : g # f =>
                      /\ flog'[g] = flog[g] /\ fcommit'[g] = fcommit[g]
                      /\ fapplier'[g] = fapplier[g]
               /\ received' = received \cup {e}
<1> DEFINE msg == conns[f][1].msgs[1]
           t == AfterPush(fapplier[f], Len(flog[f]))
           u == IF msg.commit > fcommit[f] THEN Notified(t) ELSE t
<1>1. /\ Head(Head(conns[f]).msgs) = msg /\ msg \in Msg
  BY HandleEffect DEF HandleReplication, TypeInv
<1>2. msg.entry \in Entries /\ msg.commit \in Nat
  BY <1>1 DEF Msg
<1>3. /\ flog \in [Followers -> Seq(Entries)] /\ flog[f] \in Seq(Entries)
      /\ fcommit \in [Followers -> Nat] /\ fcommit[f] \in Nat
      /\ fapplier \in [Followers -> Applier] /\ fapplier[f] \in Applier
  BY DEF TypeInv, Types
<1>4. /\ flog' = [flog EXCEPT ![f] = Append(flog[f], msg.entry)]
      /\ fcommit' = [fcommit EXCEPT ![f] =
                              IF msg.commit > fcommit[f] THEN msg.commit ELSE fcommit[f]]
      /\ fapplier' = [fapplier EXCEPT ![f] = u]
      /\ received' = received \cup {msg.entry}
  BY <1>1 DEF HandleReplication
<1>5. t \in Applier /\ t.pc = fapplier[f].pc
  BY <1>3, ApplierMoves
<1> HIDE DEF t
<1>6. /\ u \in Applier /\ (u.pc = "call" => fapplier[f].pc = "call")
      /\ (fapplier[f].pc = "call" => u.pc = "call")
  BY <1>5, ApplierMoves
<1> DEFINE e == msg.entry
           m == msg.commit
<1> HIDE DEF msg, u
<1>7. /\ flog' \in [Followers -> Seq(Entries)]
      /\ flog'[f] = Append(flog[f], e)
      /\ Len(flog'[f]) = Len(flog[f]) + 1
      /\ flog'[f][Len(flog[f]) + 1] = e
      /\ \A n \in DOMAIN flog[f] : n \in DOMAIN flog'[f] /\ flog'[f][n] = flog[f][n]
      /\ \A g \in Followers : g # f => flog'[g] = flog[g]
  BY <1>2, <1>3, <1>4
<1>8. /\ fcommit' \in [Followers -> Nat]
      /\ fcommit'[f] = (IF m > fcommit[f] THEN m ELSE fcommit[f])
      /\ \A g \in Followers : g # f => fcommit'[g] = fcommit[g]
  BY <1>2, <1>3, <1>4
<1>9. /\ fapplier' \in [Followers -> Applier] /\ fapplier'[f] = u
      /\ \A g \in Followers : g # f => fapplier'[g] = fapplier[g]
  BY <1>3, <1>4, <1>6
<1> QED BY <1>2, <1>4, <1>6, <1>7, <1>8, <1>9 DEF msg

\* A nonempty set of naturals has a least element.
LEMMA LeastNatural ==
    ASSUME NEW S \in SUBSET Nat, S # {}
    PROVE  \E n \in S : \A m \in S : n <= m
<1> DEFINE R == OpToRel(<, Nat)
<1>1. IsWellFoundedOn(R, Nat)
  BY NatLessThanWellFounded
<1>2. \A x, y \in Nat : x < y => <<x, y>> \in R
  BY DEF OpToRel
<1> HIDE DEF R
<1>3. PICK n \in S : \A y \in S : ~ (<<y, n>> \in R)
  BY <1>1, WFMin
<1>4. S \subseteq Nat /\ n \in Nat
  OBVIOUS
<1>5. \A m \in S : ~(m < n)
  BY <1>2, <1>3, <1>4
<1> QED BY <1>4, <1>5

\* A follower's apply thread stores the first entry with the next index, unless
\* its engine fails or it reads another entry.
LEMMA CallFollower ==
    ASSUME TypeInv, NEW f \in Followers, FollowerCall(f)
    PROVE  /\ fapplier[f].pc = "call" /\ flastApplied[f] < fcommit[f]
           /\ flastApplied' \in [Followers -> Nat] /\ flastApplied'[f] = flastApplied[f] + 1
           /\ \A g \in Followers : g # f => flastApplied'[g] = flastApplied[g]
           /\ fapplier' \in [Followers -> Applier] /\ fapplier'[f].pc = "test"
           /\ \A g \in Followers : g # f => fapplier'[g] = fapplier[g]
           /\ store' \in [Nodes -> [Keys -> Nat]]
           /\ \A x \in Nodes : x # f => store'[x] = store[x]
           /\ failures' \in Nat /\ failures' >= failures
           /\ tears' \in Nat /\ tears' >= tears
           /\ \E n \in DOMAIN flog[f] :
                  /\ flog[f][n].index = flastApplied[f] + 1
                  /\ \/ Written(f, flog[f][n])
                     \/ store' = store /\ failures' > failures
                     \/ tears' > tears
<1>1. /\ flog \in [Followers -> Seq(Entries)] /\ flog[f] \in Seq(Entries)
      /\ flastApplied \in [Followers -> Nat] /\ flastApplied[f] \in Nat
      /\ fapplier \in [Followers -> Applier] /\ fapplier[f] \in Applier
      /\ fapplier[f].stale \in BOOLEAN /\ f \in Nodes
  BY DEF TypeInv, Types, Nodes, Applier
<1>2. /\ fapplier[f].pc = "call" /\ flastApplied[f] < fcommit[f] /\ FollowerFind(f) # {}
  BY DEF FollowerCall, TypeInv, Bounded, FollowerBounds
<1> DEFINE S == FollowerFind(f)
           found == CHOOSE n \in S : \A m \in S : n <= m
<1>3. S \in SUBSET Nat /\ S \subseteq DOMAIN flog[f]
      /\ \A n \in S : flog[f][n].index = flastApplied[f] + 1
  BY <1>1 DEF FollowerFind, WithIndex
<1>4. ApplyLogEntry(f, fapplier[f].stale, flog[f][found])
  BY DEF FollowerCall
<1> HIDE DEF S
<1>5. found \in S
  BY <1>2, <1>3, LeastNatural DEF S
<1> HIDE DEF found
<1>6. flog[f][found] \in Entries /\ found \in DOMAIN flog[f]
  BY <1>1, <1>3, <1>5
<1>7. /\ store' \in [Nodes -> [Keys -> Nat]]
      /\ \A x \in Nodes : x # f => store'[x] = store[x]
      /\ failures' \in Nat /\ failures' >= failures
      /\ tears' \in Nat /\ tears' >= tears
      /\ \/ Written(f, flog[f][found])
         \/ store' = store /\ failures' > failures
         \/ tears' > tears
  BY <1>1, <1>4, <1>6, ApplyEffect DEF TypeInv
<1>8. \E n \in DOMAIN flog[f] :
          /\ flog[f][n].index = flastApplied[f] + 1
          /\ \/ Written(f, flog[f][n])
             \/ store' = store /\ failures' > failures
             \/ tears' > tears
  BY <1>3, <1>5, <1>6, <1>7
<1>9. /\ flastApplied' \in [Followers -> Nat] /\ flastApplied'[f] = flastApplied[f] + 1
       /\ \A g \in Followers : g # f => flastApplied'[g] = flastApplied[g]
  BY <1>1 DEF FollowerCall
<1>10. /\ fapplier' \in [Followers -> Applier] /\ fapplier'[f].pc = "test"
       /\ \A g \in Followers : g # f => fapplier'[g] = fapplier[g]
  <2> DEFINE k == [pc |-> "test", stale |-> FALSE]
  <2>1. k \in Applier /\ k.pc = "test"
    BY Constructed
  <2>2. fapplier' = [fapplier EXCEPT ![f] = k]
    BY DEF FollowerCall
  <2> HIDE DEF k
  <2> QED BY <1>1, <2>1, <2>2
<1> QED BY <1>2, <1>7, <1>8, <1>9, <1>10

\* What a follower does keeps the types and the bounds.
LEMMA FollowerTypes ==
    ASSUME TypeInv, NEW f \in Followers,
           HandleReplication(f) \/ AcceptNext(f) \/ FollowerTest(f) \/ FollowerCall(f)
    PROVE  TypeInv'
<1> USE DEF TypeInv
<1>1. CASE HandleReplication(f)
  <2>1. conns' \in [Followers -> Seq(Conn)]
    BY <1>1, HandleEffect DEF HandleReplication, OnlyConn
  <2>2. /\ conns[f][1].msgs[1].entry \in Entries /\ conns[f][1].msgs[1].commit \in Nat
        /\ flog' \in [Followers -> Seq(Entries)] /\ fcommit' \in [Followers -> Nat]
        /\ fapplier' \in [Followers -> Applier]
        /\ received' = received \cup {conns[f][1].msgs[1].entry}
    BY <1>1, HandleFollower
  <2>3. Types'
    BY <1>1, <2>1, <2>2 DEF Types, HandleReplication, leaderVars, callVars, faultVars
  <2>4. FollowerBounds'
    <3> SUFFICES ASSUME NEW g \in Followers
                 PROVE  /\ flastApplied'[g] <= fcommit'[g]
                        /\ fapplier'[g].pc = "call" =>
                              flastApplied'[g] < fcommit'[g] /\ FollowerFind(g)' # {}
      BY DEF FollowerBounds
    <3>1. flastApplied' = flastApplied
      BY <1>1 DEF HandleReplication
    <3>2. CASE g # f
      <4>1. flog'[g] = flog[g] /\ fcommit'[g] = fcommit[g] /\ fapplier'[g] = fapplier[g]
        BY <1>1, <3>2, HandleFollower
      <4>2. FollowerFind(g)' = FollowerFind(g)
        BY <3>1, <4>1 DEF FollowerFind, WithIndex
      <4> QED BY <3>1, <4>1, <4>2 DEF Bounded, FollowerBounds
    <3>3. CASE g = f
      <4>1. /\ fcommit'[f] \in Nat /\ fcommit[f] \in Nat /\ flastApplied[f] \in Nat
            /\ fcommit'[f] >= fcommit[f]
        <5> DEFINE m == conns[f][1].msgs[1].commit
        <5>1. m \in Nat /\ fcommit'[f] = (IF m > fcommit[f] THEN m ELSE fcommit[f])
          BY <1>1, HandleFollower
        <5>2. fcommit[f] \in Nat /\ flastApplied[f] \in Nat
          BY DEF Types
        <5> HIDE DEF m
        <5> QED BY <5>1, <5>2
      <4>2. FollowerFind(f) # {} => FollowerFind(f)' # {}
        BY <1>1, <3>1, HandleFollower DEF FollowerFind, WithIndex
      <4>3. fapplier'[f].pc = "call" => fapplier[f].pc = "call"
        BY <1>1, HandleFollower
      <4> QED BY <3>1, <3>3, <4>1, <4>2, <4>3 DEF Bounded, FollowerBounds
    <3> QED BY <3>2, <3>3
  <2>5. LeaderBounds'
    BY <1>1, LeaderSame DEF Bounded, HandleReplication
  <2>6. ClientBounds'
    BY <1>1 DEF ClientBounds, Bounded, HandleReplication, leaderVars
  <2> QED BY <2>3, <2>4, <2>5, <2>6 DEF Bounded
<1>2. CASE AcceptNext(f)
  <2>1. Tail(conns[f]) \in Seq(Conn) /\ conns \in [Followers -> Seq(Conn)]
    BY <1>2, ConnsReplaced DEF Types, AcceptNext
  <2>2. conns' \in [Followers -> Seq(Conn)]
    BY <1>2, <2>1 DEF AcceptNext
  <2>3. Types'
    BY <1>2, <2>2
       DEF Types, AcceptNext, leaderVars, followVars, ghostVars, callVars, faultVars
  <2>4. FollowerBounds' /\ LeaderBounds'
    BY <1>2, FollowersSame, LeaderSame DEF Bounded, AcceptNext
  <2>5. ClientBounds'
    BY <1>2 DEF ClientBounds, Bounded, AcceptNext, leaderVars
  <2> QED BY <2>3, <2>4, <2>5 DEF Bounded
<1>3. CASE FollowerTest(f)
  <2>1. /\ fapplier' \in [Followers -> Applier]
        /\ \A g \in Followers : g # f => fapplier'[g] = fapplier[g]
        /\ fapplier'[f].pc = "call" => fcommit[f] > flastApplied[f] /\ FollowerFind(f) # {}
    <3>1. PICK k \in Applier :
             /\ fapplier' = [fapplier EXCEPT ![f] = k]
             /\ k.pc = "call" => fcommit[f] > flastApplied[f] /\ FollowerFind(f) # {}
      BY <1>3, Constructed DEF FollowerTest, Asleep
    <3> QED BY <3>1 DEF Types
  <2>2. Types'
    BY <1>3, <2>1 DEF Types, FollowerTest, leaderVars, ghostVars, callVars, faultVars
  <2>3. FollowerBounds'
    <3>1. /\ flastApplied' = flastApplied /\ fcommit' = fcommit /\ flog' = flog
          /\ flastApplied \in [Followers -> Nat] /\ fcommit \in [Followers -> Nat]
      BY <1>3 DEF FollowerTest, Types
    <3> QED BY <2>1, <3>1 DEF Bounded, FollowerBounds, FollowerFind, WithIndex
  <2>4. LeaderBounds'
    BY <1>3, LeaderSame DEF Bounded, FollowerTest
  <2>5. ClientBounds'
    BY <1>3 DEF ClientBounds, Bounded, FollowerTest, leaderVars
  <2> QED BY <2>2, <2>3, <2>4, <2>5 DEF Bounded
<1>4. CASE FollowerCall(f)
  <2>1. Types'
    BY <1>4, CallFollower DEF Types, FollowerCall, leaderVars, ghostVars, callVars
  <2>2. FollowerBounds'
    <3> SUFFICES ASSUME NEW g \in Followers
                 PROVE  /\ flastApplied'[g] <= fcommit'[g]
                        /\ fapplier'[g].pc = "call" =>
                              flastApplied'[g] < fcommit'[g] /\ FollowerFind(g)' # {}
      BY DEF FollowerBounds
    <3>1. fcommit' = fcommit /\ flog' = flog
      BY <1>4 DEF FollowerCall
    <3>2. CASE g # f
      BY <1>4, <3>1, <3>2, CallFollower DEF Bounded, FollowerBounds, FollowerFind, WithIndex
    <3>3. CASE g = f
      <4>1. /\ fapplier[f].pc = "call" /\ flastApplied[f] < fcommit[f]
            /\ flastApplied'[f] = flastApplied[f] + 1 /\ fapplier'[f].pc = "test"
        BY <1>4, CallFollower
      <4>2. flastApplied[f] \in Nat /\ fcommit[f] \in Nat
        BY DEF Types
      <4> QED BY <3>1, <3>3, <4>1, <4>2
    <3> QED BY <3>2, <3>3
  <2>3. LeaderBounds'
    BY <1>4, LeaderSame DEF Bounded, FollowerCall
  <2>4. ClientBounds'
    BY <1>4 DEF ClientBounds, Bounded, FollowerCall, leaderVars
  <2> QED BY <2>1, <2>2, <2>3, <2>4 DEF Bounded
<1> QED BY <1>1, <1>2, <1>3, <1>4

\* Broken connections and restarts keep the types and the bounds.
LEMMA FaultTypes ==
    ASSUME TypeInv, LeaderRestart \/ \E f \in Followers : Reset(f) \/ FollowerRestart(f)
    PROVE  TypeInv'
<1> USE DEF TypeInv
<1>1. ASSUME NEW f \in Followers, Reset(f)
      PROVE  TypeInv'
  <2> DEFINE s == [conns[f] EXCEPT ![Len(conns[f])] =
                      [msgs |-> <<>>, open |-> FALSE, acks |-> 0]]
  <2>1. s \in Seq(Conn) /\ conns \in [Followers -> Seq(Conn)]
    BY <1>1, ConnsReplaced DEF Types, Reset, Alive
  <2>2. conns' = [conns EXCEPT ![f] = s]
    BY <1>1 DEF Reset
  <2> HIDE DEF s
  <2>3. conns' \in [Followers -> Seq(Conn)]
    BY <2>1, <2>2
  <2>4. Types'
    BY <1>1, <2>3
       DEF Types, Reset, leaderVars, followVars, ghostVars, callVars
  <2>5. FollowerBounds' /\ LeaderBounds'
    BY <1>1, FollowersSame, LeaderSame DEF Bounded, Reset
  <2>6. ClientBounds'
    BY <1>1 DEF ClientBounds, Bounded, Reset, leaderVars
  <2> QED BY <2>4, <2>5, <2>6 DEF Bounded
<1>2. ASSUME NEW f \in Followers, FollowerRestart(f)
      PROVE  TypeInv'
  <2>1. conns' \in [Followers -> Seq(Conn)] /\ flog' \in [Followers -> Seq(Entries)]
    BY <1>2 DEF FollowerRestart, Types
  <2>2. /\ fcommit' \in [Followers -> Nat] /\ flastApplied' \in [Followers -> Nat]
        /\ fcommit'[f] = 0 /\ flastApplied'[f] = 0
    BY <1>2 DEF FollowerRestart, Types
  <2>3. fapplier' \in [Followers -> Applier] /\ fapplier'[f].pc = "asleep"
    <3>1. Asleep \in Applier /\ Asleep.pc = "asleep"
      BY Constructed DEF Asleep
    <3> QED BY <1>2, <3>1 DEF FollowerRestart, Types
  <2>4. Types'
    BY <1>2, <2>1, <2>2, <2>3 DEF Types, FollowerRestart, leaderVars, ghostVars, callVars
  <2>5. FollowerBounds'
    <3> SUFFICES ASSUME NEW g \in Followers
                 PROVE  /\ flastApplied'[g] <= fcommit'[g]
                        /\ fapplier'[g].pc = "call" =>
                              flastApplied'[g] < fcommit'[g] /\ FollowerFind(g)' # {}
      BY DEF FollowerBounds
    <3>1. CASE g # f
      <4>1. /\ flog'[g] = flog[g] /\ fcommit'[g] = fcommit[g] /\ fapplier'[g] = fapplier[g]
            /\ flastApplied'[g] = flastApplied[g]
        BY <1>2, <3>1 DEF FollowerRestart, Types
      <4>2. FollowerFind(g)' = FollowerFind(g)
        BY <4>1 DEF FollowerFind, WithIndex
      <4> QED BY <4>1, <4>2 DEF Bounded, FollowerBounds
    <3>2. CASE g = f
      BY <2>2, <2>3, <3>2
    <3> QED BY <3>1, <3>2
  <2>6. LeaderBounds'
    BY <1>2, LeaderSame DEF Bounded, FollowerRestart
  <2>7. ClientBounds'
    BY <1>2 DEF ClientBounds, Bounded, FollowerRestart, leaderVars
  <2> QED BY <2>4, <2>5, <2>6, <2>7 DEF Bounded
<1>3. CASE LeaderRestart
  <2>1. conns' \in [Followers -> Seq(Conn)]
    <3> SUFFICES ASSUME NEW g \in Followers PROVE conns'[g] \in Seq(Conn)
      BY <1>3 DEF LeaderRestart
    <3>1. conns'[g] = [i \in DOMAIN conns[g] |-> [conns[g][i] EXCEPT !.open = FALSE]]
      BY <1>3 DEF LeaderRestart
    <3>2. /\ DOMAIN conns[g] = 1..Len(conns[g]) /\ Len(conns[g]) \in Nat
          /\ \A i \in DOMAIN conns[g] : conns[g][i] \in Conn
      BY AliveConn
    <3>3. \A k \in Conn : [k EXCEPT !.open = FALSE] \in Conn
      BY DEF Conn
    <3> QED BY <3>1, <3>2, <3>3
  <2>2. client' \in [Clients -> ClientRec] /\ peer' \in [Followers -> BOOLEAN]
        /\ applier' \in Applier /\ applier'.pc = "asleep"
    BY <1>3, Constructed DEF LeaderRestart, Asleep
  <2>3. Types'
    BY <1>3, <2>1, <2>2 DEF Types, LeaderRestart, followVars, ghostVars, callVars
  <2>4. FollowerBounds'
    BY <1>3, FollowersSame DEF Bounded, LeaderRestart
  <2>5. LeaderBounds'
    BY <1>3, <2>2 DEF LeaderBounds, LeaderRestart
  <2>6. ClientBounds'
    BY <1>3 DEF ClientBounds, LeaderRestart, Idle
  <2> QED BY <2>3, <2>4, <2>5, <2>6 DEF Bounded
<1> QED BY <1>1, <1>2, <1>3

\* Every step keeps the types and the bounds.
LEMMA TypeStep ==
    ASSUME TypeInv, [Next]_vars
    PROVE  TypeInv'
<1>1. CASE UNCHANGED vars
  BY <1>1 DEF vars, leaderVars, followVars, ghostVars, callVars, faultVars, TypeInv, Types,
     Bounded, LeaderBounds, FollowerBounds, ClientBounds, FollowerFind, WithIndex
<1>2. CASE Next
  BY <1>2, AppendLogTypes, CallTypes, ShipTypes, LeaderTypes, FollowerTypes, FaultTypes
     DEF Next, Replicate, Apply, Listener, FollowerApply
<1> QED BY <1>1, <1>2

\* Nothing has happened yet.
LEMMA TypeInit ==
    ASSUME Init
    PROVE  TypeInv
<1>1. Types
  <2>1. /\ commit \in Nat /\ lastApplied \in Nat /\ writes \in Nat /\ timeouts \in Nat /\ resets \in Nat
        /\ crashes \in Nat /\ restarts \in Nat /\ failures \in Nat /\ tears \in Nat
    BY DEF Init
  <2>2. log \in Seq(Entries) /\ received \subseteq Entries /\ confirmed \subseteq Entries
    BY DEF Init
  <2>3. overlapped \in BOOLEAN
    BY DEF Init
  <2>4. /\ applier \in Applier /\ client \in [Clients -> ClientRec]
        /\ peer \in [Followers -> BOOLEAN] /\ fapplier \in [Followers -> Applier]
    BY Constructed DEF Init
  <2>5. /\ flog \in [Followers -> Seq(Entries)] /\ conns \in [Followers -> Seq(Conn)]
    BY DEF Init
  <2>6. /\ fcommit \in [Followers -> Nat] /\ flastApplied \in [Followers -> Nat]
        /\ store \in [Nodes -> [Keys -> Nat]]
    BY DEF Init, Nodes
  <2> QED BY <2>1, <2>2, <2>3, <2>4, <2>5, <2>6 DEF Types
<1>2. Bounded
  BY DEF Init, Bounded, LeaderBounds, FollowerBounds, ClientBounds, Asleep, Idle
<1> QED BY <1>1, <1>2 DEF TypeInv

\* Every variable keeps its type, no apply thread is ahead of its commit index,
\* and the leader's commit index is within its log, in replicate(), applyLoop()
\* and handleReplication() however their threads interleave.
THEOREM TypeCorrect == Spec => []TypeInv
<1>1. Init => TypeInv
  BY TypeInit
<1>2. TypeInv /\ [Next]_vars => TypeInv'
  BY TypeStep
<1> QED BY <1>1, <1>2, PTL DEF Spec

-----------------------------------------------------------------------------
(* Acknowledgements: what replicate() returns TRUE for has been received.   *)

\* Until two clients write at the same time, one thread at most is in replicate().
OneClient ==
    ~overlapped =>
        \A c, d \in Clients :
            client[c].pc # "idle" /\ client[d].pc # "idle" => c = d

\* A call counts acknowledgements only once its message is built.
Fresh ==
    \A c \in Clients :
        client[c].pc \in {"idle", "commit", "read", "build", "lock"} => client[c].acks = 0

\* Client c is in recv() for follower f, and the connection k holds its message
\* or the acknowledgement of it, and nothing else.
Waits(c, f) == client[c].pc = "recv" /\ Head(client[c].todo) = f
Carries(c, k) ==
    \/ k.acks = 0 /\ Len(k.msgs) = 1 /\ k.msgs[1].entry = client[c].entry
    \/ k.acks = 1 /\ k.msgs = <<>> /\ client[c].entry \in received

\* The live connection to f is empty unless a client waits for f.
Matches(f) ==
    Alive(f) =>
        /\ \A c \in Clients : Waits(c, f) => Carries(c, Last(conns[f]))
        /\ (\A c \in Clients : ~Waits(c, f)) =>
               Last(conns[f]).acks = 0 /\ Last(conns[f]).msgs = <<>>

\* What is counted or confirmed was received.
Counted ==
    /\ \A c \in Clients : client[c].acks > 0 => client[c].entry \in received
    /\ confirmed \subseteq received

AcksMatch ==
    ~overlapped /\ timeouts = 0 => (\A f \in Followers : Matches(f)) /\ Counted

AckInv == OneClient /\ Fresh /\ AcksMatch

\* A step that leaves the live connection to f and the clients that wait for f
\* as they are.
LEMMA MatchesSame ==
    ASSUME NEW f \in Followers, Matches(f),
           Alive(f)' => Alive(f) /\ Last(conns'[f]) = Last(conns[f]),
           \A c \in Clients : Waits(c, f)' <=> Waits(c, f),
           \A c \in Clients : Waits(c, f) => client'[c].entry = client[c].entry,
           received \subseteq received'
    PROVE  Matches(f)'
BY DEF Matches, Carries

\* A step of one client that leaves the connections alone and neither begins
\* nor ends a recv().
LEMMA MatchesMoved ==
    ASSUME NEW c \in Clients, \A f \in Followers : Matches(f),
           \A d \in Clients : d # c => client'[d] = client[d],
           client[c].pc # "recv", client'[c].pc # "recv",
           UNCHANGED <<conns, received>>
    PROVE  \A f \in Followers : Matches(f)'
<1> SUFFICES ASSUME NEW f \in Followers PROVE Matches(f)'
  OBVIOUS
<1>1. Alive(f)' => Alive(f) /\ Last(conns'[f]) = Last(conns[f])
  BY DEF Alive
<1>2. \A d \in Clients : /\ Waits(d, f)' <=> Waits(d, f)
                         /\ Waits(d, f) => client'[d].entry = client[d].entry
  BY DEF Waits
<1> QED BY <1>1, <1>2, MatchesSame

\* A step that touches neither clients nor the connections.
LEMMA AcksSame ==
    ASSUME AckInv, UNCHANGED <<client, conns, received, confirmed, overlapped, timeouts>>
    PROVE  AckInv'
<1>1. OneClient' /\ Fresh'
  BY DEF AckInv, OneClient, Fresh
<1>2. (\A f \in Followers : Matches(f)) => \A f \in Followers : Matches(f)'
  BY DEF Matches, Alive, Waits, Carries
<1>3. Counted => Counted'
  BY DEF Counted
<1> QED BY <1>1, <1>2, <1>3 DEF AckInv, AcksMatch

\* A step of one client, other than the first of a call, keeps clients apart.
LEMMA OneClientMoved ==
    ASSUME OneClient, NEW c \in Clients, overlapped' = overlapped,
           \A d \in Clients : d # c => client'[d] = client[d],
           client[c].pc # "idle"
    PROVE  OneClient'
BY DEF OneClient

\* appendLog.
LEMMA AppendLogAcks ==
    ASSUME TypeInv, AckInv, NEW c \in Clients, AppendLog(c)
    PROVE  AckInv'
<1>1. Now(c, "commit", log'[Len(log) + 1], 0, NoEntry, <<>>, 0)
  BY CallEffects DEF TypeInv, Appended
<1>2. client[c].pc = "idle" /\ conns' = conns /\ received' = received /\ confirmed' = confirmed
      /\ timeouts' = timeouts
  BY DEF AppendLog, ghostVars, faultVars
<1>3. OneClient'
  <2>1. overlapped' = (overlapped \/ \E d \in Clients : client[d].pc # "idle")
    BY DEF AppendLog
  <2>2. ~overlapped' => \A d \in Clients : client[d].pc = "idle"
    BY <2>1
  <2> QED BY <1>1, <2>2 DEF OneClient, Now
<1>4. Fresh'
  BY <1>1 DEF Fresh, AckInv, Now
<1>5. AcksMatch'
  <2> SUFFICES ASSUME ~overlapped', timeouts' = 0
               PROVE  (\A f \in Followers : Matches(f)') /\ Counted'
    BY DEF AcksMatch
  <2>1. ~overlapped
    BY DEF AppendLog
  <2>2. (\A f \in Followers : Matches(f)) /\ Counted
    BY <1>2, <2>1 DEF AckInv, AcksMatch
  <2>3. \A f \in Followers : Matches(f)'
    BY <1>1, <1>2, <2>2, MatchesMoved DEF Now
  <2>4. Counted'
    BY <1>1, <1>2, <2>2 DEF Counted, Now
  <2> QED BY <2>3, <2>4
<1> QED BY <1>3, <1>4, <1>5 DEF AckInv

\* A client step that is neither the first nor the last of a recv().
LEMMA QuietStep ==
    ASSUME AckInv, NEW c \in Clients,
           \A d \in Clients : d # c => client'[d] = client[d],
           client[c].pc \notin {"idle", "recv"}, client'[c].pc # "recv",
           client'[c].pc \in {"idle", "commit", "read", "build", "lock"} =>
               client'[c].acks = 0,
           client'[c].acks > 0 => client'[c].acks = client[c].acks
                                  /\ client'[c].entry = client[c].entry,
           confirmed' = confirmed \/
               (client[c].acks > 0 /\ confirmed' = confirmed \cup {client[c].entry}),
           UNCHANGED <<conns, received, overlapped, timeouts>>
    PROVE  AckInv'
<1>1. OneClient'
  BY OneClientMoved DEF AckInv
<1>2. Fresh'
  BY DEF Fresh, AckInv
<1>3. AcksMatch'
  <2> SUFFICES ASSUME ~overlapped', timeouts' = 0
               PROVE  (\A f \in Followers : Matches(f)') /\ Counted'
    BY DEF AcksMatch
  <2>1. (\A f \in Followers : Matches(f)) /\ Counted
    BY DEF AckInv, AcksMatch
  <2>2. \A f \in Followers : Matches(f)'
    BY <2>1, MatchesMoved
  <2>3. Counted'
    BY <2>1 DEF Counted
  <2> QED BY <2>2, <2>3
<1> QED BY <1>1, <1>2, <1>3 DEF AckInv

\* The steps of a call outside recv().
LEMMA CallAcks ==
    ASSUME TypeInv, AckInv, NEW c \in Clients,
           \/ Commit(c) \/ ReadCommit(c) \/ ReadBack(c) \/ ShipLock(c) \/ Execute(c)
           \/ ShipSkip(c) \/ ShipFail(c) \/ ShipDone(c)
    PROVE  AckInv'
<1>0. Types /\ (client[c].pc # "idle" => log # <<>>)
  BY DEF TypeInv, Bounded, ClientBounds
<1>1. CASE Commit(c)
  <2>1. Now(c, "read", client[c].own, client[c].commit,
            client[c].entry, client[c].todo, client[c].acks)
    BY <1>0, <1>1, CallEffects
  <2>2. /\ client[c].pc = "commit" /\ client[c].acks = 0
        /\ UNCHANGED <<conns, received, confirmed, overlapped, timeouts>>
    BY <1>1 DEF Commit, ghostVars, callVars, faultVars, AckInv, Fresh
  <2> QED BY <2>1, <2>2, QuietStep DEF Now
<1>2. CASE ReadCommit(c)
  <2>1. Now(c, "build", client[c].own, commit,
            client[c].entry, client[c].todo, client[c].acks)
    BY <1>0, <1>2, CallEffects
  <2>2. /\ client[c].pc = "read" /\ client[c].acks = 0
        /\ UNCHANGED <<conns, received, confirmed, overlapped, timeouts>>
    BY <1>2 DEF ReadCommit, ghostVars, callVars, faultVars, AckInv, Fresh
  <2> QED BY <2>1, <2>2, QuietStep DEF Now
<1>3. CASE ReadBack(c)
  <2>1. /\ client[c].pc = "build" /\ client[c].acks = 0
        /\ UNCHANGED <<conns, received, confirmed, overlapped, timeouts>>
    BY <1>3 DEF ReadBack, ghostVars, callVars, faultVars, AckInv, Fresh
  <2>2. PICK e \in Entries : HasRead(c, e)
    BY <1>0, <1>3, <2>1, CallEffects
  <2> QED BY <2>1, <2>2, QuietStep DEF HasRead, Now
<1>4. CASE ShipLock(c)
  <2>1. Now(c, "ship", client[c].own, client[c].commit,
            client[c].entry, Peers, client[c].acks)
    BY <1>0, <1>4, CallEffects
  <2>2. /\ client[c].pc = "lock"
        /\ UNCHANGED <<conns, received, confirmed, overlapped, timeouts>>
    BY <1>4 DEF ShipLock, ghostVars, callVars, faultVars
  <2> QED BY <2>1, <2>2, QuietStep DEF Now
<1>5. CASE Execute(c)
  <2>1. Now(c, "idle", NoEntry, 0, NoEntry, <<>>, 0)
    BY <1>0, <1>5, CallEffects
  <2>2. /\ client[c].pc = "execute"
        /\ UNCHANGED <<conns, received, confirmed, overlapped, timeouts>>
    BY <1>5 DEF Execute, ghostVars, callVars, faultVars
  <2> QED BY <2>1, <2>2, QuietStep DEF Now
<1>6. CASE ShipSkip(c) \/ ShipFail(c)
  <2>1. Now(c, "ship", client[c].own, client[c].commit, client[c].entry,
            Tail(client[c].todo), client[c].acks)
    BY <1>6, ShipEffects
  <2>2. /\ client[c].pc = "ship"
        /\ UNCHANGED <<conns, received, confirmed, overlapped, timeouts>>
    BY <1>6 DEF ShipSkip, ShipFail, ghostVars, callVars, faultVars
  <2> QED BY <2>1, <2>2, QuietStep DEF Now
<1>7. CASE ShipDone(c)
  <2>1. Now(c, "execute", client[c].own, client[c].commit, client[c].entry,
            client[c].todo, client[c].acks)
    BY <1>7, ShipEffects
  <2>2. /\ client[c].pc = "ship"
        /\ UNCHANGED <<conns, received, overlapped, timeouts>>
        /\ \/ confirmed' = confirmed
           \/ client[c].acks > 0 /\ confirmed' = confirmed \cup {client[c].entry}
    BY <1>7 DEF ShipDone, callVars, faultVars
  <2> QED BY <2>1, <2>2, QuietStep DEF Now
<1> QED BY <1>1, <1>2, <1>3, <1>4, <1>5, <1>6, <1>7

\* A client's message is put on the live connection, which was empty.
LEMMA SendAcks ==
    ASSUME TypeInv, AckInv, NEW c \in Clients, ShipSend(c)
    PROVE  AckInv'
<1>0. PICK f \in Followers : f = Head(client[c].todo)
  BY ShipEffects
<1>1. Now(c, "recv", client[c].own, client[c].commit, client[c].entry,
          client[c].todo, client[c].acks)
  BY ShipEffects
<1>2. /\ client[c].pc = "ship" /\ Head(client[c].todo) = f
      /\ UNCHANGED <<received, confirmed, overlapped, timeouts>>
  BY <1>0 DEF ShipSend, ghostVars, callVars, faultVars
<1>3. OneClient'
  BY <1>1, <1>2, OneClientMoved DEF AckInv, Now
<1>4. Fresh'
  BY <1>1 DEF Fresh, AckInv, Now
<1>5. AcksMatch'
  <2> SUFFICES ASSUME ~overlapped', timeouts' = 0
               PROVE  (\A g \in Followers : Matches(g)') /\ Counted'
    BY DEF AcksMatch
  <2>1. (\A g \in Followers : Matches(g)) /\ Counted
    BY <1>2 DEF AckInv, AcksMatch
  <2>2. Counted'
    BY <1>1, <1>2, <2>1 DEF Counted, Now
  <2>3. \A d \in Clients : ~Waits(d, f) /\ (Waits(d, f)' => d = c)
    BY <1>1, <1>2 DEF AckInv, OneClient, Waits, Now
  <2>4. \A g \in Followers : g # f => Matches(g)'
    <3> SUFFICES ASSUME NEW g \in Followers, g # f PROVE Matches(g)'
      OBVIOUS
    <3>1. conns'[g] = conns[g]
      BY <1>2 DEF ShipSend, TypeInv, Types
    <3>2. Alive(g)' => Alive(g) /\ Last(conns'[g]) = Last(conns[g])
      BY <3>1 DEF Alive
    <3>3. \A d \in Clients : /\ Waits(d, g)' <=> Waits(d, g)
                             /\ Waits(d, g) => client'[d].entry = client[d].entry
      BY <1>1, <1>2 DEF Waits, Now
    <3> QED BY <1>2, <2>1, <3>2, <3>3, MatchesSame
  <2>5. Matches(f)'
    <3>1. CASE ~Alive(f)
      <4>1. conns' = conns
        BY <1>0, <3>1 DEF ShipSend
      <4> QED BY <3>1, <4>1 DEF Matches, Alive
    <3>2. CASE Alive(f)
      <4> DEFINE n == Len(conns[f])
      <4>1. conns' = [conns EXCEPT ![f][Len(conns[f])].msgs = Append(@, Message(c))]
        BY <1>0, <3>2 DEF ShipSend
      <4>2. Message(c) \in Msg /\ Message(c).entry = client[c].entry
        BY ClientFields DEF Message, Msg, TypeInv
      <4>3. /\ OnlyConn(f, n)
            /\ conns'[f][n].msgs = Append(conns[f][n].msgs, Message(c))
            /\ conns'[f][n].acks = conns[f][n].acks
        BY <1>2, <3>2, <4>1, <4>2, SendEffect DEF TypeInv
      <4>4. Last(conns[f]) = conns[f][n]
        BY <1>2, <3>2, AliveConn DEF TypeInv
      <4>5. Last(conns'[f]) = conns'[f][n]
        BY <4>3 DEF OnlyConn, Last
      <4>6. conns[f][n].acks = 0 /\ conns[f][n].msgs = <<>>
        BY <1>2, <2>1, <2>3, <3>2, <4>4 DEF Matches
      <4> DEFINE k == conns'[f][n]
      <4>7. k.acks = 0 /\ Len(k.msgs) = 1 /\ k.msgs[1].entry = client'[c].entry
        BY <1>1, <4>2, <4>3, <4>6 DEF Now
      <4>8. Last(conns[f])' = k
        BY <4>5
      <4> HIDE DEF k, n
      <4>9. \A d \in Clients : Waits(d, f)' => Carries(d, Last(conns[f]))'
        BY <2>3, <4>7, <4>8 DEF Carries
      <4>10. Waits(c, f)'
        BY <1>1, <1>2 DEF Waits, Now
      <4> QED BY <4>9, <4>10 DEF Matches
    <3> QED BY <3>1, <3>2
  <2> QED BY <2>2, <2>4, <2>5
<1> QED BY <1>3, <1>4, <1>5 DEF AckInv

\* The acknowledgement that recv() finds is that of the client's own entry.
LEMMA RecvAcks ==
    ASSUME TypeInv, AckInv, NEW c \in Clients, ShipAck(c)
    PROVE  AckInv'
<1>0. PICK f \in Followers : f = Head(client[c].todo)
  BY ShipEffects
<1> DEFINE n == Len(conns[f])
<1>1. Now(c, "ship", client[c].own, client[c].commit, client[c].entry,
          Tail(client[c].todo), client[c].acks + 1)
  BY ShipEffects
<1>2. /\ client[c].pc = "recv" /\ Head(client[c].todo) = f /\ Alive(f)
      /\ Last(conns[f]).acks > 0
      /\ UNCHANGED <<received, confirmed, overlapped, timeouts>>
      /\ conns' = [conns EXCEPT ![f][Len(conns[f])].acks =
                            IF @ > AckBuf THEN @ - AckBuf ELSE 0]
  BY <1>0 DEF ShipAck, ghostVars, callVars, faultVars
<1>3. OneClient'
  BY <1>1, <1>2, OneClientMoved DEF AckInv, Now
<1>4. Fresh'
  BY <1>1 DEF Fresh, AckInv, Now
<1>5. AcksMatch'
  <2> SUFFICES ASSUME ~overlapped', timeouts' = 0
               PROVE  (\A g \in Followers : Matches(g)') /\ Counted'
    BY DEF AcksMatch
  <2>1. (\A g \in Followers : Matches(g)) /\ Counted
    BY <1>2 DEF AckInv, AcksMatch
  <2>2. /\ Last(conns[f]).acks = 1 /\ Last(conns[f]).msgs = <<>>
        /\ client[c].entry \in received
    <3>1. Waits(c, f)
      BY <1>2 DEF Waits
    <3>2. Carries(c, Last(conns[f]))
      BY <1>2, <2>1, <3>1 DEF Matches
    <3> QED BY <1>2, <3>2 DEF Carries
  <2>3. Counted'
    BY <1>1, <1>2, <2>1, <2>2 DEF Counted, Now
  <2>4. /\ OnlyConn(f, n) /\ conns'[f][n].msgs = conns[f][n].msgs
        /\ conns[f][n].acks <= AckBuf => conns'[f][n].acks = 0
    BY <1>2, AckEffect DEF TypeInv
  <2>5. \A g \in Followers : g # f => Matches(g)'
    <3> SUFFICES ASSUME NEW g \in Followers, g # f PROVE Matches(g)'
      OBVIOUS
    <3>1. conns'[g] = conns[g]
      BY <2>4 DEF OnlyConn
    <3>2. Alive(g)' => Alive(g) /\ Last(conns'[g]) = Last(conns[g])
      BY <3>1 DEF Alive
    <3>3. \A d \in Clients : /\ Waits(d, g)' <=> Waits(d, g)
                             /\ Waits(d, g) => client'[d].entry = client[d].entry
      BY <1>1, <1>2 DEF Waits, Now
    <3> QED BY <1>2, <2>1, <3>2, <3>3, MatchesSame
  <2>6. Matches(f)'
    <3>1. Last(conns[f]) = conns[f][n]
      BY <1>2, AliveConn DEF TypeInv
    <3>2. Last(conns[f])' = conns'[f][n]
      BY <2>4 DEF OnlyConn, Last
    <3>3. conns'[f][n].acks = 0 /\ conns'[f][n].msgs = <<>>
      BY <2>2, <2>4, <3>1 DEF AckBuf
    <3>4. \A d \in Clients : ~Waits(d, f)'
      BY <1>1, <1>2 DEF AckInv, OneClient, Waits, Now
    <3> QED BY <3>2, <3>3, <3>4 DEF Matches
  <2> QED BY <2>3, <2>5, <2>6
<1> QED BY <1>3, <1>4, <1>5 DEF AckInv

\* recv() gives up: the connection is broken, or the acknowledgement is late.
LEMMA NoAckAcks ==
    ASSUME TypeInv, AckInv, NEW c \in Clients, ShipNoAck(c)
    PROVE  AckInv'
<1>0. PICK f \in Followers : f = Head(client[c].todo)
  BY ShipEffects
<1>1. Now(c, "ship", client[c].own, client[c].commit, client[c].entry,
          Tail(client[c].todo), client[c].acks)
  BY ShipEffects
<1>2. /\ client[c].pc = "recv" /\ Head(client[c].todo) = f
      /\ UNCHANGED <<conns, received, confirmed, overlapped>>
  BY <1>0 DEF ShipNoAck, ghostVars, callVars
<1>3. timeouts \in Nat /\ ((~Alive(f) /\ timeouts' = timeouts) \/ timeouts' = timeouts + 1)
  BY <1>0 DEF ShipNoAck, TypeInv, Types
<1>4. OneClient'
  BY <1>1, <1>2, OneClientMoved DEF AckInv, Now
<1>5. Fresh'
  BY <1>1 DEF Fresh, AckInv, Now
<1>6. AcksMatch'
  <2> SUFFICES ASSUME ~overlapped', timeouts' = 0
               PROVE  (\A g \in Followers : Matches(g)') /\ Counted'
    BY DEF AcksMatch
  <2>1. ~Alive(f) /\ timeouts = 0
    BY <1>3
  <2>2. (\A g \in Followers : Matches(g)) /\ Counted
    BY <1>2, <2>1 DEF AckInv, AcksMatch
  <2>3. Counted'
    BY <1>1, <1>2, <2>2 DEF Counted, Now
  <2>4. ASSUME NEW g \in Followers, g # f
        PROVE  Matches(g)'
    <3>1. Alive(g)' => Alive(g) /\ Last(conns'[g]) = Last(conns[g])
      BY <1>2 DEF Alive
    <3>2. \A d \in Clients : /\ Waits(d, g)' <=> Waits(d, g)
                             /\ Waits(d, g) => client'[d].entry = client[d].entry
      BY <1>1, <1>2, <2>4 DEF Waits, Now
    <3> QED BY <1>2, <2>2, <3>1, <3>2, MatchesSame
  <2>5. Matches(f)'
    BY <1>2, <2>1 DEF Matches, Alive
  <2> QED BY <2>3, <2>4, <2>5
<1> QED BY <1>4, <1>5, <1>6 DEF AckInv

\* A step that changes the connections of one follower, and no client.
LEMMA OtherConn ==
    ASSUME AckInv, NEW f \in Followers,
           UNCHANGED <<client, confirmed, overlapped, timeouts>>,
           received \subseteq received',
           \A g \in Followers : g # f => conns'[g] = conns[g],
           ~overlapped /\ timeouts = 0 /\ Matches(f) => Matches(f)'
    PROVE  AckInv'
<1>1. OneClient' /\ Fresh'
  BY DEF AckInv, OneClient, Fresh
<1>2. AcksMatch'
  <2> SUFFICES ASSUME ~overlapped', timeouts' = 0
               PROVE  (\A g \in Followers : Matches(g)') /\ Counted'
    BY DEF AcksMatch
  <2>1. (\A g \in Followers : Matches(g)) /\ Counted
    BY DEF AckInv, AcksMatch
  <2>2. Counted'
    BY <2>1 DEF Counted
  <2>3. ASSUME NEW g \in Followers, g # f
        PROVE  Matches(g)'
    <3>1. Alive(g)' => Alive(g) /\ Last(conns'[g]) = Last(conns[g])
      BY <2>3 DEF Alive
    <3>2. \A d \in Clients : /\ Waits(d, g)' <=> Waits(d, g)
                             /\ Waits(d, g) => client'[d].entry = client[d].entry
      BY DEF Waits
    <3> QED BY <2>1, <3>1, <3>2, MatchesSame
  <2> QED BY <2>1, <2>2, <2>3
<1> QED BY <1>1, <1>2 DEF AckInv

\* The follower reads the message a client waits for, and answers it.
LEMMA HandleAcks ==
    ASSUME TypeInv, AckInv, NEW f \in Followers, HandleReplication(f)
    PROVE  AckInv'
<1>1. /\ OnlyConn(f, 1)
      /\ conns'[f][1].msgs = Tail(conns[f][1].msgs)
      /\ conns'[f][1].open = conns[f][1].open
      /\ conns'[f][1].acks = conns[f][1].acks + 1
      /\ conns[f][1].msgs \in Seq(Msg) /\ Len(conns[f][1].msgs) > 0
      /\ 1 \in 1..Len(conns[f])
  BY HandleEffect DEF HandleReplication, TypeInv
<1>2. received' = received \cup {conns[f][1].msgs[1].entry}
  BY HandleFollower
<1>3. UNCHANGED <<client, confirmed, overlapped, timeouts>>
  BY DEF HandleReplication, callVars, faultVars
<1>4. /\ Len(conns[f]) \in Nat /\ conns[f] # <<>> /\ Last(conns[f]) = conns[f][Len(conns[f])]
      /\ conns[f] \in Seq(Conn)
  BY AliveConn DEF HandleReplication, TypeInv
<1>5. Last(conns'[f]) = conns'[f][Len(conns[f])]
  BY <1>1 DEF OnlyConn, Last
<1>6. Alive(f)' => Alive(f)
  <2>1. conns'[f][Len(conns[f])].open = conns[f][Len(conns[f])].open
    BY <1>1, <1>4 DEF OnlyConn
  <2> QED BY <1>4, <1>5, <2>1 DEF Alive
<1>7. \A d \in Clients : Waits(d, f)' <=> Waits(d, f)
  BY <1>3 DEF Waits
<1>8. Matches(f) => Matches(f)'
  <2>1. CASE Len(conns[f]) = 1
    <3> SUFFICES ASSUME Matches(f), Alive(f)'
                 PROVE  /\ \A d \in Clients : Waits(d, f)' => Carries(d, Last(conns[f]))'
                        /\ (\A d \in Clients : ~Waits(d, f)') =>
                               Last(conns'[f]).acks = 0 /\ Last(conns'[f]).msgs = <<>>
      BY DEF Matches
    <3> DEFINE k == conns[f][1]
    <3>1. Alive(f) /\ Last(conns[f]) = k /\ k.msgs # <<>>
      BY <1>1, <1>4, <1>6, <2>1
    <3>2. PICK c \in Clients : Waits(c, f)
      BY <3>1 DEF Matches
    <3>3. \A d \in Clients : Waits(d, f) =>
              k.acks = 0 /\ Len(k.msgs) = 1 /\ k.msgs[1].entry = client[d].entry
      BY <3>1 DEF Matches, Carries
    <3>4. conns'[f][1].acks = 1 /\ conns'[f][1].msgs = <<>>
      <4>1. k.acks = 0 /\ Len(k.msgs) = 1 /\ k.msgs \in Seq(Msg)
        BY <1>1, <3>2, <3>3
      <4>2. Tail(k.msgs) = <<>>
        <5> DEFINE u == k.msgs
        <5> HIDE DEF u
        <5>1. Len(u) = 1 /\ u \in Seq(Msg)
          BY <4>1 DEF u
        <5>2. Tail(u) \in Seq(Msg) /\ Len(Tail(u)) = 0
          <6>1. u # <<>>
            BY <3>1 DEF u
          <6> QED BY <5>1, <6>1
        <5>3. \A w \in Seq(Msg) : Len(w) = 0 => w = <<>>
          OBVIOUS
        <5> QED BY <5>2, <5>3 DEF u
      <4> QED BY <1>1, <4>1, <4>2
    <3>5. Last(conns[f])' = conns'[f][1]
      BY <1>5, <2>1
    <3>6. \A d \in Clients : Waits(d, f) => client'[d].entry \in received'
      BY <1>2, <1>3, <3>3
    <3>7. \A d \in Clients : Waits(d, f)' => Carries(d, Last(conns[f]))'
      BY <1>7, <3>4, <3>5, <3>6 DEF Carries
    <3> QED BY <1>7, <3>2, <3>7
  <2>2. CASE Len(conns[f]) # 1
    <3>1. Last(conns'[f]) = Last(conns[f])
      <4>1. Len(conns[f]) \in 1..Len(conns[f])
        BY <1>4
      <4>2. conns'[f][Len(conns[f])] = conns[f][Len(conns[f])]
        BY <1>1, <2>2, <4>1 DEF OnlyConn
      <4> QED BY <1>4, <1>5, <4>2
    <3> QED BY <1>2, <1>3, <1>6, <1>7, <3>1, MatchesSame
  <2> QED BY <2>1, <2>2
<1> QED BY <1>1, <1>2, <1>3, <1>8, OtherConn DEF OnlyConn

\* A new, an accepted or a broken connection, and a restarted follower.
LEMMA ConnAcks ==
    ASSUME TypeInv, AckInv, NEW f \in Followers,
           ConnectToPeer(f) \/ AcceptNext(f) \/ Reset(f) \/ FollowerRestart(f)
    PROVE  AckInv'
<1>1. conns \in [Followers -> Seq(Conn)] /\ conns[f] \in Seq(Conn)
  BY DEF TypeInv, Types
<1>2. CASE ConnectToPeer(f)
  <2>1. /\ UNCHANGED <<client, confirmed, overlapped, timeouts, received>>
        /\ conns' = [conns EXCEPT ![f] = Append(conns[f], NewConn)]
        /\ \A c \in Clients : client[c].pc # "recv"
    BY <1>2 DEF ConnectToPeer, callVars, faultVars, ghostVars, PeersMutexFree
  <2>2. /\ conns'[f] = Append(conns[f], NewConn)
        /\ \A g \in Followers : g # f => conns'[g] = conns[g]
    BY <1>1, <2>1
  <2>3. Last(conns'[f]) = NewConn
    BY <1>1, <2>2 DEF Last
  <2>4. Matches(f)'
    <3>1. \A c \in Clients : ~Waits(c, f)'
      BY <2>1 DEF Waits
    <3>2. Last(conns'[f]).acks = 0 /\ Last(conns'[f]).msgs = <<>>
      BY <2>3 DEF NewConn
    <3> QED BY <3>1, <3>2 DEF Matches
  <2> QED BY <2>1, <2>2, <2>4, OtherConn
<1>3. CASE AcceptNext(f)
  <2>1. /\ UNCHANGED <<client, confirmed, overlapped, timeouts, received>>
        /\ conns' = [conns EXCEPT ![f] = Tail(conns[f])] /\ conns[f] # <<>>
        /\ ~Head(conns[f]).open
    BY <1>3 DEF AcceptNext, callVars, faultVars, ghostVars
  <2>2. /\ conns'[f] = Tail(conns[f])
        /\ \A g \in Followers : g # f => conns'[g] = conns[g]
    BY <1>1, <2>1
  <2>3. Alive(f)' => Alive(f) /\ Last(conns'[f]) = Last(conns[f])
    <3> SUFFICES ASSUME Tail(conns[f]) # <<>>
                 PROVE  Last(Tail(conns[f])) = Last(conns[f])
      BY <2>1, <2>2 DEF Alive
    <3> QED BY <1>1, <2>1 DEF Last
  <2>4. \A d \in Clients : /\ Waits(d, f)' <=> Waits(d, f)
                           /\ Waits(d, f) => client'[d].entry = client[d].entry
    BY <2>1 DEF Waits
  <2>5. Matches(f) => Matches(f)'
    BY <2>1, <2>3, <2>4, MatchesSame
  <2> QED BY <2>1, <2>2, <2>5, OtherConn
<1>4. CASE Reset(f)
  <2> DEFINE k == [msgs |-> <<>>, open |-> FALSE, acks |-> 0]
             s == [conns[f] EXCEPT ![Len(conns[f])] = k]
  <2>1. /\ UNCHANGED <<client, confirmed, overlapped, timeouts, received>>
        /\ conns' = [conns EXCEPT ![f] = s] /\ conns[f] # <<>>
    BY <1>4 DEF Reset, Alive, callVars, ghostVars
  <2>2. k \in Conn /\ k.open = FALSE
    BY Constructed
  <2> HIDE DEF k
  <2>3. Len(s) = Len(conns[f]) /\ s[Len(conns[f])] = k
    BY <1>1, <2>1, <2>2
  <2> HIDE DEF s
  <2>4. conns'[f] = s /\ \A g \in Followers : g # f => conns'[g] = conns[g]
    BY <1>1, <2>1
  <2>5. Matches(f)'
    BY <2>2, <2>3, <2>4 DEF Matches, Alive, Last
  <2> QED BY <2>1, <2>4, <2>5, OtherConn
<1>5. CASE FollowerRestart(f)
  <2>1. /\ UNCHANGED <<client, confirmed, overlapped, timeouts, received>>
        /\ conns' = [conns EXCEPT ![f] = <<>>]
    BY <1>5 DEF FollowerRestart, callVars, ghostVars
  <2>2. /\ conns'[f] = <<>>
        /\ \A g \in Followers : g # f => conns'[g] = conns[g]
    BY <1>1, <2>1
  <2>3. Matches(f)'
    BY <2>2 DEF Matches, Alive
  <2> QED BY <2>1, <2>2, <2>3, OtherConn
<1> QED BY <1>2, <1>3, <1>4, <1>5

\* A restarted leader has no call under way and no open connection.
LEMMA RestartAcks ==
    ASSUME TypeInv, AckInv, LeaderRestart
    PROVE  AckInv'
<1>1. /\ \A c \in Clients : client'[c] = Idle
      /\ UNCHANGED <<confirmed, overlapped, timeouts, received>>
  BY DEF LeaderRestart, ghostVars, callVars
<1>2. Idle.pc = "idle" /\ Idle.acks = 0
  BY DEF Idle
<1>3. OneClient' /\ Fresh'
  BY <1>1, <1>2 DEF OneClient, Fresh
<1>4. Counted => Counted'
  BY <1>1, <1>2 DEF Counted
<1>5. ASSUME NEW f \in Followers
      PROVE  Matches(f)'
  <2>1. conns'[f] = [i \in DOMAIN conns[f] |-> [conns[f][i] EXCEPT !.open = FALSE]]
    BY DEF LeaderRestart
  <2>2. /\ DOMAIN conns[f] = 1..Len(conns[f]) /\ Len(conns[f]) \in Nat
        /\ \A i \in DOMAIN conns[f] : conns[f][i] \in Conn
    BY AliveConn DEF TypeInv
  <2>3. \A k \in Conn : [k EXCEPT !.open = FALSE].open = FALSE
    BY DEF Conn
  <2>4. \A i \in DOMAIN conns'[f] : conns'[f][i].open = FALSE
    BY <2>1, <2>2, <2>3
  <2>5. conns'[f] \in Seq(Conn)
    BY TypeStep DEF Next, TypeInv, Types
  <2>6. conns'[f] # <<>> => ~Last(conns'[f]).open
    BY <2>4, <2>5 DEF Last
  <2> QED BY <2>6 DEF Matches, Alive
<1> QED BY <1>1, <1>3, <1>4, <1>5 DEF AckInv, AcksMatch

\* Every step keeps the acknowledgements matched.
LEMMA AckStep ==
    ASSUME TypeInv, AckInv, [Next]_vars
    PROVE  AckInv'
<1>1. CASE UNCHANGED vars
  BY <1>1, AcksSame DEF vars, ghostVars, callVars, faultVars
<1>2. CASE Apply \/ \E f \in Followers : FollowerApply(f)
  <2>1. UNCHANGED <<client, conns, received, confirmed, overlapped, timeouts>>
    BY <1>2 DEF Apply, ApplyTest, ApplyCall, FollowerApply, FollowerTest, FollowerCall,
       ghostVars, callVars, faultVars
  <2> QED BY <2>1, AcksSame
<1>3. ASSUME NEW c \in Clients, AppendLog(c) \/ Replicate(c)
      PROVE  AckInv'
  BY <1>3, AppendLogAcks, CallAcks, SendAcks, RecvAcks, NoAckAcks DEF Replicate
<1>4. ASSUME NEW f \in Followers,
             ConnectToPeer(f) \/ Listener(f) \/ Reset(f) \/ FollowerRestart(f)
      PROVE  AckInv'
  BY <1>4, HandleAcks, ConnAcks DEF Listener
<1> QED BY <1>1, <1>2, <1>3, <1>4, RestartAcks DEF Next

\* At first there is no call and no connection.
LEMMA AckInit ==
    ASSUME Init
    PROVE  AckInv
<1>1. OneClient /\ Fresh
  BY DEF Init, OneClient, Fresh, Idle
<1>2. Counted /\ \A f \in Followers : Matches(f)
  BY DEF Init, Counted, Matches, Alive, Idle
<1> QED BY <1>1, <1>2 DEF AckInv, AcksMatch

\* TypeOK is a part of the types and bounds.
LEMMA TypeOKHolds ==
    ASSUME TypeInv
    PROVE  TypeOK
<1>1. /\ log \in Seq(Entries) /\ commit \in 0..Len(log) /\ lastApplied \in 0..commit
      /\ peer \in [Followers -> BOOLEAN]
  BY DEF TypeInv, Types, Bounded, LeaderBounds
<1>2. \A f \in Followers : flog[f] \in Seq(Entries) /\ flastApplied[f] \in 0..fcommit[f]
  BY DEF TypeInv, Types, Bounded, FollowerBounds
<1>3. \A c \in Clients : client[c].pc \in ClientPcs
  BY ClientFields DEF TypeInv
<1>4. store \in [Followers \cup {"leader"} -> [Keys -> Nat]]
  BY DEF TypeInv, Types, Nodes
<1> QED BY <1>1, <1>2, <1>3, <1>4 DEF TypeOK, ClientPcs

\* When Leader::replicate returns TRUE some follower has received the entry, for
\* any number of clients, followers, broken connections and restarts of either
\* side, as long as no acknowledgement is late and clients take turns.
THEOREM ConfirmedCorrect == Spec => []ConfirmedReceived
<1>1. Init => TypeInv /\ AckInv
  BY TypeInit, AckInit
<1>2. TypeInv /\ AckInv /\ [Next]_vars => TypeInv' /\ AckInv'
  BY TypeStep, AckStep
<1>3. TypeInv /\ AckInv => ConfirmedReceived
  BY TypeOKHolds DEF ConfirmedReceived, AckInv, AcksMatch, Counted
<1> QED BY <1>1, <1>2, <1>3, PTL DEF Spec

-----------------------------------------------------------------------------
(* Where entries are.                                                       *)

\* Message m is on one of the connections to f; entry e is in the log of f or on
\* the way to it.
InFlight(f, m) ==
    \E i \in DOMAIN conns[f] : \E j \in DOMAIN conns[f][i].msgs : conns[f][i].msgs[j] = m
Logged(f, e) == \E n \in DOMAIN flog[f] : flog[f][n] = e
At(f, e) == Logged(f, e) \/ \E m \in Msg : InFlight(f, m) /\ m.entry = e

\* Client c sends a message to f.
SendsTo(c, f) == ShipSend(c) /\ Head(client[c].todo) = f

\* Messages that were not sent in this step were on their way before it.
LEMMA FlightConn ==
    ASSUME TypeInv, NEW f \in Followers, NEW i \in 1..Len(conns[f]), NEW g \in Followers,
           OnlyConn(f, i), NEW m, InFlight(g, m)'
    PROVE  InFlight(g, m) \/ (g = f /\ \E j \in DOMAIN conns'[f][i].msgs : conns'[f][i].msgs[j] = m)
<1>1. CASE g # f
  BY <1>1 DEF OnlyConn, InFlight
<1>2. CASE g = f
  <2>1. DOMAIN conns[f] = 1..Len(conns[f]) /\ DOMAIN conns'[f] = 1..Len(conns[f])
    BY AliveConn DEF TypeInv, OnlyConn
  <2>2. PICK h \in DOMAIN conns'[f] : \E j \in DOMAIN conns'[f][h].msgs : conns'[f][h].msgs[j] = m
    BY <1>2 DEF InFlight
  <2>3. CASE h = i
    BY <1>2, <2>2, <2>3
  <2>4. CASE h # i
    <3>1. conns'[f][h] = conns[f][h]
      BY <2>1, <2>4 DEF OnlyConn
    <3> QED BY <1>2, <2>1, <2>2, <3>1 DEF InFlight
  <2> QED BY <2>3, <2>4
<1> QED BY <1>1, <1>2

\* send() puts one message on the way.
LEMMA FlightSend ==
    ASSUME TypeInv, NEW c \in Clients, ShipSend(c), NEW g \in Followers, NEW m, InFlight(g, m)'
    PROVE  InFlight(g, m) \/ (m = Message(c) /\ g = Head(client[c].todo))
<1>0. PICK f \in Followers : f = Head(client[c].todo)
  BY ShipEffects
<1>1. CASE ~Alive(f)
  <2>1. conns' = conns
    BY <1>0, <1>1 DEF ShipSend
  <2> QED BY <2>1 DEF InFlight
<1>2. CASE Alive(f)
  <2> DEFINE n == Len(conns[f])
  <2>1. conns' = [conns EXCEPT ![f][Len(conns[f])].msgs = Append(@, Message(c))]
    BY <1>0, <1>2 DEF ShipSend
  <2>2. Message(c) \in Msg
    BY ClientFields DEF Message, Msg, TypeInv
  <2>3. /\ OnlyConn(f, n)
        /\ conns'[f][n].msgs = Append(conns[f][n].msgs, Message(c))
    BY <1>2, <2>1, <2>2, SendEffect DEF TypeInv
  <2>4. n \in 1..Len(conns[f]) /\ conns[f][n].msgs \in Seq(Msg) /\ DOMAIN conns[f] = 1..Len(conns[f])
    BY <1>2, AliveConn DEF TypeInv
  <2> HIDE DEF n
  <2>5. InFlight(g, m) \/ (g = f /\ \E j \in DOMAIN conns'[f][n].msgs : conns'[f][n].msgs[j] = m)
    <3>1. OnlyConn(f, n) /\ n \in 1..Len(conns[f])
      BY <2>3, <2>4
    <3> QED BY <3>1, FlightConn
  <2>6. ASSUME NEW j \in DOMAIN conns'[f][n].msgs
        PROVE  \/ conns'[f][n].msgs[j] = Message(c)
               \/ j \in DOMAIN conns[f][n].msgs /\ conns'[f][n].msgs[j] = conns[f][n].msgs[j]
    BY <2>2, <2>3, <2>4, <2>6
  <2> QED BY <1>0, <2>4, <2>5, <2>6, ZenonT(60) DEF InFlight
<1> QED BY <1>1, <1>2

\* recv() of an acknowledgement puts none.
LEMMA FlightAck ==
    ASSUME TypeInv, NEW c \in Clients, ShipAck(c), NEW g \in Followers, NEW m, InFlight(g, m)'
    PROVE  InFlight(g, m)
<1>0. PICK f \in Followers : f = Head(client[c].todo)
  BY ShipEffects
<1> DEFINE n == Len(conns[f])
<1>1. /\ Alive(f)
      /\ conns' = [conns EXCEPT ![f][Len(conns[f])].acks =
                            IF @ > AckBuf THEN @ - AckBuf ELSE 0]
  BY <1>0 DEF ShipAck
<1>2. OnlyConn(f, n) /\ conns'[f][n].msgs = conns[f][n].msgs
  BY <1>1, AckEffect DEF TypeInv
<1>3. n \in 1..Len(conns[f]) /\ DOMAIN conns[f] = 1..Len(conns[f])
  BY <1>1, AliveConn DEF TypeInv
<1> HIDE DEF n
<1>4. InFlight(g, m) \/ (g = f /\ \E j \in DOMAIN conns'[f][n].msgs : conns'[f][n].msgs[j] = m)
  BY <1>2, <1>3, FlightConn
<1> QED BY <1>2, <1>3, <1>4 DEF InFlight

\* handleReplication takes the first one off.
LEMMA FlightHandle ==
    ASSUME TypeInv, NEW f \in Followers, HandleReplication(f), NEW g \in Followers, NEW m
    PROVE  /\ InFlight(g, m)' => InFlight(g, m)
           /\ InFlight(f, conns[f][1].msgs[1]) /\ conns[f][1].msgs[1] \in Msg
<1>1. /\ OnlyConn(f, 1)
      /\ conns'[f][1].msgs = Tail(conns[f][1].msgs)
      /\ conns[f][1].msgs \in Seq(Msg) /\ Len(conns[f][1].msgs) > 0
      /\ 1 \in 1..Len(conns[f]) /\ conns[f][1].msgs[1] \in Msg
  BY HandleEffect DEF HandleReplication, TypeInv
<1>2. DOMAIN conns[f] = 1..Len(conns[f])
  BY AliveConn DEF TypeInv
<1>3. ASSUME InFlight(g, m)'
      PROVE  InFlight(g, m) \/ (g = f /\ \E j \in DOMAIN conns'[f][1].msgs : conns'[f][1].msgs[j] = m)
  <2>1. OnlyConn(f, 1) /\ 1 \in 1..Len(conns[f])
    BY <1>1
  <2> QED BY <1>3, <2>1, FlightConn
<1>4. ASSUME NEW j \in DOMAIN conns'[f][1].msgs
      PROVE  j + 1 \in DOMAIN conns[f][1].msgs /\ conns'[f][1].msgs[j] = conns[f][1].msgs[j + 1]
  BY <1>1, <1>4
<1>5. InFlight(g, m)' => InFlight(g, m)
  BY <1>1, <1>2, <1>3, <1>4 DEF InFlight
<1>6. 1 \in DOMAIN conns[f][1].msgs
  BY <1>1
<1> QED BY <1>1, <1>2, <1>5, <1>6 DEF InFlight

\* New, accepted and broken connections and restarts put none on the way.
LEMMA FlightFaults ==
    ASSUME TypeInv, NEW g \in Followers, NEW m, InFlight(g, m)',
           LeaderRestart \/ \E f \in Followers : \/ ConnectToPeer(f) \/ AcceptNext(f)
                                                 \/ Reset(f) \/ FollowerRestart(f)
    PROVE  InFlight(g, m)
<1>1. /\ conns \in [Followers -> Seq(Conn)] /\ conns[g] \in Seq(Conn)
      /\ DOMAIN conns[g] = 1..Len(conns[g])
  BY AliveConn DEF TypeInv, Types
<1>2. ASSUME NEW f \in Followers, ConnectToPeer(f)
      PROVE  InFlight(g, m)
  <2>1. g # f => conns'[g] = conns[g]
    BY <1>1, <1>2 DEF ConnectToPeer
  <2>2. CASE g = f
    <3>1. conns'[g] = Append(conns[g], NewConn)
      BY <1>1, <1>2, <2>2 DEF ConnectToPeer
    <3>2. ASSUME NEW i \in DOMAIN conns'[g]
          PROVE  conns'[g][i].msgs = <<>> \/ (i \in DOMAIN conns[g] /\ conns'[g][i] = conns[g][i])
      <4>1. conns'[g][i] = NewConn \/ (i \in DOMAIN conns[g] /\ conns'[g][i] = conns[g][i])
        BY <1>1, <3>1, <3>2, Constructed
      <4> QED BY <4>1 DEF NewConn
    <3> QED BY <3>2 DEF InFlight
  <2> QED BY <2>1, <2>2 DEF InFlight
<1>3. ASSUME NEW f \in Followers, AcceptNext(f)
      PROVE  InFlight(g, m)
  <2>1. g # f => conns'[g] = conns[g]
    BY <1>1, <1>3 DEF AcceptNext
  <2>2. CASE g = f
    <3>1. conns'[g] = Tail(conns[g]) /\ conns[g] # <<>>
      BY <1>1, <1>3, <2>2 DEF AcceptNext
    <3>2. ASSUME NEW i \in DOMAIN conns'[g]
          PROVE  i + 1 \in DOMAIN conns[g] /\ conns'[g][i] = conns[g][i + 1]
      BY <1>1, <3>1, <3>2
    <3> QED BY <3>2 DEF InFlight
  <2> QED BY <2>1, <2>2 DEF InFlight
<1>4. ASSUME NEW f \in Followers, Reset(f)
      PROVE  InFlight(g, m)
  <2> DEFINE k == [msgs |-> <<>>, open |-> FALSE, acks |-> 0]
             s == [conns[f] EXCEPT ![Len(conns[f])] = k]
  <2>1. conns' = [conns EXCEPT ![f] = s]
    BY <1>4 DEF Reset
  <2>2. k.msgs = <<>>
    OBVIOUS
  <2> HIDE DEF k
  <2>3. \A i \in DOMAIN s : i \in DOMAIN conns[f] /\ (s[i] = k \/ s[i] = conns[f][i])
    OBVIOUS
  <2> HIDE DEF s
  <2>4. (g = f => conns'[g] = s) /\ (g # f => conns'[g] = conns[g])
    BY <1>1, <2>1
  <2> QED BY <2>2, <2>3, <2>4 DEF InFlight
<1>5. ASSUME NEW f \in Followers, FollowerRestart(f)
      PROVE  InFlight(g, m)
  <2>1. (g = f => conns'[g] = <<>>) /\ (g # f => conns'[g] = conns[g])
    BY <1>1, <1>5 DEF FollowerRestart
  <2> QED BY <2>1 DEF InFlight
<1>6. ASSUME LeaderRestart
      PROVE  InFlight(g, m)
  <2>1. conns'[g] = [i \in DOMAIN conns[g] |-> [conns[g][i] EXCEPT !.open = FALSE]]
    BY <1>6 DEF LeaderRestart
  <2>2. \A k \in Conn : [k EXCEPT !.open = FALSE].msgs = k.msgs
    BY DEF Conn
  <2>3. \A i \in DOMAIN conns'[g] : i \in DOMAIN conns[g] /\ conns'[g][i].msgs = conns[g][i].msgs
    BY <1>1, <2>1, <2>2
  <2> QED BY <2>3 DEF InFlight
<1> QED BY <1>2, <1>3, <1>4, <1>5, <1>6

\* The steps that leave the connections alone.
LEMMA ConnsKept ==
    ASSUME Next
    PROVE  \/ conns' = conns
           \/ \E c \in Clients : ShipSend(c) \/ ShipAck(c)
           \/ LeaderRestart
           \/ \E f \in Followers : \/ HandleReplication(f) \/ ConnectToPeer(f)
                                   \/ AcceptNext(f) \/ Reset(f) \/ FollowerRestart(f)
BY DEF Next, Replicate, Apply, Listener, FollowerApply, AppendLog, Commit, ReadCommit,
   ReadBack, ShipLock, ShipSkip, ShipFail, ShipNoAck, ShipDone, Execute, ApplyTest,
   ApplyCall, FollowerTest, FollowerCall

\* A message on its way was on its way before, or was just sent.
LEMMA FlightStep ==
    ASSUME TypeInv, [Next]_vars, NEW f \in Followers, NEW m, InFlight(f, m)'
    PROVE  InFlight(f, m) \/ \E c \in Clients : SendsTo(c, f) /\ m = Message(c)
<1>1. CASE conns' = conns
  BY <1>1 DEF InFlight
<1>2. CASE conns' # conns
  <2>1. Next
    BY <1>2 DEF vars
  <2> QED BY <1>2, <2>1, ConnsKept, FlightSend, FlightAck, FlightHandle, FlightFaults
          DEF SendsTo
<1> QED BY <1>1, <1>2

\* The steps that leave the followers' logs alone.
LEMMA FlogKept ==
    ASSUME [Next]_vars
    PROVE  flog' = flog \/ \E f \in Followers : HandleReplication(f) \/ FollowerRestart(f)
BY DEF Next, Replicate, Apply, Listener, FollowerApply, AppendLog, Commit, ReadCommit,
   ReadBack, ShipLock, ShipSkip, ShipSend, ShipFail, ShipAck, ShipNoAck, ShipDone,
   Execute, ApplyTest, ApplyCall, FollowerTest, FollowerCall, ConnectToPeer, AcceptNext,
   Reset, LeaderRestart, followVars, vars

\* The log of a follower only grows, unless it is restarted; it grows by the entry
\* of a message on its way.
LEMMA LoggedStep ==
    ASSUME TypeInv, [Next]_vars, NEW f \in Followers, NEW e
    PROVE  /\ Logged(f, e)' => At(f, e)
           /\ Logged(f, e) => Logged(f, e)' \/ FollowerRestart(f)
<1>1. CASE flog' = flog
  BY <1>1 DEF Logged, At
<1>2. ASSUME NEW g \in Followers, HandleReplication(g)
      PROVE  /\ Logged(f, e)' => At(f, e)
             /\ Logged(f, e) => Logged(f, e)'
  <2>1. CASE g # f
    <3>1. flog'[f] = flog[f]
      BY <1>2, <2>1, HandleFollower
    <3> QED BY <3>1 DEF Logged, At
  <2>2. CASE g = f
    <3> DEFINE m == conns[f][1].msgs[1]
    <3>1. /\ flog'[f] = Append(flog[f], m.entry) /\ m.entry \in Entries
          /\ \A n \in DOMAIN flog[f] : n \in DOMAIN flog'[f] /\ flog'[f][n] = flog[f][n]
      BY <1>2, <2>2, HandleFollower
    <3>2. InFlight(f, m) /\ m \in Msg
      BY <1>2, <2>2, FlightHandle
    <3> HIDE DEF m
    <3>3. flog[f] \in Seq(Entries)
      BY DEF TypeInv, Types
    <3>4. \A n \in DOMAIN flog'[f] :
              flog'[f][n] = m.entry \/ (n \in DOMAIN flog[f] /\ flog'[f][n] = flog[f][n])
      BY <3>1, <3>3
    <3>5. Logged(f, e)' => At(f, e)
      BY <3>2, <3>4 DEF Logged, At
    <3>6. Logged(f, e) => Logged(f, e)'
      BY <3>1 DEF Logged
    <3> QED BY <3>5, <3>6
  <2> QED BY <2>1, <2>2
<1>3. ASSUME NEW g \in Followers, FollowerRestart(g)
      PROVE  /\ Logged(f, e)' => At(f, e)
             /\ Logged(f, e) => Logged(f, e)' \/ FollowerRestart(f)
  <2>1. (g = f => flog'[f] = <<>>) /\ (g # f => flog'[f] = flog[f])
    BY <1>3 DEF FollowerRestart, TypeInv, Types
  <2> QED BY <1>3, <2>1 DEF Logged, At
<1> QED BY <1>1, <1>2, <1>3, FlogKept

\* An entry at a follower was there before, or was just sent to it.
LEMMA AtStep ==
    ASSUME TypeInv, [Next]_vars, NEW f \in Followers, NEW e, At(f, e)'
    PROVE  At(f, e) \/ \E c \in Clients : SendsTo(c, f) /\ client[c].entry = e
<1>1. CASE Logged(f, e)'
  BY <1>1, LoggedStep
<1>2. ASSUME NEW m \in Msg, InFlight(f, m)', m.entry = e
      PROVE  At(f, e) \/ \E c \in Clients : SendsTo(c, f) /\ client[c].entry = e
  <2>1. InFlight(f, m) \/ \E c \in Clients : SendsTo(c, f) /\ m = Message(c)
    BY <1>2, FlightStep
  <2>2. \A c : Message(c).entry = client[c].entry
    BY DEF Message
  <2> QED BY <1>2, <2>1, <2>2 DEF At
<1> QED BY <1>1, <1>2 DEF At

-----------------------------------------------------------------------------
(* Numbers: entry n of the leader's log is write n, until the leader is      *)
(* restarted or log_ is reallocated under a read of it.                      *)

\* An entry of the leader's log.
Good(e) == e.index \in DOMAIN log /\ e = log[e.index]

LogNumbered ==
    /\ Len(log) = writes
    /\ \A i \in DOMAIN log : log[i].index = i /\ log[i].val = i

\* Each call has a write of its own, and ships it or a later one.
HasEntry(c) == client[c].pc \in {"lock", "ship", "recv"}
ClientsNumbered ==
    /\ \A c \in Clients : client[c].pc # "idle" => Good(client[c].own)
    /\ \A c, d \in Clients :
           client[c].pc # "idle" /\ client[d].pc # "idle" /\ client[c].own = client[d].own
               => c = d
    /\ \A c \in Clients : HasEntry(c) =>
           Good(client[c].entry) /\ client[c].own.index <= client[c].entry.index

\* What followers have and what is on its way to them is the leader's.
EntriesNumbered == \A f \in Followers : \A e \in Entries : At(f, e) => Good(e)

\* shipEntries sends to a peer once.
TodoOnce == \A c \in Clients : IsInjective(client[c].todo)

\* The call c has still to send to f.
Ahead(c, f) ==
    \/ client[c].pc \in {"commit", "read", "build", "lock"}
    \/ client[c].pc = "ship" /\ f \in Range(client[c].todo)
    \/ client[c].pc = "recv" /\ f \in Range(Tail(client[c].todo))

\* The first entry is sent to a follower once: a follower that has forgotten it in
\* a restart does not see it again, and applies nothing a second time.
First(f) == \E e \in Entries : At(f, e) /\ e.index = 1
FirstSent(f) == writes > 0 /\ \A c \in Clients : client[c].own.index = 1 => ~Ahead(c, f)
Holds(f) == \E k \in Keys : store[f][k] > 0
FirstOnce(f) ==
    /\ First(f) \/ Holds(f) => FirstSent(f)
    /\ flastApplied[f] = 0 /\ Holds(f) => ~First(f)
    /\ flastApplied[f] > 0 =>
           /\ \A k \in Keys : store[f][k] <= flastApplied[f]
           /\ \E e \in Entries : Logged(f, e) /\ e.index = 1

Numbered ==
    restarts = 0 /\ tears = 0 => /\ LogNumbered /\ ClientsNumbered /\ EntriesNumbered
                                 /\ \A f \in Followers : FirstOnce(f)

NumberInv == TodoOnce /\ Numbered

\* The last entry of a numbered log.
LEMMA LastGood ==
    ASSUME TypeInv, LogNumbered, log # <<>>
    PROVE  Good(Last(log)) /\ Last(log).index = writes
<1>1. log \in Seq(Entries)
  BY DEF TypeInv, Types
<1>2. Len(log) \in DOMAIN log /\ Len(log) >= 1 /\ Len(log) \in Nat
  BY <1>1
<1> QED BY <1>2 DEF LogNumbered, Good, Last

\* Sending to the next peer.
LEMMA TailOnce ==
    ASSUME NEW s \in Seq(Followers), s # <<>>, IsInjective(s)
    PROVE  /\ IsInjective(Tail(s)) /\ Head(s) \notin Range(Tail(s))
           /\ Range(Tail(s)) \subseteq Range(s) /\ Head(s) \in Range(s)
           /\ Tail(s) \in Seq(Followers)
<1>1. /\ Tail(s) \in Seq(Followers) /\ Len(Tail(s)) = Len(s) - 1 /\ Len(s) \in Nat
      /\ Len(s) >= 1 /\ Head(s) = s[1]
      /\ \A i \in 1..Len(Tail(s)) : Tail(s)[i] = s[i + 1]
  OBVIOUS
<1>2. DOMAIN s = 1..Len(s) /\ DOMAIN Tail(s) = 1..Len(Tail(s))
  BY <1>1
<1>3. \A i \in DOMAIN Tail(s) : i + 1 \in DOMAIN s /\ i + 1 # 1 /\ Tail(s)[i] = s[i + 1]
  BY <1>1, <1>2
<1>4. 1 \in DOMAIN s
  BY <1>1, <1>2
<1>5. IsInjective(Tail(s))
  <2> SUFFICES ASSUME NEW a \in DOMAIN Tail(s), NEW b \in DOMAIN Tail(s),
                      Tail(s)[a] = Tail(s)[b]
               PROVE  a = b
    BY DEF IsInjective
  <2>1. a + 1 = b + 1
    BY <1>3 DEF IsInjective
  <2> QED BY <1>1, <1>2, <2>1
<1>6. Head(s) \notin Range(Tail(s))
  BY <1>1, <1>3, <1>4 DEF IsInjective, Range
<1> QED BY <1>1, <1>3, <1>4, <1>5, <1>6 DEF Range

\* How a call goes on: with the same write, to fewer peers, and with the same
\* entry once it has one.
Onward(c) ==
    /\ client'[c].pc # "idle" =>
           client[c].pc # "idle" /\ client'[c].own = client[c].own
    /\ \A f \in Followers : Ahead(c, f)' => Ahead(c, f)
    /\ HasEntry(c)' => \/ HasEntry(c) /\ client'[c].entry = client[c].entry
                       \/ /\ client'[c].entry = Last(log) /\ log # <<>>
                          /\ client[c].pc # "idle"
                       \/ tears' # tears
    /\ IsInjective(client'[c].todo)

\* A client that does not move.
LEMMA OnwardSame ==
    ASSUME TodoOnce, NEW c \in Clients, client'[c] = client[c]
    PROVE  Onward(c)
BY DEF Onward, TodoOnce, HasEntry, Ahead

\* A step of replicate() or executeCommand.
LEMMA OnwardStep ==
    ASSUME TypeInv, TodoOnce, NEW c \in Clients, Replicate(c)
    PROVE  Onward(c) /\ \A d \in Clients : d # c => client'[d] = client[d]
<1>0. /\ Types /\ (client[c].pc # "idle" => log # <<>>)
      /\ client[c].todo \in Seq(Followers) /\ IsInjective(client[c].todo)
  BY ClientFields DEF TypeInv, Bounded, ClientBounds, TodoOnce
<1>1. CASE Commit(c)
  <2>1. Now(c, "read", client[c].own, client[c].commit,
            client[c].entry, client[c].todo, client[c].acks)
    BY <1>0, <1>1, CallEffects
  <2> QED BY <1>0, <1>1, <2>1 DEF Now, Onward, Commit, Ahead, HasEntry
<1>2. CASE ReadCommit(c)
  <2>1. Now(c, "build", client[c].own, commit,
            client[c].entry, client[c].todo, client[c].acks)
    BY <1>0, <1>2, CallEffects
  <2> QED BY <1>0, <1>2, <2>1 DEF Now, Onward, ReadCommit, Ahead, HasEntry
<1>3. CASE ReadBack(c)
  <2>1. client[c].pc = "build"
    BY <1>3 DEF ReadBack
  <2>2. PICK e \in Entries : HasRead(c, e)
    BY <1>0, <1>3, <2>1, CallEffects
  <2> QED BY <1>0, <2>1, <2>2 DEF HasRead, Now, Onward, Ahead, HasEntry
<1>4. CASE ShipLock(c)
  <2>1. Now(c, "ship", client[c].own, client[c].commit,
            client[c].entry, Peers, client[c].acks)
    BY <1>0, <1>4, CallEffects
  <2> QED BY <1>4, <2>1, ReplicationAssumption DEF Now, Onward, ShipLock, Ahead, HasEntry
<1>5. CASE Execute(c)
  <2>1. Now(c, "idle", NoEntry, 0, NoEntry, <<>>, 0)
    BY <1>0, <1>5, CallEffects
  <2>2. IsInjective(<<>>)
    BY DEF IsInjective
  <2> QED BY <2>1, <2>2 DEF Now, Onward, Ahead, HasEntry
<1>6. CASE ShipSkip(c) \/ ShipFail(c) \/ ShipNoAck(c) \/ ShipAck(c)
  <2>1. /\ \A d \in Clients : d # c => client'[d] = client[d]
        /\ client'[c].pc = "ship" /\ client'[c].own = client[c].own
        /\ client'[c].entry = client[c].entry /\ client'[c].todo = Tail(client[c].todo)
        /\ client[c].todo # <<>>
    BY <1>6, ShipEffects DEF Now
  <2>2. client[c].pc \in {"ship", "recv"}
    BY <1>6 DEF ShipSkip, ShipFail, ShipNoAck, ShipAck
  <2>3. /\ IsInjective(client'[c].todo)
        /\ Range(client'[c].todo) \subseteq Range(client[c].todo)
        /\ Range(client'[c].todo) \subseteq Range(Tail(client[c].todo))
    BY <1>0, <2>1, TailOnce
  <2> QED BY <2>1, <2>2, <2>3 DEF Onward, Ahead, HasEntry
<1>7. CASE ShipSend(c)
  <2>1. Now(c, "recv", client[c].own, client[c].commit, client[c].entry,
            client[c].todo, client[c].acks)
    BY <1>7, ShipEffects
  <2>2. client[c].pc = "ship" /\ Range(Tail(client[c].todo)) \subseteq Range(client[c].todo)
    BY <1>0, <1>7, TailOnce DEF ShipSend
  <2> QED BY <1>0, <2>1, <2>2 DEF Now, Onward, Ahead, HasEntry
<1>8. CASE ShipDone(c)
  <2>1. Now(c, "execute", client[c].own, client[c].commit, client[c].entry,
            client[c].todo, client[c].acks)
    BY <1>8, ShipEffects
  <2> QED BY <1>0, <1>8, <2>1 DEF Now, Onward, ShipDone, Ahead, HasEntry
<1> QED BY <1>1, <1>2, <1>3, <1>4, <1>5, <1>6, <1>7, <1>8 DEF Replicate

\* The log and the number of writes change in appendLog and in a restart only.
LEMMA LogKept ==
    ASSUME [Next]_vars
    PROVE  \/ \E c \in Clients : AppendLog(c)
           \/ LeaderRestart
           \/ /\ UNCHANGED <<log, writes, restarts>>
              /\ UNCHANGED client \/ \E c \in Clients : Replicate(c)
<1>1. ASSUME NEW c \in Clients, Replicate(c)
      PROVE  UNCHANGED <<log, writes, restarts>>
  BY <1>1 DEF Replicate, Commit, ReadCommit, ReadBack, ShipLock, ShipSkip, ShipSend,
     ShipFail, ShipAck, ShipNoAck, ShipDone, Execute, leaderVars, callVars, faultVars
<1>2. ASSUME Apply
      PROVE  UNCHANGED <<log, writes, restarts, client>>
  BY <1>2 DEF Apply, ApplyTest, ApplyCall, callVars, faultVars
<1>3. ASSUME NEW f \in Followers,
             ConnectToPeer(f) \/ Listener(f) \/ FollowerApply(f) \/ Reset(f) \/ FollowerRestart(f)
      PROVE  UNCHANGED <<log, writes, restarts, client>>
  BY <1>3 DEF ConnectToPeer, Listener, FollowerApply, FollowerTest, FollowerCall, AcceptNext,
     HandleReplication, Reset, FollowerRestart, leaderVars, callVars, faultVars
<1>4. CASE UNCHANGED vars
  BY <1>4 DEF vars, leaderVars, callVars, faultVars
<1> QED BY <1>1, <1>2, <1>3, <1>4 DEF Next

\* Every client goes on, but for appendLog and a restart.
LEMMA AllOnward ==
    ASSUME TypeInv, TodoOnce, [Next]_vars, ~LeaderRestart,
           \A c \in Clients : ~AppendLog(c)
    PROVE  UNCHANGED <<log, writes, restarts>> /\ \A c \in Clients : Onward(c)
<1>1. UNCHANGED <<log, writes, restarts>>
      /\ (UNCHANGED client \/ \E c \in Clients : Replicate(c))
  BY LogKept
<1>2. CASE UNCHANGED client
  BY <1>1, <1>2, OnwardSame
<1>3. ASSUME NEW c \in Clients, Replicate(c)
      PROVE  \A d \in Clients : Onward(d)
  BY <1>3, OnwardStep, OnwardSame
<1> QED BY <1>1, <1>2, <1>3

\* appendLog begins the call of the next write.
LEMMA AppendLogEffect ==
    ASSUME TypeInv, NEW c \in Clients, AppendLog(c)
    PROVE  /\ Now(c, "commit", log'[Len(log) + 1], 0, NoEntry, <<>>, 0)
           /\ writes' = writes + 1 /\ restarts' = restarts /\ writes \in Nat
           /\ Len(log) \in Nat /\ Len(log') = Len(log) + 1
           /\ DOMAIN log = 1..Len(log) /\ DOMAIN log' = 1..(Len(log) + 1)
           /\ \A i \in DOMAIN log : i \in DOMAIN log' /\ log'[i] = log[i]
           /\ log'[Len(log) + 1].index = Len(log) + 1
           /\ log'[Len(log) + 1].val = writes + 1
           /\ UNCHANGED <<store, flastApplied, lastApplied, flog, conns, fcommit, commit,
                          tears, failures>>
<1>1. Appended(c)
  BY CallEffects DEF TypeInv
<1>2. log \in Seq(Entries) /\ writes \in Nat
  BY DEF TypeInv, Types
<1>3. /\ Len(log) \in Nat /\ DOMAIN log = 1..Len(log) /\ DOMAIN log' = 1..(Len(log) + 1)
      /\ \A i \in DOMAIN log : i \in DOMAIN log' /\ log'[i] = log[i]
  BY <1>1, <1>2 DEF Appended
<1>4. /\ writes' = writes + 1 /\ restarts' = restarts
      /\ UNCHANGED <<store, flastApplied, lastApplied, flog, conns, fcommit, commit,
                     tears, failures>>
  BY DEF AppendLog, faultVars, followVars
<1> QED BY <1>1, <1>2, <1>3, <1>4 DEF Appended

\* An entry of the log stays one while the log grows.
LEMMA GoodKept ==
    ASSUME TypeInv, [Next]_vars, ~LeaderRestart, NEW e \in Entries, Good(e)
    PROVE  Good(e)'
<1>1. e.index \in DOMAIN log' /\ log'[e.index] = log[e.index]
  BY LogKept, AppendLogEffect DEF Good
<1> QED BY <1>1 DEF Good

\* No client sends to a peer twice.
LEMMA TodoStep ==
    ASSUME TypeInv, TodoOnce, [Next]_vars
    PROVE  TodoOnce'
<1>1. IsInjective(<<>>)
  BY DEF IsInjective
<1>2. ASSUME NEW c \in Clients, AppendLog(c)
      PROVE  TodoOnce'
  BY <1>1, <1>2, AppendLogEffect DEF TodoOnce, Now
<1>3. CASE LeaderRestart
  <2>1. \A c \in Clients : client'[c] = Idle
    BY <1>3 DEF LeaderRestart
  <2> QED BY <1>1, <2>1 DEF TodoOnce, Idle
<1>4. CASE ~LeaderRestart /\ \A c \in Clients : ~AppendLog(c)
  BY <1>4, AllOnward DEF TodoOnce, Onward
<1> QED BY <1>2, <1>3, <1>4

\* The leader's log and its clients stay numbered.
LEMMA LeaderNumbered ==
    ASSUME TypeInv, TodoOnce, LogNumbered, ClientsNumbered, [Next]_vars, ~LeaderRestart,
           tears' = tears
    PROVE  LogNumbered' /\ ClientsNumbered'
<1>0. \A c \in Clients : client[c].entry \in Entries /\ client[c].own \in Entries
  BY ClientFields DEF TypeInv
<1>1. ASSUME NEW c \in Clients, AppendLog(c)
      PROVE  LogNumbered' /\ ClientsNumbered'
  <2>1. LogNumbered'
    BY <1>1, AppendLogEffect DEF LogNumbered
  <2>2. \A d \in Clients : d # c => client'[d] = client[d]
    BY <1>1, AppendLogEffect DEF Now
  <2>3. /\ client'[c].pc = "commit" /\ client'[c].own = log'[Len(log) + 1]
        /\ Len(log) \in Nat /\ DOMAIN log = 1..Len(log)
        /\ DOMAIN log' = 1..(Len(log) + 1)
        /\ log'[Len(log) + 1].index = Len(log) + 1
    BY <1>1, AppendLogEffect DEF Now
  <2>4. ASSUME NEW d \in Clients, client'[d].pc # "idle"
        PROVE  Good(client[d].own)'
    <3>1. CASE d = c
      BY <2>3, <3>1 DEF Good
    <3>2. CASE d # c
      <4>1. Good(client[d].own) /\ client'[d] = client[d]
        BY <2>2, <2>4, <3>2 DEF ClientsNumbered
      <4>2. PICK e \in Entries : e = client[d].own
        BY <1>0
      <4>3. Good(e)'
        BY <4>1, <4>2, GoodKept
      <4> QED BY <4>1, <4>2, <4>3 DEF Good
    <3> QED BY <3>1, <3>2
  <2>5. \A d, e \in Clients :
            client'[d].pc # "idle" /\ client'[e].pc # "idle" /\ client'[d].own = client'[e].own
                => d = e
    <3>1. \A d \in Clients : d # c /\ client'[d].pc # "idle" => client'[d].own # client'[c].own
      BY <2>2, <2>3 DEF ClientsNumbered, Good
    <3> QED BY <2>2, <3>1 DEF ClientsNumbered
  <2>6. ASSUME NEW d \in Clients, HasEntry(d)'
        PROVE  Good(client[d].entry)' /\ client'[d].own.index <= client'[d].entry.index
    <3>1. d # c
      BY <2>3, <2>6 DEF HasEntry
    <3>2. client'[d] = client[d]
      BY <2>2, <3>1
    <3>3. Good(client[d].entry) /\ client[d].own.index <= client[d].entry.index
      BY <2>6, <3>2 DEF HasEntry, ClientsNumbered
    <3>4. PICK e \in Entries : e = client[d].entry
      BY <1>0
    <3>5. Good(e)'
      BY <3>3, <3>4, GoodKept
    <3> QED BY <3>2, <3>3, <3>4, <3>5 DEF Good
  <2> QED BY <2>1, <2>4, <2>5, <2>6 DEF ClientsNumbered
<1>2. ASSUME \A c \in Clients : ~AppendLog(c)
      PROVE  LogNumbered' /\ ClientsNumbered'
  <2>1. UNCHANGED <<log, writes>> /\ \A c \in Clients : Onward(c)
    BY <1>2, AllOnward
  <2>2. LogNumbered'
    BY <2>1 DEF LogNumbered
  <2>3. \A d \in Clients : client'[d].pc # "idle" => Good(client[d].own)'
    BY <2>1 DEF ClientsNumbered, Onward, Good
  <2>4. \A d, e \in Clients :
            client'[d].pc # "idle" /\ client'[e].pc # "idle" /\ client'[d].own = client'[e].own
                => d = e
    BY <2>1 DEF ClientsNumbered, Onward
  <2>5. ASSUME NEW d \in Clients, HasEntry(d)'
        PROVE  Good(client[d].entry)' /\ client'[d].own.index <= client'[d].entry.index
    <3>1. client'[d].pc # "idle"
      BY <2>5 DEF HasEntry
    <3>2. client[d].pc # "idle" /\ client'[d].own = client[d].own
      BY <2>1, <3>1 DEF Onward
    <3>3. CASE HasEntry(d) /\ client'[d].entry = client[d].entry
      <4>1. Good(client[d].entry) /\ client[d].own.index <= client[d].entry.index
        BY <3>3 DEF ClientsNumbered
      <4> QED BY <2>1, <3>2, <3>3, <4>1 DEF Good
    <3>4. CASE client'[d].entry = Last(log) /\ log # <<>>
      <4>1. Good(Last(log)) /\ Last(log).index = writes
        BY <3>4, LastGood
      <4>2. client[d].own.index <= writes
        BY <3>2 DEF ClientsNumbered, LogNumbered, Good, TypeInv, Types
      <4> QED BY <2>1, <3>2, <3>4, <4>1, <4>2 DEF Good
    <3> QED BY <2>1, <2>5, <3>3, <3>4 DEF Onward
  <2> QED BY <2>2, <2>3, <2>4, <2>5 DEF ClientsNumbered
<1> QED BY <1>1, <1>2

\* Followers are sent entries of the leader's log only.
LEMMA EntriesStep ==
    ASSUME TypeInv, ClientsNumbered, EntriesNumbered, [Next]_vars, ~LeaderRestart
    PROVE  EntriesNumbered'
<1> SUFFICES ASSUME NEW f \in Followers, NEW e \in Entries, At(f, e)' PROVE Good(e)'
  BY DEF EntriesNumbered
<1>1. At(f, e) => Good(e)
  BY DEF EntriesNumbered
<1>2. ASSUME NEW c \in Clients, SendsTo(c, f), client[c].entry = e
      PROVE  Good(e)
  BY <1>2 DEF SendsTo, ShipSend, ClientsNumbered, HasEntry
<1> QED BY <1>1, <1>2, AtStep, GoodKept

\* The steps that leave what follower f has applied alone.
LEMMA StoreKept ==
    ASSUME TypeInv, [Next]_vars, NEW f \in Followers
    PROVE  \/ store'[f] = store[f] /\ flastApplied'[f] = flastApplied[f]
           \/ FollowerCall(f)
           \/ FollowerRestart(f)
<1>0. /\ f # "leader" /\ f \in Nodes /\ "leader" \in Nodes /\ Types
      /\ flastApplied \in [Followers -> Nat]
  BY ReplicationAssumption DEF TypeInv, Types, Nodes
<1>1. ASSUME NEW c \in Clients, AppendLog(c) \/ Replicate(c)
      PROVE  store'[f] = store[f] /\ flastApplied' = flastApplied
  <2>1. CASE Execute(c)
    <3>1. client[c].own \in Entries
      BY <1>0, ClientFields
    <3> QED BY <1>0, <2>1, <3>1, ApplyEffect DEF Execute, followVars
  <2>2. CASE ~Execute(c)
    BY <1>1, <2>2 DEF AppendLog, Replicate, Commit, ReadCommit, ReadBack, ShipLock,
       ShipSkip, ShipSend, ShipFail, ShipAck, ShipNoAck, ShipDone, followVars
  <2> QED BY <2>1, <2>2
<1>2. ASSUME Apply \/ LeaderRestart
      PROVE  store'[f] = store[f] /\ flastApplied' = flastApplied
  <2>1. CASE ApplyCall
    <3>1. log[lastApplied + 1] \in Entries /\ applier.stale \in BOOLEAN
      BY <2>1 DEF TypeInv, Types, Bounded, LeaderBounds, ApplyCall, Applier
    <3> QED BY <1>0, <2>1, <3>1, ApplyEffect DEF ApplyCall, followVars
  <2>2. CASE ApplyTest \/ LeaderRestart
    BY <2>2 DEF ApplyTest, LeaderRestart, followVars
  <2> QED BY <1>2, <2>1, <2>2 DEF Apply
<1>3. ASSUME NEW g \in Followers, g # f, FollowerCall(g) \/ FollowerRestart(g)
      PROVE  store'[f] = store[f] /\ flastApplied'[f] = flastApplied[f]
  BY <1>0, <1>3, CallFollower DEF FollowerRestart
<1>4. ASSUME NEW g \in Followers,
             ConnectToPeer(g) \/ Listener(g) \/ FollowerTest(g) \/ Reset(g)
      PROVE  store' = store /\ flastApplied' = flastApplied
  BY <1>4 DEF ConnectToPeer, Listener, HandleReplication, AcceptNext, FollowerTest, Reset,
     followVars
<1>5. CASE UNCHANGED vars
  BY <1>5 DEF vars, followVars
<1> QED BY <1>1, <1>2, <1>3, <1>4, <1>5 DEF Next, FollowerApply

\* Once the first entry has been sent to f, no call will send it again.
LEMMA FirstSentKept ==
    ASSUME TypeInv, TodoOnce, [Next]_vars, ~LeaderRestart, LogNumbered, NEW f \in Followers,
           FirstSent(f)
    PROVE  FirstSent(f)'
<1>1. ASSUME NEW c \in Clients, AppendLog(c)
      PROVE  FirstSent(f)'
  <2>1. /\ \A d \in Clients : d # c => client'[d] = client[d]
        /\ client'[c].own.index = Len(log) + 1 /\ writes' = writes + 1 /\ writes \in Nat
        /\ Len(log) \in Nat
    BY <1>1, AppendLogEffect DEF Now
  <2>2. writes > 0 /\ client'[c].own.index # 1
    BY <2>1 DEF FirstSent, LogNumbered
  <2>3. \A d \in Clients : d # c => (Ahead(d, f)' <=> Ahead(d, f))
    BY <2>1 DEF Ahead
  <2> QED BY <2>1, <2>2, <2>3 DEF FirstSent
<1>2. ASSUME \A c \in Clients : ~AppendLog(c)
      PROVE  FirstSent(f)'
  <2>1. writes' = writes /\ \A c \in Clients : Onward(c)
    BY <1>2, AllOnward
  <2>2. \A c \in Clients : Ahead(c, f)' => client'[c].pc # "idle"
    BY DEF Ahead
  <2>3. \A c \in Clients : Ahead(c, f)' => Ahead(c, f) /\ client'[c].own = client[c].own
    BY <2>1, <2>2 DEF Onward
  <2> QED BY <2>1, <2>3 DEF FirstSent
<1> QED BY <1>1, <1>2

\* The call that sends the first entry to f is that of the first write, and had
\* still to send it.
LEMMA SendsFirst ==
    ASSUME TypeInv, TodoOnce, LogNumbered, ClientsNumbered, NEW c \in Clients, NEW f \in Followers,
           SendsTo(c, f), client[c].entry.index = 1, [Next]_vars, ~LeaderRestart
    PROVE  client[c].own.index = 1 /\ Ahead(c, f) /\ FirstSent(f)'
<1>1. /\ client[c].pc = "ship" /\ client[c].todo # <<>> /\ Head(client[c].todo) = f
      /\ ShipSend(c) /\ client[c].own \in Entries /\ client[c].todo \in Seq(Followers)
      /\ IsInjective(client[c].todo) /\ writes \in Nat
  BY ClientFields DEF SendsTo, ShipSend, TypeInv, Types, TodoOnce
<1>2. client[c].own.index = 1 /\ writes > 0
  <2>2. Good(client[c].own) /\ client[c].own.index <= client[c].entry.index
    BY <1>1 DEF ClientsNumbered, HasEntry
  <2>3. log \in Seq(Entries) /\ Len(log) = writes
    BY DEF LogNumbered, TypeInv, Types
  <2>4. DOMAIN log = 1..writes
    BY <2>3
  <2>1. client[c].own.index \in 1..writes /\ client[c].own.index <= client[c].entry.index
    BY <2>2, <2>4 DEF Good
  <2> QED BY <1>1, <2>1
<1>3. Ahead(c, f)
  BY <1>1, TailOnce DEF Ahead
<1>4. Now(c, "recv", client[c].own, client[c].commit, client[c].entry,
          client[c].todo, client[c].acks) /\ writes' = writes
  BY <1>1, ShipEffects DEF ShipSend, callVars
<1>5. ASSUME NEW d \in Clients, client'[d].own.index = 1, Ahead(d, f)'
      PROVE  FALSE
  <2>1. CASE d = c
    <3>1. f \notin Range(Tail(client[c].todo))
      BY <1>1, TailOnce
    <3> QED BY <1>4, <1>5, <2>1, <3>1 DEF Ahead, Now
  <2>2. CASE d # c
    <3>1. client'[d] = client[d]
      BY <1>4, <2>2 DEF Now
    <3>2. client[d].pc # "idle" /\ client[d].own.index = 1
      BY <1>5, <3>1 DEF Ahead
    <3>3. client[d].own = log[1] /\ client[c].own = log[1] /\ client[c].pc # "idle"
      BY <1>1, <1>2, <3>2 DEF ClientsNumbered, Good
    <3> QED BY <2>2, <3>2, <3>3 DEF ClientsNumbered
  <2> QED BY <2>1, <2>2
<1> QED BY <1>2, <1>3, <1>4, <1>5 DEF FirstSent

\* The first entry reaches a follower once, and what the follower stores grows.
LEMMA FirstStep ==
    ASSUME TypeInv, TodoOnce, LogNumbered, ClientsNumbered, EntriesNumbered, [Next]_vars,
           ~LeaderRestart, tears' = tears, NEW f \in Followers, FirstOnce(f)
    PROVE  FirstOnce(f)' /\ \A k \in Keys : store[f][k] <= store'[f][k]
<1>0. /\ store[f] \in [Keys -> Nat] /\ flastApplied[f] \in Nat /\ f \in Nodes
      /\ \A k \in Keys : store[f][k] \in Nat
  BY DEF TypeInv, Types, Nodes
<1>1. First(f) \/ Holds(f) => FirstSent(f)
  BY DEF FirstOnce
<1>2. flastApplied[f] > 0 => First(f)
  BY DEF FirstOnce, First, At
<1>3. First(f)' => \/ First(f)
                   \/ \E c \in Clients : SendsTo(c, f) /\ client[c].entry.index = 1
  BY AtStep DEF First
<1>4. First(f)' => FirstSent(f)' /\ (First(f) \/ ~Holds(f))
  <2>1. CASE First(f)
    BY <1>1, <2>1, FirstSentKept
  <2>2. ASSUME NEW c \in Clients, SendsTo(c, f), client[c].entry.index = 1
        PROVE  FirstSent(f)' /\ ~Holds(f)
    <3>1. client[c].own.index = 1 /\ Ahead(c, f) /\ FirstSent(f)'
      BY <2>2, SendsFirst
    <3>2. ~FirstSent(f)
      BY <3>1 DEF FirstSent
    <3> QED BY <1>1, <3>1, <3>2
  <2> QED BY <1>3, <2>1, <2>2
<1>5. CASE store'[f] = store[f] /\ flastApplied'[f] = flastApplied[f] /\ ~FollowerRestart(f)
  <2>0. Holds(f)' <=> Holds(f)
    BY <1>5 DEF Holds
  <2>1. First(f)' \/ Holds(f)' => FirstSent(f)'
    BY <1>1, <1>4, <2>0, FirstSentKept
  <2>2. flastApplied'[f] = 0 /\ Holds(f)' => ~First(f)'
    BY <1>4, <1>5, <2>0 DEF FirstOnce
  <2>3. flastApplied'[f] > 0 =>
           /\ \A k \in Keys : store'[f][k] <= flastApplied'[f]
           /\ \E e \in Entries : Logged(f, e)' /\ e.index = 1
    BY <1>5, LoggedStep DEF FirstOnce
  <2> QED BY <1>0, <1>5, <2>1, <2>2, <2>3 DEF FirstOnce
<1>6. CASE FollowerRestart(f)
  <2>1. /\ flog'[f] = <<>> /\ conns'[f] = <<>> /\ flastApplied'[f] = 0 /\ store'[f] = store[f]
    BY <1>6 DEF FollowerRestart, TypeInv, Types
  <2>2. ~First(f)'
    BY <2>1 DEF First, At, Logged, InFlight
  <2>3. Holds(f)' => FirstSent(f)'
    BY <1>1, <2>1, FirstSentKept DEF Holds
  <2> QED BY <1>0, <2>1, <2>2, <2>3 DEF FirstOnce
<1>7. CASE FollowerCall(f)
  <2>1. PICK n \in DOMAIN flog[f] :
            /\ flog[f][n].index = flastApplied[f] + 1
            /\ Written(f, flog[f][n]) \/ store' = store
    BY <1>7, CallFollower
  <2>2. /\ flastApplied'[f] = flastApplied[f] + 1 /\ flog' = flog
    BY <1>7, CallFollower DEF FollowerCall
  <2>3. flog[f][n] \in Entries /\ Logged(f, flog[f][n]) /\ At(f, flog[f][n])
    BY <2>1 DEF TypeInv, Types, Logged, At
  <2>4. flog[f][n].val = flastApplied[f] + 1
    BY <2>1, <2>3 DEF EntriesNumbered, Good, LogNumbered
  <2>5. First(f) /\ \E e \in Entries : Logged(f, e) /\ e.index = 1
    <3>1. CASE flastApplied[f] = 0
      BY <2>1, <2>3, <3>1 DEF First
    <3>2. CASE flastApplied[f] > 0
      BY <1>2, <3>2 DEF FirstOnce
    <3> QED BY <1>0, <3>1, <3>2
  <2>6. \A k \in Keys : store[f][k] <= flastApplied[f]
    <3>1. flastApplied[f] = 0 => \A k \in Keys : store[f][k] = 0
      BY <1>0, <2>5 DEF FirstOnce, Holds
    <3> QED BY <1>0, <3>1 DEF FirstOnce
  <2>7. FirstSent(f)'
    BY <1>1, <2>5, FirstSentKept
  <2>8. \E e \in Entries : Logged(f, e)' /\ e.index = 1
    BY <2>2, <2>5 DEF Logged
  <2>9. ASSUME NEW k \in Keys
        PROVE  store'[f][k] <= flastApplied'[f] /\ store[f][k] <= store'[f][k]
    <3>1. store'[f][k] = flastApplied[f] + 1 \/ store'[f][k] = store[f][k]
      BY <2>1, <2>4 DEF Written
    <3> QED BY <1>0, <2>2, <2>6, <3>1
  <2> QED BY <1>0, <2>2, <2>7, <2>8, <2>9 DEF FirstOnce
<1> QED BY <1>5, <1>6, <1>7, StoreKept

\* What was lost, reread or left out stays counted.
LEMMA CountsGrow ==
    ASSUME TypeInv, [Next]_vars
    PROVE  tears' >= tears /\ failures' >= failures
<1>0. Types /\ tears \in Nat /\ failures \in Nat
  BY DEF TypeInv, Types
<1>1. ASSUME NEW c \in Clients, AppendLog(c) \/ Replicate(c)
      PROVE  tears' >= tears /\ failures' >= failures
  <2>1. CASE ReadBack(c)
    <3>1. log # <<>>
      BY <2>1 DEF TypeInv, Bounded, ClientBounds, ReadBack
    <3>2. PICK e \in Entries : HasRead(c, e)
      BY <1>0, <2>1, <3>1, CallEffects
    <3> QED BY <1>0, <2>1, <3>2 DEF HasRead, ReadBack
  <2>2. CASE Execute(c)
    <3>1. client[c].own \in Entries /\ "leader" \in Nodes
      BY <1>0, ClientFields DEF Nodes
    <3> QED BY <1>0, <2>2, <3>1, ApplyEffect DEF Execute
  <2>3. CASE ~ReadBack(c) /\ ~Execute(c)
    <3>1. UNCHANGED <<tears, failures>>
      BY <1>1, <2>3 DEF AppendLog, Replicate, Commit, ReadCommit, ShipLock, ShipSkip, ShipSend,
         ShipFail, ShipAck, ShipNoAck, ShipDone, faultVars
    <3> QED BY <1>0, <3>1
  <2> QED BY <2>1, <2>2, <2>3
<1>2. CASE ApplyCall
  <2>1. log[lastApplied + 1] \in Entries /\ applier.stale \in BOOLEAN /\ "leader" \in Nodes
    BY <1>2 DEF TypeInv, Types, Bounded, LeaderBounds, ApplyCall, Applier, Nodes
  <2> QED BY <1>0, <1>2, <2>1, ApplyEffect DEF ApplyCall
<1>3. ASSUME NEW f \in Followers, FollowerCall(f)
      PROVE  tears' >= tears /\ failures' >= failures
  BY <1>3, CallFollower
<1>4. ASSUME \/ ApplyTest \/ LeaderRestart \/ UNCHANGED vars
             \/ \E f \in Followers : \/ ConnectToPeer(f) \/ Listener(f) \/ FollowerTest(f)
                                     \/ Reset(f) \/ FollowerRestart(f)
      PROVE  tears' >= tears /\ failures' >= failures
  <2>1. UNCHANGED <<tears, failures>>
    BY <1>4 DEF ApplyTest, LeaderRestart, vars, ConnectToPeer, Listener, HandleReplication,
       AcceptNext, FollowerTest, Reset, FollowerRestart, faultVars
  <2> QED BY <1>0, <2>1
<1> QED BY <1>1, <1>2, <1>3, <1>4 DEF Next, Apply, FollowerApply

\* Every step keeps the numbers.
LEMMA NumberStep ==
    ASSUME TypeInv, NumberInv, [Next]_vars
    PROVE  /\ NumberInv'
           /\ restarts = 0 /\ tears' = 0 =>
                  \A f \in Followers, k \in Keys : store[f][k] <= store'[f][k]
<1>0. TodoOnce' /\ (tears' = 0 => tears = 0)
  BY TodoStep, CountsGrow DEF NumberInv, TypeInv, Types
<1>1. CASE LeaderRestart
  <2>1. restarts' # 0 /\ store' = store
    BY <1>1 DEF LeaderRestart, TypeInv, Types
  <2>2. \A f \in Followers, k \in Keys : store[f][k] \in Nat
    BY DEF TypeInv, Types, Nodes
  <2> QED BY <1>0, <2>1, <2>2 DEF NumberInv, Numbered
<1>2. CASE ~LeaderRestart
  <2>1. restarts' = restarts
    BY <1>2, LogKept, AppendLogEffect
  <2>2. ASSUME restarts = 0, tears' = 0
        PROVE  /\ LogNumbered' /\ ClientsNumbered' /\ EntriesNumbered'
               /\ \A f \in Followers : /\ FirstOnce(f)'
                                       /\ \A k \in Keys : store[f][k] <= store'[f][k]
    <3>1. /\ TodoOnce /\ LogNumbered /\ ClientsNumbered /\ EntriesNumbered
          /\ \A f \in Followers : FirstOnce(f)
          /\ tears' = tears
      BY <1>0, <2>2 DEF NumberInv, Numbered
    <3> QED BY <1>2, <3>1, LeaderNumbered, EntriesStep, FirstStep
  <2> QED BY <1>0, <2>1, <2>2 DEF NumberInv, Numbered
<1> QED BY <1>1, <1>2

\* At first nothing is written or sent.
LEMMA NumberInit ==
    ASSUME Init
    PROVE  NumberInv
<1>1. TodoOnce
  BY DEF Init, TodoOnce, Idle, IsInjective
<1>2. LogNumbered /\ ClientsNumbered
  BY DEF Init, LogNumbered, ClientsNumbered, HasEntry, Idle
<1>3. \A f \in Followers : \A e : ~At(f, e)
  BY DEF Init, At, Logged, InFlight
<1>4. EntriesNumbered /\ \A f \in Followers : FirstOnce(f)
  BY <1>3 DEF EntriesNumbered, FirstOnce, First, Holds, Init, Nodes
<1> QED BY <1>1, <1>2, <1>4 DEF NumberInv, Numbered

\* A follower's applyLoop stores later and later writes under every key and none
\* twice, for any number of clients, followers, keys and faults, although two
\* clients may ship the same entry, engines may fail and a follower may be
\* restarted, until the leader is restarted or something else is read from log_.
THEOREM MonotoneCorrect == Spec => FollowerMonotone
<1>1. Init => TypeInv /\ NumberInv
  BY TypeInit, NumberInit
<1>2. TypeInv /\ NumberInv /\ [Next]_vars => TypeInv' /\ NumberInv'
  BY TypeStep, NumberStep
<1>3. TypeInv /\ NumberInv /\ [Next]_vars =>
          [restarts = 0 /\ tears' = 0 =>
               \A f \in Followers, k \in Keys : store[f][k] <= store'[f][k]]_vars
  BY NumberStep
<1> QED BY <1>1, <1>2, <1>3, PTL DEF Spec, FollowerMonotone

-----------------------------------------------------------------------------
(* Agreement: what a follower stores is the last of the entries it has       *)
(* applied, and what the leader stores, while clients take turns, is the     *)
(* last of its log once its apply thread has come to it.                     *)

\* v is the last of the first n entries that are for key k, or 0.
IsLast(k, n, v) ==
    \/ v = 0 /\ \A i \in 1..n : log[i].key # k
    \/ /\ v \in 1..n /\ log[v].key = k
       /\ \A i \in (v + 1)..n : log[i].key # k

\* A follower has what the part of the log that it has applied leaves behind.
CaughtUp(f) ==
    flastApplied[f] > 0 =>
        /\ flastApplied[f] <= Len(log)
        /\ \A k \in Keys : IsLast(k, flastApplied[f], store[f][k])

\* The call under way is that of the last entry.
OwnLast == \A c \in Clients : client[c].pc # "idle" => client[c].own = log[Len(log)]

\* The leader may have gone back to an earlier write of a key, but not once its
\* apply thread has passed the last one.
LeaderLast ==
    \A k \in Keys, v \in Nat :
        IsLast(k, Len(log), v) /\ v <= lastApplied => store["leader"][k] = v

AgreeInv ==
    /\ ~overlapped => OwnLast
    /\ restarts = 0 /\ tears = 0 /\ failures = 0 =>
           /\ \A f \in Followers : CaughtUp(f)
           /\ ~overlapped => LeaderLast

\* What the last stages rest on.
Base == TypeInv /\ NumberInv

\* The same of a longer log.
LEMMA LastOfMore ==
    ASSUME NEW k, NEW n \in Nat, NEW v, IsLast(k, n, v),
           \A i \in 1..n : log'[i] = log[i]
    PROVE  IsLast(k, n, v)'
<1>1. CASE v = 0 /\ \A i \in 1..n : log[i].key # k
  BY <1>1 DEF IsLast
<1>2. CASE /\ v \in 1..n /\ log[v].key = k
           /\ \A i \in (v + 1)..n : log[i].key # k
  <2>1. \A i \in (v + 1)..n : i \in 1..n
    BY <1>2
  <2> QED BY <1>2, <2>1 DEF IsLast
<1> QED BY <1>1, <1>2 DEF IsLast

\* One entry further: it is the last of its key, and the others are as they were.
LEMMA LastOfNext ==
    ASSUME NEW k, NEW n \in Nat, NEW v \in Nat, NEW w \in Nat, IsLast(k, n, v),
           w = IF log[n + 1].key = k THEN n + 1 ELSE v
    PROVE  IsLast(k, n + 1, w)
<1>1. \A i \in 1..(n + 1) : i \in 1..n \/ i = n + 1
  OBVIOUS
<1>2. CASE log[n + 1].key = k
  <2>1. w = n + 1 /\ w \in 1..(n + 1) /\ (w + 1)..(n + 1) = {}
    BY <1>2
  <2> QED BY <1>2, <2>1 DEF IsLast
<1>3. CASE log[n + 1].key # k /\ v = 0 /\ \A i \in 1..n : log[i].key # k
  BY <1>1, <1>3 DEF IsLast
<1>4. CASE log[n + 1].key # k /\ v \in 1..n /\ log[v].key = k
           /\ \A i \in (v + 1)..n : log[i].key # k
  <2>1. w = v /\ v \in 1..(n + 1)
    BY <1>4
  <2>2. \A i \in (v + 1)..(n + 1) : i \in (v + 1)..n \/ i = n + 1
    BY <1>4
  <2> QED BY <1>4, <2>1, <2>2 DEF IsLast
<1> QED BY <1>2, <1>3, <1>4 DEF IsLast

\* Two clients that have written at the same time stay noted.
LEMMA OverlappedStays ==
    ASSUME [Next]_vars, ~overlapped'
    PROVE  ~overlapped
<1>1. ASSUME NEW c \in Clients, AppendLog(c) \/ Replicate(c)
      PROVE  ~overlapped
  BY <1>1 DEF AppendLog, Replicate, Commit, ReadCommit, ReadBack, ShipLock, Execute,
     ShipSkip, ShipSend, ShipFail, ShipAck, ShipNoAck, ShipDone, callVars
<1>2. ASSUME Apply \/ LeaderRestart
      PROVE  ~overlapped
  BY <1>2 DEF Apply, ApplyTest, ApplyCall, LeaderRestart, callVars
<1>3. ASSUME NEW f \in Followers,
             ConnectToPeer(f) \/ Listener(f) \/ FollowerApply(f) \/ Reset(f) \/ FollowerRestart(f)
      PROVE  ~overlapped
  BY <1>3 DEF ConnectToPeer, Listener, FollowerApply, FollowerTest, FollowerCall, AcceptNext,
     HandleReplication, Reset, FollowerRestart, callVars
<1>4. CASE UNCHANGED vars
  BY <1>4 DEF vars, callVars
<1> QED BY <1>1, <1>2, <1>3, <1>4 DEF Next

\* The call under way is that of the last entry of the log.
LEMMA OwnStep ==
    ASSUME TypeInv, TodoOnce, [Next]_vars, ~overlapped', ~overlapped => OwnLast
    PROVE  OwnLast'
<1>1. ASSUME NEW c \in Clients, AppendLog(c)
      PROVE  OwnLast'
  <2>1. /\ \A d \in Clients : d # c => client'[d] = client[d]
        /\ client'[c].own = log'[Len(log) + 1] /\ Len(log') = Len(log) + 1
    BY <1>1, AppendLogEffect DEF Now
  <2>2. \A d \in Clients : client[d].pc = "idle"
    BY <1>1 DEF AppendLog
  <2> QED BY <2>1, <2>2 DEF OwnLast
<1>2. CASE LeaderRestart
  BY <1>2 DEF LeaderRestart, OwnLast, Idle
<1>3. CASE ~LeaderRestart /\ \A c \in Clients : ~AppendLog(c)
  <2>1. UNCHANGED log /\ \A c \in Clients : Onward(c)
    BY <1>3, AllOnward
  <2>2. OwnLast
    BY OverlappedStays
  <2> QED BY <2>1, <2>2 DEF OwnLast, Onward
<1> QED BY <1>1, <1>2, <1>3

\* A follower stores the entry that it counts as applied.
LEMMA CaughtUpStep ==
    ASSUME Base, [Next]_vars, ~LeaderRestart, restarts = 0, tears = 0, failures = 0,
           tears' = 0, failures' = 0, NEW f \in Followers, CaughtUp(f)
    PROVE  CaughtUp(f)'
<1>0. /\ TypeInv /\ LogNumbered /\ EntriesNumbered /\ FirstOnce(f)
      /\ flastApplied[f] \in Nat /\ Len(log) \in Nat /\ log \in Seq(Entries)
      /\ DOMAIN log = 1..Len(log)
      /\ \A k \in Keys : store[f][k] \in Nat
  BY DEF Base, NumberInv, Numbered, TypeInv, Types, Nodes
<1>1. /\ Len(log') \in Nat /\ Len(log') >= Len(log)
      /\ \A i \in 1..Len(log) : log'[i] = log[i]
  BY <1>0, LogKept, AppendLogEffect
<1>2. CASE store'[f] = store[f] /\ flastApplied'[f] = flastApplied[f]
  <2> SUFFICES ASSUME flastApplied[f] > 0
               PROVE  /\ flastApplied[f] <= Len(log')
                      /\ \A k \in Keys : IsLast(k, flastApplied[f], store[f][k])'
    BY <1>2 DEF CaughtUp
  <2>1. flastApplied[f] <= Len(log)
        /\ \A k \in Keys : IsLast(k, flastApplied[f], store[f][k])
    BY DEF CaughtUp
  <2>2. \A i \in 1..flastApplied[f] : log'[i] = log[i]
    BY <1>0, <1>1, <2>1
  <2>3. ASSUME NEW k \in Keys
        PROVE  IsLast(k, flastApplied[f], store[f][k])'
    <3> DEFINE n == flastApplied[f]
               v == store[f][k]
    <3>1. n \in Nat /\ IsLast(k, n, v) /\ \A i \in 1..n : log'[i] = log[i]
      BY <1>0, <2>1, <2>2
    <3>2. n' = n /\ v' = v
      BY <1>2
    <3> HIDE DEF n, v
    <3>3. PICK m \in Nat : m = n
      BY <3>1
    <3>4. PICK w : w = v
      OBVIOUS
    <3>5. IsLast(k, m, w)'
      BY <3>1, <3>3, <3>4, LastOfMore
    <3> QED BY <3>2, <3>3, <3>4, <3>5 DEF n, v
  <2> QED BY <1>0, <1>1, <1>2, <2>1, <2>3
<1>3. CASE FollowerRestart(f)
  <2>1. flastApplied'[f] = 0
    BY <1>0, <1>3 DEF FollowerRestart, TypeInv, Types
  <2> QED BY <2>1 DEF CaughtUp
<1>4. CASE FollowerCall(f)
  <2> DEFINE n == flastApplied[f]
  <2>1. PICK j \in DOMAIN flog[f] : flog[f][j].index = n + 1 /\ Written(f, flog[f][j])
    BY <1>0, <1>4, CallFollower
  <2>2. flastApplied'[f] = n + 1 /\ UNCHANGED log
    BY <1>0, <1>4, CallFollower DEF FollowerCall, leaderVars
  <2>3. flog[f][j] \in Entries /\ At(f, flog[f][j])
    BY <1>0, <2>1 DEF TypeInv, Types, Logged, At
  <2>4. n + 1 \in 1..Len(log) /\ flog[f][j] = log[n + 1] /\ log[n + 1].val = n + 1
    BY <1>0, <2>1, <2>3 DEF EntriesNumbered, Good, LogNumbered
  <2>5. \A k \in Keys : IsLast(k, n, store[f][k])
    <3>1. CASE n = 0
      <4>1. First(f)
        BY <2>1, <2>3, <3>1 DEF First
      <4>2. \A k \in Keys : store[f][k] = 0
        BY <1>0, <3>1, <4>1 DEF FirstOnce, Holds
      <4> QED BY <3>1, <4>2 DEF IsLast
    <3>2. CASE n > 0
      BY <3>2 DEF CaughtUp
    <3> QED BY <1>0, <3>1, <3>2
  <2>6. ASSUME NEW k \in Keys
        PROVE  IsLast(k, n + 1, store'[f][k])
    <3> DEFINE v == store[f][k]
               w == store'[f][k]
    <3>1. w = IF log[n + 1].key = k THEN n + 1 ELSE v
      BY <2>1, <2>4 DEF Written
    <3>2. v \in Nat /\ n \in Nat /\ IsLast(k, n, v)
      BY <1>0, <2>5
    <3> HIDE DEF v, w, n
    <3>3. w \in Nat
      BY <3>1, <3>2
    <3>4. IsLast(k, n + 1, w)
      BY <3>1, <3>2, <3>3, LastOfNext
    <3> QED BY <3>4 DEF w
  <2>7. \A k \in Keys : IsLast(k, flastApplied[f], store[f][k])'
    BY <2>2, <2>4, <2>6 DEF IsLast
  <2> QED BY <1>0, <2>2, <2>4, <2>7 DEF CaughtUp
<1> QED BY <1>0, <1>2, <1>3, <1>4, StoreKept

\* The steps that leave the leader's engine alone.
LEMMA LeaderStoreKept ==
    ASSUME TypeInv, [Next]_vars, ~ApplyCall, \A c \in Clients : ~Execute(c)
    PROVE  store'["leader"] = store["leader"] /\ (lastApplied' = lastApplied \/ LeaderRestart)
<1>0. "leader" \notin Followers /\ "leader" \in Nodes
  BY ReplicationAssumption DEF Nodes
<1>1. ASSUME NEW c \in Clients, AppendLog(c) \/ Replicate(c)
      PROVE  UNCHANGED <<store, lastApplied>>
  BY <1>1 DEF AppendLog, Replicate, Commit, ReadCommit, ReadBack, ShipLock, ShipSkip,
     ShipSend, ShipFail, ShipAck, ShipNoAck, ShipDone, leaderVars
<1>2. ASSUME NEW f \in Followers, FollowerCall(f)
      PROVE  store'["leader"] = store["leader"] /\ lastApplied' = lastApplied
  <2>1. "leader" # f
    BY <1>0
  <2>2. \A x \in Nodes : x # f => store'[x] = store[x]
    BY <1>2, CallFollower
  <2> QED BY <1>0, <1>2, <2>1, <2>2 DEF FollowerCall, leaderVars
<1>3. ASSUME \/ ApplyTest \/ UNCHANGED vars
             \/ \E f \in Followers : \/ ConnectToPeer(f) \/ Listener(f) \/ FollowerTest(f)
                                     \/ Reset(f) \/ FollowerRestart(f)
      PROVE  UNCHANGED <<store, lastApplied>>
  BY <1>3 DEF ApplyTest, vars, ConnectToPeer, Listener, HandleReplication, AcceptNext,
     FollowerTest, Reset, FollowerRestart, leaderVars
<1>4. CASE LeaderRestart
  BY <1>4 DEF LeaderRestart
<1> QED BY <1>1, <1>2, <1>3, <1>4 DEF Next, Apply, FollowerApply

\* The leader's last write of a key is stored, by its client or by its apply thread.
LEMMA LeaderLastStep ==
    ASSUME Base, [Next]_vars, ~LeaderRestart, restarts = 0, tears = 0, failures = 0,
           tears' = 0, failures' = 0, OwnLast, LeaderLast
    PROVE  LeaderLast'
<1>0. /\ TypeInv /\ Types /\ LogNumbered
      /\ commit \in Nat /\ lastApplied \in Nat /\ log \in Seq(Entries) /\ applier \in Applier
      /\ lastApplied <= commit /\ commit <= Len(log) /\ Len(log) \in Nat
      /\ (applier.pc = "call" => lastApplied < commit)
      /\ DOMAIN log = 1..Len(log) /\ "leader" \in Nodes
  BY DEF Base, NumberInv, Numbered, TypeInv, Types, Bounded, LeaderBounds, Nodes
<1>1. ASSUME NEW c \in Clients, AppendLog(c)
      PROVE  LeaderLast'
  <2>1. /\ Len(log') = Len(log) + 1 /\ UNCHANGED <<store, lastApplied>>
        /\ \A i \in 1..Len(log) : log'[i] = log[i]
    BY <1>0, <1>1, AppendLogEffect
  <2> SUFFICES ASSUME NEW k \in Keys, NEW v \in Nat, IsLast(k, Len(log), v)',
                      v <= lastApplied
               PROVE  store["leader"][k] = v
    BY <2>1 DEF LeaderLast
  <2>2. Len(log) + 1 \in (v + 1)..(Len(log) + 1) /\ Len(log) + 1 \in 1..(Len(log) + 1)
    BY <1>0
  <2>3. IsLast(k, Len(log), v)
    <3>1. CASE v = 0 /\ \A i \in 1..(Len(log) + 1) : log'[i].key # k
      BY <1>0, <2>1, <3>1 DEF IsLast
    <3>2. CASE /\ v \in 1..(Len(log) + 1) /\ log'[v].key = k
               /\ \A i \in (v + 1)..(Len(log) + 1) : log'[i].key # k
      <4>1. v \in 1..Len(log) /\ \A i \in (v + 1)..Len(log) : i \in 1..Len(log)
        BY <1>0, <3>2
      <4>2. \A i \in (v + 1)..Len(log) : i \in (v + 1)..(Len(log) + 1)
        BY <1>0
      <4> QED BY <2>1, <3>2, <4>1, <4>2 DEF IsLast
    <3> QED BY <2>1, <3>1, <3>2 DEF IsLast
  <2> QED BY <2>3 DEF LeaderLast
<1>2. ASSUME NEW c \in Clients, Execute(c)
      PROVE  LeaderLast'
  <2>0. Len(log) \in Nat
    BY <1>0
  <2>1. client[c].own \in Entries /\ client[c].own = log[Len(log)] /\ log # <<>>
    BY <1>0, <1>2, ClientFields DEF Execute, OwnLast, TypeInv, Bounded, ClientBounds
  <2>2. Written("leader", client[c].own)
    <3>1. ApplyLogEntry("leader", FALSE, client[c].own)
      BY <1>2 DEF Execute
    <3>2. /\ \/ Written("leader", client[c].own)
             \/ store' = store /\ failures' > failures
             \/ tears' > tears
      BY <1>0, <2>1, <3>1, ApplyEffect
    <3> QED BY <3>2
  <2>3. UNCHANGED <<log, lastApplied>>
    BY <1>2 DEF Execute, leaderVars
  <2>4. Len(log) \in 1..Len(log) /\ log[Len(log)].val = Len(log)
    BY <1>0, <2>1 DEF LogNumbered
  <2> SUFFICES ASSUME NEW k \in Keys, NEW v \in Nat, IsLast(k, Len(log), v), v <= lastApplied
               PROVE  store'["leader"][k] = v
    BY <2>3 DEF LeaderLast, IsLast
  <2>5. CASE log[Len(log)].key = k
    <3>1. v = Len(log)
      <4>1. CASE v = 0 /\ \A i \in 1..Len(log) : log[i].key # k
        BY <2>4, <2>5, <4>1
      <4>2. CASE v \in 1..Len(log) /\ \A i \in (v + 1)..Len(log) : log[i].key # k
        <5>1. Len(log) \notin (v + 1)..Len(log)
          BY <2>5, <4>2
        <5>2. \A m \in Nat : v \in 1..m /\ m \notin (v + 1)..m => v = m
          OBVIOUS
        <5> QED BY <2>4, <4>2, <5>1, <5>2, <2>0
      <4> QED BY <4>1, <4>2 DEF IsLast
    <3> QED BY <2>1, <2>2, <2>4, <2>5, <3>1 DEF Written
  <2>6. CASE log[Len(log)].key # k
    <3>1. store["leader"][k] = v
      BY DEF LeaderLast
    <3> QED BY <2>1, <2>2, <2>6, <3>1 DEF Written
  <2> QED BY <2>5, <2>6
<1>3. CASE ApplyCall
  <2> DEFINE n == lastApplied + 1
  <2>1. /\ lastApplied < commit /\ lastApplied' = n /\ log' = log
        /\ n \in 1..Len(log) /\ log[n] \in Entries /\ applier.stale \in BOOLEAN
    BY <1>0, <1>3 DEF ApplyCall, Applier
  <2>2. log[n].val = n
    BY <1>0, <2>1 DEF LogNumbered
  <2>3. Written("leader", log[n])
    BY <1>0, <1>3, <2>1, ApplyEffect DEF ApplyCall
  <2> SUFFICES ASSUME NEW k \in Keys, NEW v \in Nat, IsLast(k, Len(log), v), v <= n
               PROVE  store'["leader"][k] = v
    BY <2>1 DEF LeaderLast, IsLast
  <2>4. CASE log[n].key = k
    <3>1. v = n
      BY <1>0, <2>1, <2>4 DEF IsLast
    <3> QED BY <2>2, <2>3, <2>4, <3>1 DEF Written
  <2>5. CASE log[n].key # k
    <3>1. v # n
      BY <1>0, <2>1, <2>5 DEF IsLast
    <3>2. store["leader"][k] = v
      BY <1>0, <3>1 DEF LeaderLast
    <3> QED BY <2>3, <2>5, <3>2 DEF Written
  <2> QED BY <2>4, <2>5
<1>4. CASE /\ ~ApplyCall /\ \A c \in Clients : ~AppendLog(c) /\ ~Execute(c)
  <2>1. store'["leader"] = store["leader"] /\ lastApplied' = lastApplied /\ log' = log
    BY <1>0, <1>4, LeaderStoreKept, LogKept
  <2> QED BY <2>1 DEF LeaderLast, IsLast
<1> QED BY <1>1, <1>2, <1>3, <1>4

\* Every step keeps the stores what the log says.
LEMMA AgreeStep ==
    ASSUME Base, AgreeInv, [Next]_vars
    PROVE  AgreeInv'
<1>0. TypeInv /\ TodoOnce
  BY DEF Base, NumberInv
<1>1. ~overlapped' => OwnLast'
  BY <1>0, OwnStep DEF AgreeInv
<1>2. CASE LeaderRestart
  <2>1. restarts' # 0
    BY <1>0, <1>2 DEF LeaderRestart, TypeInv, Types
  <2> QED BY <1>1, <2>1 DEF AgreeInv
<1>3. CASE ~LeaderRestart
  <2> SUFFICES ASSUME restarts' = 0, tears' = 0, failures' = 0
               PROVE  (\A f \in Followers : CaughtUp(f)') /\ (~overlapped' => LeaderLast')
    BY <1>1 DEF AgreeInv
  <2>1. restarts = 0 /\ tears = 0 /\ failures = 0
    <3>1. restarts' = restarts
      BY <1>0, <1>3, LogKept, AppendLogEffect
    <3>2. tears' >= tears /\ failures' >= failures /\ tears \in Nat /\ failures \in Nat
      BY <1>0, CountsGrow DEF TypeInv, Types
    <3> QED BY <3>1, <3>2
  <2>2. \A f \in Followers : CaughtUp(f)'
    BY <1>3, <2>1, CaughtUpStep DEF AgreeInv
  <2>3. ~overlapped' => LeaderLast'
    BY <1>3, <2>1, OverlappedStays, LeaderLastStep DEF AgreeInv
  <2> QED BY <2>2, <2>3
<1> QED BY <1>2, <1>3

\* At first nothing is stored.
LEMMA AgreeInit ==
    ASSUME Init
    PROVE  AgreeInv
<1>1. OwnLast /\ \A f \in Followers : CaughtUp(f)
  BY DEF Init, OwnLast, CaughtUp, Idle
<1>2. LeaderLast
  <2> SUFFICES ASSUME NEW k \in Keys, NEW v \in Nat, v <= lastApplied
               PROVE  store["leader"][k] = v
    BY DEF LeaderLast
  <2> QED BY DEF Init
<1> QED BY <1>1, <1>2 DEF AgreeInv

\* Both have the last entry of each key.
LEMMA BothLast ==
    ASSUME TypeInv, AgreeInv
    PROVE  AgreeWhenCaughtUp
<1> SUFFICES ASSUME ~overlapped, restarts = 0, tears = 0, failures = 0,
                    lastApplied = Len(log), log # <<>>,
                    NEW f \in Followers, flastApplied[f] = Len(log)
             PROVE  store[f] = store["leader"]
  BY DEF AgreeWhenCaughtUp, LeaderQuiet
<1>1. /\ store[f] \in [Keys -> Nat] /\ store["leader"] \in [Keys -> Nat]
      /\ log \in Seq(Entries)
  BY DEF TypeInv, Types, Nodes
<1>2. Len(log) \in Nat /\ Len(log) > 0
  BY <1>1
<1>3. CaughtUp(f) /\ LeaderLast
  BY DEF AgreeInv
<1>4. ASSUME NEW k \in Keys
      PROVE  store[f][k] = store["leader"][k]
  <2> DEFINE v == store[f][k]
  <2>1. v \in Nat /\ IsLast(k, Len(log), v)
    BY <1>1, <1>2, <1>3 DEF CaughtUp
  <2> HIDE DEF v
  <2>2. v <= lastApplied
    BY <1>2, <2>1 DEF IsLast
  <2> QED BY <1>3, <2>1, <2>2 DEF LeaderLast, v
<1> QED BY <1>1, <1>4

\* A follower whose applyLoop has applied the whole of the leader's log has the
\* leader's data, under every key, once no call is under way, for any number of
\* clients, followers, keys, writes, broken connections and restarts of followers,
\* as long as clients take turns, the leader is not restarted, no engine fails and
\* log_ is not reallocated under a read of it.
THEOREM AgreeCorrect == Spec => []AgreeWhenCaughtUp
<1>1. Init => Base /\ AgreeInv
  BY TypeInit, NumberInit, AgreeInit DEF Base
<1>2. Base /\ AgreeInv /\ [Next]_vars => Base' /\ AgreeInv'
  BY TypeStep, NumberStep, AgreeStep DEF Base
<1>3. Base /\ AgreeInv => AgreeWhenCaughtUp
  BY BothLast DEF Base
<1> QED BY <1>1, <1>2, <1>3, PTL DEF Spec
=============================================================================
