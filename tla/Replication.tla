----------------------------- MODULE Replication -----------------------------
(***************************************************************************)
(* Leader-follower replication (distributed/replication: leader.cpp,       *)
(* log_shipper.cpp, follower.cpp) as the server uses it (executeCommand    *)
(* and applyLogEntry in server/src/tcp_server.cpp): the leader's client    *)
(* threads, its retry and apply threads, each follower's listener and      *)
(* apply threads, the TCP connections between them, timeouts, broken       *)
(* connections and restarts of either side.                                *)
(*                                                                         *)
(* Write number n stores n under its key (a delete is one more value).     *)
(* The engine of a node is the last value stored under each key, and is    *)
(* taken to survive a restart; the replication log is only in memory.      *)
(*                                                                         *)
(* log_ is read through references that outlive log_mutex_, and by a       *)
(* client's thread without it.  What comes of a read while the vector is   *)
(* reallocated is undefined: any entry of Torn, or the end of the process, *)
(* which is a restart at that point.                                       *)
(***************************************************************************)
EXTENDS Integers, Sequences, SequencesExt

CONSTANTS
    Clients,        \* the leader's threads that run executeCommand
    Peers,          \* the followers, in the order of the configuration
    Keys,           \* the keys that are followed; "other" is any other key
    Torn,           \* what may be read while log_ is reallocated
    MaxWrites,      \* bound: writes
    MaxFaults       \* bound: late acknowledgements, broken connections,
                    \* restarts, failures of an engine and torn reads, together

Followers == Range(Peers)

\* LogEntry
Entries == [index : Nat, key : Keys \cup {"other"}, val : Nat]

ASSUME ReplicationAssumption ==
    /\ Peers \in Seq(Followers) /\ IsInjective(Peers)
    /\ "leader" \notin Followers /\ "other" \notin Keys /\ Torn \subseteq Entries
    /\ {MaxWrites, MaxFaults} \subseteq Nat

VARIABLES
    \* The leader
    log, commit, lastApplied,   \* log_, commit_index_, last_applied_
    applier,        \* its apply thread; stale: log_ was reallocated meanwhile
    client,         \* each client thread: its own write, its message, its acks
    peer,           \* peer[f]: peers_[f].connected
    \* The followers and their connections
    flog, fcommit, flastApplied, fapplier,
    conns,          \* conns[f]: the connections f accepts, one after another
    store,          \* the engine of each node: the value of each key
    \* Ghosts and bound counters
    received,       \* entries that reached a follower
    confirmed,      \* entries that replicate() returned TRUE for
    overlapped,     \* two clients have been writing at the same time
    writes, timeouts, resets, crashes, restarts, failures,
    tears           \* reads of log_ that did not yield the entry

leaderVars == <<log, commit, lastApplied, applier>>
followVars == <<flog, fcommit, flastApplied, fapplier>>
ghostVars  == <<received, confirmed>>
callVars   == <<writes, overlapped>>
faultVars  == <<timeouts, resets, crashes, restarts, failures, tears>>

vars == <<leaderVars, client, peer, followVars, conns, store, ghostVars, callVars,
          faultVars>>

Faults == timeouts + resets + crashes + restarts + failures + tears

NoEntry == [index |-> 0, key |-> "other", val |-> 0]
Idle == [pc |-> "idle", own |-> NoEntry, commit |-> 0, entry |-> NoEntry,
         todo |-> <<>>, acks |-> 0]
Asleep == [pc |-> "asleep", stale |-> FALSE]

Init ==
    /\ log = <<>> /\ commit = 0 /\ lastApplied = 0 /\ applier = Asleep
    /\ client = [c \in Clients |-> Idle]
    /\ peer = [f \in Followers |-> FALSE]
    /\ flog = [f \in Followers |-> <<>>]
    /\ fcommit = [f \in Followers |-> 0]
    /\ flastApplied = [f \in Followers |-> 0]
    /\ fapplier = [f \in Followers |-> Asleep]
    /\ conns = [f \in Followers |-> <<>>]
    /\ store = [n \in Followers \cup {"leader"} |-> [k \in Keys |-> 0]]
    /\ received = {} /\ confirmed = {}
    /\ overlapped = FALSE
    /\ writes = 0 /\ timeouts = 0 /\ resets = 0 /\ crashes = 0 /\ restarts = 0
    /\ failures = 0 /\ tears = 0

-----------------------------------------------------------------------------
(* A std::vector that grows by doubling moves its elements when it is full. *)
Reallocates(n) == n \in {0, 1, 2, 4, 8, 16}

\* push_back, seen by an apply thread that holds a reference into the vector.
AfterPush(thread, n) ==
    IF thread.pc = "call" /\ Reallocates(n) THEN [thread EXCEPT !.stale = TRUE]
                                            ELSE thread

\* A read of entry e yields what it should, or, if log_ is moving under it, may
\* yield anything else.
ReadThrough(moving, e, read) ==
    \/ read = e /\ UNCHANGED tears
    \/ /\ moving /\ Faults < MaxFaults
       /\ read \in Torn /\ tears' = tears + 1

\* apply_cv_.notify_one
NotifiedNone(thread) == thread      \* mutant: no notification
Notified(thread) ==
    IF thread.pc = "asleep" THEN [thread EXCEPT !.pc = "test"] ELSE thread

\* applyLogEntry, and executeCommand when it has replicated: put() or del() on
\* the node's engine.  An exception is caught, and put()'s result left unused.
Stored(n, e) == IF e.key \in Keys THEN [store EXCEPT ![n][e.key] = e.val] ELSE store

ApplyLogEntry(n, stale, e) ==
    \/ /\ \E read \in Torn \cup {e} :
              ReadThrough(stale, e, read) /\ store' = Stored(n, read)
       /\ UNCHANGED failures
    \/ /\ Faults < MaxFaults
       /\ failures' = failures + 1
       /\ UNCHANGED <<store, tears>>

-----------------------------------------------------------------------------
(* executeCommand and Leader::replicate in a client thread, which begins   *)
(* with appendLog.  Writes are numbered in the order of the log.           *)
AppendLog(c) ==
    /\ client[c].pc = "idle" /\ writes < MaxWrites
    /\ writes' = writes + 1
    /\ \E k \in Keys \cup {"other"} :
           LET e == [index |-> Len(log) + 1, key |-> k, val |-> writes + 1]
           IN  /\ log' = Append(log, e)
               /\ client' = [client EXCEPT ![c] = [Idle EXCEPT !.pc = "commit",
                                                               !.own = e]]
    /\ applier' = AfterPush(applier, Len(log))
    /\ overlapped' = (overlapped \/ \E d \in Clients : client[d].pc # "idle")
    /\ UNCHANGED <<commit, lastApplied, peer, followVars, conns, store, ghostVars,
                   faultVars>>

Commit(c) ==
    /\ client[c].pc = "commit"
    /\ commit' = Len(log)
    /\ client' = [client EXCEPT ![c].pc = "read"]
    /\ UNCHANGED <<log, lastApplied, applier, peer, followVars, conns, store,
                   ghostVars, callVars, faultVars>>

\* The message is put together without log_mutex_: first the commit index ...
ReadCommit(c) ==
    /\ client[c].pc = "read"
    /\ client' = [client EXCEPT ![c].pc = "build", ![c].commit = commit]
    /\ UNCHANGED <<leaderVars, peer, followVars, conns, store, ghostVars, callVars,
                   faultVars>>

\* ... then log_.back(), which may be another thread's entry by now, or be read
\* while a thread that has just appended was about it.
Appending(c) == \E d \in Clients \ {c} : client[d].pc = "commit"

ReadBack(c) ==
    /\ client[c].pc = "build"
    /\ \E read \in Torn \cup {Last(log)} :
           /\ ReadThrough(Appending(c), Last(log), read)
           /\ client' = [client EXCEPT ![c].pc = "lock", ![c].entry = read]
    /\ UNCHANGED <<leaderVars, peer, followVars, conns, store, ghostVars, callVars,
                   timeouts, resets, crashes, restarts, failures>>

-----------------------------------------------------------------------------
(* LogShipper: peers_mutex_ is held through the whole of shipEntries.  A   *)
(* connection is what the follower has still to read, whether the leader's *)
(* end is alive, and the acknowledgements the leader has still to read.    *)
PeersMutexFree == \A c \in Clients : client[c].pc \notin {"ship", "recv"}

NewConn == [msgs |-> <<>>, open |-> TRUE, acks |-> 0]

Alive(f) == conns[f] # <<>> /\ Last(conns[f]).open

ShipLock(c) ==
    /\ client[c].pc = "lock" /\ PeersMutexFree
    /\ client' = [client EXCEPT ![c].pc = "ship", ![c].todo = Peers]
    /\ UNCHANGED <<leaderVars, peer, followVars, conns, store, ghostVars, callVars,
                   faultVars>>

NextPeer(c) == [client[c] EXCEPT !.pc = "ship", !.todo = Tail(@)]

ShipSkipNever(c) == FALSE /\ UNCHANGED vars    \* mutant: wait for the peer
ShipSkip(c) ==
    /\ client[c].pc = "ship" /\ client[c].todo # <<>>
    /\ ~peer[Head(client[c].todo)]
    /\ client' = [client EXCEPT ![c] = NextPeer(c)]
    /\ UNCHANGED <<leaderVars, peer, followVars, conns, store, ghostVars, callVars,
                   faultVars>>

Message(c) == [commit |-> client[c].commit, entry |-> client[c].entry]

\* send: on a broken connection the first one still succeeds.
ShipSend(c) ==
    /\ client[c].pc = "ship" /\ client[c].todo # <<>>
    /\ LET f == Head(client[c].todo)
       IN  /\ peer[f]
           /\ conns' = IF Alive(f)
                       THEN [conns EXCEPT ![f][Len(conns[f])].msgs =
                                              Append(@, Message(c))]
                       ELSE conns
    /\ client' = [client EXCEPT ![c].pc = "recv"]
    /\ UNCHANGED <<leaderVars, peer, followVars, store, ghostVars, callVars,
                   faultVars>>

ShipFail(c) ==
    /\ client[c].pc = "ship" /\ client[c].todo # <<>>
    /\ LET f == Head(client[c].todo)
       IN  /\ peer[f] /\ ~Alive(f)
           /\ peer' = [peer EXCEPT ![f] = FALSE]
    /\ client' = [client EXCEPT ![c] = NextPeer(c)]
    /\ UNCHANGED <<leaderVars, followVars, conns, store, ghostVars, callVars,
                   faultVars>>

\* recv: up to four acknowledgements fit into ack_buf, and count as one.
AckBuf == 4

ShipAck(c) ==
    /\ client[c].pc = "recv"
    /\ LET f == Head(client[c].todo)
       IN  /\ Alive(f) /\ Last(conns[f]).acks > 0
           /\ conns' = [conns EXCEPT ![f][Len(conns[f])].acks =
                            IF @ > AckBuf THEN @ - AckBuf ELSE 0]
    /\ client' = [client EXCEPT ![c] = [NextPeer(c) EXCEPT !.acks = @ + 1]]
    /\ UNCHANGED <<leaderVars, peer, followVars, store, ghostVars, callVars,
                   faultVars>>

\* recv fails on a broken connection, or after SO_RCVTIMEO; peer.connected is
\* left as it is.
ShipNoAckCounts(c) ==       \* mutant: recv's result is not looked at
    /\ client[c].pc = "recv"
    /\ ~Alive(Head(client[c].todo))
    /\ client' = [client EXCEPT ![c] = [NextPeer(c) EXCEPT !.acks = @ + 1]]
    /\ UNCHANGED <<leaderVars, peer, followVars, conns, store, ghostVars, callVars,
                   faultVars>>
ShipNoAck(c) ==
    /\ client[c].pc = "recv"
    /\ LET f == Head(client[c].todo)
       IN  \/ /\ ~Alive(f)
              /\ UNCHANGED timeouts
           \/ /\ Alive(f) /\ Last(conns[f]).acks = 0
              /\ Faults < MaxFaults
              /\ timeouts' = timeouts + 1
    /\ client' = [client EXCEPT ![c] = NextPeer(c)]
    /\ UNCHANGED <<leaderVars, peer, followVars, conns, store, ghostVars, callVars,
                   resets, crashes, restarts, failures, tears>>

\* replicate() wakes the apply thread and returns ack_count > 0.
ShipDone(c) ==
    /\ client[c].pc = "ship" /\ client[c].todo = <<>>
    /\ applier' = Notified(applier)
    /\ confirmed' = IF client[c].acks > 0 THEN confirmed \cup {client[c].entry}
                                          ELSE confirmed
    /\ client' = [client EXCEPT ![c].pc = "execute"]
    /\ UNCHANGED <<log, commit, lastApplied, peer, followVars, conns, store,
                   received, callVars, faultVars>>

\* Whatever replicate() returned, the write is executed and answered.
Execute(c) ==
    /\ client[c].pc = "execute"
    /\ ApplyLogEntry("leader", FALSE, client[c].own)
    /\ client' = [client EXCEPT ![c] = Idle]
    /\ UNCHANGED <<leaderVars, peer, followVars, conns, ghostVars,
                   callVars, timeouts, resets, crashes, restarts>>

\* The retry thread: connectToPeers.  The follower's kernel accepts the
\* connection even while its listener is still busy with an older one.
ConnectToPeer(f) ==
    /\ PeersMutexFree /\ ~peer[f]
    /\ peer' = [peer EXCEPT ![f] = TRUE]
    /\ conns' = [conns EXCEPT ![f] = Append(@, NewConn)]
    /\ UNCHANGED <<leaderVars, client, followVars, store, ghostVars, callVars,
                   faultVars>>

-----------------------------------------------------------------------------
(* Leader::applyLoop: the entry is looked up under log_mutex_ and applied  *)
(* through a reference into log_ after it is released.                     *)
ApplyTest ==
    /\ applier.pc = "test"
    /\ applier' = IF commit > lastApplied THEN [pc |-> "call", stale |-> FALSE]
                                          ELSE Asleep
    /\ UNCHANGED <<log, commit, lastApplied, client, peer, followVars, conns,
                   store, ghostVars, callVars, faultVars>>

ApplyCall ==
    /\ applier.pc = "call"
    /\ ApplyLogEntry("leader", applier.stale, log[lastApplied + 1])
    /\ lastApplied' = lastApplied + 1
    /\ applier' = [pc |-> "test", stale |-> FALSE]
    /\ UNCHANGED <<log, commit, client, peer, followVars, conns, ghostVars,
                   callVars, timeouts, resets, crashes, restarts>>

-----------------------------------------------------------------------------
(* A follower: handleConnection and handleReplication.  Nothing checks the *)
(* index of an entry against the ones before it.                           *)
HandleReplication(f) ==
    /\ conns[f] # <<>> /\ Head(conns[f]).msgs # <<>>
    /\ LET msg == Head(Head(conns[f]).msgs)
       IN  /\ flog' = [flog EXCEPT ![f] = Append(@, msg.entry)]
           /\ fcommit' = [fcommit EXCEPT ![f] =
                              IF msg.commit > @ THEN msg.commit ELSE @]
           /\ fapplier' = [fapplier EXCEPT ![f] =
                  LET t == AfterPush(@, Len(flog[f]))
                  IN  IF msg.commit > fcommit[f] THEN Notified(t) ELSE t]
           /\ received' = received \cup {msg.entry}
    /\ conns' = [conns EXCEPT ![f][1].msgs = Tail(@), ![f][1].acks = @ + 1]
    /\ UNCHANGED <<leaderVars, client, peer, flastApplied, store, confirmed,
                   callVars, faultVars>>

\* recv fails on a closed connection, and the next one is accepted.
AcceptNext(f) ==
    /\ conns[f] # <<>>
    /\ Head(conns[f]).msgs = <<>> /\ ~Head(conns[f]).open
    /\ conns' = [conns EXCEPT ![f] = Tail(@)]
    /\ UNCHANGED <<leaderVars, client, peer, followVars, store, ghostVars, callVars,
                   faultVars>>

\* Follower::applyLoop: the first entry with the next index.  While there is
\* none the thread goes round its loop without a step that changes anything.
WithIndexFrom(entries, i) ==    \* mutant: a gap is passed over
    {n \in DOMAIN entries : entries[n].index >= i}
WithIndex(entries, i) == {n \in DOMAIN entries : entries[n].index = i}

FollowerFind(f) == WithIndex(flog[f], flastApplied[f] + 1)

FollowerTest(f) ==
    /\ fapplier[f].pc = "test"
    /\ \/ /\ fcommit[f] <= flastApplied[f]
          /\ fapplier' = [fapplier EXCEPT ![f] = Asleep]
       \/ /\ fcommit[f] > flastApplied[f] /\ FollowerFind(f) # {}
          /\ fapplier' = [fapplier EXCEPT ![f] = [pc |-> "call", stale |-> FALSE]]
    /\ UNCHANGED <<leaderVars, client, peer, flog, fcommit, flastApplied, conns,
                   store, ghostVars, callVars, faultVars>>

FollowerCall(f) ==
    /\ fapplier[f].pc = "call"
    /\ LET found == CHOOSE n \in FollowerFind(f) :
                        \A m \in FollowerFind(f) : n <= m
       IN  ApplyLogEntry(f, fapplier[f].stale, flog[f][found])
    /\ flastApplied' = [flastApplied EXCEPT ![f] = @ + 1]
    /\ fapplier' = [fapplier EXCEPT ![f] = [pc |-> "test", stale |-> FALSE]]
    /\ UNCHANGED <<leaderVars, client, peer, flog, fcommit, conns, ghostVars,
                   callVars, timeouts, resets, crashes, restarts>>

-----------------------------------------------------------------------------
(* Faults *)
Reset(f) ==
    /\ Alive(f) /\ Faults < MaxFaults
    /\ resets' = resets + 1
    /\ conns' = [conns EXCEPT ![f][Len(conns[f])] =
                     [msgs |-> <<>>, open |-> FALSE, acks |-> 0]]
    /\ UNCHANGED <<leaderVars, client, peer, followVars, store, ghostVars, callVars,
                   timeouts, crashes, restarts, failures, tears>>

FollowerRestartKeepsLog(f) ==   \* mutant: log_ is kept, last_applied_ is not
    /\ Faults < MaxFaults
    /\ crashes' = crashes + 1
    /\ flastApplied' = [flastApplied EXCEPT ![f] = 0]
    /\ fapplier' = [fapplier EXCEPT ![f] = [pc |-> "test", stale |-> FALSE]]
    /\ conns' = [conns EXCEPT ![f] = <<>>]
    /\ UNCHANGED <<leaderVars, client, peer, flog, fcommit, store, ghostVars,
                   callVars, timeouts, resets, restarts, failures, tears>>
FollowerRestart(f) ==
    /\ Faults < MaxFaults
    /\ crashes' = crashes + 1
    /\ flog' = [flog EXCEPT ![f] = <<>>]
    /\ fcommit' = [fcommit EXCEPT ![f] = 0]
    /\ flastApplied' = [flastApplied EXCEPT ![f] = 0]
    /\ fapplier' = [fapplier EXCEPT ![f] = Asleep]
    /\ conns' = [conns EXCEPT ![f] = <<>>]
    /\ UNCHANGED <<leaderVars, client, peer, store, ghostVars, callVars, timeouts,
                   resets, restarts, failures, tears>>

LeaderRestart ==
    /\ Faults < MaxFaults
    /\ restarts' = restarts + 1
    /\ log' = <<>> /\ commit' = 0 /\ lastApplied' = 0 /\ applier' = Asleep
    /\ client' = [c \in Clients |-> Idle]
    /\ peer' = [f \in Followers |-> FALSE]
    /\ conns' = [f \in Followers |->
                    [i \in DOMAIN conns[f] |-> [conns[f][i] EXCEPT !.open = FALSE]]]
    /\ UNCHANGED <<followVars, store, ghostVars, callVars, timeouts, resets,
                   crashes, failures, tears>>

-----------------------------------------------------------------------------
Replicate(c) ==
    \/ Commit(c) \/ ReadCommit(c) \/ ReadBack(c) \/ ShipLock(c)
    \/ ShipSkip(c) \/ ShipSend(c) \/ ShipFail(c) \/ ShipAck(c) \/ ShipNoAck(c)
    \/ ShipDone(c) \/ Execute(c)

Apply == ApplyTest \/ ApplyCall
Listener(f) == HandleReplication(f) \/ AcceptNext(f)
FollowerApply(f) == FollowerTest(f) \/ FollowerCall(f)

Next ==
    \/ \E c \in Clients : AppendLog(c) \/ Replicate(c)
    \/ Apply \/ LeaderRestart
    \/ \E f \in Followers :
           \/ ConnectToPeer(f) \/ Listener(f) \/ FollowerApply(f)
           \/ Reset(f) \/ FollowerRestart(f)

Spec == Init /\ [][Next]_vars

\* Every thread that can run does, and the retry thread connects; no client has
\* to write, and no fault is due.
FairSpec ==
    /\ Spec
    /\ \A c \in Clients : WF_vars(Replicate(c))
    /\ WF_vars(Apply)
    /\ \A f \in Followers :
           WF_vars(ConnectToPeer(f)) /\ WF_vars(Listener(f)) /\ WF_vars(FollowerApply(f))

-----------------------------------------------------------------------------
TypeOK ==
    /\ log \in Seq(Entries) /\ commit \in 0..Len(log) /\ lastApplied \in 0..commit
    /\ peer \in [Followers -> BOOLEAN]
    /\ \A f \in Followers : /\ flog[f] \in Seq(Entries)
                            /\ flastApplied[f] \in 0..fcommit[f]
    /\ \A c \in Clients : client[c].pc \in
           {"idle", "commit", "read", "build", "lock", "ship", "recv",
            "execute"}
    /\ store \in [Followers \cup {"leader"} -> [Keys -> Nat]]

LeaderQuiet ==
    (\A c \in Clients : client[c].pc = "idle") /\ lastApplied = Len(log)

\* A follower that has applied the whole of the log has the leader's data, under
\* every key, once no write is under way, although the leader applies each write
\* twice, in the client's thread and in its apply thread, and whatever was sent
\* and lost before.  Two clients writing at the same time store in any order, and
\* a leader that is restarted numbers its entries from 1 again: the property ends
\* there.  It ends as well when log_ was reallocated under a read of it, or an
\* engine has failed: an apply thread counts an entry as applied although nothing,
\* or something else, was stored, and nothing makes up for it.
AgreeWhenCaughtUp ==
    /\ ~overlapped /\ restarts = 0 /\ tears = 0 /\ failures = 0
    /\ LeaderQuiet /\ log # <<>>
    => \A f \in Followers : flastApplied[f] = Len(log) => store[f] = store["leader"]

\* A follower applies the writes of a key in the order of the leader's log, and
\* never one a second time, whatever connections and messages are lost, although
\* two clients may ship the same entry and an engine may fail.  It holds until the
\* leader is restarted, when entries of the old and of the new log share their
\* indexes, or log_ is reallocated under a read of it, when anything is stored.
FollowerMonotone ==
    [][restarts = 0 /\ tears' = 0 =>
           \A f \in Followers, k \in Keys : store[f][k] <= store'[f][k]]_vars

\* When replicate() returns TRUE ("Followers ACK receipt", README.md) some
\* follower has the entry, through broken connections and restarts, as long as
\* no acknowledgement is late, for sendToPeer takes a late one for that of the
\* next entry, and clients take turns, for replicate() ships log_.back().
ConfirmedReceived ==
    /\ TypeOK
    /\ ~overlapped /\ timeouts = 0 => confirmed \subseteq received

\* A follower applies everything that it has received without a gap and that
\* is committed, unless it is restarted and forgets it: it is not left for ever
\* with such an entry that it has not applied.
Applicable(f, i) == fcommit[f] >= i /\ \A j \in 1..i : WithIndex(flog[f], j) # {}

FollowerProgress ==
    \A f \in Followers, i \in 1..MaxWrites :
        []<>(Applicable(f, i) => flastApplied[f] >= i)

\* A client's call returns, whatever happens to the connections.
CallsReturn == \A c \in Clients : []<>(client[c].pc = "idle")
=============================================================================
