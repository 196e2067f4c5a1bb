-------------------------- MODULE WritePathProofs --------------------------
(* Theorems about the stages of a write outside the memtable: WriteQueue,  *)
(* for any number of producers, any capacity and any batch size; Wal, for  *)
(* any number of threads and any bounds; and SSTable, for any keys, any    *)
(* hash values and any index interval.                                     *)
EXTENDS Wal, WriteQueue, SSTable, SequenceTheorems, FiniteSetTheorems,
        WellFoundedInduction, TLAPS

-----------------------------------------------------------------------------
(* The log.                                                                *)

\* A flush that has been called and has not returned.
InFlight(t) == pc[t] # "idle"

\* doSync has swapped the buffers and not yet published.
Syncing == syncPc \in {"write", "load", "store"}

\* Every buffered record has been appended by this process, the marks are
\* ordered as the calls that set them, and no generation is published before
\* it is handed out.
Bounds ==
    /\ \A r \in Range(writeBuf) \cup Range(syncBuf) : base < r /\ r <= appended
    /\ base <= promised /\ promised <= returned /\ returned <= appended
    /\ \A t \in Threads : mark[t] <= appended /\ need[t] <= returned
    /\ synced <= gen /\ loaded <= gen /\ \A t \in Threads : myGen[t] <= gen
    /\ \A t \in Threads : InFlight(t) => syncPc # "off"
    /\ syncPc = "off" => proc = "down"

\* While a sync is in progress, records are in write_buffer_ only if they were
\* appended after the swap, hence after every flush that has returned.
Swapped == Syncing => \A r \in Range(writeBuf) : r > returned

\* The generation a flush waits for is reached, or about to be published, only
\* when the records that had to be settled before its call are.
Settled ==
    \A t \in Threads : InFlight(t) =>
        /\ synced >= myGen[t] => \A r \in Pending : r > need[t]
        /\ syncPc = "store" /\ loaded >= myGen[t] =>
               \A r \in Range(writeBuf) : r > need[t]
        /\ Syncing /\ synced >= myGen[t] =>
               \A r \in Range(writeBuf) : r > mark[t]

\* Without a failed write every record is in the file or on its way; a crash
\* loses only what was on its way.
NothingDropped ==
    fd /\ faults = 0 =>
        /\ syncPc # "off" =>
               (base + 1)..appended \subseteq Records(file) \cup Pending
        /\ (base + 1)..promised \subseteq Records(file)

\* From the last doSync on, nothing is appended any more.
Draining ==
    /\ last \/ syncPc = "done" => proc # "up"
    /\ (last /\ Syncing) \/ syncPc = "done" => writeBuf = <<>>

IInv ==
    /\ TypeOK
    /\ Bounds
    /\ Swapped
    /\ Settled
    /\ \A r \in Pending : r > promised
    /\ NothingDropped
    /\ Draining
-----------------------------------------------------------------------------
\* Ranges of the sequences doSync and append() build.
LEMMA RangeConcat ==
    ASSUME NEW s \in Seq(Nat \cup {Torn}), NEW u \in Seq(Nat \cup {Torn})
    PROVE  Range(s \o u) = Range(s) \cup Range(u)
<1>1. ASSUME NEW x \in Range(s \o u) PROVE x \in Range(s) \cup Range(u)
  <2>1. PICK i \in 1..(Len(s) + Len(u)) : x = (s \o u)[i]
    BY <1>1 DEF Range
  <2>2. CASE i <= Len(s)
    BY <2>1, <2>2 DEF Range
  <2>3. CASE i > Len(s)
    <3>1. i - Len(s) \in 1..Len(u) /\ x = u[i - Len(s)]
      BY <2>1, <2>3
    <3> QED BY <3>1 DEF Range
  <2> QED BY <2>1, <2>2, <2>3
<1>2. ASSUME NEW x \in Range(s) PROVE x \in Range(s \o u)
  <2>1. PICK i \in 1..Len(s) : x = s[i]
    BY <1>2 DEF Range
  <2>2. i \in 1..Len(s \o u) /\ (s \o u)[i] = s[i]
    BY <2>1
  <2> QED BY <2>1, <2>2, SMTT(30) DEF Range
<1>3. ASSUME NEW x \in Range(u) PROVE x \in Range(s \o u)
  <2>1. PICK i \in 1..Len(u) : x = u[i]
    BY <1>3 DEF Range
  <2>2. Len(s) + i \in 1..Len(s \o u) /\ (s \o u)[Len(s) + i] = u[i]
    BY <2>1
  <2> QED BY <2>1, <2>2, SMTT(30) DEF Range
<1> QED BY <1>1, <1>2, <1>3

\* append() adds one record to the records of write_buffer_.
LEMMA RangeAppend ==
    ASSUME NEW s \in Seq(Nat), NEW e \in Nat
    PROVE  Range(Append(s, e)) = Range(s) \cup {e}
<1>1. ASSUME NEW x \in Range(Append(s, e)) PROVE x \in Range(s) \cup {e}
  BY <1>1 DEF Range
<1>2. ASSUME NEW x \in Range(s) PROVE x \in Range(Append(s, e))
  <2>1. PICK i \in 1..Len(s) : x = s[i]
    BY <1>2 DEF Range
  <2>2. i \in 1..Len(Append(s, e)) /\ Append(s, e)[i] = s[i]
    BY <2>1
  <2> QED BY <2>1, <2>2 DEF Range
<1>3. e \in Range(Append(s, e))
  <2>1. Len(s) + 1 \in 1..Len(Append(s, e)) /\ Append(s, e)[Len(s) + 1] = e
    OBVIOUS
  <2> QED BY <2>1 DEF Range
<1> QED BY <1>1, <1>2, <1>3

\* A cleared buffer holds no record (doSync, the constructor).
LEMMA RangeEmpty == Range(<<>>) = {}
BY DEF Range

\* The records of a buffer are record numbers.
LEMMA RangeType ==
    ASSUME NEW s \in Seq(Nat)
    PROVE  Range(s) \subseteq Nat
BY DEF Range

\* log.bin holds the records that were appended and torn ones.
LEMMA FileConcat ==
    ASSUME NEW f \in Seq(Nat \cup {Torn}), NEW s \in Seq(Nat \cup {Torn})
    PROVE  f \o s \in Seq(Nat \cup {Torn})
OBVIOUS

\* A buffer's records are legal contents of log.bin.
LEMMA FileRecords ==
    ASSUME NEW s \in Seq(Nat)
    PROVE  s \in Seq(Nat \cup {Torn})
OBVIOUS

\* open() in the constructor either succeeds or fails.
LEMMA OpenResultsType == OpenResults \subseteq BOOLEAN
BY DEF OpenResults

\* What an incomplete write leaves in the file is still a file.
LEMMA PartialWritesType ==
    ASSUME NEW s \in Seq(Nat), NEW part \in PartialWrites(s)
    PROVE  part \in Seq(Nat \cup {Torn})
<1>1. ASSUME NEW n \in 0..(Len(s) - 1) PROVE SubSeq(s, 1, n) \in Seq(Nat)
  OBVIOUS
<1>2. ASSUME NEW n \in 0..(Len(s) - 1)
      PROVE  Append(SubSeq(s, 1, n), Torn) \in Seq(Nat \cup {Torn})
  BY <1>1, FileRecords
<1> QED BY <1>1, <1>2, FileRecords DEF PartialWrites

-----------------------------------------------------------------------------
\* A step of Next changes no variable's type.
LEMMA TypeStep == TypeOK /\ [Next]_vars => TypeOK'
<1> SUFFICES ASSUME TypeOK, [Next]_vars PROVE TypeOK'
  OBVIOUS
<1> USE DEF TypeOK
<1>1. ASSUME NEW t \in Threads, AppendRecord(t) PROVE TypeOK'
  BY <1>1 DEF AppendRecord, syncVars, callVars, faultVars
<1>2. ASSUME NEW t \in Threads, FlushBegin(t) PROVE TypeOK'
  BY <1>2 DEF FlushBegin, logVars, syncVars, ghostVars, faultVars
<1>3. ASSUME NEW t \in Threads, FlushLoad(t) PROVE TypeOK'
  BY <1>3 DEF FlushLoad, logVars, syncVars, ghostVars, faultVars
<1>4. ASSUME NEW t \in Threads, FlushRequest(t) PROVE TypeOK'
  BY <1>4 DEF FlushRequest, logVars, syncVars, ghostVars, faultVars
<1>5. ASSUME NEW t \in Threads, FlushReturn(t) PROVE TypeOK'
  BY <1>5 DEF FlushReturn, Larger, logVars, syncVars, faultVars
<1>6. ASSUME NEW t \in Threads, FlushCheck(t) PROVE TypeOK'
  BY <1>6 DEF FlushCheck, logVars, syncVars, ghostVars, faultVars
<1>7. ASSUME NEW t \in Threads, FlushSleep(t) PROVE TypeOK'
  BY <1>7 DEF FlushSleep, logVars, syncVars, ghostVars, faultVars
<1>8. CASE SyncWake
  BY <1>8 DEF SyncWake, logVars, callVars, ghostVars, faultVars
<1>w. WakeFlushers \in [Threads -> {"idle", "load", "request", "check",
                                    "toSleep", "asleep"}]
  BY DEF WakeFlushers
<1>9. CASE SyncNothing
  BY <1>9, <1>w DEF SyncNothing, SyncNext, Published, logVars, ghostVars, faultVars
<1>10. CASE SyncSwap
  BY <1>10 DEF SyncSwap, AfterSwap, callVars, ghostVars, faultVars
<1>11. CASE SyncWrite
  <2>1. file' \in Seq(Nat \cup {Torn})
    <3>1. syncBuf \in Seq(Nat \cup {Torn})
      BY FileRecords
    <3>2. \/ file' = file
          \/ file' = file \o syncBuf
          \/ \E part \in PartialWrites(syncBuf) : file' = file \o part
      BY <1>11 DEF SyncWrite
    <3> QED BY <3>1, <3>2, PartialWritesType, FileConcat
  <2>2. syncBuf' = syncBuf \/ syncBuf' = <<>>
    BY <1>11 DEF SyncWrite
  <2>3. faults' = faults \/ faults' = faults + 1
    BY <1>11 DEF SyncWrite
  <2>4. /\ syncPc' = "load"
        /\ UNCHANGED <<proc, writeBuf, fd, requested, gen, synced, loaded, last,
                       callVars, ghostVars, crashes>>
    BY <1>11 DEF SyncWrite
  <2>5. syncBuf' \in Seq(Nat)
    <3>1. <<>> \in Seq(Nat) /\ syncBuf \in Seq(Nat)
      OBVIOUS
    <3> QED BY ONLY <2>2, <3>1
  <2>6. faults' \in Nat
    BY <2>3
  <2> QED BY <2>1, <2>4, <2>5, <2>6 DEF callVars, ghostVars
<1>12. CASE SyncLoad
  BY <1>12 DEF SyncLoad, Published, logVars, callVars, ghostVars, faultVars
<1>13. CASE SyncStore
  BY <1>13, <1>w DEF SyncStore, SyncNext, logVars, ghostVars, faultVars
<1>14. CASE Close
  BY <1>14 DEF Close, syncVars, callVars, ghostVars
<1>15. CASE CloseDone
  BY <1>15 DEF CloseDone, syncVars, callVars, ghostVars, faultVars
<1>16. CASE Crash
  <2>1. file' \in Seq(Nat \cup {Torn})
    <3>1. \/ file' = file
          \/ \E part \in PartialWrites(syncBuf) : file' = file \o part
      BY <1>16 DEF Crash
    <3> QED BY <3>1, PartialWritesType, FileConcat
  <2> QED BY <1>16, <2>1 DEF Crash, ghostVars
<1>17. CASE Open
  <2>1. fd' \in BOOLEAN
    BY <1>17, OpenResultsType DEF Open, faultVars
  <2>2. requested' \in BOOLEAN /\ last' \in BOOLEAN
    BY <1>17 DEF Open, faultVars
  <2>3. /\ writeBuf' \in Seq(Nat) /\ syncBuf' \in Seq(Nat)
       /\ file' \in Seq(Nat \cup {Torn})
    BY <1>17 DEF Open, faultVars
  <2>4. /\ pc' \in [Threads -> {"idle", "load", "request", "check", "toSleep",
                            "asleep"}]
       /\ myGen' \in [Threads -> Nat]
       /\ mark' \in [Threads -> Nat] /\ need' \in [Threads -> Nat]
    BY <1>17 DEF Open, faultVars
  <2>5. /\ proc' = "up" /\ syncPc' = "wait"
       /\ gen' \in Nat /\ synced' \in Nat /\ loaded' \in Nat
       /\ appended' \in Nat /\ base' \in Nat
       /\ returned' \in Nat /\ promised' \in Nat
       /\ flushes' \in Nat /\ faults' \in Nat /\ crashes' \in Nat
    BY <1>17 DEF Open, faultVars
  <2> QED BY <2>1, <2>2, <2>3, <2>4, <2>5 DEF TypeOK
<1>18. CASE UNCHANGED vars
  BY <1>18 DEF vars
<1> QED
  BY <1>1, <1>2, <1>3, <1>4, <1>5, <1>6, <1>7, <1>8, <1>9, <1>10, <1>11, <1>12,
     <1>13, <1>14, <1>15, <1>16, <1>17, <1>18
  DEF Next, CallerStep, SyncThread

\* The constructor gives every variable a value of its type.
LEMMA TypeInit == Init => TypeOK
<1> SUFFICES ASSUME Init PROVE TypeOK
  OBVIOUS
<1>1. fd \in BOOLEAN
  BY OpenResultsType DEF Init
<1>2. requested \in BOOLEAN /\ last \in BOOLEAN
  BY DEF Init
<1>3. /\ writeBuf \in Seq(Nat) /\ syncBuf \in Seq(Nat)
     /\ file \in Seq(Nat \cup {Torn})
  BY DEF Init
<1>4. /\ pc \in [Threads -> {"idle", "load", "request", "check", "toSleep",
                          "asleep"}]
     /\ myGen \in [Threads -> Nat]
     /\ mark \in [Threads -> Nat] /\ need \in [Threads -> Nat]
  BY DEF Init
<1>5. /\ proc = "up" /\ syncPc = "wait"
     /\ gen \in Nat /\ synced \in Nat /\ loaded \in Nat
     /\ appended \in Nat /\ base \in Nat
     /\ returned \in Nat /\ promised \in Nat
     /\ flushes \in Nat /\ faults \in Nat /\ crashes \in Nat
  BY DEF Init
<1> QED BY <1>1, <1>2, <1>3, <1>4, <1>5 DEF TypeOK

\* Every variable of the log keeps its type, crashes and reopenings included.
THEOREM TypeCorrect == Spec => []TypeOK
BY TypeInit, TypeStep, PTL DEF Spec

-----------------------------------------------------------------------------
\* IInv is inductive: one step per action, one part of IInv at a time.
LEMMA InvStep == IInv /\ [Next]_vars => IInv'
<1> SUFFICES ASSUME IInv, [Next]_vars PROVE IInv'
  OBVIOUS
<1>t. TypeOK /\ TypeOK'
  BY TypeStep DEF IInv
<1>n. Range(writeBuf) \subseteq Nat /\ Range(syncBuf) \subseteq Nat
  BY <1>t, RangeType DEF TypeOK
<1> USE DEF InFlight, Syncing, Pending, Records
<1>1. ASSUME NEW t \in Threads, AppendRecord(t) PROVE IInv'
  <2>r. Range(writeBuf') = Range(writeBuf) \cup {appended + 1}
    <3>1. writeBuf \in Seq(Nat) /\ appended + 1 \in Nat
      BY <1>t DEF TypeOK
    <3> QED BY <1>1, <3>1, RangeAppend DEF AppendRecord
  <2>1. Bounds'
    <3>1. \A r \in Range(writeBuf') \cup Range(syncBuf') :
              base' < r /\ r <= appended'
      <4>1. appended + 1 <= appended' /\ base' = base /\ syncBuf' = syncBuf
        BY <1>t, <1>1 DEF AppendRecord, TypeOK
      <4>2. base \in Nat /\ appended \in Nat /\ base <= appended
        BY <1>t DEF IInv, Bounds, TypeOK
      <4>3. \A r \in Range(writeBuf) \cup Range(syncBuf) :
                r \in Nat /\ base < r /\ r <= appended
        BY <1>n DEF IInv, Bounds
      <4>4. appended' = appended + 1
        BY <1>1 DEF AppendRecord
      <4> QED BY ONLY <2>r, <4>1, <4>2, <4>3, <4>4
    <3>2. appended' = appended + 1
      BY <1>1 DEF AppendRecord
    <3> QED
      BY <1>t, <3>1, <3>2, <1>1 DEF IInv, TypeOK, Bounds, AppendRecord, syncVars,
         callVars, faultVars
  <2>2. Swapped'
    BY <1>t, <2>r, <1>1 DEF IInv, TypeOK, Bounds, Swapped, AppendRecord,
       syncVars, callVars, faultVars
  <2>3. Settled'
    BY <1>t, <2>r, <1>1, SMTT(30) DEF IInv, TypeOK, Bounds, Swapped, Settled,
       AppendRecord, syncVars, callVars, faultVars
  <2>4. (\A r \in Pending : r > promised)'
    BY <1>t, <2>r, <1>1 DEF IInv, TypeOK, Bounds, AppendRecord, syncVars,
       callVars, faultVars
  <2>5. NothingDropped'
    BY <1>t, <2>r, <1>1 DEF IInv, TypeOK, Bounds, NothingDropped, AppendRecord,
       syncVars, callVars, faultVars
  <2>6. Draining'
    BY <1>t, <2>r, <1>1 DEF IInv, Draining, AppendRecord, syncVars, callVars,
       faultVars
  <2> QED BY <1>t, <2>1, <2>2, <2>3, <2>4, <2>5, <2>6 DEF IInv
<1>2. ASSUME NEW t \in Threads, FlushBegin(t) PROVE IInv'
  <2>1. Bounds'
    <3>1. \A u \in Threads : mark'[u] <= appended' /\ need'[u] <= returned'
      BY <1>t, <1>2 DEF IInv, TypeOK, Bounds, FlushBegin, ghostVars
    <3>2. \A u \in Threads : myGen'[u] <= gen'
      <4>1. gen \in Nat /\ \A u \in Threads : myGen[u] \in Nat /\ myGen[u] <= gen
        BY <1>t DEF IInv, TypeOK, Bounds
      <4>2. gen' = gen + 1 /\ \A u \in Threads : myGen'[u] \in {myGen[u], gen + 1}
        BY <1>t, <1>2 DEF TypeOK, FlushBegin
      <4> QED BY ONLY <4>1, <4>2
    <3>3. synced' <= gen' /\ loaded' <= gen'
      BY <1>t, <1>2 DEF IInv, TypeOK, Bounds, FlushBegin, syncVars
    <3>4. syncPc' # "off"
      BY <1>2 DEF IInv, Bounds, FlushBegin, syncVars
    <3> QED
      BY <3>1, <3>2, <3>3, <3>4, <1>2 DEF IInv, Bounds, FlushBegin, logVars,
         ghostVars
  <2>2. Swapped'
    BY <1>t, <1>2 DEF IInv, TypeOK, Bounds, Swapped, FlushBegin, logVars,
       syncVars, ghostVars, faultVars
  <2>3. Settled'
    BY <1>t, <1>2 DEF IInv, TypeOK, Bounds, Swapped, Settled, FlushBegin,
       logVars, syncVars, ghostVars, faultVars
  <2>4. (\A r \in Pending : r > promised)'
    BY <1>t, <1>2 DEF IInv, TypeOK, Bounds, FlushBegin, logVars, syncVars,
       ghostVars, faultVars
  <2>5. NothingDropped'
    BY <1>t, <1>2 DEF IInv, TypeOK, Bounds, NothingDropped, FlushBegin,
       logVars, syncVars, ghostVars, faultVars
  <2>6. Draining'
    BY <1>t, <1>2 DEF IInv, Draining, FlushBegin, logVars, syncVars, ghostVars,
       faultVars
  <2> QED BY <1>t, <2>1, <2>2, <2>3, <2>4, <2>5, <2>6 DEF IInv
<1>3. ASSUME NEW t \in Threads, FlushLoad(t) PROVE IInv'
  <2>1. Bounds'
    BY <1>t, <1>3 DEF IInv, TypeOK, Bounds, FlushLoad, logVars, syncVars,
       ghostVars, faultVars
  <2>2. Swapped'
    BY <1>t, <1>3 DEF IInv, TypeOK, Bounds, Swapped, FlushLoad, logVars,
       syncVars, ghostVars, faultVars
  <2>3. Settled'
    BY <1>t, <1>3, SMTT(30) DEF IInv, TypeOK, Bounds, Swapped, Settled, FlushLoad,
       logVars, syncVars, ghostVars, faultVars
  <2>4. (\A r \in Pending : r > promised)'
    BY <1>t, <1>3 DEF IInv, TypeOK, Bounds, FlushLoad, logVars, syncVars,
       ghostVars, faultVars
  <2>5. NothingDropped'
    BY <1>t, <1>3 DEF IInv, TypeOK, Bounds, NothingDropped, FlushLoad, logVars,
       syncVars, ghostVars, faultVars
  <2>6. Draining'
    BY <1>t, <1>3 DEF IInv, Draining, FlushLoad, logVars, syncVars, ghostVars,
       faultVars
  <2> QED BY <1>t, <2>1, <2>2, <2>3, <2>4, <2>5, <2>6 DEF IInv
<1>4. ASSUME NEW t \in Threads, FlushRequest(t) PROVE IInv'
  BY <1>t, <1>4 DEF IInv, TypeOK, Bounds, Swapped, Settled, NothingDropped,
     Draining, FlushRequest, logVars, syncVars, ghostVars, faultVars
<1>5. ASSUME NEW t \in Threads, FlushReturn(t) PROVE IInv'
  <2>1. Bounds'
    BY <1>t, <1>5, SMTT(30) DEF IInv, TypeOK, Bounds, FlushReturn, Larger, logVars,
       syncVars, faultVars
  <2>2. Swapped'
    BY <1>t, <1>5 DEF IInv, TypeOK, Bounds, Swapped, Settled, FlushReturn,
       Larger, logVars, syncVars, faultVars
  <2>3. Settled'
    BY <1>t, <1>5 DEF IInv, TypeOK, Bounds, Swapped, Settled, FlushReturn,
       Larger, logVars, syncVars, faultVars
  <2>4. (\A r \in Pending : r > promised)'
    BY <1>t, <1>5 DEF IInv, TypeOK, Bounds, Settled, FlushReturn, Larger,
       logVars, syncVars, faultVars
  <2>5. NothingDropped'
    <3>1. \A r \in Pending : r > need[t]
      BY <1>5 DEF IInv, Settled, FlushReturn
    <3>2. /\ syncPc # "off"
          /\ need[t] \in Nat /\ appended \in Nat /\ base \in Nat
          /\ need[t] <= appended
      <4>1. /\ need[t] \in Nat /\ appended \in Nat /\ base \in Nat
            /\ returned \in Nat
        BY <1>t, <1>5 DEF TypeOK
      <4>2. syncPc # "off" /\ need[t] <= returned /\ returned <= appended
        BY <1>5 DEF IInv, Bounds, FlushReturn
      <4> QED BY ONLY <4>1, <4>2
    <3>3. fd /\ faults = 0 => (base + 1)..need[t] \subseteq Range(file) \ {Torn}
      <4>1. fd /\ faults = 0 => (base + 1)..appended \subseteq
                                   (Range(file) \ {Torn}) \cup Pending
        BY <3>2 DEF IInv, NothingDropped
      <4>2. \A i \in (base + 1)..need[t] : i \in (base + 1)..appended /\ ~(i > need[t])
        BY <3>2
      <4> HIDE DEF Pending
      <4> QED BY ONLY <3>1, <4>1, <4>2
    <3> QED
      BY <3>3, <1>5 DEF IInv, NothingDropped, FlushReturn, Larger, logVars,
         syncVars, faultVars
  <2>6. Draining'
    BY <1>t, <1>5 DEF IInv, Draining, FlushReturn, Larger, logVars, syncVars,
       faultVars
  <2> QED BY <1>t, <2>1, <2>2, <2>3, <2>4, <2>5, <2>6 DEF IInv
<1>6. ASSUME NEW t \in Threads, FlushCheck(t) PROVE IInv'
  BY <1>t, <1>6 DEF IInv, TypeOK, Bounds, Swapped, Settled, NothingDropped,
     Draining, FlushCheck, logVars, syncVars, ghostVars, faultVars
<1>7. ASSUME NEW t \in Threads, FlushSleep(t) PROVE IInv'
  BY <1>t, <1>7 DEF IInv, TypeOK, Bounds, Swapped, Settled, NothingDropped,
     Draining, FlushSleep, logVars, syncVars, ghostVars, faultVars
<1>8. CASE SyncWake
  BY <1>t, <1>8 DEF IInv, TypeOK, Bounds, Swapped, Settled, NothingDropped,
     Draining, SyncWake, logVars, callVars, ghostVars, faultVars
<1>9. CASE SyncNothing
  <2>r. Range(writeBuf) = {}
    BY <1>9, RangeEmpty DEF SyncNothing
  <2>1. Bounds'
    BY <1>t, <2>r, <1>9 DEF IInv, TypeOK, Bounds, SyncNothing, SyncNext,
       Published, WakeFlushers, logVars, ghostVars, faultVars
  <2>2. Swapped'
    BY <1>t, <2>r, <1>9 DEF IInv, TypeOK, Bounds, Swapped, SyncNothing,
       SyncNext, Published, WakeFlushers, logVars, ghostVars, faultVars
  <2>3. Settled'
    BY <1>t, <2>r, <1>9 DEF IInv, TypeOK, Bounds, Swapped, Settled,
       SyncNothing, SyncNext, Published, WakeFlushers, logVars, ghostVars,
       faultVars
  <2>4. (\A r \in Pending : r > promised)'
    BY <1>t, <2>r, <1>9 DEF IInv, TypeOK, Bounds, SyncNothing, SyncNext,
       Published, WakeFlushers, logVars, ghostVars, faultVars
  <2>5. NothingDropped'
    BY <1>t, <2>r, <1>9 DEF IInv, TypeOK, Bounds, NothingDropped, SyncNothing,
       SyncNext, Published, WakeFlushers, logVars, ghostVars, faultVars
  <2>6. Draining'
    BY <1>t, <2>r, <1>9 DEF IInv, Draining, SyncNothing, SyncNext, Published,
       WakeFlushers, logVars, ghostVars, faultVars
  <2> QED BY <1>t, <2>1, <2>2, <2>3, <2>4, <2>5, <2>6 DEF IInv
<1>10. CASE SyncSwap
  <2>r. Range(writeBuf') = {} /\ Range(syncBuf') = Range(writeBuf)
    BY <1>10, RangeEmpty DEF SyncSwap, AfterSwap
  <2>1. Bounds'
    BY <1>t, <2>r, <1>10 DEF IInv, TypeOK, Bounds, SyncSwap, AfterSwap,
       callVars, ghostVars, faultVars
  <2>2. Swapped'
    BY <1>t, <2>r, <1>10 DEF IInv, TypeOK, Bounds, Swapped, SyncSwap,
       AfterSwap, callVars, ghostVars, faultVars
  <2>3. Settled'
    BY <1>t, <2>r, <1>10 DEF IInv, TypeOK, Bounds, Swapped, Settled, SyncSwap,
       AfterSwap, callVars, ghostVars, faultVars
  <2>4. (\A r \in Pending : r > promised)'
    BY <1>t, <2>r, <1>10 DEF IInv, TypeOK, Bounds, SyncSwap, AfterSwap,
       callVars, ghostVars, faultVars
  <2>5. NothingDropped'
    BY <1>t, <2>r, <1>10 DEF IInv, TypeOK, Bounds, NothingDropped, SyncSwap,
       AfterSwap, callVars, ghostVars, faultVars
  <2>6. Draining'
    BY <1>t, <2>r, <1>10 DEF IInv, Draining, SyncSwap, AfterSwap, callVars,
       ghostVars, faultVars
  <2> QED BY <1>t, <2>1, <2>2, <2>3, <2>4, <2>5, <2>6 DEF IInv
<1>11. CASE SyncWrite
  <2>r. /\ Range(syncBuf') = Range(syncBuf) \/ Range(syncBuf') = {}
        /\ fd /\ faults' = faults => Range(file') = Range(file) \cup Range(syncBuf)
        /\ Range(file) \subseteq Range(file')
    <3>1. /\ file \in Seq(Nat \cup {Torn}) /\ syncBuf \in Seq(Nat \cup {Torn})
          /\ \A part \in PartialWrites(syncBuf) : part \in Seq(Nat \cup {Torn})
      BY <1>t, FileRecords, PartialWritesType DEF TypeOK
    <3>2. \/ ~fd /\ UNCHANGED <<file, syncBuf, faults>>
          \/ file' = file \o syncBuf /\ syncBuf' = <<>> /\ faults' = faults
          \/ /\ \E part \in PartialWrites(syncBuf) : file' = file \o part
             /\ syncBuf' = <<>> /\ faults' = faults + 1
      BY <1>11 DEF SyncWrite
    <3>3. faults + 1 # faults
      BY <1>t DEF TypeOK
    <3> QED BY ONLY <3>1, <3>2, <3>3, RangeEmpty, RangeConcat
  <2>1. Bounds'
    BY <1>t, <2>r, <1>11 DEF IInv, TypeOK, Bounds, SyncWrite, callVars,
       ghostVars
  <2>2. Swapped'
    BY <1>t, <2>r, <1>11 DEF IInv, TypeOK, Bounds, Swapped, SyncWrite,
       callVars, ghostVars
  <2>3. Settled'
    BY <1>t, <2>r, <1>11 DEF IInv, TypeOK, Bounds, Swapped, Settled, SyncWrite,
       callVars, ghostVars
  <2>4. (\A r \in Pending : r > promised)'
    BY <1>t, <2>r, <1>11 DEF IInv, TypeOK, Bounds, SyncWrite, callVars,
       ghostVars
  <2>5. NothingDropped'
    <3> SUFFICES ASSUME fd', faults' = 0
                 PROVE  /\ (base + 1)..appended \subseteq
                              (Range(file') \ {Torn}) \cup Range(writeBuf)
                        /\ (base + 1)..promised \subseteq Range(file') \ {Torn}
      BY <1>11 DEF NothingDropped, SyncWrite, ghostVars
    <3>1. fd /\ faults = 0 /\ syncPc = "write"
      BY <1>t, <1>11 DEF SyncWrite, TypeOK
    <3>2. /\ (base + 1)..appended \subseteq
              (Range(file) \ {Torn}) \cup Range(writeBuf) \cup Range(syncBuf)
          /\ (base + 1)..promised \subseteq Range(file) \ {Torn}
      BY <3>1 DEF IInv, NothingDropped
    <3>3. Range(syncBuf) \subseteq Nat /\ Torn \notin Nat
      BY <1>n, WalAssumption
    <3>4. Range(file') = Range(file) \cup Range(syncBuf)
      BY <2>r, <3>1
    <3> QED BY ONLY <3>2, <3>3, <3>4
  <2>6. Draining'
    BY <1>t, <2>r, <1>11 DEF IInv, Draining, SyncWrite, callVars, ghostVars
  <2> QED BY <1>t, <2>1, <2>2, <2>3, <2>4, <2>5, <2>6 DEF IInv
<1>12. CASE SyncLoad
  <2>1. Bounds'
    BY <1>t, <1>12 DEF IInv, TypeOK, Bounds, SyncLoad, Published, logVars,
       callVars, ghostVars, faultVars
  <2>2. Swapped'
    BY <1>t, <1>12 DEF IInv, TypeOK, Bounds, Swapped, SyncLoad, Published,
       logVars, callVars, ghostVars, faultVars
  <2>3. Settled'
    <3>1. \A u \in Threads : \A r \in Range(writeBuf) : r > need[u]
      <4>1. \A r \in Range(writeBuf) : r \in Nat /\ r > returned
        BY <1>n, <1>12 DEF IInv, Swapped, SyncLoad
      <4>2. \A u \in Threads : need[u] \in Nat /\ need[u] <= returned
        BY <1>t DEF IInv, TypeOK, Bounds
      <4>3. returned \in Nat
        BY <1>t DEF TypeOK
      <4> QED BY ONLY <4>1, <4>2, <4>3
    <3> QED
      BY <3>1, <1>12 DEF IInv, Settled, SyncLoad, logVars, callVars, ghostVars
  <2>4. (\A r \in Pending : r > promised)'
    BY <1>t, <1>12 DEF IInv, TypeOK, Bounds, SyncLoad, Published, logVars,
       callVars, ghostVars, faultVars
  <2>5. NothingDropped'
    BY <1>t, <1>12 DEF IInv, TypeOK, Bounds, NothingDropped, SyncLoad,
       Published, logVars, callVars, ghostVars, faultVars
  <2>6. Draining'
    BY <1>t, <1>12 DEF IInv, Draining, SyncLoad, Published, logVars, callVars,
       ghostVars, faultVars
  <2> QED BY <1>t, <2>1, <2>2, <2>3, <2>4, <2>5, <2>6 DEF IInv
<1>13. CASE SyncStore
  <2>1. Bounds'
    BY <1>t, <1>13 DEF IInv, TypeOK, Bounds, SyncStore, SyncNext, WakeFlushers,
       logVars, ghostVars, faultVars
  <2>2. Swapped'
    BY <1>t, <1>13 DEF IInv, TypeOK, Bounds, Swapped, SyncStore, SyncNext,
       WakeFlushers, logVars, ghostVars, faultVars
  <2>3. Settled'
    BY <1>t, <1>13 DEF IInv, TypeOK, Bounds, Swapped, Settled, SyncStore,
       SyncNext, WakeFlushers, logVars, ghostVars, faultVars
  <2>4. (\A r \in Pending : r > promised)'
    BY <1>t, <1>13 DEF IInv, TypeOK, Bounds, SyncStore, SyncNext, WakeFlushers,
       logVars, ghostVars, faultVars
  <2>5. NothingDropped'
    BY <1>t, <1>13 DEF IInv, TypeOK, Bounds, NothingDropped, SyncStore,
       SyncNext, WakeFlushers, logVars, ghostVars, faultVars
  <2>6. Draining'
    BY <1>t, <1>13 DEF IInv, Draining, SyncStore, SyncNext, WakeFlushers,
       logVars, ghostVars, faultVars
  <2> QED BY <1>t, <2>1, <2>2, <2>3, <2>4, <2>5, <2>6 DEF IInv
<1>14. CASE Close
  BY <1>t, <1>14 DEF IInv, TypeOK, Bounds, Swapped, Settled, NothingDropped,
     Draining, Close, syncVars, callVars, ghostVars
<1>15. CASE CloseDone
  BY <1>t, <1>15 DEF IInv, TypeOK, Bounds, Swapped, Settled, NothingDropped,
     Draining, CloseDone, syncVars, callVars, ghostVars, faultVars
<1>16. CASE Crash
  <2>r. /\ Range(writeBuf') = {} /\ Range(syncBuf') = {}
        /\ Range(file) \subseteq Range(file')
    <3>1. /\ file \in Seq(Nat \cup {Torn})
          /\ \A part \in PartialWrites(syncBuf) : part \in Seq(Nat \cup {Torn})
      BY <1>t, PartialWritesType DEF TypeOK
    <3>2. /\ writeBuf' = <<>> /\ syncBuf' = <<>>
          /\ \/ file' = file
             \/ \E part \in PartialWrites(syncBuf) : file' = file \o part
      BY <1>16 DEF Crash
    <3> QED BY ONLY <3>1, <3>2, RangeEmpty, RangeConcat
  <2>1. Bounds'
    BY <1>t, <2>r, <1>16 DEF IInv, TypeOK, Bounds, Crash, ghostVars
  <2>2. Swapped'
    BY <1>t, <2>r, <1>16 DEF IInv, TypeOK, Bounds, Swapped, Crash, ghostVars
  <2>3. Settled'
    BY <1>t, <2>r, <1>16 DEF IInv, TypeOK, Bounds, Swapped, Settled, Crash,
       ghostVars
  <2>4. (\A r \in Pending : r > promised)'
    BY <1>t, <2>r, <1>16 DEF IInv, TypeOK, Bounds, Crash, ghostVars
  <2>5. NothingDropped'
    BY <1>t, <2>r, <1>16 DEF IInv, TypeOK, Bounds, NothingDropped, Crash,
       ghostVars
  <2>6. Draining'
    BY <1>t, <2>r, <1>16 DEF IInv, Draining, Crash, ghostVars
  <2> QED BY <1>t, <2>1, <2>2, <2>3, <2>4, <2>5, <2>6 DEF IInv
<1>17. CASE Open
  <2>r. Range(writeBuf') = {} /\ Range(syncBuf') = {}
    BY <1>17, RangeEmpty DEF Open
  <2>1. Bounds'
    BY <1>t, <2>r, <1>17 DEF IInv, TypeOK, Bounds, Open, faultVars
  <2>2. Swapped'
    BY <1>t, <2>r, <1>17 DEF IInv, TypeOK, Bounds, Swapped, Open, faultVars
  <2>3. Settled'
    BY <1>t, <2>r, <1>17 DEF IInv, TypeOK, Bounds, Swapped, Settled, Open,
       faultVars
  <2>4. (\A r \in Pending : r > promised)'
    BY <1>t, <2>r, <1>17 DEF IInv, TypeOK, Bounds, Open, faultVars
  <2>5. NothingDropped'
    BY <1>t, <2>r, <1>17 DEF IInv, TypeOK, Bounds, NothingDropped, Open,
       faultVars
  <2>6. Draining'
    BY <1>t, <2>r, <1>17 DEF IInv, Draining, Open, faultVars
  <2> QED BY <1>t, <2>1, <2>2, <2>3, <2>4, <2>5, <2>6 DEF IInv
<1>18. CASE UNCHANGED vars
  BY <1>t, <1>18 DEF IInv, TypeOK, Bounds, Swapped, Settled, NothingDropped,
     Draining, vars
<1> QED
  BY <1>1, <1>2, <1>3, <1>4, <1>5, <1>6, <1>7, <1>8, <1>9, <1>10, <1>11, <1>12,
     <1>13, <1>14, <1>15, <1>16, <1>17, <1>18
  DEF Next, CallerStep, SyncThread

\* The inductive invariant holds of a log that has just been created.
LEMMA InvInit == Init => IInv
<1> SUFFICES ASSUME Init PROVE IInv
  OBVIOUS
<1>1. TypeOK
  BY TypeInit
<1>2. Range(writeBuf) = {} /\ Range(syncBuf) = {}
  BY RangeEmpty DEF Init
<1>3. (base + 1)..appended = {} /\ (base + 1)..promised = {}
  BY DEF Init
<1> QED BY <1>1, <1>2, <1>3
        DEF Init, IInv, Bounds, Swapped, Settled, NothingDropped, Draining,
            InFlight, Syncing, Pending

\* The inductive invariant holds in every state of the log: generations and
\* marks stay below their counters, a published generation covers what was
\* swapped before it was read, and no record leaves the buffers unwritten.
THEOREM InvCorrect == Spec => []IInv
BY InvInit, InvStep, PTL DEF Spec

\* Two flushes, the second called after the first has returned, settle every
\* record appended before the first: none is left in a buffer, and all are in
\* log.bin unless a write failed (flush, doSync).
THEOREM TwoFlushesCorrect == Spec => []TwoFlushesSync
<1>1. IInv => TwoFlushesSync
  BY DEF IInv, NothingDropped, TwoFlushesSync
<1> QED BY <1>1, InvCorrect, PTL

\* A clean close leaves every record of the process in log.bin
\* (~WriteAheadLog, the doSync after the loop of syncThreadLoop).
THEOREM CloseCorrect == Spec => []CloseDrains
<1>1. IInv => CloseDrains
  <2> SUFFICES ASSUME IInv, syncPc = "done", fd, faults = 0
               PROVE  (base + 1)..appended \subseteq Records(file)
    BY DEF CloseDrains
  <2>1. Pending = {}
    BY RangeEmpty DEF IInv, Draining, Pending
  <2> QED BY <2>1 DEF IInv, NothingDropped
<1> QED BY <1>1, InvCorrect, PTL

-----------------------------------------------------------------------------
\* The records of s, leaving torn ones out, are in append order.
Ascending(s) ==
    \A i, j \in DOMAIN s :
        i < j /\ s[i] # Torn /\ s[j] # Torn => s[i] < s[j]

\* log.bin, the buffer doSync is writing and write_buffer_ hold, in this
\* order, ascending runs of records that lie behind one another.
Ordered ==
    /\ Ascending(file)
    /\ Ascending(writeBuf) /\ Ascending(syncBuf)
    /\ \A x \in Records(file) : x <= appended
    /\ \A x \in Records(file), y \in Pending : x < y
    /\ syncPc = "write" => \A x \in Range(syncBuf), y \in Range(writeBuf) : x < y

\* A log that was never reopened after a crash is torn at its end, if at all.
TornLast ==
    /\ appended = 0 => file = <<>>
    /\ faults = 0 /\ base = 0 =>
           \A i \in DOMAIN file :
               file[i] = Torn => syncPc = "off" /\ i = Len(file)

\* Behind a file in order, write() may put what is in order and lies above it.
LEMMA AscendingConcat ==
    ASSUME NEW s \in Seq(Nat \cup {Torn}), NEW u \in Seq(Nat \cup {Torn}),
           Ascending(s), Ascending(u),
           \A x \in Records(s), y \in Records(u) : x < y
    PROVE  Ascending(s \o u)
<1> SUFFICES ASSUME NEW i \in 1..(Len(s) + Len(u)), NEW j \in 1..(Len(s) + Len(u)),
                    i < j, (s \o u)[i] # Torn, (s \o u)[j] # Torn
             PROVE  (s \o u)[i] < (s \o u)[j]
  BY DEF Ascending
<1>1. CASE j <= Len(s)
  BY <1>1 DEF Ascending
<1>2. CASE i > Len(s)
  <2>1. /\ i - Len(s) \in 1..Len(u) /\ (s \o u)[i] = u[i - Len(s)]
        /\ j - Len(s) \in 1..Len(u) /\ (s \o u)[j] = u[j - Len(s)]
        /\ i - Len(s) < j - Len(s)
    BY <1>2
  <2> QED BY <2>1 DEF Ascending
<1>3. CASE i <= Len(s) /\ j > Len(s)
  <2>1. i \in 1..Len(s) /\ (s \o u)[i] = s[i]
    BY <1>3
  <2>2. j - Len(s) \in 1..Len(u) /\ (s \o u)[j] = u[j - Len(s)]
    BY <1>3
  <2>3. s[i] \in Records(s) /\ u[j - Len(s)] \in Records(u)
    BY <2>1, <2>2 DEF Records, Range
  <2> QED BY <2>1, <2>2, <2>3
<1> QED BY <1>1, <1>2, <1>3

\* An incomplete write() leaves records of the buffer, in order; only its last
\* one can be torn, and an empty buffer leaves nothing.
LEMMA PartialAscending ==
    ASSUME NEW s \in Seq(Nat), Ascending(s), NEW part \in PartialWrites(s)
    PROVE  /\ Ascending(part)
           /\ Records(part) \subseteq Range(s)
           /\ s # <<>>
           /\ \A i \in DOMAIN part : part[i] = Torn => i = Len(part)
<1>0. PICK n \in 0..(Len(s) - 1) :
          part = SubSeq(s, 1, n) \/ part = Append(SubSeq(s, 1, n), Torn)
  BY DEF PartialWrites
<1>1. n \in Nat /\ n < Len(s) /\ Len(s) \in Nat
  OBVIOUS
<1>2. /\ SubSeq(s, 1, n) \in Seq(Nat) /\ Len(SubSeq(s, 1, n)) = n
      /\ \A i \in 1..n : SubSeq(s, 1, n)[i] = s[i]
  BY <1>1
<1>3. /\ part \in Seq(Nat \cup {Torn})
      /\ Len(part) = n \/ (Len(part) = n + 1 /\ part[n + 1] = Torn)
      /\ \A i \in 1..n : part[i] = s[i]
  <2>1. SubSeq(s, 1, n) \in Seq(Nat \cup {Torn})
    BY <1>2, FileRecords
  <2>2. CASE part = SubSeq(s, 1, n)
    BY <1>2, <2>1, <2>2
  <2>3. CASE part = Append(SubSeq(s, 1, n), Torn)
    <3> DEFINE p == SubSeq(s, 1, n)
    <3>1. p \in Seq(Nat \cup {Torn}) /\ Len(p) = n /\ \A i \in 1..n : p[i] = s[i]
      BY <1>2, <2>1
    <3> HIDE DEF p
    <3>2. /\ Append(p, Torn) \in Seq(Nat \cup {Torn})
          /\ Len(Append(p, Torn)) = n + 1
          /\ Append(p, Torn)[n + 1] = Torn
          /\ \A i \in 1..n : Append(p, Torn)[i] = p[i]
      BY <1>1, <3>1, SMTT(30)
    <3> QED BY <2>3, <3>1, <3>2 DEF p
  <2> QED BY <1>0, <2>2, <2>3
<1>4. \A i \in 1..n : s[i] \in Nat /\ s[i] # Torn /\ i \in 1..Len(s)
  BY <1>1, WalAssumption, SMTT(30)
<1>5. \A i \in DOMAIN part : part[i] # Torn => i \in 1..n /\ part[i] = s[i]
  BY <1>1, <1>3
<1>6. \A i \in DOMAIN part : part[i] = Torn => i = Len(part)
  BY <1>1, <1>3, <1>4
<1>7. Ascending(part)
  BY <1>1, <1>4, <1>5 DEF Ascending
<1>8. Records(part) \subseteq Range(s)
  BY <1>1, <1>4, <1>5 DEF Records, Range
<1> QED BY <1>1, <1>6, <1>7, <1>8

\* append() puts a record behind the others of write_buffer_.
LEMMA AscendingAppend ==
    ASSUME NEW s \in Seq(Nat), Ascending(s), NEW e \in Nat,
           \A x \in Range(s) : x < e
    PROVE  Ascending(Append(s, e))
<1>1. \A i \in 1..Len(s) : s[i] < e
  BY DEF Range
<1> QED BY <1>1, WalAssumption, SMTT(30) DEF Ascending


\* Every step keeps the order: only append(), the swap and the write of
\* doSync, a crash and the constructor touch a buffer or the file.
LEMMA OrderStep == IInv /\ Ordered /\ TornLast /\ [Next]_vars => Ordered' /\ TornLast'
<1> SUFFICES ASSUME IInv, Ordered, TornLast, [Next]_vars
             PROVE  Ordered' /\ TornLast'
  OBVIOUS
<1>t. TypeOK /\ TypeOK'
  BY TypeStep DEF IInv
<1>n. Range(writeBuf) \subseteq Nat /\ Range(syncBuf) \subseteq Nat
  BY <1>t, RangeType DEF TypeOK
<1>f. Records(file) \subseteq Nat
  <2>1. file \in Seq(Nat \cup {Torn})
    BY <1>t DEF TypeOK
  <2> QED BY ONLY <2>1 DEF Records, Range
<1>p. \A part \in PartialWrites(syncBuf) :
          /\ part \in Seq(Nat \cup {Torn}) /\ Ascending(part)
          /\ Records(part) \subseteq Range(syncBuf) /\ syncBuf # <<>>
          /\ \A i \in DOMAIN part : part[i] = Torn => i = Len(part)
  BY <1>t, PartialAscending, PartialWritesType DEF TypeOK, Ordered
<1>a. appended = 0 => syncBuf = <<>>
  <2>1. SUFFICES ASSUME appended = 0, syncBuf # <<>> PROVE FALSE
    OBVIOUS
  <2>2. 1 \in DOMAIN syncBuf
    <3>1. syncBuf \in Seq(Nat)
      BY <1>t DEF TypeOK
    <3> QED BY ONLY <2>1, <3>1
  <2>3. syncBuf[1] \in Range(syncBuf)
    BY <2>2 DEF Range
  <2>4. syncBuf[1] \in Nat /\ base \in Nat /\ base < syncBuf[1] /\ syncBuf[1] <= appended
    BY <1>t, <1>n, <2>3 DEF IInv, Bounds, TypeOK
  <2> QED BY ONLY <2>1, <2>4
<1>c. ASSUME NEW part \in Seq(Nat \cup {Torn}), Ascending(part), syncPc = "write",
             Records(part) \subseteq Range(syncBuf), file' = file \o part
      PROVE  /\ Ascending(file')
             /\ Records(file') = Records(file) \cup Records(part)
             /\ \A x \in Records(part) : x <= appended
  <2>1. \A x \in Records(file), y \in Records(part) : x < y
    BY <1>c DEF Ordered, Pending
  <2>2. Ascending(file')
    BY <1>c, <1>t, <2>1, AscendingConcat DEF Ordered, TypeOK
  <2>3. Range(file') = Range(file) \cup Range(part)
    BY <1>c, <1>t, RangeConcat DEF TypeOK
  <2>4. \A x \in Records(part) : x <= appended
    BY <1>c DEF IInv, Bounds
  <2> QED BY <2>2, <2>3, <2>4 DEF Records
<1>1. ASSUME NEW t \in Threads, AppendRecord(t) PROVE Ordered' /\ TornLast'
  <2>1. /\ writeBuf' = Append(writeBuf, appended + 1) /\ appended' = appended + 1
        /\ UNCHANGED <<syncBuf, file, syncPc, base, faults>>
    BY <1>1 DEF AppendRecord, syncVars, faultVars
  <2>2. /\ writeBuf \in Seq(Nat) /\ appended \in Nat
        /\ \A x \in Range(writeBuf) \cup Range(syncBuf) : x \in Nat /\ x <= appended
    BY <1>t, <1>n DEF IInv, Bounds, TypeOK
  <2>3. Range(writeBuf') = Range(writeBuf) \cup {appended + 1}
    BY <2>1, <2>2, RangeAppend
  <2>4. Ascending(writeBuf')
    <3>1. \A x \in Range(writeBuf) : x < appended + 1
      BY <2>2
    <3> QED BY <2>1, <2>2, <3>1, AscendingAppend DEF Ordered
  <2>5. \A x \in Records(file) : x \in Nat /\ x <= appended
    BY <1>f DEF Ordered
  <2>6. Ordered'
    <3>1. \A x \in Records(file) : x <= appended + 1 /\ x < appended + 1
      BY <2>2, <2>5
    <3>2. \A x \in Range(syncBuf) : x < appended + 1
      BY <2>2
    <3>3. Pending' = Pending \cup {appended + 1}
      BY <2>1, <2>3 DEF Pending
    <3> HIDE DEF Pending
    <3> QED BY <2>1, <2>3, <2>4, <3>1, <3>2, <3>3 DEF Ordered, Records
  <2>7. TornLast'
    BY <2>1, <2>2 DEF TornLast
  <2> QED BY <2>6, <2>7
<1>2. CASE SyncSwap
  <2>1. /\ syncBuf' = writeBuf /\ writeBuf' = <<>> /\ syncPc' = "write"
        /\ syncPc = "swap"
        /\ UNCHANGED <<file, appended, base, faults>>
    BY <1>2 DEF SyncSwap, AfterSwap, ghostVars, faultVars
  <2>2. Range(writeBuf') = {} /\ Range(syncBuf') = Range(writeBuf)
    BY <2>1, RangeEmpty
  <2>3. Pending' = Pending
    BY <2>1, <2>2 DEF Pending
  <2>4. Ascending(writeBuf')
    BY <2>1 DEF Ascending
  <2>5. Ordered'
    BY <2>1, <2>2, <2>3, <2>4 DEF Ordered, Records
  <2>6. TornLast'
    BY <2>1 DEF TornLast
  <2> QED BY <2>5, <2>6
<1>3. CASE SyncWrite
  <2>1. /\ syncPc = "write" /\ syncPc' = "load"
        /\ UNCHANGED <<writeBuf, appended, base>>
        /\ syncBuf' = syncBuf \/ syncBuf' = <<>>
    BY <1>3 DEF SyncWrite, ghostVars
  <2>2. Pending' = Range(writeBuf) /\ Pending = Range(writeBuf) \cup Range(syncBuf)
    BY <2>1 DEF Pending
  <2>3. Ascending(syncBuf')
    BY <2>1 DEF Ascending, Ordered
  <2>4. CASE UNCHANGED <<file, faults>>
    <3>1. Ordered'
      BY <2>1, <2>2, <2>3, <2>4 DEF Ordered, Records
    <3>2. TornLast'
      BY <2>1, <2>4 DEF TornLast
    <3> QED BY <3>1, <3>2
  <2>5. ASSUME NEW part \in Seq(Nat \cup {Torn}), Ascending(part),
               Records(part) \subseteq Range(syncBuf), file' = file \o part
        PROVE  Ordered'
    <3>1. /\ Ascending(file')
          /\ Records(file') = Records(file) \cup Records(part)
          /\ \A x \in Records(part) : x <= appended
      BY <1>c, <2>1, <2>5
    <3> QED BY <2>1, <2>2, <2>3, <2>5, <3>1 DEF Ordered
  <2>6. CASE file' = file \o syncBuf /\ faults' = faults
    <3>1. syncBuf \in Seq(Nat \cup {Torn}) /\ Records(syncBuf) \subseteq Range(syncBuf)
      BY <1>t, FileRecords DEF TypeOK, Records
    <3>2. Ordered'
      BY <2>5, <2>6, <3>1 DEF Ordered
    <3>3. appended = 0 => file' = <<>>
      BY <1>a, <2>6 DEF TornLast
    <3>4. ASSUME faults = 0, base = 0, NEW i \in DOMAIN file' PROVE file'[i] # Torn
      <4>1. \A k \in DOMAIN file : file[k] # Torn
        BY <2>1, <3>4 DEF TornLast
      <4>2. \A k \in DOMAIN syncBuf : syncBuf[k] # Torn
        <5>1. syncBuf \in Seq(Nat) /\ Torn \notin Nat
          BY <1>t, WalAssumption DEF TypeOK
        <5> QED BY ONLY <5>1
      <4>3. file \in Seq(Nat \cup {Torn})
        BY <1>t DEF TypeOK
      <4>4. i \in 1..(Len(file) + Len(syncBuf))
        BY <2>6, <3>1, <3>4, <4>3
      <4>5. CASE i <= Len(file)
        BY <2>6, <3>1, <4>1, <4>3, <4>4, <4>5
      <4>6. CASE i > Len(file)
        <5>1. i - Len(file) \in 1..Len(syncBuf)
          BY <3>1, <4>3, <4>4, <4>6
        <5>2. file'[i] = syncBuf[i - Len(file)]
          BY <2>6, <3>1, <4>3, <4>4, <4>6
        <5> QED BY <3>1, <4>2, <5>1, <5>2
      <4> QED BY <4>3, <4>4, <4>5, <4>6
    <3>5. TornLast'
      BY <2>1, <2>6, <3>3, <3>4 DEF TornLast
    <3> QED BY <3>2, <3>5
  <2>7. CASE /\ \E part \in PartialWrites(syncBuf) : file' = file \o part
             /\ faults' = faults + 1
    <3>1. PICK part \in PartialWrites(syncBuf) : file' = file \o part
      BY <2>7
    <3>2. Ordered'
      BY <1>p, <2>5, <3>1
    <3>3. appended # 0
      BY <1>a, <1>p, <3>1
    <3>4. faults' # 0
      BY <1>t, <2>7 DEF TypeOK
    <3>5. TornLast'
      BY <2>1, <3>3, <3>4 DEF TornLast
    <3> QED BY <3>2, <3>5
  <2> QED BY <1>3, <2>4, <2>6, <2>7 DEF SyncWrite
<1>4. CASE Crash
  <2>1. /\ writeBuf' = <<>> /\ syncBuf' = <<>> /\ syncPc' = "off"
        /\ UNCHANGED <<appended, base, faults>>
        /\ \/ file' = file
           \/ /\ syncPc = "write"
              /\ \E part \in PartialWrites(syncBuf) : file' = file \o part
        /\ syncPc # "off"
    BY <1>4 DEF Crash, ghostVars, IInv, Bounds
  <2>2. /\ Range(writeBuf') = {} /\ Range(syncBuf') = {} /\ Pending' = {}
        /\ Ascending(writeBuf') /\ Ascending(syncBuf')
    BY <2>1, RangeEmpty DEF Pending, Ascending
  <2>3. CASE file' = file
    <3>1. Ordered'
      BY <2>1, <2>2, <2>3 DEF Ordered, Records
    <3>2. TornLast'
      BY <2>1, <2>3 DEF TornLast
    <3> QED BY <3>1, <3>2
  <2>4. ASSUME NEW part \in PartialWrites(syncBuf), file' = file \o part,
               syncPc = "write"
        PROVE  Ordered' /\ TornLast'
    <3>1. /\ part \in Seq(Nat \cup {Torn}) /\ Ascending(part)
          /\ Records(part) \subseteq Range(syncBuf) /\ syncBuf # <<>>
          /\ \A i \in DOMAIN part : part[i] = Torn => i = Len(part)
      BY <1>p, <2>4
    <3>2. /\ Ascending(file')
          /\ Records(file') = Records(file) \cup Records(part)
          /\ \A x \in Records(part) : x <= appended
      BY <1>c, <2>4, <3>1
    <3>3. Ordered'
      BY <2>1, <2>2, <3>2 DEF Ordered
    <3>4. appended # 0
      BY <1>a, <3>1
    <3>5. ASSUME faults = 0, base = 0, NEW i \in DOMAIN file', file'[i] = Torn
          PROVE  i = Len(file')
      <4>1. \A k \in DOMAIN file : file[k] # Torn
        BY <2>4, <3>5 DEF TornLast
      <4>2. file \in Seq(Nat \cup {Torn})
        BY <1>t DEF TypeOK
      <4>3. i \in 1..(Len(file) + Len(part)) /\ Len(file') = Len(file) + Len(part)
        BY <2>4, <3>1, <3>5, <4>2
      <4>4. i > Len(file)
        BY <2>4, <3>1, <3>5, <4>1, <4>2, <4>3
      <4>5. i - Len(file) \in 1..Len(part) /\ file'[i] = part[i - Len(file)]
        BY <2>4, <3>1, <4>2, <4>3, <4>4
      <4>6. i - Len(file) = Len(part)
        BY <3>1, <3>5, <4>5
      <4> QED BY <3>1, <4>2, <4>3, <4>6
    <3>6. TornLast'
      BY <2>1, <3>4, <3>5 DEF TornLast
    <3> QED BY <3>3, <3>6
  <2> QED BY <2>1, <2>3, <2>4
<1>5. CASE Open
  <2>1. /\ writeBuf' = <<>> /\ syncBuf' = <<>> /\ syncPc' = "wait"
        /\ base' = appended
        /\ UNCHANGED <<file, appended, faults>>
    BY <1>5 DEF Open, faultVars
  <2>2. /\ Range(writeBuf') = {} /\ Range(syncBuf') = {} /\ Pending' = {}
        /\ Ascending(writeBuf') /\ Ascending(syncBuf')
    BY <2>1, RangeEmpty DEF Pending, Ascending
  <2>3. Ordered'
    BY <2>1, <2>2 DEF Ordered, Records
  <2>4. TornLast'
    BY <2>1 DEF TornLast
  <2> QED BY <2>3, <2>4
<1>6. CASE /\ UNCHANGED <<writeBuf, syncBuf, file, appended, base, faults>>
           /\ syncPc' # "write" \/ syncPc' = syncPc
           /\ syncPc = "off" => syncPc' = "off"
  <2>1. Pending' \subseteq Pending
    BY <1>6 DEF Pending
  <2>2. Ordered'
    BY <1>6, <2>1 DEF Ordered, Records
  <2>3. TornLast'
    BY <1>6 DEF TornLast
  <2> QED BY <2>2, <2>3
<1>7. ASSUME NEW t \in Threads, FlushBegin(t) \/ CallerStep(t)
      PROVE  Ordered' /\ TornLast'
  BY <1>6, <1>7 DEF FlushBegin, CallerStep, FlushLoad, FlushRequest, FlushReturn,
     FlushCheck, FlushSleep, logVars, syncVars, ghostVars, faultVars
<1>8. CASE SyncWake \/ SyncNothing \/ SyncLoad \/ SyncStore
  BY <1>6, <1>8 DEF SyncWake, SyncNothing, SyncLoad, SyncStore, SyncNext,
     logVars, ghostVars, faultVars
<1>9. CASE Close \/ CloseDone
  BY <1>6, <1>9 DEF Close, CloseDone, syncVars, ghostVars, faultVars
<1>10. CASE UNCHANGED vars
  BY <1>6, <1>10 DEF vars
<1> QED
  BY <1>1, <1>2, <1>3, <1>4, <1>5, <1>7, <1>8, <1>9, <1>10
  DEF Next, SyncThread

\* The order holds of every state of the log, torn writes included, and what
\* the first crash tears is behind everything else (doSync, replay).
THEOREM OrderCorrect == Spec => [](Ordered /\ TornLast)
<1>1. Init => Ordered /\ TornLast
  BY RangeEmpty DEF Init, Ordered, TornLast, Ascending, Records, Pending
<1> QED BY <1>1, InvCorrect, OrderStep, PTL DEF Spec

\* log.bin keeps append order across buffer swaps, failed and short writes,
\* crashes and reopenings, so that replay() applies writes in their order.
THEOREM FileInOrderCorrect == Spec => []FileInOrder
<1>1. Ordered => FileInOrder
  BY DEF Ordered, Ascending, FileInOrder
<1> QED BY <1>1, OrderCorrect, PTL

\* replay() of a log that crashed once stops behind every record that two
\* flushes have settled.
THEOREM ReplayCorrect == Spec => []SettledReplayed
<1>1. IInv /\ TornLast => SettledReplayed
  <2> SUFFICES ASSUME IInv, TornLast, fd, faults = 0, base = 0, NEW r \in 1..promised
               PROVE  r \in Replay(file)
    BY DEF SettledReplayed
  <2>1. (base + 1)..promised \subseteq Records(file) /\ base + 1 = 1
    BY DEF IInv, NothingDropped
  <2>2. PICK i \in DOMAIN file : file[i] = r /\ r # Torn
    BY <2>1 DEF Records, Range
  <2>3. file \in Seq(Nat \cup {Torn})
    BY DEF IInv, TypeOK
  <2>4. \A n \in 1..i : file[n] # Torn
    BY <2>2, <2>3 DEF TornLast
  <2> QED BY <2>2, <2>4 DEF Replay
<1> QED BY <1>1, InvCorrect, OrderCorrect, PTL

-----------------------------------------------------------------------------
(* The write queue.                                                        *)

\* A push() that has begun has a request.
Numbers == \A p \in Producers : prod[p].pc # "idle" => prod[p].n > 0

\* The writer holds a batch only between popBatch and the end of its loop's
\* body, and takes one only from a queue with requests; it ends when there are
\* none and no more can come.
Phases ==
    /\ cons \notin {"apply", "answer"} => batch = <<>> /\ applied = 0
    /\ cons \in {"test", "asleep", "yield", "apply", "exited"} => answered = 0
    /\ cons = "yield" => queue # <<>>
    /\ cons = "exited" => shutdown /\ queue = <<>>

\* Producer p has not queued its request r, nor has it been refused.
Unqueued(p, n) ==
    \/ n > prod[p].n
    \/ n = prod[p].n /\ prod[p].pc \in {"test", "asleep"}

\* A request is queued once, and has no outcome before it is queued.
Queued ==
    /\ \A i, j \in DOMAIN accepted : accepted[i] = accepted[j] => i = j
    /\ \A i \in DOMAIN accepted : ~Unqueued(accepted[i][1], accepted[i][2])
    /\ \A p \in Producers, n \in 1..MaxPushes :
           Unqueued(p, n) => outcome[<<p, n>>] = "none"

QueueInv ==
    /\ QueueTypeOK
    /\ Numbers
    /\ Phases
    /\ InOrder
    /\ Bounded
    /\ Queued
    /\ AnsweredOnce
-----------------------------------------------------------------------------
\* The parts of a sequence that is made of three.
LEMMA ThreeParts ==
    ASSUME NEW S, NEW s \in Seq(S), NEW b \in Seq(S), NEW q \in Seq(S), NEW a,
           a = s \o b \o q
    PROVE  /\ Len(a) = Len(s) + Len(b) + Len(q)
           /\ \A i \in 1..Len(s) : a[i] = s[i]
           /\ \A i \in 1..Len(b) : a[Len(s) + i] = b[i]
           /\ \A i \in 1..Len(q) : a[Len(s) + Len(b) + i] = q[i]
<1>1. PICK sb : sb = s \o b
  OBVIOUS
<1>2. /\ sb \in Seq(S) /\ Len(sb) = Len(s) + Len(b)
      /\ \A i \in 1..(Len(s) + Len(b)) :
             sb[i] = IF i <= Len(s) THEN s[i] ELSE b[i - Len(s)]
  BY <1>1, ConcatProperties
<1>3. a = sb \o q
  BY <1>1
<1>4. /\ Len(a) = Len(sb) + Len(q)
      /\ \A i \in 1..(Len(sb) + Len(q)) :
             a[i] = IF i <= Len(sb) THEN sb[i] ELSE q[i - Len(sb)]
  <2>1. sb \in Seq(S)
    BY <1>2
  <2>2. /\ Len(sb \o q) = Len(sb) + Len(q)
        /\ \A i \in 1..(Len(sb) + Len(q)) :
               (sb \o q)[i] = IF i <= Len(sb) THEN sb[i] ELSE q[i - Len(sb)]
    BY <2>1, ConcatProperties
  <2> QED BY <1>3, <2>2
<1>5. Len(s) \in Nat /\ Len(b) \in Nat /\ Len(q) \in Nat
  OBVIOUS
<1>6. ASSUME NEW i \in 1..Len(s) PROVE a[i] = s[i]
  BY <1>2, <1>4, <1>5
<1>7. ASSUME NEW i \in 1..Len(b) PROVE a[Len(s) + i] = b[i]
  <2>1. /\ Len(s) + i \in 1..(Len(s) + Len(b)) /\ ~(Len(s) + i <= Len(s))
        /\ (Len(s) + i) - Len(s) = i /\ Len(s) + i <= Len(sb)
        /\ Len(s) + i \in 1..(Len(sb) + Len(q))
    BY <1>2, <1>5
  <2>2. a[Len(s) + i] = sb[Len(s) + i]
    BY <1>4, <2>1
  <2>3. sb[Len(s) + i] = b[(Len(s) + i) - Len(s)]
    BY <1>2, <2>1
  <2> QED BY <2>1, <2>2, <2>3
<1>8. ASSUME NEW i \in 1..Len(q) PROVE a[Len(s) + Len(b) + i] = q[i]
  <2>1. /\ Len(sb) + i \in 1..(Len(sb) + Len(q)) /\ ~(Len(sb) + i <= Len(sb))
        /\ (Len(sb) + i) - Len(sb) = i /\ Len(sb) + i = Len(s) + Len(b) + i
    BY <1>2, <1>5
  <2>2. a[Len(sb) + i] = q[(Len(sb) + i) - Len(sb)]
    BY <1>4, <2>1
  <2> QED BY <2>1, <2>2
<1> QED BY <1>2, <1>4, <1>6, <1>7, <1>8

\* The place of a request in the order of arrival tells where it is: settled,
\* in the writer's batch or in the queue.
LEMMA Places ==
    ASSUME QueueTypeOK, InOrder
    PROVE  /\ Len(accepted) = Len(settled) + Len(batch) + Len(queue)
           /\ \A i \in DOMAIN settled : settled[i] = accepted[i]
           /\ \A i \in DOMAIN batch : batch[i] = accepted[Len(settled) + i]
           /\ \A i \in DOMAIN queue :
                  queue[i] = accepted[Len(settled) + Len(batch) + i]
<1>1. /\ settled \in Seq(Requests) /\ batch \in Seq(Requests)
      /\ queue \in Seq(Requests) /\ accepted = settled \o batch \o queue
  BY DEF QueueTypeOK, InOrder
<1>2. /\ DOMAIN settled = 1..Len(settled) /\ DOMAIN batch = 1..Len(batch)
      /\ DOMAIN queue = 1..Len(queue)
  BY <1>1, LenProperties
<1> QED BY <1>1, <1>2, ThreeParts, SMTT(30)

\* No request is in the batch twice, or in the batch and the queue, and none of
\* those that were queued is still to be queued.
LEMMA Distinct ==
    ASSUME QueueTypeOK, InOrder, Queued
    PROVE  /\ \A i \in DOMAIN queue, j \in DOMAIN batch : queue[i] # batch[j]
           /\ \A i, j \in DOMAIN batch : batch[i] = batch[j] => i = j
           /\ \A i \in DOMAIN queue : ~Unqueued(queue[i][1], queue[i][2])
           /\ \A i \in DOMAIN batch : ~Unqueued(batch[i][1], batch[i][2])
           /\ \A i \in DOMAIN settled : ~Unqueued(settled[i][1], settled[i][2])
<1>1. /\ settled \in Seq(Requests) /\ batch \in Seq(Requests)
      /\ queue \in Seq(Requests) /\ accepted \in Seq(Requests)
  BY DEF QueueTypeOK
<1>2. /\ \A i, j \in DOMAIN accepted : accepted[i] = accepted[j] => i = j
      /\ \A i \in DOMAIN accepted : ~Unqueued(accepted[i][1], accepted[i][2])
  BY DEF Queued
<1>3. /\ \A i \in DOMAIN settled : i \in DOMAIN accepted
      /\ \A i \in DOMAIN batch : Len(settled) + i \in DOMAIN accepted
      /\ \A i \in DOMAIN queue : Len(settled) + Len(batch) + i \in DOMAIN accepted
  BY <1>1, Places
<1>4. ASSUME NEW i \in DOMAIN queue, NEW j \in DOMAIN batch
      PROVE  queue[i] # batch[j]
  <2>1. Len(settled) + Len(batch) + i # Len(settled) + j
    BY <1>1
  <2> QED BY <1>2, <1>3, <2>1, Places
<1>5. ASSUME NEW i \in DOMAIN batch, NEW j \in DOMAIN batch, batch[i] = batch[j]
      PROVE  i = j
  <2>1. Len(settled) + i = Len(settled) + j
    BY <1>2, <1>3, <1>5, Places
  <2> QED BY <1>1, <2>1
<1>6. \A i \in DOMAIN queue : ~Unqueued(queue[i][1], queue[i][2])
  BY <1>2, <1>3, Places
<1>7. \A i \in DOMAIN batch : ~Unqueued(batch[i][1], batch[i][2])
  BY <1>2, <1>3, Places
<1>8. \A i \in DOMAIN settled : ~Unqueued(settled[i][1], settled[i][2])
  BY <1>2, <1>3, Places
<1> QED BY <1>4, <1>5, <1>6, <1>7, <1>8

\* push() of an accepted request keeps the order of arrival.
LEMMA AppendInOrder ==
    ASSUME NEW s \in Seq(Requests), NEW b \in Seq(Requests),
           NEW q \in Seq(Requests), NEW r \in Requests
    PROVE  Append(s \o b \o q, r) = s \o b \o Append(q, r)
<1>1. /\ s \o b \in Seq(Requests) /\ s \o b \o q \in Seq(Requests)
      /\ <<r>> \in Seq(Requests)
  BY ConcatProperties
<1>2. Append(s \o b \o q, r) = (s \o b \o q) \o <<r>>
  BY <1>1, AppendIsConcat
<1>3. Append(q, r) = q \o <<r>>
  BY AppendIsConcat
<1>4. (s \o b \o q) \o <<r>> = (s \o b) \o (q \o <<r>>)
  BY <1>1, ConcatAssociative, SMTT(30)
<1> QED BY <1>2, <1>3, <1>4

\* popBatch cuts the queue in two.
LEMMA CutInOrder ==
    ASSUME NEW S, NEW q \in Seq(S), NEW n \in 0..Len(q)
    PROVE  /\ SubSeq(q, 1, n) \in Seq(S) /\ Len(SubSeq(q, 1, n)) = n
           /\ SubSeq(q, n + 1, Len(q)) \in Seq(S)
           /\ Len(SubSeq(q, n + 1, Len(q))) = Len(q) - n
           /\ SubSeq(q, 1, n) \o SubSeq(q, n + 1, Len(q)) = q
           /\ \A i \in 1..n : SubSeq(q, 1, n)[i] = q[i]
           /\ \A i \in 1..(Len(q) - n) : SubSeq(q, n + 1, Len(q))[i] = q[n + i]
<1>1. Len(q) \in Nat /\ \A i \in 1..Len(q) : q[i] \in S
  BY ElementOfSeq, LenProperties
<1>2. /\ SubSeq(q, 1, n) \in Seq(S) /\ Len(SubSeq(q, 1, n)) = n
      /\ \A i \in 1..n : SubSeq(q, 1, n)[i] = q[i]
  <2>1. \A i \in 1..n : q[i] \in S
    BY <1>1
  <2> QED BY <1>1, <2>1, SubSeqProperties
<1>3. /\ SubSeq(q, n + 1, Len(q)) \in Seq(S)
      /\ Len(SubSeq(q, n + 1, Len(q))) = Len(q) - n
      /\ \A i \in 1..(Len(q) - n) : SubSeq(q, n + 1, Len(q))[i] = q[n + i]
  <2>1. \A i \in (n + 1)..Len(q) : q[i] \in S
    BY <1>1
  <2>2. /\ SubSeq(q, n + 1, Len(q)) \in Seq(S)
        /\ Len(SubSeq(q, n + 1, Len(q))) =
               IF n + 1 <= Len(q) THEN Len(q) - (n + 1) + 1 ELSE 0
        /\ \A i \in 1..(Len(q) - (n + 1) + 1) :
               SubSeq(q, n + 1, Len(q))[i] = q[(n + 1) + i - 1]
    BY <1>1, <2>1, SubSeqProperties
  <2> QED BY <1>1, <2>2
<1>4. SubSeq(q, 1, n) \o SubSeq(q, n + 1, Len(q)) = q
  <2>1. SubSeq(q, 1, n) \o SubSeq(q, n + 1, Len(q)) = SubSeq(q, 1, Len(q))
    <3>1. 1 \in 1..Len(q) + 1 /\ n \in 1 - 1..Len(q) /\ Len(q) \in n..Len(q)
      BY <1>1
    <3> QED BY <3>1, ConcatAdjacentSubSeq
  <2> QED BY <2>1, SubSeqFull
<1> QED BY <1>2, <1>3, <1>4

-----------------------------------------------------------------------------
\* The engine's constructor: nothing queued, nobody waiting.
LEMMA QueueInvInit == QueueInit => QueueInv
<1> SUFFICES ASSUME QueueInit PROVE QueueInv
  OBVIOUS
<1>1. QueueTypeOK
  <2>1. {0} \subseteq 0..MaxPushes /\ 0 \in 0..MaxThrows
    BY QueueAssumption DEF QueueAssumption
  <2>2. /\ <<>> \in Seq(Requests) /\ Len(<<>>) = 0 /\ 0 \in 0..0
    OBVIOUS
  <2>3. prod \in [Producers -> [pc : {"idle", "test", "asleep", "notify"},
                                n : 0..MaxPushes]]
    BY <2>1 DEF QueueInit
  <2>4. outcome \in [Requests -> {"none", "true", "false", "broken"}]
    BY DEF QueueInit
  <2>5. applied \in 0..Len(batch) /\ answered \in 0..applied
    BY <2>2 DEF QueueInit
  <2> QED BY <2>1, <2>2, <2>3, <2>4, <2>5 DEF QueueInit, QueueTypeOK
<1>2. Numbers /\ Phases
  BY DEF QueueInit, Numbers, Phases
<1>3. InOrder
  <2>1. <<>> \o <<>> \o <<>> = <<>>
    OBVIOUS
  <2> QED BY <2>1 DEF QueueInit, InOrder
<1>4. Bounded
  BY QueueAssumption DEF QueueInit, Bounded, QueueAssumption
<1>5. Queued /\ AnsweredOnce
  BY DEF QueueInit, Queued, AnsweredOnce, Requests
<1> QED BY <1>1, <1>2, <1>3, <1>4, <1>5 DEF QueueInv

\* A step that moves no request and sets no promise keeps what is said of
\* them, whatever it does to the threads.
LEMMA NothingMoves ==
    ASSUME QueueInv, UNCHANGED <<queue, batch, accepted, settled, outcome, answered>>,
           \A p \in Producers, n \in 1..MaxPushes : Unqueued(p, n)' <=> Unqueued(p, n)
    PROVE  InOrder' /\ Bounded' /\ Queued' /\ AnsweredOnce'
<1>1. InOrder' /\ Bounded' /\ AnsweredOnce'
  BY DEF QueueInv, InOrder, Bounded, AnsweredOnce
<1>2. Queued'
  <2>1. accepted \in Seq(Requests) /\ Queued
    BY DEF QueueInv, QueueTypeOK
  <2>2. \A i \in DOMAIN accepted :
            accepted[i][1] \in Producers /\ accepted[i][2] \in 1..MaxPushes
    BY <2>1 DEF Requests
  <2>3. \A i \in DOMAIN accepted' : ~Unqueued(accepted[i][1], accepted[i][2])'
    BY <2>1, <2>2 DEF Queued
  <2>4. \A p \in Producers, n \in 1..MaxPushes :
            Unqueued(p, n)' => outcome'[<<p, n>>] = "none"
    BY <2>1 DEF Queued
  <2> QED BY <2>1, <2>3, <2>4 DEF Queued
<1> QED BY <1>1, <1>2

\* The request of a thread inside push(), before it is queued or refused.
LEMMA RequestType ==
    ASSUME QueueTypeOK, Numbers, NEW p \in Producers, prod[p].pc = "test"
    PROVE  /\ Request(p) \in Requests
           /\ Request(p)[1] = p /\ Request(p)[2] = prod[p].n
           /\ prod[p].n \in 1..MaxPushes
           /\ Unqueued(p, prod[p].n)
<1>1. prod[p].n \in 0..MaxPushes /\ prod[p].n > 0 /\ MaxPushes \in Nat
  BY QueueAssumption DEF QueueTypeOK, Numbers, QueueAssumption
<1>2. prod[p].n \in 1..MaxPushes
  BY <1>1
<1>3. Request(p) = <<p, prod[p].n>>
  BY DEF Request
<1>4. Unqueued(p, prod[p].n)
  BY DEF Unqueued
<1> QED BY <1>2, <1>3, <1>4 DEF Requests

\* Nothing that was queued is the request push() has at hand.
LEMMA RequestNew ==
    ASSUME QueueTypeOK, Numbers, Queued, NEW p \in Producers, prod[p].pc = "test"
    PROVE  \A i \in DOMAIN accepted : accepted[i] # Request(p)
BY RequestType DEF Queued

\* When a request is queued or refused, it is the only one that stops waiting
\* to be queued.
LEMMA RequestLeaves ==
    ASSUME QueueTypeOK, Numbers, NEW p \in Producers, prod[p].pc = "test",
           NEW s \in {"idle", "notify"}, prod' = [prod EXCEPT ![p].pc = s]
    PROVE  \A q \in Producers, n \in 1..MaxPushes :
               Unqueued(q, n)' <=> Unqueued(q, n) /\ <<q, n>> # Request(p)
<1> SUFFICES ASSUME NEW q \in Producers, NEW n \in 1..MaxPushes
             PROVE  Unqueued(q, n)' <=> Unqueued(q, n) /\ <<q, n>> # Request(p)
  OBVIOUS
<1>1. prod[q].n \in 0..MaxPushes /\ prod'[q].n = prod[q].n
  BY DEF QueueTypeOK
<1>2. CASE q = p
  <2>1. prod'[q].pc = s
    BY <1>2 DEF QueueTypeOK
  <2> QED BY <1>1, <1>2, <2>1, QueueAssumption
          DEF Unqueued, Request, QueueAssumption
<1>3. CASE q # p
  <2>1. prod'[q] = prod[q]
    BY <1>3 DEF QueueTypeOK
  <2> QED BY <1>3, <2>1 DEF Unqueued, Request
<1> QED BY <1>2, <1>3

\* push() queues the request.
LEMMA AcceptStep ==
    ASSUME QueueInv, NEW p \in Producers, PushAccept(p)
    PROVE  QueueInv'
<1> DEFINE r == Request(p)
<1>1. /\ QueueTypeOK /\ Numbers /\ Phases /\ InOrder /\ Bounded /\ Queued
      /\ AnsweredOnce /\ prod[p].pc = "test" /\ ~shutdown /\ Len(queue) < MaxSize
  BY DEF QueueInv, PushAccept
<1>2. /\ r \in Requests /\ queue \in Seq(Requests) /\ accepted \in Seq(Requests)
      /\ batch \in Seq(Requests) /\ settled \in Seq(Requests)
      /\ r[1] = p /\ r[2] = prod[p].n /\ prod[p].n \in 1..MaxPushes
      /\ Unqueued(p, prod[p].n)
  BY <1>1, RequestType DEF QueueTypeOK
<1>3. /\ queue' = Append(queue, r) /\ accepted' = Append(accepted, r)
      /\ prod' = [prod EXCEPT ![p].pc = "notify"]
      /\ UNCHANGED <<shutdown, cons, batch, applied, failed, answered, closer,
                     outcome, settled, throws>>
  BY DEF PushAccept, writerVars
<1> HIDE DEF r
<1>4. /\ Len(queue') = Len(queue) + 1
      /\ \A i \in 1..Len(queue) : queue'[i] = queue[i]
      /\ queue'[Len(queue) + 1] = r /\ queue' \in Seq(Requests)
      /\ queue' # <<>>
  BY <1>2, <1>3, AppendProperties
<1>5. /\ Len(accepted') = Len(accepted) + 1
      /\ \A i \in 1..Len(accepted) : accepted'[i] = accepted[i]
      /\ accepted'[Len(accepted) + 1] = r /\ accepted' \in Seq(Requests)
  BY <1>2, <1>3, AppendProperties
<1>6. QueueTypeOK'
  <2>1. prod' \in [Producers -> [pc : {"idle", "test", "asleep", "notify"},
                                 n : 0..MaxPushes]]
    BY <1>1, <1>3 DEF QueueTypeOK
  <2> QED BY <1>1, <1>3, <1>4, <1>5, <2>1 DEF QueueTypeOK
<1>7. Numbers'
  BY <1>1, <1>2, <1>3, QueueAssumption DEF Numbers, QueueTypeOK, QueueAssumption
<1>8. Phases'
  BY <1>1, <1>3, <1>4 DEF Phases
<1>9. InOrder'
  <2>1. Append(settled \o batch \o queue, r) = settled \o batch \o Append(queue, r)
    BY <1>2, AppendInOrder, ZenonT(60)
  <2> QED BY <1>1, <1>3, <2>1 DEF InOrder
<1>10. Bounded'
  BY <1>1, <1>2, <1>4, QueueAssumption DEF Bounded, QueueAssumption
<1>11. Queued'
  <2>1. \A q \in Producers, n \in 1..MaxPushes :
            Unqueued(q, n)' <=> Unqueued(q, n) /\ <<q, n>> # r
    BY <1>1, <1>3, RequestLeaves DEF r
  <2>2. \A i \in DOMAIN accepted : accepted[i] # r
    BY <1>1, RequestNew DEF r
  <2>3. DOMAIN accepted = 1..Len(accepted) /\ DOMAIN accepted' = 1..(Len(accepted) + 1)
    BY <1>2, <1>5
  <2>4. \A i, j \in DOMAIN accepted' : accepted'[i] = accepted'[j] => i = j
    <3>1. \A i, j \in 1..Len(accepted) : accepted[i] = accepted[j] => i = j
      BY <1>1, <2>3 DEF Queued
    <3> QED BY <1>2, <1>5, <2>2, <2>3, <3>1, SMTT(30)
  <2>5. ASSUME NEW i \in DOMAIN accepted'
        PROVE  ~Unqueued(accepted[i][1], accepted[i][2])'
    <3>1. CASE i \in 1..Len(accepted)
      <4>1. /\ accepted[i] \in Requests /\ accepted'[i] = accepted[i]
            /\ ~Unqueued(accepted[i][1], accepted[i][2]) /\ accepted[i] # r
        BY <1>1, <1>2, <1>5, <2>2, <2>3, <3>1 DEF Queued
      <4>2. PICK q \in Producers, n \in 1..MaxPushes : accepted[i] = <<q, n>>
        BY <4>1 DEF Requests
      <4>3. ~Unqueued(q, n)'
        BY <2>1, <4>1, <4>2
      <4> QED BY <4>1, <4>2, <4>3 DEF Unqueued
    <3>2. CASE i = Len(accepted) + 1
      <4>1. accepted'[i][1] = p /\ accepted'[i][2] = prod[p].n
        BY <1>2, <1>5, <3>2
      <4>2. prod'[p].n = prod[p].n /\ prod'[p].pc = "notify"
        BY <1>1, <1>3 DEF QueueTypeOK
      <4>3. ~(prod[p].n > prod'[p].n)
        BY <1>2, <4>2, QueueAssumption DEF QueueAssumption
      <4> QED BY <4>1, <4>2, <4>3 DEF Unqueued
    <3> QED BY <1>2, <2>3, <3>1, <3>2
  <2>6. \A q \in Producers, n \in 1..MaxPushes :
            Unqueued(q, n)' => outcome'[<<q, n>>] = "none"
    BY <1>1, <1>3, <2>1 DEF Queued
  <2> QED BY <2>4, <2>5, <2>6 DEF Queued
<1>12. AnsweredOnce'
  <2>1. outcome[r] = "none"
    <3>1. r = <<p, prod[p].n>>
      BY DEF r, Request
    <3> QED BY <1>1, <1>2, <3>1 DEF Queued
  <2>2. \A i \in DOMAIN queue' : outcome'[queue'[i]] = "none"
    <3>1. DOMAIN queue = 1..Len(queue) /\ DOMAIN queue' = 1..(Len(queue) + 1)
      BY <1>2, <1>4
    <3> QED BY <1>1, <1>2, <1>3, <1>4, <2>1, <3>1 DEF AnsweredOnce
  <2> QED BY <1>1, <1>3, <2>2 DEF AnsweredOnce
<1> QED BY <1>6, <1>7, <1>8, <1>9, <1>10, <1>11, <1>12 DEF QueueInv

\* push() refuses the request: shutdown() has been called.
LEMMA RefuseStep ==
    ASSUME QueueInv, NEW p \in Producers, PushRefuse(p)
    PROVE  QueueInv'
<1> DEFINE r == Request(p)
<1>1. /\ QueueTypeOK /\ Numbers /\ Phases /\ InOrder /\ Bounded /\ Queued
      /\ AnsweredOnce /\ prod[p].pc = "test" /\ shutdown
  BY DEF QueueInv, PushRefuse
<1>2. /\ queue \in Seq(Requests) /\ accepted \in Seq(Requests)
      /\ batch \in Seq(Requests) /\ settled \in Seq(Requests)
      /\ r \in Requests /\ r[1] = p /\ r[2] = prod[p].n
      /\ Unqueued(p, prod[p].n) /\ prod[p].n \in 1..MaxPushes
      /\ outcome \in [Requests -> {"none", "true", "false", "broken"}]
  BY <1>1, RequestType DEF QueueTypeOK
<1>3. /\ outcome' = [outcome EXCEPT ![r] = "false"]
      /\ prod' = [prod EXCEPT ![p].pc = "idle"]
      /\ UNCHANGED <<queue, shutdown, cons, batch, applied, failed, answered,
                     closer, accepted, settled, throws>>
  BY DEF PushRefuse, writerVars
<1> HIDE DEF r
<1>4. /\ outcome' \in [Requests -> {"none", "true", "false", "broken"}]
      /\ \A x \in Requests : x # r => outcome'[x] = outcome[x]
  BY <1>2, <1>3
<1>5. QueueTypeOK'
  <2>1. prod' \in [Producers -> [pc : {"idle", "test", "asleep", "notify"},
                                 n : 0..MaxPushes]]
    BY <1>1, <1>3 DEF QueueTypeOK
  <2> QED BY <1>1, <1>3, <1>4, <2>1 DEF QueueTypeOK
<1>6. Numbers' /\ Phases'
  BY <1>1, <1>3 DEF Numbers, QueueTypeOK, Phases
<1>7. InOrder' /\ Bounded'
  BY <1>1, <1>3 DEF InOrder, Bounded
<1>8. Queued'
  <2>1. \A q \in Producers, n \in 1..MaxPushes :
            Unqueued(q, n)' <=> Unqueued(q, n) /\ <<q, n>> # r
    BY <1>1, <1>3, RequestLeaves DEF r
  <2>2. ASSUME NEW i \in DOMAIN accepted'
        PROVE  ~Unqueued(accepted[i][1], accepted[i][2])'
    <3>1. accepted[i] \in Requests /\ ~Unqueued(accepted[i][1], accepted[i][2])
      BY <1>1, <1>2, <1>3 DEF Queued
    <3>2. PICK q \in Producers, n \in 1..MaxPushes : accepted[i] = <<q, n>>
      BY <3>1 DEF Requests
    <3>3. ~Unqueued(q, n)'
      BY <2>1, <3>1, <3>2
    <3> QED BY <1>3, <3>2, <3>3 DEF Unqueued
  <2>3. ASSUME NEW q \in Producers, NEW n \in 1..MaxPushes, Unqueued(q, n)'
        PROVE  outcome'[<<q, n>>] = "none"
    <3>1. Unqueued(q, n) /\ <<q, n>> # r /\ <<q, n>> \in Requests
      BY <2>1, <2>3 DEF Requests
    <3> QED BY <1>1, <1>4, <3>1 DEF Queued
  <2> QED BY <1>1, <1>3, <2>2, <2>3 DEF Queued
<1>9. AnsweredOnce'
  <2>1. /\ \A i \in DOMAIN queue : queue[i] # r
        /\ \A i \in DOMAIN batch : batch[i] # r
        /\ \A i \in DOMAIN settled : settled[i] # r
    BY <1>1, <1>2, Distinct
  <2>2. /\ \A i \in DOMAIN queue : queue[i] \in Requests
        /\ \A i \in DOMAIN batch : batch[i] \in Requests
        /\ \A i \in DOMAIN settled : settled[i] \in Requests
    BY <1>2
  <2>3. /\ \A i \in DOMAIN queue : outcome'[queue[i]] = outcome[queue[i]]
        /\ \A i \in DOMAIN batch : outcome'[batch[i]] = outcome[batch[i]]
        /\ \A i \in DOMAIN settled : outcome'[settled[i]] = outcome[settled[i]]
    BY <1>4, <2>1, <2>2
  <2> QED BY <1>1, <1>3, <2>3 DEF AnsweredOnce
<1> QED BY <1>5, <1>6, <1>7, <1>8, <1>9 DEF QueueInv

\* The steps of a thread in push() that neither queue nor refuse a request.
LEMMA PushStep ==
    ASSUME QueueInv, NEW p \in Producers, PushCall(p) \/ PushWait(p) \/ PushNotify(p)
    PROVE  QueueInv'
<1>1. QueueTypeOK /\ Numbers /\ Phases
  BY DEF QueueInv
<1>2. /\ UNCHANGED <<queue, shutdown, batch, applied, failed, answered, closer,
                     outcome, accepted, settled, throws>>
      /\ cons' \in {cons, Woken}
  BY DEF PushCall, PushWait, PushNotify, writerVars
<1>3. /\ prod' \in [Producers -> [pc : {"idle", "test", "asleep", "notify"},
                                  n : 0..MaxPushes]]
      /\ Numbers'
  <2>1. CASE PushCall(p)
    BY <1>1, <2>1, QueueAssumption DEF PushCall, QueueTypeOK, Numbers, QueueAssumption
  <2>2. CASE PushWait(p)
    BY <1>1, <2>2 DEF PushWait, QueueTypeOK, Numbers
  <2>3. CASE PushNotify(p)
    BY <1>1, <2>3 DEF PushNotify, QueueTypeOK, Numbers
  <2> QED BY <2>1, <2>2, <2>3
<1>4. QueueTypeOK' /\ Phases'
  BY <1>1, <1>2, <1>3 DEF QueueTypeOK, Phases, Woken
<1>5. ASSUME NEW q \in Producers, NEW n \in 1..MaxPushes
      PROVE  Unqueued(q, n)' <=> Unqueued(q, n)
  <2>1. prod[q].n \in 0..MaxPushes /\ MaxPushes \in Nat
    BY <1>1, QueueAssumption DEF QueueTypeOK, QueueAssumption
  <2>2. CASE PushCall(p)
    <3>1. prod'[q] = IF q = p THEN [pc |-> "test", n |-> prod[p].n + 1] ELSE prod[q]
      BY <1>1, <2>2 DEF PushCall, QueueTypeOK
    <3>2. prod[p].pc = "idle"
      BY <2>2 DEF PushCall
    <3> QED BY <2>1, <3>1, <3>2 DEF Unqueued
  <2>3. CASE PushWait(p) \/ PushNotify(p)
    <3>1. /\ prod'[q].n = prod[q].n
          /\ prod'[q].pc \in {"test", "asleep"} <=> prod[q].pc \in {"test", "asleep"}
      <4>1. CASE PushWait(p)
        <5>1. prod'[q] = IF q = p THEN [prod[p] EXCEPT !.pc = "asleep"] ELSE prod[q]
          BY <1>1, <4>1 DEF PushWait, QueueTypeOK
        <5> QED BY <1>1, <4>1, <5>1 DEF PushWait, QueueTypeOK
      <4>2. CASE PushNotify(p)
        <5>1. prod'[q] = IF q = p THEN [prod[p] EXCEPT !.pc = "idle"] ELSE prod[q]
          BY <1>1, <4>2 DEF PushNotify, QueueTypeOK
        <5> QED BY <1>1, <4>2, <5>1 DEF PushNotify, QueueTypeOK
      <4> QED BY <2>3, <4>1, <4>2
    <3> QED BY <3>1 DEF Unqueued
  <2> QED BY <2>2, <2>3
<1>6. InOrder' /\ Bounded' /\ Queued' /\ AnsweredOnce'
  BY <1>2, <1>5, NothingMoves
<1> QED BY <1>3, <1>4, <1>6 DEF QueueInv

\* Waking threads that sleep in push() leaves their requests as they were.
LEMMA Wakes ==
    ASSUME QueueTypeOK, Numbers, NEW woken \in SUBSET Sleepers,
           prod' = [p \in Producers |-> IF p \in woken
                                        THEN [prod[p] EXCEPT !.pc = "test"]
                                        ELSE prod[p]]
    PROVE  /\ prod' \in [Producers -> [pc : {"idle", "test", "asleep", "notify"},
                                       n : 0..MaxPushes]]
           /\ Numbers'
           /\ \A q \in Producers, n \in 1..MaxPushes :
                  Unqueued(q, n)' <=> Unqueued(q, n)
<1>1. \A p \in Producers :
          /\ prod[p] \in [pc : {"idle", "test", "asleep", "notify"}, n : 0..MaxPushes]
          /\ prod'[p].n = prod[p].n
          /\ prod'[p] \in [pc : {"idle", "test", "asleep", "notify"}, n : 0..MaxPushes]
          /\ prod'[p].pc \in {"test", "asleep"} <=> prod[p].pc \in {"test", "asleep"}
          /\ prod'[p].pc # "idle" => prod[p].pc # "idle"
  BY DEF QueueTypeOK, Sleepers
<1>2. prod' \in [Producers -> [pc : {"idle", "test", "asleep", "notify"},
                               n : 0..MaxPushes]]
  BY <1>1
<1>3. Numbers'
  BY <1>1 DEF Numbers
<1> QED BY <1>1, <1>2, <1>3 DEF Unqueued

\* popBatch() takes a batch and wakes producers.
LEMMA TakeStep ==
    ASSUME QueueInv, PopTake
    PROVE  QueueInv'
<1> DEFINE n == BatchSize
<1>1. /\ QueueTypeOK /\ Numbers /\ Phases /\ InOrder /\ Bounded /\ Queued
      /\ AnsweredOnce
      /\ batch = <<>> /\ queue \in Seq(Requests) /\ settled \in Seq(Requests)
  BY DEF QueueInv, PopTake, Phases, QueueTypeOK
<1>2. /\ n \in 0..Len(queue)
      /\ batch' = SubSeq(queue, 1, n) /\ queue' = SubSeq(queue, n + 1, Len(queue))
      /\ cons' = "apply" /\ applied' = 0 /\ failed' = FALSE /\ answered' = 0
      /\ UNCHANGED <<shutdown, closer, outcome, accepted, settled, throws>>
  BY <1>1, QueueAssumption DEF PopTake, BatchSize, QueueAssumption
<1>3. PICK woken \in SUBSET Sleepers :
          prod' = [p \in Producers |-> IF p \in woken
                                       THEN [prod[p] EXCEPT !.pc = "test"]
                                       ELSE prod[p]]
  BY DEF PopTake, WakeProducers
<1> HIDE DEF n
<1>4. /\ batch' \in Seq(Requests) /\ Len(batch') = n
      /\ queue' \in Seq(Requests) /\ Len(queue') = Len(queue) - n
      /\ batch' \o queue' = queue
      /\ \A i \in 1..n : batch'[i] = queue[i]
      /\ \A i \in 1..(Len(queue) - n) : queue'[i] = queue[n + i]
  BY <1>1, <1>2, CutInOrder
<1>5. /\ prod' \in [Producers -> [pc : {"idle", "test", "asleep", "notify"},
                                  n : 0..MaxPushes]]
      /\ Numbers'
      /\ \A q \in Producers, m \in 1..MaxPushes : Unqueued(q, m)' <=> Unqueued(q, m)
  BY <1>1, <1>3, Wakes
<1>6. QueueTypeOK'
  <2>1. applied' \in 0..Len(batch') /\ answered' \in 0..applied'
    BY <1>1, <1>2, <1>4
  <2> QED BY <1>1, <1>2, <1>4, <1>5, <2>1 DEF QueueTypeOK
<1>7. Phases'
  BY <1>2 DEF Phases
<1>8. InOrder'
  <2>1. settled \o batch = settled
    BY <1>1, ConcatEmptySeq
  <2>2. batch' \in Seq(Requests) /\ queue' \in Seq(Requests)
    BY <1>4
  <2>3. (settled \o batch') \o queue' = settled \o (batch' \o queue')
    BY <1>1, <2>2, ConcatAssociative
  <2>4. accepted = settled \o queue
    BY <1>1, <2>1 DEF InOrder
  <2>5. settled \o (batch' \o queue') = settled \o queue
    BY <1>4
  <2> QED BY <1>2, <2>3, <2>4, <2>5 DEF InOrder
<1>9. Bounded'
  BY <1>1, <1>2, <1>4, QueueAssumption DEF Bounded, QueueAssumption
<1>10. Queued'
  <2>1. ASSUME NEW i \in DOMAIN accepted'
        PROVE  ~Unqueued(accepted[i][1], accepted[i][2])'
    <3>1. accepted[i] \in Requests /\ ~Unqueued(accepted[i][1], accepted[i][2])
      BY <1>1, <1>2 DEF Queued, QueueTypeOK
    <3>2. PICK q \in Producers, m \in 1..MaxPushes : accepted[i] = <<q, m>>
      BY <3>1 DEF Requests
    <3>3. ~Unqueued(q, m)'
      BY <1>5, <3>1, <3>2
    <3> QED BY <1>2, <3>2, <3>3 DEF Unqueued
  <2> QED BY <1>1, <1>2, <1>5, <2>1 DEF Queued
<1>11. AnsweredOnce'
  <2>1. /\ DOMAIN queue = 1..Len(queue) /\ DOMAIN batch' = 1..n
        /\ DOMAIN queue' = 1..(Len(queue) - n) /\ Len(queue) \in Nat
    <3>1. /\ batch' \in Seq(Requests) /\ Len(batch') = n
          /\ queue' \in Seq(Requests) /\ Len(queue') = Len(queue) - n
      BY <1>4
    <3> QED BY <1>1, <3>1, LenProperties
  <2>2. ASSUME NEW i \in DOMAIN queue' PROVE outcome'[queue'[i]] = "none"
    <3>1. n + i \in DOMAIN queue
      BY <1>2, <2>1
    <3>2. queue'[i] = queue[n + i]
      BY <1>4, <2>1
    <3>3. outcome[queue[n + i]] = "none"
      BY <1>1, <3>1 DEF AnsweredOnce
    <3> QED BY <1>2, <3>2, <3>3
  <2>3. \A i \in DOMAIN batch' : outcome'[batch'[i]] = "none" /\ i > answered'
    <3>1. \A i \in DOMAIN batch' : i \in DOMAIN queue /\ i > 0
      BY <1>2, <2>1
    <3> QED BY <1>1, <1>2, <1>4, <2>1, <3>1, ZenonT(60) DEF AnsweredOnce
  <2> QED BY <1>1, <1>2, <2>2, <2>3 DEF AnsweredOnce
<1> QED BY <1>5, <1>6, <1>7, <1>8, <1>9, <1>10, <1>11 DEF QueueInv

\* The writer sets a promise of its batch.
LEMMA AnswerStep ==
    ASSUME QueueInv, WriterAnswer
    PROVE  QueueInv'
<1> DEFINE b == batch[answered + 1]
<1>1. /\ QueueTypeOK /\ Numbers /\ Phases /\ InOrder /\ Bounded /\ Queued
      /\ AnsweredOnce /\ cons = "answer" /\ answered < applied
      /\ queue \in Seq(Requests) /\ batch \in Seq(Requests)
      /\ settled \in Seq(Requests)
      /\ applied \in 0..Len(batch) /\ answered \in 0..applied
      /\ outcome \in [Requests -> {"none", "true", "false", "broken"}]
  BY DEF QueueInv, WriterAnswer, QueueTypeOK
<1>2. PICK v \in {"true", "false"} :
          /\ outcome' = [outcome EXCEPT ![b] = v] /\ answered' = answered + 1
          /\ UNCHANGED <<queue, shutdown, prod, cons, batch, applied, failed,
                         closer, accepted, settled, throws>>
  BY DEF WriterAnswer
<1>3. answered + 1 \in DOMAIN batch /\ b \in Requests
  BY <1>1
<1> HIDE DEF b
<1>4. /\ outcome' \in [Requests -> {"none", "true", "false", "broken"}]
      /\ outcome'[b] = v
      /\ \A x \in Requests : x # b => outcome'[x] = outcome[x]
  BY <1>1, <1>2, <1>3
<1>5. QueueTypeOK'
  <2>1. answered' \in 0..applied
    BY <1>1, <1>2
  <2> QED BY <1>1, <1>2, <1>4, <2>1 DEF QueueTypeOK
<1>6. Numbers' /\ Phases' /\ InOrder' /\ Bounded'
  BY <1>1, <1>2 DEF Numbers, Phases, InOrder, Bounded
<1>7. Queued'
  <2>1. ASSUME NEW q \in Producers, NEW n \in 1..MaxPushes, Unqueued(q, n)
        PROVE  outcome'[<<q, n>>] = "none"
    <3>1. ~Unqueued(b[1], b[2])
      BY <1>1, <1>3, Distinct DEF b
    <3>2. <<q, n>> # b /\ <<q, n>> \in Requests
      BY <2>1, <3>1 DEF Requests
    <3> QED BY <1>1, <1>4, <2>1, <3>2 DEF Queued
  <2> QED BY <1>1, <1>2, <2>1 DEF Queued, Unqueued
<1>8. AnsweredOnce'
  <2>1. ASSUME NEW i \in DOMAIN queue PROVE outcome'[queue[i]] = "none"
    <3>1. queue[i] \in Requests /\ queue[i] # b
      BY <1>1, <1>3, Distinct DEF b
    <3> QED BY <1>1, <1>4, <3>1 DEF AnsweredOnce
  <2>2. ASSUME NEW i \in DOMAIN settled PROVE outcome'[settled[i]] # "none"
    <3>1. settled[i] \in Requests
      BY <1>1
    <3> QED BY <1>1, <1>4, <3>1 DEF AnsweredOnce
  <2>3. ASSUME NEW i \in DOMAIN batch
        PROVE  outcome'[batch[i]] = "none" <=> i > answered + 1
    <3>1. i \in Nat /\ answered \in Nat /\ batch[i] \in Requests
      BY <1>1
    <3>2. CASE i = answered + 1
      BY <1>4, <3>1, <3>2 DEF b
    <3>3. CASE i # answered + 1
      <4>1. batch[i] # b
        BY <1>1, <1>3, <3>3, Distinct DEF b
      <4>2. outcome'[batch[i]] = "none" <=> i > answered
        BY <1>1, <1>4, <3>1, <4>1 DEF AnsweredOnce
      <4> QED BY <3>1, <3>3, <4>2
    <3> QED BY <3>2, <3>3
  <2> QED BY <1>2, <2>1, <2>2, <2>3 DEF AnsweredOnce
<1> QED BY <1>5, <1>6, <1>7, <1>8 DEF QueueInv

\* The batch goes out of scope, and with it the promises that were not set.
LEMMA DoneStep ==
    ASSUME QueueInv, WriterDone
    PROVE  QueueInv'
<1>1. /\ QueueTypeOK /\ Numbers /\ Phases /\ InOrder /\ Bounded /\ Queued
      /\ AnsweredOnce /\ answered = applied
      /\ queue \in Seq(Requests) /\ batch \in Seq(Requests)
      /\ settled \in Seq(Requests)
      /\ applied \in 0..Len(batch) /\ answered \in 0..applied
      /\ outcome \in [Requests -> {"none", "true", "false", "broken"}]
  BY DEF QueueInv, WriterDone, QueueTypeOK
<1>2. /\ outcome' = [r \in Requests |-> IF r \in Unanswered THEN "broken" ELSE outcome[r]]
      /\ settled' = settled \o batch /\ batch' = <<>>
      /\ applied' = 0 /\ answered' = 0 /\ failed' = FALSE /\ cons' = "test"
      /\ UNCHANGED <<queue, shutdown, prod, closer, accepted, throws>>
  BY DEF WriterDone
<1>3. /\ settled' \in Seq(Requests) /\ Len(settled') = Len(settled) + Len(batch)
      /\ \A i \in 1..(Len(settled) + Len(batch)) : settled'[i] =
             IF i <= Len(settled) THEN settled[i] ELSE batch[i - Len(settled)]
      /\ settled' \o <<>> = settled'
  BY <1>1, <1>2, ConcatProperties, ConcatEmptySeq
<1>4. /\ batch' \in Seq(Requests) /\ Len(batch') = 0 /\ DOMAIN batch' = {}
  BY <1>2
<1>5. QueueTypeOK'
  <2>1. outcome' \in [Requests -> {"none", "true", "false", "broken"}]
    BY <1>1, <1>2
  <2>2. applied' \in 0..Len(batch') /\ answered' \in 0..applied'
    BY <1>2, <1>4
  <2> QED BY <1>1, <1>2, <1>3, <1>4, <2>1, <2>2 DEF QueueTypeOK
<1>6. Numbers' /\ Phases'
  BY <1>1, <1>2 DEF Numbers, Phases
<1>7. InOrder' /\ Bounded'
  BY <1>1, <1>2, <1>3 DEF InOrder, Bounded
<1>8. Queued'
  <2>1. ASSUME NEW q \in Producers, NEW n \in 1..MaxPushes, Unqueued(q, n)
        PROVE  outcome'[<<q, n>>] = "none"
    <3>1. <<q, n>> \in Requests /\ <<q, n>> \notin Unanswered
      <4>1. \A i \in DOMAIN batch : batch[i] # <<q, n>>
        BY <1>1, <2>1, Distinct
      <4>2. (answered + 1)..Len(batch) \subseteq DOMAIN batch
        BY <1>1
      <4> QED BY <4>1, <4>2 DEF Unanswered, Requests
    <3> QED BY <1>1, <1>2, <2>1, <3>1 DEF Queued
  <2> QED BY <1>1, <1>2, <2>1 DEF Queued, Unqueued
<1>9. AnsweredOnce'
  <2>1. ASSUME NEW i \in DOMAIN queue PROVE outcome'[queue[i]] = "none"
    <3>1. queue[i] \in Requests /\ \A j \in DOMAIN batch : queue[i] # batch[j]
      BY <1>1, Distinct
    <3>2. (answered + 1)..Len(batch) \subseteq DOMAIN batch
      BY <1>1
    <3>3. queue[i] \notin Unanswered
      BY <3>1, <3>2 DEF Unanswered
    <3> QED BY <1>1, <1>2, <3>1, <3>3 DEF AnsweredOnce
  <2>2. ASSUME NEW i \in DOMAIN settled PROVE outcome'[settled[i]] # "none"
    <3>1. settled[i] \in Requests /\ outcome[settled[i]] # "none"
      BY <1>1 DEF AnsweredOnce
    <3> QED BY <1>2, <3>1
  <2>3. ASSUME NEW i \in DOMAIN batch PROVE outcome'[batch[i]] # "none"
    <3>1. batch[i] \in Requests /\ i \in 1..Len(batch) /\ answered \in Nat
      BY <1>1
    <3>2. CASE i > answered
      <4>1. batch[i] \in Unanswered
        BY <3>1, <3>2, <1>1 DEF Unanswered
      <4> QED BY <1>2, <3>1, <4>1
    <3>3. CASE ~(i > answered)
      <4>1. outcome[batch[i]] # "none"
        BY <1>1, <3>3 DEF AnsweredOnce
      <4> QED BY <1>2, <3>1, <4>1
    <3> QED BY <3>2, <3>3
  <2>4. ASSUME NEW i \in DOMAIN settled' PROVE outcome'[settled'[i]] # "none"
    <3>1. /\ i \in 1..(Len(settled) + Len(batch)) /\ Len(settled) \in Nat
          /\ Len(batch) \in Nat
      BY <1>1, <1>3
    <3>2. CASE i <= Len(settled)
      <4>1. i \in DOMAIN settled /\ settled'[i] = settled[i]
        BY <1>1, <1>3, <3>1, <3>2
      <4> QED BY <2>2, <4>1
    <3>3. CASE ~(i <= Len(settled))
      <4>1. i - Len(settled) \in DOMAIN batch /\ settled'[i] = batch[i - Len(settled)]
        BY <1>1, <1>3, <3>1, <3>3
      <4> QED BY <2>3, <4>1
    <3> QED BY <3>2, <3>3
  <2> QED BY <1>2, <1>4, <2>1, <2>4 DEF AnsweredOnce
<1> QED BY <1>5, <1>6, <1>7, <1>8, <1>9 DEF QueueInv

\* The steps of the writer that only move it through its loop.
LEMMA LoopStep ==
    ASSUME QueueInv,
           PopWait \/ PopExit \/ PopYield \/ WriterApply \/ WriterFlush \/ WriterThrow
    PROVE  QueueInv'
<1>1. QueueTypeOK /\ Numbers /\ Phases /\ Len(batch) \in Nat
  BY DEF QueueInv, QueueTypeOK
<1>2. UNCHANGED <<queue, shutdown, prod, batch, answered, closer, outcome,
                  accepted, settled>>
  BY DEF PopWait, PopExit, PopYield, WriterApply, WriterFlush, WriterThrow,
         writerVars
<1>3. applied' \in 0..Len(batch) /\ answered \in 0..applied' /\ failed' \in BOOLEAN
  <2>1. CASE WriterApply
    BY <1>1, <2>1 DEF WriterApply, QueueTypeOK
  <2>2. CASE ~WriterApply
    BY <1>1, <2>2 DEF PopWait, PopExit, PopYield, WriterFlush, WriterThrow,
                      writerVars, QueueTypeOK
  <2> QED BY <2>1, <2>2
<1>4. throws' \in 0..MaxThrows
  <2>1. CASE WriterThrow
    BY <1>1, <2>1, QueueAssumption DEF WriterThrow, QueueTypeOK, QueueAssumption
  <2>2. CASE ~WriterThrow
    BY <1>1, <2>2 DEF PopWait, PopExit, PopYield, WriterApply, WriterFlush, QueueTypeOK
  <2> QED BY <2>1, <2>2
<1>5. cons' \in {"test", "asleep", "yield", "apply", "answer", "exited"} /\ Phases'
  <2>1. CASE PopWait \/ PopExit \/ PopYield
    BY <1>1, <1>2, <2>1 DEF PopWait, PopExit, PopYield, writerVars, Phases
  <2>2. CASE WriterApply
    BY <1>1, <1>2, <2>2 DEF WriterApply, Phases
  <2>3. CASE WriterFlush \/ WriterThrow
    BY <1>1, <1>2, <2>3 DEF WriterFlush, WriterThrow, Phases
  <2> QED BY <2>1, <2>2, <2>3
<1>6. QueueTypeOK'
  BY <1>1, <1>2, <1>3, <1>4, <1>5 DEF QueueTypeOK
<1>7. Numbers'
  BY <1>1, <1>2 DEF Numbers
<1>8. InOrder' /\ Bounded' /\ Queued' /\ AnsweredOnce'
  BY <1>2, NothingMoves DEF Unqueued
<1> QED BY <1>5, <1>6, <1>7, <1>8 DEF QueueInv

\* shutdown(), in its three steps.
LEMMA ShutdownStep ==
    ASSUME QueueInv, Shutdown \/ ShutdownNotEmpty \/ ShutdownNotFull
    PROVE  QueueInv'
<1>1. QueueTypeOK /\ Numbers /\ Phases
  BY DEF QueueInv
<1>2. /\ UNCHANGED <<queue, batch, applied, failed, answered, outcome, accepted,
                     settled, throws>>
      /\ closer' \in {"idle", "notEmpty", "notFull", "done"}
      /\ cons' \in {cons, Woken} /\ shutdown' \in {TRUE, shutdown}
  BY DEF Shutdown, ShutdownNotEmpty, ShutdownNotFull, writerVars
<1>3. PICK woken \in SUBSET Sleepers :
          prod' = [p \in Producers |-> IF p \in woken
                                       THEN [prod[p] EXCEPT !.pc = "test"]
                                       ELSE prod[p]]
  <2>1. CASE Shutdown \/ ShutdownNotEmpty
    <3>1. prod' = [p \in Producers |-> IF p \in {}
                                       THEN [prod[p] EXCEPT !.pc = "test"]
                                       ELSE prod[p]]
      BY <1>1, <2>1 DEF Shutdown, ShutdownNotEmpty, QueueTypeOK
    <3>2. {} \in SUBSET Sleepers
      OBVIOUS
    <3> QED BY <3>1, <3>2
  <2>2. CASE ShutdownNotFull
    BY <2>2 DEF ShutdownNotFull
  <2> QED BY <2>1, <2>2
<1>4. /\ prod' \in [Producers -> [pc : {"idle", "test", "asleep", "notify"},
                                  n : 0..MaxPushes]]
      /\ Numbers'
      /\ \A q \in Producers, n \in 1..MaxPushes : Unqueued(q, n)' <=> Unqueued(q, n)
  BY <1>1, <1>3, Wakes
<1>5. QueueTypeOK'
  <2>1. cons' \in {"test", "asleep", "yield", "apply", "answer", "exited"}
    BY <1>1, <1>2 DEF QueueTypeOK, Woken
  <2>2. shutdown' \in BOOLEAN
    BY <1>1, <1>2 DEF QueueTypeOK
  <2> QED BY <1>1, <1>2, <1>4, <2>1, <2>2 DEF QueueTypeOK
<1>6. Phases'
  <2>1. shutdown => shutdown'
    BY <1>1, <1>2 DEF QueueTypeOK
  <2> QED BY <1>1, <1>2, <2>1 DEF Phases, Woken
<1>7. InOrder' /\ Bounded' /\ Queued' /\ AnsweredOnce'
  BY <1>2, <1>4, NothingMoves
<1> QED BY <1>4, <1>5, <1>6, <1>7 DEF QueueInv

\* Every step of push(), popBatch(), writerThreadLoop and shutdown() keeps QueueInv.
LEMMA QueueInvStep == QueueInv /\ [QueueNext]_queueVars => QueueInv'
<1> SUFFICES ASSUME QueueInv, [QueueNext]_queueVars PROVE QueueInv'
  OBVIOUS
<1>1. ASSUME NEW p \in Producers, PushCall(p) \/ Push(p) PROVE QueueInv'
  BY <1>1, PushStep, AcceptStep, RefuseStep DEF Push
<1>2. CASE Writer
  BY <1>2, LoopStep, TakeStep, AnswerStep, DoneStep DEF Writer
<1>3. CASE Shutdown \/ Closer
  BY <1>3, ShutdownStep DEF Closer
<1>4. CASE UNCHANGED queueVars
  BY <1>4, ZenonT(60) DEF QueueInv, queueVars, QueueTypeOK, Numbers, Phases, InOrder, Bounded,
              Queued, AnsweredOnce, Unqueued
<1> QED BY <1>1, <1>2, <1>3, <1>4 DEF QueueNext

-----------------------------------------------------------------------------
\* The inductive invariant of push(), popBatch(), writerThreadLoop and
\* shutdown(), for any number of threads, any capacity and any batch size.
THEOREM QueueInvCorrect == QueueSpec => []QueueInv
BY QueueInvInit, QueueInvStep, PTL DEF QueueSpec

\* Every variable of the queue, its producers and its writer keeps its type.
THEOREM QueueTypeCorrect == QueueSpec => []QueueTypeOK
<1>1. QueueInv => QueueTypeOK
  BY DEF QueueInv
<1> QED BY <1>1, QueueInvCorrect, PTL

\* popBatch() and writerThreadLoop take the requests in the order in which
\* push() queued them, and lose and repeat none.
THEOREM InOrderCorrect == QueueSpec => []InOrder
<1>1. QueueInv => InOrder
  BY DEF QueueInv
<1> QED BY <1>1, QueueInvCorrect, PTL

\* push() never fills the queue beyond max_size_, however many producers
\* notify_all wakes at once.
THEOREM BoundedCorrect == QueueSpec => []Bounded
<1>1. QueueInv => Bounded
  BY DEF QueueInv
<1> QED BY <1>1, QueueInvCorrect, PTL

\* The writer thread ends with nothing queued, and push() queues nothing after
\* it has ended.
THEOREM ExitCorrect == QueueSpec => []ExitDrained
<1>1. QueueInv => ExitDrained
  BY DEF QueueInv, Phases, ExitDrained
<1> QED BY <1>1, QueueInvCorrect, PTL

\* Every request that has been through writerThreadLoop has had its promise set
\* or broken, exactly when its turn came, and no request that is still queued.
THEOREM AnsweredCorrect == QueueSpec => []AnsweredOnce
<1>1. QueueInv => AnsweredOnce
  BY DEF QueueInv
<1> QED BY <1>1, QueueInvCorrect, PTL

-----------------------------------------------------------------------------
(* The SSTable file: its Bloom filter.                                     *)

\* A bit is in the byte and at the place serialize() gives it.
LEMMA BytePlace ==
    ASSUME NEW size \in Nat, NEW i \in 0..(size - 1)
    PROVE  /\ i \div 8 \in 0..((size + 7) \div 8 - 1)
           /\ i % 8 \in 0..7
           /\ (i \div 8) * 8 + (i % 8) = i
OBVIOUS

\* The positions of a key's bits are in the bit array.
LEMMA BitsRange ==
    ASSUME NEW key \in Keys, NEW size \in Nat \ {0}, NEW hashes \in Int
    PROVE  BitsOf(key, size, hashes) \subseteq 0..(size - 1)
<1>1. Hash[key][1] \in Nat /\ Hash[key][2] \in Nat
  BY SSTableAssumption
<1>2. ASSUME NEW i \in 0..(hashes - 1)
      PROVE  (Hash[key][1] + i * Hash[key][2]) % size \in 0..(size - 1)
  <2>1. i \in Nat
    OBVIOUS
  <2>2. \A a, b \in Nat : a * b \in Nat
    OBVIOUS
  <2>3. Hash[key][1] + i * Hash[key][2] \in Nat
    <3>1. i * Hash[key][2] \in Nat
      BY <1>1, <2>1, <2>2
    <3> QED BY <1>1, <3>1
  <2>4. \A n \in Nat : n % size \in 0..(size - 1)
    OBVIOUS
  <2> QED BY <2>3, <2>4
<1> QED BY <1>2 DEF BitsOf

\* The size and the number of hash functions of a filter.
LEMMA BloomSizes ==
    ASSUME NEW n \in Nat \ {0}
    PROVE  BloomSize(n) \in Nat \ {0} /\ BloomHashes(n) \in Int
BY DEF BloomSize, BloomHashes

\* The filter of a set of keys is read back from its bytes as it was.
LEMMA BloomRead ==
    ASSUME NEW keys \in SUBSET Keys, keys # {}
    PROVE  Deserialize(Serialize(Bloom(keys))) = Bloom(keys)
<1> DEFINE n == Cardinality(keys)
           b == Bloom(keys)
           d == Serialize(b)
<1>1. n \in Nat \ {0}
  BY SSTableAssumption, FS_Subset, FS_CardinalityType, FS_EmptySet
<1>2. BloomSize(n) \in Nat \ {0} /\ BloomHashes(n) \in Int
  BY <1>1, BloomSizes
<1>3. b.bits \subseteq 0..(b.size - 1) /\ b.size \in Nat \ {0}
  BY <1>2, BitsRange DEF Bloom
<1>4. /\ d.size = b.size /\ d.hashes = b.hashes
      /\ d.bytes = [j \in 0..((b.size + 7) \div 8 - 1) |->
                       {c \in 0..7 : j * 8 + c \in b.bits}]
  BY DEF Serialize
<1>5. ASSUME NEW i \in 0..(b.size - 1)
      PROVE  (i % 8) \in d.bytes[i \div 8] <=> i \in b.bits
  <2>1. /\ i \div 8 \in 0..((b.size + 7) \div 8 - 1) /\ i % 8 \in 0..7
        /\ (i \div 8) * 8 + (i % 8) = i
    BY <1>3, BytePlace
  <2> DEFINE j == i \div 8
             c == i % 8
  <2> HIDE DEF j, c, d, b
  <2>2. d.bytes[j] = {e \in 0..7 : j * 8 + e \in b.bits}
    BY <1>4, <2>1 DEF j
  <2>3. c \in d.bytes[j] <=> j * 8 + c \in b.bits
    BY <2>1, <2>2 DEF c
  <2> QED BY <2>1, <2>3 DEF j, c
<1>6. {i \in 0..(b.size - 1) : i % 8 \in d.bytes[i \div 8]} = b.bits
  BY <1>3, <1>5
<1>7. Deserialize(d) = [size |-> b.size, hashes |-> b.hashes, bits |-> b.bits]
  BY <1>4, <1>6 DEF Deserialize
<1>8. b = [size |-> b.size, hashes |-> b.hashes, bits |-> b.bits]
  BY DEF Bloom
<1> QED BY <1>7, <1>8

\* The filter hides none of its keys.
LEMMA BloomContains ==
    ASSUME NEW keys, NEW key \in keys
    PROVE  MayContain(Bloom(keys), key)
BY DEF Bloom, MayContain

-----------------------------------------------------------------------------
(* The SSTable file: the places of its records.                            *)

LEMMA MapTypes ==
    ASSUME NEW map \in Maps
    PROVE  /\ DOMAIN map \in SUBSET Keys /\ DOMAIN map # {}
           /\ IsFiniteSet(DOMAIN map) /\ Cardinality(DOMAIN map) \in Nat \ {0}
           /\ Cardinality(DOMAIN map) <= MaxNumber
           /\ DOMAIN map \subseteq Nat
           /\ \A k \in DOMAIN map : map[k] \in Entries
<1>1. PICK S \in (SUBSET Keys) \ {{}} : map \in [S -> Entries]
  BY DEF Maps
<1>2. DOMAIN map = S /\ S \in SUBSET Keys /\ S # {}
  BY <1>1
<1>3. IsFiniteSet(S) /\ Cardinality(S) <= Cardinality(Keys)
  BY <1>2, SSTableAssumption, FS_Subset
<1>4. Cardinality(S) \in Nat /\ Cardinality(Keys) \in Nat
  BY <1>3, SSTableAssumption, FS_CardinalityType
<1>5. Cardinality(S) # 0
  BY <1>2, <1>3, FS_EmptySet
<1>6. Cardinality(S) <= MaxNumber
  BY <1>3, <1>4, SSTableAssumption
<1> QED BY <1>1, <1>2, <1>3, <1>4, <1>5, <1>6, SSTableAssumption

\* More records take more room.
LEMMA SizeSmaller ==
    ASSUME NEW map \in Maps, NEW S \in SUBSET DOMAIN map, NEW T \in SUBSET S
    PROVE  /\ SizeOf(map, S) \in Nat /\ SizeOf(map, T) \in Nat
           /\ SizeOf(map, T) <= SizeOf(map, S)
           /\ S # T => SizeOf(map, T) < SizeOf(map, S)
<1> DEFINE Puts(U) == {k \in U : map[k].type = "PUT"}
<1>1. IsFiniteSet(S)
  BY MapTypes, FS_Subset
<1>2. IsFiniteSet(T) /\ Cardinality(T) <= Cardinality(S)
      /\ (Cardinality(S) = Cardinality(T) => S = T)
  BY <1>1, FS_Subset
<1>3. IsFiniteSet(Puts(S)) /\ IsFiniteSet(Puts(T))
  <2>1. Puts(S) \in SUBSET S /\ Puts(T) \in SUBSET T
    OBVIOUS
  <2> QED BY <1>1, <1>2, <2>1, FS_Subset
<1>4. Cardinality(Puts(T)) <= Cardinality(Puts(S))
  <2>1. Puts(T) \in SUBSET Puts(S)
    OBVIOUS
  <2> QED BY <1>3, <2>1, FS_Subset
<1>5. /\ Cardinality(S) \in Nat /\ Cardinality(T) \in Nat
      /\ Cardinality(Puts(S)) \in Nat /\ Cardinality(Puts(T)) \in Nat
  BY <1>1, <1>2, <1>3, FS_CardinalityType
<1>6. /\ SizeOf(map, S) = Cardinality(S) + Cardinality(Puts(S))
      /\ SizeOf(map, T) = Cardinality(T) + Cardinality(Puts(T))
  BY DEF SizeOf
<1> HIDE DEF Puts
<1> QED BY <1>2, <1>4, <1>5, <1>6

\* The offsets of the records are in the order of their keys and below the
\* offset of the metadata.
LEMMA OffsetOrder ==
    ASSUME NEW map \in Maps
    PROVE  /\ \A k \in Keys : Offset(map, k) \in Nat
           /\ \A j, k \in DOMAIN map : j < k => Offset(map, j) < Offset(map, k)
           /\ \A j, k \in DOMAIN map : j <= k => Offset(map, j) <= Offset(map, k)
           /\ \A k \in DOMAIN map : Offset(map, k) < SizeOf(map, DOMAIN map)
           /\ SizeOf(map, DOMAIN map) \in Nat
<1>1. DOMAIN map \subseteq Nat /\ DOMAIN map \subseteq Keys
  BY MapTypes
<1>2. \A k : Smaller(map, k) \in SUBSET DOMAIN map
  BY DEF Smaller
<1>3. \A k \in Keys : Offset(map, k) \in Nat
  BY <1>2, SizeSmaller DEF Offset
<1>4. ASSUME NEW j \in DOMAIN map, NEW k \in DOMAIN map, j < k
      PROVE  Offset(map, j) < Offset(map, k)
  <2>1. Smaller(map, j) \in SUBSET Smaller(map, k)
    BY <1>1, <1>4 DEF Smaller
  <2>2. j \in Smaller(map, k) /\ j \notin Smaller(map, j)
    BY <1>1, <1>4 DEF Smaller
  <2>3. Smaller(map, k) # Smaller(map, j)
    BY <2>2
  <2> QED BY <1>2, <2>1, <2>3, SizeSmaller DEF Offset
<1>5. ASSUME NEW k \in DOMAIN map
      PROVE  Offset(map, k) < SizeOf(map, DOMAIN map)
  <2>1. k \notin Smaller(map, k)
    BY <1>1 DEF Smaller
  <2>2. DOMAIN map # Smaller(map, k) /\ DOMAIN map \in SUBSET DOMAIN map
    BY <2>1
  <2> QED BY <1>2, <2>2, SizeSmaller DEF Offset
<1>6. ASSUME NEW j \in DOMAIN map, NEW k \in DOMAIN map, j <= k
      PROVE  Offset(map, j) <= Offset(map, k)
  <2>1. CASE j = k
    BY <1>1, <1>3, <2>1
  <2>2. CASE j < k
    BY <1>1, <1>3, <1>4, <2>2
  <2> QED BY <1>1, <1>6, <2>1, <2>2
<1>7. SizeOf(map, DOMAIN map) \in Nat
  BY SizeSmaller
<1> QED BY <1>3, <1>4, <1>5, <1>6, <1>7

\* Every record has its number.
LEMMA KeyNumbered ==
    ASSUME NEW map \in Maps, NEW n \in 0..(Cardinality(DOMAIN map) - 1)
    PROVE  /\ KeyAt(map, n) \in DOMAIN map
           /\ Cardinality(Smaller(map, KeyAt(map, n))) = n
<1> DEFINE D == DOMAIN map
           c == Cardinality(D)
           Rank == [k \in D |-> Cardinality(Smaller(map, k))]
<1>1. D \subseteq Nat /\ IsFiniteSet(D) /\ c \in Nat \ {0}
  BY MapTypes
<1>2. ASSUME NEW k \in D
      PROVE  Cardinality(Smaller(map, k)) \in 0..(c - 1)
  <2>1. Smaller(map, k) \in SUBSET D /\ k \in D /\ k \notin Smaller(map, k)
    BY <1>1 DEF Smaller
  <2>2. IsFiniteSet(Smaller(map, k)) /\ Cardinality(Smaller(map, k)) <= c
        /\ (c = Cardinality(Smaller(map, k)) => D = Smaller(map, k))
    BY <1>1, <2>1, FS_Subset
  <2>3. Cardinality(Smaller(map, k)) \in Nat
    BY <2>2, FS_CardinalityType
  <2> HIDE DEF c, D
  <2> QED BY <1>1, <2>1, <2>2, <2>3
<1>3. ASSUME NEW j \in D, NEW k \in D, j < k
      PROVE  Cardinality(Smaller(map, j)) # Cardinality(Smaller(map, k))
  <2>1. Smaller(map, j) \in SUBSET Smaller(map, k)
    BY <1>1, <1>3 DEF Smaller
  <2>2. j \in Smaller(map, k) /\ j \notin Smaller(map, j)
    BY <1>1, <1>3 DEF Smaller
  <2>3. IsFiniteSet(Smaller(map, k))
    <3>1. Smaller(map, k) \in SUBSET D
      BY DEF Smaller
    <3> QED BY <1>1, <3>1, FS_Subset
  <2> QED BY <2>1, <2>2, <2>3, FS_Subset
<1>4. Rank \in [D -> 0..(c - 1)]
  BY <1>2
<1>5. \A j, k \in D : Rank[j] = Rank[k] => j = k
  BY <1>1, <1>3
<1>6. Rank \in Injection(D, 0..(c - 1))
  BY <1>4, <1>5 DEF Injection, IsInjective
<1>7. IsFiniteSet(0..(c - 1)) /\ Cardinality(0..(c - 1)) = c
  <2>1. 0 \in Int /\ c - 1 \in Int
    BY <1>1
  <2>2. IsFiniteSet(0..(c - 1))
        /\ Cardinality(0..(c - 1)) = IF 0 > c - 1 THEN 0 ELSE (c - 1) - 0 + 1
    BY <2>1, FS_Interval
  <2> HIDE DEF c
  <2> QED BY <1>1, <2>2
<1>8. Rank \in Surjection(D, 0..(c - 1))
  BY <1>6, <1>7, FS_Injection
<1>9. PICK key \in D : Rank[key] = n
  BY <1>8 DEF Surjection
<1>10. \E k \in DOMAIN map : Cardinality(Smaller(map, k)) = n
  BY <1>9
<1> QED BY <1>10 DEF KeyAt

\* The first and the last record have the smallest and the largest key.
LEMMA EndKeys ==
    ASSUME NEW map \in Maps
    PROVE  LET first == KeyAt(map, 0)
               final == KeyAt(map, Cardinality(DOMAIN map) - 1)
           IN  /\ first \in DOMAIN map /\ final \in DOMAIN map
               /\ Offset(map, first) = 0
               /\ \A k \in DOMAIN map : first <= k /\ k <= final
<1> DEFINE D == DOMAIN map
           c == Cardinality(D)
           first == KeyAt(map, 0)
           final == KeyAt(map, c - 1)
<1>1. D \subseteq Nat /\ IsFiniteSet(D) /\ c \in Nat \ {0}
  BY MapTypes
<1>2. first \in D /\ Cardinality(Smaller(map, first)) = 0
  <2>1. 0 \in 0..(c - 1)
    BY <1>1
  <2> QED BY <2>1, KeyNumbered
<1>3. final \in D /\ Cardinality(Smaller(map, final)) = c - 1
  <2>1. c - 1 \in 0..(c - 1)
    BY <1>1
  <2> QED BY <2>1, KeyNumbered
<1>4. \A k : Smaller(map, k) \in SUBSET D /\ IsFiniteSet(Smaller(map, k))
  <2>1. \A k : Smaller(map, k) \in SUBSET D
    BY DEF Smaller
  <2> QED BY <1>1, <2>1, FS_Subset
<1>5. Smaller(map, first) = {}
  BY <1>2, <1>4, FS_EmptySet
<1>6. \A k \in D : first <= k
  BY <1>1, <1>2, <1>5 DEF Smaller
<1>7. Offset(map, first) = 0
  <2>1. {k \in {} : map[k].type = "PUT"} = {}
    OBVIOUS
  <2> QED BY <1>5, <2>1, FS_EmptySet DEF Offset, SizeOf
<1>8. \A k \in D : k <= final
  <2> DEFINE S == Smaller(map, final) \cup {final}
  <2>1. final \notin Smaller(map, final)
    BY <1>1, <1>3 DEF Smaller
  <2>2. IsFiniteSet(S) /\ Cardinality(S) = (c - 1) + 1
    BY <1>3, <1>4, <2>1, FS_AddElement
  <2>3. S \in SUBSET D
    BY <1>3, <1>4
  <2>4. Cardinality(D) = Cardinality(S)
    BY <1>1, <2>2
  <2>5. D = S
    BY <1>1, <2>3, <2>4, FS_Subset
  <2>6. \A k \in Smaller(map, final) : k \in D /\ k < final
    BY DEF Smaller
  <2> QED BY <1>1, <1>3, <2>5, <2>6
<1> QED BY <1>2, <1>3, <1>6, <1>7, <1>8

\* What an index can be.
Indexes == Seq([key : Keys, offset : Nat])

\* The index begins with the first record and gives the offsets of records.
LEMMA IndexPlaces ==
    ASSUME NEW map \in Maps
    PROVE  /\ IndexOf(map) \in Indexes /\ Len(IndexOf(map)) \in Nat \ {0}
           /\ IndexOf(map)[1].key = KeyAt(map, 0)
           /\ \A j \in 1..Len(IndexOf(map)) :
                  /\ IndexOf(map)[j].key \in DOMAIN map
                  /\ IndexOf(map)[j].offset = Offset(map, IndexOf(map)[j].key)
<1> DEFINE c == Cardinality(DOMAIN map)
           count == (c + IndexInterval - 1) \div IndexInterval
           key(j) == KeyAt(map, (j - 1) * IndexInterval)
           index == [j \in 1..count |-> [key |-> key(j), offset |-> Offset(map, key(j))]]
<1>1. c \in Nat \ {0} /\ IndexInterval \in Nat \ {0} /\ DOMAIN map \in SUBSET Keys
  BY MapTypes, SSTableAssumption
<1>2. \A n, b \in Nat \ {0} :
          /\ (n + b - 1) \div b \in Nat \ {0}
          /\ \A j \in 1..((n + b - 1) \div b) : (j - 1) * b \in 0..(n - 1)
  OBVIOUS
<1>3. count \in Nat \ {0} /\ \A j \in 1..count : (j - 1) * IndexInterval \in 0..(c - 1)
  BY <1>1, <1>2
<1>4. \A j \in 1..count : key(j) \in DOMAIN map
  BY <1>3, KeyNumbered
<1>5. \A j \in 1..count : key(j) \in Keys /\ Offset(map, key(j)) \in Nat
  BY <1>1, <1>4, OffsetOrder
<1>6. IndexOf(map) = index
  BY DEF IndexOf
<1> HIDE DEF count, c
<1>7. \A j \in 1..count : /\ index[j] \in [key : Keys, offset : Nat]
                          /\ index[j].key = key(j) /\ index[j].offset = Offset(map, key(j))
  BY <1>5
<1>8. index \in [1..count -> [key : Keys, offset : Nat]]
  BY <1>7
<1>9. index \in Indexes /\ Len(index) = count
  <2> HIDE DEF index
  <2>1. index \in Indexes
    <3> DEFINE S == [key : Keys, offset : Nat]
    <3>1. index \in [1..count -> S] /\ count \in Nat
      BY <1>3, <1>8
    <3> HIDE DEF S
    <3>2. Seq(S) = UNION {[1..n -> S] : n \in Nat}
      BY SeqDef
    <3>3. index \in Seq(S)
      BY <3>1, <3>2
    <3> QED BY <3>3 DEF S, Indexes
  <2>2. Len(index) \in Nat /\ DOMAIN index = 1..Len(index)
    BY <2>1, LenProperties DEF Indexes
  <2>3. DOMAIN index = 1..count
    BY <1>8
  <2>4. \A m, n \in Nat : 1..m = 1..n => m = n
    OBVIOUS
  <2> QED BY <1>3, <2>1, <2>2, <2>3, <2>4
<1>10. key(1) = KeyAt(map, 0)
  <2>1. (1 - 1) * IndexInterval = 0
    BY <1>1
  <2> QED BY <2>1
<1>11. index[1].key = KeyAt(map, 0)
  BY <1>3, <1>7, <1>10
<1> HIDE DEF index, key
<1> QED BY <1>3, <1>4, <1>6, <1>7, <1>9, <1>11

\* The parts of a table and of its file.
LEMMA TableParts ==
    ASSUME NEW map \in Maps, NEW index \in Indexes
    PROVE  /\ TableOf(map, index).index = index \o IndexOf(map)
           /\ TableOf(map, index).index \in Indexes
           /\ Written(map, index).state = "whole"
           /\ Written(map, index).records = map
           /\ Written(map, index).metadata.index = index \o IndexOf(map)
           /\ LoadMetadata(Written(map, index)) = TableOf(map, index)
<1> DEFINE t == TableOf(map, index)
<1>1. t = [minKey |-> t.minKey, maxKey |-> t.maxKey, index |-> t.index,
           bloom |-> t.bloom, metadataOffset |-> t.metadataOffset]
      /\ t.bloom = Bloom(DOMAIN map) /\ t.index = index \o IndexOf(map)
  BY DEF TableOf
<1>2. Deserialize(Serialize(t.bloom)) = t.bloom
  BY <1>1, MapTypes, BloomRead
<1>3. Written(map, index) = [state |-> "whole", records |-> map,
                             metadata |-> [t EXCEPT !.bloom = Serialize(t.bloom)]]
  BY DEF Written
<1>4. index \o IndexOf(map) \in Indexes
  BY IndexPlaces, ConcatProperties DEF Indexes
<1> HIDE DEF t
<1>5. [[t EXCEPT !.bloom = Serialize(t.bloom)]
           EXCEPT !.bloom = Deserialize(Serialize(t.bloom))] = t
  BY <1>1, <1>2
<1>6. [t EXCEPT !.bloom = Serialize(t.bloom)].index = t.index
      /\ [t EXCEPT !.bloom = Serialize(t.bloom)].bloom = Serialize(t.bloom)
  BY <1>1
<1>7. LoadMetadata(Written(map, index)) = t
  <2> DEFINE w == [t EXCEPT !.bloom = Serialize(t.bloom)]
  <2> HIDE DEF w
  <2>1. Written(map, index).metadata = w
    BY <1>3 DEF w
  <2>2. LoadMetadata(Written(map, index)) = [w EXCEPT !.bloom = Deserialize(w.bloom)]
    BY <2>1 DEF LoadMetadata
  <2> QED BY <1>5, <1>6, <2>2 DEF w
<1> QED BY <1>1, <1>3, <1>4, <1>6, <1>7 DEF t

-----------------------------------------------------------------------------
(* The SSTable file: a lookup, a full read and the line of levels.txt.     *)

\* The binary search ends somewhere.
LEMMA SearchEnds ==
    ASSUME NEW index \in Indexes, NEW key \in Keys
    PROVE  UpperBounds(index, key) # {}
<1> DEFINE S == {n \in 0..Len(index) : n < Len(index) => key < index[n + 1].key}
           R == OpToRel(<, Nat)
<1>1. Len(index) \in Nat /\ \A n \in 1..Len(index) : index[n].key \in Nat
  <2>1. Len(index) \in Nat /\ index \in [1..Len(index) -> [key : Keys, offset : Nat]]
    BY LenProperties DEF Indexes
  <2> QED BY <2>1, SSTableAssumption
<1>2. key \in Nat
  BY SSTableAssumption
<1>3. S \in SUBSET Nat /\ Len(index) \in S
  BY <1>1
<1>4. PICK n \in S : \A m \in S : ~ (<<m, n>> \in R)
  <2>1. IsWellFoundedOn(R, Nat)
    BY NatLessThanWellFounded
  <2>2. S # {}
    BY <1>3
  <2> HIDE DEF S, R
  <2> QED BY <1>3, <2>1, <2>2, WFMin
<1>5. \A x, y \in Nat : x < y => <<x, y>> \in R
  BY DEF OpToRel
<1> HIDE DEF R
<1>6. \A m \in S : ~(m < n)
  BY <1>3, <1>4, <1>5
<1>7. n > 0 => index[n].key <= key
  <2> SUFFICES ASSUME n > 0, ~(index[n].key <= key) PROVE FALSE
    OBVIOUS
  <2>1. n - 1 \in 0..Len(index) /\ n \in 1..Len(index) /\ (n - 1) + 1 = n /\ n - 1 < n
    BY <1>1
  <2>2. key < index[n].key
    BY <1>1, <1>2, <2>1
  <2>3. n - 1 \in S
    BY <2>1, <2>2
  <2> QED BY <1>6, <2>1, <2>3
<1>8. n \in UpperBounds(index, key)
  BY <1>7 DEF UpperBounds
<1> QED BY <1>8

\* A lookup in a file that nothing else was written to begins at a record and
\* finds what the table was made from.
LEMMA LookupExact ==
    ASSUME NEW map \in Maps, NEW key \in Keys,
           NEW n \in UpperBounds(TableOf(map, <<>>).index, key)
    PROVE  LET t == TableOf(map, <<>>)
               f == Written(map, <<>>)
           IN  /\ ~Misaligned(t, f, n)
               /\ GetEntry(t, f, key, n)
                      = IF key \in DOMAIN map THEN {map[key]} ELSE {}
<1> DEFINE t == TableOf(map, <<>>)
           f == Written(map, <<>>)
           index == IndexOf(map)
           first == KeyAt(map, 0)
           final == KeyAt(map, Cardinality(DOMAIN map) - 1)
           end == SizeOf(map, DOMAIN map)
<1>1. /\ t.minKey = first /\ t.maxKey = final /\ t.index = <<>> \o index
      /\ t.bloom = Bloom(DOMAIN map) /\ t.metadataOffset = end
  BY DEF TableOf
<1>2. /\ index \in Indexes /\ Len(index) \in Nat \ {0} /\ index[1].key = first
      /\ \A j \in 1..Len(index) : /\ index[j].key \in DOMAIN map
                                  /\ index[j].offset = Offset(map, index[j].key)
  BY IndexPlaces
<1>3. t.index = index
  BY <1>1, <1>2, ConcatEmptySeq DEF Indexes
<1>4. f.records = map
  BY DEF Written
<1>5. /\ first \in DOMAIN map /\ Offset(map, first) = 0
      /\ \A k \in DOMAIN map : first <= k /\ k <= final
      /\ DOMAIN map \subseteq Nat /\ DOMAIN map \subseteq Keys /\ final \in DOMAIN map
  BY EndKeys, MapTypes
<1>6. /\ n \in 0..Len(index)
      /\ n > 0 => index[n].key <= key
      /\ n < Len(index) => key < index[n + 1].key
  BY <1>3 DEF UpperBounds
<1> HIDE DEF t, f, index, first, final, end
<1>7. \E k \in DOMAIN map : Offset(map, k) = SearchStart(t, n)
  <2>1. CASE n = 0
    BY <1>5, <2>1 DEF SearchStart
  <2>2. CASE n # 0
    <3>1. n \in 1..Len(index) /\ SearchStart(t, n) = index[n].offset
      BY <1>2, <1>3, <1>6, <2>2 DEF SearchStart
    <3> QED BY <1>2, <3>1
  <2> QED BY <2>1, <2>2
<1>8. ~Misaligned(t, f, n)
  BY <1>4, <1>7 DEF Misaligned
<1>9. ASSUME key \in DOMAIN map
      PROVE  /\ SearchStart(t, n) <= Offset(map, key)
             /\ Offset(map, key) < SearchEnd(t, n)
  <2>1. n # 0
    <3> SUFFICES ASSUME n = 0 PROVE FALSE
      OBVIOUS
    <3>1. key < index[1].key
      BY <1>2, <1>6
    <3> QED BY <1>2, <1>5, <1>9, <3>1
  <2>2. n \in 1..Len(index) /\ index[n].key <= key
    BY <1>2, <1>6, <2>1
  <2>3. SearchStart(t, n) <= Offset(map, key)
    BY <1>2, <1>3, <1>9, <2>1, <2>2, OffsetOrder DEF SearchStart
  <2>4. CASE n < Len(index)
    <3>1. n + 1 \in 1..Len(index) /\ key < index[n + 1].key
      BY <1>2, <1>6, <2>4
    <3>2. SearchEnd(t, n) = index[n + 1].offset
      BY <1>3, <2>1, <2>4 DEF SearchEnd
    <3> QED BY <1>2, <1>9, <2>3, <3>1, <3>2, OffsetOrder
  <2>5. CASE ~(n < Len(index))
    <3>1. SearchEnd(t, n) = end
      BY <1>1, <1>3, <2>1, <2>5 DEF SearchEnd
    <3> QED BY <1>9, <2>3, <3>1, OffsetOrder DEF end
  <2> QED BY <2>4, <2>5
<1>10. CASE key \in DOMAIN map
  <2>1. key \in Scanned(t, f, n) /\ Scanned(t, f, n) \subseteq DOMAIN map
    BY <1>4, <1>9, <1>10 DEF Scanned
  <2>2. \A i \in Scanned(t, f, n) : Offset(map, i) < Offset(map, key) => i < key
    <3>1. \A i \in DOMAIN map : key <= i => Offset(map, key) <= Offset(map, i)
      BY <1>10, OffsetOrder
    <3>2. \A i \in DOMAIN map : i \in Nat /\ Offset(map, i) \in Nat
      BY <1>5, OffsetOrder
    <3> QED BY <1>10, <2>1, <3>1, <3>2
  <2>3. ~(key < t.minKey \/ key > t.maxKey \/ ~MayContain(t.bloom, key))
    <3>1. first <= key /\ key <= final /\ first \in Nat /\ final \in Nat /\ key \in Nat
      BY <1>5, <1>10
    <3>2. MayContain(t.bloom, key)
      BY <1>1, <1>10, BloomContains
    <3> QED BY <1>1, <3>1, <3>2
  <2>4. GetEntry(t, f, key, n) = {map[key]}
    BY <1>4, <2>1, <2>2, <2>3 DEF GetEntry
  <2> QED BY <1>8, <1>10, <2>4 DEF t, f
<1>11. CASE key \notin DOMAIN map
  <2>1. Scanned(t, f, n) \subseteq DOMAIN map
    BY <1>4 DEF Scanned
  <2>2. GetEntry(t, f, key, n) = {}
    BY <1>11, <2>1 DEF GetEntry
  <2> QED BY <1>8, <1>11, <2>2 DEF t, f
<1> QED BY <1>10, <1>11

\* Whatever the index, a lookup that begins at a record finds no other entry.
LEMMA LookupOwn ==
    ASSUME NEW map \in Maps, NEW index \in Indexes, NEW t, NEW key \in Keys, NEW n
    PROVE  GetEntry(t, Written(map, index), key, n)
               \subseteq IF key \in DOMAIN map THEN {map[key]} ELSE {}
<1> DEFINE f == Written(map, index)
<1>1. f.records = map
  BY TableParts
<1> HIDE DEF f
<1>2. Scanned(t, f, n) \subseteq DOMAIN map
  BY <1>1 DEF Scanned
<1>3. \A e \in GetEntry(t, f, key, n) : key \in DOMAIN map /\ e = map[key]
  BY <1>1, <1>2 DEF GetEntry
<1> QED BY <1>3 DEF f

\* A full read gives the map.
LEMMA ScanWhole ==
    ASSUME NEW map \in Maps, NEW index \in Indexes
    PROVE  GetData(TableOf(map, index), Written(map, index)) = map
<1> DEFINE t == TableOf(map, index)
           f == Written(map, index)
<1>1. f.records = map /\ t.metadataOffset = SizeOf(map, DOMAIN map)
  BY DEF Written, TableOf
<1>2. {j \in DOMAIN map : Offset(map, j) < SizeOf(map, DOMAIN map)} = DOMAIN map
  BY OffsetOrder
<1> HIDE DEF t, f
<1>3. GetData(t, f) = [k \in DOMAIN map |-> map[k]]
  BY <1>1, <1>2 DEF GetData
<1>4. map = [k \in DOMAIN map |-> map[k]]
  <2>1. PICK S \in (SUBSET Keys) \ {{}} : map \in [S -> Entries]
    BY DEF Maps
  <2> QED BY <2>1
<1> QED BY <1>3, <1>4 DEF t, f

\* The largest of some numbers with a bound is one of them.
LEMMA MaxBounded ==
    ASSUME NEW b \in Nat, NEW S \in SUBSET (0..b), S # {}
    PROVE  Max(S) \in S
<1> DEFINE T == {b - n : n \in S}
           R == OpToRel(<, Nat)
<1>1. T \in SUBSET Nat /\ T # {}
  <2>1. \A n \in S : b - n \in Nat
    OBVIOUS
  <2> QED BY <2>1
<1>2. PICK m \in T : \A d \in T : ~ (<<d, m>> \in R)
  <2>1. IsWellFoundedOn(R, Nat)
    BY NatLessThanWellFounded
  <2> HIDE DEF T, R
  <2> QED BY <1>1, <2>1, WFMin
<1>3. \A x, y \in Nat : x < y => <<x, y>> \in R
  BY DEF OpToRel
<1> HIDE DEF R
<1>4. \A d \in T : ~(d < m)
  BY <1>1, <1>2, <1>3
<1>5. PICK n \in S : m = b - n
  BY <1>2
<1>6. \A k \in S : n >= k
  <2> TAKE k \in S
  <2>1. b - k \in T
    OBVIOUS
  <2>2. ~(b - k < b - n)
    BY <1>4, <1>5, <2>1
  <2> QED BY <2>2
<1>7. \E x \in S : \A y \in S : x >= y
  BY <1>6
<1> QED BY <1>7 DEF Max

\* The words of a line of levels.txt: a and b, those of two keys, c and d.
IsLine(l, a, b, u, v, c, d) ==
    /\ Len(l) \in Nat /\ 4 <= Len(l) /\ l[1] = a /\ l[2] = b
    /\ Len(u) = 1 /\ Len(v) = 1 =>
           /\ Len(l) = 6
           /\ l[3] = u[1] /\ l[4] = v[1] /\ l[5] = c /\ l[6] = d

LEMMA LineWords ==
    ASSUME NEW S, NEW a \in S, NEW b \in S, NEW c \in S, NEW d \in S,
           NEW u \in Seq(S), NEW v \in Seq(S),
           NEW l, l = <<a, b>> \o u \o v \o <<c, d>>
    PROVE  IsLine(l, a, b, u, v, c, d)
<1> DEFINE p == <<a, b>>
           q == <<c, d>>
           pu == p \o u
           puv == pu \o v
<1>1. /\ p \in Seq(S) /\ Len(p) = 2 /\ p[1] = a /\ p[2] = b
      /\ q \in Seq(S) /\ Len(q) = 2 /\ q[1] = c /\ q[2] = d
      /\ Len(u) \in Nat /\ Len(v) \in Nat
  BY LenProperties
<1> HIDE DEF p, q
<1>2. /\ pu \in Seq(S) /\ Len(pu) = 2 + Len(u)
      /\ \A i \in 1..(2 + Len(u)) : pu[i] = IF i <= 2 THEN p[i] ELSE u[i - 2]
  <2>1. /\ pu \in Seq(S) /\ Len(pu) = Len(p) + Len(u)
        /\ \A i \in 1..(Len(p) + Len(u)) :
               pu[i] = IF i <= Len(p) THEN p[i] ELSE u[i - Len(p)]
    BY <1>1, ConcatProperties
  <2> HIDE DEF pu
  <2> QED BY <1>1, <2>1
<1> HIDE DEF pu
<1>3. /\ puv \in Seq(S) /\ Len(puv) = 2 + Len(u) + Len(v)
      /\ \A i \in 1..(2 + Len(u) + Len(v)) :
             puv[i] = IF i <= 2 + Len(u) THEN pu[i] ELSE v[i - (2 + Len(u))]
  <2>1. /\ puv \in Seq(S) /\ Len(puv) = Len(pu) + Len(v)
        /\ \A i \in 1..(Len(pu) + Len(v)) :
               puv[i] = IF i <= Len(pu) THEN pu[i] ELSE v[i - Len(pu)]
    BY <1>2, ConcatProperties
  <2> HIDE DEF puv
  <2> QED BY <1>1, <1>2, <2>1
<1> HIDE DEF puv
<1>4. /\ l \in Seq(S) /\ Len(l) = 4 + Len(u) + Len(v)
      /\ \A i \in 1..(4 + Len(u) + Len(v)) :
             l[i] = IF i <= 2 + Len(u) + Len(v) THEN puv[i]
                    ELSE q[i - (2 + Len(u) + Len(v))]
  <2>1. 2 + Len(u) + Len(v) + 2 = 4 + Len(u) + Len(v)
    BY <1>1
  <2>2. /\ l \in Seq(S) /\ Len(l) = Len(puv) + Len(q)
        /\ \A i \in 1..(Len(puv) + Len(q)) :
               l[i] = IF i <= Len(puv) THEN puv[i] ELSE q[i - Len(puv)]
    <3>1. l = puv \o q
      BY DEF puv, pu, p, q
    <3>2. /\ puv \o q \in Seq(S) /\ Len(puv \o q) = Len(puv) + Len(q)
          /\ \A i \in 1..(Len(puv) + Len(q)) :
                 (puv \o q)[i] = IF i <= Len(puv) THEN puv[i] ELSE q[i - Len(puv)]
      BY <1>1, <1>3, ConcatProperties
    <3> QED BY <3>1, <3>2, Zenon
  <2> QED BY <1>1, <1>3, <2>1, <2>2
<1>5. Len(l) \in Nat /\ 4 <= Len(l)
  BY <1>1, <1>4
<1>6. l[1] = a /\ l[2] = b
  <2>1. l[1] = puv[1] /\ l[2] = puv[2]
    BY <1>1, <1>4
  <2>2. puv[1] = pu[1] /\ puv[2] = pu[2]
    BY <1>1, <1>3
  <2>3. pu[1] = p[1] /\ pu[2] = p[2]
    <3>1. 1 \in 1..(2 + Len(u)) /\ 2 \in 1..(2 + Len(u))
      BY <1>1
    <3> QED BY <1>2, <3>1
  <2> QED BY <1>1, <2>1, <2>2, <2>3
<1>7. ASSUME Len(u) = 1, Len(v) = 1
      PROVE  Len(l) = 6 /\ l[3] = u[1] /\ l[4] = v[1] /\ l[5] = c /\ l[6] = d
  <2>1. l[3] = puv[3] /\ l[4] = puv[4] /\ l[5] = q[1] /\ l[6] = q[2] /\ Len(l) = 6
    BY <1>4, <1>7
  <2>2. puv[3] = pu[3] /\ puv[4] = v[1]
    BY <1>3, <1>7
  <2>3. pu[3] = u[1]
    BY <1>2, <1>7
  <2> QED BY <1>1, <2>1, <2>2, <2>3
<1> QED BY <1>5, <1>6, <1>7 DEF IsLine

\* What is read back of the line of a table.
LEMMA LineRead ==
    ASSUME NEW map \in Maps
    PROVE  LET m == MetaData(map)
               r == MetaRead(LineOf(m))
           IN  /\ r.id = m.id /\ r.level = m.level
               /\ Len(WordsOf[m.minKey]) = 1 /\ Len(WordsOf[m.maxKey]) = 1 =>
                      /\ r.minKey = WordsOf[m.minKey][1] /\ r.maxKey = WordsOf[m.maxKey][1]
                      /\ r.maxSeq = m.maxSeq /\ r.size = m.size
<1> DEFINE m == MetaData(map)
           l == LineOf(m)
           r == MetaRead(l)
           S == STRING \cup {m.id, m.level, m.maxSeq, m.size}
           u == WordsOf[m.minKey]
           v == WordsOf[m.maxKey]
           word(i) == IF i <= Len(l) THEN l[i] ELSE "?"
           number(i) == IF word(i) \in Numerals THEN word(i)
                        ELSE IF i <= Len(l) THEN ToString(0) ELSE "?"
<1>1. \A n \in 0..MaxNumber : ToString(n) \in Numerals
  BY DEF Numerals
<1>2. /\ m.id \in Numerals /\ m.level \in Numerals
      /\ m.maxSeq \in Numerals /\ m.size \in Numerals
  <2>1. Cardinality(DOMAIN map) \in 0..MaxNumber /\ 1 \in 0..MaxNumber /\ 0 \in 0..MaxNumber
    BY MapTypes, SSTableAssumption
  <2>2. Max({map[k].seq : k \in DOMAIN map}) \in 0..MaxNumber
    <3>1. \A k \in DOMAIN map : map[k].seq \in 0..MaxNumber
      BY MapTypes, SSTableAssumption
    <3>2. {map[k].seq : k \in DOMAIN map} \in SUBSET (0..MaxNumber)
      BY <3>1
    <3>3. {map[k].seq : k \in DOMAIN map} # {}
      BY MapTypes
    <3> QED BY <3>2, <3>3, MaxBounded, SSTableAssumption
  <2>3. /\ m.id = ToString(1) /\ m.level = ToString(0)
        /\ m.maxSeq = ToString(Max({map[k].seq : k \in DOMAIN map}))
        /\ m.size = ToString(Cardinality(DOMAIN map))
    BY Zenon DEF MetaData
  <2> QED BY <1>1, <2>1, <2>2, <2>3, Zenon
<1>3. m.minKey \in Keys /\ m.maxKey \in Keys
  BY EndKeys, MapTypes DEF MetaData
<1>4. u \in Seq(S) /\ v \in Seq(S)
  <2>1. u \in Seq(STRING) /\ v \in Seq(STRING) /\ STRING \subseteq S
    BY <1>3, SSTableAssumption
  <2> HIDE DEF u, v, S
  <2> QED BY <2>1, SeqMonotonic
<1>5. l = <<m.id, m.level>> \o u \o v \o <<m.maxSeq, m.size>>
  BY DEF LineOf
<1>6. IsLine(l, m.id, m.level, u, v, m.maxSeq, m.size)
  <2>1. m.id \in S /\ m.level \in S /\ m.maxSeq \in S /\ m.size \in S
    OBVIOUS
  <2> HIDE DEF m, u, v, S, l
  <2> QED BY <1>4, <1>5, <2>1, LineWords
<1>7. r = [id |-> number(1), level |-> number(2), minKey |-> word(3),
           maxKey |-> word(4), maxSeq |-> number(5),
           size |-> IF word(5) \in Numerals THEN number(6) ELSE "?"]
  BY Zenon DEF MetaRead
<1> HIDE DEF m, l, S, u, v
<1>8. /\ 1 <= Len(l) /\ 2 <= Len(l)
      /\ Len(l) = 6 =>
             3 <= Len(l) /\ 4 <= Len(l) /\ 5 <= Len(l) /\ 6 <= Len(l)
  BY <1>6 DEF IsLine
<1>9. number(1) = m.id /\ number(2) = m.level
  BY <1>2, <1>6, <1>8, Zenon DEF IsLine
<1>10. ASSUME Len(u) = 1, Len(v) = 1
       PROVE  /\ word(3) = u[1] /\ word(4) = v[1] /\ word(5) = m.maxSeq
              /\ number(5) = m.maxSeq /\ number(6) = m.size
  BY <1>2, <1>6, <1>8, <1>10, Zenon DEF IsLine
<1> HIDE DEF number, word, r
<1>11. r.id = m.id /\ r.level = m.level
  BY <1>7, <1>9
<1>12. ASSUME Len(u) = 1, Len(v) = 1
       PROVE  r.minKey = u[1] /\ r.maxKey = v[1] /\ r.maxSeq = m.maxSeq /\ r.size = m.size
  BY <1>2, <1>7, <1>10, <1>12
<1> QED BY <1>11, <1>12 DEF r, m, l, u, v

-----------------------------------------------------------------------------
(* The SSTable file through its life.                                      *)

\* The file is a whole one unless it is torn or absent; the object is the table
\* of the map on the index it found; levels.txt has the line of its meta.
TableInv ==
    /\ stale \in BOOLEAN /\ threw \in BOOLEAN
    /\ \/ bin \in {Absent, TornFile}
       \/ \E map \in Maps, index \in Indexes : bin = Written(map, index)
    /\ handle # {} => \E index \in Indexes :
           /\ contents \in Maps /\ bin = Written(contents, index)
           /\ handle = {TableOf(contents, index)}
           /\ ~stale => index = <<>>
    /\ meta = {} \/ \E m : meta = {m}
    /\ handle = {} => meta = {} /\ line = {}
    /\ line = {} => meta \subseteq {MetaData(contents)}
    /\ line \subseteq {LineOf(MetaData(contents))}

\* The index flush() starts from is one.
LEMMA LoadedIndexes ==
    ASSUME TableInv
    PROVE  Loaded \subseteq Indexes /\ (bin = Absent => Loaded = {<<>>})
<1>1. <<>> \in Indexes
  BY EmptySeq DEF Indexes
<1>2. \A k \in Keys : <<[key |-> k, offset |-> 1]>> \in Indexes
  BY DEF Indexes
<1>3. CASE bin \in {Absent, TornFile}
  BY <1>1, <1>2, <1>3 DEF Loaded, Garbage
<1>4. CASE \E map \in Maps, index \in Indexes : bin = Written(map, index)
  <2>1. PICK map \in Maps, index \in Indexes : bin = Written(map, index)
    BY <1>4
  <2>2. bin.state = "whole" /\ bin.metadata.index \in Indexes
    <3>1. /\ bin.state = "whole" /\ bin.metadata.index = index \o IndexOf(map)
          /\ TableOf(map, index).index = index \o IndexOf(map)
          /\ TableOf(map, index).index \in Indexes
      BY <2>1, TableParts
    <3> QED BY <3>1, Zenon
  <2>3. bin # Absent /\ bin # TornFile
    BY <2>2 DEF Absent, TornFile
  <2> QED BY <2>2, <2>3 DEF Loaded
<1> QED BY <1>3, <1>4 DEF TableInv

LEMMA TableInvInit ==
    ASSUME SSTableInit
    PROVE  TableInv
BY DEF SSTableInit, TableInv

LEMMA FlushTableStep ==
    ASSUME TableInv, NEW map \in Maps, FlushTable(map)
    PROVE  TableInv'
<1>1. handle = {} /\ line' = line /\ meta = {} /\ line = {}
  BY DEF FlushTable, TableInv
<1>2. CASE /\ threw' = TRUE
           /\ UNCHANGED <<contents, bin, handle, meta, stale>>
  <2>1. stale \in BOOLEAN
        /\ \/ bin \in {Absent, TornFile}
           \/ \E m \in Maps, index \in Indexes : bin = Written(m, index)
    BY DEF TableInv
  <2> QED BY <1>1, <1>2, <2>1 DEF TableInv
<1>3. CASE \E index \in Loaded :
              /\ bin' = Written(map, index) /\ contents' = map
              /\ handle' = {TableOf(map, index)} /\ meta' = {MetaData(map)}
              /\ stale' = (bin # Absent) /\ UNCHANGED threw
  <2>1. PICK index \in Loaded :
              /\ bin' = Written(map, index) /\ contents' = map
              /\ handle' = {TableOf(map, index)} /\ meta' = {MetaData(map)}
              /\ stale' = (bin # Absent) /\ UNCHANGED threw
    BY <1>3
  <2>2. index \in Indexes /\ (~stale' => index = <<>>)
    BY <2>1, LoadedIndexes
  <2>3. threw' \in BOOLEAN /\ stale' \in BOOLEAN
    BY <2>1 DEF TableInv
  <2> QED BY <1>1, <2>1, <2>2, <2>3 DEF TableInv
<1> QED BY <1>2, <1>3 DEF FlushTable

LEMMA SaveLineStep ==
    ASSUME TableInv, SaveLine
    PROVE  TableInv'
<1>1. /\ meta # {} /\ line = {} /\ line' = {LineOf(m) : m \in meta}
      /\ UNCHANGED <<contents, bin, handle, meta, stale, threw, written>>
  BY DEF SaveLine
<1>2. meta \subseteq {MetaData(contents)}
  BY <1>1 DEF TableInv
<1>3. line' \subseteq {LineOf(MetaData(contents))} /\ line' # {}
  BY <1>1, <1>2
<1>4. handle # {}
  BY <1>1 DEF TableInv
<1> QED BY <1>1, <1>3, <1>4 DEF TableInv

LEMMA CrashBeforeLineStep ==
    ASSUME TableInv, CrashBeforeLine
    PROVE  TableInv'
<1>1. /\ line' = {} /\ handle' = {} /\ meta' = {} /\ stale' = FALSE
      /\ bin' \in {bin, TornFile} /\ threw' = threw
  BY DEF CrashBeforeLine
<1>2. \/ bin' \in {Absent, TornFile}
      \/ \E map \in Maps, index \in Indexes : bin' = Written(map, index)
  BY <1>1 DEF TableInv
<1>3. threw' \in BOOLEAN
  BY <1>1 DEF TableInv
<1> QED BY <1>1, <1>2, <1>3 DEF TableInv

LEMMA LoadTableStep ==
    ASSUME TableInv, LoadTable
    PROVE  TableInv'
<1>1. /\ line # {} /\ handle' = {LoadMetadata(bin)} /\ meta' = {MetaRead(l) : l \in line}
      /\ UNCHANGED <<contents, bin, line, stale, threw, written>>
  BY DEF LoadTable
<1>2. handle # {} /\ line = {LineOf(MetaData(contents))}
  BY <1>1 DEF TableInv
<1>3. PICK index \in Indexes :
           /\ contents \in Maps /\ bin = Written(contents, index)
           /\ ~stale => index = <<>>
  BY <1>2 DEF TableInv
<1>4. handle' = {TableOf(contents, index)}
  BY <1>1, <1>3, TableParts
<1>5. meta' = {MetaRead(LineOf(MetaData(contents)))}
  BY <1>1, <1>2
<1>6. /\ stale' \in BOOLEAN /\ threw' \in BOOLEAN
      /\ \/ bin' \in {Absent, TornFile}
         \/ \E map \in Maps, i \in Indexes : bin' = Written(map, i)
  BY <1>1, <1>3 DEF TableInv
<1>7. \E i \in Indexes : /\ contents' \in Maps /\ bin' = Written(contents', i)
                         /\ handle' = {TableOf(contents', i)}
                         /\ ~stale' => i = <<>>
  BY <1>1, <1>3, <1>4
<1>8. \E m : meta' = {m}
  BY <1>5
<1>9. handle' # {} /\ line' # {} /\ line' \subseteq {LineOf(MetaData(contents'))}
  BY <1>1, <1>2
<1> QED BY <1>6, <1>7, <1>8, <1>9 DEF TableInv

LEMMA TableInvStep ==
    ASSUME TableInv, [SSTableNext]_sstableVars
    PROVE  TableInv'
<1>1. CASE UNCHANGED sstableVars
  <2>1. UNCHANGED <<contents, bin, handle, meta, line, stale, threw, written>>
    BY <1>1 DEF sstableVars
  <2>2. MetaData(contents)' = MetaData(contents)
    BY <2>1
  <2> QED BY <2>1, <2>2 DEF TableInv
<1>2. CASE \E map \in Maps : FlushTable(map)
  BY <1>2, FlushTableStep
<1>3. CASE SaveLine
  BY <1>3, SaveLineStep
<1>4. CASE CrashBeforeLine
  BY <1>4, CrashBeforeLineStep
<1>5. CASE LoadTable
  BY <1>5, LoadTableStep
<1> QED BY <1>1, <1>2, <1>3, <1>4, <1>5 DEF SSTableNext

\* The inductive invariant of an SSTable file's life.
THEOREM TableInvCorrect == SSTableSpec => []TableInv
<1>1. SSTableInit => TableInv
  BY TableInvInit
<1>2. TableInv /\ [SSTableNext]_sstableVars => TableInv'
  BY TableInvStep
<1> QED BY <1>1, <1>2, PTL DEF SSTableSpec

LEMMA TableTypes ==
    ASSUME TableInv
    PROVE  SSTableTypeOK
<1>1. Cardinality(meta) <= 1
  <2>1. meta = {} \/ \E m : meta = {m}
    BY DEF TableInv
  <2>2. Cardinality({}) = 0 /\ \A m : Cardinality({m}) = 1
    BY FS_EmptySet, FS_Singleton
  <2>3. Cardinality(meta) = 0 \/ Cardinality(meta) = 1
    BY <2>1, <2>2, Zenon
  <2> QED BY <2>3
<1>2. CASE handle = {}
  <2>1. Cardinality(handle) <= 1
    BY <1>2, FS_EmptySet
  <2> QED BY <1>1, <1>2, <2>1 DEF SSTableTypeOK, TableInv
<1>3. CASE handle # {}
  <2>1. PICK index \in Indexes : /\ contents \in Maps /\ bin = Written(contents, index)
                                 /\ handle = {TableOf(contents, index)}
    BY <1>3 DEF TableInv
  <2>2. Cardinality(handle) = 1
    BY <2>1, FS_Singleton
  <2>3. bin.state = "whole"
    BY <2>1, TableParts
  <2> QED BY <1>1, <2>1, <2>2, <2>3 DEF SSTableTypeOK, TableInv
<1> QED BY <1>2, <1>3

\* Of a file that nothing was under the name of, get() begins at a record and
\* gives every key what the table was made from; of one written over another's it
\* takes no other table's entry (SSTable::get, flush, loadMetadata, BloomFilter).
THEOREM GetExactCorrect == SSTableSpec => []GetExact
<1>1. TableInv => GetExact
  <2> SUFFICES ASSUME TableInv,
                      NEW t \in handle, NEW k \in Keys
               PROVE  /\ UpperBounds(t.index, k) # {}
                      /\ \A n \in UpperBounds(t.index, k) : Exact(t, k, n)
    BY TableTypes DEF GetExact, Exact
  <2>1. PICK index \in Indexes : /\ contents \in Maps /\ bin = Written(contents, index)
                                 /\ handle = {TableOf(contents, index)}
                                 /\ ~stale => index = <<>>
    BY DEF TableInv
  <2>2. t = TableOf(contents, index)
    BY <2>1
  <2>3. UpperBounds(t.index, k) # {}
    BY <2>1, <2>2, TableParts, SearchEnds
  <2>4. ASSUME NEW n \in UpperBounds(t.index, k)
        PROVE  Exact(t, k, n)
    <3>1. CASE stale
      BY <2>1, <2>2, <3>1, LookupOwn DEF Exact
    <3>2. CASE ~stale
      <4>1. index = <<>> /\ n \in UpperBounds(TableOf(contents, <<>>).index, k)
        BY <2>1, <2>2, <3>2
      <4> QED BY <2>1, <2>2, <3>2, <4>1, LookupExact DEF Exact
    <3> QED BY <3>1, <3>2
  <2> QED BY <2>3, <2>4
<1> QED BY <1>1, TableInvCorrect, PTL

\* Reading the whole file gives the map the table was made from, whatever its
\* index (SSTable::getData, Iterator).
THEOREM ScanExactCorrect == SSTableSpec => []ScanExact
<1>1. TableInv => ScanExact
  <2> SUFFICES ASSUME TableInv, NEW t \in handle
               PROVE  GetData(t, bin) = contents
    BY DEF ScanExact
  <2>1. PICK index \in Indexes : /\ contents \in Maps /\ bin = Written(contents, index)
                                 /\ handle = {TableOf(contents, index)}
    BY DEF TableInv
  <2> QED BY <2>1, ScanWhole
<1> QED BY <1>1, TableInvCorrect, PTL

\* levels.txt keeps a table's number and level whatever its keys, and all of its
\* meta when each key is one word (saveMetadata, loadLevelMetadata).
THEOREM MetaKeptCorrect == SSTableSpec => []MetaKept
<1>1. TableInv => MetaKept
  <2> SUFFICES ASSUME TableInv, NEW l \in line
               PROVE  LET m == MetaData(contents)
                          r == MetaRead(l)
                      IN  /\ r.id = m.id /\ r.level = m.level
                          /\ Len(WordsOf[m.minKey]) = 1 /\ Len(WordsOf[m.maxKey]) = 1 =>
                                 /\ r.minKey = WordsOf[m.minKey][1]
                                 /\ r.maxKey = WordsOf[m.maxKey][1]
                                 /\ r.maxSeq = m.maxSeq /\ r.size = m.size
    BY DEF MetaKept
  <2>1. l = LineOf(MetaData(contents))
    BY DEF TableInv
  <2>2. contents \in Maps
    BY DEF TableInv
  <2> QED BY <2>1, <2>2, LineRead
<1> QED BY <1>1, TableInvCorrect, PTL
=============================================================================
