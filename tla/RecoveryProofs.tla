--------------------------- MODULE RecoveryProofs ---------------------------
(* Theorems about what the storage engine finds again after a crash, for   *)
(* any keys, threads, limits and bounds.                                   *)
EXTENDS StorageEngineProofs

-----------------------------------------------------------------------------
(* What levels.txt refers to survives a crash: the tables of the version,  *)
(* those about to be saved and those of levels.txt all hold the newest     *)
(* entry of each key that has been saved, or know that it was deleted.     *)

\* The tables of v hold write number n of k or a newer one, or L0 and L1 hold
\* nothing of k and delete number d explains it.
FiledIn(v, k, d, n) ==
    Covers({}, {}, Found(v, tables, 0, k) \cup Found(v, tables, 1, k), Stored(v, tables, k), d, n)

\* The writes of k that are in levels.txt, and those that saveMetadata is about to
\* add to it.
Marks(k) ==
    {flushed[k]} \cup
        (IF save.by = "none" THEN {}
         ELSE {e.seq : e \in Stored(Saved(save.levels), tables, k)})

\* Whatever is not yet in the version is newer.
Held(k, n) ==
    /\ n \in Nat /\ n <= NextSeq
    /\ FiledIn(version, k, lastDel[k], n)
    /\ \A e \in Mem(k) \cup Below(k) : e.seq >= n

\* What saveMetadata has taken, and what is in levels.txt while it does not run.
SavedHold ==
    IF save.by # "none"
    THEN /\ Deleted(Saved(save.levels))
         /\ \A k \in Keys : FiledIn(Saved(save.levels), k, lastDel[k], flushed[k])
    ELSE /\ levelsFile = {} => \A k \in Keys : flushed[k] = 0
         /\ \A ls \in levelsFile : \A k \in Keys : FiledIn(Saved(ls), k, lastDel[k], flushed[k])

\* The deletes in the log are known: the last record of each key in the file, and
\* every record on its way there.
LogDeletes ==
    /\ \A k \in DOMAIN Replayed(log) :
           Replayed(log)[k].type = "DELETE" => lastDel[k] >= Replayed(log)[k].seq
    /\ \A r \in Range(walSyncing) \cup Range(walBuf) :
           r.type = "DELETE" => lastDel[r.key] >= r.seq
    /\ w.pc = "log" /\ Request.type = "DELETE" => lastDel[Request.key] >= seq

\* metadata.txt is truncated only while saveMetadata is at it.
MetaWhole == save.step # "meta" => metaFile # {<<>>}

SaveInv ==
    proc = "up" =>
        /\ MetaWhole
        /\ ~disorder => /\ Tombstones /\ SavedHold /\ LogDeletes
                        /\ \A k \in Keys : \A n \in Marks(k) : Held(k, n)

\* The entries of a version have numbers.
LEMMA StoredNumbers ==
    ASSUME NEW v, Orderly(v), NEW k, NEW e \in Stored(v, tables, k)
    PROVE  e.seq \in Nat
<1>1. PICK l \in Levels : e \in Found(v, tables, l, k)
  BY FoundFiles
<1>2. PICK m \in Range(v.levels[l]) : k \in DOMAIN tables[m.id] /\ e = tables[m.id][k]
  BY <1>1, FoundFiles
<1> QED BY <1>2 DEF Orderly, Readable

\* A later delete explains as much.
LEMMA FiledInLater ==
    ASSUME NEW F, NEW T, NEW d \in Nat, NEW x \in Nat, d <= x, NEW n \in Nat,
           Covers({}, {}, T, F, d, n)
    PROVE  Covers({}, {}, T, F, x, n)
<1>1. d >= n => x >= n
  OBVIOUS
<1> QED BY <1>1 DEF Covers

\* The files that levels.txt names, or is going to, keep their contents.
LEMMA SavedFilesKept ==
    ASSUME Inv, VInv, proc = "up", ~disorder, TablesKept, NEW ls,
           (save.by # "none" /\ ls = save.levels) \/ ls \in levelsFile
    PROVE  /\ \A id \in IdsOf(ls) : tables'[id] = tables[id]
           /\ \A k : /\ \A l \in Levels : Found(Saved(ls), tables', l, k) = Found(Saved(ls), tables, l, k)
                     /\ Stored(Saved(ls), tables', k) = Stored(Saved(ls), tables, k)
<1>1. SavedOrderly
  BY DEF VInv, InOrder, TreeOrder
<1>2. Orderly(Saved(ls)) /\ IdsOf(ls) \subseteq files
  BY <1>1 DEF SavedOrderly
<1>3. LevelsUpto(ls, counter)
  BY DEF Inv, TreeInv, Numbers
<1>4. ASSUME NEW id \in IdsOf(ls) PROVE tables'[id] = tables[id]
  <2>1. PICK m \in UNION {Range(ls[l]) : l \in Levels} : m.id = id
    BY DEF IdsOf
  <2>2. id <= counter
    BY <1>3, <2>1 DEF LevelsUpto
  <2>3. id \in DOMAIN tables
    BY <1>2 DEF Inv, Types, TreeTypes
  <2> QED BY <2>2, <2>3 DEF TablesKept
<1>5. \A id \in Saved(ls).sstables : tables'[id] = tables[id]
  BY <1>4 DEF Saved
<1> QED BY <1>2, <1>4, <1>5, OrderlyKept

\* What a version holds of k, with other files beside its own.
LEMMA FiledInKept ==
    ASSUME NEW v, NEW k, \A l \in Levels : Found(v, tables', l, k) = Found(v, tables, l, k),
           Stored(v, tables', k) = Stored(v, tables, k), NEW d \in Nat, NEW x \in Nat, d <= x,
           NEW n \in Nat, FiledIn(v, k, d, n)
    PROVE  Covers({}, {}, Found(v, tables', 0, k) \cup Found(v, tables', 1, k),
                  Stored(v, tables', k), x, n)
<1>1. PICK T, F : /\ T = Found(v, tables, 0, k) \cup Found(v, tables, 1, k)
                  /\ F = Stored(v, tables, k)
  OBVIOUS
<1>2. /\ Found(v, tables', 0, k) \cup Found(v, tables', 1, k) = T
      /\ Stored(v, tables', k) = F
  BY <1>1 DEF Levels
<1>3. Covers({}, {}, T, F, d, n)
  BY <1>1 DEF FiledIn
<1> QED BY <1>2, <1>3, FiledInLater

\* A step that neither installs a version nor ends saveMetadata, nor starts it.
LEMMA SaveInvKept ==
    ASSUME Inv, Inv', VInv, VInv', SaveInv, proc = "up",
           UNCHANGED <<version, flushed, disorder>>, save'.by = save.by,
           save'.levels = save.levels, levelsFile' = levelsFile \/ save.by # "none",
           TablesKept, MetaWhole => MetaWhole',
           ~disorder /\ Tombstones /\ LogDeletes =>
               /\ LogDeletes' /\ NextSeq <= NextSeq'
               /\ \A k \in Keys :
                      /\ lastDel[k] <= lastDel'[k] /\ lastDel'[k] < NextSeq'
                      /\ \A e \in Mem(k)' \cup Below(k)' :
                             e \in Mem(k) \cup Below(k) \/ (e.seq \in Nat /\ e.seq >= NextSeq)
    PROVE  SaveInv'
<1> SUFFICES ASSUME proc' = "up" PROVE SaveInv'
  BY DEF SaveInv
<1>1. MetaWhole'
  BY DEF SaveInv
<1> SUFFICES ASSUME ~disorder
             PROVE  /\ Tombstones' /\ SavedHold' /\ LogDeletes'
                    /\ \A k \in Keys : \A n \in Marks(k)' : Held(k, n)'
  BY <1>1 DEF SaveInv
<1>2. /\ Tombstones /\ SavedHold /\ LogDeletes
      /\ \A k \in Keys : \A n \in Marks(k) : Held(k, n)
  BY DEF SaveInv
<1>3. /\ LogDeletes' /\ NextSeq <= NextSeq'
      /\ \A k \in Keys :
             /\ lastDel[k] <= lastDel'[k] /\ lastDel'[k] < NextSeq'
             /\ \A e \in Mem(k)' \cup Below(k)' :
                    e \in Mem(k) \cup Below(k) \/ (e.seq \in Nat /\ e.seq >= NextSeq)
  BY <1>2
<1>4. Acks /\ Acks' /\ Orderly(version)
  BY DEF VInv, InOrder, TreeOrder
<1>5. NextSeq \in Nat /\ NextSeq' \in Nat
  <2>1. NextSeq \in Nat
    BY <1>4, DueNumbers
  <2>2. NextSeq' = seq' \/ NextSeq' = seq' + 1
    BY DEF NextSeq
  <2>3. seq' \in Nat
    BY DEF Inv, Types, LogTypes
  <2> QED BY <2>1, <2>2, <2>3
<1>6. \A k : /\ \A l \in Levels : Found(version, tables', l, k) = Found(version, tables, l, k)
             /\ Stored(version, tables', k) = Stored(version, tables, k)
  <2>1. \A id \in version.sstables : id \in DOMAIN tables /\ id <= counter
    BY DEF Inv, Types, TreeTypes, Known, Versions, TreeInv, Numbers, VersionUpto
  <2>2. \A id \in version.sstables : tables'[id] = tables[id]
    BY <2>1 DEF TablesKept
  <2> QED BY <1>4, <2>2, OrderlyKept
<1>7. \A k \in Keys : lastDel[k] \in Nat /\ lastDel'[k] \in Nat
  BY <1>4 DEF Acks
<1>8. Tombstones'
  <2>1. ASSUME NEW k \in Keys, NEW e \in Stored(version, tables', k), e.type = "DELETE"
        PROVE  lastDel'[k] >= e.seq
    <3>1. e \in Stored(version, tables, k)
      BY <1>6, <2>1
    <3>2. lastDel[k] >= e.seq
      BY <1>2, <2>1, <3>1 DEF Tombstones, Deleted
    <3>3. e.seq \in Nat
      BY <1>4, <3>1, StoredNumbers
    <3> QED BY <1>3, <1>7, <3>2, <3>3
  <2> QED BY <1>3, <2>1 DEF Tombstones, Deleted
<1>9. ASSUME NEW ls, (save.by # "none" /\ ls = save.levels) \/ ls \in levelsFile, NEW k \in Keys,
             FiledIn(Saved(ls), k, lastDel[k], flushed[k]), NEW n \in Nat, n = flushed[k]
      PROVE  FiledIn(Saved(ls), k, lastDel[k], flushed[k])'
  <2>1. /\ \A l \in Levels : Found(Saved(ls), tables', l, k) = Found(Saved(ls), tables, l, k)
        /\ Stored(Saved(ls), tables', k) = Stored(Saved(ls), tables, k)
    BY <1>9, SavedFilesKept
  <2>2. PICK d \in Nat, x \in Nat : d = lastDel[k] /\ x = lastDel'[k]
    BY <1>7
  <2>v. PICK v : v = Saved(ls)
    OBVIOUS
  <2>3. Covers({}, {}, Found(v, tables', 0, k) \cup Found(v, tables', 1, k),
               Stored(v, tables', k), x, n)
    BY <1>3, <1>9, <2>1, <2>2, <2>v, FiledInKept
  <2> QED BY <1>9, <2>2, <2>3, <2>v DEF FiledIn, Saved
<1>10. \A k \in Keys : \A n \in Marks(k) : n \in Nat /\ Held(k, n)
  BY <1>2 DEF Held
<1>11. \A k \in Keys : flushed[k] \in Nat
  BY <1>10 DEF Marks
<1>12. SavedHold'
  <2>1. CASE save.by # "none"
    <3>1. Deleted(Saved(save.levels)) /\ Orderly(Saved(save.levels))
      BY <1>2, <2>1 DEF SavedHold, VInv, InOrder, TreeOrder, SavedOrderly
    <3>2. ASSUME NEW k \in Keys, NEW e \in Stored(Saved(save.levels), tables', k),
                 e.type = "DELETE"
          PROVE  lastDel'[k] >= e.seq
      <4>1. e \in Stored(Saved(save.levels), tables, k)
        BY <2>1, <3>2, SavedFilesKept
      <4>2. lastDel[k] >= e.seq
        BY <3>1, <3>2, <4>1 DEF Deleted
      <4>3. e.seq \in Nat
        BY <3>1, <4>1, StoredNumbers
      <4> QED BY <1>3, <1>7, <4>2, <4>3
    <3>3. Deleted(Saved(save.levels))'
      BY <3>2 DEF Deleted, Saved
    <3>4. ASSUME NEW k \in Keys PROVE FiledIn(Saved(save.levels), k, lastDel[k], flushed[k])'
      <4>1. FiledIn(Saved(save.levels), k, lastDel[k], flushed[k])
        BY <1>2, <2>1 DEF SavedHold
      <4> QED BY <1>9, <1>11, <2>1, <4>1 DEF Saved
    <3> QED BY <2>1, <3>3, <3>4 DEF SavedHold
  <2>2. CASE save.by = "none"
    <3>1. /\ levelsFile = {} => \A k \in Keys : flushed[k] = 0
          /\ \A ls \in levelsFile : \A k \in Keys :
                 FiledIn(Saved(ls), k, lastDel[k], flushed[k])
      BY <1>2, <2>2 DEF SavedHold
    <3>2. \A ls \in levelsFile : \A k \in Keys :
              FiledIn(Saved(ls), k, lastDel[k], flushed[k])'
      BY <1>9, <1>11, <3>1
    <3> QED BY <2>2, <3>1, <3>2 DEF SavedHold, FiledIn, Saved
  <2> QED BY <2>1, <2>2
<1>13. ASSUME NEW k \in Keys PROVE Marks(k)' = Marks(k)
  <2>1. save.by # "none" =>
            Stored(Saved(save.levels), tables', k) = Stored(Saved(save.levels), tables, k)
    BY SavedFilesKept
  <2> QED BY <2>1 DEF Marks, Saved
<1>14. ASSUME NEW k \in Keys, NEW n \in Marks(k) PROVE Held(k, n)'
  <2>1. n \in Nat /\ Held(k, n)
    BY <1>10
  <2>2. PICK d \in Nat, x \in Nat : d = lastDel[k] /\ x = lastDel'[k]
    BY <1>7
  <2>v. PICK v : v = version
    OBVIOUS
  <2>3. Covers({}, {}, Found(v, tables', 0, k) \cup Found(v, tables', 1, k),
               Stored(v, tables', k), x, n)
    BY <1>3, <1>6, <2>1, <2>2, <2>v, FiledInKept DEF Held
  <2>4. FiledIn(version, k, lastDel[k], n)'
    BY <2>2, <2>3, <2>v DEF FiledIn
  <2>5. n <= NextSeq' /\ \A e \in Mem(k)' \cup Below(k)' : e.seq >= n
    <3>1. n <= NextSeq /\ \A e \in Mem(k) \cup Below(k) : e.seq >= n
      BY <2>1 DEF Held
    <3>2. ASSUME NEW e \in Mem(k)' \cup Below(k)' PROVE e.seq >= n
      <4>1. e.seq \in Nat
        <5>1. HandOvers
          BY DEF VInv
        <5>2. \A g \in Mem(k) \cup Below(k) : g \in Entry
          BY <5>1, MemoryEntries
        <5> QED BY <1>3, <3>2, <5>2 DEF Entry
      <4>2. e \in Mem(k) \cup Below(k) \/ (e.seq \in Nat /\ e.seq >= NextSeq)
        BY <1>3
      <4> QED BY <1>5, <2>1, <3>1, <4>1, <4>2
    <3> QED BY <1>3, <1>5, <2>1, <3>1, <3>2
  <2> QED BY <2>1, <2>4, <2>5 DEF Held
<1> QED BY <1>3, <1>8, <1>12, <1>13, <1>14

\* The log with more records at its end.
LEMMA ReplayedMore ==
    ASSUME NEW a \in Seq(Records), NEW s \in Seq(Records), NEW k \in DOMAIN Replayed(a \o s)
    PROVE  \/ k \in DOMAIN Replayed(a) /\ Replayed(a \o s)[k] = Replayed(a)[k]
           \/ \E r \in Range(s) :
                  r.key = k /\ Replayed(a \o s)[k] = [seq |-> r.seq, type |-> r.type]
<1> DEFINE u == a \o s
           P == {i \in DOMAIN a : a[i].key = k}
           Q == {i \in DOMAIN u : u[i].key = k}
<1>1. PICK n \in Nat, m \in Nat : n = Len(a) /\ m = Len(s)
  OBVIOUS
<1>2. /\ DOMAIN a = 1..n /\ DOMAIN s = 1..m /\ DOMAIN u = 1..(n + m)
      /\ \A i \in 1..n : u[i] = a[i]
      /\ \A i \in (n + 1)..(n + m) : u[i] = s[i - n] /\ i - n \in 1..m
  BY <1>1
<1>3. /\ DOMAIN Replayed(a) = {r.key : r \in Range(a)}
      /\ k \in DOMAIN Replayed(a) =>
             Replayed(a)[k] = [seq |-> a[Max(P)].seq, type |-> a[Max(P)].type]
      /\ k \in {r.key : r \in Range(u)}
      /\ Replayed(u)[k] = [seq |-> u[Max(Q)].seq, type |-> u[Max(Q)].type]
  BY DEF Replayed
<1> HIDE DEF u, P, Q
<1>4. Max(Q) \in Q /\ \A i \in Q : i <= Max(Q)
  <2>1. PICK r \in Range(u) : r.key = k
    BY <1>3
  <2>2. PICK i \in DOMAIN u : r = u[i]
    BY <2>1 DEF Range
  <2>3. i \in Q /\ Q \in SUBSET Nat /\ n + m \in Nat /\ \A j \in Q : j <= n + m
    BY <1>2, <2>1, <2>2 DEF Q
  <2> QED BY <2>3, MaxNat
<1>5. PICK i \in 1..(n + m) : i = Max(Q) /\ u[i].key = k
  BY <1>2, <1>4 DEF Q
<1>6. CASE i <= n
  <2>1. ASSUME NEW j \in Q PROVE j \in 1..n
    <3>1. j \in 1..(n + m)
      BY <1>2 DEF Q
    <3>2. j <= i
      BY <1>4, <1>5
    <3> QED BY <1>6, <3>1, <3>2
  <2>2. Q = P
    BY <1>2, <2>1 DEF Q, P
  <2>3. i \in 1..n /\ u[i] = a[i]
    BY <1>2, <1>6
  <2>4. k \in DOMAIN Replayed(a)
    BY <1>2, <1>3, <1>5, <2>3 DEF Range
  <2> QED BY <1>3, <1>5, <2>2, <2>3, <2>4 DEF u
<1>7. CASE ~(i <= n)
  <2>1. i \in (n + 1)..(n + m)
    BY <1>7
  <2>2. u[i] = s[i - n] /\ s[i - n] \in Range(s)
    BY <1>2, <2>1 DEF Range
  <2> QED BY <1>3, <1>5, <2>2 DEF u
<1> QED BY <1>6, <1>7

\* The log goes on with what is in its buffers, or is removed.
LEMMA LogDeletesKept ==
    ASSUME Inv, Acks, LogDeletes, NEW N \in SUBSET Records,
           \A r \in N : r.type = "DELETE" => lastDel'[r.key] >= r.seq,
           \A k \in Keys : lastDel[k] <= lastDel'[k] /\ lastDel'[k] \in Nat,
           \/ \E s \in Seq(Records) :
                 /\ log' = log \o s
                 /\ Range(s) \cup Range(walSyncing') \cup Range(walBuf')
                        \subseteq Range(walSyncing) \cup Range(walBuf) \cup N
           \/ /\ log' = <<>> \/ log' = log
              /\ Range(walSyncing') \cup Range(walBuf')
                     \subseteq Range(walSyncing) \cup Range(walBuf) \cup N,
           w'.pc = "log" /\ Request'.type = "DELETE" => lastDel'[Request'.key] >= seq'
    PROVE  LogDeletes'
<1>1. /\ log \in Seq(Records) /\ Range(walSyncing) \cup Range(walBuf) \subseteq Records
  <2>1. log \in Seq(Records) /\ walSyncing \in Seq(Records) /\ walBuf \in Seq(Records)
    BY DEF Inv, Types, LogTypes
  <2> QED BY <2>1 DEF Range
<1>2. \A k \in Keys : lastDel[k] \in Nat
  BY DEF Acks
<1>3. ASSUME NEW r \in Range(walSyncing) \cup Range(walBuf) \cup N, r.type = "DELETE"
      PROVE  lastDel'[r.key] >= r.seq
  <2>1. CASE r \in N
    BY <1>3, <2>1
  <2>2. CASE r \in Range(walSyncing) \cup Range(walBuf)
    <3>1. lastDel[r.key] >= r.seq
      BY <1>3, <2>2 DEF LogDeletes
    <3>2. r.key \in Keys /\ r.seq \in Nat
      BY <1>1, <2>2 DEF Records
    <3> QED BY <1>2, <3>1, <3>2
  <2> QED BY <1>3, <2>1, <2>2
<1>4. ASSUME NEW k \in DOMAIN Replayed(log), Replayed(log)[k].type = "DELETE"
      PROVE  lastDel'[k] >= Replayed(log)[k].seq
  <2>1. IsTable(Replayed(log), Keys)
    BY <1>1, ReplayedTable DEF Records
  <2>2. k \in Keys /\ Replayed(log)[k].seq \in Nat
    BY <2>1 DEF IsTable, Entry
  <2>3. lastDel[k] >= Replayed(log)[k].seq
    BY <1>4 DEF LogDeletes
  <2> QED BY <1>2, <2>2, <2>3
<1>5. ASSUME NEW k \in DOMAIN Replayed(log'), Replayed(log')[k].type = "DELETE"
      PROVE  lastDel'[k] >= Replayed(log')[k].seq
  <2>1. CASE log' = <<>>
    <3>1. Range(log') = {}
      BY <2>1 DEF Range
    <3>2. DOMAIN Replayed(log') = {}
      BY <3>1 DEF Replayed
    <3> QED BY <3>2
  <2>2. CASE log' = log
    BY <1>4, <1>5, <2>2
  <2>3. ASSUME NEW s \in Seq(Records), log' = log \o s,
               Range(s) \subseteq Range(walSyncing) \cup Range(walBuf) \cup N
        PROVE  lastDel'[k] >= Replayed(log')[k].seq
    <3>1. CASE k \in DOMAIN Replayed(log) /\ Replayed(log')[k] = Replayed(log)[k]
      BY <1>4, <1>5, <3>1
    <3>2. ASSUME NEW r \in Range(s), r.key = k,
                 Replayed(log')[k] = [seq |-> r.seq, type |-> r.type]
          PROVE  lastDel'[k] >= Replayed(log')[k].seq
      <4>1. r.type = "DELETE"
        BY <1>5, <3>2
      <4> QED BY <1>3, <2>3, <3>2, <4>1
    <3> QED BY <1>1, <2>3, <3>1, <3>2, ReplayedMore
  <2> QED BY <2>1, <2>2, <2>3
<1>6. \A r \in Range(walSyncing') \cup Range(walBuf') : r.type = "DELETE" => lastDel'[r.key] >= r.seq
  BY <1>3
<1> QED BY <1>5, <1>6 DEF LogDeletes, Request

\* Two parts of the log that are written one behind the other.
LEMMA ConcatTwice ==
    ASSUME NEW a \in Seq(Records), NEW b \in Seq(Records), NEW d \in Seq(Records)
    PROVE  (a \o b) \o d = a \o (b \o d)
<1> DEFINE u == (a \o b) \o d
           v == a \o (b \o d)
<1>1. PICK n \in Nat, m \in Nat, p \in Nat : n = Len(a) /\ m = Len(b) /\ p = Len(d)
  OBVIOUS
<1>2. a \o b \in Seq(Records) /\ Len(a \o b) = n + m /\ b \o d \in Seq(Records) /\ Len(b \o d) = m + p
  BY <1>1
<1>3. u \in Seq(Records) /\ Len(u) = n + m + p /\ v \in Seq(Records) /\ Len(v) = n + (m + p)
  BY <1>1, <1>2
<1>4. ASSUME NEW i \in 1..(n + m + p) PROVE u[i] = v[i]
  <2>1. CASE i <= n
    <3>1. u[i] = (a \o b)[i] /\ (a \o b)[i] = a[i]
      BY <1>1, <1>2, <2>1
    <3>2. v[i] = a[i]
      BY <1>1, <1>2, <2>1
    <3> QED BY <3>1, <3>2
  <2>2. CASE n < i /\ i <= n + m
    <3>1. u[i] = (a \o b)[i] /\ (a \o b)[i] = b[i - n]
      BY <1>1, <1>2, <2>2
    <3>2. v[i] = (b \o d)[i - n] /\ (b \o d)[i - n] = b[i - n]
      BY <1>1, <1>2, <2>2
    <3> QED BY <3>1, <3>2
  <2>3. CASE n + m < i
    <3>1. u[i] = d[i - (n + m)]
      BY <1>1, <1>2, <2>3
    <3>2. v[i] = (b \o d)[i - n] /\ (b \o d)[i - n] = d[i - n - m]
      BY <1>1, <1>2, <2>3
    <3>3. i - (n + m) = i - n - m
      OBVIOUS
    <3> QED BY <3>1, <3>2, <3>3
  <2>4. i <= n \/ (n < i /\ i <= n + m) \/ n + m < i
    OBVIOUS
  <2> HIDE DEF u, v
  <2> QED BY <2>1, <2>2, <2>3, <2>4
<1> HIDE DEF u, v
<1>5. u = v
  BY <1>3, <1>4
<1> QED BY <1>5 DEF u, v

\* The sync thread, flush(), and the removal of log.bin.
LEMMA QuietLog ==
    ASSUME Inv, Acks, LogDeletes, UNCHANGED lastDel, w'.pc = "log" => UNCHANGED <<w, seq>>,
           \/ UNCHANGED <<log, walBuf, walSyncing>>
           \/ WalSwap \/ WalPublish \/ (WalFlush /\ UNCHANGED linked)
           \/ log' = <<>> /\ walBuf' = <<>> /\ walSyncing' = <<>>
    PROVE  LogDeletes'
<1>1. log \in Seq(Records) /\ walSyncing \in Seq(Records) /\ walBuf \in Seq(Records)
  BY DEF Inv, Types, LogTypes
<1>2. PICK N : N = {}
  OBVIOUS
<1>3. /\ N \in SUBSET Records /\ \A r \in N : r.type = "DELETE" => lastDel'[r.key] >= r.seq
      /\ \A k \in Keys : lastDel[k] <= lastDel'[k] /\ lastDel'[k] \in Nat
  BY <1>2 DEF Acks
<1>4. w'.pc = "log" /\ Request'.type = "DELETE" => lastDel'[Request'.key] >= seq'
  <2>1. ASSUME w'.pc = "log" PROVE w.pc = "log" /\ Request' = Request /\ seq' = seq
    BY <2>1 DEF Request
  <2> QED BY <2>1 DEF LogDeletes
<1>5. Range(<<>>) = {}
  BY DEF Range
<1>6. \/ \E s \in Seq(Records) :
            /\ log' = log \o s
            /\ Range(s) \cup Range(walSyncing') \cup Range(walBuf')
                   \subseteq Range(walSyncing) \cup Range(walBuf) \cup N
      \/ /\ log' = <<>> \/ log' = log
         /\ Range(walSyncing') \cup Range(walBuf')
                \subseteq Range(walSyncing) \cup Range(walBuf) \cup N
  <2>1. CASE UNCHANGED <<log, walBuf, walSyncing>>
    BY <2>1
  <2>2. CASE WalSwap
    BY <1>5, <2>2 DEF WalSwap
  <2>3. CASE WalPublish \/ (walSyncing' = <<>> /\ walBuf' = walBuf /\ log' = log \o walSyncing)
    <3>1. log' = log \o walSyncing /\ walSyncing' = <<>> /\ walBuf' = walBuf
      BY <2>3 DEF WalPublish
    <3> QED BY <1>1, <1>5, <3>1
  <2>4. CASE log' = log \o walSyncing \o walBuf /\ walSyncing' = <<>> /\ walBuf' = <<>>
    <3>1. PICK s \in Seq(Records) : s = walSyncing \o walBuf
      BY <1>1, RangeOfConcat
    <3>2. Range(s) = Range(walSyncing) \cup Range(walBuf)
      BY <1>1, <3>1, RangeOfConcat
    <3>3. log' = log \o s
      BY <1>1, <2>4, <3>1, ConcatTwice
    <3> QED BY <1>5, <2>4, <3>2, <3>3
  <2>5. CASE log' = <<>> /\ walBuf' = <<>> /\ walSyncing' = <<>>
    BY <1>5, <2>5
  <2> QED BY <2>1, <2>2, <2>3, <2>4, <2>5 DEF WalFlush
<1> QED BY <1>1, <1>3, <1>4, <1>6, LogDeletesKept

\* The writer thread appends to the log what it has put into the memtable.
LEMMA WriterLogDeletes ==
    ASSUME Inv, Acks, LogDeletes, WriterLog
    PROVE  LogDeletes'
<1>1. PICK r : r = [key |-> Request.key, seq |-> seq, type |-> Request.type]
  OBVIOUS
<1>2. /\ w.pc = "log" /\ w' = [w EXCEPT !.pc = "invalidate"]
      /\ UNCHANGED <<log, walSyncing, lastDel>>
      /\ walBuf' = walBuf \/ walBuf' = Append(walBuf, r)
  BY <1>1 DEF WriterLog, LogAppend
<1>3. /\ walBuf \in Seq(Records) /\ seq \in Nat /\ w \in WriterRecord
  BY DEF Inv, Types, LogTypes, WriterTypes
<1>4. Request \in Requests
  <2>1. w.pos \in 1..Len(w.batch) /\ w.batch \in Seq(Requests)
    BY <1>2, <1>3 DEF Inv, Types, WriterTypes, WriterRecord
  <2> QED BY <2>1 DEF Request
<1>5. r \in Records
  BY <1>1, <1>3, <1>4 DEF Records, Requests
<1>6. PICK N \in SUBSET Records : N = {r}
  BY <1>5
<1>7. \A x \in N : x.type = "DELETE" => lastDel'[x.key] >= x.seq
  BY <1>1, <1>2, <1>6 DEF LogDeletes
<1>8. Range(walBuf') \subseteq Range(walBuf) \cup N
  BY <1>2, <1>3, <1>5, <1>6, AppendRange
<1>9. w'.pc # "log"
  BY <1>2, <1>3 DEF WriterRecord
<1>10. \A k \in Keys : lastDel[k] <= lastDel'[k] /\ lastDel'[k] \in Nat
  BY <1>2 DEF Acks
<1> QED BY <1>2, <1>7, <1>8, <1>9, <1>10, LogDeletesKept
\* A step in which no entry comes into memory.
LEMMA BelowShrinks ==
    ASSUME UNCHANGED memtable, immutable' \subseteq immutable,
           \A t \in Callers : cf'[t] = cf[t] \/ cf'[t].pc \notin Handed, NEW k
    PROVE  Mem(k)' \cup Below(k)' \subseteq Mem(k) \cup Below(k)
<1>1. Mem(k)' = Mem(k)
  BY DEF Mem
<1>2. ImmutableEntry(k)' \subseteq ImmutableEntry(k)
  BY DEF ImmutableEntry
<1>3. ASSUME NEW e \in Below(k)' PROVE e \in Below(k)
  <2>1. CASE e \in ImmutableEntry(k)'
    BY <1>2, <2>1 DEF Below
  <2>2. CASE e \notin ImmutableEntry(k)'
    <3>1. PICK t \in Callers : cf'[t].pc \in Handed /\ e \in EntryOf(cf'[t].snap, k)
      BY <1>3, <2>2 DEF Below
    <3>2. cf'[t] = cf[t]
      BY <3>1
    <3> QED BY <3>1, <3>2 DEF Below
  <2> QED BY <2>1, <2>2
<1> QED BY <1>1, <1>3

\* A step that neither writes nor installs, nor starts or ends saveMetadata.
LEMMA SaveInvCalm ==
    ASSUME Inv, Inv', VInv, VInv', SaveInv, proc = "up",
           UNCHANGED <<version, flushed, disorder, lastDel>>, NextSeq' = NextSeq,
           save'.by = save.by, save'.levels = save.levels,
           levelsFile' = levelsFile \/ save.by # "none", TablesKept, MetaWhole => MetaWhole',
           MemoryCalm \/ \A k \in Keys : Mem(k)' \cup Below(k)' \subseteq Mem(k) \cup Below(k),
           LogDeletes => LogDeletes'
    PROVE  SaveInv'
<1>1. \A k \in Keys : Mem(k)' \cup Below(k)' \subseteq Mem(k) \cup Below(k)
  BY CalmEntries
<1>2. Acks
  BY DEF VInv
<1>3. NextSeq \in Nat /\ \A k \in Keys : lastDel[k] \in Nat
  BY <1>2, DueNumbers DEF Acks
<1>4. Tombstones => \A k \in Keys : lastDel[k] < NextSeq
  BY DEF Tombstones
<1>5. ~disorder /\ Tombstones /\ LogDeletes =>
          /\ LogDeletes' /\ NextSeq <= NextSeq'
          /\ \A k \in Keys :
                 /\ lastDel[k] <= lastDel'[k] /\ lastDel'[k] < NextSeq'
                 /\ \A e \in Mem(k)' \cup Below(k)' :
                        e \in Mem(k) \cup Below(k) \/ (e.seq \in Nat /\ e.seq >= NextSeq)
  BY <1>1, <1>3, <1>4
<1> QED BY <1>5, SaveInvKept

\* ... and leaves the log alone.
LEMMA SaveInvQuiet ==
    ASSUME Inv, Inv', VInv, VInv', SaveInv, proc = "up",
           UNCHANGED <<version, flushed, disorder, lastDel, w, seq, logVars>>,
           save'.by = save.by, save'.levels = save.levels,
           levelsFile' = levelsFile \/ save.by # "none", TablesKept, MetaWhole => MetaWhole',
           MemoryCalm \/ \A k \in Keys : Mem(k)' \cup Below(k)' \subseteq Mem(k) \cup Below(k)
    PROVE  SaveInv'
<1>1. NextSeq' = NextSeq
  BY DEF NextSeq
<1>2. LogDeletes => LogDeletes'
  BY DEF LogDeletes, Request, logVars
<1> QED BY <1>1, <1>2, SaveInvCalm

\* The threads without the writer, while no version is installed and nothing is saved.
LEMMA IdleSave ==
    ASSUME Inv, Inv', VInv, VInv', SaveInv,
           \/ \E t \in Callers : CheckFlushNotify(t)
           \/ FlushTake \/ FlushSleep \/ FlushBuild \/ FlushCopy
           \/ FlushCache \/ FlushReset \/ FlushNotify
           \/ CompactTest \/ CompactSleep \/ CompactSkip \/ CompactMerge \/ CompactBuild
           \/ CompactCopy \/ CompactRemove \/ CompactCache
    PROVE  SaveInv'
<1> USE DEF memVars, fileVars, raceVars, boundVars
<1>1. ASSUME NEW t \in Callers, CheckFlushNotify(t) PROVE SaveInv'
  <2>1. UNCHANGED <<version, tables, flushed, disorder, lastDel, w, seq, logVars, save, levelsFile,
                    metaFile>> /\ proc = "up"
    BY <1>1 DEF CheckFlushNotify
  <2>2. MemoryCalm
    BY <1>1, NotifyStep
  <2> QED BY <2>1, <2>2, SaveInvQuiet DEF TablesKept, MetaWhole
<1>2. CASE FlushTake \/ FlushSleep \/ FlushCache \/ FlushReset \/ FlushNotify
  <2>1. /\ UNCHANGED <<version, tables, flushed, disorder, lastDel, w, seq, logVars, save,
                       levelsFile, metaFile, memtable>> /\ proc = "up"
        /\ immutable' \subseteq immutable
    BY <1>2 DEF FlushTake, FlushSleep, FlushCache, FlushReset, FlushNotify
  <2>2. \A t \in Callers : cf'[t] = cf[t] \/ cf'[t].pc \notin Handed
    <3>1. CASE FlushNotify
      <4>1. cf \in [Callers -> CallerRecord]
        BY DEF Inv, Types, MemoryTypes
      <4>2. ASSUME NEW t \in Callers, t \in Asleep PROVE cf'[t].pc = "lock"
        <5>1. cf'[t] = [cf[t] EXCEPT !.pc = "lock"]
          BY <3>1, <4>2 DEF FlushNotify
        <5> QED BY <4>1, <5>1 DEF CallerRecord
      <4>3. ASSUME NEW t \in Callers, t \notin Asleep PROVE cf'[t] = cf[t]
        BY <3>1, <4>3 DEF FlushNotify
      <4> QED BY <4>2, <4>3 DEF Handed
    <3>2. CASE FlushTake \/ FlushSleep \/ FlushCache \/ FlushReset
      BY <3>2 DEF FlushTake, FlushSleep, FlushCache, FlushReset
    <3> QED BY <1>2, <3>1, <3>2
  <2>3. \A k \in Keys : Mem(k)' \cup Below(k)' \subseteq Mem(k) \cup Below(k)
    BY <2>1, <2>2, BelowShrinks
  <2> QED BY <2>1, <2>3, SaveInvQuiet DEF TablesKept, MetaWhole
<1>3. CASE FlushBuild \/ CompactBuild
  <2>1. UNCHANGED <<version, flushed, disorder, lastDel, w, seq, logVars, save, levelsFile,
                    metaFile>> /\ proc = "up"
    BY <1>3 DEF FlushBuild, CompactBuild
  <2>2. MemoryCalm /\ TablesKept
    BY <1>3, BuildValues
  <2> QED BY <2>1, <2>2, SaveInvQuiet DEF MetaWhole
<1>4. CASE FlushCopy \/ CompactCopy
  <2>1. UNCHANGED <<version, tables, flushed, disorder, lastDel, w, seq, logVars, save, levelsFile,
                    metaFile>> /\ proc = "up"
    BY <1>4 DEF FlushCopy, CompactCopy
  <2>2. MemoryCalm
    BY <1>4, CopyValues
  <2> QED BY <2>1, <2>2, SaveInvQuiet DEF TablesKept, MetaWhole
<1>5. CASE CompactTest \/ CompactSleep \/ CompactSkip \/ CompactRemove \/ CompactCache
  <2>1. UNCHANGED <<version, tables, flushed, disorder, lastDel, w, seq, logVars, save, levelsFile,
                    metaFile>> /\ proc = "up"
    BY <1>5 DEF CompactTest, CompactSleep, CompactSkip, CompactRemove, CompactCache
  <2>2. MemoryCalm
    BY <1>5, CompactIdleValues
  <2> QED BY <2>1, <2>2, SaveInvQuiet DEF TablesKept, MetaWhole
<1>6. CASE CompactMerge
  <2>1. UNCHANGED <<version, tables, flushed, disorder, lastDel, w, seq, logVars, save, levelsFile,
                    metaFile>> /\ proc = "up"
    BY <1>6 DEF CompactMerge
  <2>2. MemoryCalm
    BY <1>6, MergeValues
  <2> QED BY <2>1, <2>2, SaveInvQuiet DEF TablesKept, MetaWhole
<1> QED BY <1>1, <1>2, <1>3, <1>4, <1>5, <1>6

\* The first two steps of saveMetadata.
LEMMA SavingSave ==
    ASSUME Inv, Inv', VInv, VInv', SaveInv, SaveMeta \/ SaveTruncate
    PROVE  SaveInv'
<1>1. /\ UNCHANGED <<version, tables, flushed, disorder, lastDel, w, seq, logVars>>
      /\ proc = "up" /\ save.step \in {"meta", "truncate"}
  BY DEF SaveMeta, SaveTruncate, memVars, raceVars, boundVars
<1>2. MemoryCalm
  BY SaveValues
<1>3. save \in SaveRecord /\ save.by # "none"
  BY <1>1 DEF Inv, Types, TreeTypes, TreeInv, Saving
<1>4. save'.by = save.by /\ save'.levels = save.levels
  BY <1>3 DEF SaveMeta, SaveTruncate, SaveRecord
<1>5. MetaWhole => MetaWhole'
  <2>1. CASE SaveMeta
    <3>1. metaFile' = {<<counter, seq>>}
      BY <2>1 DEF SaveMeta
    <3>2. <<counter, seq>> # <<>>
      OBVIOUS
    <3> QED BY <3>1, <3>2 DEF MetaWhole
  <2>2. CASE SaveTruncate
    <3>1. metaFile' = metaFile /\ save.step = "truncate"
      BY <2>2 DEF SaveTruncate
    <3> QED BY <3>1 DEF MetaWhole
  <2> QED BY <2>1, <2>2
<1> QED BY <1>1, <1>2, <1>3, <1>4, <1>5, SaveInvQuiet DEF TablesKept

\* The log, and get() in a client thread.
LEMMA OtherSave ==
    ASSUME Inv, Inv', VInv, VInv', SaveInv,
           \/ WalSwap \/ WalPublish \/ UNCHANGED vars
           \/ \E r \in Readers, k \in Keys : GetBegin(r, k)
           \/ \E r \in Readers : Get(r)
    PROVE  SaveInv'
<1>1. /\ UNCHANGED <<version, tables, flushed, disorder, lastDel, w, seq, save, levelsFile,
                     metaFile, memtable, immutable, cf, f, proc>>
      /\ \/ UNCHANGED logVars
         \/ WalSwap \/ WalPublish
  <2> USE DEF memVars, fileVars, raceVars, boundVars
  <2>1. CASE WalSwap \/ WalPublish
    BY <2>1 DEF WalSwap, WalPublish
  <2>2. CASE UNCHANGED vars
    BY <2>2 DEF vars
  <2>3. CASE \E r \in Readers, k \in Keys : GetBegin(r, k)
    BY <2>3 DEF GetBegin
  <2>4. ASSUME NEW r \in Readers, Get(r)
        PROVE  UNCHANGED <<version, tables, flushed, disorder, lastDel, w, seq, save, levelsFile,
                           metaFile, memtable, immutable, cf, f, proc, logVars>>
    <3>1. CASE GetMemtable(r) \/ GetImmutable(r) \/ GetVersion(r)
      BY <3>1 DEF GetMemtable, GetImmutable, GetVersion
    <3>2. CASE GetSearch(r)
      BY <3>2 DEF GetSearch
    <3>3. CASE GetThrow(r) \/ GetFill(r)
      BY <3>3 DEF GetThrow, GetFill
    <3> QED BY <2>4, <3>1, <3>2, <3>3 DEF Get
  <2> QED BY <2>1, <2>2, <2>3, <2>4
<1> SUFFICES ASSUME proc' = "up" PROVE SaveInv'
  BY DEF SaveInv
<1>2. proc = "up" /\ MemoryCalm
  BY <1>1 DEF MemoryCalm
<1>3. Acks /\ NextSeq' = NextSeq
  BY <1>1, <1>2 DEF VInv, NextSeq
<1>4. LogDeletes => LogDeletes'
  BY <1>1, <1>3, QuietLog DEF logVars
<1> QED BY <1>1, <1>2, <1>3, <1>4, SaveInvCalm DEF TablesKept, MetaWhole

\* writerThreadLoop, except that it writes to the memtable.
LEMMA WriterSave ==
    ASSUME Inv, Inv', VInv, VInv', SaveInv,
           WriterPop \/ WriterLog \/ WriterInvalidate \/ WriterFlush \/ WriterAck
    PROVE  SaveInv'
<1>1. /\ UNCHANGED <<version, tables, flushed, disorder, lastDel, save, levelsFile, metaFile>>
      /\ proc = "up"
  <2> USE DEF memVars, fileVars, raceVars, boundVars
  <2> QED BY DEF WriterPop, WriterLog, WriterInvalidate, WriterFlush, WriterAck
<1>2. MemoryCalm /\ NextSeq' = NextSeq
  BY WriterSteps, WriterAckValues
<1>3. Acks /\ w \in WriterRecord
  BY <1>1 DEF VInv, Inv, Types, WriterTypes
<1>4. ASSUME LogDeletes PROVE LogDeletes'
  <2>1. CASE WriterLog
    BY <1>3, <1>4, <2>1, WriterLogDeletes
  <2>2. CASE WriterPop \/ WriterInvalidate \/ WriterAck
    <3>1. UNCHANGED <<log, walBuf, walSyncing>>
      BY <2>2 DEF WriterPop, WriterInvalidate, WriterAck, logVars
    <3>2. w'.pc # "log"
      <4>1. CASE WriterPop \/ WriterAck
        BY <4>1 DEF WriterPop, WriterAck, WriterStart
      <4>2. CASE WriterInvalidate
        <5>1. \/ w' = [w EXCEPT !.pc = "apply", !.pos = w.pos + 1]
              \/ w' = [w EXCEPT !.pc = "flush"]
          BY <4>2 DEF WriterInvalidate
        <5> QED BY <1>3, <5>1 DEF WriterRecord
      <4> QED BY <2>2, <4>1, <4>2
    <3> QED BY <1>1, <1>3, <1>4, <3>1, <3>2, QuietLog
  <2>3. CASE WriterFlush
    <3>1. WalFlush /\ UNCHANGED linked
      BY <2>3 DEF WriterFlush
    <3>2. w'.pc # "log"
      BY <1>3, <2>3 DEF WriterFlush, WriterRecord
    <3> QED BY <1>1, <1>3, <1>4, <3>1, <3>2, QuietLog
  <2> QED BY <2>1, <2>2, <2>3
<1> QED BY <1>1, <1>2, <1>4, SaveInvCalm DEF TablesKept, MetaWhole

\* checkFlush, without a hand-over.
LEMMA CallerSave ==
    ASSUME Inv, Inv', VInv, VInv', SaveInv, NEW t \in Callers,
           \/ FlushCall(t) \/ CheckFlushWal(t) \/ CheckFlushTest(t) \/ CheckFlushSleep(t)
           \/ CheckFlushRemove(t)
    PROVE  SaveInv'
<1>1. /\ UNCHANGED <<version, tables, flushed, disorder, lastDel, save, levelsFile, metaFile, seq>>
      /\ proc = "up"
      /\ w' = w \/ w' = [w EXCEPT !.pc = "ack"]
      /\ \/ UNCHANGED <<log, walBuf, walSyncing>>
         \/ WalFlush /\ UNCHANGED linked
         \/ log' = <<>> /\ walBuf' = <<>> /\ walSyncing' = <<>>
  <2> USE DEF memVars, fileVars, raceVars, boundVars, logVars
  <2> QED BY DEF FlushCall, CheckFlushWal, CheckFlushTest, CheckFlushSleep, CheckFlushRemove
<1>2. MemoryCalm /\ NextSeq' = NextSeq
  BY CallerSteps
<1>3. Acks /\ w \in WriterRecord
  BY <1>1 DEF VInv, Inv, Types, WriterTypes
<1>4. w'.pc = "log" => UNCHANGED <<w, seq>>
  BY <1>1, <1>3 DEF WriterRecord
<1>5. LogDeletes => LogDeletes'
  BY <1>1, <1>3, <1>4, QuietLog
<1> QED BY <1>1, <1>2, <1>5, SaveInvCalm DEF TablesKept, MetaWhole

\* The memtable is copied, cleared, and stored as the immutable one.
LEMMA HandOverSave ==
    ASSUME Inv, Inv', VInv, VInv', SaveInv, NEW t \in Callers,
           CheckFlushSnapshot(t) \/ CheckFlushClear(t) \/ CheckFlushStore(t)
    PROVE  SaveInv'
<1>1. /\ UNCHANGED <<version, tables, flushed, disorder, lastDel, save, levelsFile, metaFile, w, seq,
                     logVars>>
      /\ proc = "up"
  <2> USE DEF memVars, fileVars, raceVars, boundVars
  <2> QED BY DEF CheckFlushSnapshot, CheckFlushClear, CheckFlushStore
<1>2. cf \in [Callers -> CallerRecord]
  BY DEF Inv, Types, MemoryTypes
<1>3. ASSUME NEW k \in Keys, NEW e \in Mem(k)' \cup Below(k)' PROVE e \in Mem(k) \cup Below(k)
  <2>1. /\ e \in Below(k)' <=>
               \/ \E u \in Callers : cf'[u].pc \in Handed /\ e \in EntryOf(cf'[u].snap, k)
               \/ \E x \in immutable' : e \in EntryOf(x, k)
        /\ e \in Below(k) <=>
               \/ \E u \in Callers : cf[u].pc \in Handed /\ e \in EntryOf(cf[u].snap, k)
               \/ \E x \in immutable : e \in EntryOf(x, k)
    BY DEF Below, ImmutableEntry
  <2>2. CASE CheckFlushSnapshot(t)
    <3>1. /\ UNCHANGED <<memtable, immutable>>
          /\ cf' = [cf EXCEPT ![t] = [pc |-> "clear", snap |-> memtable]]
      BY <2>2 DEF CheckFlushSnapshot, memVars
    <3>2. cf'[t].snap = memtable /\ \A u \in Callers : u # t => cf'[u] = cf[u]
      BY <1>2, <3>1
    <3> QED BY <1>3, <2>1, <3>1, <3>2 DEF Mem
  <2>3. CASE CheckFlushClear(t)
    <3>1. /\ UNCHANGED immutable /\ cf[t].pc = "clear"
          /\ memtable' = EmptyTable /\ cf' = [cf EXCEPT ![t].pc = "store"]
      BY <2>3 DEF CheckFlushClear
    <3>2. cf'[t].snap = cf[t].snap /\ \A u \in Callers : u # t => cf'[u] = cf[u]
      BY <1>2, <3>1 DEF CallerRecord
    <3>3. Mem(k)' = {}
      BY <3>1 DEF Mem, EntryOf, EmptyTable
    <3>4. cf[t].pc \in Handed
      BY <3>1 DEF Handed
    <3> QED BY <1>3, <2>1, <3>1, <3>2, <3>3, <3>4
  <2>4. CASE CheckFlushStore(t)
    <3>1. /\ UNCHANGED memtable /\ cf[t].pc = "store" /\ immutable' = {cf[t].snap}
          /\ cf' = [cf EXCEPT ![t] = [pc |-> "notify", snap |-> EmptyTable]]
      BY <2>4 DEF CheckFlushStore
    <3>2. cf'[t].pc = "notify" /\ \A u \in Callers : u # t => cf'[u] = cf[u]
      BY <1>2, <3>1
    <3>3. cf[t].pc \in Handed /\ cf'[t].pc \notin Handed /\ Mem(k)' = Mem(k)
      BY <3>1, <3>2 DEF Handed, Mem
    <3> QED BY <1>3, <2>1, <3>1, <3>2, <3>3
  <2> QED BY <2>2, <2>3, <2>4
<1>4. \A k \in Keys : Mem(k)' \cup Below(k)' \subseteq Mem(k) \cup Below(k)
  BY <1>3
<1> QED BY <1>1, <1>4, SaveInvQuiet DEF TablesKept, MetaWhole

\* The new entry has the next number.
LEMMA WriterApplySave ==
    ASSUME Inv, Inv', VInv, VInv', SaveInv, WriterApply
    PROVE  SaveInv'
<1>1. PICK K, e : K = Request.key /\ e = [seq |-> seq, type |-> Request.type]
  OBVIOUS
<1>2. /\ UNCHANGED <<version, tables, flushed, disorder, save, levelsFile, metaFile, seq, logVars,
                     immutable, cf>>
      /\ proc = "up" /\ w.pc = "apply" /\ w' = [w EXCEPT !.pc = "log"]
      /\ memtable' = PutEntry(memtable, K, e)
      /\ lastDel' = IF e.type = "DELETE" THEN [lastDel EXCEPT ![K] = seq] ELSE lastDel
  BY <1>1 DEF WriterApply, memVars, fileVars, raceVars, boundVars
<1>3. Acks /\ NextSeq \in Nat
  BY <1>2, DueNumbers DEF VInv
<1>4. seq \in Nat /\ w \in WriterRecord /\ K \in Keys
  BY <1>1, <1>2, RequestType DEF Inv, Types, LogTypes, WriterTypes
<1>5. w'.pc = "log" /\ w'.pos = w.pos /\ w'.batch = w.batch
  BY <1>2, <1>4 DEF WriterRecord
<1>6. NextSeq = seq /\ NextSeq' = seq + 1 /\ Request' = Request
  BY <1>2, <1>5 DEF NextSeq, Request
<1>7. e.seq = seq /\ e.type = Request.type
  BY <1>1
<1>8. ASSUME NEW k \in Keys, NEW g \in Mem(k)' \cup Below(k)'
      PROVE  g \in Mem(k) \cup Below(k) \/ g = e
  <2>1. Below(k)' = Below(k)
    BY <1>2 DEF Below, ImmutableEntry
  <2>2. g \in Mem(k)' => g \in Mem(k) \/ g = e
    BY <1>2 DEF Mem, EntryOf, PutEntry, With
  <2> QED BY <1>8, <2>1, <2>2
<1>9. ASSUME ~disorder, Tombstones, LogDeletes
      PROVE  /\ LogDeletes' /\ NextSeq <= NextSeq'
             /\ \A k \in Keys :
                    /\ lastDel[k] <= lastDel'[k] /\ lastDel'[k] < NextSeq'
                    /\ \A g \in Mem(k)' \cup Below(k)' :
                           g \in Mem(k) \cup Below(k) \/ (g.seq \in Nat /\ g.seq >= NextSeq)
  <2>1. \A k \in Keys : lastDel[k] \in Nat /\ lastDel[k] < seq
    BY <1>3, <1>6, <1>9 DEF Tombstones, Acks
  <2>2. \A k \in Keys : lastDel'[k] = lastDel[k] \/ lastDel'[k] = seq
    BY <1>2, <1>3 DEF Acks
  <2>3. \A k \in Keys : lastDel[k] <= lastDel'[k] /\ lastDel'[k] < seq + 1 /\ lastDel'[k] \in Nat
    BY <1>4, <2>1, <2>2
  <2>4. e.type = "DELETE" => lastDel'[K] = seq
    BY <1>2, <1>3, <1>4 DEF Acks
  <2>5. w'.pc = "log" /\ Request'.type = "DELETE" => lastDel'[Request'.key] >= seq'
    BY <1>1, <1>2, <1>4, <1>6, <1>7, <2>4
  <2>6. PICK N \in SUBSET Records : N = {}
    OBVIOUS
  <2>7. /\ \A r \in N : r.type = "DELETE" => lastDel'[r.key] >= r.seq
        /\ log' = log /\ Range(walSyncing') \cup Range(walBuf')
                            \subseteq Range(walSyncing) \cup Range(walBuf) \cup N
    BY <1>2, <2>6 DEF logVars
  <2>8. LogDeletes'
    BY <1>3, <1>9, <2>3, <2>5, <2>7, LogDeletesKept
  <2> QED BY <1>4, <1>6, <1>7, <1>8, <2>3, <2>8
<1> QED BY <1>2, <1>9, SaveInvKept DEF TablesKept, MetaWhole

\* A version is installed that has what the old one had of each key, or the newest of it.
LEMMA InstallSave ==
    ASSUME Inv, VInv, SaveInv, proc = "up", ~disorder' => ~disorder,
           UNCHANGED <<tables, flushed, lastDel, save, levelsFile, metaFile, logVars, w, seq>>,
           ~disorder' => \A k \in Keys :
               /\ Mem(k)' = Mem(k) /\ Below(k)' = Below(k)
               /\ \A e \in Filed(k)' : e \in Filed(k) \/ e \in ImmutableEntry(k)
               /\ \A n \in Nat :
                      /\ Covers({}, {}, Top(k), Filed(k), lastDel[k], n)
                      /\ \A e \in Mem(k) \cup Below(k) : e.seq >= n
                      => Covers({}, {}, Top(k)', Filed(k)', lastDel[k], n)
    PROVE  SaveInv'
<1>1. MetaWhole'
  BY DEF SaveInv, MetaWhole
<1> SUFFICES ASSUME ~disorder', ~disorder
             PROVE  /\ Tombstones' /\ SavedHold' /\ LogDeletes'
                    /\ \A k \in Keys : \A n \in Marks(k)' : Held(k, n)'
  BY <1>1 DEF SaveInv
<1>2. /\ Tombstones /\ SavedHold /\ LogDeletes
      /\ \A k \in Keys : \A n \in Marks(k) : Held(k, n)
  BY DEF SaveInv
<1>3. \A k \in Keys :
          /\ Mem(k)' = Mem(k) /\ Below(k)' = Below(k)
          /\ \A e \in Filed(k)' : e \in Filed(k) \/ e \in ImmutableEntry(k)
          /\ \A n \in Nat :
                 /\ Covers({}, {}, Top(k), Filed(k), lastDel[k], n)
                 /\ \A e \in Mem(k) \cup Below(k) : e.seq >= n
                 => Covers({}, {}, Top(k)', Filed(k)', lastDel[k], n)
  OBVIOUS
<1>4. Tombstones'
  <2>1. ASSUME NEW k \in Keys, NEW e \in Filed(k)', e.type = "DELETE"
        PROVE  lastDel[k] >= e.seq
    <3>1. CASE e \in Filed(k)
      BY <1>2, <2>1, <3>1 DEF Tombstones, Deleted, Filed
    <3>2. CASE e \in ImmutableEntry(k)
      <4>1. e \in Below(k)
        BY <3>2, KeyFacts
      <4> QED BY <2>1, <4>1, KeyFacts
    <3> QED BY <1>3, <2>1, <3>1, <3>2
  <2>2. \A k \in Keys : \A e \in Stored(version', tables', k) :
            e.type = "DELETE" => lastDel'[k] >= e.seq
    BY <2>1 DEF Filed
  <2> QED BY <1>2, <2>2 DEF Tombstones, Deleted, NextSeq
<1>5. SavedHold'
  BY <1>2 DEF SavedHold, Deleted, FiledIn, Saved
<1>6. LogDeletes'
  BY <1>2 DEF LogDeletes, Request, logVars
<1>7. ASSUME NEW k \in Keys, NEW n \in Marks(k)' PROVE Held(k, n)'
  <2>1. Held(k, n)
    BY <1>2, <1>7 DEF Marks, Saved
  <2>2. n \in Nat /\ n <= NextSeq' /\ \A e \in Mem(k)' \cup Below(k)' : e.seq >= n
    BY <1>3, <2>1 DEF Held, NextSeq
  <2>3. Covers({}, {}, Top(k), Filed(k), lastDel[k], n)
    BY <2>1 DEF Held, FiledIn, Top, Filed
  <2>4. Covers({}, {}, Top(k)', Filed(k)', lastDel[k], n)
    BY <1>3, <2>1, <2>2, <2>3 DEF Held
  <2>5. FiledIn(version, k, lastDel[k], n)'
    BY <2>4 DEF FiledIn, Top, Filed
  <2> QED BY <2>2, <2>5 DEF Held
<1> QED BY <1>4, <1>5, <1>6, <1>7

\* installVersion in the flush thread: the new file is newer than what is in the version.
LEMMA FlushInstallSave ==
    ASSUME Inv, VInv, SaveInv, FlushInstall
    PROVE  SaveInv'
<1>1. /\ UNCHANGED <<tables, flushed, lastDel, save, levelsFile, metaFile, logVars, w, seq>>
      /\ proc = "up" /\ (disorder => disorder')
  BY DEF FlushInstall, fileVars, boundVars
<1>2. ASSUME ~disorder', NEW k \in Keys
      PROVE  /\ Mem(k)' = Mem(k) /\ Below(k)' = Below(k)
             /\ \A e \in Filed(k)' : e \in Filed(k) \/ e \in ImmutableEntry(k)
             /\ \A n \in Nat :
                    /\ Covers({}, {}, Top(k), Filed(k), lastDel[k], n)
                    /\ \A e \in Mem(k) \cup Below(k) : e.seq >= n
                    => Covers({}, {}, Top(k)', Filed(k)', lastDel[k], n)
  <2>1. PICK i, F, T, d : i = ImmutableEntry(k) /\ F = Filed(k) /\ T = Top(k) /\ d = lastDel[k]
    OBVIOUS
  <2>2. /\ Filed(k)' = F \cup i /\ Top(k)' = T \cup i
        /\ Mem(k)' = Mem(k) /\ Below(k)' = Below(k)
    BY <1>2, <2>1, FlushInstallFiles
  <2>3. /\ i \in SUBSET Entry /\ (\A e, g \in i : e = g) /\ d \in Nat /\ i \subseteq Below(k)
        /\ \A e \in i : e.type = "DELETE" => d >= e.seq
        /\ \A e \in i, g \in F : NotOlder(e, g)
    BY <1>1, <1>2, <2>1, KeyFacts
  <2>4. ASSUME NEW n \in Nat, Covers({}, {}, T, F, d, n), \A e \in i : e.seq >= n
        PROVE  Covers({}, {}, T \cup i, F \cup i, d, n)
    <3>1. CASE i = {}
      <4>1. T \cup i = T /\ F \cup i = F
        BY <3>1
      <4> QED BY <2>4, <4>1
    <3>2. ASSUME NEW e \in i PROVE Covers({}, {}, T \cup i, F \cup i, d, n)
      <4>1. e \in Entry /\ e.seq >= n /\ (e.type = "DELETE" => d >= e.seq)
        BY <2>3, <2>4
      <4>2. \A g \in F \cup i : NotOlder(e, g)
        BY <2>3 DEF NotOlder
      <4>3. e \in {} \cup (F \cup i)
        OBVIOUS
      <4> QED BY <2>3, <4>1, <4>2, <4>3, NewestCovers
    <3> QED BY <3>1, <3>2
  <2> QED BY <2>1, <2>2, <2>3, <2>4
<1> QED BY <1>1, <1>2, InstallSave

\* installVersion in the compaction thread: the newest entry is kept, or it was a
\* tombstone and L0 and L1 have nothing left of the key.
LEMMA CompactInstallSave ==
    ASSUME Inv, VInv, SaveInv, CompactInstall
    PROVE  SaveInv'
<1>1. /\ UNCHANGED <<tables, flushed, lastDel, save, levelsFile, metaFile, logVars, w, seq>>
      /\ proc = "up" /\ (disorder => disorder')
  BY DEF CompactInstall, fileVars, boundVars
<1>2. ASSUME ~disorder', NEW k \in Keys
      PROVE  /\ Mem(k)' = Mem(k) /\ Below(k)' = Below(k)
             /\ \A e \in Filed(k)' : e \in Filed(k) \/ e \in ImmutableEntry(k)
             /\ \A n \in Nat :
                    /\ Covers({}, {}, Top(k), Filed(k), lastDel[k], n)
                    /\ \A e \in Mem(k) \cup Below(k) : e.seq >= n
                    => Covers({}, {}, Top(k)', Filed(k)', lastDel[k], n)
  <2>1. PICK F, T, d, F2, T2 : /\ F = Filed(k) /\ T = Top(k) /\ d = lastDel[k]
                               /\ F2 = Filed(k)' /\ T2 = Top(k)'
    OBVIOUS
  <2>2. /\ Mem(k)' = Mem(k) /\ Below(k)' = Below(k)
        /\ F2 \in SUBSET F /\ T2 \in SUBSET T /\ F \in SUBSET Entry
        /\ \A e \in F : (\A g \in F : NotOlder(e, g)) =>
               e \in F2 \/ (e.type # "PUT" /\ T2 = {})
    BY <1>2, <2>1, CompactInstallFiles
  <2>3. PICK none : none = {}
    OBVIOUS
  <2>4. /\ none \in SUBSET Entry /\ \A e \in none \cup none, g \in F : NotOlder(e, g)
        /\ \A g \in none : g \in none \/ g \in F \/ g.type = "DELETE"
    BY <2>3
  <2>5. \A n \in Nat : Covers({}, {}, T, F, d, n) => Covers({}, {}, T2, F2, d, n)
    <3>1. ASSUME NEW n \in Nat, Covers(none, none, T, F, d, n) PROVE Covers(none, none, T2, F2, d, n)
      BY <2>2, <2>4, <3>1, CompactedCovers
    <3> QED BY <2>3, <3>1
  <2> QED BY <2>1, <2>2, <2>5
<1> QED BY <1>1, <1>2, InstallSave

\* What the constructor finds in the levels of a version.
LEMMA SavedFound ==
    ASSUME NEW v, NEW k
    PROVE  /\ \A l : Found(Saved(v.levels), tables, l, k) = Found(v, tables, l, k)
           /\ Stored(Saved(v.levels), tables, k) = Stored(v, tables, k)
<1> DEFINE s == Saved(v.levels)
<1>1. s.levels = v.levels
  BY DEF Saved
<1> HIDE DEF s
<1>2. /\ \A l : Found(s, tables, l, k) = Found(v, tables, l, k)
      /\ Stored(s, tables, k) = Stored(v, tables, k)
  BY <1>1 DEF Found, Stored
<1> QED BY <1>2 DEF s

\* The tables of a version hold whatever is in them, or a newer entry of the key.
LEMMA StoredIsFiled ==
    ASSUME NEW v, Orderly(v), NEW k, NEW d, NEW b \in Nat,
           \A e \in Stored(v, tables, k) : e.seq <= b /\ (e.type = "DELETE" => d >= e.seq),
           NEW x \in Stored(v, tables, k), d \in Nat
    PROVE  x.seq \in Nat /\ FiledIn(v, k, d, x.seq)
<1> DEFINE F == Stored(v, tables, k)
           S == {e.seq : e \in F}
<1>1. \A e \in F : e.seq \in Nat
  BY StoredNumbers
<1>2. \A e, g \in F : e.seq = g.seq => e = g
  BY DEF Orderly, OneEach
<1>3. S \in SUBSET Nat /\ S # {} /\ x.seq \in S /\ \A n \in S : n <= b
  BY <1>1
<1> HIDE DEF F, S
<1>4. Max(S) \in S /\ \A n \in S : n <= Max(S)
  BY <1>3, MaxNat
<1>5. PICK e \in F : e.seq = Max(S)
  BY <1>4 DEF S
<1>6. ASSUME NEW g \in F PROVE NotOlder(e, g)
  <2>1. g.seq \in Nat /\ e.seq \in Nat /\ g.seq <= e.seq
    BY <1>1, <1>4, <1>5, <1>6 DEF S
  <2> QED BY <1>2, <1>5, <1>6, <2>1 DEF NotOlder
<1>7. e.seq \in Nat /\ x.seq \in Nat /\ e.seq >= x.seq
  BY <1>1, <1>3, <1>4, <1>5 DEF F
<1>8. e.type = "DELETE" => d >= x.seq
  BY <1>5, <1>7 DEF F
<1>9. \A T : Covers({}, {}, T, F, d, x.seq)
  BY <1>5, <1>6, <1>7, <1>8 DEF Covers
<1> QED BY <1>7, <1>9 DEF FiledIn, F

\* saveMetadata begins with the levels of the current version.
LEMMA SaveCallSave ==
    ASSUME Inv, VInv, SaveInv, FlushSave \/ CompactSave
    PROVE  SaveInv'
<1>1. /\ UNCHANGED <<version, tables, memtable, immutable, cf, flushed, lastDel, levelsFile, logVars,
                     w, seq, disorder>>
      /\ proc = "up" /\ save.by = "none" /\ save'.by # "none" /\ save'.step = "meta"
      /\ save'.levels = version.levels
  BY DEF FlushSave, CompactSave, SaveBegin, MetadataMutexFree, memVars, fileVars, boundVars, raceVars
<1>2. MetaWhole'
  BY <1>1 DEF MetaWhole
<1> SUFFICES ASSUME ~disorder
             PROVE  /\ Tombstones' /\ SavedHold' /\ LogDeletes'
                    /\ \A k \in Keys : \A n \in Marks(k)' : Held(k, n)'
  BY <1>1, <1>2 DEF SaveInv
<1>3. /\ Tombstones /\ SavedHold /\ LogDeletes
      /\ \A k \in Keys : \A n \in Marks(k) : Held(k, n)
  BY <1>1 DEF SaveInv
<1>4. Acks /\ Recency /\ Orderly(version) /\ NextSeq \in Nat
  BY <1>1, DueNumbers DEF VInv, InOrder, TreeOrder
<1>5. Tombstones'
  BY <1>1, <1>3 DEF Tombstones, Deleted, NextSeq
<1>6. LogDeletes'
  BY <1>1, <1>3 DEF LogDeletes, Request, logVars
<1>7. \A k \in Keys : /\ Stored(Saved(version.levels), tables, k) = Filed(k)
                      /\ \A l : Found(Saved(version.levels), tables, l, k) = Found(version, tables, l, k)
  BY SavedFound DEF Filed
<1>8. Deleted(Saved(version.levels))
  BY <1>3, <1>7 DEF Tombstones, Deleted, Filed
<1>9. \A k \in Keys : Held(k, flushed[k])
  BY <1>3 DEF Marks
<1>10. \A k \in Keys : FiledIn(Saved(version.levels), k, lastDel[k], flushed[k])
  <2> SUFFICES ASSUME NEW k \in Keys
               PROVE  FiledIn(Saved(version.levels), k, lastDel[k], flushed[k])
    OBVIOUS
  <2>1. FiledIn(version, k, lastDel[k], flushed[k])
    BY <1>9 DEF Held
  <2> QED BY <1>7, <2>1 DEF FiledIn, Filed
<1>11. SavedHold'
  <2>1. PICK ls : ls = version.levels
    OBVIOUS
  <2>2. Deleted(Saved(ls))' /\ \A k \in Keys : FiledIn(Saved(ls), k, lastDel[k], flushed[k])'
    BY <1>1, <1>8, <1>10, <2>1 DEF Deleted, FiledIn, Saved
  <2> QED BY <1>1, <2>1, <2>2 DEF SavedHold
<1>12. ASSUME NEW k \in Keys, NEW n \in Marks(k)' PROVE Held(k, n)'
  <2>1. n = flushed[k] \/ \E e \in Filed(k) : n = e.seq
    <3>1. PICK ls : ls = version.levels /\ save'.levels = ls
      BY <1>1
    <3>2. Marks(k)' = {flushed[k]} \cup {e.seq : e \in Stored(Saved(ls), tables, k)}
      BY <1>1, <3>1 DEF Marks, Saved
    <3> QED BY <1>7, <1>12, <3>1, <3>2
  <2>2. Held(k, n)
    <3>1. CASE n = flushed[k]
      BY <1>9, <3>1
    <3>2. ASSUME NEW e \in Filed(k), n = e.seq PROVE Held(k, n)
      <4>1. PICK d \in Nat : d = lastDel[k]
        BY <1>4 DEF Acks
      <4>2. PICK b \in Nat : b = NextSeq
        BY <1>4
      <4>3. \A g \in Filed(k) : g.seq \in Nat /\ g.seq < b
        BY <1>1, <1>4, <4>2, KeyFacts DEF Recency, Recent
      <4>4. \A g \in Stored(version, tables, k) :
                g.seq <= b /\ (g.type = "DELETE" => d >= g.seq)
        BY <1>3, <4>1, <4>3 DEF Tombstones, Deleted, Filed
      <4>5. e.seq \in Nat /\ FiledIn(version, k, d, e.seq)
        BY <1>4, <3>2, <4>4, StoredIsFiled DEF Filed
      <4>6. ASSUME NEW g \in Mem(k) \cup Below(k) PROVE g.seq >= n
        <5>1. NotOlder(g, e) /\ g.seq \in Nat
          BY <1>1, <3>2, <4>6, KeyFacts
        <5> QED BY <3>2, <4>5, <5>1 DEF NotOlder
      <4> QED BY <3>2, <4>1, <4>2, <4>3, <4>5, <4>6 DEF Held
    <3> QED BY <2>1, <3>1, <3>2
  <2>3. Mem(k)' = Mem(k) /\ Below(k)' = Below(k)
    BY <1>1 DEF Mem, Below, ImmutableEntry
  <2> QED BY <1>1, <2>2, <2>3 DEF Held, FiledIn, NextSeq
<1> QED BY <1>5, <1>6, <1>11, <1>12

\* What levels.txt will refer to is what saveMetadata has taken, or was there before.
LEMMA SavedMarks ==
    ASSUME Inv, VInv, SaveInv, SaveLevels, ~disorder, NEW k \in Keys
    PROVE  /\ flushed'[k] \in Marks(k)
           /\ flushed[k] \in Nat /\ flushed'[k] \in Nat /\ flushed[k] <= flushed'[k]
<1>1. /\ proc = "up" /\ save.step = "levels"
      /\ flushed' = [j \in Keys |-> Max({flushed[j]} \cup SeqsIn(IdsOf(save.levels), j))]
  BY DEF SaveLevels
<1>2. \A n \in Marks(k) : n \in Nat /\ n <= NextSeq
  BY <1>1 DEF SaveInv, Held
<1>3. NextSeq \in Nat /\ save.by # "none"
  BY <1>1, DueNumbers DEF VInv, Inv, TreeInv, Saving
<1>4. PICK ls : ls = save.levels
  OBVIOUS
<1>5. SeqsIn(IdsOf(ls), k) = {e.seq : e \in Stored(Saved(ls), tables, k)}
  <2>1. PICK s : s = Saved(ls)
    OBVIOUS
  <2>2. s = Saved(ls) /\ s.levels = ls
    BY <2>1 DEF Saved
  <2>3. \A e : e \in Stored(s, tables, k) <=>
            \E l \in Levels : \E m \in Range(ls[l]) : k \in DOMAIN tables[m.id] /\ e = tables[m.id][k]
    BY <2>2, FoundFiles
  <2>4. \A e : e \in InFiles(IdsOf(ls), k) <=>
            \E l \in Levels : \E m \in Range(ls[l]) : k \in DOMAIN tables[m.id] /\ e = tables[m.id][k]
    BY DEF InFiles, IdsOf, EntryOf
  <2>5. InFiles(IdsOf(ls), k) = Stored(Saved(ls), tables, k)
    BY <2>2, <2>3, <2>4
  <2> QED BY <2>5 DEF SeqsIn
<1>6. flushed'[k] = Max(Marks(k)) /\ flushed[k] \in Marks(k)
  BY <1>1, <1>3, <1>4, <1>5 DEF Marks
<1> DEFINE S == Marks(k)
<1>7. S \in SUBSET Nat /\ S # {} /\ \A n \in S : n <= NextSeq
  BY <1>2, <1>6
<1> HIDE DEF S
<1>8. Max(S) \in S /\ \A n \in S : n <= Max(S)
  BY <1>3, <1>7, MaxNat
<1>9. flushed'[k] \in Marks(k) /\ flushed[k] <= flushed'[k]
  BY <1>6, <1>8 DEF S
<1> QED BY <1>2, <1>6, <1>9

\* saveMetadata ends.
LEMMA SaveLevelsSave ==
    ASSUME Inv, VInv, SaveInv, SaveLevels
    PROVE  SaveInv'
<1>1. /\ UNCHANGED <<version, tables, memtable, immutable, cf, lastDel, metaFile, logVars,
                     w, seq, disorder>>
      /\ proc = "up" /\ save.step = "levels" /\ save'.by = "none"
      /\ levelsFile' = {save.levels}
      /\ flushed' = [k \in Keys |-> Max({flushed[k]} \cup SeqsIn(IdsOf(save.levels), k))]
  BY DEF SaveLevels, NotSaving, memVars, fileVars, boundVars, raceVars
<1>2. MetaWhole'
  BY <1>1 DEF SaveInv, MetaWhole
<1> SUFFICES ASSUME ~disorder
             PROVE  /\ Tombstones' /\ SavedHold' /\ LogDeletes'
                    /\ \A k \in Keys : \A n \in Marks(k)' : Held(k, n)'
  BY <1>1, <1>2 DEF SaveInv
<1>3. /\ Tombstones /\ SavedHold /\ LogDeletes
      /\ \A k \in Keys : \A n \in Marks(k) : Held(k, n)
  BY <1>1 DEF SaveInv
<1>4. Acks /\ NextSeq \in Nat /\ save.by # "none"
  BY <1>1, DueNumbers DEF VInv, Inv, TreeInv, Saving
<1>5. PICK ls : ls = save.levels
  OBVIOUS
<1>6. Orderly(Saved(ls)) /\ Deleted(Saved(ls))
  BY <1>1, <1>3, <1>4, <1>5 DEF VInv, InOrder, TreeOrder, SavedOrderly, SavedHold
<1>7. \A k \in Keys : flushed'[k] \in Marks(k)
  BY SavedMarks
<1>8. ASSUME NEW k \in Keys PROVE FiledIn(Saved(ls), k, lastDel[k], flushed'[k])
  <2>1. CASE flushed'[k] = flushed[k]
    BY <1>3, <1>4, <1>5, <2>1 DEF SavedHold
  <2>2. ASSUME NEW e \in Stored(Saved(ls), tables, k), flushed'[k] = e.seq
        PROVE  FiledIn(Saved(ls), k, lastDel[k], flushed'[k])
    <3>1. PICK d \in Nat, b \in Nat : d = lastDel[k] /\ b = NextSeq
      BY <1>4 DEF Acks
    <3>2. \A g \in Stored(Saved(ls), tables, k) : g.seq \in Marks(k)
      BY <1>4, <1>5 DEF Marks
    <3>3. \A g \in Stored(Saved(ls), tables, k) : g.seq <= b
      BY <1>3, <3>1, <3>2 DEF Held
    <3>4. \A g \in Stored(Saved(ls), tables, k) : g.type = "DELETE" => d >= g.seq
      BY <1>6, <3>1 DEF Deleted
    <3>5. FiledIn(Saved(ls), k, d, e.seq)
      BY <1>6, <3>3, <3>4, StoredIsFiled
    <3> QED BY <2>2, <3>1, <3>5
  <2>3. flushed'[k] = flushed[k] \/ \E e \in Stored(Saved(ls), tables, k) : flushed'[k] = e.seq
    BY <1>4, <1>5, <1>7 DEF Marks
  <2> QED BY <2>1, <2>2, <2>3
<1>9. SavedHold'
  <2>1. \A k \in Keys : FiledIn(Saved(ls), k, lastDel[k], flushed[k])'
    BY <1>1, <1>8 DEF FiledIn, Saved
  <2> QED BY <1>1, <1>5, <2>1 DEF SavedHold
<1>10. Tombstones' /\ LogDeletes'
  BY <1>1, <1>3 DEF Tombstones, Deleted, NextSeq, LogDeletes, Request, logVars
<1>11. ASSUME NEW k \in Keys, NEW n \in Marks(k)' PROVE Held(k, n)'
  <2>1. n = flushed'[k]
    BY <1>1, <1>11 DEF Marks
  <2>2. Held(k, n)
    BY <1>3, <1>7, <2>1
  <2>3. Mem(k)' = Mem(k) /\ Below(k)' = Below(k)
    BY <1>1 DEF Mem, Below, ImmutableEntry
  <2> QED BY <1>1, <2>2, <2>3 DEF Held, FiledIn, NextSeq
<1> QED BY <1>9, <1>10, <1>11

-----------------------------------------------------------------------------
(* What the constructor makes of levels.txt, after a crash.                *)

\* The version it loads is the saved one, with every file that levels.txt names.
LEMMA RestartVersion ==
    ASSUME Inv, Inv', VInv, VInv', CrashRestart, proc' = "up", ~disorder, NEW levels, Read(levels)
    PROVE  /\ version' = Saved(levels) /\ Orderly(Saved(levels))
           /\ Saved(levels) \in Versions(Metas)
           /\ IdsOf(levels) \subseteq files
           /\ levels = IF levelsFile = {} THEN EmptyVersion.levels
                       ELSE CHOOSE ls \in levelsFile : TRUE
<1>1. /\ proc = "up" /\ metaFile # {<<>>}
      /\ version'.levels = levels /\ version'.sstables = IdsOf(levels) \cap files
      /\ levels = EmptyVersion.levels \/ levels \in levelsFile
  BY RestartFinds DEF CrashRestart
<1>2. levels = IF levelsFile = {} THEN EmptyVersion.levels
               ELSE CHOOSE ls \in levelsFile : TRUE
  BY <1>1, RestartCounters
<1>3. SavedOrderly
  BY <1>1 DEF VInv, InOrder, TreeOrder
<1>4. Orderly(Saved(levels)) /\ IdsOf(levels) \subseteq files
  BY <1>1, <1>3, SavedEmpty DEF SavedOrderly
<1>5. version' \in Versions(Metas)
  BY DEF Inv, Types, TreeTypes, Known
<1>6. version'.levels = Saved(levels).levels /\ version'.sstables = Saved(levels).sstables
  BY <1>1, <1>4 DEF Saved
<1>7. version' = Saved(levels)
  BY <1>5, <1>6 DEF Versions, Saved
<1> QED BY <1>2, <1>4, <1>5, <1>7

\* All else that it finds is in the log.
LEMMA RestartMemory ==
    ASSUME Inv, Inv', VInv, VInv', CrashRestart, proc' = "up", ~disorder, NEW levels, Read(levels),
           NEW k
    PROVE  /\ Mem(k)' = EntryOf(memtable', k) /\ Below(k)' = {}
           /\ Filed(k)' = Stored(Saved(levels), tables, k)
           /\ Current(k)' = Lookup(Saved(levels), tables, k, Newest(EntryOf(memtable', k)))
           /\ Shallow(k)' = Found(Saved(levels), tables, 0, k) \cup Found(Saved(levels), tables, 1, k)
           /\ Upper(k)' = EntryOf(memtable', k) \cup Shallow(k)'
           /\ InFiles(version'.sstables, k) = Stored(Saved(levels), tables, k)
<1>1. /\ version' = Saved(levels) /\ Orderly(Saved(levels)) /\ tables' = tables
      /\ Saved(levels) \in Versions(Metas)
      /\ immutable' = {} /\ cf' = CheckFlushStart
  BY RestartVersion DEF CrashRestart, fileVars
<1>2. \A t \in Callers : cf'[t].pc = "idle"
  BY <1>1 DEF CheckFlushStart
<1>3. ImmutableEntry(k)' = {} /\ HandedOver(k)' = {}
  BY <1>1, <1>2 DEF ImmutableEntry, HandedOver
<1>4. Below(k)' = {}
  <2>1. \A t \in Callers : cf'[t].pc \notin Handed
    BY <1>2 DEF Handed
  <2> QED BY <1>3, <2>1 DEF Below
<1>5. Mem(k)' = EntryOf(memtable', k) /\ Filed(k)' = Stored(Saved(levels), tables, k)
  BY <1>1 DEF Mem, Filed
<1>6. Current(k)' = Lookup(Saved(levels), tables, k, Newest(EntryOf(memtable', k)))
  BY <1>1, <1>3 DEF Current
<1>7. PICK s \in Versions(Metas) : s = Saved(levels)
  BY <1>1
<1>8. Shallow(k)' = Found(s, tables, 0, k) \cup Found(s, tables, 1, k)
  <2>1. Readable(s, tables) /\ 0 \in Levels /\ 1 \in Levels
    BY <1>1, <1>7 DEF Orderly, Levels
  <2>2. /\ Hits(s, tables, 0, k) = Found(s, tables, 0, k)
        /\ Hits(s, tables, 1, k) = Found(s, tables, 1, k)
    BY <2>1, HitsFound
  <2> QED BY <1>1, <1>7, <2>2 DEF Shallow
<1>9. InFiles(s.sstables, k) = Stored(s, tables, k)
  <2>1. s.sstables = IdsOf(levels) /\ s.levels = levels
    BY <1>7 DEF Saved
  <2>2. \A e : e \in Stored(s, tables, k) <=>
            \E l \in Levels : \E m \in Range(levels[l]) : k \in DOMAIN tables[m.id] /\ e = tables[m.id][k]
    BY <2>1, FoundFiles
  <2>3. \A e : e \in InFiles(IdsOf(levels), k) <=>
            \E l \in Levels : \E m \in Range(levels[l]) : k \in DOMAIN tables[m.id] /\ e = tables[m.id][k]
    BY DEF InFiles, IdsOf, EntryOf
  <2> QED BY <2>1, <2>2, <2>3
<1>10. InFiles(version'.sstables, k) = Stored(Saved(levels), tables, k)
  BY <1>1, <1>7, <1>9 DEF InFiles
<1>11. Upper(k)' = EntryOf(memtable', k) \cup Shallow(k)'
  BY <1>3 DEF Upper
<1> QED BY <1>4, <1>5, <1>6, <1>7, <1>8, <1>10, <1>11

\* flushed starts again from the tables that the constructor loads.
LEMMA RestartMarks ==
    ASSUME Inv, Inv', VInv, VInv', CrashRestart, proc' = "up", ~disorder', NEW levels, Read(levels),
           Tombstones', NEW k \in Keys
    PROVE  /\ flushed'[k] \in Nat /\ flushed'[k] <= NextSeq'
           /\ FiledIn(Saved(levels), k, lastDel'[k], flushed'[k])
           /\ \A e \in Mem(k)' : e.seq >= flushed'[k]
           /\ Stored(Saved(levels), tables, k) = {} => flushed'[k] = 0
<1>0. ~disorder
  BY DEF CrashRestart
<1>1. PICK s : s = Saved(levels)
  OBVIOUS
<1> DEFINE F == Stored(s, tables, k)
           Z == {0} \cup {e.seq : e \in F}
<1>2. /\ version' = s /\ Orderly(s) /\ Filed(k)' = F /\ Mem(k)' = EntryOf(memtable', k)
      /\ InFiles(version'.sstables, k) = F
  BY <1>0, <1>1, RestartVersion, RestartMemory
<1>3. flushed'[k] = Max(Z)
  <2>1. flushed' = [j \in Keys |-> Max({0} \cup SeqsIn(version'.sstables, j))]
    BY DEF CrashRestart
  <2> QED BY <1>2, <2>1 DEF SeqsIn
<1>4. Acks' /\ Recency' /\ NextSeq' \in Nat
  BY NumberGiven DEF VInv, InOrder
<1>5. PICK d \in Nat, b \in Nat : d = lastDel'[k] /\ b = NextSeq'
  BY <1>4 DEF Acks
<1>6. \A e \in F : e.seq \in Nat
  BY <1>2, StoredNumbers
<1>7. /\ \A e \in F : e.seq < b /\ (e.type = "DELETE" => d >= e.seq)
      /\ \A e \in Mem(k)', g \in F : NotOlder(e, g)
  <2>1. Recent(Mem(k)', Below(k)', F, b)
    BY <1>2, <1>4, <1>5 DEF Recency
  <2>2. \A e \in F : e.type = "DELETE" => d >= e.seq
    BY <1>2, <1>5 DEF Tombstones, Deleted, Filed
  <2> QED BY <2>1, <2>2 DEF Recent
<1>8. \A e \in Mem(k)' : e.seq \in Nat
  <2>1. memtable' \in Contents
    BY DEF Inv, Types, MemoryTypes
  <2>2. EntryOf(memtable', k) \subseteq Entry
    BY <2>1, EntryOfContents
  <2> QED BY <1>2, <2>2 DEF Entry
<1>9. Z \in SUBSET Nat /\ Z # {} /\ \A n \in Z : n <= b
  <2>1. \A n \in Z : n \in Nat /\ n <= b
    BY <1>6, <1>7
  <2> QED BY <2>1
<1>10. \A n \in Z : n = 0 \/ \E e \in F : n = e.seq
  OBVIOUS
<1>11. F = {} => Z = {0}
  OBVIOUS
<1> HIDE DEF F, Z
<1>12. PICK n \in Nat : n = Max(Z) /\ n \in Z /\ n <= b
  BY <1>9, MaxNat
<1>13. CASE n = 0
  <2>1. FiledIn(s, k, d, 0)
    BY DEF FiledIn, Covers
  <2> QED BY <1>1, <1>3, <1>5, <1>8, <1>12, <1>13, <2>1
<1>14. ASSUME NEW e \in F, n = e.seq
       PROVE  FiledIn(s, k, d, n) /\ (\A g \in Mem(k)' : g.seq >= n) /\ F # {}
  <2>1. \A g \in Stored(s, tables, k) : g.seq <= b /\ (g.type = "DELETE" => d >= g.seq)
    BY <1>6, <1>7 DEF F
  <2>2. FiledIn(s, k, d, e.seq)
    BY <1>2, <1>14, <2>1, StoredIsFiled DEF F
  <2>3. \A g \in Mem(k)' : g.seq >= n
    BY <1>7, <1>8, <1>14 DEF NotOlder
  <2> QED BY <1>14, <2>2, <2>3
<1>15. n = 0 \/ \E e \in F : n = e.seq
  BY <1>10, <1>12
<1>16. CASE n # 0
  <2>1. FiledIn(s, k, d, n) /\ (\A g \in Mem(k)' : g.seq >= n) /\ F # {}
    BY <1>14, <1>15, <1>16
  <2> QED BY <1>1, <1>3, <1>5, <1>12, <2>1 DEF F
<1> QED BY <1>13, <1>16

\* The process dies and is started again: levels.txt is what the version is made of.
LEMMA RestartSave ==
    ASSUME Inv, Inv', VInv, VInv', CrashRestart
    PROVE  SaveInv'
<1>1. /\ UNCHANGED <<tables, levelsFile, metaFile, log>> /\ save' = NotSaving /\ w' = WriterStart
      /\ walBuf' = <<>> /\ walSyncing' = <<>> /\ memtable' = Replayed(log)
      /\ proc' = "up" => metaFile # {<<>>}
  BY DEF CrashRestart, fileVars
<1>2. proc' = "up" => MetaWhole'
  BY <1>1 DEF MetaWhole
<1> SUFFICES ASSUME proc' = "up", ~disorder'
             PROVE  /\ Tombstones' /\ SavedHold' /\ LogDeletes'
                    /\ \A k \in Keys : \A n \in Marks(k)' : Held(k, n)'
  BY <1>2 DEF SaveInv
<1>3. Tombstones' /\ ~disorder
  BY RestartDeletes DEF CrashRestart
<1>4. PICK levels : Read(levels)
  BY DEF CrashRestart, Read
<1>5. PICK s : s = Saved(levels)
  OBVIOUS
<1>6. /\ version' = s
      /\ levels = IF levelsFile = {} THEN EmptyVersion.levels ELSE CHOOSE ls \in levelsFile : TRUE
  BY <1>3, <1>4, <1>5, RestartVersion
<1>7. save'.by = "none" /\ w'.pc = "pop"
  BY <1>1 DEF NotSaving, WriterStart
<1>8. \A k \in Keys : Mem(k)' = EntryOf(memtable', k) /\ Below(k)' = {}
  BY <1>3, <1>4, RestartMemory
<1>9. ASSUME NEW k \in Keys
      PROVE  /\ flushed'[k] \in Nat /\ flushed'[k] <= NextSeq'
             /\ FiledIn(s, k, lastDel'[k], flushed'[k])
             /\ \A e \in Mem(k)' : e.seq >= flushed'[k]
             /\ Stored(s, tables, k) = {} => flushed'[k] = 0
  BY <1>3, <1>4, <1>5, RestartMarks
<1>10. LogDeletes'
  <2>1. memtable' \in Contents /\ Values'
    BY DEF Inv, Types, MemoryTypes, VInv, InOrder
  <2>2. ASSUME NEW k \in DOMAIN Replayed(log), Replayed(log)[k].type = "DELETE"
        PROVE  lastDel'[k] >= Replayed(log)[k].seq
    <3>1. k \in Keys /\ Replayed(log)[k] \in Mem(k)'
      BY <1>1, <1>8, <2>1, <2>2 DEF EntryOf, Contents
    <3> QED BY <2>1, <2>2, <3>1 DEF Values
  <2>3. Range(walSyncing') \cup Range(walBuf') = {}
    BY <1>1 DEF Range
  <2> QED BY <1>1, <1>7, <2>2, <2>3 DEF LogDeletes
<1>11. SavedHold'
  <2>1. ASSUME levelsFile = {}, NEW k \in Keys PROVE flushed'[k] = 0
    <3>1. s.levels = EmptyVersion.levels
      BY <1>5, <1>6, <2>1 DEF Saved
    <3>2. Stored(s, tables, k) = {}
      BY <3>1 DEF Stored, Found, EmptyVersion, Range
    <3> QED BY <1>9, <3>2
  <2>2. ASSUME NEW ls \in levelsFile, NEW k \in Keys
        PROVE  FiledIn(Saved(ls), k, lastDel[k], flushed[k])'
    <3>1. levelsFile = {ls}
      BY DEF Inv, Types, TreeTypes
    <3>2. levels = ls
      BY <1>6, <3>1
    <3> QED BY <1>1, <1>5, <1>9, <3>2 DEF FiledIn, Saved
  <2> QED BY <1>1, <1>7, <2>1, <2>2 DEF SavedHold
<1>12. ASSUME NEW k \in Keys, NEW n \in Marks(k)' PROVE Held(k, n)'
  <2>1. n = flushed'[k]
    BY <1>7, <1>12 DEF Marks
  <2>2. FiledIn(version, k, lastDel[k], n)'
    BY <1>1, <1>6, <1>9, <2>1 DEF FiledIn
  <2> QED BY <1>8, <1>9, <2>1, <2>2 DEF Held
<1> QED BY <1>3, <1>10, <1>11, <1>12

\* A crash spares what levels.txt refers to, while saveMetadata does not run.
LEMMA RestartKeepsFlushed ==
    ASSUME Inv, Inv', VInv, VInv', SaveInv, CrashRestart, MetadataMutexFree, ~disorder',
           NEW k \in Keys
    PROVE  AnswersFrom(Current(k)', Shallow(k)', k, flushed[k])
<1>1. /\ proc = "up" /\ save.by = "none" /\ ~disorder /\ memtable' = Replayed(log)
      /\ proc' = IF metaFile = {<<>>} THEN "failed" ELSE "up"
  BY DEF CrashRestart, MetadataMutexFree
<1>2. save.step = "none" /\ Acks
  BY <1>1 DEF Inv, TreeInv, Saving, VInv
<1>3. proc' = "up" /\ SavedHold /\ LogDeletes /\ Held(k, flushed[k])
  BY <1>1, <1>2 DEF SaveInv, MetaWhole, Marks
<1>4. PICK levels : Read(levels)
  BY DEF CrashRestart, Read
<1>5. PICK s \in Versions(Metas) : s = Saved(levels)
  BY <1>1, <1>3, <1>4, RestartVersion
<1>6. /\ version' = s /\ Orderly(s)
      /\ levels = IF levelsFile = {} THEN EmptyVersion.levels ELSE CHOOSE ls \in levelsFile : TRUE
  BY <1>1, <1>3, <1>4, <1>5, RestartVersion
<1> DEFINE M == EntryOf(memtable', k)
           F == Stored(s, tables, k)
           T == Found(s, tables, 0, k) \cup Found(s, tables, 1, k)
           C == Lookup(s, tables, k, Newest(M))
<1>7. /\ Mem(k)' = M /\ Filed(k)' = F /\ Current(k)' = C /\ Shallow(k)' = T
  BY <1>1, <1>3, <1>4, <1>5, RestartMemory
<1>8. PICK d \in Nat, n \in Nat : d = lastDel[k] /\ n = flushed[k]
  BY <1>2, <1>3 DEF Acks, Held
<1>9. M \in SUBSET Entry /\ \A e, g \in M : e = g
  <2>1. memtable' \in Contents
    BY DEF Inv, Types, MemoryTypes
  <2> QED BY <2>1, EntryOfContents DEF EntryOf
<1>10. /\ \A e \in F : e.seq \in Nat
       /\ \A e, g \in F : e.seq = g.seq => e = g
  BY <1>6, StoredNumbers DEF Orderly, OneEach
<1>11. F \in SUBSET Entry
  <2>1. TreeTypes' /\ Orderly(version)' /\ tables' = tables
    BY <1>3 DEF Inv, Types, VInv, InOrder, TreeOrder, CrashRestart, fileVars
  <2>2. ASSUME NEW e \in F PROVE e \in Entry
    <3>1. PICK l \in Levels : \E m \in Range(s.levels[l]) : k \in DOMAIN tables[m.id] /\ e = tables[m.id][k]
      BY <2>2, FoundFiles
    <3>2. PICK m \in Range(s.levels[l]) : k \in DOMAIN tables[m.id] /\ e = tables[m.id][k]
      BY <3>1
    <3>3. m.id \in s.sstables
      BY <1>6, <3>2 DEF Orderly, Readable
    <3>4. tables[m.id] \in Contents
      BY <1>6, <2>1, <3>3 DEF TreeTypes, Known
    <3> QED BY <3>2, <3>4, ContentsTable DEF IsTable
  <2> QED BY <2>2
<1>12. \A e \in M, g \in F : NotOlder(e, g)
  BY <1>3, <1>7 DEF VInv, InOrder, Recency, Recent
<1>13. \A e \in M : e.type = "DELETE" => d >= e.seq
  BY <1>1, <1>3, <1>8 DEF EntryOf, LogDeletes
<1>14. Covers({}, {}, T, F, d, n)
  <2>1. CASE levelsFile = {}
    <3>1. n = 0
      BY <1>1, <1>3, <1>8, <2>1 DEF SavedHold
    <3> QED BY <3>1 DEF Covers
  <2>2. CASE levelsFile # {}
    <3>1. levels \in levelsFile
      BY <1>6, <2>2
    <3>2. FiledIn(Saved(levels), k, lastDel[k], flushed[k])
      BY <1>1, <1>3, <3>1 DEF SavedHold
    <3> QED BY <1>5, <1>8, <3>2 DEF FiledIn
  <2> QED BY <2>1, <2>2
<1>15. Answered(C, M, F)
  <2>1. Readable(s, tables)
    BY <1>6 DEF Orderly
  <2>2. \A e \in M \cup Stored(s, tables, k) : e.seq \in Nat
    BY <1>9, <1>10 DEF Entry
  <2>3. M = {} \/ \E e \in M : \A g \in M : NotOlder(e, g)
    BY <1>9 DEF NotOlder
  <2>4. \A e \in M, g \in Stored(s, tables, k) : NotOlder(e, g)
    BY <1>12
  <2> QED BY <2>1, <2>2, <2>3, <2>4, LookupAnswered
<1> HIDE DEF M, F, T, C
<1>16. ASSUME Covers(M, {}, T, F, d, n)
       PROVE  AnswersFrom(C, T, k, n)
  <2>1. M \subseteq M \cup {} /\ {} \subseteq M /\ (M = {} /\ T = {} => T = {})
    OBVIOUS
  <2>2. lastDel[k] \in Nat /\ Covers(M, {}, T, F, lastDel[k], n)
    BY <1>8, <1>16
  <2>3. \A e \in M : e.type = "DELETE" => lastDel[k] >= e.seq
    BY <1>8, <1>13
  <2> QED BY <1>9, <1>10, <1>11, <1>15, <2>1, <2>2, <2>3, CoveredAnswers
<1>17. CASE n = 0
  <2>1. Covers(M, {}, T, F, d, n)
    BY <1>17 DEF Covers
  <2> QED BY <1>7, <1>8, <1>16, <2>1
<1>18. CASE T = {} /\ d >= n
  BY <1>7, <1>8, <1>18 DEF AnswersFrom
<1>19. ASSUME NEW e \in F, \A g \in F : NotOlder(e, g), e.seq >= n, e.type = "DELETE" => d >= n
       PROVE  Covers(M, {}, T, F, d, n)
  <2>1. CASE M = {}
    BY <1>19, <2>1 DEF Covers
  <2>2. ASSUME NEW x \in M PROVE Covers(M, {}, T, F, d, n)
    <3>1. x \in Entry /\ NotOlder(x, e) /\ x.seq \in Nat /\ e.seq \in Nat
      BY <1>9, <1>10, <1>12 DEF Entry
    <3>2. x.seq >= n
      BY <1>19, <3>1 DEF NotOlder
    <3>3. \A g \in F : NotOlder(x, g)
      BY <1>12
    <3>4. \A g \in M : g = x
      BY <1>9
    <3> QED BY <1>13, <3>1, <3>2, <3>3, <3>4, NewestCovers
  <2> QED BY <2>1, <2>2
<1>20. \/ n = 0
       \/ T = {} /\ d >= n
       \/ \E e \in F : (\A g \in F : NotOlder(e, g)) /\ e.seq >= n /\ (e.type = "DELETE" => d >= n)
  BY <1>14 DEF Covers
<1>21. CASE \E e \in F : /\ \A g \in F : NotOlder(e, g)
                         /\ e.seq >= n /\ (e.type = "DELETE" => d >= n)
  <2>1. Covers(M, {}, T, F, d, n)
    BY <1>19, <1>21
  <2> QED BY <1>7, <1>8, <1>16, <2>1
<1> QED BY <1>17, <1>18, <1>20, <1>21

\* A thread that throws ends the process.
LEMMA StopSave == CompactThrow => SaveInv'
BY DEF CompactThrow, SaveInv

\* At the start nothing is written and nothing saved.
LEMMA InitSave == Init => SaveInv
<1> SUFFICES ASSUME Init PROVE SaveInv
  OBVIOUS
<1>1. /\ version = EmptyVersion /\ seq = 1 /\ w = WriterStart /\ save = NotSaving
      /\ memtable = EmptyTable /\ immutable = {} /\ cf = CheckFlushStart
      /\ metaFile = {} /\ levelsFile = {} /\ log = <<>> /\ walBuf = <<>> /\ walSyncing = <<>>
      /\ lastDel = [k \in Keys |-> 0] /\ flushed = [k \in Keys |-> 0]
  BY DEF Init
<1>2. w.pc = "pop" /\ save.by = "none" /\ \A t \in Callers : cf[t].pc = "idle"
  BY <1>1 DEF WriterStart, NotSaving, CheckFlushStart
<1>3. NextSeq \in Nat /\ \A k \in Keys : lastDel[k] < NextSeq /\ flushed[k] <= NextSeq
  BY <1>1, <1>2 DEF NextSeq
<1>4. Deleted(version)
  BY <1>1, EmptyKnown DEF Deleted, Stored, Found, EmptyVersion, Range
<1>5. SavedHold
  BY <1>1, <1>2 DEF SavedHold
<1>6. LogDeletes
  <2>1. DOMAIN Replayed(log) = {}
    BY <1>1 DEF Replayed, Range
  <2>2. Range(walSyncing) \cup Range(walBuf) = {}
    BY <1>1 DEF Range
  <2> QED BY <1>2, <2>1, <2>2 DEF LogDeletes
<1>7. ASSUME NEW k \in Keys, NEW n \in Marks(k) PROVE Held(k, n)
  <2>1. n = 0
    BY <1>1, <1>2, <1>7 DEF Marks
  <2>2. Mem(k) = {} /\ Below(k) = {}
    <3>1. Mem(k) = {} /\ ImmutableEntry(k) = {}
      BY <1>1 DEF Mem, EntryOf, EmptyTable, ImmutableEntry
    <3>2. \A t \in Callers : cf[t].pc \notin Handed
      BY <1>2 DEF Handed
    <3> QED BY <3>1, <3>2 DEF Below
  <2>3. FiledIn(version, k, lastDel[k], 0)
    BY DEF FiledIn, Covers
  <2> QED BY <1>3, <2>1, <2>2, <2>3 DEF Held
<1>8. MetaWhole
  BY <1>1 DEF MetaWhole
<1> QED BY <1>3, <1>4, <1>5, <1>6, <1>7, <1>8 DEF SaveInv, Tombstones

-----------------------------------------------------------------------------
(* The theorems about what levels.txt refers to.                           *)

\* What levels.txt refers to, and what saveMetadata is about to add to it, holds
\* the newest saved entry of each key, or the key has been deleted since then; the
\* log and memory have newer entries only, and metadata.txt is whole when no save is
\* under way (saveMetadata, compactL0toL1, compactlevelN, flushThreadLoop,
\* recover).
THEOREM SaveInvCorrect == Spec => []SaveInv
<1>1. Inv /\ Inv' /\ VInv /\ VInv' /\ SaveInv /\ [Next]_vars => SaveInv'
  <2> SUFFICES ASSUME Inv, Inv', VInv, VInv', SaveInv, [Next]_vars PROVE SaveInv'
    OBVIOUS
  <2>1. CASE WalSwap \/ WalPublish \/ UNCHANGED vars
    BY <2>1, OtherSave
  <2>2. CASE WriterPop \/ WriterStep
    BY <2>2, WriterSave, WriterApplySave DEF WriterStep
  <2>3. CASE \E t \in Flushers : FlushCall(t)
    <3>1. Flushers \subseteq Callers
      BY DEF Callers
    <3> QED BY <2>3, <3>1, CallerSave
  <2>4. CASE \E t \in Callers : CheckFlush(t)
    BY <2>4, CallerSave, IdleSave, HandOverSave DEF CheckFlush
  <2>5. CASE SaveMetadata
    BY <2>5, SavingSave, SaveLevelsSave DEF SaveMetadata
  <2>6. CASE FlushThread
    BY <2>6, IdleSave, FlushInstallSave, SaveCallSave DEF FlushThread
  <2>7. CASE CompactionThread
    BY <2>7, IdleSave, CompactInstallSave, SaveCallSave, StopSave DEF CompactionThread
  <2>8. CASE \/ \E r \in Readers, k \in Keys : GetBegin(r, k)
             \/ \E r \in Readers : Get(r)
    BY <2>8, OtherSave
  <2>9. CASE CrashRestart
    BY <2>9, RestartSave
  <2> QED BY <2>1, <2>2, <2>3, <2>4, <2>5, <2>6, <2>7, <2>8, <2>9 DEF Next
<1> QED BY <1>1, InitSave, InvCorrect, VInvCorrect, PTL DEF Spec

\* A crash spares every write that is in a table of levels.txt, except in the middle
\* of saveMetadata, and unless the log replays an older entry than a table has: the
\* constructor finds that write or a newer one, or the key had been deleted since
\* and nothing of it is in L0 and L1 (saveMetadata, loadLevelMetadata, loadSSTables,
\* recover).
THEOREM FlushedSurviveCorrect == Spec => FlushedSurvive
<1>1. Inv /\ Inv' /\ VInv /\ VInv' /\ SaveInv =>
          [CrashRestart /\ MetadataMutexFree /\ ~disorder' =>
               \A k \in Keys : AnswersFrom(Current(k)', Shallow(k)', k, flushed[k])]_vars
  BY RestartKeepsFlushed
<1> QED BY <1>1, InvCorrect, VInvCorrect, SaveInvCorrect, PTL DEF FlushedSurvive

-----------------------------------------------------------------------------
(* What the log holds before the first hand-over of a process: every       *)
(* answered write, and in log.bin every write answered one batch earlier.  *)

Ordered(s) == \A i, j \in DOMAIN s : i < j => s[i].seq < s[j].seq

Before(s, t) == \A r \in Range(s), q \in Range(t) : r.seq < q.seq

\* The records in log.bin and in the two buffers are in the order of append.
LogOrder ==
    /\ Ordered(log) /\ Ordered(walSyncing) /\ Ordered(walBuf)
    /\ Before(log, walSyncing) /\ Before(log, walBuf) /\ Before(walSyncing, walBuf)

InLog == Range(log) \cup Range(walSyncing) \cup Range(walBuf)

\* The number of the first request of the batch, or of the next one.
First == seq - Logged

\* A batch that has been through flush() is in the buffer alone; the second flush()
\* takes what the first has left.
LogWritten ==
    /\ \A r \in Range(walBuf) :
           r.seq < (IF w.pc \in {"checkFlush", "ack"} THEN seq ELSE First) => walSyncing = <<>>
    /\ w.pc \in {"checkFlush", "ack"} =>
           \A r \in Range(walSyncing) \cup Range(walBuf) : r.seq >= First

\* Write number n of k or a newer one is among the records, or it is in a table
\* of levels.txt and the log has nothing older.
Recorded(k, n, records) ==
    \/ n <= flushed[k] /\ \A r \in InLog : r.key = k => r.seq >= n
    \/ \E r \in records : r.key = k /\ r.seq >= n

\* Answered writes are in the log, those of the batch as soon as they are logged.
AckedLogged ==
    /\ \A i \in 1..Logged : \E r \in InLog : r.key = w.batch[i].key /\ r.seq = First + i - 1
    /\ \A k \in Keys :
           /\ acked[k] < First /\ settled[k] \in Nat /\ settled[k] < First
           /\ Recorded(k, acked[k], {r \in InLog : r.seq < First})
           /\ Recorded(k, settled[k], Range(log))

SavedDeleted == \A ls \in levelsFile : Deleted(Saved(ls))

LogInv ==
    proc = "up" =>
        /\ LogOrder /\ LogWritten
        /\ ~disorder => SavedDeleted /\ (linked => AckedLogged)

\* Records that are written behind others stay in order.
LEMMA OrderedConcat ==
    ASSUME NEW a \in Seq(Records), NEW b \in Seq(Records), Ordered(a), Ordered(b), Before(a, b)
    PROVE  Ordered(a \o b)
<1> DEFINE u == a \o b
<1>1. PICK n \in Nat, m \in Nat : n = Len(a) /\ m = Len(b)
  OBVIOUS
<1>2. /\ DOMAIN a = 1..n /\ DOMAIN b = 1..m /\ DOMAIN u = 1..(n + m)
      /\ \A i \in 1..n : u[i] = a[i] /\ a[i] \in Range(a)
      /\ \A i \in (n + 1)..(n + m) : u[i] = b[i - n] /\ i - n \in 1..m /\ b[i - n] \in Range(b)
  BY <1>1 DEF Range
<1> HIDE DEF u
<1>3. ASSUME NEW i \in 1..(n + m), NEW j \in 1..(n + m), i < j PROVE u[i].seq < u[j].seq
  <2>1. CASE j <= n
    <3>1. i \in 1..n /\ j \in 1..n
      BY <1>3, <2>1
    <3> QED BY <1>2, <1>3, <3>1 DEF Ordered
  <2>2. CASE i <= n /\ ~(j <= n)
    <3>1. i \in 1..n /\ j \in (n + 1)..(n + m)
      BY <1>3, <2>2
    <3> QED BY <1>2, <3>1 DEF Before
  <2>3. CASE ~(i <= n)
    <3>1. i \in (n + 1)..(n + m) /\ j \in (n + 1)..(n + m) /\ i - n < j - n
      BY <1>3, <2>3
    <3> QED BY <1>2, <3>1 DEF Ordered
  <2> QED BY <2>1, <2>2, <2>3
<1> QED BY <1>2, <1>3 DEF Ordered, u

\* A record with a higher number at the end.
LEMMA OrderedAppend ==
    ASSUME NEW b \in Seq(Records), NEW r \in Records, Ordered(b), \A q \in Range(b) : q.seq < r.seq
    PROVE  Ordered(Append(b, r))
<1> DEFINE u == Append(b, r)
<1>1. PICK n \in Nat : n = Len(b)
  OBVIOUS
<1>2. /\ DOMAIN b = 1..n /\ DOMAIN u = 1..(n + 1) /\ u[n + 1] = r
      /\ \A i \in 1..n : u[i] = b[i] /\ b[i] \in Range(b)
  BY <1>1 DEF Range
<1> HIDE DEF u
<1>3. ASSUME NEW i \in 1..(n + 1), NEW j \in 1..(n + 1), i < j PROVE u[i].seq < u[j].seq
  <2>1. i \in 1..n
    BY <1>3
  <2>2. CASE j = n + 1
    BY <1>2, <2>1, <2>2
  <2>3. CASE j \in 1..n
    BY <1>2, <1>3, <2>1, <2>3 DEF Ordered
  <2> QED BY <2>2, <2>3
<1> QED BY <1>2, <1>3 DEF Ordered, u

\* A replay puts the newest record of a key into the memtable.
LEMMA ReplayedNewest ==
    ASSUME NEW a \in Seq(Records), Ordered(a), NEW r \in Range(a)
    PROVE  r.key \in DOMAIN Replayed(a) /\ Replayed(a)[r.key].seq >= r.seq
<1> DEFINE P == {i \in DOMAIN a : a[i].key = r.key}
<1>1. PICK n \in Nat : n = Len(a)
  OBVIOUS
<1>2. /\ r.key \in DOMAIN Replayed(a)
      /\ Replayed(a)[r.key] = [seq |-> a[Max(P)].seq, type |-> a[Max(P)].type]
  BY DEF Replayed
<1>3. PICK i \in DOMAIN a : r = a[i]
  BY DEF Range
<1>4. i \in P /\ P \in SUBSET Nat /\ \A j \in P : j <= n
  BY <1>1, <1>3
<1> HIDE DEF P
<1>5. Max(P) \in P /\ \A j \in P : j <= Max(P)
  BY <1>1, <1>4, MaxNat
<1>6. PICK m \in DOMAIN a : m = Max(P) /\ i <= m
  BY <1>4, <1>5 DEF P
<1>7. a[m].seq \in Nat /\ a[i].seq \in Nat /\ (i < m => a[i].seq < a[m].seq)
  <2>1. a[m] \in Records /\ a[i] \in Records
    BY <1>1, <1>3, <1>6
  <2> QED BY <2>1, <1>3, <1>6 DEF Ordered, Records
<1>8. a[m].seq >= a[i].seq
  <2>1. i \in Nat /\ m \in Nat
    BY <1>1, <1>3, <1>6
  <2>2. i < m \/ i = m
    BY <1>6, <2>1
  <2> QED BY <1>7, <2>2
<1> QED BY <1>2, <1>3, <1>6, <1>8

\* The sync thread and flush() move records towards log.bin.
LEMMA LogMovesOrder ==
    ASSUME Inv, LogOrder, WalSwap \/ WalPublish \/ WalFlush
    PROVE  /\ LogOrder' /\ InLog' = InLog /\ Range(log) \subseteq Range(log')
           /\ Range(walSyncing') \cup Range(walBuf') \subseteq Range(walSyncing) \cup Range(walBuf)
           /\ \/ walBuf' = <<>>
              \/ walSyncing' = <<>> /\ walBuf' = walBuf
           /\ WalFlush => /\ walSyncing' = <<>>
                          /\ walBuf' = <<>> \/ walSyncing # <<>>
<1>1. log \in Seq(Records) /\ walSyncing \in Seq(Records) /\ walBuf \in Seq(Records)
  BY DEF Inv, Types, LogTypes
<1>2. Range(<<>>) = {} /\ Ordered(<<>>) /\ \A s : Before(s, <<>>) /\ Before(<<>>, s)
  <2>1. Range(<<>>) = {}
    BY DEF Range
  <2> QED BY <2>1 DEF Ordered, Before
<1>3. /\ Range(log \o walSyncing) = Range(log) \cup Range(walSyncing)
      /\ log \o walSyncing \in Seq(Records)
  BY <1>1, RangeOfConcat
<1>4. Ordered(log \o walSyncing) /\ Before(log \o walSyncing, walBuf)
  BY <1>1, <1>3, OrderedConcat DEF LogOrder, Before
<1>5. CASE WalSwap
  <2>1. log' = log /\ walSyncing = <<>> /\ walSyncing' = walBuf /\ walBuf' = <<>>
    BY <1>5 DEF WalSwap
  <2>2. ~WalFlush \/ walSyncing' = <<>>
    BY <2>1 DEF WalFlush
  <2>3. LogOrder' /\ InLog' = InLog
    BY <1>2, <2>1 DEF LogOrder, InLog
  <2> QED BY <1>2, <2>1, <2>2, <2>3
<1>6. ASSUME log' = log \o walSyncing, walSyncing' = <<>>, walBuf' = walBuf
      PROVE  /\ LogOrder' /\ InLog' = InLog /\ Range(log) \subseteq Range(log')
             /\ Range(walSyncing') \cup Range(walBuf') \subseteq Range(walSyncing) \cup Range(walBuf)
  <2>1. LogOrder'
    BY <1>2, <1>4, <1>6 DEF LogOrder
  <2>2. InLog' = InLog
    BY <1>2, <1>3, <1>6 DEF InLog
  <2> QED BY <1>2, <1>3, <1>6, <2>1, <2>2
<1>7. ASSUME log' = log \o walSyncing \o walBuf, walSyncing' = <<>>, walBuf' = <<>>
      PROVE  /\ LogOrder' /\ InLog' = InLog /\ Range(log) \subseteq Range(log')
             /\ Range(walSyncing') \cup Range(walBuf') \subseteq Range(walSyncing) \cup Range(walBuf)
  <2>1. PICK s \in Seq(Records) : s = log \o walSyncing
    BY <1>3
  <2>2. Range(log') = Range(log) \cup Range(walSyncing) \cup Range(walBuf)
    <3>1. log' = s \o walBuf /\ Range(s) = Range(log) \cup Range(walSyncing)
      BY <1>3, <1>7, <2>1
    <3>2. Range(s \o walBuf) = Range(s) \cup Range(walBuf)
      BY <1>1, <2>1, RangeOfConcat
    <3> QED BY <3>1, <3>2
  <2>3. Ordered(log')
    <3>1. Ordered(s) /\ Ordered(walBuf) /\ Before(s, walBuf)
      BY <1>4, <2>1 DEF LogOrder
    <3> QED BY <1>1, <1>7, <2>1, <3>1, OrderedConcat
  <2>4. LogOrder'
    BY <1>2, <1>7, <2>3 DEF LogOrder
  <2>5. InLog' = InLog
    BY <1>2, <1>7, <2>2 DEF InLog
  <2> QED BY <1>2, <1>7, <2>2, <2>4, <2>5
<1>8. CASE WalPublish
  <2>1. log' = log \o walSyncing /\ walSyncing' = <<>> /\ walBuf' = walBuf /\ walSyncing # <<>>
    BY <1>8 DEF WalPublish
  <2> QED BY <1>6, <2>1
<1>9. CASE WalFlush
  <2>1. \/ log' = log \o walSyncing \o walBuf /\ walSyncing' = <<>> /\ walBuf' = <<>>
        \/ log' = log \o walSyncing /\ walSyncing' = <<>> /\ walBuf' = walBuf /\ walSyncing # <<>>
    BY <1>9 DEF WalFlush
  <2> QED BY <1>6, <1>7, <2>1
<1> QED BY <1>5, <1>8, <1>9

\* The deletes in the tables of levels.txt stay known.
LEMMA SavedDeletedKept ==
    ASSUME Inv, VInv, proc = "up", ~disorder, SavedDeleted, TablesKept,
           \A k \in Keys : lastDel[k] <= lastDel'[k] /\ lastDel'[k] \in Nat,
           \A ls \in levelsFile' : ls \in levelsFile \/ ls = EmptyVersion.levels
    PROVE  SavedDeleted'
<1>1. ASSUME NEW ls \in levelsFile', NEW k \in Keys, NEW e \in Stored(Saved(ls), tables', k),
             e.type = "DELETE"
      PROVE  lastDel'[k] >= e.seq
  <2>1. CASE ls \in levelsFile
    <3>1. e \in Stored(Saved(ls), tables, k)
      BY <1>1, <2>1, SavedFilesKept
    <3>2. lastDel[k] >= e.seq
      BY <1>1, <2>1, <3>1 DEF SavedDeleted, Deleted
    <3>3. Orderly(Saved(ls))
      BY <2>1 DEF VInv, InOrder, TreeOrder, SavedOrderly
    <3>4. e.seq \in Nat
      BY <3>1, <3>3, StoredNumbers
    <3> QED BY <3>2, <3>4 DEF VInv, Acks
  <2>2. CASE ls = EmptyVersion.levels
    <3>1. Stored(Saved(ls), tables', k) = {}
      BY <2>2 DEF Stored, Found, Saved, EmptyVersion, Range
    <3> QED BY <1>1, <3>1
  <2> QED BY <1>1, <2>1, <2>2
<1>2. ASSUME NEW ls \in levelsFile' PROVE Deleted(Saved(ls))'
  BY <1>1, <1>2 DEF Deleted, Saved
<1> QED BY <1>2 DEF SavedDeleted

\* A step that leaves alone what is in the log and what has been answered.
LEMMA LogInvQuiet ==
    ASSUME Inv, VInv, LogInv, proc = "up",
           UNCHANGED <<logVars, seq, ackVars, flushed>>,
           Logged' = Logged, w'.batch = w.batch \/ Logged = 0,
           w'.pc \in {"checkFlush", "ack"} <=> w.pc \in {"checkFlush", "ack"},
           ~disorder' => /\ ~disorder
                         /\ \A k \in Keys : lastDel[k] <= lastDel'[k] /\ lastDel'[k] \in Nat,
           TablesKept, \A ls \in levelsFile' : ls \in levelsFile \/ ls = EmptyVersion.levels
    PROVE  LogInv'
<1>1. /\ UNCHANGED <<log, linked, walBuf, walSyncing, seq, acked, settled, flushed>>
      /\ InLog' = InLog /\ First' = First
  BY DEF logVars, ackVars, InLog, First
<1>2. LogOrder' /\ LogWritten'
  BY <1>1 DEF LogInv, LogOrder, LogWritten
<1>3. \A k, n, R : Recorded(k, n, R)' <=> Recorded(k, n, R)
  BY <1>1 DEF Recorded
<1>4. ASSUME AckedLogged PROVE AckedLogged'
  <2>1. ASSUME NEW i \in 1..Logged'
        PROVE  \E r \in InLog' : r.key = w'.batch[i].key /\ r.seq = First' + i - 1
    <3>1. CASE w'.batch = w.batch
      BY <1>1, <1>4, <2>1, <3>1 DEF AckedLogged
    <3>2. CASE Logged = 0
      BY <2>1, <3>2
    <3> QED BY <3>1, <3>2
  <2>2. ASSUME NEW k \in Keys
        PROVE  /\ acked'[k] < First' /\ settled'[k] \in Nat /\ settled'[k] < First'
               /\ Recorded(k, acked[k], {r \in InLog : r.seq < First})'
               /\ Recorded(k, settled[k], Range(log))'
    <3>1. /\ acked[k] < First /\ settled[k] \in Nat /\ settled[k] < First
          /\ Recorded(k, acked[k], {r \in InLog : r.seq < First})
          /\ Recorded(k, settled[k], Range(log))
      BY <1>4 DEF AckedLogged
    <3> QED BY <1>1, <3>1 DEF Recorded
  <2> QED BY <2>1, <2>2 DEF AckedLogged
<1>5. ASSUME ~disorder' PROVE SavedDeleted'
  BY <1>5, SavedDeletedKept DEF LogInv
<1> QED BY <1>1, <1>2, <1>4, <1>5 DEF LogInv

\* Every step but those of the log, of the writer thread, of the last step of
\* saveMetadata, and those that end the process or start it again.
LEMMA IdleLog ==
    ASSUME Inv, VInv, LogInv, ~CompactThrow,
           \/ \E t \in Callers : \/ FlushCall(t) \/ CheckFlushTest(t) \/ CheckFlushSleep(t)
                                 \/ CheckFlushSnapshot(t) \/ CheckFlushClear(t)
                                 \/ CheckFlushStore(t) \/ CheckFlushNotify(t)
           \/ SaveMeta \/ SaveTruncate
           \/ FlushThread \/ CompactionThread
           \/ \E r \in Readers, k \in Keys : GetBegin(r, k)
           \/ \E r \in Readers : Get(r)
           \/ UNCHANGED vars
    PROVE  LogInv'
<1> DEFINE Quiet == /\ UNCHANGED <<logVars, seq, ackVars, flushed, w, lastDel, proc>>
                    /\ ~disorder' => ~disorder
           Same == TablesKept /\ \A ls \in levelsFile' : ls \in levelsFile \/ ls = EmptyVersion.levels
<1>1. ASSUME UNCHANGED <<tables, levelsFile>> PROVE Same
  BY <1>1 DEF TablesKept
<1>2. ASSUME NEW t \in Callers,
             \/ FlushCall(t) \/ CheckFlushTest(t) \/ CheckFlushSleep(t)
             \/ CheckFlushSnapshot(t) \/ CheckFlushClear(t)
             \/ CheckFlushStore(t) \/ CheckFlushNotify(t)
      PROVE  Quiet /\ UNCHANGED <<tables, levelsFile>>
  BY <1>2 DEF FlushCall, CheckFlushTest, CheckFlushSleep, CheckFlushSnapshot, CheckFlushClear,
       CheckFlushStore, CheckFlushNotify, memVars, fileVars, raceVars, boundVars
<1>3. ASSUME SaveMeta \/ SaveTruncate
      PROVE  Quiet /\ Same
  <2>1. Quiet
    BY <1>3 DEF SaveMeta, SaveTruncate, memVars, fileVars, raceVars, boundVars
  <2>2. Same
    BY <1>3 DEF SaveMeta, SaveTruncate, TablesKept
  <2> QED BY <2>1, <2>2
<1>4. ASSUME FlushTake \/ FlushSleep \/ FlushCopy \/ FlushCache
             \/ FlushReset \/ FlushNotify
      PROVE  Quiet /\ Same
  <2>1. CASE FlushTake
    BY <1>1, <2>1 DEF FlushTake, fileVars, raceVars, boundVars
  <2>2. CASE FlushSleep \/ FlushCopy \/ FlushNotify
    BY <1>1, <2>2 DEF FlushSleep, FlushCopy, FlushNotify, memVars, fileVars, raceVars, boundVars
  <2>3. CASE FlushCache
    BY <1>1, <2>3 DEF FlushCache, fileVars, boundVars
  <2>4. CASE FlushReset
    BY <1>1, <2>4 DEF FlushReset, fileVars, raceVars, boundVars
  <2> QED BY <1>4, <2>1, <2>2, <2>3, <2>4
<1>5. ASSUME FlushSave \/ CompactSave
      PROVE  Quiet /\ Same
  <2>1. Quiet /\ UNCHANGED <<tables, levelsFile>>
    BY <1>5 DEF FlushSave, CompactSave, SaveBegin, memVars, fileVars, raceVars, boundVars
  <2> QED BY <1>1, <2>1
<1>6. ASSUME FlushBuild \/ CompactBuild
      PROVE  Quiet /\ Same
  <2>1. Quiet /\ UNCHANGED levelsFile
    BY <1>6 DEF FlushBuild, CompactBuild, memVars, fileVars, raceVars, boundVars
  <2>2. TablesKept
    BY <1>6, BuildValues
  <2> QED BY <2>1, <2>2
<1>7. ASSUME CompactTest \/ CompactSleep \/ CompactSkip \/ CompactMerge \/ CompactCopy
             \/ CompactRemove \/ CompactCache
      PROVE  Quiet /\ Same
  <2>1. Quiet /\ UNCHANGED <<tables, levelsFile>>
    BY <1>7 DEF CompactTest, CompactSleep, CompactSkip, CompactMerge, CompactCopy,
         CompactRemove, CompactCache, memVars, fileVars, raceVars, boundVars
  <2> QED BY <1>1, <2>1
<1>8. ASSUME UNCHANGED vars
      PROVE  Quiet /\ Same
  <2>1. Quiet /\ UNCHANGED <<tables, levelsFile>>
    BY <1>8 DEF vars, memVars, fileVars, raceVars, boundVars
  <2> QED BY <1>1, <2>1
<1>9. ASSUME NEW r \in Readers, NEW k \in Keys, GetBegin(r, k)
      PROVE  Quiet /\ UNCHANGED <<tables, levelsFile>>
  BY <1>9 DEF GetBegin, memVars, fileVars, raceVars, boundVars
<1>10. ASSUME NEW r \in Readers, Get(r)
       PROVE  Quiet /\ UNCHANGED <<tables, levelsFile>>
  <2>1. CASE GetMemtable(r) \/ GetImmutable(r) \/ GetVersion(r)
    BY <2>1 DEF GetMemtable, GetImmutable, GetVersion, memVars, fileVars, raceVars, boundVars
  <2>2. CASE GetSearch(r)
    BY <2>2 DEF GetSearch, memVars, fileVars, raceVars, boundVars
  <2>3. CASE GetThrow(r) \/ GetFill(r)
    BY <2>3 DEF GetThrow, GetFill, memVars, fileVars, raceVars, boundVars
  <2> QED BY <1>10, <2>1, <2>2, <2>3 DEF Get
<1>11. ASSUME FlushInstall \/ CompactInstall
       PROVE  Quiet /\ Same
  <2>1. UNCHANGED <<logVars, seq, ackVars, flushed, w, lastDel, proc, tables, levelsFile>>
    BY <1>11 DEF FlushInstall, CompactInstall, fileVars, boundVars
  <2>2. disorder' = (disorder \/ lostUpdate')
    BY <1>11 DEF FlushInstall, CompactInstall
  <2> QED BY <1>1, <2>1, <2>2
<1> HIDE DEF Quiet, Same
<1>12. Quiet /\ Same
  BY <1>1, <1>2, <1>3, <1>4, <1>5, <1>6, <1>7, <1>8, <1>9, <1>10, <1>11 DEF FlushThread, CompactionThread
<1> USE DEF Quiet, Same
<1>13. /\ UNCHANGED <<logVars, seq, ackVars, flushed>> /\ w' = w /\ lastDel' = lastDel /\ proc' = proc
       /\ ~disorder' => ~disorder
       /\ TablesKept /\ \A ls \in levelsFile' : ls \in levelsFile \/ ls = EmptyVersion.levels
  BY <1>12
<1>14. CASE proc = "up"
  <2>1. Logged' = Logged
    BY <1>13 DEF Logged
  <2>2. \A k \in Keys : lastDel[k] <= lastDel'[k] /\ lastDel'[k] \in Nat
    BY <1>13, <1>14 DEF VInv, Acks
  <2> HIDE DEF Quiet, Same
  <2> QED BY <1>13, <1>14, <2>1, <2>2, LogInvQuiet
<1>15. CASE proc # "up"
  BY <1>13, <1>15 DEF LogInv
<1> QED BY <1>14, <1>15

\* The number of the first request of the batch.
LEMMA FirstNumber ==
    ASSUME Inv, Acks
    PROVE  /\ seq \in Nat /\ Logged \in Nat /\ First \in Nat /\ 1 <= First /\ First + Logged = seq
           /\ \A r \in InLog : r.seq \in Nat /\ r.seq < seq
<1>1. seq \in Nat /\ w \in WriterRecord
  BY DEF Inv, Types, LogTypes, WriterTypes
<1>2. w.pc \in {"apply", "log", "invalidate"} => w.pos \in 1..Len(w.batch)
  BY DEF Inv, Types, WriterTypes
<1>3. Len(w.batch) \in Nat /\ w.pos \in Nat
  BY <1>1 DEF WriterRecord
<1>4. Logged \in Nat
  BY <1>2, <1>3 DEF Logged
<1>5. First \in Nat /\ 1 <= First /\ First + Logged = seq
  BY <1>1, <1>4 DEF Acks, First
<1>6. ASSUME NEW r \in InLog PROVE r.seq \in Nat /\ r.seq < seq
  <2>1. {log, walBuf, walSyncing} \subseteq Seq(Records) /\ r.seq < seq
    BY <1>6 DEF Inv, Types, LogTypes, InLog
  <2>2. r \in Records
    BY <1>6, <2>1 DEF InLog, Range
  <2> QED BY <2>1, <2>2 DEF Records
<1> QED BY <1>1, <1>4, <1>5, <1>6

\* Records move towards log.bin, on the way to flush() or at its end.
LEMMA MovesLog ==
    ASSUME Inv, VInv, LogInv, proc = "up", WalSwap \/ WalPublish \/ WalFlush,
           UNCHANGED <<linked, seq, ackVars, flushed, lastDel, disorder, tables, levelsFile>>,
           Logged' = Logged, w'.batch = w.batch,
           w'.pc \in {"checkFlush", "ack"} =>
               w.pc \in {"checkFlush", "ack"} \/ (WalFlush /\ w.pc = "flush")
    PROVE  LogInv'
<1>1. LogOrder /\ LogWritten /\ Acks
  BY DEF LogInv, VInv
<1>2. /\ LogOrder' /\ InLog' = InLog /\ Range(log) \subseteq Range(log')
      /\ Range(walSyncing') \cup Range(walBuf') \subseteq Range(walSyncing) \cup Range(walBuf)
      /\ walBuf' = <<>> \/ walSyncing' = <<>>
      /\ WalFlush => /\ walSyncing' = <<>>
                     /\ walBuf' = <<>> \/ (walBuf' = walBuf /\ walSyncing # <<>>)
  BY <1>1, LogMovesOrder
<1>3. Range(<<>>) = {}
  BY DEF Range
<1>4. First' = First
  BY DEF First
<1>5. LogWritten'
  <2>1. \A r \in Range(walBuf') : walSyncing' = <<>>
    BY <1>2, <1>3
  <2>2. ASSUME w'.pc \in {"checkFlush", "ack"}, NEW r \in Range(walSyncing') \cup Range(walBuf')
        PROVE  r.seq >= First
    <3>1. CASE w.pc \in {"checkFlush", "ack"}
      BY <1>1, <1>2, <2>2, <3>1 DEF LogWritten
    <3>2. CASE WalFlush /\ w.pc = "flush"
      <4>1. r \in Range(walBuf) /\ walSyncing # <<>>
        BY <1>2, <1>3, <2>2, <3>2
      <4>2. ~(r.seq < First)
        BY <1>1, <3>2, <4>1 DEF LogWritten
      <4>3. r.seq \in Nat /\ First \in Nat
        BY <1>1, <4>1, FirstNumber DEF InLog
      <4> QED BY <4>2, <4>3
    <3> QED BY <2>2, <3>1, <3>2
  <2> QED BY <1>4, <2>1, <2>2 DEF LogWritten
<1>6. ASSUME AckedLogged PROVE AckedLogged'
  <2>1. acked' = acked /\ settled' = settled /\ flushed' = flushed
    BY DEF ackVars
  <2>2. \A k, n : /\ Recorded(k, n, {r \in InLog : r.seq < First})
                         => Recorded(k, n, {r \in InLog : r.seq < First})'
                  /\ Recorded(k, n, Range(log)) => Recorded(k, n, Range(log))'
    BY <1>2, <1>4, <2>1 DEF Recorded
  <2>3. \A i \in 1..Logged' : \E r \in InLog' : r.key = w'.batch[i].key /\ r.seq = First' + i - 1
    BY <1>2, <1>4, <1>6 DEF AckedLogged
  <2>4. ASSUME NEW k \in Keys
        PROVE  /\ acked'[k] < First' /\ settled'[k] \in Nat /\ settled'[k] < First'
               /\ Recorded(k, acked[k], {r \in InLog : r.seq < First})'
               /\ Recorded(k, settled[k], Range(log))'
    <3>1. /\ acked[k] < First /\ settled[k] \in Nat /\ settled[k] < First
          /\ Recorded(k, acked[k], {r \in InLog : r.seq < First})
          /\ Recorded(k, settled[k], Range(log))
      BY <1>6 DEF AckedLogged
    <3> QED BY <1>2, <1>4, <2>1, <3>1 DEF Recorded
  <2> QED BY <2>3, <2>4 DEF AckedLogged
<1>7. ASSUME ~disorder' PROVE SavedDeleted'
  <2>1. \A k \in Keys : lastDel[k] <= lastDel'[k] /\ lastDel'[k] \in Nat
    BY <1>1 DEF Acks
  <2>2. TablesKept
    BY DEF TablesKept
  <2> QED BY <1>7, <2>1, <2>2, SavedDeletedKept DEF LogInv
<1> QED BY <1>2, <1>5, <1>6, <1>7 DEF LogInv

\* The sync thread, wal_.flush in checkFlush and in the writer thread.
LEMMA FlushLog ==
    ASSUME Inv, VInv, LogInv,
           WalSwap \/ WalPublish \/ WriterFlush \/ \E t \in Callers : CheckFlushWal(t)
    PROVE  LogInv'
<1>1. CASE WalSwap \/ WalPublish
  <2>1. /\ UNCHANGED <<linked, seq, ackVars, flushed, lastDel, disorder, tables, levelsFile>>
        /\ w' = w /\ proc = "up"
    BY <1>1 DEF WalSwap, WalPublish, memVars, fileVars, raceVars
  <2>2. Logged' = Logged
    BY <2>1 DEF Logged
  <2> QED BY <1>1, <2>1, <2>2, MovesLog
<1>2. ASSUME NEW t \in Callers, CheckFlushWal(t) PROVE LogInv'
  <2>1. /\ UNCHANGED <<linked, seq, ackVars, flushed, lastDel, disorder, tables, levelsFile>>
        /\ w' = w /\ proc = "up" /\ WalFlush
    BY <1>2 DEF CheckFlushWal, memVars, fileVars, raceVars
  <2>2. Logged' = Logged
    BY <2>1 DEF Logged
  <2> QED BY <2>1, <2>2, MovesLog
<1>3. CASE WriterFlush
  <2>1. /\ UNCHANGED <<linked, seq, ackVars, flushed, lastDel, disorder, tables, levelsFile>>
        /\ proc = "up" /\ WalFlush /\ w.pc = "flush"
        /\ w' = [w EXCEPT !.pc = "checkFlush"] \/ w' = [w EXCEPT !.pc = "ack"]
    BY <1>3 DEF WriterFlush, memVars, fileVars, raceVars
  <2>2. w \in WriterRecord
    BY DEF Inv, Types, WriterTypes
  <2>3. w'.batch = w.batch /\ w'.pc \in {"checkFlush", "ack"}
    BY <2>1, <2>2 DEF WriterRecord
  <2>4. Logged' = Logged
    BY <2>1, <2>3 DEF Logged
  <2> QED BY <2>1, <2>3, <2>4, MovesLog
<1> QED BY <1>1, <1>2, <1>3

\* The writer thread takes a batch, writes to the memtable, and goes on to the next
\* request.
LEMMA WriterQuietLog ==
    ASSUME Inv, VInv, SaveInv, LogInv, WriterPop \/ WriterApply \/ WriterInvalidate
    PROVE  LogInv'
<1>1. /\ UNCHANGED <<logVars, seq, ackVars, flushed, tables, levelsFile, disorder>> /\ proc = "up"
      /\ TablesKept
  <2>1. CASE WriterPop
    BY <2>1 DEF WriterPop, memVars, fileVars, raceVars, TablesKept
  <2>2. CASE WriterApply
    BY <2>2 DEF WriterApply, fileVars, raceVars, TablesKept
  <2>3. CASE WriterInvalidate
    BY <2>3 DEF WriterInvalidate, memVars, fileVars, TablesKept
  <2> QED BY <2>1, <2>2, <2>3
<1>2. w \in WriterRecord /\ (w.pc \in {"apply", "log", "invalidate"} => w.pos \in 1..Len(w.batch))
  BY DEF Inv, Types, WriterTypes
<1>3. seq \in Nat /\ Acks
  BY <1>1 DEF Inv, Types, LogTypes, VInv
<1>4. /\ Logged' = Logged /\ (w'.batch = w.batch \/ Logged = 0)
      /\ w'.pc \in {"checkFlush", "ack"} <=> w.pc \in {"checkFlush", "ack"}
  <2>1. CASE WriterPop
    <3>1. w.pc = "pop" /\ w'.pc = "apply" /\ w'.pos = 1
      BY <2>1 DEF WriterPop
    <3> QED BY <3>1 DEF Logged
  <2>2. CASE WriterApply
    <3>1. w.pc = "apply" /\ w'.pc = "log" /\ w'.pos = w.pos /\ w'.batch = w.batch
      BY <1>2, <2>2 DEF WriterApply, WriterRecord
    <3> QED BY <3>1 DEF Logged
  <2>3. CASE WriterInvalidate /\ w.pos < Len(w.batch)
    <3>1. w.pc = "invalidate" /\ w' = [w EXCEPT !.pc = "apply", !.pos = w.pos + 1]
      BY <2>3 DEF WriterInvalidate
    <3>2. w'.pc = "apply" /\ w'.pos = w.pos + 1 /\ w'.batch = w.batch
      BY <1>2, <3>1 DEF WriterRecord
    <3> QED BY <1>2, <3>1, <3>2 DEF Logged
  <2>4. CASE WriterInvalidate /\ ~(w.pos < Len(w.batch))
    <3>1. w.pc = "invalidate" /\ w' = [w EXCEPT !.pc = "flush"]
      BY <2>4 DEF WriterInvalidate
    <3>2. w'.pc = "flush" /\ w'.batch = w.batch
      BY <1>2, <3>1 DEF WriterRecord
    <3>3. w.pos = Len(w.batch)
      BY <1>2, <2>4, <3>1
    <3> QED BY <3>1, <3>2, <3>3 DEF Logged
  <2> QED BY <2>1, <2>2, <2>3, <2>4
<1>5. ASSUME ~disorder PROVE \A k \in Keys : lastDel[k] <= lastDel'[k] /\ lastDel'[k] \in Nat
  <2>1. CASE WriterApply /\ Request.type = "DELETE"
    <3>1. lastDel' = [lastDel EXCEPT ![Request.key] = seq] /\ w.pc = "apply"
      BY <2>1 DEF WriterApply
    <3>2. \A k \in Keys : lastDel[k] < seq
      BY <1>1, <1>5, <3>1 DEF SaveInv, Tombstones, NextSeq
    <3> QED BY <1>3, <3>1, <3>2 DEF Acks
  <2>2. CASE ~WriterApply \/ Request.type # "DELETE"
    <3>1. lastDel' = lastDel
      BY <2>2 DEF WriterApply, WriterPop, WriterInvalidate
    <3> QED BY <1>3, <3>1 DEF Acks
  <2> QED BY <2>1, <2>2
<1> QED BY <1>1, <1>4, <1>5, LogInvQuiet

\* wal_.append, seq_number_++
LEMMA WriterLogLog ==
    ASSUME Inv, VInv, LogInv, WriterLog
    PROVE  LogInv'
<1> DEFINE r == [key |-> Request.key, seq |-> seq, type |-> Request.type]
<1>1. /\ UNCHANGED <<log, linked, walSyncing, acked, settled, flushed, lastDel, disorder, tables,
                     levelsFile>>
      /\ walBuf' = (IF linked THEN Append(walBuf, r) ELSE walBuf)
      /\ seq' = seq + 1 /\ w' = [w EXCEPT !.pc = "invalidate"] /\ w.pc = "log" /\ proc = "up"
  BY DEF WriterLog, LogAppend, memVars, fileVars, raceVars, ackVars
<1>2. w \in WriterRecord /\ w.pos \in 1..Len(w.batch)
  BY <1>1 DEF Inv, Types, WriterTypes
<1>3. w'.pc = "invalidate" /\ w'.batch = w.batch /\ w'.pos = w.pos
  BY <1>1, <1>2 DEF WriterRecord
<1>4. Acks /\ LogOrder /\ LogWritten
  BY <1>1 DEF VInv, LogInv
<1>5. /\ seq \in Nat /\ Logged \in Nat /\ First \in Nat /\ First + Logged = seq
      /\ \A q \in InLog : q.seq \in Nat /\ q.seq < seq
  BY <1>4, FirstNumber
<1>6. Logged = w.pos - 1 /\ Logged' = w.pos /\ w.pos \in Nat
  BY <1>1, <1>2, <1>3 DEF Logged
<1>7. First' = First /\ Logged' = Logged + 1
  <2>1. Logged' = Logged + 1 /\ seq' = seq + 1
    BY <1>1, <1>6
  <2>2. First' = seq' - Logged' /\ First = seq - Logged
    BY DEF First
  <2> QED BY <1>5, <2>1, <2>2
<1>8. r \in Records /\ r.seq = seq /\ r.key = w.batch[w.pos].key
  <2>1. Request \in Requests
    BY <1>1, RequestType DEF Inv, Types
  <2> QED BY <1>5, <2>1 DEF Requests, Records, Request
<1> HIDE DEF r
<1>9. walBuf \in Seq(Records)
  BY DEF Inv, Types, LogTypes
<1>10. CASE ~linked
  <2>1. /\ walBuf' = walBuf /\ log' = log /\ walSyncing' = walSyncing
        /\ linked' = linked
    BY <1>1, <1>10
  <2>2. LogOrder'
    BY <1>4, <2>1 DEF LogOrder
  <2>3. LogWritten'
    BY <1>1, <1>3, <1>4, <1>7, <2>1 DEF LogWritten
  <2>4. ASSUME ~disorder' PROVE SavedDeleted'
    <3>1. \A k \in Keys : lastDel[k] <= lastDel'[k] /\ lastDel'[k] \in Nat
      BY <1>1, <1>4 DEF Acks
    <3>2. TablesKept /\ levelsFile' = levelsFile /\ ~disorder /\ SavedDeleted
      BY <1>1, <2>4 DEF TablesKept, LogInv
    <3> QED BY <1>1, <3>1, <3>2, SavedDeletedKept
  <2> QED BY <1>10, <2>1, <2>2, <2>3, <2>4 DEF LogInv
<1>11. CASE linked
  <2>1. walBuf' = Append(walBuf, r)
    BY <1>1, <1>11
  <2>2. Range(walBuf') = Range(walBuf) \cup {r}
    <3>1. PICK n \in Nat : n = Len(walBuf)
      BY <1>9
    <3>2. /\ DOMAIN walBuf = 1..n /\ DOMAIN walBuf' = 1..(n + 1) /\ walBuf'[n + 1] = r
          /\ \A i \in 1..n : walBuf'[i] = walBuf[i]
      BY <1>8, <1>9, <2>1, <3>1
    <3>3. \A x : x \in Range(walBuf') <=> x \in Range(walBuf) \/ x = r
      BY <3>2 DEF Range
    <3> QED BY <3>3
  <2>3. InLog' = InLog \cup {r}
    BY <1>1, <2>2 DEF InLog
  <2>4. LogOrder'
    <3>1. Ordered(walBuf')
      BY <1>4, <1>5, <1>8, <1>9, <2>1, OrderedAppend DEF LogOrder, InLog
    <3>2. Before(log, walBuf') /\ Before(walSyncing, walBuf')
      <4>1. \A q \in Range(log) \cup Range(walSyncing) : q.seq < r.seq
        BY <1>5, <1>8 DEF InLog
      <4> QED BY <1>4, <2>2, <4>1 DEF LogOrder, Before
    <3> QED BY <1>1, <1>4, <3>1, <3>2 DEF LogOrder
  <2>5. ~(r.seq < First)
    BY <1>5, <1>8
  <2>6. LogWritten'
    <3>1. \A q \in Range(walBuf') : q.seq < First => walSyncing = <<>>
      BY <1>1, <1>4, <2>2, <2>5 DEF LogWritten
    <3> QED BY <1>1, <1>3, <1>7, <3>1 DEF LogWritten
  <2>7. ASSUME AckedLogged PROVE AckedLogged'
    <3>1. ASSUME NEW i \in 1..Logged'
          PROVE  \E q \in InLog' : q.key = w'.batch[i].key /\ q.seq = First' + i - 1
      <4>1. CASE i \in 1..Logged
        BY <1>3, <1>7, <2>3, <2>7, <4>1 DEF AckedLogged
      <4>2. CASE i = w.pos
        <5>1. r.key = w'.batch[i].key /\ r.seq = First' + i - 1
          BY <1>3, <1>5, <1>6, <1>7, <1>8, <4>2
        <5> QED BY <2>3, <5>1
      <4>3. i \in 1..Logged \/ i = w.pos
        BY <1>6, <3>1
      <4> QED BY <4>1, <4>2, <4>3
    <3>2. ASSUME NEW k \in Keys
          PROVE  /\ acked'[k] < First' /\ settled'[k] \in Nat /\ settled'[k] < First'
                 /\ Recorded(k, acked[k], {q \in InLog : q.seq < First})'
                 /\ Recorded(k, settled[k], Range(log))'
      <4>1. /\ acked[k] < First /\ settled[k] \in Nat /\ settled[k] < First
            /\ Recorded(k, acked[k], {q \in InLog : q.seq < First})
            /\ Recorded(k, settled[k], Range(log))
        BY <2>7 DEF AckedLogged
      <4>2. acked[k] \in Nat /\ r.seq >= acked[k] /\ r.seq >= settled[k]
        BY <1>4, <1>5, <1>8, <4>1 DEF Acks
      <4>3. /\ Recorded(k, acked[k], {q \in InLog : q.seq < First})'
            /\ Recorded(k, settled[k], Range(log))'
        BY <1>1, <1>7, <2>3, <4>1, <4>2 DEF Recorded
      <4> QED BY <1>1, <1>7, <4>1, <4>3
    <3> QED BY <3>1, <3>2 DEF AckedLogged
  <2>8. ASSUME ~disorder' PROVE SavedDeleted'
    <3>1. \A k \in Keys : lastDel[k] <= lastDel'[k] /\ lastDel'[k] \in Nat
      BY <1>1, <1>4 DEF Acks
    <3>2. TablesKept /\ levelsFile' = levelsFile /\ ~disorder /\ SavedDeleted
      BY <1>1, <2>8 DEF TablesKept, LogInv
    <3> QED BY <1>1, <3>1, <3>2, SavedDeletedKept
  <2> QED BY <1>1, <1>11, <2>4, <2>6, <2>7, <2>8 DEF LogInv
<1> QED BY <1>10, <1>11

\* The batch is answered: its records have left the buffers, or are newer than all
\* that had been answered.
LEMMA WriterAckLog ==
    ASSUME Inv, VInv, LogInv, WriterAck
    PROVE  LogInv'
<1>1. /\ UNCHANGED <<log, linked, walSyncing, walBuf, seq, flushed, lastDel, disorder, tables,
                     levelsFile>>
      /\ settled' = acked /\ w' = WriterStart /\ w.pc = "ack" /\ proc = "up"
  BY DEF WriterAck, memVars, fileVars, raceVars, logVars
<1>2. w'.pc = "pop" /\ Logged' = 0 /\ Logged = Len(w.batch) /\ Applied = Len(w.batch)
  BY <1>1 DEF WriterStart, Logged, Applied
<1>3. Acks /\ LogOrder /\ LogWritten
  BY <1>1 DEF VInv, LogInv
<1>4. /\ seq \in Nat /\ Logged \in Nat /\ First \in Nat /\ First + Logged = seq
      /\ \A q \in InLog : q.seq \in Nat /\ q.seq < seq
  BY <1>3, FirstNumber
<1>5. First' = seq /\ First = seq - Logged
  BY <1>1, <1>2, <1>4 DEF First
<1>6. LogOrder' /\ InLog' = InLog
  BY <1>1, <1>3 DEF LogOrder, InLog
<1>7. LogWritten'
  BY <1>1, <1>2, <1>3, <1>5 DEF LogWritten
<1>8. \A r \in Range(walSyncing) \cup Range(walBuf) : ~(r.seq < First)
  <2>1. \A r \in Range(walSyncing) \cup Range(walBuf) : r.seq >= First /\ r.seq \in Nat
    BY <1>1, <1>3, <1>4 DEF LogWritten, InLog
  <2> QED BY <1>4, <2>1
<1>9. ASSUME AckedLogged, NEW k \in Keys
      PROVE  /\ acked'[k] < seq /\ acked[k] \in Nat /\ acked[k] < seq
             /\ Recorded(k, acked'[k], {r \in InLog : r.seq < seq})
             /\ Recorded(k, acked[k], Range(log))
  <2>1. /\ acked[k] \in Nat /\ acked[k] < First
        /\ Recorded(k, acked[k], {r \in InLog : r.seq < First})
    BY <1>3, <1>9 DEF Acks, AckedLogged
  <2>2. acked[k] < seq
    BY <1>4, <2>1
  <2>3. Recorded(k, acked[k], Range(log))
    BY <1>8, <2>1 DEF Recorded, InLog
  <2>4. \A r \in InLog : r.seq < First => r.seq < seq
    BY <1>4
  <2>5. Recorded(k, acked[k], {r \in InLog : r.seq < seq})
    BY <2>1, <2>4 DEF Recorded
  <2>6. acked'[k] \in Due(k)
    BY WriterAckValues
  <2>7. CASE acked'[k] # acked[k]
    <3>1. PICK i \in 1..Logged : w.batch[i].key = k /\ acked'[k] = seq - Logged + i - 1
      BY <1>2, <2>6, <2>7 DEF Due
    <3>2. PICK r \in InLog : r.key = k /\ r.seq = First + i - 1
      BY <1>9, <3>1 DEF AckedLogged
    <3>3. r.seq = acked'[k] /\ r.seq < seq /\ r.seq \in Nat
      BY <1>4, <1>5, <3>1, <3>2
    <3>4. Recorded(k, acked'[k], {q \in InLog : q.seq < seq})
      BY <3>2, <3>3 DEF Recorded
    <3> QED BY <2>1, <2>2, <2>3, <3>3, <3>4
  <2> QED BY <2>1, <2>2, <2>3, <2>5, <2>7
<1>10. ASSUME AckedLogged PROVE AckedLogged'
  <2>1. ASSUME NEW k \in Keys
        PROVE  /\ acked'[k] < First' /\ settled'[k] \in Nat /\ settled'[k] < First'
               /\ Recorded(k, acked[k], {r \in InLog : r.seq < First})'
               /\ Recorded(k, settled[k], Range(log))'
    BY <1>1, <1>5, <1>6, <1>9, <1>10 DEF Recorded
  <2>2. \A i \in 1..Logged' : FALSE
    BY <1>2
  <2> QED BY <2>1, <2>2 DEF AckedLogged
<1>11. ASSUME ~disorder' PROVE SavedDeleted'
  <2>1. \A k \in Keys : lastDel[k] <= lastDel'[k] /\ lastDel'[k] \in Nat
    BY <1>1, <1>3 DEF Acks
  <2>2. TablesKept /\ levelsFile' = levelsFile /\ ~disorder /\ SavedDeleted
    BY <1>1, <1>11 DEF TablesKept, LogInv
  <2> QED BY <1>1, <2>1, <2>2, SavedDeletedKept
<1> QED BY <1>1, <1>6, <1>7, <1>10, <1>11 DEF LogInv

\* std::remove of log.bin: nothing is promised any more until the next restart.
LEMMA RemoveLog ==
    ASSUME Inv, VInv, LogInv, NEW t \in Callers, CheckFlushRemove(t)
    PROVE  LogInv'
<1>1. /\ UNCHANGED <<lastDel, disorder, tables, levelsFile>> /\ proc = "up"
      /\ ~linked' /\ log' = <<>> /\ walBuf' = <<>> /\ walSyncing' = <<>>
  BY DEF CheckFlushRemove, memVars, fileVars, raceVars
<1>2. Range(<<>>) = {} /\ DOMAIN <<>> = {}
  BY DEF Range
<1>3. LogOrder'
  BY <1>1, <1>2 DEF LogOrder, Ordered, Before
<1>4. LogWritten'
  BY <1>1, <1>2 DEF LogWritten
<1>5. ASSUME ~disorder' PROVE SavedDeleted'
  <2>1. \A k \in Keys : lastDel[k] <= lastDel'[k] /\ lastDel'[k] \in Nat
    BY <1>1 DEF VInv, Acks
  <2>2. TablesKept /\ levelsFile' = levelsFile /\ ~disorder /\ SavedDeleted
    BY <1>1, <1>5 DEF TablesKept, LogInv
  <2> QED BY <1>1, <2>1, <2>2, SavedDeletedKept
<1> QED BY <1>1, <1>3, <1>4, <1>5 DEF LogInv

\* saveMetadata ends: what has been recorded in a table stays recorded.
LEMMA SaveLevelsLog ==
    ASSUME Inv, VInv, SaveInv, LogInv, SaveLevels
    PROVE  LogInv'
<1>1. /\ UNCHANGED <<log, linked, walSyncing, walBuf, seq, acked, settled, lastDel, disorder,
                     tables, w>>
      /\ levelsFile' = {save.levels} /\ proc = "up" /\ save.step = "levels"
  BY DEF SaveLevels, memVars, raceVars, logVars, ackVars
<1>2. LogOrder' /\ InLog' = InLog
  BY <1>1 DEF LogInv, LogOrder, InLog
<1>3. First' = First /\ Logged' = Logged
  BY <1>1 DEF First, Logged
<1>4. LogWritten'
  BY <1>1, <1>3 DEF LogInv, LogWritten
<1> SUFFICES ASSUME ~disorder
             PROVE  SavedDeleted' /\ (AckedLogged => AckedLogged')
  BY <1>1, <1>2, <1>4 DEF LogInv
<1>5. SavedDeleted'
  <2>1. Deleted(Saved(save.levels))
    BY <1>1 DEF SaveInv, SavedHold, Inv, TreeInv, Saving
  <2>2. PICK ls : ls = save.levels
    OBVIOUS
  <2>3. Deleted(Saved(ls))'
    BY <1>1, <2>1, <2>2 DEF Deleted, Saved
  <2> QED BY <1>1, <2>2, <2>3 DEF SavedDeleted
<1>6. ASSUME AckedLogged PROVE AckedLogged'
  <2>1. ASSUME NEW k \in Keys, NEW n \in Nat, NEW R, Recorded(k, n, R)
        PROVE  \/ n <= flushed'[k] /\ \A r \in InLog : r.key = k => r.seq >= n
               \/ \E r \in R : r.key = k /\ r.seq >= n
    BY <2>1, SavedMarks DEF Recorded
  <2>2. ASSUME NEW k \in Keys
        PROVE  /\ acked'[k] < First' /\ settled'[k] \in Nat /\ settled'[k] < First'
               /\ Recorded(k, acked[k], {r \in InLog : r.seq < First})'
               /\ Recorded(k, settled[k], Range(log))'
    <3>1. /\ acked[k] < First /\ settled[k] \in Nat /\ settled[k] < First /\ acked[k] \in Nat
          /\ Recorded(k, acked[k], {r \in InLog : r.seq < First})
          /\ Recorded(k, settled[k], Range(log))
      BY <1>1, <1>6 DEF AckedLogged, VInv, Acks
    <3> QED BY <1>1, <1>2, <1>3, <2>1, <3>1 DEF Recorded
  <2>3. \A i \in 1..Logged' : \E r \in InLog' : r.key = w'.batch[i].key /\ r.seq = First' + i - 1
    BY <1>1, <1>2, <1>3, <1>6 DEF AckedLogged
  <2> QED BY <2>2, <2>3 DEF AckedLogged
<1> QED BY <1>5, <1>6

\* At the start nothing is logged and nothing answered.
LEMMA InitLog == Init => LogInv
<1> SUFFICES ASSUME Init PROVE LogInv
  OBVIOUS
<1>1. /\ seq = 1 /\ w.pc = "pop" /\ levelsFile = {} /\ log = <<>> /\ walBuf = <<>> /\ walSyncing = <<>>
      /\ \A k \in Keys : acked[k] = 0 /\ settled[k] = 0 /\ flushed[k] = 0
  BY DEF Init, WriterStart
<1>2. Logged = 0 /\ First = 1
  BY <1>1 DEF Logged, First
<1>3. Range(<<>>) = {} /\ DOMAIN <<>> = {}
  BY DEF Range
<1>4. LogOrder /\ LogWritten
  BY <1>1, <1>3 DEF LogOrder, LogWritten, Ordered, Before
<1>5. AckedLogged
  <2>1. \A i \in 1..Logged : FALSE
    BY <1>2
  <2>2. \A k \in Keys : /\ acked[k] < First /\ settled[k] \in Nat /\ settled[k] < First
                        /\ Recorded(k, acked[k], {r \in InLog : r.seq < First})
                        /\ Recorded(k, settled[k], Range(log))
    BY <1>1, <1>2, <1>3 DEF Recorded, InLog
  <2> QED BY <2>1, <2>2 DEF AckedLogged
<1> QED BY <1>1, <1>4, <1>5 DEF LogInv, SavedDeleted

\* What a replay puts into the memtable is in the log.
LEMMA ReplayedRecord ==
    ASSUME NEW a \in Seq(Records), NEW k \in DOMAIN Replayed(a)
    PROVE  \E r \in Range(a) :
               r.key = k /\ Replayed(a)[k] = [seq |-> r.seq, type |-> r.type]
<1> DEFINE P == {i \in DOMAIN a : a[i].key = k}
<1>1. PICK n \in Nat : n = Len(a)
  OBVIOUS
<1>2. /\ \E r \in Range(a) : r.key = k
      /\ Replayed(a)[k] = [seq |-> a[Max(P)].seq, type |-> a[Max(P)].type]
  BY DEF Replayed
<1>3. P # {} /\ P \in SUBSET Nat /\ \A j \in P : j <= n
  BY <1>1, <1>2 DEF Range
<1> HIDE DEF P
<1>4. Max(P) \in P
  BY <1>1, <1>3, MaxNat
<1>5. PICK m \in DOMAIN a : m = Max(P) /\ a[m].key = k
  BY <1>4 DEF P
<1>6. a[m] \in Range(a)
  BY DEF Range
<1> QED BY <1>2, <1>5, <1>6

\* With no record of the current batch written (Logged = 0), its first number is the counter itself.
LEMMA NothingLogged ==
    ASSUME NEW total \in Nat, NEW logged \in Nat, logged = 0
    PROVE  total - logged = total
  OBVIOUS

\* The process dies and is started again: what it answers for is what it recovers from
\* the log and from the tables.
LEMMA RestartLog ==
    ASSUME Inv, Inv', VInv, VInv', LogInv, CrashRestart
    PROVE  LogInv'
<1>1. /\ UNCHANGED <<log, levelsFile, tables>> /\ walBuf' = <<>> /\ walSyncing' = <<>>
      /\ w' = WriterStart /\ proc = "up"
      /\ disorder' = (disorder \/ \E id \in version'.sstables : Misplaced(id)')
      /\ memtable' = Replayed(log)
      /\ acked' = [k \in Keys |-> SeqOf(Current(k)')] /\ settled' = acked'
      /\ flushed' = [k \in Keys |-> Max({0} \cup SeqsIn(version'.sstables, k))]
  BY DEF CrashRestart, fileVars
<1>2. Range(<<>>) = {} /\ DOMAIN <<>> = {}
  BY DEF Range
<1>3. LogOrder'
  BY <1>1, <1>2 DEF LogInv, LogOrder, Ordered, Before
<1>4. w'.pc = "pop" /\ Logged' = 0 /\ InLog' = Range(log)
  BY <1>1, <1>2 DEF WriterStart, Logged, InLog
<1>5. LogWritten'
  BY <1>1, <1>2, <1>4 DEF LogWritten
<1> SUFFICES ASSUME proc' = "up", ~disorder'
             PROVE  SavedDeleted' /\ AckedLogged'
  BY <1>3, <1>5 DEF LogInv
<1>6. PICK levels : Read(levels)
  BY DEF CrashRestart, Read
<1>7. PICK s \in Versions(Metas) : s = Saved(levels)
  BY <1>1, <1>6, RestartVersion
<1>8. /\ version' = s /\ Orderly(s)
      /\ levels = IF levelsFile = {} THEN EmptyVersion.levels ELSE CHOOSE ls \in levelsFile : TRUE
      /\ 1 <= seq' /\ seq' \in Nat /\ \A r \in Range(log) : r.seq < seq'
  BY <1>1, <1>6, <1>7, RestartVersion, RestartCounters
<1>9. First' = seq' /\ NextSeq' = seq' /\ Acks'
  <2>1. First' = seq' - Logged'
    BY DEF First
  <2>2. NextSeq' = seq' /\ Acks'
    BY <1>4 DEF NextSeq, VInv
  <2>3. seq' \in Nat /\ Logged' = 0
    BY <1>4, <1>8
  <2>4. PICK b \in Nat, a \in Nat : b = seq' /\ a = Logged' /\ a = 0
    BY <2>3
  <2>5. b - a = b
    BY <2>4, NothingLogged
  <2> QED BY <2>1, <2>2, <2>4, <2>5
<1>10. SavedDeleted'
  <2>1. Deleted(version)'
    BY RestartDeletes DEF Tombstones
  <2>2. ASSUME NEW ls \in levelsFile PROVE Deleted(Saved(ls))'
    <3>1. levelsFile = {ls}
      BY DEF Inv, Types, TreeTypes
    <3>2. Saved(ls) = version'
      BY <1>7, <1>8, <3>1
    <3> QED BY <2>1, <3>2 DEF Deleted, Saved
  <2> QED BY <1>1, <2>2 DEF SavedDeleted
<1>11. ASSUME NEW k \in Keys
       PROVE  /\ acked'[k] < seq'
              /\ \/ (acked'[k] <= flushed'[k]) /\ \A r \in Range(log) : r.key # k
                 \/ \E r \in Range(log) : r.key = k /\ r.seq >= acked'[k]
  <2> DEFINE M == EntryOf(memtable', k)
             F == Stored(s, tables, k)
             C == Lookup(s, tables, k, Newest(M))
  <2>1. /\ Mem(k)' = M /\ Filed(k)' = F /\ Current(k)' = C
        /\ InFiles(version'.sstables, k) = F
    BY <1>1, <1>6, <1>7, RestartMemory
  <2>2. M \in SUBSET Entry /\ \A e, g \in M : e = g
    <3>1. memtable' \in Contents
      BY DEF Inv, Types, MemoryTypes
    <3> QED BY <3>1, EntryOfContents DEF EntryOf
  <2>3. \A e \in F : e.seq \in Nat
    BY <1>8, StoredNumbers
  <2>4. /\ \A e \in M \cup F : e.seq < seq'
        /\ \A e \in M, g \in F : NotOlder(e, g)
    BY <1>9, <2>1 DEF VInv, InOrder, Recency, Recent
  <2>5. Answered(C, M, F)
    <3>1. Readable(s, tables)
      BY <1>8 DEF Orderly
    <3>2. \A e \in M \cup Stored(s, tables, k) : e.seq \in Nat
      BY <2>2, <2>3 DEF Entry
    <3>3. M = {} \/ \E e \in M : \A g \in M : NotOlder(e, g)
      BY <2>2 DEF NotOlder
    <3>4. \A e \in M, g \in Stored(s, tables, k) : NotOlder(e, g)
      BY <2>4
    <3> QED BY <3>1, <3>2, <3>3, <3>4, LookupAnswered
  <2>6. acked'[k] = SeqOf(C)
    BY <1>1, <2>1
  <2>7. OneSeq(C)
    <3>1. \A id \in s.sstables : tables[id] \in Contents
      BY <1>1, <1>8 DEF Inv, Types, TreeTypes, Known
    <3> QED BY <2>2, <3>1, LookupOneSeq
  <2>8. flushed'[k] = Max({0} \cup {e.seq : e \in F})
    BY <1>1, <2>1 DEF SeqsIn
  <2> HIDE DEF M, F, C
  <2>9. SeqOf(C) \in Nat /\ (C = {} => SeqOf(C) = 0) /\ \A e \in C : SeqOf(C) = e.seq
    BY <2>7, SeqOfOne
  <2>10. ASSUME NEW x \in M
         PROVE  SeqOf(C) < seq' /\ \E r \in Range(log) : r.key = k /\ r.seq >= SeqOf(C)
    <3>1. C = {x}
      BY <2>2, <2>5, <2>10 DEF Answered
    <3>2. SeqOf(C) = x.seq /\ x.seq < seq' /\ x.seq \in Nat
      BY <2>4, <2>9, <2>10, <3>1
    <3>3. k \in DOMAIN Replayed(log) /\ x = Replayed(log)[k]
      BY <1>1, <2>10 DEF M, EntryOf
    <3>4. log \in Seq(Records)
      BY DEF Inv, Types, LogTypes
    <3>5. PICK r \in Range(log) : r.key = k /\ x = [seq |-> r.seq, type |-> r.type]
      BY <3>3, <3>4, ReplayedRecord
    <3> QED BY <3>2, <3>5
  <2>11. ASSUME M = {}
         PROVE  /\ SeqOf(C) < seq' /\ SeqOf(C) <= flushed'[k]
                /\ \A r \in Range(log) : r.key # k
    <3>1. \A r \in Range(log) : r.key # k
      <4>1. k \notin DOMAIN Replayed(log)
        BY <1>1, <2>11 DEF M, EntryOf
      <4>2. log \in Seq(Records) /\ Ordered(log)
        BY <1>1 DEF Inv, Types, LogTypes, LogInv, LogOrder
      <4> QED BY <4>1, <4>2, ReplayedNewest
    <3>2. C = Newest(F)
      BY <2>5, <2>11 DEF Answered
    <3>3. \A e \in C : e \in F
      BY <3>2 DEF Newest
    <3> DEFINE Z == {0} \cup {e.seq : e \in F}
    <3>4. Z \in SUBSET Nat /\ Z # {} /\ \A n \in Z : n <= seq'
      BY <1>8, <2>3, <2>4
    <3>5. 0 \in Z /\ \A e \in F : e.seq \in Z
      OBVIOUS
    <3>6. flushed'[k] = Max(Z)
      BY <2>8
    <3> HIDE DEF Z
    <3>7. PICK b \in Nat : b = seq'
      BY <1>8
    <3>8. Max(Z) \in Z /\ \A n \in Z : n <= Max(Z)
      BY <3>4, <3>7, MaxNat
    <3>9. CASE C = {}
      BY <1>8, <2>9, <3>1, <3>5, <3>6, <3>8, <3>9
    <3>10. ASSUME NEW e \in C PROVE SeqOf(C) < seq' /\ SeqOf(C) <= flushed'[k]
      BY <2>4, <2>9, <3>3, <3>5, <3>6, <3>8, <3>10
    <3> QED BY <3>1, <3>9, <3>10
  <2> QED BY <2>6, <2>10, <2>11
<1>12. ASSUME NEW k \in Keys
       PROVE  /\ acked'[k] < First' /\ settled'[k] \in Nat /\ settled'[k] < First'
              /\ Recorded(k, acked[k], {r \in InLog : r.seq < First})'
              /\ Recorded(k, settled[k], Range(log))'
  <2>1. /\ acked'[k] < First' /\ settled'[k] = acked'[k] /\ acked'[k] \in Nat
        /\ \A r \in Range(log) : r.seq < First'
    BY <1>1, <1>8, <1>9, <1>11 DEF Acks
  <2>2. /\ Recorded(k, acked[k], {r \in InLog : r.seq < First})'
        /\ Recorded(k, acked[k], Range(log))'
    BY <1>1, <1>4, <1>11, <2>1 DEF Recorded
  <2> QED BY <1>1, <2>1, <2>2
<1>13. \A i \in 1..Logged' : FALSE
  BY <1>4
<1>14. AckedLogged'
  BY <1>12, <1>13 DEF AckedLogged
<1> QED BY <1>10, <1>14

\* A crash before the first hand-over spares what was answered before the last batch.
LEMMA RestartKeepsSettled ==
    ASSUME Inv, Inv', VInv, VInv', SaveInv, LogInv, CrashRestart, linked, MetadataMutexFree,
           ~disorder, NEW k \in Keys
    PROVE  AnswersFrom(Current(k)', Upper(k)', k, settled[k])
<1>1. /\ proc = "up" /\ save.by = "none" /\ memtable' = Replayed(log) /\ UNCHANGED <<tables, log>>
      /\ proc' = IF metaFile = {<<>>} THEN "failed" ELSE "up"
  BY DEF CrashRestart, MetadataMutexFree, fileVars
<1>2. save.step = "none" /\ Acks
  BY <1>1 DEF Inv, TreeInv, Saving, VInv
<1>3. /\ proc' = "up" /\ SavedHold /\ LogDeletes /\ Held(k, flushed[k])
      /\ LogOrder /\ SavedDeleted /\ AckedLogged
  BY <1>1, <1>2 DEF SaveInv, MetaWhole, Marks, LogInv
<1>4. PICK levels : Read(levels)
  BY DEF CrashRestart, Read
<1>5. PICK s \in Versions(Metas) : s = Saved(levels)
  BY <1>3, <1>4, RestartVersion
<1>6. /\ version' = s /\ Orderly(s)
      /\ levels = IF levelsFile = {} THEN EmptyVersion.levels ELSE CHOOSE ls \in levelsFile : TRUE
  BY <1>3, <1>4, <1>5, RestartVersion
<1> DEFINE M == EntryOf(memtable', k)
           F == Stored(s, tables, k)
           T == Found(s, tables, 0, k) \cup Found(s, tables, 1, k)
           C == Lookup(s, tables, k, Newest(M))
<1>7. Current(k)' = C /\ Upper(k)' = M \cup T
  BY <1>3, <1>4, <1>5, RestartMemory
<1>8. PICK d \in Nat, n \in Nat, h \in Nat : d = lastDel[k] /\ n = settled[k] /\ h = flushed[k]
  BY <1>2, <1>3 DEF Acks, Held, AckedLogged
<1>9. M \in SUBSET Entry /\ \A e, g \in M : e = g
  <2>1. memtable' \in Contents
    BY DEF Inv, Types, MemoryTypes
  <2> QED BY <2>1, EntryOfContents DEF EntryOf
<1>10. \A e \in M : e.type = "DELETE" => d >= e.seq
  BY <1>1, <1>3, <1>8 DEF EntryOf, LogDeletes
<1>11. Deleted(s)
  <2>1. CASE levelsFile = {}
    <3>1. s.levels = EmptyVersion.levels
      BY <1>5, <1>6, <2>1 DEF Saved
    <3>2. \A j : Stored(s, tables, j) = {}
      BY <3>1 DEF Stored, Found, EmptyVersion, Range
    <3> QED BY <3>2 DEF Deleted
  <2>2. CASE levelsFile # {}
    BY <1>3, <1>5, <1>6, <2>2 DEF SavedDeleted
  <2> QED BY <2>1, <2>2
<1>12. TreeTypes /\ memtable \in Contents /\ Known(s) /\ VersionUpto(s, counter)
  <2>1. TreeTypes /\ memtable \in Contents
    BY DEF Inv, Types, MemoryTypes
  <2>2. Known(s)
    BY <1>1, <1>6 DEF Inv, Types, TreeTypes, Known
  <2>3. VersionUpto(s, counter)
    <3>1. s.levels = levels /\ s.sstables = IdsOf(levels)
      BY <1>5 DEF Saved
    <3>2. LevelsUpto(levels, counter)
      <4>1. CASE levelsFile = {}
        BY <1>6, <4>1, EmptyKnown
      <4>2. CASE levelsFile # {}
        <5>1. levels \in levelsFile
          BY <1>6, <4>2
        <5> QED BY <1>1, <5>1 DEF Inv, TreeInv, Numbers
      <4> QED BY <4>1, <4>2
    <3> QED BY <3>1, <3>2 DEF VersionUpto, LevelsUpto, IdsOf
  <2> QED BY <2>1, <2>2, <2>3
<1> HIDE DEF M, F, T, C
<1>13. ASSUME NEW r \in Range(log), r.key = k, r.seq >= n
       PROVE  Answers(C, k, n)
  <2>1. log \in Seq(Records) /\ Ordered(log)
    BY <1>1, <1>3 DEF Inv, Types, LogTypes, LogOrder
  <2>2. k \in DOMAIN Replayed(log) /\ Replayed(log)[k].seq >= r.seq
    BY <1>13, <2>1, ReplayedNewest
  <2>3. PICK x \in M : x.seq >= r.seq
    BY <1>1, <2>2 DEF M, EntryOf
  <2>4. x \in Entry /\ x.seq \in Nat /\ r.seq \in Nat
    <3>1. r \in Records
      BY <2>1 DEF Range
    <3> QED BY <1>9, <3>1 DEF Entry, Records
  <2>5. M = {x} /\ x.seq >= n
    BY <1>9, <1>13, <2>3, <2>4
  <2>6. Newest(M) = {x}
    BY <2>4, <2>5 DEF Newest
  <2>7. OneSeq({x}) /\ Reaches({x}, k, n)
    BY <1>8, <1>10, <2>3, <2>4, <2>5 DEF OneSeq, Reaches
  <2>8. lastDel[k] \in Nat
    BY <1>8
  <2>9. /\ Reaches(Lookup(s, tables, k, {x}), k, n)
        /\ Lookup(s, tables, k, {x}) = {} => n = 0
    BY <1>6, <1>11, <1>12, <2>7, <2>8, LookupReaches
  <2>10. C = Lookup(s, tables, k, {x})
    BY <2>6 DEF C
  <2>11. OneSeq(C)
    <3>1. \A id \in s.sstables : tables[id] \in Contents
      BY <1>12 DEF TreeTypes, Known
    <3> QED BY <1>9, <3>1, LookupOneSeq DEF C
  <2>12. /\ SeqOf(C) \in Nat /\ \A e \in C : SeqOf(C) = e.seq
         /\ \A e \in C : e.seq >= n /\ (e.type = "DELETE" => lastDel[k] >= n)
         /\ C = {} => n = 0
    BY <2>9, <2>10, <2>11, SeqOfOne DEF Reaches
  <2>13. CASE Visible(C) = {}
    <3>1. \A e \in C : e.type # "PUT"
      BY <2>13 DEF Visible
    <3>2. n = 0 \/ lastDel[k] >= n
      BY <2>11, <2>12, <3>1 DEF OneSeq, Entry
    <3> QED BY <2>13, <3>2 DEF Answers
  <2>14. CASE Visible(C) # {}
    <3>1. PICK e \in C : TRUE
      BY <2>14 DEF Visible
    <3>2. SeqOf(C) >= n
      BY <2>12, <3>1
    <3> QED BY <2>14, <3>2 DEF Answers
  <2> QED BY <2>13, <2>14
<1>14. ASSUME n <= h, M = {}
       PROVE  AnswersFrom(C, M \cup T, k, n)
  <2>1. F \in SUBSET Entry /\ \A e, g \in F : e.seq = g.seq => e = g
    <3>1. \A e, g \in F : e.seq = g.seq => e = g
      BY <1>6 DEF Orderly, OneEach, F
    <3>2. ASSUME NEW e \in F PROVE e \in Entry
      <4>1. PICK l \in Levels : \E m \in Range(s.levels[l]) : k \in DOMAIN tables[m.id] /\ e = tables[m.id][k]
        BY <3>2, FoundFiles DEF F
      <4>2. PICK m \in Range(s.levels[l]) : k \in DOMAIN tables[m.id] /\ e = tables[m.id][k]
        BY <4>1
      <4>3. m.id \in s.sstables
        BY <1>6, <4>2 DEF Orderly, Readable
      <4>4. tables[m.id] \in Contents
        BY <1>12, <4>3 DEF TreeTypes, Known
      <4> QED BY <4>2, <4>4, ContentsTable DEF IsTable
    <3> QED BY <3>1, <3>2
  <2>2. Covers({}, {}, T, F, d, h)
    <3>1. CASE levelsFile = {}
      <4>1. h = 0
        BY <1>1, <1>3, <1>8, <3>1 DEF SavedHold
      <4> QED BY <4>1 DEF Covers
    <3>2. CASE levelsFile # {}
      <4>1. levels \in levelsFile
        BY <1>6, <3>2
      <4>2. FiledIn(Saved(levels), k, lastDel[k], flushed[k])
        BY <1>1, <1>3, <4>1 DEF SavedHold
      <4> QED BY <1>5, <1>8, <4>2 DEF FiledIn, T, F
    <3> QED BY <3>1, <3>2
  <2>3. Covers({}, {}, T, F, d, n)
    BY <1>14, <2>1, <2>2, CoversLess
  <2>4. Answered(C, {}, F)
    <3>1. Newest({}) = {}
      BY DEF Newest
    <3>2. Readable(s, tables)
      BY <1>6 DEF Orderly
    <3>3. C = Newest(F)
      BY <1>14, <3>1, <3>2, LookupStored DEF C, F
    <3> QED BY <3>3 DEF Answered
  <2>5. lastDel[k] \in Nat /\ Covers({}, {}, T, F, lastDel[k], n)
    BY <1>8, <2>3
  <2>6. T = {} => M \cup T = {}
    BY <1>14
  <2> QED BY <2>1, <2>4, <2>5, <2>6, CoveredAnswers
<1>15. Recorded(k, n, Range(log))
  BY <1>3, <1>8 DEF AckedLogged
<1>16. CASE \E r \in Range(log) : r.key = k /\ r.seq >= n
  BY <1>7, <1>8, <1>13, <1>16 DEF AnswersFrom
<1>17. CASE n <= h /\ \A r \in InLog : r.key = k => r.seq >= n
  <2>1. CASE \E r \in Range(log) : r.key = k
    BY <1>16, <1>17, <2>1 DEF InLog
  <2>2. CASE ~ \E r \in Range(log) : r.key = k
    <3>1. M = {}
      BY <1>1, <2>2 DEF M, EntryOf, Replayed
    <3> QED BY <1>7, <1>8, <1>14, <1>17, <3>1
  <2> QED BY <2>1, <2>2
<1> QED BY <1>8, <1>15, <1>16, <1>17 DEF Recorded

-----------------------------------------------------------------------------
(* The theorems about what the log holds.                                  *)

\* Until checkFlush removes log.bin, every answered write is in the log or in a table of
\* levels.txt, in the order of the writes, and what was answered before the last batch
\* is in log.bin itself: a flush() in the writer thread leaves nothing older behind in
\* the buffers, whoever else calls flush() (WAL::append, WAL::flush, syncThreadLoop,
\* writerThreadLoop, recover).
THEOREM LogInvCorrect == Spec => []LogInv
<1>1. Inv /\ Inv' /\ VInv /\ VInv' /\ SaveInv /\ LogInv /\ [Next]_vars => LogInv'
  <2> SUFFICES ASSUME Inv, Inv', VInv, VInv', SaveInv, LogInv, [Next]_vars PROVE LogInv'
    OBVIOUS
  <2>1. CASE WalSwap \/ WalPublish
    BY <2>1, FlushLog
  <2>2. CASE WriterPop \/ WriterStep
    BY <2>2, WriterQuietLog, WriterLogLog, FlushLog, WriterAckLog DEF WriterStep
  <2>3. CASE CompactThrow
    BY <2>3 DEF CompactThrow, LogInv
  <2>4. CASE \E t \in Flushers : FlushCall(t)
    <3>1. Flushers \subseteq Callers
      BY DEF Callers
    <3> QED BY <2>3, <2>4, <3>1, IdleLog
  <2>5. CASE \E t \in Callers : CheckFlush(t)
    BY <2>3, <2>5, FlushLog, RemoveLog, IdleLog DEF CheckFlush
  <2>6. CASE SaveMetadata
    BY <2>3, <2>6, SaveLevelsLog, IdleLog DEF SaveMetadata
  <2>7. CASE FlushThread \/ CompactionThread \/ UNCHANGED vars
    BY <2>3, <2>7, IdleLog
  <2>8. CASE \/ \E r \in Readers, k \in Keys : GetBegin(r, k)
             \/ \E r \in Readers : Get(r)
    BY <2>3, <2>8, IdleLog
  <2>9. CASE CrashRestart
    BY <2>9, RestartLog
  <2> QED BY <2>1, <2>2, <2>4, <2>5, <2>6, <2>7, <2>8, <2>9 DEF Next
<1> QED BY <1>1, InitLog, InvCorrect, VInvCorrect, SaveInvCorrect, PTL DEF Spec

\* Before the first hand-over of a process, a crash spares every write that was
\* answered before the last answered batch: the constructor finds it or a newer one
\* in the log or in the tables of levels.txt, or the key has been deleted since
\* (writerThreadLoop, WAL::flush, loadLevelMetadata, recover).
THEOREM SettledSurviveCorrect == Spec => SettledSurvive
<1>1. Inv /\ Inv' /\ VInv /\ VInv' /\ SaveInv /\ LogInv =>
          [CrashRestart /\ linked /\ MetadataMutexFree /\ ~disorder =>
               \A k \in Keys : AnswersFrom(Current(k)', Upper(k)', k, settled[k])]_vars
  BY RestartKeepsSettled
<1> QED BY <1>1, InvCorrect, VInvCorrect, SaveInvCorrect, LogInvCorrect, PTL DEF SettledSurvive

=============================================================================
