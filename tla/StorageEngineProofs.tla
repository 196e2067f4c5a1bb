------------------------ MODULE StorageEngineProofs ------------------------
(* Theorems about StorageEngine, for any keys, threads, limits and bounds.  *)
EXTENDS StorageEngine, TablesProofs

Metas == [id : Nat, level : Levels, minKey : Keys, maxKey : Keys, size : Nat]

Records == [key : Keys, seq : Nat, type : {"PUT", "DELETE"}]

\* The contents a memtable or a file can have.
Contents == UNION {[D -> Entry] : D \in SUBSET Keys}

-----------------------------------------------------------------------------
(* The types, grouped by the steps that change them.                       *)

CallerRecord == [pc : {"idle", "wal", "lock", "toSleep", "asleep", "clear", "store",
                       "notify", "remove"}, snap : Contents]

WriterRecord == [pc : {"pop", "apply", "log", "invalidate", "flush", "checkFlush", "ack"},
                 batch : Seq(Requests), pos : Nat]

FlushRecord == [pc : {"test", "asleep", "build", "copy", "install", "save", "saving",
                      "cache", "null", "notify"},
                table : Contents, id : Nat, version : Versions(Metas)]

CompactRecord == [pc : {"test", "toSleep", "asleep", "level", "build", "copy", "install",
                        "save", "saving", "remove", "cache"},
                  level : Levels, ids : SUBSET Nat, table : Contents, id : Nat,
                  version : Versions(Metas)]

SaveRecord == [by : {"none", "flush", "compact"},
               step : {"none", "meta", "truncate", "levels"},
               levels : [Levels -> Seq(Metas)]]

MemoryTypes ==
    /\ memtable \in Contents
    /\ immutable \in SUBSET Contents /\ \A t \in immutable : immutable = {t}
    /\ cf \in [Callers -> CallerRecord]
    /\ {pending, needed, linked, lostUpdate, lostWrite, disorder} \subseteq BOOLEAN
    /\ {gets, flushes, crashes} \subseteq Nat

\* The log holds writes that have been numbered.
LogTypes ==
    /\ seq \in Nat
    /\ {log, walBuf, walSyncing} \subseteq Seq(Records)
    /\ \A r \in Range(log) \cup Range(walBuf) \cup Range(walSyncing) : r.seq < seq

WriterTypes ==
    /\ w \in WriterRecord
    /\ w.pc \in {"apply", "log", "invalidate"} => w.pos \in 1..Len(w.batch)

\* A version whose files are known.
Known(v) == v \in Versions(Metas) /\ v.sstables \subseteq DOMAIN tables

TreeTypes ==
    /\ counter \in Nat
    /\ \A id \in DOMAIN tables : id \in Nat /\ tables[id] \in Contents
    /\ files \subseteq DOMAIN tables
    /\ Known(version) /\ Known(f.version) /\ Known(c.version)
    /\ f \in FlushRecord
    /\ f.pc \in {"build", "copy"} => f.table # EmptyTable
    /\ c \in CompactRecord
    /\ c.pc \in {"build", "copy", "install", "save", "saving", "remove", "cache"} => c.level < 3
    /\ c.pc \in {"build", "copy"} => c.table # EmptyTable
    /\ save \in SaveRecord
    /\ \A m \in metaFile : metaFile = {m} /\ (m = <<>> \/ m \in Nat \X Nat)
    /\ \A ls \in levelsFile : levelsFile = {ls} /\ ls \in [Levels -> Seq(Metas)]

Node == [key : Nat, entry : Entry]

\* A reader as get() leaves it between two steps.
ReaderOk(x) ==
    /\ x \in [pc : {"idle", "mem", "imm", "version", "search", "fill", "done", "threw"},
              key : Nat, cand : SUBSET Entry, version : Versions(Metas),
              floor : {x.floor}, gap : BOOLEAN, overlap : BOOLEAN]
    /\ Known(x.version)
    /\ x.pc = "fill" => CacheSize > 0

ReaderTypes ==
    /\ cache \in Seq(Node) /\ Len(cache) <= CacheSize
    /\ rd = [r \in Readers |-> rd[r]]
    /\ \A r \in Readers : ReaderOk(rd[r])

Types ==
    /\ proc \in {"up", "failed"}
    /\ MemoryTypes /\ LogTypes /\ WriterTypes /\ TreeTypes /\ ReaderTypes

-----------------------------------------------------------------------------
(* Flush thread, compaction thread and saveMetadata.                       *)

LevelsUpto(levels, n) == \A l \in Levels : \A m \in Range(levels[l]) : m.id <= n

VersionUpto(v, n) == LevelsUpto(v.levels, n) /\ \A id \in v.sstables : id <= n

\* flush_counter_ is not behind the number of any file in use, in memory or in
\* levels.txt, and neither is its value in metadata.txt.
Numbers ==
    /\ VersionUpto(version, counter) /\ VersionUpto(f.version, counter)
    /\ VersionUpto(c.version, counter) /\ LevelsUpto(save.levels, counter)
    /\ f.id <= counter /\ c.id <= counter /\ \A id \in c.ids : id <= counter
    /\ \A ls \in levelsFile : LevelsUpto(ls, counter)
    /\ \A m \in metaFile \ {<<>>} :
           /\ \A ls \in levelsFile : LevelsUpto(ls, m[1])
           /\ save.step \in {"truncate", "levels"} => LevelsUpto(save.levels, m[1])

\* The file that the flush thread has written is in no version yet, and is not
\* one that the compaction thread works on.
Fresh ==
    /\ f.pc \in {"copy", "install"} =>
           /\ f.id \notin version.sstables \cup c.ids \cup c.version.sstables
           /\ c.pc = "copy" => c.id # f.id
    /\ c.pc = "copy" => c.id \notin c.ids

\* The files of each version that is or will be current exist, and the
\* compaction thread will not remove them.
Kept ==
    /\ version.sstables \subseteq files
    /\ f.pc = "install" => f.version.sstables \subseteq files
    /\ c.pc = "install" => c.version.sstables \subseteq files \ c.ids
    /\ c.pc \in {"save", "saving", "remove"} =>
           /\ version.sstables \cap c.ids = {}
           /\ f.pc = "install" => f.version.sstables \cap c.ids = {}

\* Who is in saveMetadata, and that a save which is not the last takes along
\* what another thread has installed.
Saving ==
    /\ save.by = "flush" <=> f.pc = "saving"
    /\ save.by = "compact" <=> c.pc = "saving"
    /\ save.by = "none" <=> save.step = "none"
    /\ levelsFile # {} \/ save.by # "none" => metaFile # {}
    /\ f.pc # "save" /\ c.pc # "save" =>
           IF save.by # "none" THEN save.levels = version.levels
           ELSE version.levels = IF levelsFile = {} THEN EmptyVersion.levels
                                 ELSE CHOOSE ls \in levelsFile : TRUE

Written ==
    /\ f.pc = "copy" => f.id \in files
    /\ c.pc = "copy" => c.id \in files

TreeInv == Numbers /\ Fresh /\ Written /\ (~lostUpdate => Kept) /\ Saving

Inv == Types /\ (proc = "up" => TreeInv)

-----------------------------------------------------------------------------
(* The operators of the model.                                             *)

\* What a memtable or a file can hold, as a table.
LEMMA ContentsTable ==
    ASSUME NEW t
    PROVE  t \in Contents <=> IsTable(t, Keys)
<1>1. ASSUME IsTable(t, Keys) PROVE t \in Contents
  BY <1>1 DEF IsTable, Contents
<1>2. ASSUME t \in Contents PROVE IsTable(t, Keys)
  BY <1>2 DEF IsTable, Contents
<1> QED BY <1>1, <1>2

\* MemTable::clear
LEMMA EmptyContents == EmptyTable \in Contents
BY EmptyIsTable, ContentsTable

\* A version without files.
LEMMA EmptyKnown ==
    /\ EmptyVersion \in Versions(Metas) /\ EmptyVersion.sstables = {}
    /\ EmptyVersion.levels \in [Levels -> Seq(Metas)]
    /\ \A n : LevelsUpto(EmptyVersion.levels, n) /\ VersionUpto(EmptyVersion, n)
<1>1. EmptyVersion.levels \in [Levels -> Seq(Metas)] /\ EmptyVersion.sstables = {}
  BY DEF EmptyVersion
<1>2. EmptyVersion \in Versions(Metas)
  BY <1>1 DEF EmptyVersion, Versions
<1>3. \A n : LevelsUpto(EmptyVersion.levels, n) /\ VersionUpto(EmptyVersion, n)
  BY <1>1 DEF EmptyVersion, LevelsUpto, VersionUpto, Range
<1> QED BY <1>1, <1>2, <1>3

\* MemTable::put and del
LEMMA PutContents ==
    ASSUME NEW t \in Contents, NEW k \in Keys, NEW e \in Entry
    PROVE  PutEntry(t, k, e) \in Contents
<1>1. IsTable(t, Keys)
  BY ContentsTable
<1>2. IsTable(PutEntry(t, k, e), Keys)
  BY <1>1 DEF PutEntry, With, IsTable
<1> QED BY <1>2, ContentsTable

\* A table for which SSTable::flush has metadata.
LEMMA MetaKnown ==
    ASSUME NEW id \in Nat, NEW l \in Levels, NEW t \in Contents, t # EmptyTable
    PROVE  LET m == MetaOf(id, l, t)
           IN  m \in Metas /\ m.id = id /\ m.level = l
<1> DEFINE m == MetaOf(id, l, t)
<1>1. Keys \in SUBSET Nat /\ IsFiniteSet(Keys)
  BY EngineAssumption
<1>2. IsTable(t, Keys) /\ DOMAIN t # {}
  BY ContentsTable, NotEmptyTable
<1>3. /\ m = [id |-> id, level |-> l, minKey |-> m.minKey,
              maxKey |-> m.maxKey, size |-> m.size]
      /\ m.minKey \in DOMAIN t /\ m.maxKey \in DOMAIN t /\ m.size \in Nat
  BY <1>1, <1>2, MetaOfTable
<1> HIDE DEF m
<1>4. m.minKey \in Keys /\ m.maxKey \in Keys
  BY <1>2, <1>3 DEF IsTable
<1>5. [id |-> id, level |-> l, minKey |-> m.minKey,
       maxKey |-> m.maxKey, size |-> m.size] \in Metas
  BY <1>3, <1>4 DEF Metas
<1>6. m \in Metas /\ m.id = id /\ m.level = l
  BY <1>3, <1>5
<1> QED BY <1>6 DEF m

\* addSSTable of a file numbered id.
LEMMA AddKnown ==
    ASSUME NEW v \in Versions(Metas), NEW n \in Nat, VersionUpto(v, n),
           NEW meta \in Metas, meta.id <= n
    PROVE  /\ AddSSTable(v, meta) \in Versions(Metas)
           /\ AddSSTable(v, meta).sstables = v.sstables \cup {meta.id}
           /\ VersionUpto(AddSSTable(v, meta), n)
<1> DEFINE a == AddSSTable(v, meta)
<1>1. meta.level \in Levels /\ meta.id \in Nat
  BY DEF Metas
<1>2. Added(Metas, v, meta, a)
  BY <1>1, AddSSTableLevels
<1> HIDE DEF a
<1>3. a \in Versions(Metas) /\ a.sstables = v.sstables \cup {meta.id}
  BY <1>2 DEF Added
<1>4. ASSUME NEW l \in Levels, NEW m \in Range(a.levels[l])
      PROVE  m.id <= n
  <2>1. v.levels[l] \in Seq(Metas)
    BY DEF Versions
  <2>2. CASE l = meta.level
    <3>1. a.levels[l] = Append(v.levels[l], meta)
      BY <1>2, <2>2 DEF Added
    <3>2. m \in Range(v.levels[l]) \cup {meta}
      BY <1>4, <2>1, <3>1, AppendRange
    <3> QED BY <3>2 DEF VersionUpto, LevelsUpto
  <2>3. CASE l # meta.level
    BY <1>2, <1>4, <2>3 DEF Added, VersionUpto, LevelsUpto
  <2> QED BY <2>2, <2>3
<1>5. VersionUpto(a, n)
  BY <1>1, <1>3, <1>4 DEF VersionUpto, LevelsUpto
<1> QED BY <1>3, <1>5 DEF a

\* removeSSTablesByIds and addSSTable of a compaction.
LEMMA CompactedKnown ==
    ASSUME NEW v \in Versions(Metas), NEW n \in Nat, VersionUpto(v, n),
           NEW ids, NEW meta \in Metas, meta.id <= n
    PROVE  /\ CompactedVersion(v, ids, meta) \in Versions(Metas)
           /\ CompactedVersion(v, ids, meta).sstables = (v.sstables \ ids) \cup {meta.id}
           /\ VersionUpto(CompactedVersion(v, ids, meta), n)
<1> DEFINE a == CompactedVersion(v, ids, meta)
<1>1. meta.level \in Levels /\ meta.id \in Nat /\ \A m \in Metas : m.minKey \in Nat
  BY EngineAssumption DEF Metas
<1>2. Compacted(Metas, v, ids, meta, a)
  BY <1>1, CompactedLevels
<1> HIDE DEF a
<1>3. a \in Versions(Metas) /\ a.sstables = (v.sstables \ ids) \cup {meta.id}
  BY <1>2 DEF Compacted
<1>4. ASSUME NEW l \in Levels, NEW m \in Range(a.levels[l])
      PROVE  m.id <= n
  <2>1. m \in Range(v.levels[l]) \/ m = meta
    BY <1>2, <1>4 DEF Compacted
  <2> QED BY <2>1 DEF VersionUpto, LevelsUpto
<1>5. VersionUpto(a, n)
  BY <1>1, <1>3, <1>4 DEF VersionUpto, LevelsUpto
<1> QED BY <1>3, <1>5 DEF a

\* The entries that get() can find are entries of known files.
LEMMA LookupEntries ==
    ASSUME TreeTypes, NEW v, Known(v), NEW k, NEW cand \in SUBSET Entry
    PROVE  /\ Lookup(v, tables, k, cand) \in SUBSET Entry
           /\ FilesRead(v, tables, k, cand) \subseteq v.sstables
<1>1. \A l : \A m \in FilesFor(v, l, k) : m.id \in v.sstables
  BY DEF FilesFor
<1>2. \A l : Hits(v, tables, l, k) \subseteq Entry
  <2> SUFFICES ASSUME NEW l, NEW m \in FilesFor(v, l, k)
               PROVE  EntryOf(tables[m.id], k) \subseteq Entry
    BY DEF Hits
  <2>1. tables[m.id] \in Contents
    BY <1>1 DEF TreeTypes, Known
  <2>2. IsTable(tables[m.id], Keys)
    BY <2>1, ContentsTable
  <2> QED BY <2>2 DEF EntryOf, IsTable
<1>3. Lookup(v, tables, k, cand) \in SUBSET Entry
  BY <1>2 DEF Lookup, Newest
<1>4. FilesRead(v, tables, k, cand) \subseteq v.sstables
  BY <1>1 DEF FilesRead
<1> QED BY <1>3, <1>4

\* MemTable::get
LEMMA EntryOfContents ==
    ASSUME NEW t \in Contents, NEW k
    PROVE  EntryOf(t, k) \in SUBSET Entry
<1>1. IsTable(t, Keys)
  BY ContentsTable
<1> QED BY <1>1 DEF EntryOf, IsTable

\* LRUCache: what is left without a key.
LEMMA CacheWithoutLength ==
    ASSUME NEW s \in Seq(Node), NEW k
    PROVE  /\ CacheWithout(s, k) \in Seq(Node) /\ Len(CacheWithout(s, k)) <= Len(s)
           /\ CachedIn(s, k) # {} => Len(CacheWithout(s, k)) = Len(s) - 1
<1> DEFINE at == {i \in DOMAIN s : s[i].key = k}
           i == CHOOSE j \in at : TRUE
<1>1. CASE at = {}
  <2>1. CacheWithout(s, k) = s
    BY <1>1 DEF CacheWithout
  <2>2. CachedIn(s, k) = {}
    BY <1>1 DEF CachedIn
  <2> QED BY <2>1, <2>2
<1>2. CASE at # {}
  <2>1. i \in at
    BY <1>2
  <2>2. i \in 1..Len(s) /\ Len(s) \in Nat
    BY <2>1
  <2>3. CacheWithout(s, k) = SubSeq(s, 1, i - 1) \o SubSeq(s, i + 1, Len(s))
    BY <1>2 DEF CacheWithout
  <2> HIDE DEF i, at
  <2>4. /\ SubSeq(s, 1, i - 1) \in Seq(Node) /\ Len(SubSeq(s, 1, i - 1)) = i - 1
        /\ SubSeq(s, i + 1, Len(s)) \in Seq(Node)
        /\ Len(SubSeq(s, i + 1, Len(s))) = Len(s) - i
    BY <2>2
  <2> DEFINE p == SubSeq(s, 1, i - 1)
             q == SubSeq(s, i + 1, Len(s))
  <2>5. p \in Seq(Node) /\ q \in Seq(Node) /\ Len(p) = i - 1 /\ Len(q) = Len(s) - i
    BY <2>4
  <2> HIDE DEF p, q
  <2>6. p \o q \in Seq(Node) /\ Len(p \o q) = Len(p) + Len(q)
    BY <2>5
  <2>7. Len(p \o q) = Len(s) - 1
    BY <2>2, <2>5, <2>6
  <2>8. CacheWithout(s, k) = p \o q
    BY <2>3 DEF p, q
  <2> QED BY <2>2, <2>6, <2>7, <2>8
<1> QED BY <1>1, <1>2

\* LRUCache: get, put, invalidate and clear keep to the capacity.
LEMMA CacheLength ==
    ASSUME NEW s \in Seq(Node), Len(s) <= CacheSize, NEW k \in Nat
    PROVE  /\ CacheTouch(s, k) \in Seq(Node) /\ Len(CacheTouch(s, k)) <= CacheSize
           /\ CacheInvalidate(s, k) \in Seq(Node) /\ Len(CacheInvalidate(s, k)) <= CacheSize
           /\ \A e \in Entry : CacheSize > 0 =>
                  /\ CachePut(s, k, e, CacheSize) \in Seq(Node)
                  /\ Len(CachePut(s, k, e, CacheSize)) <= CacheSize
           /\ CachedIn(s, k) \in SUBSET Entry
<1>1. CacheSize \in Nat /\ Len(s) \in Nat
  BY EngineAssumption
<1>2. CachedIn(s, k) \in SUBSET Entry
  <2>1. \A i \in DOMAIN s : s[i] \in Node
    OBVIOUS
  <2>2. \A n \in Node : n.entry \in Entry
    BY DEF Node
  <2> QED BY <2>1, <2>2 DEF CachedIn
<1>3. ASSUME NEW q \in Seq(Node), NEW e \in Entry
      PROVE  /\ CacheFront(q, k, e) \in Seq(Node)
             /\ Len(CacheFront(q, k, e)) = Len(CacheWithout(q, k)) + 1
  <2>1. CacheWithout(q, k) \in Seq(Node)
    BY <1>3, CacheWithoutLength
  <2>2. <<[key |-> k, entry |-> e]>> \in Seq(Node)
    BY DEF Node
  <2> QED BY <2>1, <2>2 DEF CacheFront
<1>4. CacheInvalidate(s, k) \in Seq(Node) /\ Len(CacheInvalidate(s, k)) <= CacheSize
  <2>1. /\ CacheWithout(s, k) \in Seq(Node) /\ Len(CacheWithout(s, k)) <= Len(s)
        /\ Len(CacheWithout(s, k)) \in Nat
    BY CacheWithoutLength
  <2> QED BY <1>1, <2>1 DEF CacheInvalidate
<1>5. CacheTouch(s, k) \in Seq(Node) /\ Len(CacheTouch(s, k)) <= CacheSize
  <2>1. CASE CachedIn(s, k) = {}
    BY <2>1 DEF CacheTouch
  <2>2. CASE CachedIn(s, k) # {}
    <3> DEFINE e == CHOOSE x \in CachedIn(s, k) : TRUE
    <3>1. e \in Entry
      BY <1>2, <2>2
    <3>2. CacheTouch(s, k) = CacheFront(s, k, e)
      BY <2>2 DEF CacheTouch
    <3> HIDE DEF e
    <3>3. Len(CacheWithout(s, k)) = Len(s) - 1
      BY <2>2, CacheWithoutLength
    <3> QED BY <1>1, <1>3, <3>1, <3>2, <3>3
  <2> QED BY <2>1, <2>2
<1>6. ASSUME NEW e \in Entry, CacheSize > 0
      PROVE  /\ CachePut(s, k, e, CacheSize) \in Seq(Node)
             /\ Len(CachePut(s, k, e, CacheSize)) <= CacheSize
  <2>1. CASE CachedIn(s, k) = {} /\ Len(s) >= CacheSize
    <3> DEFINE q == SubSeq(s, 1, Len(s) - 1)
    <3>1. q \in Seq(Node) /\ Len(q) = Len(s) - 1
      <4>1. PICK n \in 1..Len(s) : n = Len(s)
        BY <1>1, <1>6, <2>1
      <4>2. SubSeq(s, 1, n - 1) \in Seq(Node) /\ Len(SubSeq(s, 1, n - 1)) = n - 1
        BY <1>1
      <4> QED BY <4>1, <4>2
    <3>2. CachePut(s, k, e, CacheSize) = CacheFront(q, k, e)
      BY <2>1 DEF CachePut
    <3> HIDE DEF q
    <3>3. Len(CacheWithout(q, k)) <= Len(q) /\ Len(CacheWithout(q, k)) \in Nat
      BY <3>1, CacheWithoutLength
    <3> QED BY <1>1, <1>3, <1>6, <3>1, <3>2, <3>3
  <2>2. CASE CachedIn(s, k) # {}
    <3>1. CachePut(s, k, e, CacheSize) = CacheFront(s, k, e)
      BY <2>2 DEF CachePut
    <3>2. Len(CacheWithout(s, k)) = Len(s) - 1
      BY <2>2, CacheWithoutLength
    <3> QED BY <1>1, <1>3, <1>6, <3>1, <3>2
  <2>3. CASE CachedIn(s, k) = {} /\ Len(s) < CacheSize
    <3>1. CachePut(s, k, e, CacheSize) = CacheFront(s, k, e)
      BY <1>1, <2>3 DEF CachePut
    <3>2. Len(CacheWithout(s, k)) <= Len(s) /\ Len(CacheWithout(s, k)) \in Nat
      BY CacheWithoutLength
    <3> QED BY <1>1, <1>3, <1>6, <2>3, <3>1, <3>2
  <2> QED BY <1>1, <2>1, <2>2, <2>3
<1> QED BY <1>2, <1>4, <1>5, <1>6

-----------------------------------------------------------------------------
(* Steps that leave the tree alone: the log, the writer, checkFlush, get(). *)

treeState == <<counter, tables, files, version, f, c, save, metaFile, levelsFile>>
memoryState == <<memtable, immutable, cf, pending, needed, linked, lostUpdate,
                 lostWrite, disorder, gets, flushes, crashes>>
logState == <<seq, log, walBuf, walSyncing>>
readState == <<cache, rd>>

\* A step that touches no file, version or thread of the tree keeps their types.
LEMMA TreeSame ==
    ASSUME TreeTypes, UNCHANGED treeState
    PROVE  TreeTypes'
BY DEF TreeTypes, treeState, Known

\* So does one that touches neither memtable nor checkFlush.
LEMMA MemorySame ==
    ASSUME MemoryTypes, UNCHANGED memoryState
    PROVE  MemoryTypes'
BY DEF MemoryTypes, memoryState

\* The same of the log and its two buffers ...
LEMMA LogSame ==
    ASSUME LogTypes, UNCHANGED logState
    PROVE  LogTypes'
BY DEF LogTypes, logState

\* ... of the batch that the writer thread is at ...
LEMMA WriterSame ==
    ASSUME WriterTypes, UNCHANGED w
    PROVE  WriterTypes'
BY DEF WriterTypes

\* ... and of cache and readers, as long as no file is forgotten.
LEMMA ReadSame ==
    ASSUME ReaderTypes, UNCHANGED readState, DOMAIN tables \subseteq DOMAIN tables'
    PROVE  ReaderTypes'
BY DEF ReaderTypes, ReaderOk, readState, Known

\* Nor does it disturb what the threads of the tree owe to one another.
LEMMA TreeInvSame ==
    ASSUME TreeInv, UNCHANGED <<treeState, lostUpdate>>
    PROVE  TreeInv'
<1> USE DEF treeState
<1>1. Numbers'
  BY DEF TreeInv, Numbers
<1>2. Fresh' /\ Written'
  BY DEF TreeInv, Fresh, Written
<1>3. ~lostUpdate' => Kept'
  BY DEF TreeInv, Kept
<1>4. Saving'
  BY DEF TreeInv, Saving
<1> QED BY <1>1, <1>2, <1>3, <1>4 DEF TreeInv

\* A step outside flush thread, compaction thread and saveMetadata.
LEMMA QuietStep ==
    ASSUME Inv, UNCHANGED <<treeState, lostUpdate, proc>>,
           MemoryTypes', LogTypes', WriterTypes', ReaderTypes'
    PROVE  Inv'
<1>1. TreeTypes' /\ (proc' = "up" => TreeInv') /\ proc' \in {"up", "failed"}
  BY TreeSame, TreeInvSame DEF Inv, Types
<1> QED BY <1>1 DEF Inv, Types

\* The records of one part of the log behind another.
LEMMA RangeOfConcat ==
    ASSUME NEW S, NEW s \in Seq(S), NEW t \in Seq(S)
    PROVE  s \o t \in Seq(S) /\ Range(s \o t) = Range(s) \cup Range(t)
<1>1. s \o t \in Seq(S) /\ Len(s \o t) = Len(s) + Len(t)
  OBVIOUS
<1>2. DOMAIN s = 1..Len(s) /\ DOMAIN t = 1..Len(t) /\ DOMAIN (s \o t) = 1..(Len(s) + Len(t))
  BY <1>1
<1>3. \A i \in 1..(Len(s) + Len(t)) :
          (s \o t)[i] = IF i <= Len(s) THEN s[i] ELSE t[i - Len(s)]
  OBVIOUS
<1>4. Len(s) \in Nat /\ Len(t) \in Nat
  OBVIOUS
<1>5. ASSUME NEW x \in Range(s \o t) PROVE x \in Range(s) \cup Range(t)
  <2>1. PICK i \in 1..(Len(s) + Len(t)) : x = (s \o t)[i]
    BY <1>2, <1>5 DEF Range
  <2>2. CASE i <= Len(s)
    BY <1>2, <1>3, <1>4, <2>1, <2>2 DEF Range
  <2>3. CASE ~(i <= Len(s))
    <3>1. i - Len(s) \in 1..Len(t)
      BY <1>4, <2>3
    <3> QED BY <1>2, <1>3, <2>1, <2>3, <3>1 DEF Range
  <2> QED BY <2>2, <2>3
<1>6. ASSUME NEW x \in Range(s) PROVE x \in Range(s \o t)
  <2>1. PICK i \in 1..Len(s) : x = s[i]
    BY <1>2, <1>6 DEF Range
  <2>2. i \in 1..(Len(s) + Len(t)) /\ (s \o t)[i] = x
    BY <1>3, <1>4, <2>1
  <2> QED BY <1>2, <2>2 DEF Range
<1>7. ASSUME NEW x \in Range(t) PROVE x \in Range(s \o t)
  <2>1. PICK i \in 1..Len(t) : x = t[i]
    BY <1>2, <1>7 DEF Range
  <2>2. PICK j \in 1..(Len(s) + Len(t)) : j = Len(s) + i /\ ~(j <= Len(s))
    BY <1>4
  <2>3. j - Len(s) = i
    BY <1>4, <2>2
  <2>4. (s \o t)[j] = x
    BY <1>3, <2>1, <2>2, <2>3
  <2> QED BY <1>2, <2>2, <2>4 DEF Range
<1> QED BY <1>1, <1>5, <1>6, <1>7

\* A part of the log that is written or dropped leaves only records behind that
\* were there.
LEMMA LogMoves ==
    ASSUME LogTypes, seq' = seq,
           log' \in {log, log \o walSyncing, log \o walSyncing \o walBuf, <<>>},
           walBuf' \in {walBuf, <<>>}, walSyncing' \in {walSyncing, walBuf, <<>>}
    PROVE  LogTypes'
<1>1. log \in Seq(Records) /\ walBuf \in Seq(Records) /\ walSyncing \in Seq(Records)
  BY DEF LogTypes
<1>2. <<>> \in Seq(Records) /\ Range(<<>>) = {}
  BY DEF Range
<1>3. /\ log \o walSyncing \in Seq(Records)
      /\ Range(log \o walSyncing) = Range(log) \cup Range(walSyncing)
  BY <1>1, RangeOfConcat
<1>4. /\ log \o walSyncing \o walBuf \in Seq(Records)
      /\ Range(log \o walSyncing \o walBuf)
             = Range(log \o walSyncing) \cup Range(walBuf)
  <2> DEFINE s == log \o walSyncing
  <2>1. s \in Seq(Records)
    BY <1>3
  <2> HIDE DEF s
  <2>2. s \o walBuf \in Seq(Records) /\ Range(s \o walBuf) = Range(s) \cup Range(walBuf)
    BY <1>1, <2>1, RangeOfConcat
  <2> QED BY <2>2 DEF s
<1> DEFINE all == Range(log) \cup Range(walBuf) \cup Range(walSyncing)
<1>5. log' \in Seq(Records) /\ Range(log') \subseteq all
  BY <1>1, <1>2, <1>3, <1>4
<1>6. walBuf' \in Seq(Records) /\ Range(walBuf') \subseteq all
  BY <1>1, <1>2
<1>7. walSyncing' \in Seq(Records) /\ Range(walSyncing') \subseteq all
  BY <1>1, <1>2
<1>8. \A r \in all : r.seq < seq
  BY DEF LogTypes
<1> HIDE DEF all
<1> QED BY <1>5, <1>6, <1>7, <1>8 DEF LogTypes

\* The sync thread of the log.
LEMMA WalSteps ==
    ASSUME Inv, WalSwap \/ WalPublish
    PROVE  Inv'
<1>1. /\ UNCHANGED <<treeState, memoryState, w, readState, seq, proc>>
      /\ log' \in {log, log \o walSyncing}
      /\ walBuf' \in {walBuf, <<>>} /\ walSyncing' \in {walBuf, <<>>}
  BY DEF WalSwap, WalPublish, treeState, memoryState, readState, memVars, fileVars,
         readVars, raceVars, boundVars
<1>2. LogTypes'
  BY <1>1, LogMoves DEF Inv, Types
<1>3. MemoryTypes' /\ WriterTypes' /\ ReaderTypes'
  <2>1. DOMAIN tables \subseteq DOMAIN tables'
    BY <1>1 DEF treeState
  <2> QED BY <1>1, <2>1, MemorySame, WriterSame, ReadSame DEF Inv, Types
<1>4. lostUpdate' = lostUpdate
  BY <1>1 DEF memoryState
<1> QED BY <1>1, <1>2, <1>3, <1>4, QuietStep

\* The request the writer works on.
LEMMA RequestType ==
    ASSUME WriterTypes, w.pc \in {"apply", "log", "invalidate"}
    PROVE  Request \in Requests /\ Request.key \in Keys /\ Request.key \in Nat
           /\ Request.type \in {"PUT", "DELETE"}
<1>1. w.batch \in Seq(Requests) /\ w.pos \in 1..Len(w.batch)
  BY DEF WriterTypes, WriterRecord
<1>2. w.batch[w.pos] \in Requests
  BY <1>1
<1> QED BY <1>2, EngineAssumption DEF Request, Requests

\* writerThreadLoop takes a batch and answers it.
LEMMA WriterEnds ==
    ASSUME Inv, WriterPop \/ WriterAck
    PROVE  Inv'
<1>1. /\ UNCHANGED <<treeState, memoryState, logState, readState, proc>>
      /\ UNCHANGED lostUpdate /\ UNCHANGED tables
  BY DEF WriterPop, WriterAck, treeState, memoryState, readState, logState, memVars,
         fileVars, logVars, readVars, raceVars, boundVars
<1>2. WriterTypes'
  <2>1. CASE WriterPop
    <3>1. PICK n \in 1..MaxBatch : \E b \in [1..n -> Requests] :
              w' = [pc |-> "apply", batch |-> b, pos |-> 1]
      BY <2>1 DEF WriterPop
    <3>2. PICK b \in [1..n -> Requests] : w' = [pc |-> "apply", batch |-> b, pos |-> 1]
      BY <3>1
    <3>3. n \in Nat /\ n >= 1
      BY EngineAssumption
    <3>4. b \in Seq(Requests) /\ Len(b) = n
      BY <3>3
    <3>5. w'.pos = 1 /\ w'.batch = b
      BY <3>2
    <3> QED BY <3>2, <3>3, <3>4, <3>5 DEF WriterTypes, WriterRecord
  <2>2. CASE WriterAck
    BY <2>2 DEF WriterAck, WriterStart, WriterTypes, WriterRecord
  <2> QED BY <2>1, <2>2
<1>3. MemoryTypes' /\ LogTypes' /\ ReaderTypes'
  BY <1>1, MemorySame, LogSame, ReadSame DEF Inv, Types
<1> QED BY <1>1, <1>2, <1>3, QuietStep

\* memtable_.put or del in the writer
LEMMA WriterApplyStep ==
    ASSUME Inv, WriterApply
    PROVE  Inv'
<1>1. /\ UNCHANGED <<treeState, logState, cache, proc>>
      /\ UNCHANGED <<immutable, cf, pending, needed, linked, lostUpdate, lostWrite, disorder,
                     gets, flushes, crashes>>
      /\ UNCHANGED tables
      /\ w.pc = "apply" /\ w' = [w EXCEPT !.pc = "log"]
      /\ memtable' = PutEntry(memtable, Request.key, [seq |-> seq, type |-> Request.type])
      /\ rd' = [r \in Readers |->
             IF /\ rd[r].key = Request.key
                /\ rd[r].pc \in {"imm", "version", "search", "fill"}
             THEN [rd[r] EXCEPT !.overlap = TRUE] ELSE rd[r]]
  BY DEF WriterApply, treeState, logState, memVars, fileVars, logVars, raceVars, boundVars
<1>2. WriterTypes'
  BY <1>1 DEF Inv, Types, WriterTypes, WriterRecord
<1>3. MemoryTypes'
  <2>1. Request.key \in Keys /\ [seq |-> seq, type |-> Request.type] \in Entry
    BY <1>1, RequestType DEF Inv, Types, LogTypes, Entry
  <2>2. memtable' \in Contents
    BY <1>1, <2>1, PutContents DEF Inv, Types, MemoryTypes
  <2> QED BY <1>1, <2>2 DEF Inv, Types, MemoryTypes
<1>4. LogTypes'
  BY <1>1, LogSame DEF Inv, Types
<1>5. ReaderTypes'
  <2>1. ReaderTypes
    BY DEF Inv, Types
  <2>2. DOMAIN rd' = Readers /\ rd' = [r \in Readers |-> rd'[r]]
    BY <1>1
  <2>3. \A r \in Readers : rd'[r] = rd[r] \/ rd'[r] = [rd[r] EXCEPT !.overlap = TRUE]
    BY <1>1
  <2>4. ASSUME NEW r \in Readers
        PROVE  /\ rd'[r] \in [pc : {"idle", "mem", "imm", "version", "search", "fill",
                               "done", "threw"},
                         key : Nat, cand : SUBSET Entry, version : Versions(Metas),
                         floor : {rd'[r].floor}, gap : BOOLEAN, overlap : BOOLEAN]
               /\ Known(rd'[r].version)
               /\ rd'[r].pc = "fill" => CacheSize > 0
    <3>1. /\ rd[r] \in [pc : {"idle", "mem", "imm", "version", "search", "fill",
                               "done", "threw"},
                         key : Nat, cand : SUBSET Entry, version : Versions(Metas),
                         floor : {rd[r].floor}, gap : BOOLEAN, overlap : BOOLEAN]
          /\ Known(rd[r].version)
          /\ rd[r].pc = "fill" => CacheSize > 0
      BY <2>1 DEF ReaderTypes, ReaderOk
    <3>2. CASE rd'[r] = rd[r]
      BY <3>1, <3>2
    <3>3. CASE rd'[r] = [rd[r] EXCEPT !.overlap = TRUE]
      BY <3>1, <3>3
    <3> QED BY <3>2, <3>3, <2>3
  <2>5. \A v : Known(v)' <=> Known(v)
    BY <1>1 DEF Known
  <2> QED BY <1>1, <2>1, <2>2, <2>4 DEF ReaderTypes, ReaderOk, Known
<1> QED BY <1>1, <1>2, <1>3, <1>4, <1>5, QuietStep

\* wal_.append and seq_number_++ in the writer
LEMMA WriterLogStep ==
    ASSUME Inv, WriterLog
    PROVE  Inv'
<1> DEFINE r == [key |-> Request.key, seq |-> seq, type |-> Request.type]
<1>1. /\ UNCHANGED <<treeState, memoryState, readState, proc>>
      /\ UNCHANGED <<log, walSyncing, lostUpdate, tables>>
      /\ w.pc = "log" /\ w' = [w EXCEPT !.pc = "invalidate"]
      /\ seq' = seq + 1
      /\ walBuf' \in {walBuf, Append(walBuf, r)}
  BY DEF WriterLog, LogAppend, treeState, memoryState, readState, memVars, fileVars,
         readVars, raceVars, boundVars
<1>2. WriterTypes'
  BY <1>1 DEF Inv, Types, WriterTypes, WriterRecord
<1>3. MemoryTypes' /\ ReaderTypes'
  BY <1>1, MemorySame, ReadSame DEF Inv, Types
<1>4. LogTypes'
  <2>1. r \in Records /\ r.seq = seq
    BY <1>1, RequestType DEF Inv, Types, LogTypes, Records
  <2> HIDE DEF r
  <2>2. /\ log \in Seq(Records) /\ walBuf \in Seq(Records) /\ walSyncing \in Seq(Records)
        /\ seq \in Nat
        /\ \A x \in Range(log) \cup Range(walBuf) \cup Range(walSyncing) : x.seq < seq
    BY DEF Inv, Types, LogTypes
  <2>3. walBuf' \in Seq(Records) /\ Range(walBuf') \subseteq Range(walBuf) \cup {r}
    <3>1. CASE walBuf' = walBuf
      BY <2>2, <3>1
    <3>2. CASE walBuf' = Append(walBuf, r)
      <4>1. Append(walBuf, r) \in Seq(Records)
        BY <2>1, <2>2
      <4>2. Range(Append(walBuf, r)) = Range(walBuf) \cup {r}
        BY <2>1, <2>2, AppendRange
      <4> QED BY <3>2, <4>1, <4>2
    <3> QED BY <1>1, <3>1, <3>2
  <2>4. \A s \in {log, walBuf, walSyncing} : \A x \in Range(s) : x \in Records
    BY <2>2 DEF Range
  <2>5. \A x \in Records : x.seq \in Nat
    BY DEF Records
  <2>6. \A x \in Range(log) \cup Range(walBuf) \cup Range(walSyncing) \cup {r} : x.seq < seq + 1
    BY <2>1, <2>2, <2>4, <2>5
  <2>7. \A x \in Range(log') \cup Range(walBuf') \cup Range(walSyncing') : x.seq < seq'
    BY <1>1, <2>3, <2>6
  <2> QED BY <1>1, <2>2, <2>3, <2>7 DEF LogTypes
<1> QED BY <1>1, <1>2, <1>3, <1>4, QuietStep

\* cache_->invalidate in the writer
LEMMA WriterInvalidateStep ==
    ASSUME Inv, WriterInvalidate
    PROVE  Inv'
<1>1. /\ UNCHANGED <<treeState, memoryState, logState, rd, proc>>
      /\ UNCHANGED <<lostUpdate, tables>>
      /\ w.pc = "invalidate"
      /\ cache' = CacheInvalidate(cache, Request.key)
      /\ w' = IF w.pos < Len(w.batch)
              THEN [w EXCEPT !.pc = "apply", !.pos = @ + 1]
              ELSE [w EXCEPT !.pc = "flush"]
  BY DEF WriterInvalidate, treeState, memoryState, logState, memVars, fileVars, logVars,
         readVars, raceVars, boundVars
<1>2. WriterTypes'
  <2>1. /\ Len(w.batch) \in Nat /\ w.pos \in 1..Len(w.batch)
        /\ w \in WriterRecord
    BY <1>1 DEF Inv, Types, WriterTypes
  <2>2. CASE w.pos < Len(w.batch)
    <3>1. w' = [w EXCEPT !.pc = "apply", !.pos = @ + 1]
      BY <1>1, <2>2
    <3>2. w'.batch = w.batch /\ w'.pos = w.pos + 1
      BY <2>1, <3>1
    <3>3. w'.pos \in 1..Len(w'.batch)
      BY <2>1, <2>2, <3>2
    <3>4. w' \in WriterRecord
      <4>1. w.pos + 1 \in Nat
        BY <2>1
      <4> QED BY <2>1, <3>1, <4>1 DEF WriterRecord
    <3> QED BY <3>3, <3>4 DEF WriterTypes
  <2>3. CASE ~(w.pos < Len(w.batch))
    <3>1. w' = [w EXCEPT !.pc = "flush"]
      BY <1>1, <2>3
    <3> QED BY <2>1, <3>1 DEF WriterTypes, WriterRecord
  <2> QED BY <2>2, <2>3
<1>3. MemoryTypes' /\ LogTypes'
  BY <1>1, MemorySame, LogSame DEF Inv, Types
<1>4. ReaderTypes'
  <2>1. Request.key \in Nat
    BY <1>1, RequestType DEF Inv, Types
  <2>2. cache' \in Seq(Node) /\ Len(cache') <= CacheSize
    BY <1>1, <2>1, CacheLength DEF Inv, Types, ReaderTypes
  <2> QED BY <1>1, <2>2 DEF Inv, Types, ReaderTypes, ReaderOk, Known
<1> QED BY <1>1, <1>2, <1>3, <1>4, QuietStep

\* wal_.flush in the writer
LEMMA WriterFlushStep ==
    ASSUME Inv, WriterFlush
    PROVE  Inv'
<1>1. /\ UNCHANGED <<treeState, readState, seq, proc>>
      /\ UNCHANGED <<memtable, immutable, pending, needed, linked, lostUpdate, lostWrite, disorder,
                     gets, flushes, crashes, tables>>
      /\ WalFlush
      /\ \/ w' = [w EXCEPT !.pc = "checkFlush"] /\ cf' = [cf EXCEPT !["writer"].pc = "wal"]
         \/ w' = [w EXCEPT !.pc = "ack"] /\ UNCHANGED cf
  BY DEF WriterFlush, treeState, readState, memVars, fileVars, readVars, raceVars, boundVars
<1>2. WriterTypes'
  BY <1>1 DEF Inv, Types, WriterTypes, WriterRecord
<1>3. MemoryTypes'
  BY <1>1 DEF Inv, Types, MemoryTypes, CallerRecord, Callers
<1>4. LogTypes'
  BY <1>1, LogMoves DEF WalFlush, Inv, Types
<1>5. ReaderTypes'
  BY <1>1, ReadSame DEF Inv, Types
<1> QED BY <1>1, <1>2, <1>3, <1>4, <1>5, QuietStep

\* flush() of a client, and checkFlush up to the removal of the log
LEMMA CheckFlushSteps ==
    ASSUME Inv, NEW t \in Callers,
           \/ FlushCall(t) \/ CheckFlushWal(t) \/ CheckFlushTest(t) \/ CheckFlushSleep(t)
           \/ CheckFlushSnapshot(t) \/ CheckFlushClear(t) \/ CheckFlushStore(t)
           \/ CheckFlushRemove(t)
    PROVE  Inv'
<1> USE DEF FlushCall, CheckFlushWal, CheckFlushTest, CheckFlushSleep,
            CheckFlushSnapshot, CheckFlushClear, CheckFlushStore, CheckFlushRemove
<1>1. UNCHANGED <<treeState, readState, seq, proc>> /\ UNCHANGED <<lostUpdate, tables>>
  BY DEF treeState, readState, memVars, fileVars, readVars, raceVars, boundVars
<1>2. WriterTypes'
  <2>1. w' = w \/ w' = [w EXCEPT !.pc = "ack"]
    OBVIOUS
  <2> QED BY <2>1 DEF Inv, Types, WriterTypes, WriterRecord
<1>3. LogTypes'
  <2>1. /\ log' \in {log, log \o walSyncing, log \o walSyncing \o walBuf, <<>>}
        /\ walBuf' \in {walBuf, <<>>} /\ walSyncing' \in {walSyncing, walBuf, <<>>}
    BY DEF WalFlush, logVars
  <2> QED BY <1>1, <2>1, LogMoves DEF Inv, Types
<1>4. MemoryTypes'
  <2>1. /\ memtable \in Contents
        /\ immutable \in SUBSET Contents /\ \A x \in immutable : immutable = {x}
        /\ cf \in [Callers -> CallerRecord]
        /\ {pending, needed, linked, lostUpdate, lostWrite, disorder} \subseteq BOOLEAN
        /\ {gets, flushes, crashes} \subseteq Nat
    BY DEF Inv, Types, MemoryTypes
  <2>2. EmptyTable \in Contents
    BY EmptyContents
  <2>3. cf[t].snap \in Contents
    BY <2>1 DEF CallerRecord
  <2>4. memtable' \in Contents
    BY <2>1, <2>2 DEF memVars
  <2>5. immutable' \in SUBSET Contents /\ \A x \in immutable' : immutable' = {x}
    BY <2>1, <2>3 DEF memVars
  <2>6. {pending', needed', linked', lostUpdate', lostWrite', disorder'} \subseteq BOOLEAN
    BY <1>1, <2>1 DEF memVars, raceVars, logVars
  <2>7. {gets', flushes', crashes'} \subseteq Nat
    BY <2>1 DEF readVars, boundVars
  <2>8. cf' \in [Callers -> CallerRecord]
    BY <2>1, <2>2 DEF CallerRecord
  <2> QED BY <2>4, <2>5, <2>6, <2>7, <2>8 DEF MemoryTypes
<1>5. ReaderTypes'
  BY <1>1, ReadSame DEF Inv, Types
<1> QED BY <1>1, <1>2, <1>3, <1>4, <1>5, QuietStep

\* One reader takes a step of get().
LEMMA OneReader ==
    ASSUME Inv, NEW r \in Readers, NEW x, ReaderOk(x),
           rd' = [rd EXCEPT ![r] = x], cache' \in Seq(Node), Len(cache') <= CacheSize,
           UNCHANGED <<treeState, logState, w, proc>>,
           UNCHANGED <<memtable, immutable, cf, pending, needed, linked, lostUpdate,
                       lostWrite, disorder, flushes, crashes>>,
           gets' \in Nat
    PROVE  Inv'
<1>1. ReaderTypes'
  <2>1. ReaderTypes /\ tables' = tables
    BY DEF Inv, Types, treeState
  <2>2. DOMAIN rd = Readers
    BY <2>1 DEF ReaderTypes
  <2>3. rd' = [q \in Readers |-> IF q = r THEN x ELSE rd[q]]
    BY <2>2
  <2>4. \A q \in Readers : ReaderOk(rd[q])
    BY <2>1 DEF ReaderTypes, ReaderOk
  <2>5. \A q \in Readers : ReaderOk(rd'[q])
    BY <2>3, <2>4
  <2>6. rd' = [q \in Readers |-> rd'[q]]
    BY <2>3
  <2> QED BY <2>1, <2>5, <2>6 DEF ReaderTypes, ReaderOk, Known
<1>2. MemoryTypes'
  BY DEF Inv, Types, MemoryTypes
<1>3. LogTypes' /\ WriterTypes'
  BY LogSame, WriterSame DEF Inv, Types
<1> QED BY <1>1, <1>2, <1>3, QuietStep

\* get() looks into the cache, then goes through memtables and levels.
LEMMA GetSteps ==
    ASSUME Inv, NEW r \in Readers,
           \/ \E k \in Keys : GetBegin(r, k)
           \/ Get(r)
    PROVE  Inv'
<1> DEFINE Quiet == /\ UNCHANGED <<treeState, logState, w, proc>>
                    /\ UNCHANGED <<memtable, immutable, cf, pending, needed, linked,
                                   lostUpdate, lostWrite, disorder, flushes, crashes>>
                    /\ gets' \in Nat
<1>1. Quiet
  <2>1. gets' \in Nat
    <3>1. gets' \in {gets, gets + 1}
      BY DEF GetBegin, Get, GetMemtable, GetImmutable, GetVersion, GetSearch, GetThrow, GetFill
    <3> QED BY <3>1 DEF Inv, Types, MemoryTypes
  <2> QED BY <2>1 DEF GetBegin, Get, GetMemtable, GetImmutable, GetVersion, GetSearch,
           GetThrow, GetFill, treeState, logState, memVars, fileVars, logVars, raceVars,
           boundVars
<1>2. /\ ReaderOk(rd[r]) /\ DOMAIN rd = Readers
      /\ cache \in Seq(Node) /\ Len(cache) <= CacheSize
  BY DEF Inv, Types, ReaderTypes, ReaderOk
<1>3. ASSUME NEW x, ReaderOk(x), rd' = [rd EXCEPT ![r] = x],
             cache' \in Seq(Node), Len(cache') <= CacheSize
      PROVE  Inv'
  BY <1>1, <1>3, OneReader
<1>4. EmptyVersion \in Versions(Metas) /\ Known(EmptyVersion)
  BY EmptyKnown DEF Known
<1>5. rd[r].cand \in SUBSET Entry /\ rd[r].key \in Nat
  BY <1>2 DEF ReaderOk
<1>6. ASSUME NEW k \in Keys, GetBegin(r, k) PROVE Inv'
  <2> DEFINE x == [pc |-> IF CachedIn(cache, k) = {} THEN "mem" ELSE "done",
            key |-> k, cand |-> CachedIn(cache, k), version |-> EmptyVersion,
            floor |-> acked[k],
            gap |-> CachedIn(cache, k) # {} /\ k \in tainted,
            overlap |-> FALSE]
  <2>1. rd' = [rd EXCEPT ![r] = x] /\ cache' = CacheTouch(cache, k)
    BY <1>6 DEF GetBegin
  <2>2. k \in Nat
    BY EngineAssumption
  <2>3. /\ cache' \in Seq(Node) /\ Len(cache') <= CacheSize
        /\ CachedIn(cache, k) \in SUBSET Entry
    BY <1>2, <2>1, <2>2, CacheLength
  <2>4. ReaderOk(x)
    BY <1>4, <2>2, <2>3 DEF ReaderOk
  <2> HIDE DEF x
  <2> QED BY <1>3, <2>1, <2>3, <2>4
<1>7. CASE GetMemtable(r)
  <2> DEFINE x == [rd[r] EXCEPT !.pc = "imm", !.cand = EntryOf(memtable, rd[r].key)]
  <2>1. rd' = [rd EXCEPT ![r] = x] /\ cache' = cache
    BY <1>2, <1>7 DEF GetMemtable, ReaderOk
  <2>2. EntryOf(memtable, rd[r].key) \in SUBSET Entry
    BY EntryOfContents DEF Inv, Types, MemoryTypes
  <2>3. ReaderOk(x)
    BY <1>2, <2>2 DEF ReaderOk
  <2> HIDE DEF x
  <2> QED BY <1>2, <1>3, <2>1, <2>3
<1>8. CASE GetImmutable(r)
  <2> DEFINE x == [rd[r] EXCEPT !.pc = "version",
                      !.cand = Newest(@ \cup ImmutableEntry(rd[r].key)),
                      !.gap = \E t \in Callers : cf[t].pc = "store"]
  <2>1. rd' = [rd EXCEPT ![r] = x] /\ cache' = cache
    BY <1>2, <1>8 DEF GetImmutable, ReaderOk
  <2>2. ImmutableEntry(rd[r].key) \in SUBSET Entry
    BY EntryOfContents DEF Inv, Types, MemoryTypes, ImmutableEntry
  <2>3. Newest(rd[r].cand \cup ImmutableEntry(rd[r].key)) \in SUBSET Entry
    BY <1>5, <2>2 DEF Newest
  <2>4. (\E t \in Callers : cf[t].pc = "store") \in BOOLEAN
    OBVIOUS
  <2>5. ReaderOk(x)
    BY <1>2, <2>3, <2>4 DEF ReaderOk
  <2> HIDE DEF x
  <2> QED BY <1>2, <1>3, <2>1, <2>5
<1>9. CASE GetVersion(r)
  <2> DEFINE x == [rd[r] EXCEPT !.pc = "search", !.version = version,
                                !.gap = @ \/ ComeBack(r)]
  <2>1. rd' = [rd EXCEPT ![r] = x] /\ cache' = cache
    BY <1>2, <1>9 DEF GetVersion, ReaderOk
  <2>2. version \in Versions(Metas) /\ Known(version)
    BY DEF Inv, Types, TreeTypes, Known
  <2>3. ReaderOk(x)
    BY <1>2, <2>2 DEF ReaderOk
  <2> HIDE DEF x
  <2> QED BY <1>2, <1>3, <2>1, <2>3
<1>10. CASE GetSearch(r)
  <2> DEFINE found == Visible(Lookup(rd[r].version, tables, rd[r].key, rd[r].cand))
             x == [rd[r] EXCEPT
               !.pc = IF found # {} /\ CacheSize > 0 THEN "fill" ELSE "done",
               !.cand = found, !.version = EmptyVersion]
  <2>1. rd' = [rd EXCEPT ![r] = x] /\ cache' = cache
    BY <1>2, <1>10 DEF GetSearch, ReaderOk
  <2>2. found \in SUBSET Entry
    <3>1. Known(rd[r].version) /\ TreeTypes
      BY <1>2 DEF ReaderOk, Inv, Types
    <3>2. Lookup(rd[r].version, tables, rd[r].key, rd[r].cand) \in SUBSET Entry
      BY <1>5, <3>1, LookupEntries
    <3> QED BY <3>2 DEF Visible
  <2> HIDE DEF found
  <2>3. ReaderOk(x)
    BY <1>2, <1>4, <2>2 DEF ReaderOk
  <2> HIDE DEF x
  <2> QED BY <1>2, <1>3, <2>1, <2>3
<1>11. CASE GetThrow(r)
  <2> DEFINE x == [rd[r] EXCEPT !.pc = "threw", !.version = EmptyVersion]
  <2>1. rd' = [rd EXCEPT ![r] = x] /\ cache' = cache
    BY <1>2, <1>11 DEF GetThrow, ReaderOk
  <2>2. ReaderOk(x)
    BY <1>2, <1>4 DEF ReaderOk
  <2> HIDE DEF x
  <2> QED BY <1>2, <1>3, <2>1, <2>2
<1>12. CASE GetFill(r)
  <2> DEFINE x == [rd[r] EXCEPT !.pc = "done"]
  <2>1. rd' = [rd EXCEPT ![r] = x] /\ rd[r].pc = "fill"
    BY <1>2, <1>12 DEF GetFill, ReaderOk
  <2>2. PICK e \in rd[r].cand : cache' = CachePut(cache, rd[r].key, e, CacheSize)
    BY <1>12 DEF GetFill
  <2>3. cache' \in Seq(Node) /\ Len(cache') <= CacheSize
    <3>1. e \in Entry /\ CacheSize > 0
      BY <1>2, <1>5, <2>1 DEF ReaderOk
    <3> QED BY <1>2, <1>5, <2>2, <3>1, CacheLength
  <2>4. ReaderOk(x)
    BY <1>2 DEF ReaderOk
  <2> HIDE DEF x
  <2> QED BY <1>3, <2>1, <2>3, <2>4
<1> QED BY <1>6, <1>7, <1>8, <1>9, <1>10, <1>11, <1>12 DEF Get

-----------------------------------------------------------------------------
(* saveMetadata.                                                           *)

\* A step of saveMetadata, the flush thread or the compaction thread.
LEMMA TreeStep ==
    ASSUME Inv, UNCHANGED <<logState, w, rd, proc>>, cache' \in {cache, CacheClear},
           MemoryTypes', TreeTypes', DOMAIN tables \subseteq DOMAIN tables',
           proc = "up" => TreeInv'
    PROVE  Inv'
<1>1. LogTypes' /\ WriterTypes'
  BY LogSame, WriterSame DEF Inv, Types
<1>2. ReaderTypes'
  <2>1. CacheClear \in Seq(Node) /\ Len(CacheClear) = 0 /\ CacheSize \in Nat
    BY EngineAssumption DEF CacheClear
  <2>2. cache' \in Seq(Node) /\ Len(cache') <= CacheSize
    <3>1. CASE cache' = cache
      BY <3>1 DEF Inv, Types, ReaderTypes
    <3>2. CASE cache' = CacheClear
      BY <2>1, <3>2
    <3> QED BY <3>1, <3>2
  <2> QED BY <2>2 DEF Inv, Types, ReaderTypes, ReaderOk, Known
<1> QED BY <1>1, <1>2 DEF Inv, Types

\* saveMetadata: metadata.txt first, then levels.txt is emptied and written.
LEMMA SaveSteps ==
    ASSUME Inv, SaveMetadata
    PROVE  Inv'
<1> USE DEF SaveMetadata, SaveMeta, SaveTruncate, SaveLevels
<1>1. /\ UNCHANGED <<logState, w, rd, proc, cache>> /\ UNCHANGED memoryState
      /\ UNCHANGED <<counter, tables, files, version, lostUpdate>> /\ proc = "up"
  BY DEF logState, memoryState, memVars, logVars, readVars, raceVars, boundVars
<1>2. TreeTypes /\ TreeInv /\ MemoryTypes'
  BY <1>1, MemorySame DEF Inv, Types
<1>3. CASE SaveMeta
  <2>1. /\ save.step = "meta" /\ metaFile' = {<<counter, seq>>}
        /\ save' = [save EXCEPT !.step = "truncate"]
        /\ UNCHANGED <<f, c, levelsFile>>
    BY <1>3
  <2>2. seq \in Nat /\ counter \in Nat
    BY <1>2 DEF Inv, Types, LogTypes, TreeTypes
  <2>3. TreeTypes'
    <3>1. save' \in SaveRecord
      BY <1>2, <2>1 DEF TreeTypes, SaveRecord
    <3>2. \A m \in metaFile' : metaFile' = {m} /\ (m = <<>> \/ m \in Nat \X Nat)
      BY <2>1, <2>2
    <3> QED BY <1>1, <1>2, <2>1, <3>1, <3>2 DEF TreeTypes, Known
  <2>4. save'.by = save.by /\ save'.levels = save.levels /\ save'.step = "truncate"
    BY <1>2, <2>1 DEF TreeTypes
  <2>5. Numbers'
    <3>1. \A m \in metaFile' : m[1] = counter
      BY <2>1
    <3> QED BY <1>1, <1>2, <2>1, <2>4, <3>1 DEF TreeInv, Numbers
  <2>6. Fresh' /\ Written' /\ (~lostUpdate' => Kept')
    BY <1>1, <1>2, <2>1 DEF TreeInv, Fresh, Written, Kept
  <2>7. Saving'
    BY <1>1, <1>2, <2>1, <2>4 DEF TreeInv, Saving
  <2> QED BY <1>1, <1>2, <2>3, <2>5, <2>6, <2>7, TreeStep DEF TreeInv
<1>4. CASE SaveTruncate
  <2>1. /\ save.step = "truncate" /\ levelsFile' = {EmptyVersion.levels}
        /\ save' = [save EXCEPT !.step = "levels"]
        /\ UNCHANGED <<f, c, metaFile>>
    BY <1>4
  <2>2. TreeTypes'
    <3>1. save' \in SaveRecord
      BY <1>2, <2>1 DEF TreeTypes, SaveRecord
    <3>2. \A ls \in levelsFile' : levelsFile' = {ls} /\ ls \in [Levels -> Seq(Metas)]
      BY <2>1, EmptyKnown
    <3> QED BY <1>1, <1>2, <2>1, <3>1, <3>2 DEF TreeTypes, Known
  <2>3. save'.by = save.by /\ save'.levels = save.levels /\ save'.step = "levels"
    BY <1>2, <2>1 DEF TreeTypes
  <2>4. Numbers'
    <3>1. \A ls \in levelsFile' : \A n : LevelsUpto(ls, n)
      BY <2>1, EmptyKnown
    <3> QED BY <1>1, <1>2, <2>1, <2>3, <3>1 DEF TreeInv, Numbers
  <2>5. Fresh' /\ Written' /\ (~lostUpdate' => Kept')
    BY <1>1, <1>2, <2>1 DEF TreeInv, Fresh, Written, Kept
  <2>6. Saving'
    BY <1>1, <1>2, <2>1, <2>3 DEF TreeInv, Saving
  <2> QED BY <1>1, <1>2, <2>2, <2>4, <2>5, <2>6, TreeStep DEF TreeInv
<1>5. CASE SaveLevels
  <2>1. /\ save.step = "levels" /\ levelsFile' = {save.levels}
        /\ save' = NotSaving
        /\ f' = IF save.by = "flush" THEN [f EXCEPT !.pc = "cache"] ELSE f
        /\ c' = IF save.by = "compact" THEN [c EXCEPT !.pc = "remove"] ELSE c
        /\ UNCHANGED metaFile
    BY <1>5
  <2>2. /\ save' \in SaveRecord
        /\ save'.by = "none" /\ save'.step = "none" /\ save'.levels = EmptyVersion.levels
    BY <2>1, EmptyKnown DEF NotSaving, SaveRecord
  <2>3. /\ f'.version = f.version /\ f'.id = f.id /\ f'.table = f.table
        /\ f'.pc = IF f.pc = "saving" THEN "cache" ELSE f.pc
        /\ f' \in FlushRecord
    BY <1>2, <2>1 DEF TreeTypes, FlushRecord, TreeInv, Saving
  <2>4. /\ c'.version = c.version /\ c'.id = c.id /\ c'.table = c.table
        /\ c'.ids = c.ids /\ c'.level = c.level
        /\ c'.pc = IF c.pc = "saving" THEN "remove" ELSE c.pc
        /\ c' \in CompactRecord
    BY <1>2, <2>1 DEF TreeTypes, CompactRecord, TreeInv, Saving
  <2>5. TreeTypes'
    <3>1. \A ls \in levelsFile' : levelsFile' = {ls} /\ ls \in [Levels -> Seq(Metas)]
      BY <1>2, <2>1 DEF TreeTypes, SaveRecord
    <3>2. f'.pc \in {"build", "copy"} => f'.table # EmptyTable
      BY <1>2, <2>3 DEF TreeTypes
    <3>3. /\ c'.pc \in {"build", "copy", "install", "save", "saving", "remove", "cache"}
             => c'.level < 3
          /\ c'.pc \in {"build", "copy"} => c'.table # EmptyTable
      BY <1>2, <2>4 DEF TreeTypes
    <3>4. Known(version)' /\ Known(f.version)' /\ Known(c.version)'
      BY <1>1, <1>2, <2>3, <2>4 DEF TreeTypes, Known
    <3>5. \A m \in metaFile' : metaFile' = {m} /\ (m = <<>> \/ m \in Nat \X Nat)
      BY <1>2, <2>1 DEF TreeTypes
    <3>6. counter' \in Nat /\ files' \subseteq DOMAIN tables'
          /\ \A id \in DOMAIN tables' : id \in Nat /\ tables'[id] \in Contents
      BY <1>1, <1>2 DEF TreeTypes
    <3> QED BY <2>2, <2>3, <2>4, <3>1, <3>2, <3>3, <3>4, <3>5, <3>6 DEF TreeTypes
  <2>6. Numbers'
    <3>1. \A n : LevelsUpto(save'.levels, n)
      BY <2>2, EmptyKnown
    <3>2. \A ls \in levelsFile' : LevelsUpto(ls, counter')
      BY <1>1, <1>2, <2>1 DEF TreeInv, Numbers
    <3>3. \A m \in metaFile' \ {<<>>} : \A ls \in levelsFile' : LevelsUpto(ls, m[1])
      BY <1>2, <2>1 DEF TreeInv, Numbers
    <3> QED BY <1>1, <1>2, <2>3, <2>4, <3>1, <3>2, <3>3 DEF TreeInv, Numbers
  <2>7. Fresh' /\ Written'
    BY <1>1, <1>2, <2>3, <2>4 DEF TreeInv, Fresh, Written
  <2>8. ~lostUpdate' => Kept'
    BY <1>1, <1>2, <2>3, <2>4 DEF TreeInv, Kept
  <2>9. Saving'
    <3>1. (CHOOSE ls \in levelsFile' : TRUE) = save.levels
      BY <2>1
    <3>2. f'.pc # "saving" /\ c'.pc # "saving"
      BY <2>3, <2>4
    <3>3. metaFile' # {}
      BY <1>2, <2>1 DEF TreeInv, Saving
    <3>4. f'.pc # "save" /\ c'.pc # "save" => save.levels = version.levels
      BY <1>2, <2>1, <2>3, <2>4 DEF TreeInv, Saving
    <3> QED BY <1>1, <2>1, <2>2, <3>1, <3>2, <3>3, <3>4 DEF Saving
  <2> QED BY <1>1, <1>2, <2>5, <2>6, <2>7, <2>8, <2>9, TreeStep DEF TreeInv
<1> QED BY <1>3, <1>4, <1>5

-----------------------------------------------------------------------------
(* The flush thread.                                                       *)

\* The flush thread moves on and touches no version and no file: it waits, is
\* woken, takes a memtable or gives it up.
LEMMA FlushMoves ==
    ASSUME TreeTypes, TreeInv,
           UNCHANGED <<counter, tables, files, version, save, metaFile, levelsFile,
                       lostUpdate>>,
           f' \in FlushRecord, f'.version \in {f.version, EmptyVersion},
           f'.id \in {f.id, 0},
           f.pc \notin {"save", "saving"},
           f'.pc \in {"test", "asleep", "build", "cache", "null", "notify"},
           f'.pc = "build" => f'.table # EmptyTable,
           c' = c \/ (c.pc = "asleep" /\ c' = [c EXCEPT !.pc = "test"])
    PROVE  TreeTypes' /\ TreeInv'
<1>1. /\ c' \in CompactRecord
      /\ c'.version = c.version /\ c'.id = c.id /\ c'.table = c.table
      /\ c'.ids = c.ids /\ c'.level = c.level
      /\ c'.pc = c.pc \/ (c.pc = "asleep" /\ c'.pc = "test")
  <2>1. CASE c' = c
    <3>1. c \in CompactRecord
      BY DEF TreeTypes
    <3> QED BY <2>1, <3>1
  <2>2. CASE c.pc = "asleep" /\ c' = [c EXCEPT !.pc = "test"]
    BY <2>2 DEF TreeTypes, CompactRecord
  <2> QED BY <2>1, <2>2
<1>2. Known(version)' /\ Known(f.version)' /\ Known(c.version)'
  BY <1>1, EmptyKnown DEF TreeTypes, Known
<1>3. TreeTypes'
  <2>1. f'.pc \in {"build", "copy"} => f'.table # EmptyTable
    OBVIOUS
  <2>2. /\ c'.pc \in {"build", "copy", "install", "save", "saving", "remove", "cache"}
           => c'.level < 3
        /\ c'.pc \in {"build", "copy"} => c'.table # EmptyTable
    BY <1>1 DEF TreeTypes
  <2> QED BY <1>1, <1>2, <2>1, <2>2 DEF TreeTypes, FlushRecord
<1>4. VersionUpto(f'.version, counter) /\ f'.id <= counter
  BY EmptyKnown DEF TreeTypes, TreeInv, Numbers
<1>5. Numbers'
  BY <1>1, <1>4 DEF TreeInv, Numbers
<1>6. Fresh' /\ Written' /\ (~lostUpdate' => Kept')
  BY <1>1 DEF TreeInv, Fresh, Written, Kept
<1>7. Saving'
  BY <1>1 DEF TreeInv, Saving
<1> QED BY <1>3, <1>5, <1>6, <1>7 DEF TreeInv

\* A flag or a counter of the threads, with all else of the memory as before.
LEMMA MemoryMoves ==
    ASSUME MemoryTypes, UNCHANGED <<memtable, linked, lostWrite, disorder, gets, flushes, crashes>>,
           immutable' \in {immutable, {}},
           pending' \in BOOLEAN, needed' \in BOOLEAN, lostUpdate' \in BOOLEAN,
           cf' \in [Callers -> CallerRecord]
    PROVE  MemoryTypes'
BY DEF MemoryTypes

\* flushThreadLoop waits, takes the memtable, and resets it at the end.
LEMMA FlushIdleSteps ==
    ASSUME Inv, \/ FlushTake \/ FlushSleep \/ FlushCache \/ FlushReset \/ FlushNotify
                \/ \E t \in Callers : CheckFlushNotify(t)
    PROVE  Inv'
<1> USE DEF FlushTake, FlushSleep, FlushCache, FlushReset, FlushNotify, CheckFlushNotify
<1>1. /\ UNCHANGED <<logState, w, rd, proc>> /\ cache' \in {cache, CacheClear}
      /\ UNCHANGED <<counter, tables, files, version, save, metaFile, levelsFile,
                     lostUpdate>>
      /\ proc = "up"
  BY DEF logState, memVars, fileVars, logVars, readVars, raceVars, boundVars
<1>2. TreeTypes /\ TreeInv /\ MemoryTypes /\ f \in FlushRecord
  BY <1>1 DEF Inv, Types, TreeTypes, FlushRecord
<1>3. MemoryTypes'
  <2>1. UNCHANGED <<memtable, linked, lostWrite, disorder, gets, flushes, crashes>>
    BY DEF memVars, logVars, readVars, raceVars, boundVars
  <2>2. /\ immutable' \in {immutable, {}} /\ pending' \in BOOLEAN /\ needed' \in BOOLEAN
        /\ lostUpdate' \in BOOLEAN
    BY <1>1, <1>2 DEF memVars, MemoryTypes
  <2>3. cf' \in [Callers -> CallerRecord]
    <3>1. CASE UNCHANGED cf
      BY <1>2, <3>1 DEF MemoryTypes
    <3>2. CASE FlushNotify
      BY <1>2, <3>2 DEF MemoryTypes, CallerRecord
    <3>3. ASSUME NEW t \in Callers, CheckFlushNotify(t)
          PROVE  cf' \in [Callers -> CallerRecord]
      <4>1. cf \in [Callers -> CallerRecord]
        BY <1>2 DEF MemoryTypes
      <4>2. \/ cf' = [cf EXCEPT ![t].pc = "remove"]
            \/ \E u \in Asleep : cf' = [cf EXCEPT ![t].pc = "remove", ![u].pc = "lock"]
        BY <3>3
      <4>3. CASE cf' = [cf EXCEPT ![t].pc = "remove"]
        BY <4>1, <4>3, ZenonT(60) DEF CallerRecord
      <4>4. ASSUME NEW u \in Callers, cf' = [cf EXCEPT ![t].pc = "remove", ![u].pc = "lock"]
            PROVE  cf' \in [Callers -> CallerRecord]
        <5> DEFINE g == [cf EXCEPT ![t].pc = "remove"]
        <5>1. g \in [Callers -> CallerRecord]
          BY <4>1, ZenonT(60) DEF CallerRecord
        <5>2. cf' = [g EXCEPT ![u].pc = "lock"]
          BY <4>4
        <5> HIDE DEF g
        <5> QED BY <5>1, <5>2, ZenonT(60) DEF CallerRecord
      <4> QED BY <4>2, <4>3, <4>4 DEF Asleep
    <3> QED BY <3>1, <3>2, <3>3
  <2> QED BY <1>2, <2>1, <2>2, <2>3, MemoryMoves
<1>4. c' = c \/ (c.pc = "asleep" /\ c' = [c EXCEPT !.pc = "test"])
  OBVIOUS
<1>5. /\ f' \in FlushRecord /\ f'.version \in {f.version, EmptyVersion}
      /\ f'.id \in {f.id, 0}
      /\ f'.pc \in {"test", "asleep", "build", "cache", "null", "notify"}
      /\ f'.pc = "build" => f'.table # EmptyTable
      /\ f.pc \notin {"save", "saving"}
      \/ f' = f
  <2>1. CASE FlushTake
    <3>1. PICK t \in immutable :
              f' = [f EXCEPT !.pc = IF t = EmptyTable THEN "null" ELSE "build", !.table = t]
      BY <2>1
    <3>2. t \in Contents
      BY <1>2 DEF MemoryTypes
    <3> QED BY <1>2, <2>1, <3>1, <3>2 DEF FlushRecord
  <2>2. CASE FlushNotify
    BY <1>2, <2>2, EmptyContents, EmptyKnown DEF FlushRecord, FlushStart
  <2>3. CASE FlushSleep \/ FlushCache \/ FlushReset
    BY <1>2, <2>3 DEF FlushRecord
  <2>4. CASE \E t \in Callers : CheckFlushNotify(t)
    BY <1>2, <2>4 DEF FlushRecord
  <2> QED BY <2>1, <2>2, <2>3, <2>4
<1>6. TreeTypes' /\ TreeInv'
  <2>1. CASE f' = f
    <3>1. CASE c' = c
      BY <1>1, <1>2, <2>1, <3>1, TreeSame, TreeInvSame DEF treeState
    <3>2. CASE c' # c
      BY <1>2, <2>1, <3>2 DEF FlushRecord
    <3> QED BY <3>1, <3>2
  <2>2. CASE f' # f
    BY <1>1, <1>2, <1>4, <1>5, <2>2, FlushMoves
  <2> QED BY <2>1, <2>2
<1> QED BY <1>1, <1>3, <1>6, TreeStep

\* A number that bounds those of a version's files is still one when it grows.
LEMMA UptoGrows ==
    ASSUME NEW n \in Nat, NEW m \in Nat, n <= m
    PROVE  /\ \A ls \in [Levels -> Seq(Metas)] : LevelsUpto(ls, n) => LevelsUpto(ls, m)
           /\ \A v \in Versions(Metas) : VersionUpto(v, n) => VersionUpto(v, m)
<1>1. ASSUME NEW ls \in [Levels -> Seq(Metas)], LevelsUpto(ls, n),
             NEW l \in Levels, NEW x \in Range(ls[l])
      PROVE  x.id <= m
  <2>1. ls[l] \in Seq(Metas)
    OBVIOUS
  <2>2. x \in Metas
    BY <2>1 DEF Range
  <2>3. x.id \in Nat /\ x.id <= n
    BY <1>1, <2>2 DEF Metas, LevelsUpto
  <2> QED BY <2>3
<1>2. \A ls \in [Levels -> Seq(Metas)] : LevelsUpto(ls, n) => LevelsUpto(ls, m)
  BY <1>1 DEF LevelsUpto
<1>3. ASSUME NEW v \in Versions(Metas), VersionUpto(v, n) PROVE VersionUpto(v, m)
  <2>1. v.levels \in [Levels -> Seq(Metas)] /\ v.sstables \in SUBSET Nat
    BY DEF Versions
  <2>2. LevelsUpto(v.levels, m)
    BY <1>2, <1>3, <2>1 DEF VersionUpto
  <2>3. \A id \in v.sstables : id <= m
    BY <1>3, <2>1 DEF VersionUpto
  <2> QED BY <2>2, <2>3 DEF VersionUpto
<1> QED BY <1>2, <1>3

\* flush_counter_++ and SSTable::flush under the new number, in the flush thread
\* or in the compaction thread.
LEMMA BuildTable ==
    ASSUME TreeTypes, Numbers, NEW t \in Contents,
           counter' = counter + 1, tables' = With(tables, counter', t),
           files' = files \cup {counter'},
           UNCHANGED <<version, save, metaFile, levelsFile>>,
           f'.version = f.version, c'.version = c.version, c'.ids = c.ids,
           f'.id \in {f.id, counter'}, c'.id \in {c.id, counter'}
    PROVE  /\ Numbers' /\ counter' \in Nat /\ counter + 1 \notin c.ids
           /\ counter + 1 \notin version.sstables \cup c.version.sstables
           /\ f.id # counter + 1 /\ c.id # counter + 1
           /\ DOMAIN tables' = DOMAIN tables \cup {counter'}
           /\ \A id \in DOMAIN tables' : id \in Nat /\ tables'[id] \in Contents
           /\ files' \subseteq DOMAIN tables'
           /\ Known(version)' /\ Known(f.version)' /\ Known(c.version)'
<1>1. /\ counter \in Nat /\ f.id \in Nat /\ c.id \in Nat /\ c.ids \in SUBSET Nat
      /\ version.sstables \in SUBSET Nat /\ c.version.sstables \in SUBSET Nat
  BY DEF TreeTypes, Known, FlushRecord, CompactRecord, Versions
<1>2. counter' \in Nat /\ counter + 1 \notin c.ids
      /\ counter + 1 \notin version.sstables \cup c.version.sstables
      /\ f.id # counter + 1 /\ c.id # counter + 1
  BY <1>1 DEF Numbers, VersionUpto
<1>3. /\ DOMAIN tables' = DOMAIN tables \cup {counter'}
      /\ \A id \in DOMAIN tables' : tables'[id] = IF id = counter' THEN t ELSE tables[id]
  BY DEF With
<1>4. \A id \in DOMAIN tables' : id \in Nat /\ tables'[id] \in Contents
  BY <1>2, <1>3 DEF TreeTypes
<1>5. Known(version)' /\ Known(f.version)' /\ Known(c.version)' /\ files' \subseteq DOMAIN tables'
  BY <1>3 DEF TreeTypes, Known
<1>6. Numbers'
  <2>1. counter <= counter' /\ counter' \in Nat
    BY <1>1
  <2>2. /\ VersionUpto(version, counter') /\ VersionUpto(f.version, counter')
        /\ VersionUpto(c.version, counter')
    BY <1>1, <2>1, UptoGrows DEF Numbers, TreeTypes, Known
  <2>3. LevelsUpto(save.levels, counter')
    BY <1>1, <2>1, UptoGrows DEF Numbers, TreeTypes, SaveRecord
  <2>4. \A ls \in levelsFile : LevelsUpto(ls, counter')
    BY <1>1, <2>1, UptoGrows DEF Numbers, TreeTypes
  <2>5. f'.id <= counter' /\ c'.id <= counter' /\ \A id \in c.ids : id <= counter'
    BY <1>1 DEF Numbers
  <2> QED BY <2>2, <2>3, <2>4, <2>5 DEF Numbers
<1> QED BY <1>2, <1>3, <1>4, <1>5, <1>6

\* flushThreadLoop writes the table.
LEMMA FlushBuildStep ==
    ASSUME Inv, FlushBuild
    PROVE  Inv'
<1>1. /\ UNCHANGED <<logState, w, rd, proc, cache>> /\ UNCHANGED memoryState
      /\ UNCHANGED <<version, save, metaFile, levelsFile, lostUpdate, c>>
      /\ proc = "up" /\ f.pc = "build" /\ save.by = "none"
      /\ counter' = counter + 1 /\ tables' = With(tables, counter', f.table)
      /\ files' = files \cup {counter'}
      /\ f' = [f EXCEPT !.pc = "copy", !.id = counter']
  BY DEF FlushBuild, MetadataMutexFree, logState, memoryState, memVars, logVars, readVars,
         raceVars, boundVars
<1>2. TreeTypes /\ TreeInv /\ MemoryTypes' /\ f \in FlushRecord
  BY <1>1, MemorySame DEF Inv, Types, TreeTypes
<1>3. /\ f'.pc = "copy" /\ f'.id = counter + 1 /\ f'.version = f.version /\ f'.table = f.table
  BY <1>1, <1>2 DEF FlushRecord
<1>4. f.table \in Contents /\ f.table # EmptyTable
  BY <1>1, <1>2 DEF FlushRecord, TreeTypes
<1>5. /\ Numbers' /\ counter' \in Nat /\ counter + 1 \notin c.ids
      /\ counter + 1 \notin version.sstables \cup c.version.sstables
      /\ f.id # counter + 1 /\ c.id # counter + 1
      /\ DOMAIN tables' = DOMAIN tables \cup {counter'}
      /\ \A id \in DOMAIN tables' : id \in Nat /\ tables'[id] \in Contents
      /\ files' \subseteq DOMAIN tables'
      /\ Known(version)' /\ Known(f.version)' /\ Known(c.version)'
  BY <1>1, <1>2, <1>3, <1>4, BuildTable DEF TreeInv
<1>6. TreeTypes'
  <2>1. f' \in FlushRecord
    BY <1>1, <1>2, <1>5 DEF FlushRecord
  <2> QED BY <1>1, <1>2, <1>3, <1>4, <1>5, <2>1 DEF TreeTypes
<1>7. Fresh' /\ Written'
  BY <1>1, <1>2, <1>3, <1>5 DEF TreeInv, Fresh, Written
<1>8. ~lostUpdate' => Kept'
  BY <1>1, <1>2, <1>3 DEF TreeInv, Kept
<1>9. Saving'
  BY <1>1, <1>2, <1>3 DEF TreeInv, Saving
<1> QED BY <1>1, <1>2, <1>5, <1>6, <1>7, <1>8, <1>9, TreeStep DEF TreeInv

\* flushThreadLoop copies the current version and adds its file.
LEMMA FlushCopyStep ==
    ASSUME Inv, FlushCopy
    PROVE  Inv'
<1> DEFINE meta == MetaOf(f.id, 0, f.table)
           v == AddSSTable(version, meta)
<1>1. /\ UNCHANGED <<logState, w, rd, proc, cache>> /\ UNCHANGED memoryState
      /\ UNCHANGED <<counter, tables, files, version, save, metaFile, levelsFile,
                     lostUpdate, c>>
      /\ proc = "up" /\ f.pc = "copy"
      /\ f' = [f EXCEPT !.pc = "install", !.version = v]
  BY DEF FlushCopy, logState, memoryState, memVars, fileVars, logVars, readVars,
         raceVars, boundVars
<1>2. TreeTypes /\ TreeInv /\ MemoryTypes' /\ f \in FlushRecord
  BY <1>1, MemorySame DEF Inv, Types, TreeTypes
<1>3. meta \in Metas /\ meta.id = f.id
  <2>1. f.id \in Nat /\ f.table \in Contents /\ f.table # EmptyTable /\ 0 \in Levels
    BY <1>1, <1>2 DEF FlushRecord, TreeTypes, Levels
  <2> QED BY <2>1, MetaKnown
<1> HIDE DEF meta
<1>4. /\ version \in Versions(Metas) /\ version.sstables \subseteq DOMAIN tables
      /\ counter \in Nat /\ f.id <= counter /\ VersionUpto(version, counter)
  BY <1>2 DEF TreeTypes, Known, TreeInv, Numbers
<1>5. /\ v \in Versions(Metas) /\ v.sstables = version.sstables \cup {f.id}
      /\ VersionUpto(v, counter)
  BY <1>3, <1>4, AddKnown
<1> HIDE DEF v
<1>6. /\ f' \in FlushRecord /\ f'.pc = "install" /\ f'.version = v
      /\ f'.id = f.id /\ f'.table = f.table
  BY <1>1, <1>2, <1>5 DEF FlushRecord
<1>7. f.id \in files /\ files \subseteq DOMAIN tables
  BY <1>1, <1>2 DEF TreeInv, Written, TreeTypes
<1>8. TreeTypes'
  <2>1. Known(version)' /\ Known(f.version)' /\ Known(c.version)'
    BY <1>1, <1>2, <1>4, <1>5, <1>6, <1>7 DEF Known, TreeTypes
  <2> QED BY <1>1, <1>2, <1>6, <2>1 DEF TreeTypes
<1>9. Numbers'
  BY <1>1, <1>2, <1>5, <1>6 DEF TreeInv, Numbers
<1>10. Fresh' /\ Written'
  BY <1>1, <1>2, <1>6 DEF TreeInv, Fresh, Written
<1>11. ~lostUpdate' => Kept'
  <2>1. f.id \notin c.ids
    BY <1>1, <1>2 DEF TreeInv, Fresh
  <2> QED BY <1>1, <1>2, <1>5, <1>6, <1>7, <2>1 DEF TreeInv, Kept
<1>12. Saving'
  BY <1>1, <1>2, <1>6 DEF TreeInv, Saving
<1> QED BY <1>1, <1>2, <1>8, <1>9, <1>10, <1>11, <1>12, TreeStep DEF TreeInv

\* installVersion in the flush thread
LEMMA FlushInstallStep ==
    ASSUME Inv, FlushInstall
    PROVE  Inv'
<1>1. /\ UNCHANGED <<logState, w, rd, proc, cache>>
      /\ UNCHANGED <<memtable, immutable, cf, pending, needed, linked, lostWrite, gets,
                     flushes, crashes>>
      /\ UNCHANGED <<counter, tables, files, save, metaFile, levelsFile, c>>
      /\ proc = "up" /\ f.pc = "install" /\ version' = f.version
      /\ lostUpdate' = (lostUpdate \/ c.pc = "install")
      /\ disorder' = (disorder \/ lostUpdate')
      /\ f' = [f EXCEPT !.pc = "save", !.version = EmptyVersion]
  BY DEF FlushInstall, logState, memVars, fileVars, logVars, readVars, raceVars, boundVars
<1>2. TreeTypes /\ TreeInv /\ MemoryTypes' /\ f \in FlushRecord
  BY <1>1 DEF Inv, Types, TreeTypes, MemoryTypes
<1>3. /\ f' \in FlushRecord /\ f'.pc = "save" /\ f'.version = EmptyVersion
      /\ f'.id = f.id /\ f'.table = f.table
  BY <1>1, <1>2, EmptyKnown DEF FlushRecord
<1>4. TreeTypes'
  <2>1. Known(version)' /\ Known(f.version)' /\ Known(c.version)'
    BY <1>1, <1>2, <1>3, EmptyKnown DEF Known, TreeTypes
  <2> QED BY <1>1, <1>2, <1>3, <2>1 DEF TreeTypes
<1>5. Numbers'
  <2>1. VersionUpto(f'.version, counter)
    BY <1>3, EmptyKnown
  <2> QED BY <1>1, <1>2, <1>3, <2>1 DEF TreeInv, Numbers
<1>6. Fresh' /\ Written'
  BY <1>1, <1>2, <1>3 DEF TreeInv, Fresh, Written
<1>7. ~lostUpdate' => Kept'
  BY <1>1, <1>2, <1>3 DEF TreeInv, Kept
<1>8. Saving'
  BY <1>1, <1>2, <1>3 DEF TreeInv, Saving
<1> QED BY <1>1, <1>2, <1>4, <1>5, <1>6, <1>7, <1>8, TreeStep DEF TreeInv

\* saveMetadata begins, in the flush thread or in the compaction thread.
LEMMA SaveStarts ==
    ASSUME TreeTypes, TreeInv, NEW thread \in {"flush", "compact"}, SaveBegin(thread),
           UNCHANGED <<counter, tables, files, version, lostUpdate>>,
           \/ /\ thread = "flush" /\ f.pc = "save"
              /\ f' = [f EXCEPT !.pc = "saving"] /\ c' = c
           \/ /\ thread = "compact" /\ c.pc = "save"
              /\ c' = [c EXCEPT !.pc = "saving"] /\ f' = f
    PROVE  TreeTypes' /\ TreeInv'
<1>1. /\ save.by = "none" /\ metaFile' = {<<>>} /\ levelsFile' = levelsFile
      /\ save' = [by |-> thread, step |-> "meta", levels |-> version.levels]
  BY DEF SaveBegin, MetadataMutexFree
<1>2. /\ f' \in FlushRecord /\ f'.version = f.version /\ f'.id = f.id /\ f'.table = f.table
      /\ \/ thread = "flush" /\ f.pc = "save" /\ f'.pc = "saving"
         \/ thread = "compact" /\ f'.pc = f.pc
  BY DEF TreeTypes, FlushRecord
<1>3. /\ c' \in CompactRecord /\ c'.version = c.version /\ c'.id = c.id
      /\ c'.table = c.table /\ c'.ids = c.ids /\ c'.level = c.level
      /\ \/ thread = "compact" /\ c.pc = "save" /\ c'.pc = "saving"
         \/ thread = "flush" /\ c'.pc = c.pc
  BY DEF TreeTypes, CompactRecord
<1>4. version.levels \in [Levels -> Seq(Metas)]
  BY DEF TreeTypes, Known, Versions
<1>5. save' \in SaveRecord /\ save'.by = thread /\ save'.levels = version.levels
      /\ save'.step = "meta"
  BY <1>1, <1>4 DEF SaveRecord
<1>6. TreeTypes'
  <2>1. Known(version)' /\ Known(f.version)' /\ Known(c.version)'
    BY <1>2, <1>3 DEF TreeTypes, Known
  <2>2. /\ f'.pc \in {"build", "copy"} => f'.table # EmptyTable
        /\ c'.pc \in {"build", "copy", "install", "save", "saving", "remove", "cache"}
           => c'.level < 3
        /\ c'.pc \in {"build", "copy"} => c'.table # EmptyTable
    BY <1>2, <1>3 DEF TreeTypes
  <2>3. \A m \in metaFile' : metaFile' = {m} /\ (m = <<>> \/ m \in Nat \X Nat)
    BY <1>1
  <2> QED BY <1>1, <1>2, <1>3, <1>5, <2>1, <2>2, <2>3 DEF TreeTypes
<1>7. Numbers'
  BY <1>1, <1>2, <1>3, <1>5 DEF TreeInv, Numbers, VersionUpto
<1>8. Fresh' /\ Written'
  BY <1>2, <1>3 DEF TreeInv, Fresh, Written
<1>9. ~lostUpdate' => Kept'
  BY <1>2, <1>3 DEF TreeInv, Kept
<1>10. Saving'
  BY <1>1, <1>2, <1>3, <1>5 DEF TreeInv, Saving
<1> QED BY <1>6, <1>7, <1>8, <1>9, <1>10 DEF TreeInv

\* flushThreadLoop and the compaction call saveMetadata.
LEMMA SaveCalls ==
    ASSUME Inv, FlushSave \/ CompactSave
    PROVE  Inv'
<1>1. /\ UNCHANGED <<logState, w, rd, proc, cache>> /\ UNCHANGED memoryState
      /\ UNCHANGED <<counter, tables, files, version, lostUpdate>> /\ proc = "up"
  BY DEF FlushSave, CompactSave, logState, memoryState, memVars, logVars, readVars,
         raceVars, boundVars
<1>2. TreeTypes /\ TreeInv /\ MemoryTypes'
  BY <1>1, MemorySame DEF Inv, Types
<1>3. CASE FlushSave
  BY <1>1, <1>2, <1>3, SaveStarts, TreeStep DEF FlushSave
<1>4. CASE CompactSave
  BY <1>1, <1>2, <1>4, SaveStarts, TreeStep DEF CompactSave
<1> QED BY <1>3, <1>4

-----------------------------------------------------------------------------
(* The compaction thread.                                                  *)

\* The compaction thread moves on and touches no version and no file: it waits,
\* looks at a level, merges its files.
LEMMA CompactMoves ==
    ASSUME TreeTypes, TreeInv,
           UNCHANGED <<counter, tables, files, version, save, metaFile, levelsFile,
                       lostUpdate, f>>,
           c' \in CompactRecord, c'.version \in {c.version, EmptyVersion},
           c'.id \in {c.id, 0}, c'.ids \subseteq c.ids \cup version.sstables,
           c.pc \notin {"save", "saving"},
           c'.pc \in {"test", "toSleep", "asleep", "level", "build"},
           c'.pc = "build" => c'.level < 3 /\ c'.table # EmptyTable
    PROVE  TreeTypes' /\ TreeInv'
<1>1. TreeTypes'
  <2>1. Known(version)' /\ Known(f.version)' /\ Known(c.version)'
    BY EmptyKnown DEF TreeTypes, Known
  <2> QED BY <2>1 DEF TreeTypes
<1>2. Numbers'
  <2>1. VersionUpto(c'.version, counter) /\ c'.id <= counter
    BY EmptyKnown DEF TreeTypes, TreeInv, Numbers
  <2>2. \A id \in c'.ids : id <= counter
    BY DEF TreeInv, Numbers, VersionUpto
  <2> QED BY <2>1, <2>2 DEF TreeInv, Numbers
<1>3. Fresh' /\ Written'
  <2>1. c'.version.sstables \subseteq c.version.sstables
    BY EmptyKnown
  <2> QED BY <2>1 DEF TreeInv, Fresh, Written
<1>4. ~lostUpdate' => Kept'
  BY DEF TreeInv, Kept
<1>5. Saving'
  BY DEF TreeInv, Saving
<1> QED BY <1>1, <1>2, <1>3, <1>4, <1>5 DEF TreeInv

\* Of the levels, compaction only reads files that are in the current version.
LEMMA InputsKnown ==
    ASSUME TreeTypes, NEW l
    PROVE  /\ Inputs(l) \subseteq version.sstables /\ Inputs(l) \in SUBSET Nat
           /\ MergeSSTables(tables, Inputs(l)) \in Contents
<1>1. Inputs(l) \subseteq version.sstables
  BY DEF Inputs, CompactionInputs
<1>2. version.sstables \subseteq DOMAIN tables /\ version.sstables \in SUBSET Nat
  BY DEF TreeTypes, Known, Versions
<1>3. \A id \in Inputs(l) : IsTable(tables[id], Keys)
  BY <1>1, <1>2, ContentsTable DEF TreeTypes
<1>4. Merged(Keys, tables, Inputs(l), MergeSSTables(tables, Inputs(l)))
  BY <1>3, MergedTable
<1>5. MergeSSTables(tables, Inputs(l)) \in Contents
  BY <1>4, ContentsTable DEF Merged
<1> QED BY <1>1, <1>2, <1>5

\* compactionThreadLoop waits, and maybeCompactBackground looks at the levels.
LEMMA CompactIdleSteps ==
    ASSUME Inv, CompactTest \/ CompactSleep \/ CompactSkip \/ CompactMerge
    PROVE  Inv'
<1>1. /\ UNCHANGED <<logState, w, rd, proc, cache>>
      /\ UNCHANGED <<counter, tables, files, version, save, metaFile, levelsFile,
                     lostUpdate, f>>
      /\ UNCHANGED <<memtable, immutable, cf, pending, linked, lostWrite, disorder, gets,
                     flushes, crashes>>
      /\ needed' \in {needed, FALSE} /\ proc = "up"
  BY DEF CompactTest, CompactSleep, CompactSkip, CompactMerge, logState, memVars,
         fileVars, logVars, readVars, raceVars, boundVars
<1>2. TreeTypes /\ TreeInv /\ MemoryTypes' /\ c \in CompactRecord
  BY <1>1 DEF Inv, Types, TreeTypes, MemoryTypes
<1>3. CASE CompactTest \/ CompactSleep
  <2>1. /\ c.pc \in {"test", "toSleep"}
        /\ \E p \in {"level", "toSleep", "asleep"} : c' = [c EXCEPT !.pc = p]
    BY <1>3 DEF CompactTest, CompactSleep
  <2>2. PICK p \in {"level", "toSleep", "asleep"} : c' = [c EXCEPT !.pc = p]
    BY <2>1
  <2>3. /\ c' \in CompactRecord /\ c'.version = c.version /\ c'.id = c.id
        /\ c'.ids = c.ids /\ c'.pc = p
    BY <1>2, <2>2 DEF CompactRecord
  <2>4. TreeTypes' /\ TreeInv'
    BY <1>1, <1>2, <2>1, <2>3, CompactMoves
  <2> QED BY <1>1, <1>2, <2>4, TreeStep
<1>4. CASE CompactSkip
  <2>1. /\ c.pc = "level"
        /\ c' = CompactStart \/ (c.level < 3 /\ c' = [c EXCEPT !.level = @ + 1])
    BY <1>4 DEF CompactSkip
  <2>2. /\ c' \in CompactRecord /\ c'.version \in {c.version, EmptyVersion}
        /\ c'.id \in {c.id, 0} /\ c'.ids \subseteq c.ids /\ c'.pc \in {"test", "level"}
    <3>1. CASE c' = CompactStart
      <4>1. CompactStart \in CompactRecord
        BY EmptyKnown, EmptyContents DEF CompactRecord, CompactStart, Levels
      <4> QED BY <3>1, <4>1 DEF CompactStart
    <3>2. CASE c.level < 3 /\ c' = [c EXCEPT !.level = @ + 1]
      <4>1. c.level \in 0..3
        BY <1>2 DEF CompactRecord, Levels
      <4>2. c.level + 1 \in Levels
        BY <3>2, <4>1 DEF Levels
      <4> QED BY <1>2, <2>1, <3>2, <4>2 DEF CompactRecord
    <3> QED BY <2>1, <3>1, <3>2
  <2>3. TreeTypes' /\ TreeInv'
    BY <1>1, <1>2, <2>1, <2>2, CompactMoves
  <2> QED BY <1>1, <1>2, <2>3, TreeStep
<1>5. CASE CompactMerge
  <2> DEFINE ids == Inputs(c.level)
             t == MergeSSTables(tables, ids)
  <2>1. /\ c.pc = "level" /\ c.level < 3 /\ t # EmptyTable
        /\ c' = [c EXCEPT !.pc = "build", !.ids = ids, !.table = t]
    BY <1>5 DEF CompactMerge
  <2>2. ids \subseteq version.sstables /\ ids \in SUBSET Nat /\ t \in Contents
    BY <1>2, InputsKnown
  <2> HIDE DEF ids, t
  <2>3. /\ c' \in CompactRecord /\ c'.version = c.version /\ c'.id = c.id
        /\ c'.ids = ids /\ c'.pc = "build" /\ c'.level = c.level /\ c'.table = t
    BY <1>2, <2>1, <2>2 DEF CompactRecord
  <2>4. TreeTypes' /\ TreeInv'
    BY <1>1, <1>2, <2>1, <2>2, <2>3, CompactMoves
  <2> QED BY <1>1, <1>2, <2>4, TreeStep
<1> QED BY <1>3, <1>4, <1>5

\* The compaction writes the merged table.
LEMMA CompactBuildStep ==
    ASSUME Inv, CompactBuild
    PROVE  Inv'
<1>1. /\ UNCHANGED <<logState, w, rd, proc, cache>> /\ UNCHANGED memoryState
      /\ UNCHANGED <<version, save, metaFile, levelsFile, lostUpdate, f>>
      /\ proc = "up" /\ c.pc = "build" /\ save.by = "none"
      /\ counter' = counter + 1 /\ tables' = With(tables, counter', c.table)
      /\ files' = files \cup {counter'}
      /\ c' = [c EXCEPT !.pc = "copy", !.id = counter']
  BY DEF CompactBuild, MetadataMutexFree, logState, memoryState, memVars, logVars,
         readVars, raceVars, boundVars
<1>2. TreeTypes /\ TreeInv /\ MemoryTypes' /\ c \in CompactRecord
  BY <1>1, MemorySame DEF Inv, Types, TreeTypes
<1>3. /\ c'.pc = "copy" /\ c'.id = counter + 1 /\ c'.version = c.version
      /\ c'.table = c.table /\ c'.ids = c.ids /\ c'.level = c.level
  BY <1>1, <1>2 DEF CompactRecord
<1>4. c.table \in Contents /\ c.table # EmptyTable /\ c.level < 3
  BY <1>1, <1>2 DEF CompactRecord, TreeTypes
<1>5. /\ Numbers' /\ counter' \in Nat /\ counter + 1 \notin c.ids
      /\ counter + 1 \notin version.sstables \cup c.version.sstables
      /\ f.id # counter + 1 /\ c.id # counter + 1
      /\ DOMAIN tables' = DOMAIN tables \cup {counter'}
      /\ \A id \in DOMAIN tables' : id \in Nat /\ tables'[id] \in Contents
      /\ files' \subseteq DOMAIN tables'
      /\ Known(version)' /\ Known(f.version)' /\ Known(c.version)'
  BY <1>1, <1>2, <1>3, <1>4, BuildTable DEF TreeInv
<1>6. TreeTypes'
  <2>1. c' \in CompactRecord
    BY <1>1, <1>2, <1>5 DEF CompactRecord
  <2> QED BY <1>1, <1>2, <1>3, <1>4, <1>5, <2>1 DEF TreeTypes
<1>7. Fresh' /\ Written'
  BY <1>1, <1>2, <1>3, <1>5 DEF TreeInv, Fresh, Written
<1>8. ~lostUpdate' => Kept'
  BY <1>1, <1>2, <1>3 DEF TreeInv, Kept
<1>9. Saving'
  BY <1>1, <1>2, <1>3 DEF TreeInv, Saving
<1> QED BY <1>1, <1>2, <1>5, <1>6, <1>7, <1>8, <1>9, TreeStep DEF TreeInv

\* The compaction copies the current version, without its inputs and with its
\* own file.
LEMMA CompactCopyStep ==
    ASSUME Inv, CompactCopy
    PROVE  Inv'
<1> DEFINE meta == MetaOf(c.id, c.level + 1, c.table)
           v == CompactedVersion(version, c.ids, meta)
<1>1. /\ UNCHANGED <<logState, w, rd, proc, cache>> /\ UNCHANGED memoryState
      /\ UNCHANGED <<counter, tables, files, version, save, metaFile, levelsFile,
                     lostUpdate, f>>
      /\ proc = "up" /\ c.pc = "copy"
      /\ c' = [c EXCEPT !.pc = "install", !.version = v]
  BY DEF CompactCopy, logState, memoryState, memVars, fileVars, logVars, readVars,
         raceVars, boundVars
<1>2. TreeTypes /\ TreeInv /\ MemoryTypes' /\ c \in CompactRecord
  BY <1>1, MemorySame DEF Inv, Types, TreeTypes
<1>3. meta \in Metas /\ meta.id = c.id
  <2>1. /\ c.id \in Nat /\ c.table \in Contents /\ c.table # EmptyTable
        /\ c.level \in Levels /\ c.level < 3
    BY <1>1, <1>2 DEF CompactRecord, TreeTypes
  <2>2. c.level + 1 \in Levels
    BY <2>1 DEF Levels
  <2> QED BY <2>1, <2>2, MetaKnown
<1> HIDE DEF meta
<1>4. /\ version \in Versions(Metas) /\ version.sstables \subseteq DOMAIN tables
      /\ counter \in Nat /\ c.id <= counter /\ VersionUpto(version, counter)
  BY <1>2 DEF TreeTypes, Known, TreeInv, Numbers
<1>5. /\ v \in Versions(Metas) /\ v.sstables = (version.sstables \ c.ids) \cup {c.id}
      /\ VersionUpto(v, counter)
  BY <1>3, <1>4, CompactedKnown
<1> HIDE DEF v
<1>6. /\ c' \in CompactRecord /\ c'.pc = "install" /\ c'.version = v
      /\ c'.id = c.id /\ c'.table = c.table /\ c'.ids = c.ids /\ c'.level = c.level
  BY <1>1, <1>2, <1>5 DEF CompactRecord
<1>7. c.id \in files /\ files \subseteq DOMAIN tables /\ c.id \notin c.ids
  BY <1>1, <1>2 DEF TreeInv, Written, Fresh, TreeTypes
<1>8. TreeTypes'
  <2>1. Known(version)' /\ Known(f.version)' /\ Known(c.version)'
    BY <1>1, <1>2, <1>4, <1>5, <1>6, <1>7 DEF Known, TreeTypes
  <2> QED BY <1>1, <1>2, <1>6, <2>1 DEF TreeTypes
<1>9. Numbers'
  BY <1>1, <1>2, <1>5, <1>6 DEF TreeInv, Numbers
<1>10. Fresh' /\ Written'
  BY <1>1, <1>2, <1>5, <1>6 DEF TreeInv, Fresh, Written
<1>11. ~lostUpdate' => Kept'
  BY <1>1, <1>2, <1>5, <1>6, <1>7 DEF TreeInv, Kept
<1>12. Saving'
  BY <1>1, <1>2, <1>6 DEF TreeInv, Saving
<1> QED BY <1>1, <1>2, <1>8, <1>9, <1>10, <1>11, <1>12, TreeStep DEF TreeInv

\* installVersion in the compaction thread
LEMMA CompactInstallStep ==
    ASSUME Inv, CompactInstall
    PROVE  Inv'
<1>1. /\ UNCHANGED <<logState, w, rd, proc, cache>>
      /\ UNCHANGED <<memtable, immutable, cf, pending, needed, linked, lostWrite, gets,
                     flushes, crashes>>
      /\ UNCHANGED <<counter, tables, files, save, metaFile, levelsFile, f>>
      /\ proc = "up" /\ c.pc = "install" /\ version' = c.version
      /\ lostUpdate' = (lostUpdate \/ f.pc = "install")
      /\ disorder' = (disorder \/ lostUpdate')
      /\ c' = [c EXCEPT !.pc = "save", !.version = EmptyVersion]
  BY DEF CompactInstall, logState, memVars, fileVars, logVars, readVars, raceVars, boundVars
<1>2. TreeTypes /\ TreeInv /\ MemoryTypes' /\ c \in CompactRecord
  BY <1>1 DEF Inv, Types, TreeTypes, MemoryTypes
<1>3. /\ c' \in CompactRecord /\ c'.pc = "save" /\ c'.version = EmptyVersion
      /\ c'.id = c.id /\ c'.table = c.table /\ c'.ids = c.ids /\ c'.level = c.level
  BY <1>1, <1>2, EmptyKnown DEF CompactRecord
<1>4. TreeTypes'
  <2>1. Known(version)' /\ Known(f.version)' /\ Known(c.version)'
    BY <1>1, <1>2, <1>3, EmptyKnown DEF Known, TreeTypes
  <2> QED BY <1>1, <1>2, <1>3, <2>1 DEF TreeTypes
<1>5. Numbers'
  <2>1. VersionUpto(c'.version, counter)
    BY <1>3, EmptyKnown
  <2> QED BY <1>1, <1>2, <1>3, <2>1 DEF TreeInv, Numbers
<1>6. Fresh' /\ Written'
  <2>1. c'.version.sstables = {}
    BY <1>3, EmptyKnown
  <2> QED BY <1>1, <1>2, <1>3, <2>1 DEF TreeInv, Fresh, Written
<1>7. ~lostUpdate' => Kept'
  BY <1>1, <1>2, <1>3 DEF TreeInv, Kept
<1>8. Saving'
  BY <1>1, <1>2, <1>3 DEF TreeInv, Saving
<1> QED BY <1>1, <1>2, <1>4, <1>5, <1>6, <1>7, <1>8, TreeStep DEF TreeInv

\* The compaction removes its inputs from the disk.
LEMMA CompactRemoveStep ==
    ASSUME Inv, CompactRemove
    PROVE  Inv'
<1>1. /\ UNCHANGED <<logState, w, rd, proc, cache>> /\ UNCHANGED memoryState
      /\ UNCHANGED <<counter, tables, version, save, metaFile, levelsFile, lostUpdate, f>>
      /\ proc = "up" /\ c.pc = "remove" /\ files' = files \ c.ids
      /\ c' = [c EXCEPT !.pc = "cache"]
  BY DEF CompactRemove, logState, memoryState, memVars, logVars, readVars, raceVars,
         boundVars
<1>2. TreeTypes /\ TreeInv /\ MemoryTypes' /\ c \in CompactRecord
  BY <1>1, MemorySame DEF Inv, Types, TreeTypes
<1>3. /\ c' \in CompactRecord /\ c'.pc = "cache" /\ c'.version = c.version
      /\ c'.id = c.id /\ c'.table = c.table /\ c'.ids = c.ids /\ c'.level = c.level
  BY <1>1, <1>2 DEF CompactRecord
<1>4. TreeTypes'
  <2>1. Known(version)' /\ Known(f.version)' /\ Known(c.version)'
    BY <1>1, <1>2, <1>3 DEF Known, TreeTypes
  <2> QED BY <1>1, <1>2, <1>3, <2>1 DEF TreeTypes
<1>5. Numbers'
  BY <1>1, <1>2, <1>3 DEF TreeInv, Numbers
<1>6. Fresh' /\ Written'
  BY <1>1, <1>2, <1>3 DEF TreeInv, Fresh, Written
<1>7. ~lostUpdate' => Kept'
  BY <1>1, <1>2, <1>3 DEF TreeInv, Kept
<1>8. Saving'
  BY <1>1, <1>2, <1>3 DEF TreeInv, Saving
<1> QED BY <1>1, <1>2, <1>4, <1>5, <1>6, <1>7, <1>8, TreeStep DEF TreeInv

\* The compaction clears the cache and goes on with the next level.
LEMMA CompactCacheStep ==
    ASSUME Inv, CompactCache
    PROVE  Inv'
<1>1. /\ UNCHANGED <<logState, w, rd, proc>> /\ UNCHANGED memoryState
      /\ UNCHANGED <<counter, tables, files, version, save, metaFile, levelsFile,
                     lostUpdate, f>>
      /\ proc = "up" /\ c.pc = "cache" /\ cache' = CacheClear
      /\ c' = [CompactStart EXCEPT !.pc = "level", !.level = c.level + 1]
  BY DEF CompactCache, logState, memoryState, memVars, fileVars, logVars, readVars,
         raceVars, boundVars
<1>2. TreeTypes /\ TreeInv /\ MemoryTypes' /\ c \in CompactRecord
  BY <1>1, MemorySame DEF Inv, Types, TreeTypes
<1>3. c.level + 1 \in Levels
  BY <1>1, <1>2 DEF TreeTypes, CompactRecord, Levels
<1>4. /\ c' \in CompactRecord /\ c'.version = EmptyVersion /\ c'.id = 0 /\ c'.ids = {}
      /\ c'.pc = "level"
  BY <1>1, <1>3, EmptyKnown, EmptyContents DEF CompactRecord, CompactStart
<1>5. TreeTypes' /\ TreeInv'
  BY <1>1, <1>2, <1>4, CompactMoves
<1> QED BY <1>1, <1>2, <1>5, TreeStep

\* An exception leaves the compaction thread.
LEMMA CompactThrowStep ==
    ASSUME Inv, CompactThrow
    PROVE  Inv'
<1>1. /\ UNCHANGED <<treeState, memoryState, logState, w, readState>> /\ UNCHANGED tables
      /\ proc' = "failed"
  BY DEF CompactThrow, treeState, memoryState, logState, readState, memVars, fileVars,
         logVars, readVars, raceVars, boundVars
<1>2. MemoryTypes' /\ LogTypes' /\ WriterTypes' /\ ReaderTypes' /\ TreeTypes'
  BY <1>1, MemorySame, LogSame, WriterSame, ReadSame, TreeSame DEF Inv, Types
<1> QED BY <1>1, <1>2 DEF Inv, Types

-----------------------------------------------------------------------------
(* The process dies and is started again.                                  *)

\* What the constructor reads of metadata.txt and levels.txt.
Read(levels) ==
    LET known == metaFile \ {<<>>}
    IN  /\ levels = IF known = {} \/ levelsFile = {} THEN EmptyVersion.levels
                    ELSE CHOOSE ls \in levelsFile : TRUE
        /\ counter' = Max({0} \cup {m[1] : m \in known})
        /\ version' = LoadedVersion(levels, files)
        /\ seq' = IF log = <<>> THEN Max({1} \cup {m[2] : m \in known})
                  ELSE Max({Max({1} \cup {m[2] : m \in known})}
                               \cup {r.seq : r \in Range(log)}) + 1

\* std::max of two numbers
LEMMA MaxOfTwo ==
    ASSUME NEW a \in Nat, NEW b \in Nat
    PROVE  Max({a, b}) \in Nat /\ a <= Max({a, b}) /\ b <= Max({a, b})
<1> DEFINE S == {a, b}
<1>1. S \in SUBSET Nat /\ S # {} /\ a + b \in Nat /\ \A n \in S : n <= a + b
  OBVIOUS
<1>2. a \in S /\ b \in S
  OBVIOUS
<1> HIDE DEF S
<1>3. Max(S) \in S /\ \A n \in S : n <= Max(S)
  BY <1>1, MaxNat
<1>4. Max(S) \in Nat /\ a <= Max(S) /\ b <= Max(S)
  BY <1>1, <1>2, <1>3
<1> QED BY <1>4 DEF S

\* The counters that it reads are numbers, and the levels are the saved ones.
LEMMA RestartCounters ==
    ASSUME Inv, proc = "up", NEW levels, Read(levels)
    PROVE  /\ counter' \in Nat /\ seq' \in Nat /\ 1 <= seq'
           /\ \A r \in Range(log) : r.seq < seq'
           /\ levels \in [Levels -> Seq(Metas)] /\ LevelsUpto(levels, counter')
           /\ metaFile # {<<>>} =>
                  /\ \A ls \in levelsFile : LevelsUpto(ls, counter')
                  /\ levels = IF levelsFile = {} THEN EmptyVersion.levels
                              ELSE CHOOSE ls \in levelsFile : TRUE
<1> DEFINE known == metaFile \ {<<>>}
           A == {0} \cup {m[1] : m \in known}
           B == {1} \cup {m[2] : m \in known}
<1>1. TreeTypes /\ Numbers /\ Saving /\ LogTypes
  BY DEF Inv, Types, TreeInv
<1>2. \/ known = {}
      \/ \E m \in Nat \X Nat : known = {m} /\ metaFile = {m}
  <2>1. \A m \in known : m \in Nat \X Nat /\ metaFile = {m} /\ known = {m}
    BY <1>1 DEF TreeTypes
  <2> QED BY <2>1
<1>3. /\ levels = IF known = {} \/ levelsFile = {} THEN EmptyVersion.levels
                  ELSE CHOOSE ls \in levelsFile : TRUE
      /\ counter' = Max(A)
      /\ seq' = IF log = <<>> THEN Max(B) ELSE Max({Max(B)} \cup {r.seq : r \in Range(log)}) + 1
  BY DEF Read
<1>4. /\ Max(A) \in Nat /\ \A m \in known : m[1] \in Nat /\ m[1] <= Max(A)
      /\ Max(B) \in Nat /\ 1 <= Max(B)
  <2>1. CASE known = {}
    <3>1. A = {0, 0} /\ B = {1, 1}
      BY <2>1
    <3>2. Max({0, 0}) \in Nat /\ Max({1, 1}) \in Nat /\ 1 <= Max({1, 1})
      <4>1. Max({0, 0}) \in Nat
        BY MaxOfTwo
      <4>2. Max({1, 1}) \in Nat /\ 1 <= Max({1, 1})
        BY MaxOfTwo
      <4> QED BY <4>1, <4>2
    <3> HIDE DEF A, B, known
    <3> QED BY <2>1, <3>1, <3>2
  <2>2. ASSUME NEW m \in Nat \X Nat, known = {m}
        PROVE  /\ Max(A) \in Nat /\ \A x \in known : x[1] \in Nat /\ x[1] <= Max(A)
               /\ Max(B) \in Nat /\ 1 <= Max(B)
    <3>1. PICK a \in Nat, b \in Nat : m[1] = a /\ m[2] = b
      OBVIOUS
    <3>2. A = {0, a} /\ B = {1, b}
      BY <2>2, <3>1
    <3>3. /\ Max({0, a}) \in Nat /\ a <= Max({0, a})
          /\ Max({1, b}) \in Nat /\ 1 <= Max({1, b})
      <4>1. Max({0, a}) \in Nat /\ a <= Max({0, a})
        BY MaxOfTwo
      <4>2. Max({1, b}) \in Nat /\ 1 <= Max({1, b})
        BY MaxOfTwo
      <4> QED BY <4>1, <4>2
    <3> HIDE DEF A, B, known
    <3> QED BY <2>2, <3>1, <3>2, <3>3
  <2> QED BY <1>2, <2>1, <2>2
<1>5. seq' \in Nat /\ 1 <= seq' /\ \A r \in Range(log) : r.seq < seq'
  <2>1. Max(B) \in Nat /\ 1 <= Max(B) /\ seq \in Nat /\ log \in Seq(Records)
    BY <1>1, <1>4 DEF LogTypes
  <2> DEFINE start == Max(B)
             S == {start} \cup {r.seq : r \in Range(log)}
  <2>2. start \in Nat /\ 1 <= start
    BY <2>1
  <2> HIDE DEF start
  <2>3. CASE log = <<>>
    BY <1>3, <2>2, <2>3 DEF Range, start
  <2>4. CASE log # <<>>
    <3>1. \A r \in Range(log) : r \in Records
      BY <2>1 DEF Range
    <3>2. \A r \in Range(log) : r.seq \in Nat /\ r.seq < seq
      BY <1>1, <3>1 DEF Records, LogTypes
    <3>3. S \in SUBSET Nat /\ S # {} /\ start + seq \in Nat /\ \A n \in S : n <= start + seq
      BY <2>1, <2>2, <3>2
    <3>4. seq' = Max(S) + 1 /\ \A r \in Range(log) : r.seq \in S
      BY <1>3, <2>4 DEF start
    <3> HIDE DEF S
    <3>5. Max(S) \in S /\ \A n \in S : n <= Max(S)
      BY <3>3, MaxNat
    <3>6. PICK n \in Nat : Max(S) = n
      BY <3>3, <3>5
    <3>7. seq' = n + 1 /\ n + 1 \in Nat /\ 1 <= n + 1
      BY <3>4, <3>6
    <3>8. \A r \in Range(log) : r.seq \in Nat /\ r.seq <= n
      BY <3>2, <3>4, <3>5, <3>6
    <3> QED BY <3>7, <3>8
  <2> QED BY <2>3, <2>4
<1> HIDE DEF A, B
<1>6. ASSUME NEW m \in Nat \X Nat, known = {m}, NEW ls \in levelsFile
      PROVE  LevelsUpto(ls, counter')
  <2>1. m[1] \in Nat /\ counter' \in Nat /\ m[1] <= counter'
    BY <1>3, <1>4, <1>6
  <2>2. LevelsUpto(ls, m[1]) /\ ls \in [Levels -> Seq(Metas)]
    BY <1>1, <1>6 DEF Numbers, TreeTypes
  <2> QED BY <2>1, <2>2, UptoGrows
<1>7. levels \in [Levels -> Seq(Metas)] /\ LevelsUpto(levels, counter')
  <2>1. CASE known = {} \/ levelsFile = {}
    BY <1>3, <2>1, EmptyKnown
  <2>2. CASE known # {} /\ levelsFile # {}
    <3>1. levels \in levelsFile
      BY <1>3, <2>2
    <3>2. levels \in [Levels -> Seq(Metas)]
      BY <1>1, <3>1 DEF TreeTypes
    <3> QED BY <1>2, <1>6, <2>2, <3>1, <3>2
  <2> QED BY <2>1, <2>2
<1>8. ASSUME metaFile # {<<>>}
      PROVE  /\ \A ls \in levelsFile : LevelsUpto(ls, counter')
             /\ levels = IF levelsFile = {} THEN EmptyVersion.levels
                         ELSE CHOOSE ls \in levelsFile : TRUE
  <2>1. CASE known = {}
    <3>1. metaFile = {}
      BY <1>1, <1>8, <2>1 DEF TreeTypes
    <3>2. levelsFile = {}
      BY <1>1, <3>1 DEF Saving
    <3> QED BY <1>3, <2>1, <3>2
  <2>2. CASE known # {}
    BY <1>2, <1>3, <1>6, <2>2
  <2> QED BY <2>1, <2>2
<1> QED BY <1>3, <1>4, <1>5, <1>7, <1>8

\* The constructor, after a crash.
LEMMA CrashRestartStep ==
    ASSUME Inv, CrashRestart
    PROVE  Inv'
<1>1. /\ proc = "up" /\ proc' = IF metaFile = {<<>>} THEN "failed" ELSE "up"
      /\ UNCHANGED <<tables, files, metaFile, levelsFile, log, gets, flushes>>
      /\ crashes' = crashes + 1
      /\ memtable' = Replayed(log) /\ immutable' = {} /\ cache' = CacheClear
      /\ pending' = FALSE /\ needed' = FALSE
      /\ linked' = TRUE /\ walBuf' = <<>> /\ walSyncing' = <<>>
      /\ w' = WriterStart /\ cf' = CheckFlushStart
      /\ f' = FlushStart /\ c' = CompactStart /\ save' = NotSaving /\ rd' = ReadersStart
      /\ lostUpdate' = FALSE /\ lostWrite' = FALSE
      /\ disorder' = (disorder \/ \E id \in version'.sstables : Misplaced(id)')
  BY DEF CrashRestart, fileVars
<1>2. PICK levels : Read(levels)
  BY DEF CrashRestart, Read
<1>3. /\ counter' \in Nat /\ seq' \in Nat /\ \A r \in Range(log) : r.seq < seq'
      /\ levels \in [Levels -> Seq(Metas)] /\ LevelsUpto(levels, counter')
      /\ metaFile # {<<>>} =>
             /\ \A ls \in levelsFile : LevelsUpto(ls, counter')
             /\ levels = IF levelsFile = {} THEN EmptyVersion.levels
                         ELSE CHOOSE ls \in levelsFile : TRUE
  BY <1>1, <1>2, RestartCounters
<1>4. /\ version' = [levels |-> levels, sstables |-> IdsOf(levels) \cap files]
      /\ version'.levels = levels /\ version'.sstables = IdsOf(levels) \cap files
  BY <1>2 DEF Read, LoadedVersion
<1>5. TreeTypes /\ Numbers /\ Saving /\ LogTypes /\ MemoryTypes
  BY <1>1 DEF Inv, Types, TreeInv
<1>6. MemoryTypes'
  <2>1. IsTable(Replayed(log), Keys)
    BY <1>5, ReplayedTable DEF LogTypes, Records
  <2>2. memtable' \in Contents
    BY <1>1, <2>1, ContentsTable
  <2>3. cf' \in [Callers -> CallerRecord]
    BY <1>1, EmptyContents DEF CheckFlushStart, CallerRecord
  <2>4. immutable' \in SUBSET Contents /\ \A t \in immutable' : immutable' = {t}
    BY <1>1
  <2>5. /\ {pending', needed', linked', lostUpdate', lostWrite', disorder'} \subseteq BOOLEAN
        /\ {gets', flushes', crashes'} \subseteq Nat
    <3>1. gets \in Nat /\ flushes \in Nat /\ crashes \in Nat
      BY <1>5 DEF MemoryTypes
    <3>2. gets' \in Nat /\ flushes' \in Nat /\ crashes' \in Nat
      BY <1>1, <3>1
    <3>3. pending' = FALSE /\ needed' = FALSE /\ linked' = TRUE /\ lostUpdate' = FALSE /\ lostWrite' = FALSE
      BY <1>1
    <3>5. disorder' \in BOOLEAN
      BY <1>1
    <3>4. {pending', needed', linked', lostUpdate', lostWrite', disorder'} \subseteq BOOLEAN
      BY <3>3, <3>5, Zenon
    <3> QED BY <3>2, <3>4
  <2> QED BY <2>2, <2>3, <2>4, <2>5 DEF MemoryTypes
<1>7. LogTypes'
  <2>1. <<>> \in Seq(Records) /\ Range(<<>>) = {}
    BY DEF Range
  <2> QED BY <1>1, <1>3, <1>5, <2>1 DEF LogTypes
<1>8. WriterTypes'
  BY <1>1 DEF WriterStart, WriterTypes, WriterRecord
<1>9. ReaderTypes'
  <2>1. cache' \in Seq(Node) /\ Len(cache') <= CacheSize
    BY <1>1, EngineAssumption DEF CacheClear
  <2>2. rd' = [r \in Readers |-> rd'[r]]
    BY <1>1 DEF ReadersStart
  <2>3. ASSUME NEW r \in Readers PROVE ReaderOk(rd[r])'
    BY <1>1, EmptyKnown DEF ReadersStart, ReaderOk, Known
  <2> QED BY <2>1, <2>2, <2>3 DEF ReaderTypes
<1>10. /\ f' \in FlushRecord /\ f'.pc = "test" /\ f'.version = EmptyVersion /\ f'.id = 0
       /\ c' \in CompactRecord /\ c'.pc = "test" /\ c'.version = EmptyVersion /\ c'.id = 0
       /\ c'.ids = {}
       /\ save' \in SaveRecord /\ save'.by = "none" /\ save'.step = "none"
       /\ save'.levels = EmptyVersion.levels
  BY <1>1, EmptyKnown, EmptyContents
     DEF FlushStart, CompactStart, NotSaving, FlushRecord, CompactRecord, SaveRecord, Levels
<1>11. TreeTypes'
  <2>1. files \subseteq DOMAIN tables /\ files \in SUBSET Nat
    BY <1>5 DEF TreeTypes
  <2>2. version' \in Versions(Metas)
    BY <1>3, <1>4, <2>1 DEF Versions
  <2>3. Known(version)' /\ Known(f.version)' /\ Known(c.version)'
    BY <1>1, <1>4, <1>10, <2>1, <2>2, EmptyKnown DEF Known
  <2> QED BY <1>1, <1>3, <1>5, <1>10, <2>3 DEF TreeTypes
<1>12. ASSUME proc' = "up" PROVE TreeInv'
  <2>1. metaFile # {<<>>}
    BY <1>1, <1>12
  <2>2. VersionUpto(version', counter')
    <3>1. \A id \in IdsOf(levels) : id <= counter'
      BY <1>3 DEF IdsOf, LevelsUpto
    <3> QED BY <1>3, <1>4, <3>1 DEF VersionUpto
  <2>3. Numbers'
    <3>1. /\ VersionUpto(f'.version, counter') /\ VersionUpto(c'.version, counter')
          /\ LevelsUpto(save'.levels, counter')
      BY <1>10, EmptyKnown
    <3>2. f'.id <= counter' /\ c'.id <= counter'
      BY <1>3, <1>10
    <3> QED BY <1>1, <1>3, <1>5, <1>10, <2>1, <2>2, <3>1, <3>2 DEF Numbers
  <2>4. Fresh' /\ Written'
    BY <1>10 DEF Fresh, Written
  <2>5. Kept'
    BY <1>1, <1>4, <1>10 DEF Kept
  <2>6. Saving'
    BY <1>1, <1>3, <1>4, <1>5, <1>10, <2>1 DEF Saving
  <2> QED BY <2>3, <2>4, <2>5, <2>6 DEF TreeInv
<1> QED BY <1>1, <1>6, <1>7, <1>8, <1>9, <1>11, <1>12 DEF Inv, Types

-----------------------------------------------------------------------------
(* The theorems.                                                           *)

\* Types, and what the flush thread, the compaction thread and saveMetadata owe
\* to one another (flushThreadLoop, compactL0toL1, compactlevelN, saveMetadata).
THEOREM InvCorrect == Spec => []Inv
<1>1. Init => Inv
  <2> SUFFICES ASSUME Init PROVE Inv
    OBVIOUS
  <2> USE DEF Init
  <2>1. MemoryTypes
    <3>1. memtable \in Contents
      BY EmptyContents
    <3>2. cf \in [Callers -> CallerRecord]
      BY EmptyContents DEF CheckFlushStart, CallerRecord
    <3>3. immutable \in SUBSET Contents /\ \A t \in immutable : immutable = {t}
      OBVIOUS
    <3>4. /\ {pending, needed, linked, lostUpdate, lostWrite, disorder} \subseteq BOOLEAN
          /\ {gets, flushes, crashes} \subseteq Nat
      <4>1. {pending, needed, linked, lostUpdate, lostWrite, disorder} \subseteq BOOLEAN
        BY Zenon
      <4>2. {gets, flushes, crashes} \subseteq Nat
        OBVIOUS
      <4> QED BY <4>1, <4>2
    <3> QED BY <3>1, <3>2, <3>3, <3>4 DEF MemoryTypes
  <2>2. LogTypes /\ WriterTypes
    BY DEF LogTypes, WriterTypes, WriterRecord, WriterStart, Range
  <2>3. /\ f \in FlushRecord /\ f.pc = "test" /\ f.version = EmptyVersion /\ f.id = 0
        /\ c \in CompactRecord /\ c.pc = "test" /\ c.version = EmptyVersion /\ c.id = 0
        /\ c.ids = {}
        /\ save \in SaveRecord /\ save.by = "none" /\ save.step = "none"
        /\ save.levels = EmptyVersion.levels
    BY EmptyKnown, EmptyContents
       DEF FlushStart, CompactStart, NotSaving, FlushRecord, CompactRecord, SaveRecord, Levels
  <2>4. DOMAIN tables = {}
    BY DEF EmptyTable
  <2>5. TreeTypes
    BY <2>3, <2>4, EmptyKnown DEF TreeTypes, Known
  <2>6. ReaderTypes
    <3>1. cache \in Seq(Node) /\ Len(cache) <= CacheSize
      BY EngineAssumption DEF CacheClear
    <3>2. rd = [r \in Readers |-> rd[r]] /\ \A r \in Readers : ReaderOk(rd[r])
      BY EmptyKnown DEF ReadersStart, ReaderOk, Known
    <3> QED BY <3>1, <3>2 DEF ReaderTypes
  <2>7. TreeInv
    <3>1. Numbers
      BY <2>3, EmptyKnown DEF Numbers
    <3>2. Fresh /\ Written /\ Saving
      BY <2>3 DEF Fresh, Written, Saving
    <3>3. Kept
      BY <2>3, EmptyKnown DEF Kept
    <3> QED BY <3>1, <3>2, <3>3 DEF TreeInv
  <2> QED BY <2>1, <2>2, <2>5, <2>6, <2>7 DEF Inv, Types
<1>2. Inv /\ [Next]_vars => Inv'
  <2> SUFFICES ASSUME Inv, [Next]_vars PROVE Inv'
    OBVIOUS
  <2>1. CASE WalSwap \/ WalPublish
    BY <2>1, WalSteps
  <2>2. CASE WriterPop \/ WriterStep
    BY <2>2, WriterEnds, WriterApplyStep, WriterLogStep, WriterInvalidateStep,
       WriterFlushStep DEF WriterStep
  <2>3. CASE \E t \in Flushers : FlushCall(t)
    <3>1. Flushers \subseteq Callers
      BY DEF Callers
    <3> QED BY <2>3, <3>1, CheckFlushSteps
  <2>4. CASE \E t \in Callers : CheckFlush(t)
    BY <2>4, CheckFlushSteps, FlushIdleSteps DEF CheckFlush
  <2>5. CASE SaveMetadata
    BY <2>5, SaveSteps
  <2>6. CASE FlushThread
    BY <2>6, FlushIdleSteps, FlushBuildStep, FlushCopyStep, FlushInstallStep, SaveCalls
       DEF FlushThread
  <2>7. CASE CompactionThread
    BY <2>7, CompactIdleSteps, CompactThrowStep, CompactBuildStep, CompactCopyStep,
       CompactInstallStep, SaveCalls, CompactRemoveStep, CompactCacheStep
       DEF CompactionThread
  <2>8. CASE \E r \in Readers, k \in Keys : GetBegin(r, k)
    BY <2>8, GetSteps
  <2>9. CASE \E r \in Readers : Get(r)
    BY <2>9, GetSteps
  <2>10. CASE CrashRestart
    BY <2>10, CrashRestartStep
  <2>11. CASE UNCHANGED vars
    <3>1. /\ UNCHANGED <<treeState, lostUpdate, proc>> /\ UNCHANGED memoryState
          /\ UNCHANGED logState /\ UNCHANGED w /\ UNCHANGED readState /\ UNCHANGED tables
      BY <2>11 DEF vars, treeState, memoryState, logState, readState, memVars, fileVars,
                   logVars, readVars, raceVars, boundVars
    <3>2. MemoryTypes' /\ LogTypes' /\ WriterTypes' /\ ReaderTypes'
      BY <3>1, MemorySame, LogSame, WriterSame, ReadSame DEF Inv, Types
    <3> QED BY <3>1, <3>2, QuietStep
  <2> QED BY <2>1, <2>2, <2>3, <2>4, <2>5, <2>6, <2>7, <2>8, <2>9, <2>10, <2>11 DEF Next
<1> QED BY <1>1, <1>2, PTL DEF Spec

\* What Inv says of files and levels.txt.
LEMMA InvFiles == Inv => FilesCurrent
<1> SUFFICES ASSUME Inv PROVE FilesCurrent
  OBVIOUS
<1>1. TypeOK
  <2>1. \A t \in Contents : DOMAIN t \subseteq Keys /\ Range(t) \subseteq Entry
    BY ContentsTable DEF IsTable, Range
  <2>2. \A t \in {memtable} \cup immutable \cup Range(tables) : t \in Contents
    BY DEF Inv, Types, MemoryTypes, TreeTypes, Range
  <2>3. Cardinality(immutable) <= 1
    <3>1. CASE immutable = {}
      BY <3>1, FS_EmptySet
    <3>2. ASSUME NEW t, immutable = {t} PROVE Cardinality(immutable) <= 1
      <4>1. Cardinality({t}) = 1
        BY FS_Singleton
      <4> QED BY <3>2, <4>1
    <3> QED BY <3>1, <3>2 DEF Inv, Types, MemoryTypes
  <2>4. version.sstables \subseteq DOMAIN tables /\ files \subseteq DOMAIN tables
    BY DEF Inv, Types, TreeTypes, Known
  <2>5. save.by \in {"none", "flush", "compact"}
    BY DEF Inv, Types, TreeTypes, SaveRecord
  <2>6. {seq, counter, gets, flushes, crashes} \subseteq Nat
    BY DEF Inv, Types, MemoryTypes, LogTypes, TreeTypes
  <2>7. /\ Len(cache) <= CacheSize /\ proc \in {"up", "failed"}
        /\ {pending, needed, linked, lostUpdate, lostWrite, disorder} \subseteq BOOLEAN
    BY DEF Inv, Types, MemoryTypes, ReaderTypes
  <2> QED BY <2>1, <2>2, <2>3, <2>4, <2>5, <2>6, <2>7 DEF TypeOK
<1>2. FilesExist
  BY DEF Inv, TreeInv, Kept, FilesExist
<1>3. LevelsFileCurrent
  BY DEF Inv, TreeInv, Saving, LevelsFileCurrent, MetadataMutexFree
<1> QED BY <1>1, <1>2, <1>3 DEF FilesCurrent

\* The files of the current version are on disk as long as no version has been
\* installed over another thread's, and levels.txt describes the current version
\* whenever no thread is between installing and saving (saveMetadata,
\* flushThreadLoop, compactL0toL1, compactlevelN, the constructor).
THEOREM FilesCorrect == Spec => []FilesCurrent
BY InvCorrect, InvFiles, PTL

\* get() throws for a missing file only if the version it searches is not the
\* current one any more (SSTable::getFile).
THEOREM ThrowsCorrect == Spec => ThrowsOnlyStale
<1>1. ASSUME Inv, NEW r \in Readers, GetThrow(r), ~lostUpdate
      PROVE  rd[r].version # version
  <2>1. proc = "up" /\ ~(NeededFiles(r) \subseteq opened \cup files)
    BY <1>1 DEF GetThrow
  <2>2. TreeTypes /\ ReaderOk(rd[r]) /\ version.sstables \subseteq files
    BY <1>1, <2>1 DEF Inv, Types, ReaderTypes, TreeInv, Kept
  <2>3. NeededFiles(r) \subseteq rd[r].version.sstables
    BY <2>2, LookupEntries DEF ReaderOk, NeededFiles
  <2> QED BY <2>1, <2>2, <2>3
<1>2. Inv => [\A r \in Readers : GetThrow(r) /\ ~lostUpdate => rd[r].version # version]_vars
  BY <1>1
<1> QED BY <1>2, InvCorrect, PTL DEF ThrowsOnlyStale

-----------------------------------------------------------------------------
(* No answered write is lost: where the entries of a key are, and that the *)
(* newer ones are found first.                                             *)

\* The callers of checkFlush that hold flush_mutex_, and those that have copied
\* the memtable; the flush thread with a memtable in its hands, and after its
\* version has been installed.
Locked == {"toSleep", "clear", "store"}
Handed == {"clear", "store"}
Busy == {"build", "copy", "install", "save", "saving", "cache", "null"}
Installed == {"save", "saving", "cache", "null"}

\* immutable_memtable_ holds what the flush thread works on, and it is set when
\* it was empty.
HandOvers ==
    /\ \A t, u \in Callers : cf[t].pc \in Locked /\ cf[u].pc \in Locked => t = u
    /\ \A t \in Callers : cf[t].pc \in Handed => immutable = {}
    /\ immutable = {} => ~pending
    /\ f.pc \in Busy => immutable = {f.table} /\ ~pending
    /\ f.pc \in {"copy", "install"} => f.id \in DOMAIN tables /\ tables[f.id] = f.table
    /\ w.pc # "checkFlush" => cf["writer"].pc = "idle"

\* The requests of the batch that are in the log, and those in the memtable.
Logged ==
    IF w.pc \in {"apply", "log"} THEN w.pos - 1
    ELSE IF w.pc = "invalidate" THEN w.pos
    ELSE IF w.pc = "pop" THEN 0 ELSE Len(w.batch)
Applied == IF w.pc = "log" THEN w.pos ELSE Logged

\* The number the next request will have.
NextSeq == IF w.pc = "log" THEN seq + 1 ELSE seq

\* The numbers of the last answered write of k and of those in the batch.
Due(k) ==
    {acked[k]} \cup {seq - Logged + i - 1 : i \in {j \in 1..Applied : w.batch[j].key = k}}

Acks == acked \in [Keys -> Nat] /\ lastDel \in [Keys -> Nat] /\ Logged < seq

\* The entries of k: in the memtable; in a copy of it or in the immutable one; those
\* that are in no table of the version, below the memtable and in all; in the
\* version's tables, and in those of L0 and L1.
Mem(k) == EntryOf(memtable, k)
Below(k) ==
    ImmutableEntry(k)
        \cup UNION {EntryOf(cf[t].snap, k) : t \in {u \in Callers : cf[u].pc \in Handed}}
Waiting(k) == HandedOver(k) \cup (IF f.pc \in Installed THEN {} ELSE ImmutableEntry(k))
Unfiled(k) == Mem(k) \cup Waiting(k)
Filed(k) == Stored(version, tables, k)
Top(k) == Found(version, tables, 0, k) \cup Found(version, tables, 1, k)

\* A lookup finds newer entries first, and none has a number still to be given.
Recent(mem, below, filed, n) ==
    /\ \A e \in mem \cup below \cup filed : e.seq < n
    /\ \A e \in mem, g \in below : NotOlder(e, g)
    /\ \A e \in mem \cup below, g \in filed : NotOlder(e, g)

Recency == \A k \in Keys : Recent(Mem(k), Below(k), Filed(k), NextSeq)

Orderly(v) == Readable(v, tables) /\ OneEach(v, tables)

\* The version that the constructor makes of levels.txt.
Saved(ls) == [levels |-> ls, sstables |-> IdsOf(ls)]

\* levels.txt, as it is and as it will be, can be read by a lookup and names files
\* that exist and are not to be removed.
SavedOrderly ==
    /\ save.by # "none" =>
           /\ Orderly(Saved(save.levels)) /\ IdsOf(save.levels) \subseteq files
           /\ c.pc \in {"saving", "remove"} => IdsOf(save.levels) \cap c.ids = {}
    /\ \A ls \in levelsFile :
           /\ Orderly(Saved(ls)) /\ IdsOf(ls) \subseteq files
           /\ c.pc = "remove" => IdsOf(ls) \cap c.ids = {}

\* A version about to be installed is made of the current one.
Installing ==
    /\ f.pc = "install" =>
           f.table # EmptyTable /\ f.version = AddSSTable(version, MetaOf(f.id, 0, f.table))
    /\ c.pc = "install" =>
           /\ c.table # EmptyTable
           /\ c.version = CompactedVersion(version, c.ids, MetaOf(c.id, c.level + 1, c.table))

\* A compaction merges what still can be merged.
Compacting ==
    /\ c.pc \in {"build", "copy", "install"} =>
           Mergeable(version, tables, c.level, c.ids) /\ Merged(Keys, tables, c.ids, c.table)
    /\ c.pc \in {"copy", "install"} => c.id \in DOMAIN tables /\ tables[c.id] = c.table

TreeOrder == Orderly(version) /\ SavedOrderly /\ Installing /\ Compacting

\* Write number n is there, or a later one, or delete number d explains its
\* absence; imm is what the immutable memtable holds, mem what is in memory only.
Covers(mem, imm, top, filed, d, n) ==
    \/ n = 0
    \/ /\ mem = {} /\ top = {} /\ \A e \in imm : e.type = "DELETE" /\ e.seq >= n
       /\ d >= n
    \/ \E e \in mem \cup filed :
           /\ \A g \in mem \cup filed : NotOlder(e, g)
           /\ e.seq >= n
           /\ e.type = "DELETE" => d >= n

Covered(k, n) ==
    Covers(Unfiled(k), ImmutableEntry(k), Top(k), Filed(k), lastDel[k], n)

Values ==
    \A k \in Keys :
        /\ ~lostWrite => \A n \in Due(k) : n <= NextSeq /\ Covered(k, n)
        /\ \A e \in Mem(k) \cup Below(k) : e.type = "DELETE" => lastDel[k] >= e.seq
        /\ f.pc \in Installed =>
               \A e \in ImmutableEntry(k) : e \in Filed(k) \/ e.type = "DELETE"

InOrder == Recency /\ TreeOrder /\ Values

VInv ==
    proc = "up" => /\ HandOvers /\ Acks
                   /\ lostUpdate => disorder
                   /\ ~disorder => InOrder

\* Membership in these sets.
LEMMA MemoryMembers ==
    ASSUME NEW k, NEW e
    PROVE  /\ e \in ImmutableEntry(k) <=> \E t \in immutable : e \in EntryOf(t, k)
           /\ e \in HandedOver(k) <=>
                  \E t \in Callers : cf[t].pc = "store" /\ e \in EntryOf(cf[t].snap, k)
           /\ e \in Below(k) <=>
                  \/ \E t \in Callers : cf[t].pc \in Handed /\ e \in EntryOf(cf[t].snap, k)
                  \/ e \in ImmutableEntry(k)
<1>1. e \in ImmutableEntry(k) <=> \E t \in immutable : e \in EntryOf(t, k)
  BY DEF ImmutableEntry
<1>2. e \in HandedOver(k) <=>
          \E t \in Callers : cf[t].pc = "store" /\ e \in EntryOf(cf[t].snap, k)
  BY DEF HandedOver
<1>3. e \in Below(k) <=>
          \/ \E t \in Callers : cf[t].pc \in Handed /\ e \in EntryOf(cf[t].snap, k)
          \/ e \in ImmutableEntry(k)
  BY DEF Below
<1> QED BY <1>1, <1>2, <1>3

\* The entries in memory have numbers, and there is one of a key in the memtable
\* and one below it (MemTable::get).
LEMMA MemoryEntries ==
    ASSUME Inv, HandOvers, NEW k
    PROVE  /\ \A e \in Mem(k) \cup Below(k) : e \in Entry
           /\ \A e, g \in Mem(k) : e = g
           /\ \A e, g \in Below(k) : e = g
           /\ Unfiled(k) \subseteq Mem(k) \cup Below(k)
           /\ ImmutableEntry(k) \subseteq Below(k)
<1>1. /\ memtable \in Contents /\ immutable \in SUBSET Contents
      /\ cf \in [Callers -> CallerRecord] /\ \A t \in immutable : immutable = {t}
  BY DEF Inv, Types, MemoryTypes
<1>2. \A t \in Callers : cf[t].snap \in Contents
  BY <1>1 DEF CallerRecord
<1>3. \A t \in Contents : EntryOf(t, k) \subseteq Entry
  BY EntryOfContents
<1>4. \A e \in Mem(k) \cup Below(k) : e \in Entry
  <2>1. Mem(k) \subseteq Entry
    BY <1>1, <1>3 DEF Mem
  <2>2. ASSUME NEW e \in Below(k) PROVE e \in Entry
    BY <1>1, <1>2, <1>3, <2>2, MemoryMembers
  <2> QED BY <2>1, <2>2
<1>5. \A e, g \in Mem(k) : e = g
  BY DEF Mem, EntryOf
<1>6. ASSUME NEW e \in Below(k), NEW g \in Below(k) PROVE e = g
  <2>1. CASE immutable = {}
    <3>1. ASSUME NEW x \in Below(k)
          PROVE  \E t \in Callers : cf[t].pc \in Handed /\ x \in EntryOf(cf[t].snap, k)
      BY <2>1, <3>1, MemoryMembers
    <3>2. \A t, u \in Callers : cf[t].pc \in Handed /\ cf[u].pc \in Handed => t = u
      BY DEF HandOvers, Handed, Locked
    <3> QED BY <1>6, <3>1, <3>2 DEF EntryOf
  <2>2. CASE immutable # {}
    <3>1. \A t \in Callers : cf[t].pc \notin Handed
      BY <2>2 DEF HandOvers
    <3>2. PICK t : immutable = {t}
      BY <1>1, <2>2
    <3>3. ASSUME NEW x \in Below(k) PROVE x \in EntryOf(t, k)
      BY <3>1, <3>2, <3>3, MemoryMembers
    <3> QED BY <1>6, <3>3 DEF EntryOf
  <2> QED BY <2>1, <2>2
<1>7. Unfiled(k) \subseteq Mem(k) \cup Below(k) /\ ImmutableEntry(k) \subseteq Below(k)
  <2>1. \A e : e \in HandedOver(k) \/ e \in ImmutableEntry(k) => e \in Below(k)
    BY MemoryMembers DEF Handed
  <2> QED BY <2>1 DEF Unfiled, Waiting
<1> QED BY <1>4, <1>5, <1>6, <1>7

\* What stays in order when entries only move down.
LEMMA RecentKept ==
    ASSUME NEW mem, NEW below, NEW filed, NEW n \in Nat, Recent(mem, below, filed, n),
           \A e \in mem \cup below \cup filed : e.seq \in Nat,
           \A e, g \in mem : e = g, \A e, g \in below : e = g,
           NEW mem2, NEW below2, NEW filed2, NEW m \in Nat, n <= m,
           mem2 \subseteq mem, below2 \subseteq below \/ below2 \subseteq mem,
           filed2 \subseteq filed \cup below
    PROVE  Recent(mem2, below2, filed2, m)
<1>1. \A e \in mem2 \cup below2 \cup filed2 : e.seq < m
  BY DEF Recent
<1>2. \A e \in mem2, g \in below2 : NotOlder(e, g)
  BY DEF Recent, NotOlder
<1>3. \A e \in mem2 \cup below2, g \in filed2 : NotOlder(e, g)
  BY DEF Recent, NotOlder
<1> QED BY <1>1, <1>2, <1>3 DEF Recent

\* The requests of a batch are numbered one after the other.
LEMMA DueNumbers ==
    ASSUME Inv, Acks
    PROVE  /\ seq \in Nat /\ Logged \in Nat /\ Applied \in Nat /\ NextSeq \in Nat
           /\ Logged <= Len(w.batch) /\ Applied <= Len(w.batch)
           /\ \A k \in Keys : Due(k) \subseteq Nat
<1>1. /\ seq \in Nat /\ w \in WriterRecord
      /\ w.pc \in {"apply", "log", "invalidate"} => w.pos \in 1..Len(w.batch)
  BY DEF Inv, Types, LogTypes, WriterTypes
<1>2. PICK n \in Nat : n = Len(w.batch)
  BY <1>1 DEF WriterRecord
<1>3. PICK p \in Nat : p = w.pos
  BY <1>1 DEF WriterRecord
<1>4. w.pc \in {"apply", "log", "invalidate"} => 1 <= p /\ p <= n
  BY <1>1, <1>2, <1>3
<1>5. /\ Logged = IF w.pc \in {"apply", "log"} THEN p - 1
                  ELSE IF w.pc = "invalidate" THEN p
                  ELSE IF w.pc = "pop" THEN 0 ELSE n
      /\ Applied = IF w.pc = "log" THEN p ELSE Logged
  BY <1>2, <1>3 DEF Logged, Applied
<1>6. Logged \in Nat /\ Applied \in Nat /\ Logged <= n /\ Applied <= n
  BY <1>4, <1>5
<1>7. NextSeq \in Nat
  BY <1>1 DEF NextSeq
<1>8. ASSUME NEW k \in Keys, NEW d \in Due(k) PROVE d \in Nat
  <2>1. acked[k] \in Nat /\ Logged < seq
    BY DEF Acks
  <2>2. \A i \in 1..Applied : seq - Logged + i - 1 \in Nat
    BY <1>1, <1>6, <2>1
  <2> QED BY <1>8, <2>1, <2>2 DEF Due
<1> QED BY <1>1, <1>2, <1>6, <1>7, <1>8

\* A step that moves no entry out of memory.
LEMMA ValuesKept ==
    ASSUME Inv, Acks, Values, UNCHANGED lastDel, lostWrite => lostWrite',
           NextSeq' \in Nat, NextSeq <= NextSeq',
           \A k \in Keys :
               /\ Due(k)' \subseteq Due(k)
               /\ Mem(k)' \cup Below(k)' \subseteq Mem(k) \cup Below(k)
               /\ ~lostWrite' => /\ Unfiled(k)' = Unfiled(k)
                                 /\ ImmutableEntry(k)' \subseteq ImmutableEntry(k) \cup Unfiled(k)
               /\ Filed(k)' = Filed(k) /\ Top(k)' = Top(k)
               /\ f'.pc \in Installed =>
                      \/ ImmutableEntry(k)' = {}
                      \/ f.pc \in Installed /\ ImmutableEntry(k)' \subseteq ImmutableEntry(k)
    PROVE  Values'
<1>1. NextSeq \in Nat /\ \A k \in Keys : Due(k) \subseteq Nat
  BY DueNumbers
<1>2. ASSUME NEW k \in Keys, ~lostWrite', NEW n \in Due(k)'
      PROVE  n <= NextSeq' /\ Covered(k, n)'
  <2>1. n \in Due(k) /\ n \in Nat /\ ~lostWrite
    BY <1>1, <1>2
  <2>2. n <= NextSeq /\ Covered(k, n)
    BY <2>1 DEF Values
  <2>3. n <= NextSeq'
    BY <1>1, <2>1, <2>2
  <2>4. /\ Unfiled(k)' = Unfiled(k) /\ Filed(k)' = Filed(k) /\ Top(k)' = Top(k)
        /\ ImmutableEntry(k)' \subseteq ImmutableEntry(k) \cup Unfiled(k)
        /\ lastDel'[k] = lastDel[k]
    BY <1>2
  <2>5. Covers(Unfiled(k)', ImmutableEntry(k)', Top(k)', Filed(k)', lastDel'[k], n)
    <3>1. Covers(Unfiled(k), ImmutableEntry(k), Top(k), Filed(k), lastDel[k], n)
      BY <2>2 DEF Covered
    <3> QED BY <2>4, <3>1 DEF Covers
  <2> QED BY <2>3, <2>5 DEF Covered
<1>3. ASSUME NEW k \in Keys, NEW e \in Mem(k)' \cup Below(k)', e.type = "DELETE"
      PROVE  lastDel'[k] >= e.seq
  <2>1. e \in Mem(k) \cup Below(k)
    BY <1>3
  <2> QED BY <1>3, <2>1 DEF Values
<1>4. ASSUME NEW k \in Keys, f'.pc \in Installed, NEW e \in ImmutableEntry(k)'
      PROVE  e \in Filed(k)' \/ e.type = "DELETE"
  <2>1. f.pc \in Installed /\ e \in ImmutableEntry(k) /\ Filed(k)' = Filed(k)
    BY <1>4
  <2> QED BY <2>1 DEF Values
<1> QED BY <1>2, <1>3, <1>4 DEF Values

\* The memtable, its copies and the immutable one stay what they are.
MemoryCalm ==
    /\ UNCHANGED <<memtable, immutable>>
    /\ \A t \in Callers : \/ cf'[t] = cf[t]
                          \/ cf[t].pc \notin Handed /\ cf'[t].pc \notin Handed
    /\ f.pc \in Installed <=> f'.pc \in Installed

\* What a reader sees of memory stays; an immutable memtable may be released.
MemoryKept(k) ==
    /\ Mem(k)' = Mem(k) /\ HandedOver(k)' = HandedOver(k)
    /\ ImmutableEntry(k)' \subseteq ImmutableEntry(k) /\ Waiting(k)' = Waiting(k)

\* ... and so do the entries they hold.
LEMMA CalmEntries ==
    ASSUME MemoryCalm, NEW k
    PROVE  /\ Mem(k)' = Mem(k) /\ Below(k)' = Below(k) /\ Unfiled(k)' = Unfiled(k)
           /\ ImmutableEntry(k)' = ImmutableEntry(k) /\ MemoryKept(k)
<1>1. memtable' = memtable /\ immutable' = immutable
  BY DEF MemoryCalm
<1>2. Mem(k)' = Mem(k)
  BY <1>1 DEF Mem
<1>3. ImmutableEntry(k)' = ImmutableEntry(k)
  BY <1>1 DEF ImmutableEntry
<1>4. \A t \in Callers : \A p \in Handed :
          \/ cf'[t] = cf[t]
          \/ cf[t].pc # p /\ cf'[t].pc # p
  BY DEF MemoryCalm
<1>5. {u \in Callers : cf'[u].pc \in Handed} = {u \in Callers : cf[u].pc \in Handed}
  BY <1>4
<1>6. {u \in Callers : cf'[u].pc = "store"} = {u \in Callers : cf[u].pc = "store"}
  BY <1>4 DEF Handed
<1>7. \A t \in Callers : cf[t].pc \in Handed => cf'[t] = cf[t]
  BY <1>4
<1>8. Below(k)' = Below(k)
  <2>1. {EntryOf(cf'[t].snap, k) : t \in {u \in Callers : cf'[u].pc \in Handed}}
            = {EntryOf(cf[t].snap, k) : t \in {u \in Callers : cf[u].pc \in Handed}}
    BY <1>5, <1>7
  <2> QED BY <1>3, <2>1 DEF Below
<1>9. HandedOver(k)' = HandedOver(k)
  <2>1. {EntryOf(cf'[t].snap, k) : t \in {u \in Callers : cf'[u].pc = "store"}}
            = {EntryOf(cf[t].snap, k) : t \in {u \in Callers : cf[u].pc = "store"}}
    BY <1>6, <1>7 DEF Handed
  <2> QED BY <2>1 DEF HandedOver
<1>10. Waiting(k)' = Waiting(k)
  BY <1>3, <1>9 DEF Waiting, MemoryCalm
<1>11. Unfiled(k)' = Unfiled(k)
  BY <1>2, <1>10 DEF Unfiled
<1> QED BY <1>2, <1>3, <1>8, <1>9, <1>10, <1>11 DEF MemoryKept

\* New files get numbers above those in use.
TablesKept == \A id \in DOMAIN tables : id <= counter => tables'[id] = tables[id]

\* What can be said of a version does not depend on other files.
LEMMA OrderlyKept ==
    ASSUME NEW v, Orderly(v), \A id \in v.sstables : tables'[id] = tables[id]
    PROVE  /\ Readable(v, tables') /\ OneEach(v, tables')
           /\ \A k : /\ \A l \in Levels : Found(v, tables', l, k) = Found(v, tables, l, k)
                     /\ Stored(v, tables', k) = Stored(v, tables, k)
<1>1. Readable(v, tables) /\ OneEach(v, tables)
  BY DEF Orderly
<1>2. /\ Readable(v, tables')
      /\ \A k : /\ \A l \in Levels : Found(v, tables', l, k) = Found(v, tables, l, k)
                /\ Stored(v, tables', k) = Stored(v, tables, k)
  BY <1>1, ReadableSame
<1>3. OneEach(v, tables')
  BY <1>1, <1>2 DEF OneEach
<1> QED BY <1>2, <1>3

\* The files of the current version have numbers in use.
LEMMA VersionKept ==
    ASSUME Inv, proc = "up", Orderly(version), UNCHANGED version, TablesKept
    PROVE  /\ Orderly(version)'
           /\ \A k : Filed(k)' = Filed(k) /\ Top(k)' = Top(k)
<1>1. \A id \in version.sstables : id \in DOMAIN tables /\ id <= counter
  BY DEF Inv, Types, TreeTypes, Known, Versions, TreeInv, Numbers, VersionUpto
<1>2. \A id \in version.sstables : tables'[id] = tables[id]
  BY <1>1 DEF TablesKept
<1>3. /\ Readable(version, tables') /\ OneEach(version, tables')
      /\ \A k : /\ \A l \in Levels : Found(version, tables', l, k) = Found(version, tables, l, k)
                /\ Stored(version, tables', k) = Stored(version, tables, k)
  BY <1>2, OrderlyKept
<1>4. 0 \in Levels /\ 1 \in Levels
  BY DEF Levels
<1>5. \A k : Filed(k)' = Filed(k) /\ Top(k)' = Top(k)
  BY <1>3, <1>4 DEF Filed, Top
<1> QED BY <1>3, <1>5 DEF Orderly

\* A step that changes neither version nor values, and moves entries down.
LEMMA MemoryStep ==
    ASSUME Inv, proc = "up", HandOvers, Acks, Recency, Values, Orderly(version),
           UNCHANGED <<version, lastDel>>, TablesKept, lostWrite => lostWrite',
           NextSeq' \in Nat, NextSeq <= NextSeq',
           \A k \in Keys :
               /\ Due(k)' \subseteq Due(k) /\ Mem(k)' \subseteq Mem(k)
               /\ Below(k)' \subseteq Below(k) \/ Below(k)' \subseteq Mem(k)
               /\ ~lostWrite' => /\ Unfiled(k)' = Unfiled(k)
                                 /\ ImmutableEntry(k)' \subseteq ImmutableEntry(k) \cup Unfiled(k)
               /\ f'.pc \in Installed =>
                      \/ ImmutableEntry(k)' = {}
                      \/ f.pc \in Installed /\ ImmutableEntry(k)' \subseteq ImmutableEntry(k)
    PROVE  Recency' /\ Values' /\ Orderly(version)'
<1>1. Orderly(version)' /\ \A k : Filed(k)' = Filed(k) /\ Top(k)' = Top(k)
  BY VersionKept
<1>2. NextSeq \in Nat
  BY DueNumbers
<1>3. ASSUME NEW k \in Keys
      PROVE  Recent(Mem(k)', Below(k)', Filed(k)', NextSeq')
  <2>1. /\ \A e \in Mem(k) \cup Below(k) : e \in Entry
        /\ \A e, g \in Mem(k) : e = g
        /\ \A e, g \in Below(k) : e = g
    BY MemoryEntries
  <2>2. \A e \in Filed(k) : e.seq \in Nat
    BY FoundFiles DEF Filed, Orderly, Readable
  <2>3. Recent(Mem(k), Below(k), Filed(k), NextSeq)
    BY DEF Recency
  <2>4. \A e \in Mem(k) \cup Below(k) \cup Filed(k) : e.seq \in Nat
    BY <2>1, <2>2 DEF Entry
  <2>5. Mem(k)' \subseteq Mem(k) /\ (Below(k)' \subseteq Below(k) \/ Below(k)' \subseteq Mem(k))
    OBVIOUS
  <2>6. Filed(k)' \subseteq Filed(k) \cup Below(k)
    BY <1>1
  <2> QED BY <1>2, <2>1, <2>3, <2>4, <2>5, <2>6, RecentKept
<1>4. Recency'
  BY <1>3 DEF Recency
<1>5. Values'
  <2>1. \A k \in Keys : Mem(k)' \cup Below(k)' \subseteq Mem(k) \cup Below(k)
    OBVIOUS
  <2> QED BY <1>1, <2>1, ValuesKept
<1> QED BY <1>1, <1>4, <1>5

\* A step outside flush thread, compaction thread and saveMetadata.
LEMMA QuietValues ==
    ASSUME Inv, VInv, proc = "up",
           UNCHANGED <<treeState, lastDel, lostUpdate, disorder>>, HandOvers', Acks',
           lostWrite => lostWrite', NextSeq' \in Nat, NextSeq <= NextSeq',
           \A k \in Keys :
               /\ Due(k)' \subseteq Due(k) /\ Mem(k)' \subseteq Mem(k)
               /\ Below(k)' \subseteq Below(k) \/ Below(k)' \subseteq Mem(k)
               /\ ~lostWrite' => /\ Unfiled(k)' = Unfiled(k)
                                 /\ ImmutableEntry(k)' \subseteq ImmutableEntry(k) \cup Unfiled(k)
               /\ f'.pc \in Installed => ImmutableEntry(k)' \subseteq ImmutableEntry(k)
    PROVE  VInv'
<1>1. HandOvers /\ Acks /\ (lostUpdate => disorder) /\ (~disorder => InOrder)
  BY DEF VInv
<1>2. UNCHANGED <<version, tables, files, f, c, save, levelsFile>> /\ TablesKept
  BY DEF treeState, TablesKept
<1>3. ASSUME ~disorder' PROVE InOrder'
  <2>1. Recency /\ TreeOrder /\ Values /\ Orderly(version)
    BY <1>1, <1>3 DEF InOrder, TreeOrder
  <2>2. Recency' /\ Values' /\ Orderly(version)'
    BY <1>1, <1>2, <2>1, MemoryStep
  <2>3. SavedOrderly'
    BY <1>2, <2>1 DEF TreeOrder, SavedOrderly, Orderly
  <2>4. Installing' /\ Compacting'
    BY <1>2, <2>1 DEF TreeOrder, Installing, Compacting
  <2> QED BY <2>2, <2>3, <2>4 DEF InOrder, TreeOrder
<1> QED BY <1>1, <1>3 DEF VInv

\* The writer thread neither writes nor answers.
LEMMA WriterCalm ==
    ASSUME Acks, UNCHANGED <<w, seq, acked, lastDel>>
    PROVE  /\ Acks' /\ NextSeq' = NextSeq /\ \A k : Due(k)' = Due(k)
BY DEF Acks, NextSeq, Due, Logged, Applied

\* The log, and get() in a client thread.
LEMMA OtherSteps ==
    ASSUME Inv, VInv,
           \/ WalSwap \/ WalPublish \/ UNCHANGED vars
           \/ \E r \in Readers, k \in Keys : GetBegin(r, k)
           \/ \E r \in Readers : Get(r)
    PROVE  VInv'
<1>1. /\ UNCHANGED treeState
      /\ UNCHANGED <<memtable, immutable, cf, pending, w, seq, acked, lastDel, lostWrite,
                     lostUpdate, disorder, proc>>
  <2> USE DEF treeState, memVars, fileVars, logVars, readVars, ackVars, raceVars, boundVars
  <2>1. CASE WalSwap \/ WalPublish
    BY <2>1 DEF WalSwap, WalPublish
  <2>2. CASE UNCHANGED vars
    BY <2>2 DEF vars
  <2>3. CASE \E r \in Readers, k \in Keys : GetBegin(r, k)
    BY <2>3 DEF GetBegin
  <2>4. ASSUME NEW r \in Readers, Get(r)
        PROVE  /\ UNCHANGED treeState
               /\ UNCHANGED <<memtable, immutable, cf, pending, w, seq, acked, lastDel, lostWrite,
                              lostUpdate, disorder, proc>>
    <3>1. CASE GetMemtable(r) \/ GetImmutable(r) \/ GetVersion(r)
      BY <3>1 DEF GetMemtable, GetImmutable, GetVersion
    <3>2. CASE GetSearch(r)
      BY <3>2 DEF GetSearch
    <3>3. CASE GetThrow(r) \/ GetFill(r)
      BY <3>3 DEF GetThrow, GetFill
    <3> QED BY <2>4, <3>1, <3>2, <3>3 DEF Get
  <2> QED BY <2>1, <2>2, <2>3, <2>4
<1> SUFFICES ASSUME proc' = "up" PROVE VInv'
  BY DEF VInv
<1>2. proc = "up" /\ HandOvers /\ Acks
  BY <1>1 DEF VInv
<1>3. HandOvers'
  BY <1>1, <1>2 DEF HandOvers, treeState
<1>4. MemoryCalm
  BY <1>1 DEF MemoryCalm, treeState
<1>5. NextSeq \in Nat
  BY <1>2, DueNumbers
<1>6. Acks' /\ NextSeq' = NextSeq /\ \A k : Due(k)' = Due(k)
  BY <1>1, <1>2, WriterCalm
<1>7. \A k : /\ Mem(k)' = Mem(k) /\ Below(k)' = Below(k) /\ Unfiled(k)' = Unfiled(k)
             /\ ImmutableEntry(k)' = ImmutableEntry(k)
  BY <1>4, CalmEntries
<1> QED BY <1>1, <1>2, <1>3, <1>5, <1>6, <1>7, QuietValues

\* A step of the writer thread or of checkFlush that leaves the entries alone.
LEMMA CalmValues ==
    ASSUME Inv, VInv, proc = "up", MemoryCalm, HandOvers', Acks',
           UNCHANGED <<treeState, lastDel, lostWrite, lostUpdate, disorder>>,
           NextSeq' \in Nat, NextSeq <= NextSeq', \A k \in Keys : Due(k)' \subseteq Due(k)
    PROVE  VInv'
<1>1. \A k : /\ Mem(k)' = Mem(k) /\ Below(k)' = Below(k) /\ Unfiled(k)' = Unfiled(k)
             /\ ImmutableEntry(k)' = ImmutableEntry(k)
  BY CalmEntries
<1> QED BY <1>1, QuietValues

\* The numbers of the batch stay what they are when one has been given.
LEMMA DueShift ==
    ASSUME UNCHANGED <<acked, lastDel>>, Acks, Logged' < seq',
           w'.batch = w.batch, seq' - Logged' = seq - Logged, Applied' = Applied
    PROVE  Acks' /\ \A k : Due(k)' = Due(k)
BY DEF Acks, Due

\* writerThreadLoop, except that it writes to the memtable.
LEMMA WriterSteps ==
    ASSUME Inv, VInv,
           WriterPop \/ WriterLog \/ WriterInvalidate \/ WriterFlush
    PROVE  VInv' /\ MemoryCalm /\ NextSeq' = NextSeq /\ \A k \in Keys : Due(k)' \subseteq Due(k)
<1>1. /\ UNCHANGED <<treeState, memtable, immutable, pending, acked, lastDel, lostWrite,
                     lostUpdate, disorder, proc>>
      /\ proc = "up"
  <2> USE DEF treeState, memVars, fileVars, ackVars, raceVars, boundVars
  <2> QED BY DEF WriterPop, WriterLog, WriterInvalidate, WriterFlush
<1>2. HandOvers /\ Acks
  BY <1>1 DEF VInv
<1>3. /\ seq \in Nat /\ w \in WriterRecord /\ Len(w.batch) \in Nat /\ w.pos \in Nat
      /\ w.pc \in {"apply", "log", "invalidate"} => w.pos \in 1..Len(w.batch)
  BY DEF Inv, Types, LogTypes, WriterTypes, WriterRecord
<1>4. NextSeq \in Nat /\ Logged < seq
  BY <1>2, DueNumbers DEF Acks
<1>5. /\ Acks' /\ NextSeq' = NextSeq /\ \A k \in Keys : Due(k)' \subseteq Due(k)
  <2>1. CASE WriterPop
    <3>1. w.pc = "pop" /\ w'.pc = "apply" /\ w'.pos = 1 /\ seq' = seq
      BY <2>1 DEF WriterPop, memVars
    <3>2. Logged' = 0 /\ Applied' = 0 /\ NextSeq' = seq /\ NextSeq = seq /\ Logged = 0
      BY <3>1 DEF Logged, Applied, NextSeq
    <3>3. \A k \in Keys : Due(k)' \subseteq Due(k)
      BY <1>1, <3>2 DEF Due
    <3>4. Acks'
      BY <1>1, <1>2, <1>4, <3>1, <3>2 DEF Acks
    <3> QED BY <3>2, <3>3, <3>4
  <2>2. CASE WriterLog
    <3>1. w.pc = "log" /\ w' = [w EXCEPT !.pc = "invalidate"] /\ seq' = seq + 1
      BY <2>2 DEF WriterLog
    <3>2. w'.pc = "invalidate" /\ w'.pos = w.pos /\ w'.batch = w.batch
      BY <1>3, <3>1 DEF WriterRecord
    <3>3. /\ Logged = w.pos - 1 /\ Applied = w.pos /\ Logged' = w.pos /\ Applied' = w.pos
          /\ NextSeq = seq + 1 /\ NextSeq' = seq + 1
      BY <3>1, <3>2 DEF Logged, Applied, NextSeq
    <3>4. seq' - Logged' = seq - Logged /\ Logged' < seq'
      BY <1>3, <1>4, <3>1, <3>3
    <3> QED BY <1>1, <1>2, <3>2, <3>3, <3>4, DueShift
  <2>3. CASE WriterInvalidate
    <3>1. /\ w.pc = "invalidate" /\ seq' = seq
          /\ w' = IF w.pos < Len(w.batch) THEN [w EXCEPT !.pc = "apply", !.pos = @ + 1]
                                          ELSE [w EXCEPT !.pc = "flush"]
      BY <2>3 DEF WriterInvalidate, memVars
    <3>2. /\ w'.batch = w.batch
          /\ \/ w'.pc = "apply" /\ w'.pos = w.pos + 1
             \/ w'.pc = "flush" /\ w.pos = Len(w.batch)
      BY <1>3, <3>1 DEF WriterRecord
    <3>3. /\ Logged = w.pos /\ Applied = w.pos /\ NextSeq = seq /\ NextSeq' = seq
          /\ Logged' = w.pos /\ Applied' = w.pos
      BY <1>3, <3>1, <3>2 DEF Logged, Applied, NextSeq
    <3>4. seq' - Logged' = seq - Logged /\ Logged' < seq'
      BY <1>4, <3>1, <3>3
    <3> QED BY <1>1, <1>2, <3>2, <3>3, <3>4, DueShift
  <2>4. CASE WriterFlush
    <3>1. /\ w.pc = "flush" /\ seq' = seq /\ \E p \in {"checkFlush", "ack"} : w' = [w EXCEPT !.pc = p]
      BY <2>4 DEF WriterFlush, memVars
    <3>2. w'.batch = w.batch /\ w'.pc \in {"checkFlush", "ack"}
      BY <1>3, <3>1 DEF WriterRecord
    <3>3. /\ Logged = Len(w.batch) /\ Applied = Logged /\ NextSeq = seq /\ NextSeq' = seq
          /\ Logged' = Len(w.batch) /\ Applied' = Logged'
      BY <3>1, <3>2 DEF Logged, Applied, NextSeq
    <3>4. seq' - Logged' = seq - Logged /\ Logged' < seq' /\ Applied' = Applied
      BY <1>4, <3>1, <3>3
    <3> QED BY <1>1, <1>2, <3>2, <3>3, <3>4, DueShift
  <2> QED BY <2>1, <2>2, <2>3, <2>4
<1>6. MemoryCalm /\ HandOvers'
  <2>1. CASE WriterFlush /\ cf' # cf
    <3>1. w.pc = "flush" /\ w'.pc = "checkFlush" /\ cf' = [cf EXCEPT !["writer"].pc = "wal"]
      BY <1>3, <2>1 DEF WriterFlush, WriterRecord
    <3>2. cf["writer"].pc = "idle" /\ "writer" \in Callers /\ cf \in [Callers -> CallerRecord]
      BY <1>2, <3>1 DEF HandOvers, Callers, Inv, Types, MemoryTypes
    <3>3. /\ cf'["writer"].pc = "wal"
          /\ \A t \in Callers : t # "writer" => cf'[t] = cf[t]
      BY <3>1, <3>2 DEF CallerRecord
    <3>4. MemoryCalm
      BY <1>1, <3>2, <3>3 DEF MemoryCalm, Handed, treeState
    <3>5. \A t \in Callers : cf'[t].pc \in Locked => cf'[t] = cf[t]
      BY <3>3 DEF Locked
    <3>6. HandOvers'
      BY <1>1, <1>2, <3>1, <3>5 DEF HandOvers, treeState, Handed, Locked
    <3> QED BY <3>4, <3>6
  <2>2. CASE cf' = cf
    <3>1. w.pc # "checkFlush"
      BY DEF WriterPop, WriterLog, WriterInvalidate, WriterFlush
    <3>2. MemoryCalm
      BY <1>1, <2>2 DEF MemoryCalm, treeState
    <3> QED BY <1>1, <1>2, <2>2, <3>1, <3>2 DEF HandOvers, treeState
  <2>3. WriterPop \/ WriterLog \/ WriterInvalidate => cf' = cf
    BY DEF WriterPop, WriterLog, WriterInvalidate
  <2> QED BY <2>1, <2>2, <2>3
<1> QED BY <1>1, <1>4, <1>5, <1>6, CalmValues

\* The answers of a batch: the last one of a key is one of those that were due.
LEMMA WriterAckValues ==
    ASSUME Inv, VInv, WriterAck
    PROVE  /\ VInv' /\ MemoryCalm /\ NextSeq' = NextSeq
           /\ \A k \in Keys : /\ Due(k)' \subseteq Due(k)
                              /\ acked'[k] \in Due(k) /\ acked[k] <= acked'[k]
<1>1. /\ UNCHANGED <<treeState, memtable, immutable, pending, cf, seq, lastDel, lostWrite,
                     lostUpdate, disorder, proc>>
      /\ proc = "up" /\ w.pc = "ack" /\ w'.pc = "pop"
  BY DEF WriterAck, WriterStart, treeState, memVars, fileVars, raceVars, boundVars
<1>2. HandOvers /\ Acks
  BY <1>1 DEF VInv
<1>3. /\ seq \in Nat /\ w.batch \in Seq(Requests) /\ Len(w.batch) \in Nat
  BY DEF Inv, Types, LogTypes, WriterTypes, WriterRecord
<1>4. Logged = Len(w.batch) /\ Applied = Len(w.batch) /\ NextSeq = seq /\ Logged < seq
  BY <1>1, <1>2 DEF Logged, Applied, NextSeq, Acks
<1>5. Logged' = 0 /\ Applied' = 0 /\ NextSeq' = seq
  BY <1>1 DEF Logged, Applied, NextSeq
<1>6. ASSUME NEW k \in Keys
      PROVE  acked'[k] \in Due(k) /\ acked'[k] \in Nat /\ acked[k] <= acked'[k]
  <2>1. Due(k) = {acked[k]} \cup {SeqAt(i) : i \in {j \in DOMAIN w.batch : w.batch[j].key = k}}
    <3>1. DOMAIN w.batch = 1..Applied
      BY <1>3, <1>4
    <3> QED BY <1>4, <3>1 DEF Due, SeqAt
  <2>2. acked'[k] = Max(Due(k))
    BY <2>1 DEF WriterAck
  <2>3. Due(k) \subseteq Nat /\ Due(k) # {}
    BY <1>2, DueNumbers DEF Due
  <2>4. PICK b \in Nat : b = seq + acked[k] /\ acked[k] \in Nat
    BY <1>2, <1>3 DEF Acks
  <2> DEFINE D == Due(k)
  <2>6. \A n \in D : n <= b
    <3>1. \A i \in 1..Applied : seq - Logged + i - 1 <= b
      <4>1. PICK n \in Nat : n = Logged /\ n = Applied
        BY <1>3, <1>4
      <4>2. \A i \in 1..n : seq - n + i - 1 <= b
        BY <1>3, <2>4
      <4> QED BY <4>1, <4>2
    <3>2. acked[k] <= b
      BY <1>3, <2>4
    <3> QED BY <3>1, <3>2 DEF Due
  <2>5. Max(Due(k)) \in Due(k) /\ acked[k] <= Max(Due(k))
    <3>1. D \in SUBSET Nat /\ D # {} /\ acked[k] \in D
      BY <2>3 DEF Due
    <3> HIDE DEF D
    <3>2. Max(D) \in D /\ \A n \in D : n <= Max(D)
      BY <2>4, <2>6, <3>1, MaxNat
    <3> QED BY <3>1, <3>2 DEF D
  <2> QED BY <2>2, <2>3, <2>5
<1>7. \A k \in Keys : Due(k)' \subseteq Due(k)
  <2>1. \A k : Due(k)' = {acked'[k]}
    BY <1>5 DEF Due
  <2> QED BY <1>6, <2>1
<1>8. Acks'
  <2>1. acked' \in [Keys -> Nat]
    <3>1. acked' = [k \in Keys |-> acked'[k]]
      BY DEF WriterAck
    <3> QED BY <1>6, <3>1
  <2> QED BY <1>1, <1>2, <1>3, <1>4, <1>5, <2>1 DEF Acks
<1>9. MemoryCalm /\ HandOvers'
  BY <1>1, <1>2 DEF MemoryCalm, HandOvers, treeState
<1>10. VInv'
  BY <1>1, <1>3, <1>4, <1>5, <1>7, <1>8, <1>9, CalmValues
<1> QED BY <1>4, <1>5, <1>6, <1>7, <1>9, <1>10

\* memtable_.put or del: the newest entry of all.
LEMMA WriterApplyValues ==
    ASSUME Inv, VInv, WriterApply
    PROVE  VInv'
<1>15. PICK K, e : K = Request.key /\ e = [seq |-> seq, type |-> Request.type]
  OBVIOUS
<1>1. /\ UNCHANGED <<treeState, immutable, pending, cf, seq, acked, lostWrite, lostUpdate,
                     disorder, proc>>
      /\ proc = "up" /\ w.pc = "apply" /\ w' = [w EXCEPT !.pc = "log"]
      /\ memtable' = PutEntry(memtable, K, e)
      /\ lastDel' = IF e.type = "DELETE" THEN [lastDel EXCEPT ![K] = seq] ELSE lastDel
  BY <1>15 DEF WriterApply, treeState, memVars, fileVars, ackVars, raceVars, boundVars
<1>2. HandOvers /\ Acks /\ (lostUpdate => disorder) /\ (~disorder => InOrder)
  BY <1>1 DEF VInv
<1>3. /\ seq \in Nat /\ w \in WriterRecord /\ w.pos \in Nat /\ w.pos \in 1..Len(w.batch)
      /\ K \in Keys /\ Request.type \in {"PUT", "DELETE"}
  BY <1>1, <1>15, RequestType DEF Inv, Types, LogTypes, WriterTypes, WriterRecord
<1>4. /\ w'.pc = "log" /\ w'.pos = w.pos /\ w'.batch = w.batch
  BY <1>1, <1>3 DEF WriterRecord
<1>5. e \in Entry /\ e.seq = seq /\ e.type = Request.type
  BY <1>3, <1>15 DEF Entry
<1>6. /\ Logged = w.pos - 1 /\ Applied = w.pos - 1 /\ NextSeq = seq
      /\ Logged' = w.pos - 1 /\ Applied' = w.pos /\ NextSeq' = seq + 1 /\ seq' = seq
  BY <1>1, <1>4 DEF Logged, Applied, NextSeq
<1>7. /\ lastDel' \in [Keys -> Nat] /\ lastDel \in [Keys -> Nat]
      /\ e.type = "DELETE" => lastDel'[K] = seq
      /\ \A k \in Keys : lastDel'[k] = lastDel[k] \/ lastDel'[k] = seq
      /\ \A k \in Keys : k # K => lastDel'[k] = lastDel[k]
  BY <1>1, <1>2, <1>3, <1>5 DEF Acks
<1>8. /\ Mem(K)' = {e}
      /\ \A k : k # K => Mem(k)' = Mem(k)
  BY <1>1 DEF Mem, EntryOf, PutEntry, With
<1>9. \A k : /\ Below(k)' = Below(k) /\ ImmutableEntry(k)' = ImmutableEntry(k)
             /\ HandedOver(k)' = HandedOver(k)
             /\ Filed(k)' = Filed(k) /\ Top(k)' = Top(k)
  BY <1>1 DEF Below, ImmutableEntry, HandedOver, Filed, Top, treeState
<1>10. f' = f /\ version' = version /\ tables' = tables
  BY <1>1 DEF treeState
<1>11. \A k : k # K => Unfiled(k)' = Unfiled(k)
  BY <1>8, <1>9, <1>10 DEF Unfiled, Waiting
<1>12. HandOvers'
  BY <1>1, <1>2, <1>4 DEF HandOvers, treeState
<1>13. Acks'
  BY <1>1, <1>2, <1>6, <1>7 DEF Acks
<1>14. ASSUME InOrder PROVE InOrder'
  <2>1. Recency /\ TreeOrder /\ Values /\ Orderly(version)
    BY <1>14 DEF InOrder, TreeOrder
  <2>2. TreeOrder'
    BY <1>1, <2>1 DEF treeState, TreeOrder, Orderly, SavedOrderly, Installing, Compacting
  <2>3. ASSUME NEW k \in Keys
        PROVE  /\ \A g \in Mem(k) \cup Below(k) \cup Filed(k) : g.seq \in Nat /\ g.seq < seq
               /\ Unfiled(k) \subseteq Mem(k) \cup Below(k)
               /\ Recent(Mem(k), Below(k), Filed(k), seq)
    <3>1. \A g \in Mem(k) \cup Below(k) : g \in Entry
      BY <1>2, MemoryEntries
    <3>2. \A g \in Filed(k) : g.seq \in Nat
      BY <2>1, FoundFiles DEF Filed, Orderly, Readable
    <3>3. Recent(Mem(k), Below(k), Filed(k), seq)
      BY <1>6, <2>1 DEF Recency
    <3>4. Unfiled(k) \subseteq Mem(k) \cup Below(k)
      BY <1>2, MemoryEntries
    <3> QED BY <3>1, <3>2, <3>3, <3>4 DEF Recent, Entry
  <2>4. ASSUME NEW k \in Keys PROVE Recent(Mem(k)', Below(k)', Filed(k)', NextSeq')
    <3>1. CASE k = K
      BY <1>3, <1>5, <1>6, <1>8, <1>9, <2>3, <3>1 DEF Recent, NotOlder
    <3>2. CASE k # K
      BY <1>3, <1>6, <1>8, <1>9, <2>3, <3>2 DEF Recent
    <3> QED BY <3>1, <3>2
  <2>5. ASSUME NEW k \in Keys, ~lostWrite', NEW n \in Due(k)'
        PROVE  n <= NextSeq' /\ Covered(k, n)'
    <3>1. n \in Due(k) \/ (k = K /\ n = seq)
      <4>1. PICK q \in Nat : q = Logged /\ q = Applied /\ w.pos = q + 1
        BY <1>3, <1>6
      <4>2. Due(k)' = {acked[k]} \cup
                      {seq - q + i - 1 : i \in {j \in 1..(q + 1) : w.batch[j].key = k}}
        BY <1>1, <1>4, <1>6, <4>1 DEF Due
      <4>3. /\ acked[k] \in Due(k)
            /\ \A i \in 1..q : w.batch[i].key = k => seq - q + i - 1 \in Due(k)
        BY <4>1 DEF Due
      <4>4. CASE n = acked[k]
        BY <4>3, <4>4
      <4>5. ASSUME NEW i \in 1..(q + 1), w.batch[i].key = k, n = seq - q + i - 1
            PROVE  n \in Due(k) \/ (k = K /\ n = seq)
        <5>1. CASE i = q + 1
          <6>1. n = seq
            BY <1>3, <4>5, <5>1
          <6>2. k = K
            BY <1>15, <4>1, <4>5, <5>1 DEF Request
          <6> QED BY <6>1, <6>2
        <5>2. CASE i # q + 1
          <6>1. i \in 1..q
            BY <5>2
          <6> QED BY <4>3, <4>5, <6>1
        <5> QED BY <5>1, <5>2
      <4> QED BY <2>5, <4>2, <4>4, <4>5
    <3>2. n \in Nat /\ n <= seq
      <4>1. n \in Due(k) => n <= NextSeq /\ n \in Nat
        BY <1>1, <1>2, <2>1, <2>5, DueNumbers DEF Values
      <4> QED BY <1>3, <1>6, <3>1, <4>1
    <3>3. CASE k = K
      <4>1. e \in Unfiled(k)'
        BY <1>8, <3>3 DEF Unfiled, Waiting
      <4>2. ASSUME NEW g \in Unfiled(k)' \cup Filed(k)' PROVE NotOlder(e, g)
        <5>1. g = e \/ g \in Unfiled(k) \/ g \in Filed(k)
          BY <1>8, <1>9, <1>10, <3>3, <4>2 DEF Unfiled, Waiting
        <5>2. g = e \/ (g.seq \in Nat /\ g.seq < seq)
          BY <2>3, <5>1
        <5> QED BY <1>3, <1>5, <5>2 DEF NotOlder
      <4>3. e.seq >= n /\ (e.type = "DELETE" => lastDel'[k] >= n)
        BY <1>3, <1>5, <1>7, <3>2, <3>3
      <4>4. Covers(Unfiled(k)', ImmutableEntry(k)', Top(k)', Filed(k)', lastDel'[k], n)
        BY <4>1, <4>2, <4>3 DEF Covers
      <4> QED BY <1>3, <1>6, <3>2, <4>4 DEF Covered
    <3>4. CASE k # K
      <4>1. Covered(k, n)
        BY <1>1, <2>1, <2>5, <3>1, <3>4 DEF Values
      <4>2. Covers(Unfiled(k)', ImmutableEntry(k)', Top(k)', Filed(k)', lastDel'[k], n)
        BY <1>7, <1>9, <1>11, <3>4, <4>1 DEF Covered
      <4> QED BY <1>3, <1>6, <3>2, <4>2 DEF Covered
    <3> QED BY <3>3, <3>4
  <2>6. ASSUME NEW k \in Keys, NEW g \in Mem(k)' \cup Below(k)', g.type = "DELETE"
        PROVE  lastDel'[k] >= g.seq
    <3>1. CASE k = K /\ g = e
      BY <1>3, <1>5, <1>7, <2>6, <3>1
    <3>2. CASE g \in Mem(k) \cup Below(k)
      <4>1. lastDel[k] >= g.seq
        BY <2>1, <2>6, <3>2 DEF Values
      <4>2. g.seq \in Nat /\ g.seq < seq
        BY <2>3, <3>2
      <4> QED BY <1>3, <1>7, <4>1, <4>2
    <3> QED BY <1>8, <1>9, <2>6, <3>1, <3>2
  <2>7. ASSUME NEW k \in Keys, f'.pc \in Installed, NEW g \in ImmutableEntry(k)'
        PROVE  g \in Filed(k)' \/ g.type = "DELETE"
    BY <1>9, <1>10, <2>1, <2>7 DEF Values
  <2>8. Recency'
    BY <2>4 DEF Recency
  <2>9. Values'
    BY <2>5, <2>6, <2>7 DEF Values
  <2> QED BY <2>2, <2>8, <2>9 DEF InOrder
<1> QED BY <1>1, <1>2, <1>12, <1>13, <1>14 DEF VInv

\* A step of the flush thread, the compaction thread or saveMetadata that
\* installs no version.
LEMMA TreeValues ==
    ASSUME Inv, VInv, proc = "up",
           UNCHANGED <<version, w, seq, acked, lastDel, lostWrite, lostUpdate, disorder>>,
           TablesKept, HandOvers',
           \A k \in Keys :
               /\ Mem(k)' = Mem(k) /\ Below(k)' \subseteq Below(k)
               /\ Unfiled(k)' = Unfiled(k) /\ ImmutableEntry(k)' \subseteq ImmutableEntry(k)
               /\ f'.pc \in Installed => f.pc \in Installed \/ ImmutableEntry(k)' = {},
           InOrder => SavedOrderly' /\ Installing' /\ Compacting'
    PROVE  VInv'
<1>1. HandOvers /\ Acks /\ (lostUpdate => disorder) /\ (~disorder => InOrder)
  BY DEF VInv
<1>2. Acks' /\ NextSeq' = NextSeq /\ \A k : Due(k)' = Due(k)
  BY <1>1, WriterCalm
<1>3. NextSeq \in Nat
  BY <1>1, DueNumbers
<1>4. ASSUME InOrder PROVE InOrder'
  <2>1. Recency /\ Values /\ Orderly(version)
    BY <1>4 DEF InOrder, TreeOrder
  <2>2. Recency' /\ Values' /\ Orderly(version)'
    BY <1>1, <1>2, <1>3, <2>1, MemoryStep
  <2> QED BY <1>4, <2>2 DEF InOrder, TreeOrder
<1> QED BY <1>1, <1>2, <1>4 DEF VInv

\* ... and leaves memory alone.
LEMMA TreeCalm ==
    ASSUME Inv, VInv, proc = "up", MemoryCalm,
           UNCHANGED <<version, w, seq, acked, lastDel, lostWrite, lostUpdate, disorder>>,
           TablesKept, HandOvers', InOrder => SavedOrderly' /\ Installing' /\ Compacting'
    PROVE  VInv'
<1>1. \A k : /\ Mem(k)' = Mem(k) /\ Below(k)' = Below(k) /\ Unfiled(k)' = Unfiled(k)
             /\ ImmutableEntry(k)' = ImmutableEntry(k)
  BY CalmEntries
<1>2. f'.pc \in Installed => f.pc \in Installed
  BY DEF MemoryCalm
<1> QED BY <1>1, <1>2, TreeValues

\* A client calls flush(), waits for the log, waits for the last memtable.
LEMMA CallerSteps ==
    ASSUME Inv, VInv, NEW t \in Callers,
           \/ FlushCall(t) \/ CheckFlushWal(t) \/ CheckFlushTest(t) \/ CheckFlushSleep(t)
           \/ CheckFlushRemove(t)
    PROVE  VInv' /\ MemoryCalm /\ NextSeq' = NextSeq /\ \A k : Due(k)' = Due(k)
<1> USE DEF FlushCall, CheckFlushWal, CheckFlushTest, CheckFlushSleep, CheckFlushRemove
<1>1. /\ UNCHANGED <<treeState, memtable, immutable, pending, seq, acked, lastDel,
                     lostWrite, lostUpdate, disorder, proc>>
      /\ proc = "up"
  BY DEF treeState, memVars, fileVars, ackVars, raceVars, boundVars
<1>2. HandOvers /\ Acks
  BY <1>1 DEF VInv
<1>3. cf \in [Callers -> CallerRecord] /\ w \in WriterRecord
  BY DEF Inv, Types, MemoryTypes, WriterTypes
<1>4. PICK p \in {"wal", "lock", "toSleep", "asleep", "idle"} :
          /\ cf' = [cf EXCEPT ![t].pc = p]
          /\ p = "toSleep" => FlushMutexFree /\ cf[t].pc = "lock"
          /\ p = "idle" => cf[t].pc = "remove"
          /\ cf[t].pc \notin Handed
          /\ cf[t].pc = "idle" => t # "writer"
          /\ \/ w' = w
             \/ t = "writer" /\ p = "idle" /\ w' = [w EXCEPT !.pc = "ack"]
    BY DEF Handed
<1>5. cf'[t].pc = p /\ \A u \in Callers : u # t => cf'[u] = cf[u]
  BY <1>3, <1>4 DEF CallerRecord
<1>6. MemoryCalm
  BY <1>1, <1>4, <1>5 DEF MemoryCalm, treeState, Handed
<1>7. NextSeq \in Nat
  BY <1>2, DueNumbers
<1>8. HandOvers'
  <2>1. \A u, v \in Callers : cf'[u].pc \in Locked /\ cf'[v].pc \in Locked => u = v
    <3>1. CASE p = "toSleep"
      BY <1>4, <1>5, <3>1 DEF FlushMutexFree, Locked
    <3>2. CASE p # "toSleep"
      BY <1>2, <1>5, <3>2 DEF HandOvers, Locked
    <3> QED BY <3>1, <3>2
  <2>2. \A u \in Callers : cf'[u].pc \in Handed => immutable' = {}
    BY <1>1, <1>2, <1>5 DEF HandOvers, Handed
  <2>3. w'.pc # "checkFlush" => cf'["writer"].pc = "idle"
    <3>1. CASE w' = w /\ t = "writer"
      <4>1. cf["writer"].pc # "idle"
        BY <1>4, <3>1
      <4> QED BY <1>2, <3>1, <4>1 DEF HandOvers
    <3>2. CASE w' = w /\ t # "writer"
      <4>1. cf'["writer"] = cf["writer"]
        BY <1>5, <3>2 DEF Callers
      <4> QED BY <1>2, <3>2, <4>1 DEF HandOvers
    <3>3. CASE t = "writer" /\ p = "idle"
      BY <1>5, <3>3
    <3> QED BY <1>4, <3>1, <3>2, <3>3
  <2> QED BY <1>1, <1>2, <2>1, <2>2, <2>3 DEF HandOvers, treeState
<1>9. Acks' /\ NextSeq' = NextSeq /\ \A k : Due(k)' = Due(k)
  <2>1. CASE w' = w
    BY <1>1, <1>2, <2>1, WriterCalm
  <2>2. CASE t = "writer" /\ p = "idle" /\ w' = [w EXCEPT !.pc = "ack"]
    <3>1. cf["writer"].pc # "idle"
      BY <1>4, <2>2
    <3>2. w.pc = "checkFlush"
      BY <1>2, <3>1 DEF HandOvers
    <3>3. w'.pc = "ack" /\ w'.batch = w.batch
      BY <1>3, <2>2 DEF WriterRecord
    <3>4. /\ Logged' = Logged /\ Applied' = Applied /\ NextSeq' = NextSeq
          /\ seq' = seq /\ seq' - Logged' = seq - Logged
      BY <1>1, <3>2, <3>3 DEF Logged, Applied, NextSeq
    <3>5. Logged' < seq'
      BY <1>2, <3>4 DEF Acks
    <3> QED BY <1>1, <1>2, <3>3, <3>4, <3>5, DueShift
  <2> QED BY <1>4, <2>1, <2>2
<1> QED BY <1>1, <1>6, <1>7, <1>8, <1>9, CalmValues

\* notify_one
LEMMA NotifyStep ==
    ASSUME Inv, VInv, NEW t \in Callers, CheckFlushNotify(t)
    PROVE  VInv' /\ MemoryCalm
<1>1. /\ UNCHANGED <<version, tables, files, c, save, levelsFile, memtable, immutable, pending,
                     w, seq, acked, lastDel, lostWrite, lostUpdate, disorder, proc>>
      /\ proc = "up" /\ cf[t].pc = "notify"
      /\ \/ f' = f
         \/ f.pc = "asleep" /\ f' = [f EXCEPT !.pc = "test"]
  BY DEF CheckFlushNotify, memVars, fileVars, ackVars, raceVars, boundVars
<1>2. HandOvers
  BY <1>1 DEF VInv
<1>3. cf \in [Callers -> CallerRecord] /\ f \in FlushRecord
  BY DEF Inv, Types, MemoryTypes, TreeTypes
<1>4. \/ f' = f
      \/ f.pc = "asleep" /\ f'.pc = "test"
  BY <1>1, <1>3 DEF FlushRecord
<1>5. \A u \in Callers : \/ cf'[u] = cf[u]
                         \/ u = t /\ cf'[u].pc = "remove"
                         \/ cf[u].pc = "asleep" /\ cf'[u].pc = "lock"
  <2>1. CASE cf' = [cf EXCEPT ![t].pc = "remove"]
    BY <1>3, <2>1 DEF CallerRecord
  <2>2. ASSUME NEW v \in Asleep, cf' = [cf EXCEPT ![t].pc = "remove", ![v].pc = "lock"]
        PROVE  \A u \in Callers : \/ cf'[u] = cf[u]
                                  \/ u = t /\ cf'[u].pc = "remove"
                                  \/ cf[u].pc = "asleep" /\ cf'[u].pc = "lock"
    <3>1. v # t /\ v \in Callers /\ cf[v].pc = "asleep"
      BY <1>1, <2>2 DEF Asleep
    <3> DEFINE g == [cf EXCEPT ![t].pc = "remove"]
    <3>2. /\ \A u \in Callers : u # t => g[u] = cf[u]
          /\ g[t].pc = "remove" /\ DOMAIN g = Callers
          /\ g[v] \in CallerRecord
      BY <1>3, <3>1 DEF CallerRecord
    <3>3. cf' = [g EXCEPT ![v].pc = "lock"]
      BY <2>2
    <3> HIDE DEF g
    <3>4. /\ \A u \in Callers : u # v => cf'[u] = g[u]
          /\ cf'[v].pc = "lock"
      BY <3>1, <3>2, <3>3 DEF CallerRecord
    <3> QED BY <3>1, <3>2, <3>4
  <2> QED BY <2>1, <2>2 DEF CheckFlushNotify
<1>6. MemoryCalm
  BY <1>1, <1>4, <1>5 DEF MemoryCalm, Installed, Handed
<1>7. HandOvers'
  <2>1. \A u \in Callers : cf'[u].pc \in Locked => cf'[u] = cf[u]
    BY <1>5 DEF Locked
  <2>2. w'.pc # "checkFlush" => cf'["writer"].pc = "idle"
    BY <1>1, <1>2, <1>5 DEF HandOvers, Callers
  <2>3. \A u, v \in Callers : cf'[u].pc \in Locked /\ cf'[v].pc \in Locked => u = v
    BY <1>2, <2>1 DEF HandOvers
  <2>4. \A u \in Callers : cf'[u].pc \in Handed => immutable' = {}
    BY <1>1, <1>2, <2>1 DEF HandOvers, Handed, Locked
  <2>5. /\ f'.pc \in Busy => immutable' = {f'.table} /\ ~pending'
        /\ f'.pc \in {"copy", "install"} => f'.id \in DOMAIN tables' /\ tables'[f'.id] = f'.table
    BY <1>1, <1>2, <1>4 DEF HandOvers, Busy
  <2> QED BY <1>1, <1>2, <2>2, <2>3, <2>4, <2>5 DEF HandOvers
<1>8. ASSUME InOrder PROVE SavedOrderly' /\ Installing' /\ Compacting'
  <2>1. SavedOrderly /\ Installing /\ Compacting
    BY <1>8 DEF InOrder, TreeOrder
  <2>2. f'.pc = "install" => f' = f
    BY <1>4
  <2> QED BY <1>1, <2>1, <2>2 DEF SavedOrderly, Installing, Compacting, Orderly
<1> QED BY <1>1, <1>6, <1>7, <1>8, TreeCalm DEF TablesKept

\* The copy of the memtable, the end of it, and the hand-over.
LEMMA HandOverSteps ==
    ASSUME Inv, VInv, NEW t \in Callers,
           CheckFlushSnapshot(t) \/ CheckFlushClear(t) \/ CheckFlushStore(t)
    PROVE  /\ VInv'
           /\ CheckFlushSnapshot(t) => \A k : MemoryKept(k)
           /\ CheckFlushClear(t) => \A k :
                  /\ Mem(k)' = {} /\ HandedOver(k) = {} /\ Waiting(k) = {}
                  /\ ~lostWrite' => HandedOver(k)' = Mem(k) /\ Waiting(k)' = Mem(k)
                  /\ ImmutableEntry(k) = {} /\ ImmutableEntry(k)' = {}
           /\ CheckFlushStore(t) => \A k :
                  /\ Mem(k)' = Mem(k) /\ HandedOver(k)' = {} /\ ImmutableEntry(k) = {}
                  /\ ImmutableEntry(k)' = HandedOver(k) /\ Waiting(k)' = Waiting(k)
                  /\ Waiting(k) = HandedOver(k)
<1>1. /\ UNCHANGED <<treeState, w, seq, acked, lastDel, lostUpdate, disorder, proc>>
      /\ proc = "up"
  BY DEF CheckFlushSnapshot, CheckFlushClear, CheckFlushStore, treeState, memVars, fileVars,
         ackVars, raceVars, boundVars
<1>2. HandOvers /\ Acks
  BY <1>1 DEF VInv
<1>3. cf \in [Callers -> CallerRecord]
  BY DEF Inv, Types, MemoryTypes
<1>4. Acks' /\ NextSeq' = NextSeq /\ \A k : Due(k)' = Due(k)
  BY <1>1, <1>2, WriterCalm
<1>5. NextSeq \in Nat
  BY <1>2, DueNumbers
<1>6. \A k, e : /\ e \in ImmutableEntry(k) <=> \E x \in immutable : e \in EntryOf(x, k)
                /\ e \in HandedOver(k) <=>
                      \E u \in Callers : cf[u].pc = "store" /\ e \in EntryOf(cf[u].snap, k)
                /\ e \in Below(k) <=>
                      \/ \E u \in Callers : cf[u].pc \in Handed /\ e \in EntryOf(cf[u].snap, k)
                      \/ e \in ImmutableEntry(k)
  BY MemoryMembers
<1>7. \A k, e : /\ e \in ImmutableEntry(k)' <=> \E x \in immutable' : e \in EntryOf(x, k)
                /\ e \in HandedOver(k)' <=>
                      \E u \in Callers : cf'[u].pc = "store" /\ e \in EntryOf(cf'[u].snap, k)
                /\ e \in Below(k)' <=>
                      \/ \E u \in Callers : cf'[u].pc \in Handed /\ e \in EntryOf(cf'[u].snap, k)
                      \/ e \in ImmutableEntry(k)'
  BY DEF ImmutableEntry, HandedOver, Below
<1>8. f' = f
  BY <1>1 DEF treeState
<1>9. CASE CheckFlushSnapshot(t)
  <2>1. /\ UNCHANGED <<memtable, immutable, pending, lostWrite>>
        /\ cf[t].pc = "lock" /\ FlushMutexFree /\ immutable = {}
        /\ cf' = [cf EXCEPT ![t] = [pc |-> "clear", snap |-> memtable]]
    BY <1>9 DEF CheckFlushSnapshot, memVars, raceVars
  <2>2. /\ cf'[t].pc = "clear" /\ cf'[t].snap = memtable
        /\ \A u \in Callers : u # t => cf'[u] = cf[u]
    BY <1>3, <2>1
  <2>3. \A u \in Callers : cf[u].pc \notin Handed /\ cf[u].pc \notin Locked
    BY <2>1 DEF FlushMutexFree, Handed, Locked
  <2>4. HandOvers'
    <3>1. \A u \in Callers : cf'[u].pc \in Locked => u = t
      BY <2>2, <2>3
    <3>2. w'.pc # "checkFlush" => cf'["writer"].pc = "idle"
      BY <1>1, <1>2, <2>1, <2>2 DEF HandOvers, Callers
    <3> QED BY <1>1, <1>2, <2>1, <3>1, <3>2 DEF HandOvers, treeState
  <2>5. ASSUME NEW k
        PROVE  /\ Mem(k)' = Mem(k) /\ Below(k)' \subseteq Mem(k)
               /\ ImmutableEntry(k)' = ImmutableEntry(k) /\ Unfiled(k)' = Unfiled(k)
               /\ MemoryKept(k)
    <3>1. Mem(k)' = Mem(k) /\ ImmutableEntry(k)' = ImmutableEntry(k) /\ ImmutableEntry(k) = {}
      BY <2>1 DEF Mem, ImmutableEntry
    <3>2. Below(k)' \subseteq Mem(k)
      BY <1>7, <2>2, <2>3, <3>1 DEF Mem
    <3>3. HandedOver(k)' = {} /\ HandedOver(k) = {}
      BY <1>6, <1>7, <2>2, <2>3 DEF Handed
    <3>4. Waiting(k)' = Waiting(k)
      BY <1>8, <3>1, <3>3 DEF Waiting
    <3> QED BY <3>1, <3>2, <3>3, <3>4 DEF Unfiled, MemoryKept
  <2>6. VInv'
    BY <1>1, <1>4, <1>5, <1>8, <2>1, <2>4, <2>5, QuietValues
  <2>7. ~CheckFlushClear(t) /\ ~CheckFlushStore(t)
    BY <2>1 DEF CheckFlushClear, CheckFlushStore
  <2> QED BY <2>5, <2>6, <2>7
<1>10. CASE CheckFlushClear(t)
  <2>1. /\ UNCHANGED <<immutable, pending>> /\ cf[t].pc = "clear"
        /\ memtable' = EmptyTable /\ lostWrite' = (lostWrite \/ memtable # cf[t].snap)
        /\ cf' = [cf EXCEPT ![t].pc = "store"]
    BY <1>10 DEF CheckFlushClear
  <2>2. /\ cf'[t].pc = "store" /\ cf'[t].snap = cf[t].snap
        /\ \A u \in Callers : u # t => cf'[u] = cf[u]
    BY <1>3, <2>1 DEF CallerRecord
  <2>3. /\ immutable = {}
        /\ \A u \in Callers : u # t => cf[u].pc \notin Locked /\ cf[u].pc \notin Handed
    BY <1>2, <2>1 DEF HandOvers, Handed, Locked
  <2>4. HandOvers'
    <3>1. \A u \in Callers : cf'[u].pc \in Locked => u = t
      BY <2>2, <2>3
    <3>2. w'.pc # "checkFlush" => cf'["writer"].pc = "idle"
      BY <1>1, <1>2, <2>1, <2>2 DEF HandOvers, Callers
    <3> QED BY <1>1, <1>2, <2>1, <2>3, <3>1, <3>2 DEF HandOvers, treeState
  <2>5. ASSUME NEW k
        PROVE  /\ Mem(k)' = {} /\ Below(k)' = Below(k)
               /\ ImmutableEntry(k)' = ImmutableEntry(k)
               /\ ~lostWrite' => Unfiled(k)' = Unfiled(k)
               /\ HandedOver(k) = {} /\ Waiting(k) = {} /\ ImmutableEntry(k) = {}
               /\ ~lostWrite' => HandedOver(k)' = Mem(k) /\ Waiting(k)' = Mem(k)
    <3>1. Mem(k)' = {} /\ ImmutableEntry(k)' = ImmutableEntry(k) /\ ImmutableEntry(k) = {}
      BY <2>1, <2>3 DEF Mem, ImmutableEntry, EntryOf, EmptyTable
    <3>2. Below(k)' = Below(k)
      <4>1. \A e : e \in Below(k) <=> e \in EntryOf(cf[t].snap, k) \/ e \in ImmutableEntry(k)
        BY <1>6, <2>1, <2>3 DEF Handed
      <4>2. \A e : e \in Below(k)' <=> e \in EntryOf(cf[t].snap, k) \/ e \in ImmutableEntry(k)
        BY <1>7, <2>2, <2>3, <3>1 DEF Handed
      <4> QED BY <4>1, <4>2
    <3>3. HandedOver(k) = {} /\ HandedOver(k)' = EntryOf(cf[t].snap, k)
      <4>1. \A e : e \notin HandedOver(k)
        BY <1>6, <2>1, <2>3 DEF Handed
      <4>2. \A e : e \in HandedOver(k)' <=> e \in EntryOf(cf[t].snap, k)
        BY <1>7, <2>2, <2>3 DEF Handed
      <4> QED BY <4>1, <4>2
    <3>4. ~lostWrite' => EntryOf(cf[t].snap, k) = Mem(k)
      BY <2>1 DEF Mem
    <3>5. Waiting(k) = {} /\ (~lostWrite' => Waiting(k)' = Mem(k))
      BY <1>8, <3>1, <3>3, <3>4 DEF Waiting
    <3> QED BY <3>1, <3>2, <3>3, <3>4, <3>5 DEF Unfiled
  <2>6. lostWrite => lostWrite'
    BY <2>1
  <2>7. VInv'
    BY <1>1, <1>4, <1>5, <1>8, <2>4, <2>5, <2>6, QuietValues
  <2>8. ~CheckFlushSnapshot(t) /\ ~CheckFlushStore(t)
    BY <2>1 DEF CheckFlushSnapshot, CheckFlushStore
  <2> QED BY <2>5, <2>7, <2>8
<1>11. CASE CheckFlushStore(t)
  <2>1. /\ UNCHANGED <<memtable, lostWrite>> /\ cf[t].pc = "store"
        /\ immutable' = {cf[t].snap} /\ pending' = TRUE
        /\ cf' = [cf EXCEPT ![t] = [pc |-> "notify", snap |-> EmptyTable]]
    BY <1>11 DEF CheckFlushStore, raceVars
  <2>2. /\ cf'[t].pc = "notify"
        /\ \A u \in Callers : u # t => cf'[u] = cf[u]
    BY <1>3, <2>1
  <2>3. /\ immutable = {}
        /\ \A u \in Callers : u # t => cf[u].pc \notin Locked /\ cf[u].pc \notin Handed
    BY <1>2, <2>1 DEF HandOvers, Handed, Locked
  <2>4. \A u \in Callers : cf'[u].pc \notin Locked /\ cf'[u].pc \notin Handed
    BY <2>2, <2>3 DEF Locked, Handed
  <2>5. f.pc \notin Busy /\ f.pc \notin Installed
    BY <1>2, <2>3 DEF HandOvers, Busy, Installed
  <2>6. HandOvers'
    <3>1. w'.pc # "checkFlush" => cf'["writer"].pc = "idle"
      BY <1>1, <1>2, <2>1, <2>2 DEF HandOvers, Callers
    <3> QED BY <1>8, <2>1, <2>4, <2>5, <3>1 DEF HandOvers, Busy
  <2>7. ASSUME NEW k
        PROVE  /\ Mem(k)' = Mem(k) /\ Below(k)' \subseteq Below(k)
               /\ ImmutableEntry(k)' \subseteq Unfiled(k) /\ Unfiled(k)' = Unfiled(k)
               /\ HandedOver(k)' = {} /\ ImmutableEntry(k) = {}
               /\ ImmutableEntry(k)' = HandedOver(k) /\ Waiting(k)' = Waiting(k)
               /\ Waiting(k) = HandedOver(k)
    <3>1. Mem(k)' = Mem(k) /\ ImmutableEntry(k) = {}
      BY <2>1, <2>3 DEF Mem, ImmutableEntry
    <3>2. \A e : /\ e \in ImmutableEntry(k)' <=> e \in EntryOf(cf[t].snap, k)
                 /\ e \in HandedOver(k) <=> e \in EntryOf(cf[t].snap, k)
                 /\ e \notin HandedOver(k)'
                 /\ e \in Below(k)' => e \in Below(k)
      BY <1>6, <1>7, <2>1, <2>3, <2>4 DEF Handed
    <3>3. ImmutableEntry(k)' = HandedOver(k) /\ HandedOver(k)' = {}
      BY <3>2
    <3>4. Waiting(k)' = Waiting(k) /\ Waiting(k) = HandedOver(k)
      BY <1>8, <2>5, <3>1, <3>3 DEF Waiting
    <3> QED BY <3>1, <3>2, <3>3, <3>4 DEF Unfiled
  <2>8. VInv'
    BY <1>1, <1>4, <1>5, <1>8, <2>1, <2>5, <2>6, <2>7, QuietValues
  <2>9. ~CheckFlushSnapshot(t) /\ ~CheckFlushClear(t)
    BY <2>1 DEF CheckFlushSnapshot, CheckFlushClear
  <2> QED BY <2>7, <2>8, <2>9
<1> QED BY <1>9, <1>10, <1>11

\* The flush thread keeps the memtable it has taken.
LEMMA HandOversKept ==
    ASSUME HandOvers, UNCHANGED <<cf, w, immutable, pending>>,
           f'.pc \in Busy => f.pc \in Busy /\ f'.table = f.table,
           f'.pc \in {"copy", "install"} => f'.id \in DOMAIN tables' /\ tables'[f'.id] = f'.table
    PROVE  HandOvers'
BY DEF HandOvers

\* Versions and files without a change to either.
LEMMA TreeOrderKept ==
    ASSUME TreeOrder, UNCHANGED <<version, tables, files, save, levelsFile>>,
           f'.pc = "install" => f' = f,
           c'.pc \in {"build", "copy", "install", "saving", "remove"} => c' = c
    PROVE  SavedOrderly' /\ Installing' /\ Compacting'
<1>1. SavedOrderly /\ Installing /\ Compacting
  BY DEF TreeOrder
<1>2. SavedOrderly'
  BY <1>1 DEF SavedOrderly, Orderly
<1>3. Installing'
  BY <1>1 DEF Installing
<1>4. Compacting'
  BY <1>1 DEF Compacting
<1> QED BY <1>2, <1>3, <1>4

\* What the constructor makes of the levels of a version.
LEMMA SavedVersion ==
    ASSUME NEW v, Orderly(v)
    PROVE  Orderly(Saved(v.levels)) /\ IdsOf(v.levels) \subseteq v.sstables
<1> DEFINE s == Saved(v.levels)
<1>1. s.levels = v.levels /\ s.sstables = IdsOf(v.levels)
  BY DEF Saved
<1> HIDE DEF s
<1>2. Readable(v, tables) /\ OneEach(v, tables)
  BY DEF Orderly
<1>3. \A k : /\ \A l \in Levels : Found(s, tables, l, k) = Found(v, tables, l, k)
             /\ Stored(s, tables, k) = Stored(v, tables, k)
  BY <1>1 DEF Found, Stored
<1>4. \A l \in Levels : \A m \in Range(v.levels[l]) : m.id \in s.sstables
  BY <1>1 DEF IdsOf
<1>5. SortedLevels(s)
  BY <1>1, <1>2 DEF Readable, SortedLevels
<1>6. Readable(s, tables)
  BY <1>1, <1>2, <1>3, <1>4, <1>5 DEF Readable
<1>7. OneEach(s, tables)
  BY <1>2, <1>3 DEF OneEach
<1>8. IdsOf(v.levels) \subseteq v.sstables
  BY <1>2 DEF IdsOf, Readable
<1> QED BY <1>6, <1>7, <1>8 DEF Orderly, s

\* An empty levels.txt.
LEMMA SavedEmpty ==
    Orderly(Saved(EmptyVersion.levels)) /\ IdsOf(EmptyVersion.levels) = {}
<1>1. \A l \in Levels : EmptyVersion.levels[l] = <<>>
  BY DEF EmptyVersion
<1>2. \A l \in Levels : Range(EmptyVersion.levels[l]) = {} /\ DOMAIN EmptyVersion.levels[l] = {}
  BY <1>1 DEF Range
<1> DEFINE s == Saved(EmptyVersion.levels)
<1>3. s.levels = EmptyVersion.levels
  BY DEF Saved
<1> HIDE DEF s
<1>4. \A k : /\ \A l \in Levels : Found(s, tables, l, k) = {}
             /\ Stored(s, tables, k) = {}
  BY <1>2, <1>3 DEF Found, Stored
<1>5. SortedLevels(s)
  BY <1>2, <1>3 DEF SortedLevels
<1>6. Readable(s, tables) /\ OneEach(s, tables)
  BY <1>2, <1>3, <1>4, <1>5 DEF Readable, OneEach
<1>7. IdsOf(EmptyVersion.levels) = {}
  BY <1>2 DEF IdsOf
<1> QED BY <1>6, <1>7 DEF Orderly, s

\* saveMetadata
LEMMA SaveValues ==
    ASSUME Inv, VInv, SaveMeta \/ SaveTruncate \/ SaveLevels
    PROVE  VInv' /\ MemoryCalm
<1>1. /\ UNCHANGED <<version, tables, files, memtable, immutable, pending, cf, w, seq, acked,
                     lastDel, lostWrite, lostUpdate, disorder, proc>>
      /\ proc = "up"
      /\ f' = f \/ (save.by = "flush" /\ f' = [f EXCEPT !.pc = "cache"])
      /\ c' = c \/ (save.by = "compact" /\ c' = [c EXCEPT !.pc = "remove"])
  BY DEF SaveMeta, SaveTruncate, SaveLevels, memVars, ackVars, raceVars, boundVars
<1>2. HandOvers
  BY <1>1 DEF VInv
<1>3. f \in FlushRecord /\ c \in CompactRecord /\ save \in SaveRecord
  BY DEF Inv, Types, TreeTypes
<1>4. /\ save.by = "flush" <=> f.pc = "saving"
      /\ save.by = "compact" <=> c.pc = "saving"
      /\ save.by = "none" <=> save.step = "none"
  BY <1>1 DEF Inv, TreeInv, Saving
<1>5. /\ f' = f \/ (f.pc = "saving" /\ f'.pc = "cache" /\ f'.table = f.table)
      /\ c' = c \/ (c.pc = "saving" /\ c'.pc = "remove" /\ c'.ids = c.ids)
  BY <1>1, <1>3, <1>4 DEF FlushRecord, CompactRecord
<1>6. MemoryCalm /\ TablesKept
  BY <1>1, <1>5 DEF MemoryCalm, TablesKept, Installed
<1>7. HandOvers'
  <2>1. f'.pc \in Busy => f.pc \in Busy /\ f'.table = f.table
    BY <1>5 DEF Busy
  <2>2. f'.pc \in {"copy", "install"} => f'.id \in DOMAIN tables' /\ tables'[f'.id] = f'.table
    BY <1>1, <1>2, <1>5 DEF HandOvers
  <2> QED BY <1>1, <1>2, <2>1, <2>2, HandOversKept
<1>8. ASSUME InOrder PROVE SavedOrderly' /\ Installing' /\ Compacting'
  <2>1. SavedOrderly /\ Installing /\ Compacting
    BY <1>8 DEF InOrder, TreeOrder
  <2>2. SavedOrderly'
    <3>1. CASE SaveMeta
      <4>1. /\ save'.by = save.by /\ save'.levels = save.levels /\ c' = c
            /\ levelsFile' = levelsFile
        BY <1>3, <3>1 DEF SaveMeta, SaveRecord
      <4> QED BY <1>1, <2>1, <4>1 DEF SavedOrderly, Orderly
    <3>2. CASE SaveTruncate
      <4>1. /\ save'.by = save.by /\ save'.levels = save.levels /\ c' = c
            /\ levelsFile' = {EmptyVersion.levels}
        BY <1>3, <3>2 DEF SaveTruncate, SaveRecord
      <4> QED BY <1>1, <2>1, <4>1, SavedEmpty DEF SavedOrderly, Orderly
    <3>3. CASE SaveLevels
      <4>1. /\ save'.by = "none" /\ levelsFile' = {save.levels} /\ save.by # "none"
        BY <1>4, <3>3 DEF SaveLevels, NotSaving
      <4>2. c'.pc = "remove" => c.pc \in {"saving", "remove"} /\ c'.ids = c.ids
        BY <1>5
      <4> QED BY <1>1, <2>1, <4>1, <4>2 DEF SavedOrderly, Orderly
    <3> QED BY <3>1, <3>2, <3>3
  <2>3. Installing'
    BY <1>1, <1>5, <2>1 DEF Installing
  <2>4. Compacting'
    BY <1>1, <1>5, <2>1 DEF Compacting
  <2> QED BY <2>2, <2>3, <2>4
<1> QED BY <1>1, <1>6, <1>7, <1>8, TreeCalm

\* flushThreadLoop without SSTable::flush and the version.
LEMMA FlushIdleValues ==
    ASSUME Inv, VInv,
           FlushTake \/ FlushSleep \/ FlushCache \/ FlushReset \/ FlushNotify
    PROVE  VInv' /\ \A k \in Keys : MemoryKept(k)
<1>1. /\ UNCHANGED <<version, tables, files, save, levelsFile, memtable, w, seq, acked,
                     lastDel, lostWrite, lostUpdate, disorder, proc>>
      /\ proc = "up"
      /\ c' = c \/ (c.pc = "asleep" /\ c' = [c EXCEPT !.pc = "test"])
  BY DEF FlushTake, FlushSleep, FlushCache, FlushReset, FlushNotify, memVars, fileVars, ackVars,
         raceVars, boundVars
<1>2. HandOvers
  BY <1>1 DEF VInv
<1>3. f \in FlushRecord /\ c \in CompactRecord /\ cf \in [Callers -> CallerRecord]
  BY DEF Inv, Types, TreeTypes, MemoryTypes
<1>4. TablesKept
  BY <1>1 DEF TablesKept
<1>5. c'.pc \in {"build", "copy", "install", "saving", "remove"} => c' = c
  BY <1>1, <1>3 DEF CompactRecord
<1>6. ASSUME f'.pc # "install", InOrder PROVE SavedOrderly' /\ Installing' /\ Compacting'
  BY <1>1, <1>5, <1>6, TreeOrderKept DEF InOrder
<1>7. CASE FlushTake
  <2>1. PICK t \in immutable :
            f' = [f EXCEPT !.pc = IF t = EmptyTable THEN "null" ELSE "build", !.table = t]
    BY <1>7 DEF FlushTake
  <2>2. f.pc = "test" /\ ~pending' /\ immutable' = immutable /\ cf' = cf
    BY <1>7 DEF FlushTake
  <2>3. f'.table = t /\ f'.pc = IF t = EmptyTable THEN "null" ELSE "build"
    BY <1>3, <2>1 DEF FlushRecord
  <2>4. immutable = {t}
    BY DEF Inv, Types, MemoryTypes
  <2>5. HandOvers'
    BY <1>1, <1>2, <2>2, <2>3, <2>4 DEF HandOvers
  <2>6. ASSUME NEW k \in Keys
        PROVE  /\ Mem(k)' = Mem(k) /\ Below(k)' = Below(k)
               /\ ImmutableEntry(k)' = ImmutableEntry(k) /\ Unfiled(k)' = Unfiled(k)
               /\ f'.pc \in Installed => ImmutableEntry(k)' = {}
               /\ MemoryKept(k)
    <3>1. /\ Mem(k)' = Mem(k) /\ ImmutableEntry(k)' = ImmutableEntry(k)
          /\ HandedOver(k)' = HandedOver(k)
      BY <1>1, <2>2 DEF Mem, ImmutableEntry, HandedOver
    <3>2. Below(k)' = Below(k)
      BY <2>2, <3>1 DEF Below
    <3>3. t = EmptyTable => ImmutableEntry(k) = {}
      BY <2>4 DEF ImmutableEntry, EntryOf, EmptyTable
    <3>4. f.pc \notin Installed /\ (f'.pc \in Installed => t = EmptyTable)
      BY <2>2, <2>3 DEF Installed
    <3>5. Waiting(k)' = Waiting(k)
      BY <3>1, <3>3, <3>4 DEF Waiting
    <3> QED BY <3>1, <3>2, <3>3, <3>4, <3>5 DEF Unfiled, MemoryKept
  <2>7. f'.pc # "install"
    BY <2>3
  <2> QED BY <1>1, <1>4, <1>6, <2>5, <2>6, <2>7, TreeValues
<1>8. CASE FlushReset
  <2>1. f.pc = "null" /\ immutable' = {} /\ f' = [f EXCEPT !.pc = "notify"]
        /\ UNCHANGED <<cf, pending>>
    BY <1>8 DEF FlushReset
  <2>2. f'.pc = "notify"
    BY <1>3, <2>1 DEF FlushRecord
  <2>3. HandOvers'
    <3>1. ~pending
      BY <1>2, <2>1 DEF HandOvers, Busy
    <3> QED BY <1>1, <1>2, <2>1, <2>2, <3>1 DEF HandOvers, Busy
  <2>4. ASSUME NEW k \in Keys
        PROVE  /\ Mem(k)' = Mem(k) /\ Below(k)' \subseteq Below(k)
               /\ ImmutableEntry(k)' = {} /\ Unfiled(k)' = Unfiled(k)
               /\ MemoryKept(k)
    <3>1. /\ Mem(k)' = Mem(k) /\ ImmutableEntry(k)' = {} /\ HandedOver(k)' = HandedOver(k)
      BY <1>1, <2>1 DEF Mem, ImmutableEntry, HandedOver
    <3>2. Below(k)' \subseteq Below(k)
      BY <2>1, <3>1 DEF Below
    <3>3. Waiting(k)' = Waiting(k)
      BY <2>1, <2>2, <3>1 DEF Waiting, Installed
    <3> QED BY <3>1, <3>2, <3>3 DEF Unfiled, MemoryKept
  <2> QED BY <1>1, <1>4, <1>6, <2>2, <2>3, <2>4, TreeValues
<1>9. CASE FlushSleep \/ FlushCache
  <2>1. /\ UNCHANGED <<cf, pending, immutable>>
        /\ \/ f.pc = "test" /\ f' = [f EXCEPT !.pc = "asleep"]
           \/ f.pc = "cache" /\ f' = [f EXCEPT !.pc = "null"]
    BY <1>9 DEF FlushSleep, FlushCache, memVars
  <2>2. /\ f'.table = f.table
        /\ \/ f.pc = "test" /\ f'.pc = "asleep"
           \/ f.pc = "cache" /\ f'.pc = "null"
    BY <1>3, <2>1 DEF FlushRecord
  <2>3. MemoryCalm
    BY <1>1, <2>1, <2>2 DEF MemoryCalm, Installed
  <2>4. f'.pc \in Busy => f.pc \in Busy
    BY <2>2 DEF Busy
  <2>5. HandOvers'
    BY <1>1, <1>2, <2>1, <2>2, <2>4, HandOversKept
  <2>8. VInv'
    BY <1>1, <1>4, <1>6, <2>2, <2>3, <2>5, TreeCalm
  <2> QED BY <2>3, <2>8, CalmEntries
<1>10. CASE FlushNotify
  <2>1. /\ UNCHANGED <<pending, immutable>> /\ f.pc = "notify" /\ f'.pc = "test"
        /\ \A t \in Callers : cf'[t] = IF t \in Asleep THEN [cf[t] EXCEPT !.pc = "lock"]
                                                       ELSE cf[t]
    BY <1>10 DEF FlushNotify, FlushStart, memVars
  <2>2. \A t \in Callers : \/ cf'[t] = cf[t]
                           \/ cf[t].pc = "asleep" /\ cf'[t].pc = "lock"
    BY <1>3, <2>1 DEF CallerRecord, Asleep
  <2>3. MemoryCalm
    BY <1>1, <2>1, <2>2 DEF MemoryCalm, Installed, Handed
  <2>4. HandOvers'
    <3>1. \A u \in Callers : cf'[u].pc \in Locked => cf'[u] = cf[u]
      BY <2>2 DEF Locked
    <3>2. \A u \in Callers : cf'[u].pc \in Handed => immutable' = {}
      BY <1>2, <2>1, <3>1 DEF HandOvers, Handed, Locked
    <3>3. w'.pc # "checkFlush" => cf'["writer"].pc = "idle"
      BY <1>1, <1>2, <2>2 DEF HandOvers, Callers
    <3>4. \A u, v \in Callers : cf'[u].pc \in Locked /\ cf'[v].pc \in Locked => u = v
      BY <1>2, <3>1 DEF HandOvers
    <3> QED BY <1>1, <1>2, <2>1, <3>2, <3>3, <3>4 DEF HandOvers, Busy
  <2>8. VInv'
    BY <1>1, <1>4, <1>6, <2>1, <2>3, <2>4, TreeCalm
  <2> QED BY <2>3, <2>8, CalmEntries
<1> QED BY <1>7, <1>8, <1>9, <1>10

\* The compaction thread waits, looks at the levels, removes files, clears the
\* cache.
LEMMA CompactIdleValues ==
    ASSUME Inv, VInv,
           CompactTest \/ CompactSleep \/ CompactSkip \/ CompactRemove \/ CompactCache
    PROVE  VInv' /\ MemoryCalm
<1>1. /\ UNCHANGED <<version, tables, save, levelsFile, memtable, immutable, pending, cf, f, w,
                     seq, acked, lastDel, lostWrite, lostUpdate, disorder, proc>>
      /\ proc = "up"
      /\ \/ /\ CompactRemove /\ files' = files \ c.ids
            /\ c.pc = "remove" /\ c' = [c EXCEPT !.pc = "cache"]
         \/ /\ files' = files
            /\ \/ \E p \in {"level", "toSleep", "asleep"} : c' = [c EXCEPT !.pc = p]
               \/ c' = CompactStart
               \/ c.pc = "level" /\ c' = [c EXCEPT !.level = @ + 1]
               \/ c' = [CompactStart EXCEPT !.pc = "level", !.level = c.level + 1]
  BY DEF CompactTest, CompactSleep, CompactSkip, CompactRemove, CompactCache, memVars, fileVars,
         ackVars, raceVars, boundVars
<1>2. HandOvers
  BY <1>1 DEF VInv
<1>3. c \in CompactRecord
  BY DEF Inv, Types, TreeTypes
<1>4. MemoryCalm /\ TablesKept
  BY <1>1 DEF MemoryCalm, TablesKept
<1>5. HandOvers'
  BY <1>1, <1>2 DEF HandOvers
<1>6. c'.pc \notin {"build", "copy", "install", "saving", "remove"}
  <2>1. CASE \/ \E p \in {"level", "toSleep", "asleep"} : c' = [c EXCEPT !.pc = p]
             \/ c.pc = "level" /\ c' = [c EXCEPT !.level = @ + 1]
    BY <1>3, <2>1 DEF CompactRecord
  <2>2. CASE c' = CompactStart
    BY <2>2 DEF CompactStart
  <2>4. CASE c' = [CompactStart EXCEPT !.pc = "level", !.level = c.level + 1]
    <3>1. c'.pc = "level"
      BY <2>4 DEF CompactStart
    <3> QED BY <3>1
  <2>3. CASE c' = [c EXCEPT !.pc = "cache"]
    BY <1>3, <2>3 DEF CompactRecord
  <2> QED BY <1>1, <2>1, <2>2, <2>3, <2>4
<1>7. ASSUME InOrder PROVE SavedOrderly' /\ Installing' /\ Compacting'
  <2>1. SavedOrderly /\ Installing /\ Compacting
    BY <1>7 DEF InOrder, TreeOrder
  <2>2. SavedOrderly'
    <3>1. \A ls : /\ c.pc = "remove" => IdsOf(ls) \cap c.ids = {}
                  /\ IdsOf(ls) \subseteq files
                  => IdsOf(ls) \subseteq files'
      BY <1>1
    <3>2. /\ save.by # "none" => IdsOf(save.levels) \subseteq files'
          /\ \A ls \in levelsFile : IdsOf(ls) \subseteq files'
      BY <2>1, <3>1 DEF SavedOrderly
    <3> QED BY <1>1, <1>6, <2>1, <3>2 DEF SavedOrderly, Orderly
  <2>3. Installing'
    BY <1>1, <1>6, <2>1 DEF Installing
  <2>4. Compacting'
    BY <1>6 DEF Compacting
  <2> QED BY <2>2, <2>3, <2>4
<1> QED BY <1>1, <1>4, <1>5, <1>7, TreeCalm

\* compactL0toL1 and compactlevelN choose files that can be merged.
LEMMA MergeValues ==
    ASSUME Inv, VInv, CompactMerge
    PROVE  VInv' /\ MemoryCalm
<1> DEFINE ids == Inputs(c.level)
           t == MergeSSTables(tables, ids)
<1>1. /\ UNCHANGED <<version, tables, files, save, levelsFile, memtable, immutable, pending, cf,
                     f, w, seq, acked, lastDel, lostWrite, lostUpdate, disorder, proc>>
      /\ proc = "up" /\ c.pc = "level" /\ c.level < 3 /\ t # EmptyTable
      /\ c' = [c EXCEPT !.pc = "build", !.ids = ids, !.table = t]
  BY DEF CompactMerge, memVars, fileVars, ackVars, raceVars, boundVars
<1>2. HandOvers
  BY <1>1 DEF VInv
<1>3. c \in CompactRecord /\ TreeTypes
  BY DEF Inv, Types, TreeTypes
<1>4. MemoryCalm /\ TablesKept
  BY <1>1 DEF MemoryCalm, TablesKept
<1>5. HandOvers'
  BY <1>1, <1>2 DEF HandOvers
<1>6. ids \subseteq version.sstables /\ ids \in SUBSET Nat
  BY <1>3, InputsKnown
<1>7. Merged(Keys, tables, ids, t)
  <2>1. version.sstables \subseteq DOMAIN tables
    BY <1>3 DEF TreeTypes, Known
  <2>2. \A id \in ids : IsTable(tables[id], Keys)
    BY <1>3, <1>6, <2>1, ContentsTable DEF TreeTypes
  <2> QED BY <2>2, MergedTable
<1>8. ids # {} => version.levels[c.level] # <<>> /\ ids = CompactionInputs(version, c.level)
  BY DEF Inputs, CanCompact
<1> HIDE DEF ids, t
<1>9. /\ c'.pc = "build" /\ c'.ids = ids /\ c'.table = t /\ c'.level = c.level
  BY <1>1, <1>3 DEF CompactRecord
<1>10. ids # {}
  <2>1. IsTable(t, Keys) /\ DOMAIN t # {}
    BY <1>1, <1>7, NotEmptyTable DEF Merged
  <2> QED BY <1>7, <2>1 DEF Merged
<1>11. ASSUME Orderly(version) PROVE Mergeable(version, tables, c.level, ids)
  <2>1. Keys \in SUBSET Nat /\ IsFiniteSet(Keys)
    BY EngineAssumption
  <2>2. \A m \in Metas : m.minKey \in Keys /\ m.maxKey \in Keys
    BY DEF Metas
  <2>3. version \in Versions(Metas) /\ c.level \in 0..2
    BY <1>1, <1>3 DEF TreeTypes, Known, CompactRecord, Levels
  <2>4. Mergeable(version, tables, c.level, CompactionInputs(version, c.level))
    BY <1>8, <1>10, <1>11, <2>1, <2>2, <2>3, InputsMergeable DEF Orderly
  <2> QED BY <1>8, <1>10, <2>4
<1>12. ASSUME InOrder PROVE SavedOrderly' /\ Installing' /\ Compacting'
  <2>1. SavedOrderly /\ Installing /\ Orderly(version)
    BY <1>12 DEF InOrder, TreeOrder
  <2>2. SavedOrderly'
    BY <1>1, <1>9, <2>1 DEF SavedOrderly, Orderly
  <2>3. Installing'
    BY <1>1, <1>9, <2>1 DEF Installing
  <2>4. Compacting'
    BY <1>1, <1>7, <1>9, <1>11, <2>1 DEF Compacting
  <2> QED BY <2>2, <2>3, <2>4
<1> QED BY <1>1, <1>4, <1>5, <1>12, TreeCalm

\* A version with a new file is about to be made of the current one.
LEMMA CopyValues ==
    ASSUME Inv, VInv, FlushCopy \/ CompactCopy
    PROVE  VInv' /\ MemoryCalm
<1>1. /\ UNCHANGED <<version, tables, files, save, levelsFile, memtable, immutable, pending, cf,
                     w, seq, acked, lastDel, lostWrite, lostUpdate, disorder, proc>>
      /\ proc = "up"
  BY DEF FlushCopy, CompactCopy, memVars, fileVars, ackVars, raceVars, boundVars
<1>2. HandOvers
  BY <1>1 DEF VInv
<1>3. /\ f \in FlushRecord /\ c \in CompactRecord
      /\ f.pc \in {"build", "copy"} => f.table # EmptyTable
      /\ c.pc \in {"build", "copy"} => c.table # EmptyTable
  BY DEF Inv, Types, TreeTypes
<1>4. TablesKept
  BY <1>1 DEF TablesKept
<1>5. CASE FlushCopy
  <2>1. /\ f.pc = "copy" /\ c' = c
        /\ f' = [f EXCEPT !.pc = "install",
                          !.version = AddSSTable(version, MetaOf(f.id, 0, f.table))]
    BY <1>5 DEF FlushCopy
  <2>2. /\ f'.pc = "install" /\ f'.table = f.table /\ f'.id = f.id
        /\ f'.version = AddSSTable(version, MetaOf(f.id, 0, f.table))
    BY <1>3, <2>1 DEF FlushRecord
  <2>3. MemoryCalm
    BY <1>1, <2>1, <2>2 DEF MemoryCalm, Installed
  <2>4. HandOvers'
    BY <1>1, <1>2, <2>1, <2>2, HandOversKept DEF HandOvers, Busy
  <2>5. ASSUME InOrder PROVE SavedOrderly' /\ Installing' /\ Compacting'
    <3>1. SavedOrderly /\ Installing /\ Compacting
      BY <2>5 DEF InOrder, TreeOrder
    <3>2. SavedOrderly'
      BY <1>1, <2>1, <3>1 DEF SavedOrderly, Orderly
    <3>3. Installing'
      BY <1>1, <1>3, <2>1, <2>2, <3>1 DEF Installing
    <3>4. Compacting'
      BY <1>1, <2>1, <3>1 DEF Compacting
    <3> QED BY <3>2, <3>3, <3>4
  <2> QED BY <1>1, <1>4, <2>3, <2>4, <2>5, TreeCalm
<1>6. CASE CompactCopy
  <2>1. /\ c.pc = "copy" /\ f' = f
        /\ c' = [c EXCEPT !.pc = "install",
                          !.version = CompactedVersion(version, c.ids,
                                          MetaOf(c.id, c.level + 1, c.table))]
    BY <1>6 DEF CompactCopy
  <2>2. /\ c'.pc = "install" /\ c'.table = c.table /\ c'.id = c.id /\ c'.ids = c.ids
        /\ c'.level = c.level
        /\ c'.version = CompactedVersion(version, c.ids, MetaOf(c.id, c.level + 1, c.table))
    BY <1>3, <2>1 DEF CompactRecord
  <2>3. MemoryCalm
    BY <1>1, <2>1 DEF MemoryCalm
  <2>4. HandOvers'
    BY <1>1, <1>2, <2>1 DEF HandOvers
  <2>5. ASSUME InOrder PROVE SavedOrderly' /\ Installing' /\ Compacting'
    <3>1. SavedOrderly /\ Installing /\ Compacting
      BY <2>5 DEF InOrder, TreeOrder
    <3>2. SavedOrderly'
      BY <1>1, <2>1, <2>2, <3>1 DEF SavedOrderly, Orderly
    <3>3. Installing'
      BY <1>1, <1>3, <2>1, <2>2, <3>1 DEF Installing
    <3>4. Compacting'
      BY <1>1, <2>1, <2>2, <3>1 DEF Compacting
    <3> QED BY <3>2, <3>3, <3>4
  <2> QED BY <1>1, <1>4, <2>3, <2>4, <2>5, TreeCalm
<1> QED BY <1>5, <1>6

\* A new file changes none that is in use.
LEMMA BuildKept ==
    ASSUME Inv, proc = "up", NEW t, counter' = counter + 1, tables' = With(tables, counter', t),
           files' = files \cup {counter'},
           UNCHANGED <<version, save, levelsFile>>, save.by = "none",
           c'.pc \in {"saving", "remove"} => c'.ids = c.ids /\ c'.pc = c.pc
    PROVE  /\ TablesKept /\ tables'[counter + 1] = t /\ counter + 1 \in DOMAIN tables'
           /\ DOMAIN tables \subseteq DOMAIN tables'
           /\ SavedOrderly => SavedOrderly'
           /\ Orderly(version) => \A l \in 0..2 : \A ids \in SUBSET Nat : \A x :
                  /\ Mergeable(version, tables, l, ids)
                  /\ \A id \in ids : id <= counter
                  /\ Merged(Keys, tables, ids, x)
                  => Mergeable(version, tables', l, ids) /\ Merged(Keys, tables', ids, x)
<1>1. /\ counter \in Nat /\ \A id \in version.sstables : id \in DOMAIN tables /\ id <= counter
      /\ files \subseteq DOMAIN tables
      /\ \A ls \in levelsFile : LevelsUpto(ls, counter) /\ ls \in [Levels -> Seq(Metas)]
  BY DEF Inv, Types, TreeTypes, Known, Versions, TreeInv, Numbers, VersionUpto
<1>2. /\ TablesKept /\ tables'[counter + 1] = t /\ counter + 1 \in DOMAIN tables'
      /\ DOMAIN tables \subseteq DOMAIN tables'
  <2>1. \A id \in DOMAIN tables : id # counter + 1 => tables'[id] = tables[id]
    BY DEF With
  <2>2. DOMAIN tables' = DOMAIN tables \cup {counter + 1} /\ tables'[counter + 1] = t
    BY DEF With
  <2> QED BY <1>1, <2>1, <2>2 DEF TablesKept
<1>3. ASSUME SavedOrderly PROVE SavedOrderly'
  <2>1. ASSUME NEW ls \in levelsFile
        PROVE  Readable(Saved(ls), tables') /\ OneEach(Saved(ls), tables')
    <3>1. Orderly(Saved(ls)) /\ Saved(ls).sstables = IdsOf(ls)
      BY <1>3 DEF SavedOrderly, Saved
    <3>2. \A id \in IdsOf(ls) : id \in DOMAIN tables /\ id <= counter
      BY <1>1, <1>3 DEF SavedOrderly, IdsOf, LevelsUpto
    <3>3. \A id \in Saved(ls).sstables : tables'[id] = tables[id]
      BY <1>2, <3>1, <3>2 DEF TablesKept
    <3> QED BY <3>1, <3>3, OrderlyKept
  <2>2. \A ls \in levelsFile : /\ IdsOf(ls) \subseteq files'
                               /\ c'.pc = "remove" => IdsOf(ls) \cap c'.ids = {}
    BY <1>3 DEF SavedOrderly
  <2> QED BY <2>1, <2>2 DEF SavedOrderly, Orderly
<1>4. ASSUME Orderly(version), NEW l \in 0..2, NEW ids \in SUBSET Nat, NEW x,
             Mergeable(version, tables, l, ids), \A id \in ids : id <= counter,
             Merged(Keys, tables, ids, x)
      PROVE  Mergeable(version, tables', l, ids) /\ Merged(Keys, tables', ids, x)
  <2>1. \A id \in version.sstables : tables'[id] = tables[id]
    BY <1>1, <1>2 DEF TablesKept
  <2>2. Mergeable(version, tables', l, ids)
    BY <1>4, <2>1, MergeableSame DEF Orderly
  <2>3. \A id \in ids : tables'[id] = tables[id]
    <3>1. ids \subseteq version.sstables
      BY <1>4 DEF Mergeable, Orderly, Readable, Levels
    <3> QED BY <2>1, <3>1
  <2>4. Merged(Keys, tables', ids, x)
    BY <1>4, <2>3 DEF Merged
  <2> QED BY <2>2, <2>4
<1> QED BY <1>2, <1>3, <1>4

\* SSTable::flush, and the file a compaction writes.
LEMMA BuildValues ==
    ASSUME Inv, VInv, FlushBuild \/ CompactBuild
    PROVE  VInv' /\ MemoryCalm /\ TablesKept
<1>1. /\ UNCHANGED <<version, save, levelsFile, memtable, immutable, pending, cf,
                     w, seq, acked, lastDel, lostWrite, lostUpdate, disorder, proc>>
      /\ proc = "up" /\ save.by = "none"
      /\ counter' = counter + 1 /\ files' = files \cup {counter'}
      /\ \/ /\ f.pc = "build" /\ c' = c /\ tables' = With(tables, counter', f.table)
            /\ f' = [f EXCEPT !.pc = "copy", !.id = counter']
         \/ /\ c.pc = "build" /\ f' = f /\ tables' = With(tables, counter', c.table)
            /\ c' = [c EXCEPT !.pc = "copy", !.id = counter']
  BY DEF FlushBuild, CompactBuild, MetadataMutexFree, memVars, fileVars, ackVars, raceVars,
         boundVars
<1>2. HandOvers
  BY <1>1 DEF VInv
<1>3. /\ f \in FlushRecord /\ c \in CompactRecord /\ counter \in Nat
      /\ c.pc \in {"build", "copy", "install"} => c.level \in 0..2
      /\ f.id <= counter /\ c.id <= counter /\ \A id \in c.ids : id <= counter
  <2>1. c \in CompactRecord => c.level \in 0..3
    BY DEF CompactRecord, Levels
  <2> QED BY <1>1, <2>1 DEF Inv, Types, TreeTypes, TreeInv, Numbers
<1>4. PICK t : tables' = With(tables, counter', t)
  BY <1>1
<1>5. /\ c'.ids = c.ids /\ c'.level = c.level /\ c'.table = c.table
      /\ \/ c' = c
         \/ c.pc = "build" /\ c'.pc = "copy" /\ c'.id = counter + 1
      /\ f'.table = f.table
      /\ \/ f' = f
         \/ f.pc = "build" /\ f'.pc = "copy" /\ f'.id = counter + 1
  BY <1>1, <1>3 DEF FlushRecord, CompactRecord
<1>6. /\ TablesKept /\ tables'[counter + 1] = t /\ counter + 1 \in DOMAIN tables'
      /\ DOMAIN tables \subseteq DOMAIN tables'
      /\ SavedOrderly => SavedOrderly'
      /\ Orderly(version) => \A l \in 0..2 : \A ids \in SUBSET Nat : \A x :
             /\ Mergeable(version, tables, l, ids)
             /\ \A id \in ids : id <= counter
             /\ Merged(Keys, tables, ids, x)
             => Mergeable(version, tables', l, ids) /\ Merged(Keys, tables', ids, x)
  <2>1. c'.pc \in {"saving", "remove"} => c'.ids = c.ids /\ c'.pc = c.pc
    BY <1>5
  <2> QED BY <1>1, <1>4, <2>1, BuildKept
<1>7. MemoryCalm
  BY <1>1, <1>5 DEF MemoryCalm, Installed
<1>8. /\ f' # f => tables'[counter + 1] = f.table
      /\ c' # c => tables'[counter + 1] = c.table
  BY <1>1 DEF With
<1>9. HandOvers'
  <2>1. f'.pc \in {"copy", "install"} => f'.id \in DOMAIN tables' /\ tables'[f'.id] = f'.table
    <3>1. CASE f' = f
      BY <1>2, <1>3, <1>6, <3>1 DEF HandOvers, TablesKept
    <3>2. CASE f' # f
      BY <1>5, <1>6, <1>8, <3>2
    <3> QED BY <3>1, <3>2
  <2>2. f'.pc \in Busy => f.pc \in Busy
    BY <1>5 DEF Busy
  <2> QED BY <1>1, <1>2, <1>5, <2>1, <2>2, HandOversKept
<1>10. ASSUME InOrder PROVE SavedOrderly' /\ Installing' /\ Compacting'
  <2>1. SavedOrderly /\ Installing /\ Compacting /\ Orderly(version)
    BY <1>10 DEF InOrder, TreeOrder
  <2>2. Installing'
    <3>1. c'.pc = "install" => c' = c
      BY <1>5
    <3>2. f'.pc = "install" => f' = f
      BY <1>5
    <3> QED BY <1>1, <2>1, <3>1, <3>2 DEF Installing
  <2>3. c'.pc \in {"build", "copy", "install"} => c.pc \in {"build", "copy", "install"}
    BY <1>5
  <2>4. c.ids \in SUBSET Nat
    BY <1>3 DEF CompactRecord
  <2>5. c'.pc \in {"build", "copy", "install"} =>
            /\ Mergeable(version, tables', c.level, c.ids)
            /\ Merged(Keys, tables', c.ids, c.table)
    BY <1>3, <1>6, <2>1, <2>3, <2>4 DEF Compacting
  <2>6. c'.pc \in {"copy", "install"} => c'.id \in DOMAIN tables' /\ tables'[c'.id] = c'.table
    <3>1. CASE c' = c
      BY <1>3, <1>6, <2>1, <3>1 DEF Compacting, TablesKept
    <3>2. CASE c' # c
      BY <1>5, <1>6, <1>8, <3>2
    <3> QED BY <3>1, <3>2
  <2>7. Compacting'
    BY <1>1, <1>5, <2>5, <2>6 DEF Compacting
  <2> QED BY <1>6, <2>1, <2>2, <2>7
<1> QED BY <1>1, <1>6, <1>7, <1>9, <1>10, TreeCalm

\* A save of the current version begins.
LEMMA SaveCallValues ==
    ASSUME Inv, VInv, FlushSave \/ CompactSave
    PROVE  VInv' /\ MemoryCalm
<1>1. /\ UNCHANGED <<version, tables, files, levelsFile, memtable, immutable, pending, cf,
                     w, seq, acked, lastDel, lostWrite, lostUpdate, disorder, proc>>
      /\ proc = "up" /\ save'.levels = version.levels
      /\ \/ f.pc = "save" /\ f' = [f EXCEPT !.pc = "saving"] /\ c' = c
         \/ c.pc = "save" /\ c' = [c EXCEPT !.pc = "saving"] /\ f' = f
  BY DEF FlushSave, CompactSave, SaveBegin, memVars, fileVars, ackVars, raceVars, boundVars
<1>2. HandOvers /\ (lostUpdate => disorder) /\ (~disorder => InOrder)
  BY <1>1 DEF VInv
<1>3. f \in FlushRecord /\ c \in CompactRecord /\ TreeInv
  BY <1>1 DEF Inv, Types, TreeTypes
<1>4. /\ \/ f' = f
         \/ f.pc = "save" /\ f'.pc = "saving" /\ f'.table = f.table
      /\ \/ c' = c
         \/ c.pc = "save" /\ c'.pc = "saving" /\ c'.ids = c.ids
  BY <1>1, <1>3 DEF FlushRecord, CompactRecord
<1>5. MemoryCalm /\ TablesKept
  BY <1>1, <1>4 DEF MemoryCalm, TablesKept, Installed
<1>6. HandOvers'
  <2>1. f'.pc \in Busy => f.pc \in Busy /\ f'.table = f.table
    BY <1>4 DEF Busy
  <2>2. f'.pc \in {"copy", "install"} => f' = f
    BY <1>4
  <2> QED BY <1>1, <1>2, <2>1, <2>2, HandOversKept DEF HandOvers
<1>7. CASE disorder
  <2>1. Acks /\ Acks'
    BY <1>1 DEF VInv, Acks, Logged
  <2> QED BY <1>1, <1>2, <1>5, <1>6, <1>7, <2>1 DEF VInv
<1>8. CASE ~disorder
  <2>1. InOrder /\ ~lostUpdate
    BY <1>2, <1>8
  <2>2. SavedOrderly /\ Installing /\ Compacting /\ Orderly(version)
    BY <2>1 DEF InOrder, TreeOrder
  <2>3. /\ Orderly(Saved(version.levels)) /\ IdsOf(version.levels) \subseteq version.sstables
    BY <2>2, SavedVersion
  <2>4. /\ version.sstables \subseteq files
        /\ c'.pc \in {"saving", "remove"} => version.sstables \cap c'.ids = {}
    BY <1>3, <1>4, <2>1 DEF TreeInv, Kept
  <2>5. c'.pc = "remove" => c' = c
    BY <1>4
  <2>6. SavedOrderly'
    <3>1. /\ Readable(Saved(save'.levels), tables') /\ OneEach(Saved(save'.levels), tables')
          /\ IdsOf(save'.levels) \subseteq files'
          /\ c'.pc \in {"saving", "remove"} => IdsOf(save'.levels) \cap c'.ids = {}
      BY <1>1, <2>3, <2>4 DEF Orderly
    <3> QED BY <1>1, <2>2, <2>5, <3>1 DEF SavedOrderly, Orderly
  <2>7. Installing'
    BY <1>1, <1>4, <2>2 DEF Installing
  <2>8. Compacting'
    BY <1>1, <1>4, <2>2 DEF Compacting
  <2> QED BY <1>1, <1>5, <1>6, <2>6, <2>7, <2>8, TreeCalm
<1> QED BY <1>7, <1>8

\* installVersion in the flush thread: a file with the newest entries below the
\* memtable.
LEMMA FlushInstallFiles ==
    ASSUME Inv, VInv, FlushInstall, ~disorder'
    PROVE  /\ InOrder /\ c.pc # "install" /\ f.pc = "install" /\ f'.pc = "save"
           /\ Orderly(version)'
           /\ c.pc \in {"build", "copy", "install"} =>
                  Mergeable(version', tables, c.level, c.ids)
           /\ \A k : /\ Filed(k)' = Filed(k) \cup ImmutableEntry(k)
                     /\ Top(k)' = Top(k) \cup ImmutableEntry(k)
                     /\ Mem(k)' = Mem(k) /\ Below(k)' = Below(k)
                     /\ HandedOver(k)' = HandedOver(k)
                     /\ ImmutableEntry(k)' = ImmutableEntry(k)
                     /\ Unfiled(k) = Unfiled(k)' \cup ImmutableEntry(k)
<1>1. /\ UNCHANGED <<tables, files, save, levelsFile, memtable, immutable, pending, cf, c, w, seq,
                     acked, lastDel, lostWrite, proc>>
      /\ proc = "up" /\ f.pc = "install" /\ version' = f.version
      /\ f' = [f EXCEPT !.pc = "save", !.version = EmptyVersion]
      /\ lostUpdate' = (lostUpdate \/ c.pc = "install") /\ disorder' = (disorder \/ lostUpdate')
  BY DEF FlushInstall, memVars, fileVars, ackVars, boundVars
<1>2. HandOvers /\ (lostUpdate => disorder) /\ (~disorder => InOrder)
  BY <1>1 DEF VInv
<1>3. f \in FlushRecord /\ TreeTypes /\ Fresh /\ Numbers
  BY <1>1 DEF Inv, Types, TreeTypes, TreeInv
<1>4. f'.pc = "save" /\ f'.table = f.table
  BY <1>1, <1>3 DEF FlushRecord
<1>8. c.pc # "install" /\ InOrder
  BY <1>1, <1>2
<1>9. Recency /\ Values /\ Orderly(version) /\ SavedOrderly /\ Installing /\ Compacting
  BY <1>8 DEF InOrder, TreeOrder
<1>10. PICK t, m : t = f.table /\ m = MetaOf(f.id, 0, f.table)
  OBVIOUS
<1>11. /\ immutable = {t} /\ f.id \in DOMAIN tables /\ tables[f.id] = t /\ t # EmptyTable
       /\ version' = AddSSTable(version, m)
  BY <1>1, <1>2, <1>9, <1>10 DEF HandOvers, Busy, Installing
<1>12. /\ t \in Contents /\ IsTable(t, Keys) /\ DOMAIN t # {} /\ f.id \in Nat
  BY <1>3, <1>10, <1>11, ContentsTable, NotEmptyTable DEF FlushRecord
<1>13. /\ m \in Metas /\ m.id = f.id /\ m.level = 0 /\ Bounded(m) /\ Describes(m, t)
  <2>1. Keys \in SUBSET Nat /\ IsFiniteSet(Keys) /\ 0 \in Levels
    BY EngineAssumption DEF Levels
  <2>2. m \in Metas /\ m.id = f.id /\ m.level = 0
    BY <1>10, <1>11, <1>12, <2>1, MetaKnown
  <2>3. Bounded(m) /\ \A k \in DOMAIN t : m.minKey <= k /\ k <= m.maxKey
    BY <1>10, <1>12, <2>1, MetaOfTable
  <2> QED BY <2>2, <2>3 DEF Describes, Bounded
<1>14. \A k \in DOMAIN t : k \in Keys /\ k \in Nat /\ t[k].seq \in Nat
  BY <1>12, EngineAssumption DEF IsTable, Entry
<1>15. \A k : ImmutableEntry(k) = EntryOf(t, k)
  BY <1>11 DEF ImmutableEntry
<1>16. ASSUME NEW k \in DOMAIN t, NEW g \in Stored(version, tables, k) PROVE NotOlder(t[k], g)
  <2>1. t[k] \in ImmutableEntry(k) /\ k \in Keys
    BY <1>14, <1>15 DEF EntryOf
  <2>2. t[k] \in Below(k)
    BY <1>2, <2>1, MemoryEntries
  <2> QED BY <1>9, <1>16, <2>1, <2>2 DEF Recency, Recent, Filed
<1>17. version \in Versions(Metas) /\ Added(Metas, version, m, version')
  BY <1>3, <1>11, <1>13, AddSSTableLevels DEF TreeTypes, Known, Metas
<1>18. /\ Readable(version', tables) /\ OneEach(version', tables)
       /\ \A k : Found(version', tables, 0, k) = Found(version, tables, 0, k) \cup EntryOf(t, k)
       /\ \A k : \A l \in Levels \ {0} :
              Found(version', tables, l, k) = Found(version, tables, l, k)
  BY <1>9, <1>11, <1>13, <1>14, <1>16, <1>17, AddedReadable DEF Orderly
<1>19. ASSUME NEW k
       PROVE  /\ Filed(k)' = Filed(k) \cup ImmutableEntry(k)
              /\ Top(k)' = Top(k) \cup ImmutableEntry(k)
  <2>1. tables' = tables /\ 0 \in Levels /\ 1 \in Levels \ {0}
    BY <1>1 DEF Levels
  <2>2. Top(k)' = Top(k) \cup ImmutableEntry(k)
    BY <1>15, <1>18, <2>1 DEF Top
  <2>3. \A e : e \in Filed(k)' <=> e \in Filed(k) \/ e \in ImmutableEntry(k)
    <3>1. \A e : e \in Filed(k)' <=> \E l \in Levels : e \in Found(version', tables, l, k)
      BY <2>1 DEF Filed, Stored
    <3>2. \A e : e \in Filed(k) <=> \E l \in Levels : e \in Found(version, tables, l, k)
      BY DEF Filed, Stored
    <3> QED BY <1>15, <1>18, <2>1, <3>1, <3>2
  <2> QED BY <2>2, <2>3
<1>20. ASSUME NEW k
       PROVE  /\ Mem(k)' = Mem(k) /\ Below(k)' = Below(k)
              /\ HandedOver(k)' = HandedOver(k)
              /\ ImmutableEntry(k)' = ImmutableEntry(k)
              /\ Unfiled(k) = Unfiled(k)' \cup ImmutableEntry(k)
  <2>1. /\ Mem(k)' = Mem(k) /\ ImmutableEntry(k)' = ImmutableEntry(k)
        /\ HandedOver(k)' = HandedOver(k)
    BY <1>1 DEF Mem, ImmutableEntry, HandedOver
  <2>2. Below(k)' = Below(k)
    BY <1>1, <2>1 DEF Below
  <2> QED BY <1>1, <1>4, <2>1, <2>2 DEF Unfiled, Waiting, Installed
<1>21. ASSUME c.pc \in {"build", "copy", "install"}
       PROVE  Mergeable(version', tables, c.level, c.ids)
  <2>1. c.level \in 0..2
    BY <1>3, <1>21 DEF TreeTypes, CompactRecord, Levels
  <2>2. Mergeable(version, tables, c.level, c.ids)
    BY <1>9, <1>21 DEF Compacting
  <2>3. m.id \notin c.ids
    BY <1>1, <1>3, <1>13 DEF Fresh
  <2> QED BY <1>11, <1>13, <1>16, <1>17, <2>1, <2>2, <2>3, AddedMergeable
<1>22. Orderly(version)'
  BY <1>1, <1>18 DEF Orderly
<1> QED BY <1>1, <1>4, <1>8, <1>19, <1>20, <1>21, <1>22

\* ... which leaves every answered write where a lookup finds it.
LEMMA FlushInstallValues ==
    ASSUME Inv, VInv, FlushInstall
    PROVE  VInv'
<1>1. /\ UNCHANGED <<tables, files, save, levelsFile, memtable, immutable, pending, cf, c, w, seq,
                     acked, lastDel, lostWrite, proc>>
      /\ proc = "up" /\ f.pc = "install" /\ version' = f.version
      /\ f' = [f EXCEPT !.pc = "save", !.version = EmptyVersion]
      /\ lostUpdate' = (lostUpdate \/ c.pc = "install") /\ disorder' = (disorder \/ lostUpdate')
  BY DEF FlushInstall, memVars, fileVars, ackVars, boundVars
<1>2. HandOvers /\ Acks /\ (lostUpdate => disorder) /\ (~disorder => InOrder)
  BY <1>1 DEF VInv
<1>3. f \in FlushRecord
  BY DEF Inv, Types, TreeTypes
<1>4. f'.pc = "save" /\ f'.table = f.table
  BY <1>1, <1>3 DEF FlushRecord
<1>5. HandOvers'
  <2>1. f.pc \in Busy
    BY <1>1 DEF Busy
  <2>2. f'.pc \notin {"copy", "install"}
    BY <1>4
  <2> QED BY <1>1, <1>2, <1>4, <2>1, <2>2, HandOversKept
<1>6. Acks' /\ NextSeq' = NextSeq /\ \A k : Due(k)' = Due(k)
  BY <1>1, <1>2, WriterCalm
<1>7. SUFFICES ASSUME ~disorder' PROVE InOrder'
  BY <1>1, <1>2, <1>5, <1>6 DEF VInv
<1>8. /\ InOrder /\ c.pc # "install" /\ Orderly(version)'
      /\ c.pc \in {"build", "copy", "install"} =>
             Mergeable(version', tables, c.level, c.ids)
      /\ \A k : /\ Filed(k)' = Filed(k) \cup ImmutableEntry(k)
                /\ Top(k)' = Top(k) \cup ImmutableEntry(k)
                /\ Mem(k)' = Mem(k) /\ Below(k)' = Below(k)
                /\ ImmutableEntry(k)' = ImmutableEntry(k)
                /\ Unfiled(k) = Unfiled(k)' \cup ImmutableEntry(k)
  BY <1>7, FlushInstallFiles
<1>9. Recency /\ Values /\ Orderly(version) /\ SavedOrderly /\ Installing /\ Compacting
  BY <1>8 DEF InOrder, TreeOrder
<1>10. Recency'
  <2>1. NextSeq \in Nat
    BY <1>2, DueNumbers
  <2>2. ASSUME NEW k \in Keys PROVE Recent(Mem(k)', Below(k)', Filed(k)', NextSeq')
    <3>1. /\ \A e \in Mem(k) \cup Below(k) : e \in Entry
          /\ \A e, g \in Mem(k) : e = g
          /\ \A e, g \in Below(k) : e = g
          /\ ImmutableEntry(k) \subseteq Below(k)
      BY <1>2, MemoryEntries
    <3>2. \A e \in Filed(k) : e.seq \in Nat
      BY <1>9, FoundFiles DEF Filed, Orderly, Readable
    <3>3. Recent(Mem(k), Below(k), Filed(k), NextSeq)
      BY <1>9 DEF Recency
    <3>4. \A e \in Mem(k) \cup Below(k) \cup Filed(k) : e.seq \in Nat
      BY <3>1, <3>2 DEF Entry
    <3>5. Filed(k)' \subseteq Filed(k) \cup Below(k)
      BY <1>8, <3>1
    <3>6. Recent(Mem(k), Below(k), Filed(k)', NextSeq)
      BY <2>1, <3>1, <3>3, <3>4, <3>5, RecentKept
    <3> QED BY <1>6, <1>8, <3>6
  <2> QED BY <2>2 DEF Recency
<1>11. Values'
  <2>1. ASSUME NEW k \in Keys, ~lostWrite', NEW n \in Due(k)'
        PROVE  n <= NextSeq' /\ Covered(k, n)'
    <3>1. n <= NextSeq /\ Covered(k, n)
      BY <1>1, <1>6, <1>9, <2>1 DEF Values
    <3>2. Covers(Unfiled(k), ImmutableEntry(k), Top(k), Filed(k), lastDel[k], n)
      BY <3>1 DEF Covered
    <3>3. /\ Unfiled(k) = Unfiled(k)' \cup ImmutableEntry(k)
          /\ ImmutableEntry(k)' = ImmutableEntry(k)
          /\ Filed(k)' = Filed(k) \cup ImmutableEntry(k)
          /\ Top(k)' = Top(k) \cup ImmutableEntry(k)
          /\ lastDel' = lastDel
      BY <1>1, <1>8
    <3>4. Covers(Unfiled(k)', ImmutableEntry(k)', Top(k)', Filed(k)', lastDel'[k], n)
      BY <3>2, <3>3 DEF Covers
    <3> QED BY <1>6, <3>1, <3>4 DEF Covered
  <2>2. ASSUME NEW k \in Keys, NEW e \in Mem(k)' \cup Below(k)', e.type = "DELETE"
        PROVE  lastDel'[k] >= e.seq
    BY <1>1, <1>8, <1>9, <2>2 DEF Values
  <2>3. \A k \in Keys : \A e \in ImmutableEntry(k)' : e \in Filed(k)'
    BY <1>8
  <2> QED BY <2>1, <2>2, <2>3 DEF Values
<1>12. TreeOrder'
  <2>1. SavedOrderly'
    BY <1>1, <1>9 DEF SavedOrderly, Orderly
  <2>2. Installing'
    BY <1>1, <1>4, <1>8 DEF Installing
  <2>3. Compacting'
    BY <1>1, <1>8, <1>9 DEF Compacting
  <2> QED BY <1>8, <2>1, <2>2, <2>3 DEF TreeOrder
<1> QED BY <1>10, <1>11, <1>12 DEF InOrder

\* The tables of the current version hold entries.
LEMMA FiledEntries ==
    ASSUME TreeTypes, Readable(version, tables), NEW k
    PROVE  Filed(k) \subseteq Entry
<1> SUFFICES ASSUME NEW e \in Filed(k) PROVE e \in Entry
  OBVIOUS
<1>1. PICK l \in Levels : e \in Found(version, tables, l, k)
  BY DEF Filed, Stored
<1>2. PICK m \in Range(version.levels[l]) : k \in DOMAIN tables[m.id] /\ e = tables[m.id][k]
  BY <1>1 DEF Found
<1>3. m.id \in version.sstables
  BY DEF Readable
<1>4. tables[m.id] \in Contents
  BY <1>3 DEF TreeTypes, Known
<1>5. EntryOf(tables[m.id], k) \subseteq Entry
  BY <1>4, EntryOfContents
<1> QED BY <1>2, <1>5 DEF EntryOf

\* What a compaction does to an answer: the newest entry stays, or the answer was
\* that the key is deleted.
LEMMA CompactedCovers ==
    ASSUME NEW mem \in SUBSET Entry, NEW imm \in SUBSET Entry, NEW filed \in SUBSET Entry,
           NEW top, NEW d, NEW n \in Nat, Covers(mem, imm, top, filed, d, n),
           \A e \in mem \cup imm, g \in filed : NotOlder(e, g),
           \A g \in imm : g \in mem \/ g \in filed \/ g.type = "DELETE",
           NEW filed2 \in SUBSET filed, NEW top2 \in SUBSET top,
           \A e \in filed : (\A g \in filed : NotOlder(e, g)) =>
                             e \in filed2 \/ (e.type # "PUT" /\ top2 = {})
    PROVE  Covers(mem, imm, top2, filed2, d, n)
<1>1. CASE n = 0
  BY <1>1 DEF Covers
<1>2. CASE /\ mem = {} /\ top = {} /\ \A e \in imm : e.type = "DELETE" /\ e.seq >= n
           /\ d >= n
  BY <1>2 DEF Covers
<1>3. ASSUME NEW e \in mem \cup filed, \A g \in mem \cup filed : NotOlder(e, g),
             e.seq >= n, e.type = "DELETE" => d >= n
      PROVE  Covers(mem, imm, top2, filed2, d, n)
  <2>1. CASE e \in mem \cup filed2
    BY <1>3, <2>1 DEF Covers
  <2>2. CASE e \notin mem \cup filed2
    <3>1. e \in filed /\ e.type = "DELETE" /\ top2 = {} /\ d >= n
      BY <1>3, <2>2 DEF Entry
    <3>2. ASSUME NEW g \in mem \cup imm, NotOlder(e, g) PROVE g = e
      <4>1. NotOlder(g, e) /\ g.seq \in Nat /\ e.seq \in Nat
        BY <3>1 DEF Entry
      <4> QED BY <3>2, <4>1 DEF NotOlder
    <3>3. mem = {}
      BY <1>3, <2>2, <3>2
    <3>4. ASSUME NEW g \in imm PROVE g.type = "DELETE" /\ g.seq >= n
      <4>1. g \in filed => g = e
        BY <1>3, <3>2
      <4>2. g.type = "DELETE"
        BY <3>1, <3>3, <3>4, <4>1
      <4>3. NotOlder(g, e) /\ g.seq \in Nat /\ e.seq \in Nat
        BY <3>1, <3>4 DEF Entry
      <4>4. g.seq >= n
        <5>1. g = e \/ g.seq > e.seq
          BY <4>3 DEF NotOlder
        <5> QED BY <1>3, <4>3, <5>1
      <4> QED BY <4>2, <4>4
    <3> QED BY <3>1, <3>3, <3>4 DEF Covers
  <2> QED BY <2>1, <2>2
<1> QED BY <1>1, <1>2, <1>3 DEF Covers

\* installVersion in the compaction thread: of each key the newest entry stays,
\* or it was a tombstone and L1 and above hold nothing of the key any more.
LEMMA CompactInstallFiles ==
    ASSUME Inv, VInv, CompactInstall, ~disorder'
    PROVE  /\ InOrder /\ f.pc # "install" /\ Orderly(version)'
           /\ \A k : /\ Filed(k)' \subseteq Filed(k) /\ Top(k)' \subseteq Top(k)
                     /\ \A e \in Filed(k) : (\A g \in Filed(k) : NotOlder(e, g)) =>
                            e \in Filed(k)' \/ (e.type # "PUT" /\ Top(k)' = {})
                     /\ Filed(k) \subseteq Entry
                     /\ Mem(k)' = Mem(k) /\ Below(k)' = Below(k)
                     /\ HandedOver(k)' = HandedOver(k)
                     /\ ImmutableEntry(k)' = ImmutableEntry(k)
                     /\ Unfiled(k)' = Unfiled(k)
<1>1. /\ UNCHANGED <<tables, files, save, levelsFile, memtable, immutable, pending, cf, f, w, seq,
                     acked, lastDel, lostWrite, proc>>
      /\ proc = "up" /\ c.pc = "install" /\ version' = c.version
      /\ c' = [c EXCEPT !.pc = "save", !.version = EmptyVersion]
      /\ lostUpdate' = (lostUpdate \/ f.pc = "install") /\ disorder' = (disorder \/ lostUpdate')
  BY DEF CompactInstall, memVars, fileVars, ackVars, boundVars
<1>2. (lostUpdate => disorder) /\ (~disorder => InOrder)
  BY <1>1 DEF VInv
<1>3. c \in CompactRecord /\ TreeTypes
  BY <1>1 DEF Inv, Types, TreeTypes
<1>8. f.pc # "install" /\ InOrder
  BY <1>1, <1>2
<1>9. Recency /\ Values /\ Orderly(version) /\ SavedOrderly /\ Installing /\ Compacting
  BY <1>8 DEF InOrder, TreeOrder
<1>10. PICK t, m, ids, l : /\ t = c.table /\ m = MetaOf(c.id, l + 1, c.table)
                           /\ ids = c.ids /\ l = c.level
  OBVIOUS
<1>11. /\ l \in 0..2 /\ l + 1 \in Levels /\ c.id \in Nat /\ t \in Contents
  <2>1. c.level < 3 /\ c.level \in 0..3
    BY <1>1, <1>3 DEF TreeTypes, CompactRecord, Levels
  <2> QED BY <1>3, <1>10, <2>1 DEF CompactRecord, Levels
<1>12. /\ Mergeable(version, tables, l, ids) /\ Merged(Keys, tables, ids, t)
       /\ tables[c.id] = t /\ t # EmptyTable
       /\ version' = CompactedVersion(version, ids, m)
  BY <1>1, <1>9, <1>10 DEF Compacting, Installing
<1>13. IsTable(t, Keys) /\ DOMAIN t # {}
  BY <1>11, <1>12, ContentsTable, NotEmptyTable
<1>14. Keys \in SUBSET Nat /\ IsFiniteSet(Keys)
  BY EngineAssumption
<1> DEFINE S == {n \in Metas : Bounded(n)}
<1>15. /\ m \in S /\ m.id = c.id /\ m.level = l + 1 /\ Describes(m, t)
       /\ m.minKey \in DOMAIN t /\ m.maxKey \in DOMAIN t
  <2>1. m \in Metas /\ m.id = c.id /\ m.level = l + 1
    BY <1>10, <1>11, <1>12, MetaKnown
  <2>2. /\ Bounded(m) /\ \A k \in DOMAIN t : m.minKey <= k /\ k <= m.maxKey
        /\ m.minKey \in DOMAIN t /\ m.maxKey \in DOMAIN t
    BY <1>10, <1>13, <1>14, MetaOfTable
  <2> QED BY <2>1, <2>2 DEF Describes, Bounded
<1>16. version \in Versions(S)
  <2>1. version \in Versions(Metas)
    BY <1>3 DEF TreeTypes, Known
  <2>2. ASSUME NEW p \in Levels PROVE version.levels[p] \in Seq(S)
    <3>1. version.levels[p] \in Seq(Metas)
      BY <2>1 DEF Versions
    <3>2. \A n \in Range(version.levels[p]) : n \in Metas
      BY <3>1 DEF Range
    <3>3. \A n \in Range(version.levels[p]) : n \in S
      BY <1>9, <3>2 DEF Orderly, Readable
    <3> QED BY <3>1, <3>3, SeqInto
  <2> QED BY <2>1, <2>2 DEF Versions
<1>17. \A n \in S : Bounded(n) /\ n.minKey \in Nat /\ n.level \in Levels /\ n.id \in Nat
  BY DEF Bounded, Metas
<1> HIDE DEF S
<1>18. Compacted(S, version, ids, m, version')
  BY <1>11, <1>12, <1>15, <1>16, <1>17, CompactedLevels
<1>19. Readable(version, tables) /\ OneEach(version, tables)
  BY <1>9 DEF Orderly
<1>20. Readable(version', tables) /\ OneEach(version', tables)
  BY <1>11, <1>12, <1>14, <1>15, <1>16, <1>17, <1>18, <1>19, CompactedReadable
<1>21. ASSUME NEW k
       PROVE  Filed(k)' \subseteq Filed(k) /\ Top(k)' \subseteq Top(k)
  <2>1. /\ \A p \in Levels : \A e \in Found(version', tables, p, k) :
               \/ e \in Found(version, tables, p, k)
               \/ p = l + 1 /\ e \in Found(version, tables, l, k)
        /\ \A e \in Stored(version', tables, k) : e \in Stored(version, tables, k)
    BY <1>11, <1>12, <1>15, <1>16, <1>18, CompactedFound
  <2>2. 0 \in Levels /\ 1 \in Levels /\ l + 1 # 0 /\ (1 = l + 1 => l = 0)
    BY <1>11 DEF Levels
  <2>3. \A e \in Found(version', tables, 0, k) : e \in Found(version, tables, 0, k)
    BY <2>1, <2>2
  <2>4. \A e \in Found(version', tables, 1, k) :
            e \in Found(version, tables, 1, k) \/ e \in Found(version, tables, 0, k)
    BY <2>1, <2>2
  <2>5. tables' = tables
    BY <1>1
  <2> QED BY <2>1, <2>3, <2>4, <2>5 DEF Filed, Top
<1>22. ASSUME NEW k, NEW e \in Filed(k), \A g \in Filed(k) : NotOlder(e, g)
       PROVE  e \in Filed(k)' \/ (e.type # "PUT" /\ Top(k)' = {})
  <2>1. tables' = tables
    BY <1>1
  <2>2. \/ e \in Stored(version', tables, k)
        \/ /\ e.type # "PUT"
           /\ Found(version', tables, 0, k) = {} /\ Found(version', tables, 1, k) = {}
    BY <1>11, <1>12, <1>15, <1>16, <1>18, <1>19, <1>22, CompactedNewest DEF Filed
  <2> QED BY <2>1, <2>2 DEF Filed, Top
<1>23. ASSUME NEW k
       PROVE  /\ Mem(k)' = Mem(k) /\ Below(k)' = Below(k)
              /\ HandedOver(k)' = HandedOver(k)
              /\ ImmutableEntry(k)' = ImmutableEntry(k) /\ Unfiled(k)' = Unfiled(k)
  <2>1. /\ Mem(k)' = Mem(k) /\ ImmutableEntry(k)' = ImmutableEntry(k)
        /\ HandedOver(k)' = HandedOver(k)
    BY <1>1 DEF Mem, ImmutableEntry, HandedOver
  <2>2. Below(k)' = Below(k)
    BY <1>1, <2>1 DEF Below
  <2> QED BY <1>1, <2>1, <2>2 DEF Unfiled, Waiting
<1>24. \A k : Filed(k) \subseteq Entry
  BY <1>3, <1>19, FiledEntries
<1>25. Orderly(version)'
  BY <1>1, <1>20 DEF Orderly
<1> QED BY <1>8, <1>21, <1>22, <1>23, <1>24, <1>25

\* ... which leaves every answered write where a lookup finds it.
LEMMA CompactInstallValues ==
    ASSUME Inv, VInv, CompactInstall
    PROVE  VInv'
<1>1. /\ UNCHANGED <<tables, files, save, levelsFile, memtable, immutable, pending, cf, f, w, seq,
                     acked, lastDel, lostWrite, proc>>
      /\ proc = "up" /\ c.pc = "install" /\ version' = c.version
      /\ c' = [c EXCEPT !.pc = "save", !.version = EmptyVersion]
      /\ lostUpdate' = (lostUpdate \/ f.pc = "install") /\ disorder' = (disorder \/ lostUpdate')
  BY DEF CompactInstall, memVars, fileVars, ackVars, boundVars
<1>2. HandOvers /\ Acks /\ (lostUpdate => disorder) /\ (~disorder => InOrder)
  BY <1>1 DEF VInv
<1>3. c \in CompactRecord
  BY DEF Inv, Types, TreeTypes
<1>4. c'.pc = "save"
  BY <1>1, <1>3 DEF CompactRecord
<1>5. HandOvers'
  BY <1>1, <1>2 DEF HandOvers
<1>6. Acks' /\ NextSeq' = NextSeq /\ \A k : Due(k)' = Due(k)
  BY <1>1, <1>2, WriterCalm
<1>7. SUFFICES ASSUME ~disorder' PROVE InOrder'
  BY <1>1, <1>2, <1>5, <1>6 DEF VInv
<1>8. /\ InOrder /\ f.pc # "install" /\ Orderly(version)'
      /\ \A k : /\ Filed(k)' \subseteq Filed(k) /\ Top(k)' \subseteq Top(k)
                /\ \A e \in Filed(k) : (\A g \in Filed(k) : NotOlder(e, g)) =>
                       e \in Filed(k)' \/ (e.type # "PUT" /\ Top(k)' = {})
                /\ Filed(k) \subseteq Entry
                /\ Mem(k)' = Mem(k) /\ Below(k)' = Below(k)
                /\ ImmutableEntry(k)' = ImmutableEntry(k)
                /\ Unfiled(k)' = Unfiled(k)
  BY <1>7, CompactInstallFiles
<1>9. Recency /\ Values /\ Orderly(version) /\ SavedOrderly /\ Installing /\ Compacting
  BY <1>8 DEF InOrder, TreeOrder
<1>10. ASSUME NEW k \in Keys
       PROVE  /\ Unfiled(k) \subseteq Mem(k) \cup Below(k)
              /\ ImmutableEntry(k) \subseteq Below(k)
              /\ \A e \in Mem(k) \cup Below(k) : e \in Entry
              /\ \A e \in Mem(k) \cup Below(k), g \in Filed(k) : NotOlder(e, g)
              /\ Filed(k) \subseteq Entry
  <2>1. Filed(k) \subseteq Entry
    BY <1>8
  <2>2. Recent(Mem(k), Below(k), Filed(k), NextSeq)
    BY <1>9 DEF Recency
  <2>3. /\ Unfiled(k) \subseteq Mem(k) \cup Below(k)
        /\ ImmutableEntry(k) \subseteq Below(k)
        /\ \A e \in Mem(k) \cup Below(k) : e \in Entry
    BY <1>2, MemoryEntries
  <2> QED BY <2>1, <2>2, <2>3 DEF Recent
<1>11. Recency'
  <2>1. NextSeq \in Nat
    BY <1>2, DueNumbers
  <2>2. ASSUME NEW k \in Keys PROVE Recent(Mem(k)', Below(k)', Filed(k)', NextSeq')
    <3>1. Recent(Mem(k), Below(k), Filed(k), NextSeq)
      BY <1>9 DEF Recency
    <3>2. Recent(Mem(k), Below(k), Filed(k)', NextSeq)
      BY <1>8, <3>1 DEF Recent
    <3> QED BY <1>6, <1>8, <3>2
  <2> QED BY <2>2 DEF Recency
<1>12. ASSUME NEW k \in Keys, f.pc \in Installed, NEW e \in ImmutableEntry(k)
       PROVE  e \in Filed(k)' \/ e.type = "DELETE"
  <2>1. e \in Filed(k) \/ e.type = "DELETE"
    BY <1>9, <1>12 DEF Values
  <2>2. e \in Entry /\ \A g \in Filed(k) : NotOlder(e, g)
    BY <1>10, <1>12
  <2> QED BY <1>8, <2>1, <2>2 DEF Entry
<1>13. ASSUME NEW k \in Keys, NEW n \in Nat,
              Covers(Unfiled(k), ImmutableEntry(k), Top(k), Filed(k), lastDel[k], n)
       PROVE  Covers(Unfiled(k), ImmutableEntry(k), Top(k)', Filed(k)', lastDel[k], n)
  <2>1. PICK mem, imm, filed, top, filed2, top2, d :
            /\ mem = Unfiled(k) /\ imm = ImmutableEntry(k) /\ filed = Filed(k) /\ top = Top(k)
            /\ filed2 = Filed(k)' /\ top2 = Top(k)' /\ d = lastDel[k]
    OBVIOUS
  <2>2. /\ mem \in SUBSET Entry /\ imm \in SUBSET Entry /\ filed \in SUBSET Entry
        /\ \A e \in mem \cup imm, g \in filed : NotOlder(e, g)
    BY <1>10, <2>1
  <2>3. \A g \in imm : g \in mem \/ g \in filed \/ g.type = "DELETE"
    BY <1>9, <2>1 DEF Values, Unfiled, Waiting
  <2>4. /\ filed2 \in SUBSET filed /\ top2 \in SUBSET top
        /\ \A e \in filed : (\A g \in filed : NotOlder(e, g)) =>
                e \in filed2 \/ (e.type # "PUT" /\ top2 = {})
    BY <1>8, <2>1
  <2>5. Covers(mem, imm, top, filed, d, n)
    BY <1>13, <2>1
  <2>6. Covers(mem, imm, top2, filed2, d, n)
    BY <2>2, <2>3, <2>4, <2>5, CompactedCovers
  <2> QED BY <2>1, <2>6
<1>14. Values'
  <2>1. ASSUME NEW k \in Keys, ~lostWrite', NEW n \in Due(k)'
        PROVE  n <= NextSeq' /\ Covered(k, n)'
    <3>1. n <= NextSeq /\ Covered(k, n)
      BY <1>1, <1>6, <1>9, <2>1 DEF Values
    <3>2. Covers(Unfiled(k), ImmutableEntry(k), Top(k)', Filed(k)', lastDel[k], n)
      <4>1. n \in Nat
        BY <1>2, <1>6, <2>1, DueNumbers
      <4> QED BY <1>13, <3>1, <4>1 DEF Covered
    <3> QED BY <1>1, <1>6, <1>8, <3>1, <3>2 DEF Covered
  <2>2. ASSUME NEW k \in Keys, NEW e \in Mem(k)' \cup Below(k)', e.type = "DELETE"
        PROVE  lastDel'[k] >= e.seq
    BY <1>1, <1>9, <1>8, <2>2 DEF Values
  <2>3. ASSUME NEW k \in Keys, f'.pc \in Installed, NEW e \in ImmutableEntry(k)'
        PROVE  e \in Filed(k)' \/ e.type = "DELETE"
    BY <1>1, <1>8, <1>12, <2>3
  <2> QED BY <2>1, <2>2, <2>3 DEF Values
<1>15. TreeOrder'
  <2>1. Orderly(version)'
    BY <1>8
  <2>2. SavedOrderly'
    BY <1>1, <1>4, <1>9 DEF SavedOrderly, Orderly
  <2>3. Installing' /\ Compacting'
    BY <1>1, <1>4, <1>8 DEF Installing, Compacting
  <2> QED BY <2>1, <2>2, <2>3 DEF TreeOrder
<1> QED BY <1>11, <1>14, <1>15 DEF InOrder
-----------------------------------------------------------------------------
(* What a lookup answers, after a crash and at any time.                   *)

\* C is the answer of a lookup with M in memory and F in the version's files.
Answered(C, M, F) ==
    \/ M = {} /\ C = Newest(F)
    \/ \E e \in M : C = {e} /\ \A g \in M \cup F : NotOlder(e, g)

\* Entries with one number.
OneSeq(C) == C \in SUBSET Entry /\ \A e, g \in C : e.seq = g.seq

\* get() returns what is in memory, if anything, and else the newest entry of
\* the version's files.
LEMMA LookupAnswered ==
    ASSUME NEW S, NEW v \in Versions(S), NEW tb, Readable(v, tb), NEW k,
           NEW M, \A e \in M \cup Stored(v, tb, k) : e.seq \in Nat,
           M = {} \/ \E e \in M : \A g \in M : NotOlder(e, g),
           \A e \in M, g \in Stored(v, tb, k) : NotOlder(e, g)
    PROVE  Answered(Lookup(v, tb, k, Newest(M)), M, Stored(v, tb, k))
<1>1. CASE M = {}
  <2>1. Newest(M) = {}
    BY <1>1 DEF Newest
  <2>2. Lookup(v, tb, k, {}) = Newest(Stored(v, tb, k))
    BY LookupStored
  <2> QED BY <1>1, <2>1, <2>2 DEF Answered
<1>2. ASSUME NEW e \in M, \A g \in M : NotOlder(e, g)
      PROVE  Answered(Lookup(v, tb, k, Newest(M)), M, Stored(v, tb, k))
  <2>1. Newest(M) = {e}
    BY <1>2 DEF Newest, NotOlder
  <2>2. Lookup(v, tb, k, {e}) = {e}
    BY LookupCandidate
  <2> QED BY <1>2, <2>1, <2>2 DEF Answered
<1> QED BY <1>1, <1>2

\* All that a lookup returns has one number, whatever the state of the tree.
LEMMA LookupOneSeq ==
    ASSUME NEW v, NEW tb, \A id \in v.sstables : tb[id] \in Contents, NEW k,
           NEW M \in SUBSET Entry
    PROVE  OneSeq(Lookup(v, tb, k, Newest(M)))
<1>1. \A T \in SUBSET Entry : OneSeq(Newest(T))
  BY DEF OneSeq, Newest, Entry
<1>2. \A l : Hits(v, tb, l, k) \subseteq Entry
  <2> SUFFICES ASSUME NEW l, NEW m \in FilesFor(v, l, k)
               PROVE  EntryOf(tb[m.id], k) \subseteq Entry
    BY DEF Hits
  <2>1. tb[m.id] \in Contents
    BY DEF FilesFor
  <2> QED BY <2>1, EntryOfContents
<1> DEFINE N == Newest(M)
<1>3. OneSeq(N) /\ N \in SUBSET Entry
  BY <1>1 DEF Newest
<1> HIDE DEF N
<1>4. \A l : OneSeq(Newest(N \cup Hits(v, tb, l, k)))
  <2> TAKE l
  <2>1. N \cup Hits(v, tb, l, k) \in SUBSET Entry
    BY <1>2, <1>3
  <2> QED BY <1>1, <2>1
<1>5. OneSeq(Lookup(v, tb, k, N))
  BY <1>3, <1>4 DEF Lookup
<1> QED BY <1>5 DEF N

\* The number that the ghosts keep of such an answer.
LEMMA SeqOfOne ==
    ASSUME NEW C, OneSeq(C)
    PROVE  SeqOf(C) \in Nat /\ (C = {} => SeqOf(C) = 0) /\ \A e \in C : SeqOf(C) = e.seq
<1>1. CASE C = {}
  <2>1. {0} \cup {e.seq : e \in C} = {0, 0}
    BY <1>1
  <2>2. Max({0, 0}) = 0
    <3> DEFINE Z == {0, 0}
    <3>1. Z \in SUBSET Nat /\ Z # {} /\ \A n \in Z : n <= 0
      OBVIOUS
    <3>2. \A n \in Z : n = 0
      OBVIOUS
    <3> HIDE DEF Z
    <3>3. Max(Z) \in Z
      BY <3>1, MaxNat
    <3>4. Max(Z) = 0
      BY <3>2, <3>3
    <3> QED BY <3>4 DEF Z
  <2> QED BY <1>1, <2>1, <2>2 DEF SeqOf
<1>2. ASSUME NEW e \in C
      PROVE  SeqOf(C) \in Nat /\ SeqOf(C) = e.seq
  <2>1. e.seq \in Nat
    BY DEF OneSeq, Entry
  <2> DEFINE Z == {0} \cup {g.seq : g \in C}
  <2>2. Z \in SUBSET Nat /\ e.seq \in Z /\ \A n \in Z : n <= e.seq
    BY <2>1 DEF OneSeq
  <2> HIDE DEF Z
  <2>3. Max(Z) \in Z /\ \A n \in Z : n <= Max(Z)
    BY <2>1, <2>2, MaxNat
  <2>4. PICK n \in Nat : Max(Z) = n /\ n <= e.seq /\ e.seq <= n
    BY <2>1, <2>2, <2>3
  <2>5. Max(Z) = e.seq
    BY <2>1, <2>4
  <2> QED BY <2>1, <2>5 DEF SeqOf, Z
<1> QED BY <1>1, <1>2

\* A lookup that has M in memory answers for write n if it is covered.
LEMMA CoveredAnswers ==
    ASSUME NEW C, NEW M \in SUBSET Entry, NEW F \in SUBSET Entry, Answered(C, M, F),
           \A e, g \in F : e.seq = g.seq => e = g,
           NEW k, lastDel[k] \in Nat, NEW n \in Nat, NEW mem, NEW imm, NEW top,
           mem \subseteq M, M \subseteq mem \cup imm, imm \subseteq M,
           Covers(mem, imm, top, F, lastDel[k], n),
           \A e \in M : e.type = "DELETE" => lastDel[k] >= e.seq,
           NEW upper, M = {} /\ top = {} => upper = {}
    PROVE  AnswersFrom(C, upper, k, n)
<1> DEFINE d == lastDel[k]
<1>1. d \in Nat
  OBVIOUS
<1> HIDE DEF d
<1>2. OneSeq(C)
  BY DEF Answered, OneSeq, Newest, Entry
<1>3. SeqOf(C) \in Nat /\ \A e \in C : SeqOf(C) = e.seq
  BY <1>2, SeqOfOne
<1>4. \A e \in C : e \in Entry /\ e.seq \in Nat /\ (e.type = "PUT" \/ e.type = "DELETE")
  BY <1>2 DEF OneSeq, Entry
<1>5. ASSUME NEW e \in C, C = {e}, e.seq >= n, e.type = "DELETE" => d >= n
      PROVE  Answers(C, k, n)
  <2>1. CASE e.type = "PUT"
    <3>1. Visible(C) # {} /\ SeqOf(C) >= n
      BY <1>3, <1>5, <2>1 DEF Visible
    <3> QED BY <3>1 DEF Answers
  <2>2. CASE e.type = "DELETE"
    <3>1. Visible(C) = {} /\ d >= n
      BY <1>5, <2>2 DEF Visible
    <3> QED BY <3>1 DEF Answers, d
  <2> QED BY <1>4, <2>1, <2>2
<1>6. CASE n = 0
  BY <1>3, <1>6 DEF AnswersFrom, Answers
<1>7. CASE /\ mem = {} /\ top = {} /\ \A e \in imm : e.type = "DELETE" /\ e.seq >= n
           /\ d >= n
  <2>1. CASE M = {}
    BY <1>7, <2>1 DEF AnswersFrom, d
  <2>2. CASE M # {}
    <3>1. \A e \in C : e.type = "DELETE"
      BY <1>7, <2>2 DEF Answered
    <3>2. Visible(C) = {}
      BY <3>1 DEF Visible
    <3> QED BY <1>7, <3>2 DEF AnswersFrom, Answers, d
  <2> QED BY <2>1, <2>2
<1>8. ASSUME NEW e \in mem \cup F, \A g \in mem \cup F : NotOlder(e, g), e.seq >= n,
             e.type = "DELETE" => d >= n
      PROVE  Answers(C, k, n)
  <2>0. \A x \in M \cup F : x.seq \in Nat
    BY DEF Entry
  <2>1. CASE M = {}
    <3>1. e \in F /\ \A g \in F : NotOlder(e, g)
      BY <1>8, <2>1
    <3>2. Newest(F) = {e}
      BY <2>0, <3>1 DEF Newest, NotOlder
    <3>3. C = {e}
      BY <2>1, <3>2 DEF Answered
    <3> QED BY <1>5, <1>8, <3>3
  <2>2. ASSUME NEW x \in M, C = {x}, \A g \in M \cup F : NotOlder(x, g)
        PROVE  Answers(C, k, n)
    <3>1. x = e \/ x.seq > e.seq
      BY <1>8, <2>2 DEF NotOlder
    <3>2. x.seq \in Nat /\ e.seq \in Nat
      BY <1>8, <2>0
    <3>3. x.seq >= n
      BY <1>8, <3>1, <3>2
    <3>4. x.type = "DELETE" => d >= x.seq
      BY DEF d
    <3>5. x.type = "DELETE" => d >= n
      BY <1>1, <3>2, <3>3, <3>4
    <3> QED BY <1>5, <2>2, <3>3, <3>5
  <2> QED BY <2>1, <2>2 DEF Answered
<1>9. \/ n = 0
      \/ /\ mem = {} /\ top = {} /\ \A e \in imm : e.type = "DELETE" /\ e.seq >= n
         /\ d >= n
      \/ \E e \in mem \cup F : /\ \A g \in mem \cup F : NotOlder(e, g)
                               /\ e.seq >= n
                               /\ e.type = "DELETE" => d >= n
  BY DEF Covers, d
<1> QED BY <1>6, <1>7, <1>8, <1>9 DEF AnswersFrom

\* What get() looks at before the version: in a state where newer entries are
\* found first, the newest of it is no older than anything else.
LEMMA InMemoryFirst ==
    ASSUME Inv, HandOvers, Recency, NEW k \in Keys, NEW M,
           M = EntryOf(memtable, k) \cup ImmutableEntry(k) \cup HandedOver(k)
    PROVE  /\ M \in SUBSET Entry /\ M \subseteq Mem(k) \cup Below(k)
           /\ M = {} \/ \E e \in M : \A g \in M : NotOlder(e, g)
           /\ \A e \in M, g \in Filed(k) : NotOlder(e, g)
<1>1. /\ \A e \in Mem(k) \cup Below(k) : e \in Entry
      /\ \A e, g \in Mem(k) : e = g
      /\ \A e, g \in Below(k) : e = g
      /\ ImmutableEntry(k) \subseteq Below(k)
  BY MemoryEntries
<1>2. HandedOver(k) \subseteq Below(k)
  BY MemoryMembers DEF Handed
<1>3. M \subseteq Mem(k) \cup Below(k) /\ Mem(k) \subseteq M
  BY <1>1, <1>2 DEF Mem
<1>4. /\ \A e \in Mem(k), g \in Below(k) : NotOlder(e, g)
      /\ \A e \in Mem(k) \cup Below(k), g \in Filed(k) : NotOlder(e, g)
  BY DEF Recency, Recent
<1>5. M = {} \/ \E e \in M : \A g \in M : NotOlder(e, g)
  <2>1. CASE Mem(k) # {}
    BY <1>1, <1>3, <1>4, <2>1 DEF NotOlder
  <2>2. CASE Mem(k) = {}
    BY <1>1, <1>3, <2>2 DEF NotOlder
  <2> QED BY <2>1, <2>2
<1> QED BY <1>1, <1>3, <1>4, <1>5

\* What VInv says of the last answered write of a key (get, writerThreadLoop,
\* checkFlush, flushThreadLoop, the compaction functions, the constructor).
LEMMA VInvNothingLost == Inv /\ VInv => NothingLost
<1> SUFFICES ASSUME Inv, VInv, ~disorder, ~lostWrite, proc = "up", NEW k \in Keys
             PROVE  AnswersFrom(Current(k), Upper(k), k, acked[k])
  BY DEF NothingLost
<1> DEFINE M == EntryOf(memtable, k) \cup ImmutableEntry(k) \cup HandedOver(k)
<1>1. HandOvers /\ Acks /\ Recency /\ Orderly(version) /\ Values /\ TreeTypes
  BY DEF VInv, InOrder, TreeOrder, Inv, Types
<1>2. /\ M \in SUBSET Entry /\ M \subseteq Mem(k) \cup Below(k)
      /\ M = {} \/ \E e \in M : \A g \in M : NotOlder(e, g)
      /\ \A e \in M, g \in Filed(k) : NotOlder(e, g)
  BY <1>1, InMemoryFirst
<1>3. Filed(k) \in SUBSET Entry /\ \A e, g \in Filed(k) : e.seq = g.seq => e = g
  BY <1>1, FiledEntries DEF Orderly, OneEach, Filed
<1>4. /\ Mem(k) \subseteq M /\ ImmutableEntry(k) \subseteq M /\ Unfiled(k) \subseteq M
      /\ M \subseteq Unfiled(k) \cup ImmutableEntry(k)
  BY DEF Mem, Unfiled, Waiting
<1>5. Upper(k) = M \cup Top(k)
  <2>1. Hits(version, tables, 0, k) = Found(version, tables, 0, k)
    BY <1>1, HitsFound DEF Orderly, TreeTypes, Known, Levels
  <2>2. Hits(version, tables, 1, k) = Found(version, tables, 1, k)
    BY <1>1, HitsFound DEF Orderly, TreeTypes, Known, Levels
  <2> QED BY <2>1, <2>2 DEF Upper, Shallow, Top
<1>6. Current(k) = Lookup(version, tables, k, Newest(M))
  BY DEF Current
<1> HIDE DEF M
<1>7. version \in Versions(Metas) /\ Readable(version, tables)
  BY <1>1 DEF TreeTypes, Known, Orderly
<1>8. Answered(Current(k), M, Filed(k))
  <2>1. \A e \in M \cup Stored(version, tables, k) : e.seq \in Nat
    BY <1>2, <1>3 DEF Filed, Entry
  <2>2. \A e \in M, g \in Stored(version, tables, k) : NotOlder(e, g)
    BY <1>2 DEF Filed
  <2> QED BY <1>2, <1>6, <1>7, <2>1, <2>2, LookupAnswered DEF Filed
<1>9. acked[k] \in Nat /\ lastDel[k] \in Nat
  BY <1>1 DEF Acks
<1>10. Covers(Unfiled(k), ImmutableEntry(k), Top(k), Filed(k), lastDel[k], acked[k])
  BY <1>1 DEF Values, Covered, Due
<1>11. \A e \in M : e.type = "DELETE" => lastDel[k] >= e.seq
  BY <1>1, <1>2 DEF Values
<1>12. M = {} /\ Top(k) = {} => Upper(k) = {}
  BY <1>5
<1>13. PICK C, F, mem, imm, top, upper :
            /\ C = Current(k) /\ F = Filed(k) /\ mem = Unfiled(k) /\ imm = ImmutableEntry(k)
            /\ top = Top(k) /\ upper = Upper(k)
  OBVIOUS
<1>14. AnswersFrom(C, upper, k, acked[k])
  BY <1>2, <1>3, <1>4, <1>8, <1>9, <1>10, <1>11, <1>12, <1>13, CoveredAnswers
<1> QED BY <1>13, <1>14

\* The last delete among what a restart recovers of a key.
LEMMA RecoveredDeletes ==
    ASSUME NEW b \in Nat, NEW ids \in SUBSET Nat, \A id \in ids : id <= b,
           NEW tb, \A id \in ids : tb[id] \in Contents, NEW t \in Contents, NEW k, NEW T,
           \A e \in T : e \in EntryOf(t, k) \/ \E id \in ids : e \in EntryOf(tb[id], k)
    PROVE  SeqOf(T) \in Nat /\ \A e \in T : SeqOf(T) >= e.seq
<1> DEFINE D == {id \in ids : k \in DOMAIN tb[id]}
           g == [id \in D |-> tb[id][k].seq]
           N == {g[id] : id \in D}
<1>1. \A id \in D : tb[id][k] \in Entry /\ g[id] = tb[id][k].seq /\ g[id] \in Nat
  <2> SUFFICES ASSUME NEW id \in D PROVE tb[id][k] \in Entry
    BY DEF Entry
  <2>1. IsTable(tb[id], Keys)
    BY ContentsTable
  <2> QED BY <2>1 DEF IsTable
<1>2. IsFiniteSet(N)
  <2>1. IsFiniteSet(0..b)
    BY FS_Interval
  <2>2. IsFiniteSet(D)
    <3>1. \A id \in D : id \in 0..b
      OBVIOUS
    <3> HIDE DEF D
    <3>2. D \in SUBSET (0..b)
      BY <3>1
    <3> QED BY <2>1, <3>2, FS_Subset
  <2>3. g \in Surjection(D, N)
    BY DEF Surjection
  <2> HIDE DEF D, g, N
  <2> QED BY <2>2, <2>3, FS_Surjection
<1>3. N \in SUBSET Nat
  BY <1>1
<1>4. \A e \in T : \/ k \in DOMAIN t /\ e = t[k]
                  \/ \E id \in D : e = tb[id][k]
  BY DEF EntryOf
<1>5. \A e \in T : \/ k \in DOMAIN t /\ e = t[k] /\ e.seq \in Nat
                  \/ e.seq \in N
  <2>1. k \in DOMAIN t => t[k] \in Entry
    BY ContentsTable DEF IsTable
  <2>2. k \in DOMAIN t => t[k].seq \in Nat
    BY <2>1 DEF Entry
  <2> QED BY <1>1, <1>4, <2>2
<1> HIDE DEF D, g, N
<1>6. PICK top \in Nat : \A n \in N : n <= top
  BY <1>2, <1>3, FiniteBounded
<1> DEFINE Z == {0} \cup {e.seq : e \in T}
<1>7. Z \in SUBSET Nat /\ Z # {} /\ \A e \in T : e.seq \in Z
  <2>1. \A e \in T : e.seq \in Nat
    BY <1>3, <1>5
  <2>2. \A n \in Z : n \in Nat
    BY <2>1
  <2> QED BY <2>2
<1>8. \E d \in Nat : \A n \in Z : n <= d
  <2>1. CASE k \in DOMAIN t /\ t[k].seq \in Nat
    <3>1. PICK s \in Nat : s = t[k].seq
      BY <2>1
    <3>2. top + s \in Nat /\ \A n \in Z : n <= top + s
      BY <1>3, <1>5, <1>6, <3>1
    <3> QED BY <3>2
  <2>2. CASE ~(k \in DOMAIN t /\ t[k].seq \in Nat)
    <3>1. \A n \in Z : n <= top
      BY <1>3, <1>5, <1>6, <2>2
    <3> QED BY <1>6, <3>1
  <2> QED BY <2>1, <2>2
<1> HIDE DEF Z
<1>9. Max(Z) \in Z /\ \A n \in Z : n <= Max(Z)
  BY <1>7, <1>8, MaxNat
<1>10. PICK m \in Nat : m = Max(Z)
  BY <1>7, <1>9
<1>11. m = SeqOf(T)
  BY <1>10 DEF SeqOf, Z
<1>12. \A e \in T : e.seq \in Nat /\ e.seq <= m
  BY <1>7, <1>9, <1>10
<1>13. \A e \in T : m >= e.seq
  BY <1>12
<1> QED BY <1>10, <1>11, <1>13

\* The number and the kind of what a lookup answers cover the write.
LEMMA AnswerCovers ==
    ASSUME NEW C, NEW M \in SUBSET Entry, NEW F \in SUBSET Entry, Answered(C, M, F),
           \A e, g \in F : e.seq = g.seq => e = g,
           \A e, g \in M : e = g,
           NEW top, NEW d, \A e \in M \cup F : e.type = "DELETE" => d >= e.seq
    PROVE  /\ Covers(M, {}, top, F, d, SeqOf(C))
           /\ SeqOf(C) = 0 \/ \E e \in M \cup F : SeqOf(C) = e.seq
<1>1. OneSeq(C)
  BY DEF Answered, OneSeq, Newest, Entry
<1>2. \A e \in C : SeqOf(C) = e.seq /\ e.seq \in Nat
  BY <1>1, SeqOfOne
<1>3. \A e \in C : e.type = "DELETE" => d >= e.seq
  BY DEF Answered, Newest
<1>4. CASE C = {}
  <2>1. SeqOf(C) = 0 /\ M = {}
    BY <1>1, <1>4, SeqOfOne DEF Answered
  <2> QED BY <2>1 DEF Covers
<1>5. ASSUME NEW e \in C, e \in M \cup F, \A g \in M \cup F : NotOlder(e, g),
             \A g \in M : g = e
      PROVE  /\ Covers(M, {}, top, F, d, SeqOf(C))
             /\ SeqOf(C) = 0 \/ \E g \in M \cup F : SeqOf(C) = g.seq
  <2>1. SeqOf(C) = e.seq /\ e.seq \in Nat /\ (e.type = "DELETE" => d >= e.seq)
    BY <1>2, <1>3, <1>5
  <2>2. e.seq >= SeqOf(C) /\ (e.type = "DELETE" => d >= SeqOf(C))
    BY <2>1
  <2>3. Covers(M, {}, top, F, d, SeqOf(C))
    BY <1>5, <2>2 DEF Covers
  <2> QED BY <1>5, <2>1, <2>3
<1>6. ASSUME NEW e \in M, C = {e}, \A g \in M \cup F : NotOlder(e, g)
      PROVE  /\ Covers(M, {}, top, F, d, SeqOf(C))
             /\ SeqOf(C) = 0 \/ \E g \in M \cup F : SeqOf(C) = g.seq
  BY <1>5, <1>6
<1>7. ASSUME M = {}, C = Newest(F), NEW e \in C
      PROVE  /\ Covers(M, {}, top, F, d, SeqOf(C))
             /\ SeqOf(C) = 0 \/ \E g \in M \cup F : SeqOf(C) = g.seq
  <2>1. e \in F /\ \A g \in F : e.seq >= g.seq
    BY <1>7 DEF Newest
  <2>2. \A g \in F : e.seq \in Nat /\ g.seq \in Nat
    BY <2>1 DEF Entry
  <2>3. \A g \in F : NotOlder(e, g)
    BY <2>1, <2>2 DEF NotOlder
  <2> QED BY <1>5, <1>7, <2>1, <2>3
<1> QED BY <1>4, <1>6, <1>7 DEF Answered

\* What the constructor finds: the levels as they were saved, with the log in
\* the memtable; the counters go on above both.
LEMMA RestartFinds ==
    ASSUME Inv, CrashRestart, proc' = "up", NEW levels, Read(levels)
    PROVE  /\ version'.levels = levels /\ version'.sstables = IdsOf(levels) \cap files
           /\ levels = EmptyVersion.levels \/ levels \in levelsFile
           /\ 1 <= seq' /\ seq' \in Nat
           /\ memtable' \in Contents
           /\ \A k \in DOMAIN memtable' : memtable'[k].seq < seq'
<1>1. /\ proc = "up" /\ metaFile # {<<>>} /\ memtable' = Replayed(log)
      /\ version' = LoadedVersion(levels, files)
  BY DEF CrashRestart, Read
<1>2. /\ seq' \in Nat /\ 1 <= seq' /\ \A r \in Range(log) : r.seq < seq'
      /\ levels = IF levelsFile = {} THEN EmptyVersion.levels
                  ELSE CHOOSE ls \in levelsFile : TRUE
  BY <1>1, RestartCounters
<1>3. log \in Seq(Records)
  BY DEF Inv, Types, LogTypes
<1>4. IsTable(Replayed(log), Keys) /\ FromLog(log, Replayed(log))
  BY <1>3, ReplayedTable DEF Records
<1>5. ASSUME NEW k \in DOMAIN memtable' PROVE memtable'[k].seq < seq'
  <2>1. PICK r \in Range(log) : memtable'[k] = [seq |-> r.seq, type |-> r.type]
    BY <1>1, <1>4, <1>5 DEF FromLog
  <2>2. memtable'[k].seq = r.seq
    BY <2>1
  <2> QED BY <1>2, <2>2
<1>6. memtable' \in Contents
  BY <1>1, <1>4, ContentsTable
<1>7. version'.levels = levels /\ version'.sstables = IdsOf(levels) \cap files
  BY <1>1 DEF LoadedVersion
<1> QED BY <1>2, <1>5, <1>6, <1>7

\* The constructor, after a crash: the answered writes are those it recovers.
LEMMA CrashRestartValues ==
    ASSUME Inv, VInv, CrashRestart
    PROVE  VInv'
<1> SUFFICES ASSUME proc' = "up"
             PROVE  /\ HandOvers' /\ Acks' /\ (lostUpdate' => disorder')
                    /\ (~disorder' => InOrder')
  BY DEF VInv
<1>1. /\ proc = "up" /\ UNCHANGED <<tables, files, levelsFile>>
      /\ immutable' = {} /\ pending' = FALSE
      /\ w' = WriterStart /\ cf' = CheckFlushStart
      /\ f' = FlushStart /\ c' = CompactStart /\ save' = NotSaving
      /\ lostUpdate' = FALSE
      /\ disorder' = (disorder \/ \E id \in version'.sstables : Misplaced(id)')
      /\ acked' = [k \in Keys |-> SeqOf(Current(k)')]
      /\ lastDel' = [k \in Keys |->
             SeqOf({e \in EntryOf(memtable', k) \cup InFiles(version'.sstables, k) :
                        e.type = "DELETE"})]
  BY DEF CrashRestart, fileVars
<1>2. PICK levels : Read(levels)
  BY DEF CrashRestart, Read
<1>3. /\ version'.levels = levels /\ version'.sstables = IdsOf(levels) \cap files
      /\ levels = EmptyVersion.levels \/ levels \in levelsFile
      /\ 1 <= seq' /\ seq' \in Nat
      /\ memtable' \in Contents
      /\ \A k \in DOMAIN memtable' : memtable'[k].seq < seq'
  BY <1>2, RestartFinds
<1>4. TreeTypes'
  BY CrashRestartStep DEF Inv, Types
<1>5. /\ w'.pc = "pop" /\ f'.pc = "test" /\ c'.pc = "test" /\ save'.by = "none"
      /\ \A t \in Callers : cf'[t].pc = "idle"
  BY <1>1 DEF WriterStart, FlushStart, CompactStart, NotSaving, CheckFlushStart
<1>6. HandOvers'
  <2>1. "writer" \in Callers
    BY DEF Callers
  <2> QED BY <1>1, <1>5, <2>1 DEF HandOvers, Locked, Handed, Busy
<1>7. ASSUME NEW k
      PROVE  /\ Mem(k)' = EntryOf(memtable', k) /\ Below(k)' = {}
             /\ ImmutableEntry(k)' = {} /\ Unfiled(k)' = EntryOf(memtable', k)
             /\ Current(k)' = Lookup(version', tables', k, Newest(EntryOf(memtable', k)))
             /\ Filed(k)' = Stored(version', tables', k)
  <2>1. ImmutableEntry(k)' = {}
    BY <1>1 DEF ImmutableEntry
  <2>2. HandedOver(k)' = {}
    BY <1>5 DEF HandedOver
  <2>3. Below(k)' = {}
    <3>1. \A t \in Callers : cf'[t].pc \notin Handed
      BY <1>5 DEF Handed
    <3> QED BY <2>1, <3>1 DEF Below
  <2>4. Mem(k)' = EntryOf(memtable', k) /\ Filed(k)' = Stored(version', tables', k)
    BY DEF Mem, Filed
  <2>5. Unfiled(k)' = EntryOf(memtable', k)
    BY <2>1, <2>2, <2>4 DEF Unfiled, Waiting
  <2>6. Current(k)' = Lookup(version', tables', k, Newest(EntryOf(memtable', k)))
    BY <2>1, <2>2 DEF Current
  <2> QED BY <2>1, <2>3, <2>4, <2>5, <2>6
<1>8. ASSUME NEW k \in Keys
      PROVE  /\ EntryOf(memtable', k) \in SUBSET Entry
             /\ \A e, g \in EntryOf(memtable', k) : e = g
             /\ \A e \in EntryOf(memtable', k) :
                    k \in DOMAIN memtable' /\ e = memtable'[k] /\ e.seq < seq'
             /\ OneSeq(Current(k)')
             /\ acked'[k] = SeqOf(Current(k)') /\ acked'[k] \in Nat
             /\ lastDel'[k] \in Nat
             /\ \A e \in EntryOf(memtable', k) : e.type = "DELETE" => lastDel'[k] >= e.seq
             /\ \A id \in version'.sstables : \A e \in EntryOf(tables'[id], k) :
                    e.type = "DELETE" => lastDel'[k] >= e.seq
  <2>1. EntryOf(memtable', k) \in SUBSET Entry
    BY <1>3, EntryOfContents
  <2>2. /\ \A e, g \in EntryOf(memtable', k) : e = g
        /\ \A e \in EntryOf(memtable', k) :
               k \in DOMAIN memtable' /\ e = memtable'[k] /\ e.seq < seq'
    BY <1>3 DEF EntryOf
  <2>3. OneSeq(Current(k)')
    <3>1. \A id \in version'.sstables : tables'[id] \in Contents
      BY <1>4 DEF TreeTypes, Known
    <3> QED BY <1>7, <2>1, <3>1, LookupOneSeq
  <2>4. SeqOf(Current(k)') \in Nat /\ acked'[k] = SeqOf(Current(k)')
    BY <1>1, <2>3, SeqOfOne
  <2>5. PICK T : T = {e \in EntryOf(memtable', k) \cup UNION {EntryOf(tables'[id], k) :
                                                id \in version'.sstables} : e.type = "DELETE"}
    OBVIOUS
  <2>6. lastDel'[k] = SeqOf(T)
    BY <1>1, <2>5 DEF InFiles
  <2>7. SeqOf(T) \in Nat /\ \A e \in T : SeqOf(T) >= e.seq
    <3>0. counter' \in Nat /\ version'.sstables \in SUBSET Nat
      BY <1>4 DEF TreeTypes, Known, Versions
    <3>a. PICK b \in Nat : b = counter'
      BY <3>0
    <3>b. PICK ids \in SUBSET Nat : ids = version'.sstables
      BY <3>0
    <3>c. PICK tb : tb = tables'
      OBVIOUS
    <3>d. PICK t \in Contents : t = memtable'
      BY <1>3
    <3>1. b = counter' /\ ids = version'.sstables /\ tb = tables' /\ t = memtable'
      BY <3>a, <3>b, <3>c, <3>d
    <3>2. \A id \in ids : id <= b /\ tb[id] \in Contents
      <4>1. VersionUpto(version', counter')
        BY CrashRestartStep DEF Inv, TreeInv, Numbers
      <4> QED BY <1>4, <3>1, <4>1 DEF VersionUpto, TreeTypes, Known
    <3>3. \A e \in T : e \in EntryOf(t, k) \/ \E id \in ids : e \in EntryOf(tb[id], k)
      BY <2>5, <3>1
    <3> QED BY <3>2, <3>3, RecoveredDeletes
  <2>8. /\ \A e \in EntryOf(memtable', k) : e.type = "DELETE" => e \in T
        /\ \A id \in version'.sstables : \A e \in EntryOf(tables'[id], k) :
               e.type = "DELETE" => e \in T
    BY <2>5
  <2> QED BY <2>1, <2>2, <2>3, <2>4, <2>6, <2>7, <2>8
<1>9. Acks' /\ NextSeq' = seq' /\ \A k \in Keys : Due(k)' = {acked'[k]}
  <2>1. Logged' = 0 /\ Applied' = 0 /\ NextSeq' = seq'
    BY <1>5 DEF Logged, Applied, NextSeq
  <2>2. acked' = [k \in Keys |-> acked'[k]] /\ lastDel' = [k \in Keys |-> lastDel'[k]]
    BY <1>1
  <2>3. acked' \in [Keys -> Nat] /\ lastDel' \in [Keys -> Nat]
    BY <1>8, <2>2
  <2>4. \A k \in Keys : Due(k)' = {acked'[k]}
    BY <2>1 DEF Due
  <2> QED BY <1>3, <2>1, <2>3, <2>4 DEF Acks
<1>10. ASSUME ~disorder' PROVE InOrder'
  <2>1. ~disorder /\ \A id \in version'.sstables : ~Misplaced(id)'
    BY <1>1, <1>10
  <2>2. SavedOrderly
    BY <1>1, <2>1 DEF VInv, InOrder, TreeOrder
  <2>3. Orderly(Saved(levels)) /\ IdsOf(levels) \subseteq files
    BY <1>3, <2>2, SavedEmpty DEF SavedOrderly
  <2>4. Orderly(version)' /\ version'.sstables = IdsOf(levels)
    <3>1. version' \in Versions(Metas)
      BY <1>4 DEF TreeTypes, Known
    <3>2. version'.levels = Saved(levels).levels /\ version'.sstables = Saved(levels).sstables
      BY <1>3, <2>3 DEF Saved
    <3>3. version' = Saved(levels)
      BY <3>1, <3>2 DEF Versions, Saved
    <3> QED BY <1>1, <2>3, <3>3 DEF Orderly, Saved
  <2>5. SavedOrderly' /\ Installing' /\ Compacting'
    BY <1>1, <1>5, <2>2 DEF SavedOrderly, Installing, Compacting, Orderly
  <2>6. ASSUME NEW k \in Keys, NEW e \in Filed(k)'
        PROVE  /\ e \in Entry /\ e.seq < seq'
               /\ e.type = "DELETE" => lastDel'[k] >= e.seq
               /\ \A g \in EntryOf(memtable', k) : NotOlder(g, e)
    <3>0. PICK l \in Levels : \E m \in Range(version'.levels[l]) :
              k \in DOMAIN tables'[m.id] /\ e = tables'[m.id][k]
      BY <1>7, <2>6, FoundFiles
    <3>1. PICK m \in Range(version'.levels[l]) : k \in DOMAIN tables'[m.id] /\ e = tables'[m.id][k]
      BY <3>0
    <3>2. m.id \in version'.sstables
      BY <2>4, <3>1 DEF Orderly, Readable
    <3>3. tables'[m.id] \in Contents
      BY <1>4, <3>2 DEF TreeTypes, Known
    <3>4. e \in Entry
      BY <3>1, <3>3, ContentsTable DEF IsTable
    <3>5. ~Misplaced(m.id)'
      BY <2>1, <3>2
    <3>6. ~(e.seq >= seq') /\ (k \in DOMAIN memtable' /\ memtable'[k] # e =>
                                   ~(e.seq >= memtable'[k].seq))
      BY <3>1, <3>5 DEF Misplaced
    <3>7. e.seq \in Nat /\ \A g \in EntryOf(memtable', k) : g.seq \in Nat
      BY <1>8, <3>4 DEF Entry
    <3>8. e.seq < seq'
      BY <1>3, <3>6, <3>7
    <3>9. ASSUME NEW g \in EntryOf(memtable', k) PROVE NotOlder(g, e)
      <4>1. k \in DOMAIN memtable' /\ g = memtable'[k]
        BY <1>8
      <4>2. g = e \/ ~(e.seq >= g.seq)
        BY <3>6, <4>1
      <4> QED BY <3>7, <4>2 DEF NotOlder
    <3>10. e.type = "DELETE" => lastDel'[k] >= e.seq
      BY <1>8, <3>1, <3>2 DEF EntryOf
    <3> QED BY <3>4, <3>8, <3>9, <3>10
  <2>7. Recency'
    <3> SUFFICES ASSUME NEW k \in Keys PROVE Recent(Mem(k)', Below(k)', Filed(k)', NextSeq')
      BY DEF Recency
    <3>1. Recent(EntryOf(memtable', k), {}, Filed(k)', seq')
      BY <1>8, <2>6 DEF Recent
    <3> QED BY <1>7, <1>9, <3>1
  <2>8. Values'
    <3> SUFFICES ASSUME NEW k \in Keys
                 PROVE  /\ acked'[k] <= seq'
                        /\ Covers(EntryOf(memtable', k), {}, Top(k)', Filed(k)', lastDel'[k],
                                  acked'[k])
                        /\ \A e \in EntryOf(memtable', k) :
                               e.type = "DELETE" => lastDel'[k] >= e.seq
      BY <1>5, <1>7, <1>9 DEF Values, Covered, Installed
    <3> DEFINE C == Lookup(version', tables', k, Newest(EntryOf(memtable', k)))
               M == EntryOf(memtable', k)
               F == Stored(version', tables', k)
    <3>1. M \in SUBSET Entry /\ F \in SUBSET Entry /\ \A e, g \in M : e = g
      BY <1>7, <1>8, <2>6
    <3>2. version' \in Versions(Metas) /\ Readable(version', tables')
      BY <1>4, <2>4 DEF TreeTypes, Known, Orderly
    <3>3. /\ M = {} \/ \E e \in M : \A g \in M : NotOlder(e, g)
          /\ \A e \in M, g \in F : NotOlder(e, g)
          /\ \A e \in M \cup F : e.seq \in Nat /\ e.seq < seq'
      <4>1. M = {} \/ \E e \in M : \A g \in M : NotOlder(e, g)
        BY <3>1 DEF NotOlder
      <4>2. \A e \in M, g \in F : NotOlder(e, g)
        BY <1>7, <2>6
      <4>3. \A e \in M \cup F : e.seq \in Nat
        BY <3>1 DEF Entry
      <4>4. \A e \in M \cup F : e.seq < seq'
        BY <1>7, <1>8, <2>6
      <4> QED BY <4>1, <4>2, <4>3, <4>4
    <3>4. Answered(C, M, F)
      BY <3>2, <3>3, LookupAnswered
    <3>5. \A e, g \in F : e.seq = g.seq => e = g
      BY <2>4 DEF Orderly, OneEach
    <3>6. C = Current(k)' /\ F = Filed(k)'
      BY <1>7
    <3>7. /\ acked'[k] = SeqOf(Current(k)') /\ acked'[k] \in Nat
      BY <1>8
    <3> HIDE DEF C, M, F
    <3>8. acked'[k] = SeqOf(C)
      BY <3>6, <3>7
    <3>a. PICK d : d = lastDel'[k]
      OBVIOUS
    <3>b. PICK top : top = Top(k)'
      OBVIOUS
    <3>c. \A e \in M \cup F : e.type = "DELETE" => d >= e.seq
      <4>1. \A e \in M : e.type = "DELETE" => d >= e.seq
        BY <1>8, <3>a DEF M
      <4>2. \A e \in F : e.type = "DELETE" => d >= e.seq
        BY <2>6, <3>6, <3>a
      <4> QED BY <4>1, <4>2
    <3>d. /\ Covers(M, {}, top, F, d, SeqOf(C))
          /\ SeqOf(C) = 0 \/ \E e \in M \cup F : SeqOf(C) = e.seq
      BY <3>1, <3>4, <3>5, <3>c, AnswerCovers
    <3>9. /\ Covers(M, {}, Top(k)', F, lastDel'[k], SeqOf(C))
          /\ SeqOf(C) = 0 \/ \E e \in M \cup F : SeqOf(C) = e.seq
      BY <3>a, <3>b, <3>d
    <3>10. acked'[k] <= seq'
      BY <1>3, <3>3, <3>7, <3>8, <3>9
    <3> QED BY <1>8, <3>6, <3>8, <3>9, <3>10 DEF M
  <2> QED BY <2>4, <2>5, <2>7, <2>8 DEF InOrder, TreeOrder
<1> QED BY <1>1, <1>6, <1>9, <1>10

\* A process that a thread has ended promises nothing until it starts again.
LEMMA CompactThrowValues ==
    ASSUME CompactThrow
    PROVE  VInv'
BY DEF CompactThrow, VInv

-----------------------------------------------------------------------------
(* The theorems about answered writes.                                     *)

\* Where the entries of a key are and in which order a lookup meets them, from
\* the memtable to levels.txt, is kept by every thread and by a restart
\* (writerThreadLoop, checkFlush, flushThreadLoop, compactL0toL1, compactlevelN,
\* saveMetadata, the constructor).
THEOREM VInvCorrect == Spec => []VInv
<1>1. Init => VInv
  <2> SUFFICES ASSUME Init PROVE VInv
    OBVIOUS
  <2>1. /\ w.pc = "pop" /\ f.pc = "test" /\ c.pc = "test" /\ save.by = "none"
        /\ \A t \in Callers : cf[t].pc = "idle"
        /\ immutable = {} /\ ~pending /\ ~lostUpdate /\ levelsFile = {} /\ seq = 1
        /\ memtable = EmptyTable /\ version = EmptyVersion /\ DOMAIN tables = {}
        /\ acked = [k \in Keys |-> 0] /\ lastDel = acked
    BY DEF Init, WriterStart, CheckFlushStart, FlushStart, CompactStart, NotSaving, EmptyTable
  <2>2. HandOvers
    <3>1. "writer" \in Callers
      BY DEF Callers
    <3> QED BY <2>1, <3>1 DEF HandOvers, Locked, Handed, Busy
  <2>3. Acks /\ NextSeq = 1 /\ \A k \in Keys : Due(k) = {0} /\ lastDel[k] = 0
    <3>1. Logged = 0 /\ Applied = 0 /\ NextSeq = 1
      BY <2>1 DEF Logged, Applied, NextSeq
    <3> QED BY <2>1, <3>1 DEF Acks, Due
  <2>4. \A k : EntryOf(EmptyTable, k) = {}
    BY DEF EntryOf, EmptyTable
  <2>5. ASSUME NEW k \in Keys
        PROVE  Mem(k) = {} /\ Below(k) = {} /\ Filed(k) = {} /\ ImmutableEntry(k) = {}
    <3>1. Mem(k) = {} /\ ImmutableEntry(k) = {}
      BY <2>1, <2>4 DEF Mem, ImmutableEntry
    <3>2. Below(k) = {}
      BY <2>1, <3>1 DEF Below, Handed
    <3>3. Filed(k) = {}
      BY <2>1, EmptyKnown DEF Filed, Stored, Found, EmptyVersion, Range
    <3> QED BY <3>1, <3>2, <3>3
  <2>6. Recency
    BY <2>5 DEF Recency, Recent
  <2>7. Orderly(version)
    <3>1. Saved(EmptyVersion.levels) = EmptyVersion
      BY SavedEmpty DEF Saved, EmptyVersion
    <3> QED BY <2>1, <3>1, SavedEmpty
  <2>8. SavedOrderly /\ Installing /\ Compacting
    BY <2>1 DEF SavedOrderly, Installing, Compacting
  <2>9. Values
    BY <2>1, <2>3, <2>5 DEF Values, Covered, Covers, Installed
  <2> QED BY <2>1, <2>2, <2>3, <2>6, <2>7, <2>8, <2>9 DEF VInv, InOrder, TreeOrder
<1>2. Inv /\ VInv /\ [Next]_vars => VInv'
  <2> SUFFICES ASSUME Inv, VInv, [Next]_vars PROVE VInv'
    OBVIOUS
  <2>1. CASE WalSwap \/ WalPublish
    BY <2>1, OtherSteps
  <2>2. CASE WriterPop \/ WriterStep
    BY <2>2, WriterSteps, WriterApplyValues, WriterAckValues DEF WriterStep
  <2>3. CASE \E t \in Flushers : FlushCall(t)
    <3>1. Flushers \subseteq Callers
      BY DEF Callers
    <3> QED BY <2>3, <3>1, CallerSteps
  <2>4. CASE \E t \in Callers : CheckFlush(t)
    BY <2>4, CallerSteps, NotifyStep, HandOverSteps DEF CheckFlush
  <2>5. CASE SaveMetadata
    BY <2>5, SaveValues DEF SaveMetadata
  <2>6. CASE FlushThread
    BY <2>6, FlushIdleValues, BuildValues, CopyValues, FlushInstallValues, SaveCallValues
       DEF FlushThread
  <2>7. CASE CompactionThread
    BY <2>7, CompactIdleValues, MergeValues, CompactThrowValues, BuildValues, CopyValues,
       CompactInstallValues, SaveCallValues DEF CompactionThread
  <2>8. CASE \E r \in Readers, k \in Keys : GetBegin(r, k)
    BY <2>8, OtherSteps
  <2>9. CASE \E r \in Readers : Get(r)
    BY <2>9, OtherSteps
  <2>10. CASE CrashRestart
    BY <2>10, CrashRestartValues
  <2>11. CASE UNCHANGED vars
    BY <2>11, OtherSteps
  <2> QED BY <2>1, <2>2, <2>3, <2>4, <2>5, <2>6, <2>7, <2>8, <2>9, <2>10, <2>11 DEF Next
<1> QED BY <1>1, <1>2, InvCorrect, PTL DEF Spec

\* A lookup finds for each key its last answered write, or a later one, or its
\* deletion, whatever the writer, flush() calls, the flush thread, the compaction
\* thread and crashes have done since, unless one of the races that NothingLost
\* names has happened (get, checkFlush, flushThreadLoop, the compaction functions).
THEOREM NothingLostCorrect == Spec => []NothingLost
BY InvCorrect, VInvCorrect, VInvNothingLost, PTL

-----------------------------------------------------------------------------
(* What get() returns is fresh, and what it puts in the cache is current:  *)
(* what a reader has passed by holds no newer write than what lies ahead.  *)

\* All in memory, the copies of the memtable that are not handed over left out.
InMemory(k) == Mem(k) \cup HandedOver(k) \cup ImmutableEntry(k)

\* The writes a get() must not miss: the one that had been answered when it
\* began and, as long as its key is not written, those of the batch.
Goals(r) ==
    {rd[r].floor} \cup
        (IF rd[r].overlap THEN {} ELSE {n \in Due(rd[r].key) : n >= rd[r].floor})

\* What has been found of k is write number n or newer.
Reaches(cand, k, n) ==
    \A e \in cand : e.seq >= n /\ (e.type = "DELETE" => lastDel[k] >= n)

\* Write number n of k, if it is not in the memtable; ... nor in memory.
Passed(k, n) ==
    /\ Covers(Waiting(k), ImmutableEntry(k), Top(k), Filed(k), lastDel[k], n)
    /\ \A e \in Mem(k) : e.seq >= n
PassedAll(k, n) ==
    /\ Covers({}, {}, Top(k), Filed(k), lastDel[k], n)
    /\ \A e \in InMemory(k) : e.seq >= n

\* A search of v finds write number n of k or a newer one.
InVersion(v, k, n) ==
    n = 0 \/ \E e \in Stored(v, tables, k) :
                 /\ \A g \in Stored(v, tables, k) : NotOlder(e, g)
                 /\ Reaches({e}, k, n)

\* The tombstones in v's files are those of deletes that are known.
Deleted(v) ==
    \A k \in Keys : \A e \in Stored(v, tables, k) : e.type = "DELETE" => lastDel[k] >= e.seq

\* A reader between two steps of get().
Begun(r) ==
    rd[r].pc # "idle" =>
        /\ rd[r].key \in Keys /\ OneSeq(rd[r].cand)
        /\ rd[r].floor \in Nat /\ rd[r].floor <= acked[rd[r].key]
ReadImm(r) ==
    rd[r].pc = "imm" => \A n \in Goals(r) :
        /\ Reaches(rd[r].cand, rd[r].key, n)
        /\ rd[r].cand = {} => Passed(rd[r].key, n)
ReadVersion(r) ==
    rd[r].pc = "version" /\ ~rd[r].gap => \A n \in Goals(r) :
        /\ Reaches(rd[r].cand, rd[r].key, n)
        /\ rd[r].cand = {} => PassedAll(rd[r].key, n)
ReadSearch(r) ==
    rd[r].pc = "search" =>
        /\ Orderly(rd[r].version) /\ VersionUpto(rd[r].version, counter)
        /\ Deleted(rd[r].version)
        /\ ~rd[r].gap => \A n \in Goals(r) :
                /\ Reaches(rd[r].cand, rd[r].key, n)
                /\ rd[r].cand = {} => InVersion(rd[r].version, rd[r].key, n)
ReadFill(r) ==
    rd[r].pc = "fill" =>
        /\ \A e \in rd[r].cand : e.type = "PUT"
        /\ ~rd[r].gap => \A n \in Goals(r) : Reaches(rd[r].cand, rd[r].key, n)
ReadDone(r) ==
    rd[r].pc = "done" /\ ~rd[r].gap => Answers(rd[r].cand, rd[r].key, rd[r].floor)

Reading(r) ==
    Begun(r) /\ ReadImm(r) /\ ReadVersion(r) /\ ReadSearch(r) /\ ReadFill(r) /\ ReadDone(r)

\* The writer has a write of k in the memtable and k not yet out of the cache.
Writing(k) == w.pc \in {"log", "invalidate"} /\ Request.key = k

\* A node of the cache that no overlapped get() has put there.
UpToDate(x) ==
    /\ x.key \in Keys /\ x.entry.type = "PUT" /\ x.entry.seq >= acked[x.key]
    /\ ~Writing(x.key) => \A n \in Due(x.key) : x.entry.seq >= n

CacheOk == \A x \in Range(cache) : x.key \notin tainted => UpToDate(x)

\* LRUCache's map has one position for a key.
OnePlace(s) == \A i, j \in DOMAIN s : s[i].key = s[j].key => i = j

\* No tombstone is newer than the last delete, and that has been given its number.
Tombstones == Deleted(version) /\ \A k \in Keys : lastDel[k] < NextSeq

ReadInv ==
    /\ OnePlace(cache)
    /\ ~disorder /\ ~lostWrite =>
           /\ proc = "up" => Tombstones
           /\ CacheOk /\ \A r \in Readers : Reading(r)

\* LRUCache: taking a key out leaves the other nodes, one for each key.
LEMMA WithoutNodes ==
    ASSUME NEW s \in Seq(Node), OnePlace(s), NEW k
    PROVE  /\ OnePlace(CacheWithout(s, k))
           /\ \A x \in Range(CacheWithout(s, k)) : x \in Range(s) /\ x.key # k
<1> DEFINE at == {i \in DOMAIN s : s[i].key = k}
           i == CHOOSE j \in at : TRUE
<1>1. CASE at = {}
  <2>1. CacheWithout(s, k) = s
    BY <1>1 DEF CacheWithout
  <2>2. \A x \in Range(s) : x.key # k
    BY <1>1 DEF Range
  <2> QED BY <2>1, <2>2
<1>2. CASE at # {}
  <2>1. i \in at
    BY <1>2
  <2>2. i \in 1..Len(s) /\ Len(s) \in Nat /\ s[i].key = k /\ DOMAIN s = 1..Len(s)
    BY <2>1
  <2>3. CacheWithout(s, k) = SubSeq(s, 1, i - 1) \o SubSeq(s, i + 1, Len(s))
    BY <1>2 DEF CacheWithout
  <2> HIDE DEF i, at
  <2> DEFINE p == SubSeq(s, 1, i - 1)
             q == SubSeq(s, i + 1, Len(s))
  <2>12. PICK n \in Nat : n = Len(s) /\ i \in 1..n /\ DOMAIN s = 1..n
    BY <2>2
  <2>13. p \in Seq(Node) /\ Len(p) = i - 1 /\ \A j \in 1..(i - 1) : p[j] = s[j]
    BY <2>12
  <2>14. q \in Seq(Node) /\ Len(q) = n - i
    BY <2>12
  <2>15. \A j \in 1..(n - i) : q[j] = s[i + j]
    <3> TAKE j \in 1..(n - i)
    <3>1. q[j] = s[i + 1 + j - 1]
      BY <2>12
    <3>2. i + 1 + j - 1 = i + j
      BY <2>12
    <3> QED BY <3>1, <3>2
  <2>4. /\ p \in Seq(Node) /\ Len(p) = i - 1 /\ \A j \in 1..(i - 1) : p[j] = s[j]
        /\ q \in Seq(Node) /\ Len(q) = Len(s) - i
        /\ \A j \in 1..(Len(s) - i) : q[j] = s[i + j]
    BY <2>12, <2>13, <2>14, <2>15
  <2>5. CacheWithout(s, k) = p \o q
    BY <2>3
  <2> HIDE DEF p, q
  <2> DEFINE u == p \o q
  <2>6. u \in Seq(Node) /\ DOMAIN u = 1..(Len(s) - 1)
    <3>1. u \in Seq(Node) /\ Len(u) = Len(p) + Len(q) /\ DOMAIN u = 1..Len(u)
      BY <2>4
    <3>2. Len(u) = Len(s) - 1
      BY <2>4, <2>12, <3>1
    <3> QED BY <3>1, <3>2
  <2>7. ASSUME NEW j \in 1..(Len(s) - 1)
        PROVE  u[j] = IF j < i THEN s[j] ELSE s[j + 1]
    <3>1. CASE j < i
      <4>1. u[j] = p[j]
        BY <2>2, <2>4, <3>1
      <4> QED BY <2>2, <2>4, <3>1, <4>1
    <3>2. CASE ~(j < i)
      <4>1. u[j] = q[j - (i - 1)] /\ j - (i - 1) \in 1..(Len(s) - i)
        BY <2>2, <2>4, <3>2
      <4>2. i + (j - (i - 1)) = j + 1
        BY <2>2
      <4> QED BY <2>4, <3>2, <4>1, <4>2
    <3> QED BY <3>1, <3>2
  <2> HIDE DEF u
  <2>8. \A j \in 1..(Len(s) - 1) :
            /\ j \in DOMAIN s /\ j + 1 \in DOMAIN s
            /\ u[j] = IF j < i THEN s[j] ELSE s[j + 1]
    BY <2>2, <2>7
  <2>9. ASSUME NEW a \in DOMAIN u, NEW b \in DOMAIN u, u[a].key = u[b].key PROVE a = b
    <3>1. (IF a < i THEN a ELSE a + 1) = (IF b < i THEN b ELSE b + 1)
      BY <2>6, <2>8, <2>9 DEF OnePlace
    <3> QED BY <2>2, <2>6, <3>1
  <2>10. ASSUME NEW j \in DOMAIN u PROVE u[j] \in Range(s) /\ u[j].key # k
    <3>1. PICK z \in DOMAIN s : z # i /\ u[j] = s[z]
      <4>1. j \in 1..(n - 1) /\ u[j] = IF j < i THEN s[j] ELSE s[j + 1]
        BY <2>6, <2>8, <2>12
      <4>2. CASE j < i
        BY <2>12, <4>1, <4>2
      <4>3. CASE ~(j < i)
        BY <2>12, <4>1, <4>3
      <4> QED BY <4>2, <4>3
    <3>2. s[z].key # k
      BY <2>2, <3>1 DEF OnePlace
    <3> QED BY <3>1, <3>2 DEF Range
  <2>11. OnePlace(u) /\ \A x \in Range(u) : x \in Range(s) /\ x.key # k
    BY <2>9, <2>10 DEF OnePlace, Range
  <2> QED BY <2>5, <2>11 DEF u
<1> QED BY <1>1, <1>2

\* A node put in front is the only one with its key.
LEMMA FrontNodes ==
    ASSUME NEW s \in Seq(Node), OnePlace(s), NEW k \in Nat, NEW e \in Entry
    PROVE  /\ OnePlace(CacheFront(s, k, e))
           /\ \A x \in Range(CacheFront(s, k, e)) :
                  x = [key |-> k, entry |-> e] \/ (x \in Range(s) /\ x.key # k)
<1> DEFINE t == CacheWithout(s, k)
           h == [key |-> k, entry |-> e]
           u == <<h>> \o t
<1>1. t \in Seq(Node) /\ OnePlace(t) /\ \A x \in Range(t) : x \in Range(s) /\ x.key # k
  BY CacheWithoutLength, WithoutNodes
<1>2. h \in Node /\ h.key = k
  BY DEF Node
<1>3. CacheFront(s, k, e) = u
  BY DEF CacheFront
<1> HIDE DEF t, h
<1>4. /\ DOMAIN u = 1..(Len(t) + 1) /\ Len(t) \in Nat /\ u[1] = h
      /\ \A j \in 2..(Len(t) + 1) : u[j] = t[j - 1]
  BY <1>1, <1>2
<1>5. DOMAIN t = 1..Len(t)
  BY <1>1
<1> HIDE DEF u
<1>6. \A j \in DOMAIN u : \/ (j = 1 /\ u[j] = h)
                          \/ (j - 1 \in DOMAIN t /\ u[j] = t[j - 1])
  <2> SUFFICES ASSUME NEW j \in DOMAIN u, j # 1
               PROVE  j - 1 \in DOMAIN t /\ u[j] = t[j - 1]
    BY <1>4
  <2>1. j \in 2..(Len(t) + 1)
    BY <1>4
  <2> QED BY <1>4, <1>5, <2>1
<1>7. \A j \in DOMAIN t : t[j].key # k /\ t[j] \in Range(s)
  BY <1>1 DEF Range
<1>8. ASSUME NEW a \in DOMAIN u, NEW b \in DOMAIN u, u[a].key = u[b].key PROVE a = b
  <2>1. a \in Nat /\ b \in Nat
    BY <1>4
  <2>2. \A j \in DOMAIN u : u[j].key = k <=> j = 1
    BY <1>2, <1>4, <1>6, <1>7
  <2>3. a = 1 <=> b = 1
    BY <1>8, <2>2
  <2>4. CASE a # 1 /\ b # 1
    <3>1. a - 1 = b - 1
      BY <1>1, <1>6, <1>8, <2>4 DEF OnePlace
    <3> QED BY <2>1, <3>1
  <2> QED BY <2>3, <2>4
<1>9. \A x \in Range(u) : x = h \/ (x \in Range(s) /\ x.key # k)
  BY <1>6, <1>7 DEF Range
<1>10. OnePlace(u)
  BY <1>8 DEF OnePlace
<1> QED BY <1>3, <1>9, <1>10 DEF h

\* get, invalidate and put keep one node for a key, and put adds no other.
LEMMA CacheNodes ==
    ASSUME NEW s \in Seq(Node), OnePlace(s), NEW k \in Nat
    PROVE  /\ OnePlace(CacheTouch(s, k)) /\ Range(CacheTouch(s, k)) \subseteq Range(s)
           /\ OnePlace(CacheInvalidate(s, k))
           /\ \A x \in Range(CacheInvalidate(s, k)) : x \in Range(s) /\ x.key # k
           /\ \A e \in Entry : CacheSize > 0 =>
                  /\ OnePlace(CachePut(s, k, e, CacheSize))
                  /\ \A x \in Range(CachePut(s, k, e, CacheSize)) :
                         x = [key |-> k, entry |-> e] \/ (x \in Range(s) /\ x.key # k)
<1>1. CachedIn(s, k) \in SUBSET Entry
  <2>1. ASSUME NEW i \in DOMAIN s PROVE s[i].entry \in Entry
    <3>1. s[i] \in Node
      OBVIOUS
    <3> QED BY <3>1 DEF Node
  <2> QED BY <2>1 DEF CachedIn
<1>2. OnePlace(CacheTouch(s, k)) /\ Range(CacheTouch(s, k)) \subseteq Range(s)
  <2>1. CASE CachedIn(s, k) = {}
    BY <2>1 DEF CacheTouch
  <2>2. CASE CachedIn(s, k) # {}
    <3> DEFINE e == CHOOSE x \in CachedIn(s, k) : TRUE
    <3>1. e \in CachedIn(s, k)
      BY <2>2
    <3>2. CacheTouch(s, k) = CacheFront(s, k, e)
      BY <2>2 DEF CacheTouch
    <3> HIDE DEF e
    <3>3. PICK i \in DOMAIN s : s[i].key = k /\ s[i].entry = e
      BY <3>1 DEF CachedIn
    <3>4. s[i] \in Node
      OBVIOUS
    <3>5. s[i] = [key |-> k, entry |-> e]
      BY <3>3, <3>4 DEF Node
    <3>6. [key |-> k, entry |-> e] \in Range(s)
      BY <3>5 DEF Range
    <3> QED BY <1>1, <3>1, <3>2, <3>6, FrontNodes
  <2> QED BY <2>1, <2>2
<1>3. OnePlace(CacheInvalidate(s, k))
      /\ \A x \in Range(CacheInvalidate(s, k)) : x \in Range(s) /\ x.key # k
  BY WithoutNodes DEF CacheInvalidate
<1>4. ASSUME NEW e \in Entry, CacheSize > 0
      PROVE  /\ OnePlace(CachePut(s, k, e, CacheSize))
             /\ \A x \in Range(CachePut(s, k, e, CacheSize)) :
                    x = [key |-> k, entry |-> e] \/ (x \in Range(s) /\ x.key # k)
  <2>1. CASE CachedIn(s, k) = {} /\ Len(s) >= CacheSize
    <3> DEFINE q == SubSeq(s, 1, Len(s) - 1)
    <3>1. CacheSize \in Nat /\ Len(s) \in Nat /\ Len(s) - 1 \in Nat
      BY <1>4, <2>1, EngineAssumption
    <3>2. /\ q \in Seq(Node) /\ DOMAIN q = 1..(Len(s) - 1)
          /\ \A i \in DOMAIN q : i \in DOMAIN s /\ q[i] = s[i]
      BY <3>1
    <3>3. CachePut(s, k, e, CacheSize) = CacheFront(q, k, e)
      BY <2>1 DEF CachePut
    <3> HIDE DEF q
    <3>4. OnePlace(q) /\ \A x \in Range(q) : x \in Range(s)
      BY <3>2 DEF OnePlace, Range
    <3> QED BY <3>2, <3>3, <3>4, FrontNodes
  <2>2. CASE ~(CachedIn(s, k) = {} /\ Len(s) >= CacheSize)
    <3>1. CachePut(s, k, e, CacheSize) = CacheFront(s, k, e)
      BY <2>2 DEF CachePut
    <3> QED BY <3>1, FrontNodes
  <2> QED BY <2>1, <2>2
<1> QED BY <1>2, <1>3, <1>4

\* What a reader has passed by stays so.
StillPassed(k, n) ==
    /\ Passed(k, n) => Passed(k, n)'
    /\ PassedAll(k, n) => PassedAll(k, n)'

\* What the steps of other threads leave a reader.
Onward ==
    /\ Tombstones'
    /\ TablesKept /\ counter <= counter'
    /\ \A k \in Keys : /\ lastDel[k] <= lastDel'[k] /\ acked[k] <= acked'[k]
                       /\ \A n \in Nat : n <= NextSeq => StillPassed(k, n)

\* get() between two steps, while other threads go on.
LEMMA ReaderOnward ==
    ASSUME Inv, Inv', Acks, Acks', Onward, NEW r \in Readers, Reading(r),
           rd'[r].pc = rd[r].pc, rd'[r].key = rd[r].key, rd'[r].cand = rd[r].cand,
           rd'[r].version = rd[r].version, rd'[r].floor = rd[r].floor, rd'[r].gap = rd[r].gap,
           rd[r].pc \in {"imm", "version", "search", "fill"} =>
               \A n \in Goals(r)' : n \in Goals(r) /\ n \in Nat /\ n <= NextSeq
    PROVE  Reading(r)'
<1>1. CASE rd[r].pc = "idle"
  BY <1>1 DEF Reading, Begun, ReadImm, ReadVersion, ReadSearch, ReadFill, ReadDone
<1>2. CASE rd[r].pc # "idle"
  <2>13. PICK k \in Keys : k = rd[r].key
    BY <1>2 DEF Reading, Begun
  <2>1. PICK C, v, n0 : /\ k = rd[r].key /\ C = rd[r].cand
                        /\ v = rd[r].version /\ n0 = rd[r].floor
    BY <2>13
  <2>2. /\ rd'[r].key = k /\ rd'[r].cand = C /\ rd'[r].version = v /\ rd'[r].floor = n0
    BY <2>1
  <2>3. OneSeq(C) /\ n0 \in Nat /\ n0 <= acked[k]
    BY <1>2, <2>1 DEF Reading, Begun
  <2>4. /\ acked[k] \in Nat /\ acked'[k] \in Nat /\ acked[k] <= acked'[k]
        /\ \A j \in Keys : lastDel[j] \in Nat /\ lastDel'[j] \in Nat /\ lastDel[j] <= lastDel'[j]
    BY DEF Acks, Onward
  <2>5. Begun(r)'
    <3>1. n0 <= acked'[k]
      BY <2>3, <2>4
    <3> QED BY <2>2, <2>3, <3>1 DEF Begun
  <2>6. \A T : \A n \in Nat : Reaches(T, k, n) =>
            \A e \in T : e.seq >= n /\ (e.type = "DELETE" => lastDel'[k] >= n)
    <3> SUFFICES ASSUME NEW T, NEW n \in Nat, Reaches(T, k, n), NEW e \in T,
                        e.type = "DELETE"
                 PROVE  lastDel'[k] >= n
      BY DEF Reaches
    <3>1. lastDel[k] >= n
      BY DEF Reaches
    <3> QED BY <2>4, <3>1
  <2>7. \A n \in Goals(r)' : rd[r].pc \in {"imm", "version", "search", "fill"} =>
            n \in Goals(r) /\ n \in Nat /\ n <= NextSeq
    OBVIOUS
  <2>8. ReadImm(r)'
    <3> SUFFICES ASSUME rd[r].pc = "imm", NEW n \in Goals(r)'
                 PROVE  /\ \A e \in C : e.seq >= n /\ (e.type = "DELETE" => lastDel'[k] >= n)
                        /\ C = {} => Passed(k, n)'
      BY <2>2 DEF ReadImm, Reaches, Passed
    <3>1. n \in Goals(r) /\ n \in Nat /\ n <= NextSeq
      BY <2>7
    <3>2. Reaches(C, k, n) /\ (C = {} => Passed(k, n))
      BY <2>1, <3>1 DEF Reading, ReadImm
    <3>3. StillPassed(k, n)
      BY <3>1 DEF Onward
    <3> QED BY <2>6, <3>1, <3>2, <3>3 DEF StillPassed
  <2>9. ReadVersion(r)'
    <3> SUFFICES ASSUME rd[r].pc = "version", ~rd[r].gap, NEW n \in Goals(r)'
                 PROVE  /\ \A e \in C : e.seq >= n /\ (e.type = "DELETE" => lastDel'[k] >= n)
                        /\ C = {} => PassedAll(k, n)'
      BY <2>2 DEF ReadVersion, Reaches, PassedAll
    <3>1. n \in Goals(r) /\ n \in Nat /\ n <= NextSeq
      BY <2>7
    <3>2. Reaches(C, k, n) /\ (C = {} => PassedAll(k, n))
      BY <2>1, <3>1 DEF Reading, ReadVersion
    <3>3. StillPassed(k, n)
      BY <3>1 DEF Onward
    <3> QED BY <2>6, <3>1, <3>2, <3>3 DEF StillPassed
  <2>10. ReadSearch(r)'
    <3> SUFFICES ASSUME rd[r].pc = "search" PROVE ReadSearch(r)'
      BY DEF ReadSearch
    <3>1. /\ Orderly(v) /\ VersionUpto(v, counter) /\ Deleted(v)
          /\ ~rd[r].gap => \A n \in Goals(r) :
                /\ Reaches(C, k, n)
                /\ C = {} => InVersion(v, k, n)
      BY <2>1 DEF Reading, ReadSearch
    <3>2. v \in Versions(Metas) /\ v.sstables \subseteq DOMAIN tables
      BY <2>1 DEF Inv, Types, ReaderTypes, ReaderOk, Known
    <3>3. \A id \in v.sstables : tables'[id] = tables[id]
      BY <3>1, <3>2 DEF Onward, TablesKept, VersionUpto
    <3>4. /\ Readable(v, tables') /\ OneEach(v, tables')
          /\ \A j : Stored(v, tables', j) = Stored(v, tables, j)
      BY <3>1, <3>3, OrderlyKept
    <3>5. VersionUpto(v, counter')
      <4>1. counter \in Nat /\ counter' \in Nat /\ counter <= counter'
        BY DEF Onward, Inv, Types, TreeTypes
      <4>2. \A l \in Levels : \A m \in Range(v.levels[l]) : m.id \in Nat
        BY <3>2, <3>1 DEF Orderly, Readable, Inv, Types, TreeTypes
      <4>3. \A id \in v.sstables : id \in Nat
        BY <3>2 DEF Inv, Types, TreeTypes
      <4> QED BY <3>1, <4>1, <4>2, <4>3 DEF VersionUpto, LevelsUpto
    <3>6. ASSUME NEW j \in Keys, NEW e \in Stored(v, tables', j), e.type = "DELETE"
          PROVE  lastDel'[j] >= e.seq
      <4>3. e \in Stored(v, tables, j)
        BY <3>4, <3>6
      <4>4. PICK l \in Levels : e \in Found(v, tables, l, j)
        BY <4>3, FoundFiles
      <4>5. PICK m \in Range(v.levels[l]) : j \in DOMAIN tables[m.id] /\ e = tables[m.id][j]
        BY <4>4 DEF Found
      <4>1. e \in Stored(v, tables, j) /\ e.seq \in Nat
        BY <3>1, <4>3, <4>5 DEF Orderly, Readable
      <4>2. lastDel[j] >= e.seq
        BY <3>1, <3>6, <4>1 DEF Deleted
      <4> QED BY <2>4, <4>1, <4>2
    <3>7. ASSUME ~rd[r].gap, NEW n \in Goals(r)'
          PROVE  /\ \A e \in C : e.seq >= n /\ (e.type = "DELETE" => lastDel'[k] >= n)
                 /\ C = {} => InVersion(v, k, n)'
      <4>1. n \in Goals(r) /\ n \in Nat
        BY <2>7, <3>7
      <4>2. Reaches(C, k, n) /\ (C = {} => InVersion(v, k, n))
        BY <3>1, <3>7, <4>1
      <4>3. InVersion(v, k, n) => InVersion(v, k, n)'
        BY <2>6, <3>4, <4>1 DEF InVersion, Reaches
      <4> QED BY <2>6, <4>1, <4>2, <4>3
    <3> QED BY <2>2, <3>4, <3>5, <3>6, <3>7 DEF ReadSearch, Orderly, Deleted, Reaches, InVersion
  <2>11. ReadFill(r)'
    <3> SUFFICES ASSUME rd[r].pc = "fill" PROVE ReadFill(r)'
      BY DEF ReadFill
    <3>1. /\ \A e \in C : e.type = "PUT"
          /\ ~rd[r].gap => \A n \in Goals(r) : Reaches(C, k, n)
      BY <2>1 DEF Reading, ReadFill
    <3>2. ASSUME ~rd[r].gap, NEW n \in Goals(r)'
          PROVE  \A e \in C : e.seq >= n /\ (e.type = "DELETE" => lastDel'[k] >= n)
      BY <2>6, <2>7, <3>1, <3>2
    <3> QED BY <2>2, <3>1, <3>2 DEF ReadFill, Reaches
  <2>12. ReadDone(r)'
    <3> SUFFICES ASSUME rd[r].pc = "done", ~rd[r].gap PROVE ReadDone(r)'
      BY DEF ReadDone
    <3>1. Answers(C, k, n0)
      BY <2>1 DEF Reading, ReadDone
    <3>2. lastDel[k] >= n0 => lastDel'[k] >= n0
      BY <2>3, <2>4
    <3>3. IF Visible(C) = {} THEN n0 = 0 \/ lastDel'[k] >= n0 ELSE SeqOf(C) >= n0
      BY <3>1, <3>2 DEF Answers
    <3> QED BY <2>2, <3>3 DEF ReadDone, Answers
  <2> QED BY <2>5, <2>8, <2>9, <2>10, <2>11, <2>12 DEF Reading
<1> QED BY <1>1, <1>2

\* The numbers that a reader looks for have been given.
LEMMA GoalNumbers ==
    ASSUME Inv, VInv, proc = "up", ~disorder, ~lostWrite, NEW r \in Readers, Begun(r),
           rd[r].pc # "idle"
    PROVE  /\ rd[r].key \in Keys /\ rd[r].floor \in Nat /\ rd[r].floor <= acked[rd[r].key]
           /\ acked[rd[r].key] \in Due(rd[r].key) /\ rd[r].floor <= NextSeq /\ NextSeq \in Nat
           /\ \A n \in Goals(r) : n \in Nat /\ n <= NextSeq /\ n >= rd[r].floor
           /\ \A n \in Due(rd[r].key) : n \in Nat /\ n <= NextSeq
<1>1. PICK k \in Keys, n0 \in Nat : k = rd[r].key /\ n0 = rd[r].floor /\ n0 <= acked[k]
  BY DEF Begun
<1>2. Acks /\ Values
  BY DEF VInv, InOrder
<1>3. NextSeq \in Nat /\ Due(k) \subseteq Nat
  BY <1>2, DueNumbers
<1>4. acked[k] \in Due(k)
  BY DEF Due
<1>5. \A n \in Due(k) : n \in Nat /\ n <= NextSeq
  BY <1>2, <1>3 DEF Values
<1>6. n0 <= NextSeq
  BY <1>1, <1>3, <1>4, <1>5
<1>7. \A n \in Goals(r) : n = n0 \/ (n \in Due(k) /\ n >= n0)
  BY <1>1 DEF Goals
<1>8. \A n \in Goals(r) : n \in Nat /\ n <= NextSeq /\ n >= n0
  BY <1>5, <1>6, <1>7
<1> QED BY <1>1, <1>3, <1>4, <1>5, <1>6, <1>8

\* A smaller number and a later delete are covered, too.
LEMMA CoversLess ==
    ASSUME NEW mem \in SUBSET Entry, NEW imm \in SUBSET Entry, NEW filed \in SUBSET Entry,
           NEW top, NEW d \in Nat, NEW n \in Nat, Covers(mem, imm, top, filed, d, n),
           NEW imm2 \in SUBSET imm, NEW e \in Nat, d <= e, NEW m \in Nat, m <= n
    PROVE  Covers(mem, imm2, top, filed, e, m)
<1>1. \A x \in mem \cup imm \cup filed : x.seq \in Nat
  BY DEF Entry
<1>2. CASE n = 0
  <2>1. m = 0
    BY <1>2
  <2> QED BY <2>1 DEF Covers
<1>3. CASE /\ mem = {} /\ top = {} /\ \A x \in imm : x.type = "DELETE" /\ x.seq >= n
           /\ d >= n
  <2>1. \A x \in imm2 : x.type = "DELETE" /\ x.seq >= m
    BY <1>1, <1>3
  <2>2. e >= m
    BY <1>3
  <2> QED BY <1>3, <2>1, <2>2 DEF Covers
<1>4. ASSUME NEW x \in mem \cup filed, \A g \in mem \cup filed : NotOlder(x, g),
             x.seq >= n, x.type = "DELETE" => d >= n
      PROVE  Covers(mem, imm2, top, filed, e, m)
  <2>1. x.seq >= m
    BY <1>1, <1>4
  <2>2. x.type = "DELETE" => e >= m
    BY <1>4
  <2> QED BY <1>4, <2>1, <2>2 DEF Covers
<1> QED BY <1>2, <1>3, <1>4 DEF Covers

\* What there is of a key, for the lemmas about it.
LEMMA KeyEntries ==
    ASSUME Inv, HandOvers, Orderly(version), NEW k \in Keys
    PROVE  /\ Mem(k) \subseteq Entry /\ Below(k) \subseteq Entry /\ Filed(k) \subseteq Entry
           /\ ImmutableEntry(k) \subseteq Below(k) /\ HandedOver(k) \subseteq Below(k)
           /\ Waiting(k) \subseteq Below(k) /\ Waiting(k) \subseteq Entry
           /\ \A e, g \in Mem(k) : e = g
           /\ \A e, g \in Below(k) : e = g
<1>1. /\ \A e \in Mem(k) \cup Below(k) : e \in Entry
      /\ \A e, g \in Mem(k) : e = g
      /\ \A e, g \in Below(k) : e = g
      /\ ImmutableEntry(k) \subseteq Below(k)
  BY MemoryEntries
<1>2. HandedOver(k) \subseteq Below(k)
  BY MemoryMembers DEF Handed
<1>3. Waiting(k) \subseteq Below(k)
  BY <1>1, <1>2 DEF Waiting
<1>4. Filed(k) \subseteq Entry
  BY FiledEntries DEF Inv, Types, Orderly
<1> QED BY <1>1, <1>2, <1>3, <1>4

\* A step that leaves memory and version what they are to a reader.
LEMMA MemoryOnward ==
    ASSUME Inv, VInv, proc = "up", ~disorder, Tombstones, UNCHANGED <<version, lastDel>>,
           TablesKept, counter <= counter', NextSeq' \in Nat, NextSeq <= NextSeq',
           \A k \in Keys : MemoryKept(k) /\ acked[k] <= acked'[k]
    PROVE  Onward
<1>1. HandOvers /\ Acks /\ Orderly(version)
  BY DEF VInv, InOrder, TreeOrder
<1>2. \A k : Filed(k)' = Filed(k) /\ Top(k)' = Top(k)
  BY <1>1, VersionKept
<1>3. NextSeq \in Nat /\ \A k \in Keys : lastDel[k] \in Nat
  BY <1>1, DueNumbers DEF Acks
<1>4. Tombstones'
  <2>1. \A k \in Keys : \A e \in Filed(k) : e.type = "DELETE" => lastDel[k] >= e.seq
    BY DEF Tombstones, Deleted, Filed
  <2>2. Deleted(version)'
    BY <1>2, <2>1 DEF Deleted, Filed
  <2>3. \A k \in Keys : lastDel'[k] < NextSeq'
    BY <1>3 DEF Tombstones
  <2> QED BY <2>2, <2>3 DEF Tombstones
<1>5. ASSUME NEW k \in Keys, NEW n \in Nat PROVE StillPassed(k, n)
  <2>1. /\ Mem(k)' = Mem(k) /\ Waiting(k)' = Waiting(k) /\ HandedOver(k)' = HandedOver(k)
        /\ ImmutableEntry(k)' \subseteq ImmutableEntry(k)
    BY DEF MemoryKept
  <2>2. lastDel'[k] = lastDel[k] /\ Filed(k)' = Filed(k) /\ Top(k)' = Top(k)
    BY <1>2
  <2>3. Covers(Waiting(k), ImmutableEntry(k), Top(k), Filed(k), lastDel[k], n) =>
            Covers(Waiting(k), ImmutableEntry(k)', Top(k), Filed(k), lastDel[k], n)
    BY <2>1 DEF Covers
  <2>4. Passed(k, n) => Passed(k, n)'
    BY <2>1, <2>2, <2>3 DEF Passed
  <2>5. InMemory(k)' \subseteq InMemory(k)
    BY <2>1 DEF InMemory
  <2>6. PassedAll(k, n) => PassedAll(k, n)'
    BY <2>2, <2>5 DEF PassedAll
  <2> QED BY <2>4, <2>6 DEF StillPassed
<1>6. \A k \in Keys : lastDel[k] <= lastDel'[k]
  BY <1>3
<1> QED BY <1>4, <1>5, <1>6 DEF Onward

\* A step that concerns no reader, and takes no node but out of the cache.
LEMMA QuietReads ==
    ASSUME Inv, Inv', VInv, VInv', proc = "up", proc' = "up",
           ~disorder, ~lostWrite, ReadInv, Onward, rd' = rd, OnePlace(cache'),
           \A k \in Keys : /\ Due(k)' \subseteq Due(k)
                           /\ \/ acked'[k] = acked[k]
                              \/ acked'[k] \in Due(k) /\ ~Writing(k),
           \A x \in Range(cache') : x.key \notin tainted' =>
               /\ x \in Range(cache) /\ x.key \notin tainted
               /\ Writing(x.key) => Writing(x.key)'
    PROVE  ReadInv'
<1>1. CacheOk /\ (\A r \in Readers : Reading(r)) /\ Acks /\ Acks' /\ Tombstones'
  BY DEF ReadInv, VInv, Onward
<1>2. ASSUME NEW r \in Readers PROVE Reading(r)'
  <2>1. rd'[r] = rd[r] /\ Reading(r)
    BY <1>1
  <2>2. rd[r].pc \in {"imm", "version", "search", "fill"} =>
            \A n \in Goals(r)' : n \in Goals(r) /\ n \in Nat /\ n <= NextSeq
    <3> SUFFICES ASSUME rd[r].pc # "idle", NEW n \in Goals(r)'
                 PROVE  n \in Goals(r) /\ n \in Nat /\ n <= NextSeq
      OBVIOUS
    <3>1. PICK k \in Keys : k = rd[r].key
      BY <2>1 DEF Reading, Begun
    <3>2. Due(k)' \subseteq Due(k)
      OBVIOUS
    <3>3. n \in Goals(r)
      BY <2>1, <3>1, <3>2 DEF Goals
    <3> QED BY <2>1, <3>3, GoalNumbers DEF Reading
  <2> QED BY <1>1, <2>1, <2>2, ReaderOnward
<1>3. ASSUME NEW x \in Range(cache'), x.key \notin tainted' PROVE UpToDate(x)'
  <2>1. UpToDate(x) /\ (Writing(x.key) => Writing(x.key)')
    BY <1>1, <1>3 DEF CacheOk
  <2>2. PICK k \in Keys : k = x.key
    BY <2>1 DEF UpToDate
  <2>3. x.entry.type = "PUT" /\ x.entry.seq >= acked[k]
        /\ (~Writing(k) => \A n \in Due(k) : x.entry.seq >= n)
    BY <2>1, <2>2 DEF UpToDate
  <2>4. x.entry.seq >= acked'[k]
    BY <2>3
  <2>5. ~Writing(k)' => \A n \in Due(k)' : x.entry.seq >= n
    BY <2>1, <2>2, <2>3
  <2> QED BY <2>2, <2>3, <2>4, <2>5 DEF UpToDate
<1> QED BY <1>1, <1>2, <1>3 DEF ReadInv, CacheOk

\* seq_number_ is a number, after any step.
LEMMA NumberGiven == Inv' => NextSeq' \in Nat
<1>1. Inv' => seq' \in Nat
  BY DEF Inv, Types, LogTypes
<1>2. NextSeq' = IF w'.pc = "log" THEN seq' + 1 ELSE seq'
  BY DEF NextSeq
<1> QED BY <1>1, <1>2

\* A step that leaves memory and version to a reader, and writes nothing.
LEMMA CalmReads ==
    ASSUME Inv, Inv', VInv, VInv', proc = "up", proc' = "up", ~disorder, ~lostWrite, ReadInv,
           UNCHANGED <<version, lastDel, rd>>, TablesKept, counter <= counter',
           NextSeq <= NextSeq', OnePlace(cache'),
           \A k \in Keys : /\ MemoryKept(k) /\ acked[k] <= acked'[k] /\ Due(k)' \subseteq Due(k)
                           /\ \/ acked'[k] = acked[k]
                              \/ acked'[k] \in Due(k) /\ ~Writing(k),
           \A x \in Range(cache') : x.key \notin tainted' =>
               /\ x \in Range(cache) /\ x.key \notin tainted
               /\ Writing(x.key) => Writing(x.key)'
    PROVE  ReadInv'
<1>1. NextSeq' \in Nat
  BY NumberGiven
<1>2. Tombstones
  BY DEF ReadInv
<1>3. Onward
  BY <1>1, <1>2, MemoryOnward
<1> QED BY <1>3, QuietReads

\* ... and in which the writer thread has no part.
LEMMA IdleReads ==
    ASSUME Inv, Inv', VInv, VInv', proc = "up", ReadInv,
           UNCHANGED <<version, lastDel, rd, w, seq, acked, proc, disorder, lostWrite>>,
           TablesKept, counter <= counter', \A k \in Keys : MemoryKept(k),
           (cache' = cache /\ tainted' = tainted) \/ cache' = CacheClear
    PROVE  ReadInv'
<1>1. OnePlace(cache')
  BY DEF ReadInv, OnePlace, CacheClear
<1>2. SUFFICES ASSUME ~disorder, ~lostWrite PROVE ReadInv'
  BY <1>1 DEF ReadInv
<1>3. HandOvers /\ Acks
  BY DEF VInv
<1>4. NextSeq' = NextSeq /\ \A k : Due(k)' = Due(k)
  BY <1>3, WriterCalm
<1>5. NextSeq \in Nat /\ acked \in [Keys -> Nat]
  BY <1>3, DueNumbers DEF Acks
<1>6. \A k : Writing(k)' = Writing(k)
  BY DEF Writing, Request
<1>7. \A x \in Range(cache') : x.key \notin tainted' =>
          /\ x \in Range(cache) /\ x.key \notin tainted
          /\ Writing(x.key) => Writing(x.key)'
  <2>1. CASE cache' = cache /\ tainted' = tainted
    BY <1>6, <2>1
  <2>2. CASE cache' = CacheClear
    BY <2>2 DEF CacheClear, Range
  <2> QED BY <2>1, <2>2
<1>8. NextSeq <= NextSeq' /\ \A k \in Keys : acked[k] <= acked'[k] /\ acked'[k] = acked[k]
  BY <1>4, <1>5
<1>9. \A k \in Keys : /\ MemoryKept(k) /\ acked[k] <= acked'[k] /\ Due(k)' \subseteq Due(k)
                      /\ \/ acked'[k] = acked[k]
                         \/ acked'[k] \in Due(k) /\ ~Writing(k)
  BY <1>4, <1>8
<1> QED BY <1>1, <1>2, <1>7, <1>8, <1>9, CalmReads

\* The same, for the threads that flush, compact and save.
LEMMA SteadyReads ==
    ASSUME Inv, Inv', VInv, VInv', proc = "up", ReadInv,
           UNCHANGED <<version, lastDel, rd, w, seq, acked, proc, disorder, lostWrite>>,
           TablesKept, counter' = counter \/ counter' = counter + 1,
           MemoryCalm \/ \A k \in Keys : MemoryKept(k),
           (cache' = cache /\ tainted' = tainted) \/ cache' = CacheClear
    PROVE  ReadInv'
<1>1. counter \in Nat
  BY DEF Inv, Types, TreeTypes
<1>2. counter <= counter'
  BY <1>1
<1>3. \A k \in Keys : MemoryKept(k)
  BY CalmEntries
<1> QED BY <1>2, <1>3, IdleReads

\* A step of the writer thread, or of a caller of checkFlush, that leaves memory alone.
LEMMA BatchReads ==
    ASSUME Inv, Inv', VInv, VInv', ReadInv, proc = "up", MemoryCalm, NextSeq' = NextSeq,
           UNCHANGED <<version, tables, counter, lastDel, rd, lostWrite, disorder, proc>>,
           OnePlace(cache'),
           \A k \in Keys : /\ Due(k)' \subseteq Due(k)
                           /\ \/ acked'[k] = acked[k]
                              \/ acked'[k] \in Due(k) /\ acked[k] <= acked'[k] /\ ~Writing(k),
           \A x \in Range(cache') : x.key \notin tainted' =>
               /\ x \in Range(cache) /\ x.key \notin tainted
               /\ Writing(x.key) => Writing(x.key)'
    PROVE  ReadInv'
<1>1. SUFFICES ASSUME ~disorder, ~lostWrite PROVE ReadInv'
  BY DEF ReadInv
<1>2. Acks /\ NextSeq \in Nat /\ counter \in Nat
  BY DueNumbers DEF VInv, Inv, Types, TreeTypes
<1>3. TablesKept /\ counter <= counter' /\ NextSeq <= NextSeq'
  BY <1>2 DEF TablesKept
<1>4. \A k \in Keys : /\ MemoryKept(k) /\ acked[k] <= acked'[k] /\ Due(k)' \subseteq Due(k)
                      /\ \/ acked'[k] = acked[k]
                         \/ acked'[k] \in Due(k) /\ ~Writing(k)
  <2>1. \A k \in Keys : acked[k] \in Nat
    BY <1>2 DEF Acks
  <2> QED BY <2>1, CalmEntries
<1> QED BY <1>1, <1>3, <1>4, CalmReads

\* writerThreadLoop, except that it writes to the memtable or answers.
LEMMA WriterReads ==
    ASSUME Inv, Inv', VInv, ReadInv, WriterPop \/ WriterLog \/ WriterInvalidate \/ WriterFlush
    PROVE  ReadInv'
<1>1. /\ UNCHANGED <<version, tables, counter, lastDel, rd, acked, lostWrite, disorder, proc>>
      /\ proc = "up"
  BY DEF WriterPop, WriterLog, WriterInvalidate, WriterFlush, memVars, fileVars, readVars,
         ackVars, raceVars, boundVars
<1>2. VInv' /\ MemoryCalm /\ NextSeq' = NextSeq /\ \A k \in Keys : Due(k)' \subseteq Due(k)
  BY WriterSteps
<1>3. HandOvers /\ Acks /\ w \in WriterRecord /\ cache \in Seq(Node) /\ OnePlace(cache)
  BY <1>1 DEF VInv, Inv, Types, WriterTypes, ReaderTypes, ReadInv
<1>4. CASE WriterInvalidate
  <2>1. PICK K \in Keys : K = Request.key /\ K \in Nat
    BY <1>4, RequestType, EngineAssumption DEF WriterInvalidate, Inv, Types
  <2>2. cache' = CacheInvalidate(cache, K) /\ tainted' = tainted \ {K}
    BY <1>4, <2>1 DEF WriterInvalidate
  <2>3. OnePlace(cache') /\ \A x \in Range(cache') : x \in Range(cache) /\ x.key # K
    BY <1>3, <2>1, <2>2, CacheNodes
  <2>4. \A x \in Range(cache') : x.key \notin tainted' =>
            /\ x \in Range(cache) /\ x.key \notin tainted
            /\ Writing(x.key) => Writing(x.key)'
    BY <2>1, <2>2, <2>3 DEF Writing
  <2> QED BY <1>1, <1>2, <1>3, <2>3, <2>4, BatchReads
<1>5. CASE WriterPop \/ WriterLog \/ WriterFlush
  <2>1. cache' = cache /\ tainted' = tainted
    BY <1>5 DEF WriterPop, WriterLog, WriterFlush, raceVars
  <2>2. \A k : Writing(k) => Writing(k)'
    <3>1. CASE WriterLog
      <4>1. w'.pc = "invalidate" /\ w'.pos = w.pos /\ w'.batch = w.batch
        BY <1>3, <3>1 DEF WriterLog, WriterRecord
      <4> QED BY <4>1 DEF Writing, Request
    <3>2. CASE WriterPop \/ WriterFlush
      BY <3>2 DEF Writing, WriterPop, WriterFlush
    <3> QED BY <1>5, <3>1, <3>2
  <2>3. \A x \in Range(cache') : x.key \notin tainted' =>
            /\ x \in Range(cache) /\ x.key \notin tainted
            /\ Writing(x.key) => Writing(x.key)'
    BY <2>1, <2>2
  <2> QED BY <1>1, <1>2, <1>3, <2>1, <2>3, BatchReads
<1> QED BY <1>4, <1>5

\* The promises of the batch are set.
LEMMA WriterAckReads ==
    ASSUME Inv, Inv', VInv, ReadInv, WriterAck
    PROVE  ReadInv'
<1>1. /\ UNCHANGED <<version, tables, counter, lastDel, rd, lostWrite, disorder, proc,
                     cache, tainted>>
      /\ proc = "up" /\ w.pc = "ack"
  BY DEF WriterAck, memVars, fileVars, readVars, raceVars, boundVars
<1>2. /\ VInv' /\ MemoryCalm /\ NextSeq' = NextSeq
      /\ \A k \in Keys : /\ Due(k)' \subseteq Due(k)
                         /\ acked'[k] \in Due(k) /\ acked[k] <= acked'[k]
  BY WriterAckValues
<1>3. \A k : ~Writing(k)
  BY <1>1 DEF Writing
<1>4. OnePlace(cache')
  BY <1>1 DEF ReadInv
<1> QED BY <1>1, <1>2, <1>3, <1>4, BatchReads

\* A client calls flush(), waits for the log, waits for the last memtable.
LEMMA CallerReads ==
    ASSUME Inv, Inv', VInv, ReadInv, NEW t \in Callers,
           \/ FlushCall(t) \/ CheckFlushWal(t) \/ CheckFlushTest(t) \/ CheckFlushSleep(t)
           \/ CheckFlushRemove(t)
    PROVE  ReadInv'
<1>1. /\ UNCHANGED <<version, tables, counter, lastDel, rd, lostWrite, disorder, proc,
                     cache, tainted, acked>>
      /\ proc = "up"
      /\ w' = w \/ (t = "writer" /\ cf[t].pc = "remove")
  BY DEF FlushCall, CheckFlushWal, CheckFlushTest, CheckFlushSleep, CheckFlushRemove, memVars,
         fileVars, readVars, ackVars, raceVars, boundVars
<1>2. VInv' /\ MemoryCalm /\ NextSeq' = NextSeq /\ \A k : Due(k)' = Due(k)
  BY CallerSteps
<1>3. \A k : Writing(k) => Writing(k)'
  <2> SUFFICES ASSUME NEW k, Writing(k) PROVE Writing(k)'
    OBVIOUS
  <2>1. w.pc # "checkFlush" /\ HandOvers
    BY <1>1 DEF Writing, VInv
  <2>2. w' = w
    BY <1>1, <2>1 DEF HandOvers
  <2> QED BY <2>2 DEF Writing, Request
<1>4. OnePlace(cache')
  BY <1>1 DEF ReadInv
<1> QED BY <1>1, <1>2, <1>3, <1>4, BatchReads

\* A step in which neither the writer thread nor a reader has a part, and
\* that installs no version and hands nothing over.
LEMMA IdleStepReads ==
    ASSUME Inv, Inv', VInv, ReadInv,
           \/ WalSwap \/ WalPublish \/ SaveMetadata
           \/ \E t \in Callers : CheckFlushNotify(t) \/ CheckFlushSnapshot(t)
           \/ FlushTake \/ FlushSleep \/ FlushBuild \/ FlushCopy \/ FlushSave
           \/ FlushCache \/ FlushReset \/ FlushNotify
           \/ CompactTest \/ CompactSleep \/ CompactSkip \/ CompactMerge \/ CompactBuild
           \/ CompactCopy \/ CompactSave \/ CompactRemove \/ CompactCache
    PROVE  ReadInv'
<1> USE DEF memVars, fileVars, logVars, readVars, ackVars, raceVars, boundVars
<1>1. CASE WalSwap \/ WalPublish
  <2>1. UNCHANGED <<memtable, immutable, cf, f, version, tables, counter, lastDel, rd, w, seq,
                    acked, proc, disorder, lostWrite, cache, tainted>> /\ proc = "up"
    BY <1>1 DEF WalSwap, WalPublish
  <2>2. VInv' /\ MemoryCalm
    BY <1>1, <2>1, OtherSteps DEF MemoryCalm
  <2> QED BY <2>1, <2>2, SteadyReads DEF TablesKept
<1>2. CASE SaveMetadata
  <2>1. UNCHANGED <<version, tables, counter, lastDel, rd, w, seq, acked, proc, disorder,
                    lostWrite, cache, tainted>> /\ proc = "up"
    BY <1>2 DEF SaveMetadata, SaveMeta, SaveTruncate, SaveLevels
  <2>2. VInv' /\ MemoryCalm
    BY <1>2, SaveValues DEF SaveMetadata
  <2> QED BY <2>1, <2>2, SteadyReads DEF TablesKept
<1>3. ASSUME NEW t \in Callers, CheckFlushNotify(t) PROVE ReadInv'
  <2>1. UNCHANGED <<version, tables, counter, lastDel, rd, w, seq, acked, proc, disorder,
                    lostWrite, cache, tainted>> /\ proc = "up"
    BY <1>3 DEF CheckFlushNotify
  <2>2. VInv' /\ MemoryCalm
    BY <1>3, NotifyStep
  <2> QED BY <2>1, <2>2, SteadyReads DEF TablesKept
<1>4. ASSUME NEW t \in Callers, CheckFlushSnapshot(t) PROVE ReadInv'
  <2>1. UNCHANGED <<version, tables, counter, lastDel, rd, w, seq, acked, proc, disorder,
                    lostWrite, cache, tainted>> /\ proc = "up"
    BY <1>4 DEF CheckFlushSnapshot
  <2>2. VInv' /\ \A k : MemoryKept(k)
    BY <1>4, HandOverSteps
  <2> QED BY <2>1, <2>2, SteadyReads DEF TablesKept
<1>5. CASE FlushTake \/ FlushSleep \/ FlushCache \/ FlushReset \/ FlushNotify
  <2>1. /\ UNCHANGED <<version, tables, counter, lastDel, rd, w, seq, acked, proc, disorder,
                       lostWrite>> /\ proc = "up"
        /\ (cache' = cache /\ tainted' = tainted) \/ cache' = CacheClear
    BY <1>5 DEF FlushTake, FlushSleep, FlushCache, FlushReset, FlushNotify
  <2>2. VInv' /\ \A k \in Keys : MemoryKept(k)
    BY <1>5, FlushIdleValues
  <2> QED BY <2>1, <2>2, SteadyReads DEF TablesKept
<1>6. CASE FlushBuild \/ CompactBuild
  <2>1. /\ UNCHANGED <<version, lastDel, rd, w, seq, acked, proc, disorder, lostWrite, cache,
                       tainted>> /\ proc = "up"
        /\ counter' = counter + 1
    BY <1>6 DEF FlushBuild, CompactBuild
  <2>2. VInv' /\ MemoryCalm /\ TablesKept
    BY <1>6, BuildValues
  <2> QED BY <2>1, <2>2, SteadyReads
<1>7. CASE FlushCopy \/ CompactCopy
  <2>1. UNCHANGED <<version, tables, counter, lastDel, rd, w, seq, acked, proc, disorder,
                    lostWrite, cache, tainted>> /\ proc = "up"
    BY <1>7 DEF FlushCopy, CompactCopy
  <2>2. VInv' /\ MemoryCalm
    BY <1>7, CopyValues
  <2> QED BY <2>1, <2>2, SteadyReads DEF TablesKept
<1>8. CASE FlushSave \/ CompactSave
  <2>1. UNCHANGED <<version, tables, counter, lastDel, rd, w, seq, acked, proc, disorder,
                    lostWrite, cache, tainted>> /\ proc = "up"
    BY <1>8 DEF FlushSave, CompactSave
  <2>2. VInv' /\ MemoryCalm
    BY <1>8, SaveCallValues
  <2> QED BY <2>1, <2>2, SteadyReads DEF TablesKept
<1>9. CASE CompactTest \/ CompactSleep \/ CompactSkip \/ CompactRemove \/ CompactCache
  <2>1. /\ UNCHANGED <<version, tables, counter, lastDel, rd, w, seq, acked, proc, disorder,
                       lostWrite>> /\ proc = "up"
        /\ (cache' = cache /\ tainted' = tainted) \/ cache' = CacheClear
    BY <1>9 DEF CompactTest, CompactSleep, CompactSkip, CompactRemove, CompactCache
  <2>2. VInv' /\ MemoryCalm
    BY <1>9, CompactIdleValues
  <2> QED BY <2>1, <2>2, SteadyReads DEF TablesKept
<1>10. CASE CompactMerge
  <2>1. UNCHANGED <<version, tables, counter, lastDel, rd, w, seq, acked, proc, disorder,
                    lostWrite, cache, tainted>> /\ proc = "up"
    BY <1>10 DEF CompactMerge
  <2>2. VInv' /\ MemoryCalm
    BY <1>10, MergeValues
  <2> QED BY <2>1, <2>2, SteadyReads DEF TablesKept
<1> QED BY <1>1, <1>2, <1>3, <1>4, <1>5, <1>6, <1>7, <1>8, <1>9, <1>10

\* A step of a thread that no get() can tell.
LEMMA OnwardReads ==
    ASSUME Inv, Inv', VInv, VInv', proc = "up", proc' = "up", ~disorder, ~lostWrite, ReadInv,
           Onward, UNCHANGED <<rd, cache, tainted, w, seq, acked>>
    PROVE  ReadInv'
<1>1. OnePlace(cache') /\ \A k : Writing(k)' = Writing(k)
  BY DEF ReadInv, Writing, Request
<1>2. \A k : Due(k)' = Due(k)
  BY DEF Due, Logged, Applied
<1> QED BY <1>1, <1>2, QuietReads

\* The facts about one key that the proofs of these steps need.
LEMMA KeyFacts ==
    ASSUME Inv, VInv, proc = "up", ~disorder, NEW k \in Keys
    PROVE  /\ Mem(k) \in SUBSET Entry /\ Below(k) \in SUBSET Entry /\ Filed(k) \in SUBSET Entry
           /\ ImmutableEntry(k) \subseteq Below(k) /\ HandedOver(k) \subseteq Below(k)
           /\ Waiting(k) \subseteq Below(k)
           /\ \A e, g \in Mem(k) : e = g
           /\ \A e, g \in Below(k) : e = g
           /\ \A e \in Mem(k), g \in Below(k) : NotOlder(e, g)
           /\ \A e \in Mem(k) \cup Below(k), g \in Filed(k) : NotOlder(e, g)
           /\ \A e \in Mem(k) \cup Below(k) : e.type = "DELETE" => lastDel[k] >= e.seq
           /\ lastDel[k] \in Nat
           /\ \A e \in Mem(k) \cup Below(k) \cup Filed(k) : e.seq \in Nat
<1>1. HandOvers /\ Acks /\ Recency /\ Values /\ Orderly(version)
  BY DEF VInv, InOrder, TreeOrder
<1>2. /\ Mem(k) \subseteq Entry /\ Below(k) \subseteq Entry /\ Filed(k) \subseteq Entry
      /\ ImmutableEntry(k) \subseteq Below(k) /\ HandedOver(k) \subseteq Below(k)
      /\ Waiting(k) \subseteq Below(k)
      /\ \A e, g \in Mem(k) : e = g
      /\ \A e, g \in Below(k) : e = g
  BY <1>1, KeyEntries
<1>3. /\ \A e \in Mem(k), g \in Below(k) : NotOlder(e, g)
      /\ \A e \in Mem(k) \cup Below(k), g \in Filed(k) : NotOlder(e, g)
  BY <1>1 DEF Recency, Recent
<1>4. \A e \in Mem(k) \cup Below(k) : e.type = "DELETE" => lastDel[k] >= e.seq
  BY <1>1 DEF Values
<1>5. lastDel[k] \in Nat
  BY <1>1 DEF Acks
<1>6. \A e \in Mem(k) \cup Below(k) \cup Filed(k) : e.seq \in Nat
  BY <1>2 DEF Entry
<1> QED BY <1>2, <1>3, <1>4, <1>5, <1>6

\* A newest entry that is newer than a write covers it.
LEMMA NewestCovers ==
    ASSUME NEW e \in Entry, NEW filed, \A g \in filed : NotOlder(e, g), NEW n \in Nat, e.seq >= n,
           NEW d \in Nat, e.type = "DELETE" => d >= e.seq, NEW imm, NEW top, NEW mem,
           e \in mem \cup filed, \A g \in mem : g = e
    PROVE  Covers(mem, imm, top, filed, d, n)
<1>1. e.seq \in Nat
  BY DEF Entry
<1>2. e.type = "DELETE" => d >= n
  BY <1>1
<1>3. \A g \in mem \cup filed : NotOlder(e, g)
  BY DEF NotOlder
<1> QED BY <1>2, <1>3 DEF Covers

\* What readers have passed by, in a step that neither writes nor changes files.
LEMMA SameFilesOnward ==
    ASSUME Inv, VInv, proc = "up", Tombstones,
           UNCHANGED <<version, tables, counter, lastDel, w, seq, acked>>,
           \A k \in Keys : \A n \in Nat : StillPassed(k, n)
    PROVE  Onward
<1>1. Acks /\ counter \in Nat
  BY DEF VInv, Inv, Types, TreeTypes
<1>2. Tombstones'
  BY DEF Tombstones, Deleted, NextSeq
<1>3. TablesKept /\ counter <= counter'
  BY <1>1 DEF TablesKept
<1>4. \A k \in Keys : lastDel[k] <= lastDel'[k] /\ acked[k] <= acked'[k]
  BY <1>1 DEF Acks
<1> QED BY <1>2, <1>3, <1>4 DEF Onward

\* The memtable is cleared of what has been copied.
LEMMA ClearReads ==
    ASSUME Inv, Inv', VInv, ReadInv, NEW t \in Callers, CheckFlushClear(t)
    PROVE  ReadInv'
<1>1. /\ UNCHANGED <<version, tables, counter, lastDel, rd, cache, tainted, w, seq, acked, proc,
                     disorder>>
      /\ proc = "up" /\ (lostWrite => lostWrite')
  BY DEF CheckFlushClear, fileVars, readVars, ackVars, boundVars
<1>2. /\ VInv'
      /\ \A k : /\ Mem(k)' = {} /\ HandedOver(k) = {} /\ Waiting(k) = {}
                /\ ~lostWrite' => HandedOver(k)' = Mem(k) /\ Waiting(k)' = Mem(k)
                /\ ImmutableEntry(k) = {} /\ ImmutableEntry(k)' = {}
  BY HandOverSteps
<1>3. SUFFICES ASSUME ~disorder, ~lostWrite, ~lostWrite' PROVE ReadInv'
  <2>1. OnePlace(cache')
    BY <1>1 DEF ReadInv
  <2> QED BY <1>1, <2>1 DEF ReadInv
<1>4. Tombstones /\ Orderly(version) /\ HandOvers
  BY <1>1, <1>3 DEF ReadInv, VInv, InOrder, TreeOrder
<1>5. \A k : Filed(k)' = Filed(k) /\ Top(k)' = Top(k)
  BY <1>1 DEF Filed, Top
<1>6. ASSUME NEW k \in Keys, NEW n \in Nat PROVE StillPassed(k, n)
  <2>1. PICK m, F, T, d : m = Mem(k) /\ F = Filed(k) /\ T = Top(k) /\ d = lastDel[k]
    OBVIOUS
  <2>2. /\ m \in SUBSET Entry /\ (\A e, g \in m : e = g) /\ d \in Nat
        /\ \A e \in m : e.type = "DELETE" => d >= e.seq
        /\ \A e \in m, g \in F : NotOlder(e, g)
    BY <1>1, <1>3, <2>1, KeyFacts
  <2>3. ASSUME Covers({}, {}, T, F, d, n), \A e \in m : e.seq >= n
        PROVE  Covers(m, {}, T, F, d, n)
    <3>1. CASE m = {}
      BY <2>3, <3>1
    <3>2. ASSUME NEW e \in m PROVE Covers(m, {}, T, F, d, n)
      <4>1. e \in Entry /\ e.seq >= n /\ \A g \in F : NotOlder(e, g)
        BY <2>2, <2>3
      <4>2. (e.type = "DELETE" => d >= e.seq) /\ e \in m \cup F /\ \A g \in m : g = e
        BY <2>2
      <4> QED BY <2>2, <4>1, <4>2, NewestCovers
    <3> QED BY <3>1, <3>2
  <2>4. Passed(k, n) => Passed(k, n)'
    <3>1. Passed(k, n) => Covers({}, {}, T, F, d, n) /\ \A e \in m : e.seq >= n
      BY <1>2, <2>1 DEF Passed
    <3>2. Covers(m, {}, T, F, d, n) => Passed(k, n)'
      BY <1>1, <1>2, <1>3, <1>5, <2>1 DEF Passed
    <3> QED BY <2>3, <3>1, <3>2
  <2>5. PassedAll(k, n) => PassedAll(k, n)'
    BY <1>1, <1>2, <1>3, <1>5 DEF PassedAll, InMemory
  <2> QED BY <2>4, <2>5 DEF StillPassed
<1>7. Onward
  BY <1>1, <1>4, <1>6, SameFilesOnward
<1> QED BY <1>1, <1>2, <1>3, <1>7, OnwardReads

\* The copy is handed over to the flush thread.
LEMMA StoreReads ==
    ASSUME Inv, Inv', VInv, ReadInv, NEW t \in Callers, CheckFlushStore(t)
    PROVE  ReadInv'
<1>1. /\ UNCHANGED <<version, tables, counter, lastDel, rd, cache, tainted, w, seq, acked, proc,
                     disorder, lostWrite>>
      /\ proc = "up"
  BY DEF CheckFlushStore, fileVars, readVars, ackVars, boundVars, raceVars
<1>2. /\ VInv'
      /\ \A k : /\ Mem(k)' = Mem(k) /\ HandedOver(k)' = {} /\ ImmutableEntry(k) = {}
                /\ ImmutableEntry(k)' = HandedOver(k) /\ Waiting(k)' = Waiting(k)
                /\ Waiting(k) = HandedOver(k)
  BY HandOverSteps
<1>3. SUFFICES ASSUME ~disorder, ~lostWrite PROVE ReadInv'
  <2>1. OnePlace(cache')
    BY <1>1 DEF ReadInv
  <2> QED BY <1>1, <2>1 DEF ReadInv
<1>4. Tombstones
  BY <1>1, <1>3 DEF ReadInv
<1>5. \A k : Filed(k)' = Filed(k) /\ Top(k)' = Top(k)
  BY <1>1 DEF Filed, Top
<1>6. ASSUME NEW k \in Keys, NEW n \in Nat PROVE StillPassed(k, n)
  <2>1. Covers(Waiting(k), {}, Top(k), Filed(k), lastDel[k], n) =>
            Covers(Waiting(k), HandedOver(k), Top(k), Filed(k), lastDel[k], n)
    BY <1>2 DEF Covers
  <2>2. Passed(k, n) => Passed(k, n)'
    BY <1>1, <1>2, <1>5, <2>1 DEF Passed
  <2>3. InMemory(k)' = InMemory(k)
    BY <1>2 DEF InMemory
  <2>4. PassedAll(k, n) => PassedAll(k, n)'
    BY <1>1, <1>5, <2>3 DEF PassedAll
  <2> QED BY <2>2, <2>4 DEF StillPassed
<1>7. Onward
  BY <1>1, <1>4, <1>6, SameFilesOnward
<1> QED BY <1>1, <1>2, <1>3, <1>7, OnwardReads

\* A version is installed that has what the old one had, or the newest of it.
LEMMA InstalledOnward ==
    ASSUME Inv, VInv, proc = "up", ~disorder, Tombstones,
           UNCHANGED <<tables, counter, lastDel, w, seq, acked>>,
           \A k \in Keys : \A e \in Filed(k)' : e \in Filed(k) \/ e \in ImmutableEntry(k),
           \A k \in Keys : \A n \in Nat : StillPassed(k, n)
    PROVE  Onward
<1>1. Acks /\ counter \in Nat
  BY DEF VInv, Inv, Types, TreeTypes
<1>2. Tombstones'
  <2>1. ASSUME NEW k \in Keys, NEW e \in Filed(k)', e.type = "DELETE"
        PROVE  lastDel[k] >= e.seq
    <3>1. CASE e \in Filed(k)
      BY <2>1, <3>1 DEF Tombstones, Deleted, Filed
    <3>2. CASE e \in ImmutableEntry(k)
      <4>1. e \in Below(k)
        BY <3>2, KeyFacts
      <4> QED BY <2>1, <4>1, KeyFacts
    <3> QED BY <2>1, <3>1, <3>2
  <2>2. \A k \in Keys : \A e \in Stored(version', tables', k) :
            e.type = "DELETE" => lastDel'[k] >= e.seq
    BY <2>1 DEF Filed
  <2> QED BY <2>2 DEF Tombstones, Deleted, NextSeq
<1>3. TablesKept /\ counter <= counter'
  BY <1>1 DEF TablesKept
<1>4. \A k \in Keys : lastDel[k] <= lastDel'[k] /\ acked[k] <= acked'[k]
  BY <1>1 DEF Acks
<1> QED BY <1>2, <1>3, <1>4 DEF Onward

\* installVersion in the flush thread: a get() that has seen no memtable with the
\* entry, or will see its file, finds it.
LEMMA FlushInstallReads ==
    ASSUME Inv, Inv', VInv, VInv', ReadInv, FlushInstall
    PROVE  ReadInv'
<1>1. /\ UNCHANGED <<tables, counter, lastDel, rd, cache, tainted, w, seq, acked, proc,
                     lostWrite>>
      /\ proc = "up" /\ (disorder => disorder')
  BY DEF FlushInstall, fileVars, readVars, ackVars, boundVars
<1>2. SUFFICES ASSUME ~disorder, ~disorder', ~lostWrite PROVE ReadInv'
  <2>1. OnePlace(cache')
    BY <1>1 DEF ReadInv
  <2> QED BY <1>1, <2>1 DEF ReadInv
<1>3. /\ f.pc = "install" /\ f'.pc = "save"
      /\ \A k : /\ Filed(k)' = Filed(k) \cup ImmutableEntry(k)
                /\ Top(k)' = Top(k) \cup ImmutableEntry(k)
                /\ Mem(k)' = Mem(k) /\ HandedOver(k)' = HandedOver(k)
                /\ ImmutableEntry(k)' = ImmutableEntry(k)
  BY <1>2, FlushInstallFiles
<1>4. Tombstones
  BY <1>1, <1>2 DEF ReadInv
<1>5. \A k : Waiting(k) = HandedOver(k) \cup ImmutableEntry(k) /\ Waiting(k)' = HandedOver(k)
  BY <1>3 DEF Waiting, Installed
<1>6. ASSUME NEW k \in Keys, NEW n \in Nat PROVE StillPassed(k, n)
  <2>1. PICK h, i, F, T, d : /\ h = HandedOver(k) /\ i = ImmutableEntry(k) /\ F = Filed(k)
                             /\ T = Top(k) /\ d = lastDel[k]
    OBVIOUS
  <2>2. /\ i \in SUBSET Entry /\ (\A e, g \in i : e = g) /\ d \in Nat
        /\ \A e \in i : e.type = "DELETE" => d >= e.seq
        /\ \A e \in i, g \in F : NotOlder(e, g)
    BY <1>1, <1>2, <2>1, KeyFacts
  <2>3. Covers(h \cup i, i, T, F, d, n) => Covers(h, i, T \cup i, F \cup i, d, n)
    BY DEF Covers
  <2>4. ASSUME Covers({}, {}, T, F, d, n), \A e \in i : e.seq >= n
        PROVE  Covers({}, {}, T \cup i, F \cup i, d, n)
    <3>1. CASE i = {}
      <4>1. T \cup i = T /\ F \cup i = F
        BY <3>1
      <4> QED BY <2>4, <4>1
    <3>2. ASSUME NEW e \in i PROVE Covers({}, {}, T \cup i, F \cup i, d, n)
      <4>1. e \in Entry /\ e.seq >= n /\ (e.type = "DELETE" => d >= e.seq)
        BY <2>2, <2>4
      <4>2. \A g \in F \cup i : NotOlder(e, g)
        BY <2>2 DEF NotOlder
      <4>3. e \in {} \cup (F \cup i)
        OBVIOUS
      <4> QED BY <2>2, <4>1, <4>2, <4>3, NewestCovers
    <3> QED BY <3>1, <3>2
  <2>5. Passed(k, n) => Passed(k, n)'
    BY <1>1, <1>3, <1>5, <2>1, <2>3 DEF Passed
  <2>6. InMemory(k)' = InMemory(k) /\ i \subseteq InMemory(k)
    BY <1>3, <2>1 DEF InMemory
  <2>7. PassedAll(k, n) => PassedAll(k, n)'
    BY <1>1, <1>3, <2>1, <2>4, <2>6 DEF PassedAll
  <2> QED BY <2>5, <2>7 DEF StillPassed
<1>7. Onward
  BY <1>1, <1>2, <1>3, <1>4, <1>6, InstalledOnward
<1> QED BY <1>1, <1>2, <1>7, OnwardReads

\* installVersion in the compaction thread.
LEMMA CompactInstallReads ==
    ASSUME Inv, Inv', VInv, VInv', ReadInv, CompactInstall
    PROVE  ReadInv'
<1>1. /\ UNCHANGED <<tables, counter, lastDel, rd, cache, tainted, f, w, seq, acked, proc,
                     lostWrite>>
      /\ proc = "up" /\ (disorder => disorder')
  BY DEF CompactInstall, fileVars, readVars, ackVars, boundVars
<1>2. SUFFICES ASSUME ~disorder, ~disorder', ~lostWrite PROVE ReadInv'
  <2>1. OnePlace(cache')
    BY <1>1 DEF ReadInv
  <2> QED BY <1>1, <2>1 DEF ReadInv
<1>3. \A k : /\ Filed(k)' \subseteq Filed(k) /\ Top(k)' \subseteq Top(k)
             /\ \A e \in Filed(k) : (\A g \in Filed(k) : NotOlder(e, g)) =>
                    e \in Filed(k)' \/ (e.type # "PUT" /\ Top(k)' = {})
             /\ Mem(k)' = Mem(k) /\ HandedOver(k)' = HandedOver(k)
             /\ ImmutableEntry(k)' = ImmutableEntry(k)
  BY <1>2, CompactInstallFiles
<1>4. Tombstones /\ Values
  BY <1>1, <1>2 DEF ReadInv, VInv, InOrder
<1>5. \A k : Waiting(k)' = Waiting(k) /\ InMemory(k)' = InMemory(k)
  BY <1>1, <1>3 DEF Waiting, InMemory
<1>6. ASSUME NEW k \in Keys, NEW n \in Nat PROVE StillPassed(k, n)
  <2>1. PICK mem, i, F, T, d, F2, T2 :
            /\ mem = Waiting(k) /\ i = ImmutableEntry(k) /\ F = Filed(k)
            /\ T = Top(k) /\ d = lastDel[k] /\ F2 = Filed(k)' /\ T2 = Top(k)'
    OBVIOUS
  <2>2. /\ mem \in SUBSET Entry /\ i \in SUBSET Entry /\ F \in SUBSET Entry
        /\ \A e \in mem \cup i, g \in F : NotOlder(e, g)
    BY <1>1, <1>2, <2>1, KeyFacts
  <2>3. \A g \in i : g \in mem \/ g \in F \/ g.type = "DELETE"
    BY <1>4, <2>1 DEF Values, Waiting
  <2>4. /\ F2 \in SUBSET F /\ T2 \in SUBSET T
        /\ \A e \in F : (\A g \in F : NotOlder(e, g)) =>
               e \in F2 \/ (e.type # "PUT" /\ T2 = {})
    BY <1>3, <2>1
  <2>5. Covers(mem, i, T, F, d, n) => Covers(mem, i, T2, F2, d, n)
    BY <2>2, <2>3, <2>4, CompactedCovers
  <2>6. Covers({}, {}, T, F, d, n) => Covers({}, {}, T2, F2, d, n)
    <3>1. PICK none : none = {}
      OBVIOUS
    <3>2. /\ none \in SUBSET Entry /\ \A e \in none \cup none, g \in F : NotOlder(e, g)
          /\ \A g \in none : g \in none \/ g \in F \/ g.type = "DELETE"
      BY <3>1
    <3>3. Covers(none, none, T, F, d, n) => Covers(none, none, T2, F2, d, n)
      BY <2>2, <2>4, <3>2, CompactedCovers
    <3> QED BY <3>1, <3>3
  <2>7. Passed(k, n) => Passed(k, n)'
    BY <1>1, <1>3, <1>5, <2>1, <2>5 DEF Passed
  <2>8. PassedAll(k, n) => PassedAll(k, n)'
    BY <1>1, <1>5, <2>1, <2>6 DEF PassedAll
  <2> QED BY <2>7, <2>8 DEF StillPassed
<1>7. \A k \in Keys : \A e \in Filed(k)' : e \in Filed(k) \/ e \in ImmutableEntry(k)
  BY <1>3
<1>8. Onward
  BY <1>1, <1>2, <1>4, <1>6, <1>7, InstalledOnward
<1> QED BY <1>1, <1>2, <1>8, OnwardReads

\* The writer thread writes to the memtable: the numbers that are due, and who
\* has a write of which key.
LEMMA AppliedDue ==
    ASSUME Inv, VInv, WriterApply, NEW K, K = Request.key, NEW k \in Keys, k # K
    PROVE  Due(k)' \subseteq Due(k)
<1>1. /\ UNCHANGED <<seq, acked>> /\ w.pc = "apply" /\ w' = [w EXCEPT !.pc = "log"]
  BY DEF WriterApply, ackVars
<1>2. w \in WriterRecord /\ w.pos \in Nat /\ seq \in Nat
  BY DEF Inv, Types, WriterTypes, WriterRecord, LogTypes
<1>3. w'.pc = "log" /\ w'.pos = w.pos /\ w'.batch = w.batch
  BY <1>1, <1>2 DEF WriterRecord
<1>4. PICK p \in Nat : p = w.pos
  BY <1>2
<1>5. /\ Logged = p - 1 /\ Applied = p - 1 /\ Logged' = p - 1 /\ Applied' = p
  BY <1>1, <1>3, <1>4 DEF Logged, Applied
<1>6. w.batch[p].key # k
  BY <1>4 DEF Request
<1>7. {i \in 1..p : w.batch[i].key = k} \subseteq {i \in 1..(p - 1) : w.batch[i].key = k}
  BY <1>6
<1> QED BY <1>1, <1>3, <1>5, <1>7 DEF Due

\* The new entry is in front of all that a get() has still to look at, and a get()
\* that has begun does not have to return it.
LEMMA WriterApplyReads ==
    ASSUME Inv, Inv', VInv, VInv', ReadInv, WriterApply
    PROVE  ReadInv'
<1>1. PICK K, e : K = Request.key /\ e = [seq |-> seq, type |-> Request.type]
  OBVIOUS
<1>2. /\ UNCHANGED <<version, tables, counter, immutable, cf, f, seq, acked, cache, tainted,
                     lostWrite, disorder, proc>>
      /\ proc = "up" /\ w.pc = "apply" /\ w' = [w EXCEPT !.pc = "log"]
      /\ memtable' = PutEntry(memtable, K, e)
      /\ lastDel' = IF e.type = "DELETE" THEN [lastDel EXCEPT ![K] = seq] ELSE lastDel
      /\ rd' = [r \in Readers |->
                   IF rd[r].key = K /\ rd[r].pc \in {"imm", "version", "search", "fill"}
                   THEN [rd[r] EXCEPT !.overlap = TRUE] ELSE rd[r]]
  BY <1>1 DEF WriterApply, fileVars, ackVars, raceVars, boundVars
<1>3. SUFFICES ASSUME ~disorder, ~lostWrite PROVE ReadInv'
  <2>1. OnePlace(cache')
    BY <1>2 DEF ReadInv
  <2> QED BY <1>2, <2>1 DEF ReadInv
<1>4. /\ Tombstones /\ CacheOk /\ (\A r \in Readers : Reading(r)) /\ OnePlace(cache)
      /\ Acks /\ Acks' /\ Orderly(version)
  BY <1>2, <1>3 DEF ReadInv, VInv, InOrder, TreeOrder
<1>5. /\ seq \in Nat /\ w \in WriterRecord /\ counter \in Nat /\ K \in Keys
      /\ Request.type \in {"PUT", "DELETE"} /\ \A r \in Readers : ReaderOk(rd[r])
  BY <1>1, <1>2, RequestType DEF Inv, Types, LogTypes, WriterTypes, TreeTypes, ReaderTypes
<1>6. /\ w'.pc = "log" /\ w'.pos = w.pos /\ w'.batch = w.batch
      /\ NextSeq = seq /\ NextSeq' = seq + 1 /\ e.seq = seq
      /\ \A k : ~Writing(k)
      /\ \A k : Writing(k)' <=> k = K
  BY <1>1, <1>2, <1>5 DEF WriterRecord, NextSeq, Writing, Request
<1>7. /\ \A k \in Keys : lastDel[k] \in Nat /\ lastDel[k] < seq
      /\ \A k \in Keys : lastDel'[k] = lastDel[k] \/ lastDel'[k] = seq
      /\ \A k \in Keys : lastDel[k] <= lastDel'[k] /\ lastDel'[k] < seq + 1 /\ lastDel'[k] \in Nat
  <2>1. \A k \in Keys : lastDel[k] \in Nat /\ lastDel[k] < seq
    BY <1>4, <1>6 DEF Acks, Tombstones
  <2>2. \A k \in Keys : lastDel'[k] = lastDel[k] \/ lastDel'[k] = seq
    BY <1>2, <1>4, <1>5 DEF Acks
  <2> QED BY <1>5, <2>1, <2>2
<1>8. /\ Mem(K)' = {e}
      /\ \A k : k # K => Mem(k)' = Mem(k)
      /\ \A k : /\ ImmutableEntry(k)' = ImmutableEntry(k) /\ HandedOver(k)' = HandedOver(k)
                /\ Filed(k)' = Filed(k) /\ Top(k)' = Top(k) /\ Waiting(k)' = Waiting(k)
  <2>1. Mem(K)' = {e} /\ \A k : k # K => Mem(k)' = Mem(k)
    BY <1>2 DEF Mem, EntryOf, PutEntry, With
  <2>2. \A k : /\ ImmutableEntry(k)' = ImmutableEntry(k) /\ HandedOver(k)' = HandedOver(k)
               /\ Filed(k)' = Filed(k) /\ Top(k)' = Top(k)
    BY <1>2 DEF ImmutableEntry, HandedOver, Filed, Top
  <2>3. \A k : Waiting(k)' = Waiting(k)
    BY <1>2, <2>2 DEF Waiting
  <2> QED BY <2>1, <2>2, <2>3
<1>9. Tombstones'
  <2>1. ASSUME NEW k \in Keys, NEW g \in Filed(k)', g.type = "DELETE" PROVE lastDel'[k] >= g.seq
    <3>1. g \in Filed(k)
      BY <1>8, <2>1
    <3>2. lastDel[k] >= g.seq
      BY <1>4, <2>1, <3>1 DEF Tombstones, Deleted, Filed
    <3>3. g.seq \in Nat
      BY <1>2, <1>3, <3>1, KeyFacts
    <3> QED BY <1>7, <3>2, <3>3
  <2>2. \A k \in Keys : \A g \in Stored(version', tables', k) :
            g.type = "DELETE" => lastDel'[k] >= g.seq
    BY <2>1 DEF Filed
  <2> QED BY <1>6, <1>7, <2>2 DEF Tombstones, Deleted
<1>10. ASSUME NEW k \in Keys, NEW n \in Nat, n <= seq PROVE StillPassed(k, n)
  <2>1. PICK m, i, F, T, d, d2 :
            /\ m = Waiting(k) /\ i = ImmutableEntry(k) /\ F = Filed(k)
            /\ T = Top(k) /\ d = lastDel[k] /\ d2 = lastDel'[k]
    OBVIOUS
  <2>2. /\ m \in SUBSET Entry /\ i \in SUBSET Entry /\ F \in SUBSET Entry
        /\ d \in Nat /\ d2 \in Nat /\ d <= d2
    <3>1. m \in SUBSET Entry /\ i \in SUBSET Entry /\ F \in SUBSET Entry
      BY <1>2, <1>3, <2>1, KeyFacts
    <3> QED BY <1>7, <2>1, <3>1
  <2>3. Covers(m, i, T, F, d, n) => Covers(m, i, T, F, d2, n)
    <3>1. n <= n
      OBVIOUS
    <3> QED BY <2>2, <3>1, CoversLess
  <2>4. Covers({}, {}, T, F, d, n) => Covers({}, {}, T, F, d2, n)
    <3>1. PICK none : none = {}
      OBVIOUS
    <3>2. n <= n /\ none \in SUBSET Entry
      BY <3>1
    <3>3. Covers(none, none, T, F, d, n) => Covers(none, none, T, F, d2, n)
      BY <2>2, <3>2, CoversLess
    <3> QED BY <3>1, <3>3
  <2>5. (\A g \in Mem(k) : g.seq >= n) => \A g \in Mem(k)' : g.seq >= n
    BY <1>6, <1>8, <1>10, <1>5
  <2>6. Passed(k, n) => Passed(k, n)'
    BY <1>8, <2>1, <2>3, <2>5 DEF Passed
  <2>7. (\A g \in InMemory(k) : g.seq >= n) => \A g \in InMemory(k)' : g.seq >= n
    BY <1>8, <2>5 DEF InMemory
  <2>8. PassedAll(k, n) => PassedAll(k, n)'
    BY <1>8, <2>1, <2>4, <2>7 DEF PassedAll
  <2> QED BY <2>6, <2>8 DEF StillPassed
<1>11. Onward
  <2>1. TablesKept /\ counter <= counter'
    BY <1>2, <1>5 DEF TablesKept
  <2>2. \A k \in Keys : acked[k] <= acked'[k]
    BY <1>2, <1>4 DEF Acks
  <2>3. \A k \in Keys : \A n \in Nat : n <= NextSeq => StillPassed(k, n)
    BY <1>6, <1>10
  <2> QED BY <1>7, <1>9, <2>1, <2>2, <2>3 DEF Onward
<1>12. ASSUME NEW r \in Readers PROVE Reading(r)'
  <2>1. Reading(r) /\ ReaderOk(rd[r])
    BY <1>4, <1>5
  <2>2. /\ rd'[r].pc = rd[r].pc /\ rd'[r].key = rd[r].key /\ rd'[r].cand = rd[r].cand
        /\ rd'[r].version = rd[r].version /\ rd'[r].floor = rd[r].floor /\ rd'[r].gap = rd[r].gap
        /\ \/ rd'[r].overlap = TRUE
           \/ rd'[r] = rd[r] /\ (rd[r].key # K \/ rd[r].pc \notin {"imm", "version", "search", "fill"})
    BY <1>2, <2>1 DEF ReaderOk
  <2>3. rd[r].pc \in {"imm", "version", "search", "fill"} =>
            \A n \in Goals(r)' : n \in Goals(r) /\ n \in Nat /\ n <= NextSeq
    <3> SUFFICES ASSUME rd[r].pc \in {"imm", "version", "search", "fill"}, NEW n \in Goals(r)'
                 PROVE  n \in Goals(r) /\ n \in Nat /\ n <= NextSeq
      OBVIOUS
    <3>1. n \in Goals(r)
      <4>1. CASE rd'[r].overlap = TRUE
        BY <2>2, <4>1 DEF Goals
      <4>2. CASE rd'[r] = rd[r] /\ rd[r].key # K
        <5>1. PICK k \in Keys : k = rd[r].key
          BY <2>1 DEF Reading, Begun
        <5>2. Due(k)' \subseteq Due(k)
          BY <1>1, <4>2, <5>1, AppliedDue
        <5> QED BY <4>2, <5>1, <5>2 DEF Goals
      <4> QED BY <2>2, <4>1, <4>2
    <3>2. rd[r].pc # "idle" /\ Begun(r)
      BY <2>1 DEF Reading
    <3> QED BY <1>2, <1>3, <3>1, <3>2, GoalNumbers
  <2> QED BY <1>4, <1>11, <2>1, <2>2, <2>3, ReaderOnward
<1>13. ASSUME NEW x \in Range(cache'), x.key \notin tainted' PROVE UpToDate(x)'
  <2>1. UpToDate(x)
    BY <1>2, <1>4, <1>13 DEF CacheOk
  <2>2. PICK k \in Keys : k = x.key
    BY <2>1 DEF UpToDate
  <2>3. x.entry.type = "PUT" /\ x.entry.seq >= acked[k] /\ \A n \in Due(k) : x.entry.seq >= n
    BY <1>6, <2>1, <2>2 DEF UpToDate
  <2>4. ~Writing(k)' => \A n \in Due(k)' : x.entry.seq >= n
    BY <1>1, <1>6, <2>3, AppliedDue
  <2> QED BY <1>2, <2>2, <2>3, <2>4 DEF UpToDate
<1>14. CacheOk'
  BY <1>13 DEF CacheOk
<1>15. OnePlace(cache')
  BY <1>2, <1>4
<1> QED BY <1>9, <1>12, <1>14, <1>15 DEF ReadInv

\* What a reader looks at is the same, whatever readers do.
LEMMA ReaderState ==
    ASSUME UNCHANGED <<memtable, immutable, cf, f, version, tables, counter, w, seq, acked,
                       lastDel>>
    PROVE  /\ NextSeq' = NextSeq /\ \A k : Due(k)' = Due(k) /\ (Writing(k)' <=> Writing(k))
           /\ \A k, n : (Passed(k, n)' <=> Passed(k, n)) /\ (PassedAll(k, n)' <=> PassedAll(k, n))
           /\ \A v, k, n : InVersion(v, k, n)' <=> InVersion(v, k, n)
           /\ \A v : (Deleted(v)' <=> Deleted(v)) /\ (Orderly(v)' <=> Orderly(v))
           /\ Tombstones' <=> Tombstones
           /\ \A C, k, n : (Reaches(C, k, n)' <=> Reaches(C, k, n))
                           /\ (Answers(C, k, n)' <=> Answers(C, k, n))
<1>1. NextSeq' = NextSeq /\ \A k : Due(k)' = Due(k) /\ (Writing(k)' <=> Writing(k))
  BY DEF NextSeq, Due, Logged, Applied, Writing, Request
<1>2. \A k : /\ Mem(k)' = Mem(k) /\ HandedOver(k)' = HandedOver(k)
             /\ ImmutableEntry(k)' = ImmutableEntry(k)
             /\ Filed(k)' = Filed(k) /\ Top(k)' = Top(k)
  BY DEF Mem, HandedOver, ImmutableEntry, Filed, Top
<1>3. \A k : Waiting(k)' = Waiting(k) /\ InMemory(k)' = InMemory(k)
  BY <1>2 DEF Waiting, InMemory
<1>4. \A k, n : (Passed(k, n)' <=> Passed(k, n)) /\ (PassedAll(k, n)' <=> PassedAll(k, n))
  BY <1>2, <1>3 DEF Passed, PassedAll
<1>5. \A C, k, n : (Reaches(C, k, n)' <=> Reaches(C, k, n))
                   /\ (Answers(C, k, n)' <=> Answers(C, k, n))
  BY DEF Reaches, Answers
<1>6. \A v, k, n : InVersion(v, k, n)' <=> InVersion(v, k, n)
  BY DEF InVersion, Reaches
<1>7. \A v : (Deleted(v)' <=> Deleted(v)) /\ (Orderly(v)' <=> Orderly(v))
  BY DEF Deleted, Orderly
<1>8. Tombstones' <=> Tombstones
  BY <1>1 DEF Tombstones, Deleted
<1> QED BY <1>1, <1>4, <1>5, <1>6, <1>7, <1>8

\* A reader that takes no step, in a step that leaves what it looks at.
LEMMA SameReading ==
    ASSUME UNCHANGED <<memtable, immutable, cf, f, version, tables, counter, w, seq, acked,
                       lastDel>>,
           NEW q \in Readers, rd'[q] = rd[q], Reading(q)
    PROVE  Reading(q)'
<1>1. /\ \A k : Due(k)' = Due(k)
      /\ \A k, n : (Passed(k, n)' <=> Passed(k, n)) /\ (PassedAll(k, n)' <=> PassedAll(k, n))
      /\ \A v, k, n : InVersion(v, k, n)' <=> InVersion(v, k, n)
      /\ \A v : (Deleted(v)' <=> Deleted(v)) /\ (Orderly(v)' <=> Orderly(v))
      /\ \A C, k, n : (Reaches(C, k, n)' <=> Reaches(C, k, n))
                      /\ (Answers(C, k, n)' <=> Answers(C, k, n))
  BY ReaderState
<1>2. Goals(q)' = Goals(q)
  BY <1>1 DEF Goals
<1>3. Begun(q)'
  BY DEF Reading, Begun
<1>4. PICK k, C : k = rd[q].key /\ C = rd[q].cand
  OBVIOUS
<1>5. ReadImm(q)'
  BY <1>1, <1>2 DEF Reading, ReadImm, Reaches, Passed
<1>6. ReadVersion(q)'
  <2> SUFFICES ASSUME rd[q].pc = "version", ~rd[q].gap, NEW n \in Goals(q)
               PROVE  /\ \A e \in C : e.seq >= n /\ (e.type = "DELETE" => lastDel'[k] >= n)
                      /\ C = {} => PassedAll(k, n)'
    BY <1>2, <1>4 DEF ReadVersion, Reaches, PassedAll
  <2>1. Reaches(C, k, n) /\ (C = {} => PassedAll(k, n))
    BY <1>4 DEF Reading, ReadVersion
  <2> QED BY <1>1, <2>1 DEF Reaches
<1>7. ReadSearch(q)'
  BY <1>1, <1>2 DEF Reading, ReadSearch
<1>8. ReadFill(q)'
  BY <1>1, <1>2 DEF Reading, ReadFill
<1>9. ReadDone(q)'
  BY <1>1 DEF Reading, ReadDone
<1> QED BY <1>3, <1>5, <1>6, <1>7, <1>8, <1>9 DEF Reading

\* A step of one reader leaves the others alone.
LEMMA ReaderStep ==
    ASSUME Inv, ReadInv, NEW r \in Readers, proc = "up",
           UNCHANGED <<memtable, immutable, cf, f, version, tables, counter, w, seq, acked,
                       lastDel, proc, disorder, lostWrite>>,
           \A q \in Readers : q # r => rd'[q] = rd[q], OnePlace(cache'),
           ~disorder /\ ~lostWrite => Reading(r)',
           ~disorder /\ ~lostWrite =>
               \A x \in Range(cache') : x.key \notin tainted' => UpToDate(x)
    PROVE  ReadInv'
<1>1. SUFFICES ASSUME ~disorder, ~lostWrite
               PROVE  Tombstones' /\ CacheOk' /\ \A q \in Readers : Reading(q)'
  BY DEF ReadInv
<1>2. (\A k : Due(k)' = Due(k) /\ (Writing(k)' <=> Writing(k))) /\ (Tombstones' <=> Tombstones)
  BY ReaderState
<1>3. Tombstones'
  BY <1>1, <1>2 DEF ReadInv
<1>4. ASSUME NEW x \in Range(cache'), x.key \notin tainted' PROVE UpToDate(x)'
  <2>1. UpToDate(x)
    BY <1>1, <1>4
  <2> QED BY <1>2, <2>1 DEF UpToDate
<1>5. CacheOk'
  BY <1>4 DEF CacheOk
<1>6. ASSUME NEW q \in Readers, q # r PROVE Reading(q)'
  <2>1. Reading(q) /\ rd'[q] = rd[q]
    BY <1>1, <1>6 DEF ReadInv
  <2> QED BY <2>1, SameReading
<1> QED BY <1>1, <1>3, <1>5, <1>6

\* get() asks the cache.
LEMMA BeginReads ==
    ASSUME Inv, VInv, ReadInv, NEW r \in Readers, NEW k \in Keys, GetBegin(r, k)
    PROVE  ReadInv'
<1> DEFINE C == CachedIn(cache, k)
           x == [pc |-> IF C = {} THEN "mem" ELSE "done", key |-> k, cand |-> C,
                 version |-> EmptyVersion, floor |-> acked[k], gap |-> C # {} /\ k \in tainted,
                 overlap |-> FALSE]
<1>1. /\ UNCHANGED <<memtable, immutable, cf, f, version, tables, counter, w, seq, acked, lastDel,
                     proc, disorder, lostWrite, tainted>>
      /\ proc = "up" /\ cache' = CacheTouch(cache, k) /\ rd' = [rd EXCEPT ![r] = x]
  BY DEF GetBegin, memVars, fileVars, ackVars, raceVars, boundVars
<1>2. /\ cache \in Seq(Node) /\ k \in Nat /\ rd = [q \in Readers |-> rd[q]]
      /\ OnePlace(cache) /\ Acks
  BY <1>1, EngineAssumption DEF Inv, Types, ReaderTypes, ReadInv, VInv
<1>3. OnePlace(cache') /\ Range(cache') \subseteq Range(cache)
  BY <1>1, <1>2, CacheNodes
<1>4. /\ rd'[r].pc = (IF C = {} THEN "mem" ELSE "done")
      /\ rd'[r].key = k /\ rd'[r].cand = C /\ rd'[r].floor = acked[k]
      /\ rd'[r].gap = (C # {} /\ k \in tainted)
      /\ \A q \in Readers : q # r => rd'[q] = rd[q]
  BY <1>1, <1>2
<1>5. \A e \in C : e \in Entry /\ [key |-> k, entry |-> e] \in Range(cache)
  <2> SUFFICES ASSUME NEW i \in DOMAIN cache, cache[i].key = k
               PROVE  cache[i].entry \in Entry
                      /\ [key |-> k, entry |-> cache[i].entry] \in Range(cache)
    BY DEF CachedIn
  <2>1. cache[i] \in Node
    BY <1>2
  <2>2. cache[i] = [key |-> k, entry |-> cache[i].entry] /\ cache[i].entry \in Entry
    BY <2>1 DEF Node
  <2> QED BY <2>2 DEF Range
<1>6. OneSeq(C)
  <2>1. \A e, g \in C : e = g
    BY <1>2 DEF CachedIn, OnePlace
  <2> QED BY <1>5, <2>1 DEF OneSeq
<1>7. acked[k] \in Nat
  BY <1>2 DEF Acks
<1> HIDE DEF C, x
<1>8. ASSUME ~disorder, ~lostWrite PROVE Reading(r)'
  <2>1. Begun(r)'
    <3>1. acked[k] <= acked[k]
      BY <1>7
    <3> QED BY <1>1, <1>4, <1>6, <1>7, <3>1 DEF Begun
  <2>2. ASSUME NEW e \in C, k \notin tainted PROVE Answers(C, k, acked[k])
    <3>1. PICK node \in Range(cache) : node = [key |-> k, entry |-> e]
      BY <1>5
    <3>2. node.key = k /\ node.entry = e
      BY <3>1
    <3>3. UpToDate(node)
      BY <1>8, <2>2, <3>2 DEF ReadInv, CacheOk
    <3>4. e.type = "PUT" /\ e.seq >= acked[k]
      BY <3>2, <3>3 DEF UpToDate
    <3>5. SeqOf(C) = e.seq
      BY <1>6, SeqOfOne
    <3>6. Visible(C) # {}
      BY <3>4 DEF Visible
    <3> QED BY <3>4, <3>5, <3>6 DEF Answers
  <2>3. ReadDone(r)'
    <3>1. rd'[r].pc = "done" /\ ~rd'[r].gap => C # {} /\ k \notin tainted
      BY <1>4, Zenon
    <3>2. rd'[r].pc = "done" /\ ~rd'[r].gap => Answers(C, k, acked[k])
      BY <2>2, <3>1
    <3>3. PICK n : n = acked[k]
      OBVIOUS
    <3>4. lastDel'[k] = lastDel[k] /\ rd'[r].floor = n
      BY <1>1, <1>4, <3>3
    <3>5. rd'[r].pc = "done" /\ ~rd'[r].gap =>
              IF Visible(C) = {} THEN n = 0 \/ lastDel'[k] >= n ELSE SeqOf(C) >= n
      BY <3>2, <3>3, <3>4 DEF Answers
    <3> QED BY <1>4, <3>4, <3>5 DEF ReadDone, Answers
  <2>4. rd'[r].pc \in {"mem", "done"}
    BY <1>4
  <2> QED BY <2>1, <2>3, <2>4 DEF Reading, ReadImm, ReadVersion, ReadSearch, ReadFill
<1>9. ASSUME ~disorder, ~lostWrite, NEW node \in Range(cache'), node.key \notin tainted'
      PROVE  UpToDate(node)
  BY <1>1, <1>3, <1>9 DEF ReadInv, CacheOk
<1> QED BY <1>1, <1>3, <1>4, <1>8, <1>9, ReaderStep

\* What get() looks for has been written: it is in the memtable or beyond.
LEMMA GoalsCovered ==
    ASSUME Inv, VInv, proc = "up", ~disorder, ~lostWrite, NEW r \in Readers, Begun(r),
           rd[r].pc # "idle", NEW n \in Nat, n = rd[r].floor \/ n \in Due(rd[r].key),
           NEW k \in Keys, k = rd[r].key
    PROVE  Covered(k, n)
<1>1. /\ n <= acked[k] \/ n \in Due(k)
      /\ acked[k] \in Due(k) /\ acked[k] \in Nat
  BY DEF Begun, Due, VInv, Acks
<1>2. /\ \A j \in Due(k) : Covered(k, j)
      /\ Acks
  BY DEF VInv, InOrder, Values
<1>3. PICK m, i, F, T, d : /\ m = Unfiled(k) /\ i = ImmutableEntry(k) /\ F = Filed(k)
                           /\ T = Top(k) /\ d = lastDel[k]
  OBVIOUS
<1>4. m \in SUBSET Entry /\ i \in SUBSET Entry /\ F \in SUBSET Entry /\ d \in Nat /\ d <= d
  <2>1. m \in SUBSET Entry /\ i \in SUBSET Entry /\ F \in SUBSET Entry /\ d \in Nat
    BY <1>3, KeyFacts DEF Unfiled
  <2> QED BY <2>1
<1>5. CASE n \in Due(k)
  BY <1>2, <1>5
<1>6. CASE n <= acked[k]
  <2>1. PICK a \in Nat : a = acked[k]
    BY <1>1
  <2>2. Covers(m, i, T, F, d, a)
    BY <1>1, <1>2, <1>3, <2>1 DEF Covered
  <2>3. Covers(m, i, T, F, d, n)
    BY <1>4, <1>6, <2>1, <2>2, CoversLess
  <2> QED BY <1>3, <2>3 DEF Covered
<1> QED BY <1>1, <1>5, <1>6

\* get() looks into the memtable.
LEMMA MemtableReads ==
    ASSUME Inv, VInv, ReadInv, NEW r \in Readers, GetMemtable(r)
    PROVE  ReadInv'
<1>1. /\ UNCHANGED <<memtable, immutable, cf, f, version, tables, counter, w, seq, acked, lastDel,
                     proc, disorder, lostWrite, tainted, cache>>
      /\ proc = "up" /\ rd[r].pc = "mem"
      /\ rd' = [rd EXCEPT ![r].pc = "imm", ![r].cand = EntryOf(memtable, rd[r].key)]
  BY DEF GetMemtable, memVars, fileVars, ackVars, raceVars, boundVars
<1>2. rd = [q \in Readers |-> rd[q]] /\ ReaderOk(rd[r]) /\ OnePlace(cache)
  BY DEF Inv, Types, ReaderTypes, ReadInv
<1>3. /\ rd'[r].pc = "imm" /\ rd'[r].key = rd[r].key /\ rd'[r].cand = Mem(rd[r].key)
      /\ rd'[r].floor = rd[r].floor /\ rd'[r].overlap = rd[r].overlap
      /\ \A q \in Readers : q # r => rd'[q] = rd[q]
  BY <1>1, <1>2 DEF ReaderOk, Mem
<1>4. ASSUME ~disorder, ~lostWrite PROVE Reading(r)'
  <2>1. Begun(r) /\ rd[r].pc # "idle"
    BY <1>1, <1>4 DEF ReadInv, Reading
  <2>2. PICK k \in Keys, n0 \in Nat : k = rd[r].key /\ n0 = rd[r].floor /\ n0 <= acked[k]
    BY <2>1 DEF Begun
  <2>3. PICK M, Wt, i, F, T, d :
            /\ M = Mem(k) /\ Wt = Waiting(k) /\ i = ImmutableEntry(k) /\ F = Filed(k)
            /\ T = Top(k) /\ d = lastDel[k]
    OBVIOUS
  <2>4. /\ M \in SUBSET Entry /\ (\A e, g \in M : e = g) /\ d \in Nat
        /\ \A e \in M, g \in Wt \cup F : NotOlder(e, g)
        /\ \A e \in M : e.type = "DELETE" => d >= e.seq
        /\ \A e \in M \cup Wt \cup F : e.seq \in Nat
    BY <1>1, <1>4, <2>3, KeyFacts
  <2>5. OneSeq(M)
    BY <2>4 DEF OneSeq
  <2>6. Begun(r)'
    BY <1>1, <1>3, <2>2, <2>3, <2>5 DEF Begun
  <2>7. ASSUME NEW n \in Nat, Covers(M \cup Wt, i, T, F, d, n)
        PROVE  /\ \A e \in M : e.seq >= n /\ (e.type = "DELETE" => d >= n)
               /\ M = {} => Covers(Wt, i, T, F, d, n)
    <3>1. ASSUME NEW e \in M PROVE e.seq >= n
      <4>1. CASE n = 0
        BY <2>4, <4>1
      <4>2. ASSUME NEW g \in (M \cup Wt) \cup F, g.seq >= n PROVE e.seq >= n
        BY <2>4, <4>2 DEF NotOlder
      <4> QED BY <2>7, <4>1, <4>2 DEF Covers
    <3>2. ASSUME NEW e \in M, e.type = "DELETE" PROVE d >= n
      BY <2>4, <3>1, <3>2
    <3>3. M = {} => M \cup Wt = Wt
      OBVIOUS
    <3> QED BY <2>7, <3>1, <3>2, <3>3
  <2>8. ReadImm(r)'
    <3> SUFFICES ASSUME NEW n \in Goals(r)'
                 PROVE  /\ \A e \in M : e.seq >= n /\ (e.type = "DELETE" => d >= n)
                        /\ M = {} => Passed(k, n)'
      BY <1>1, <1>3, <2>2, <2>3 DEF ReadImm, Reaches, Passed
    <3>1. Goals(r)' = Goals(r)
      <4>1. \A j : Due(j)' = Due(j)
        BY <1>1, ReaderState
      <4> QED BY <1>3, <4>1 DEF Goals
    <3>2. n \in Nat /\ (n = rd[r].floor \/ n \in Due(rd[r].key))
      <4>1. n \in Goals(r)
        BY <3>1
      <4>2. n \in Nat
        BY <1>1, <1>4, <2>1, <4>1, GoalNumbers
      <4> QED BY <4>1, <4>2 DEF Goals
    <3>3. Covered(k, n)
      BY <1>1, <1>4, <2>1, <2>2, <3>2, GoalsCovered
    <3>4. Covers(M \cup Wt, i, T, F, d, n)
      BY <2>3, <3>3 DEF Covered, Unfiled
    <3>5. Passed(k, n)' <=> Passed(k, n)
      BY <1>1, ReaderState
    <3>6. M = {} => Passed(k, n)
      BY <2>3, <2>7, <3>2, <3>4 DEF Passed
    <3> QED BY <2>7, <3>2, <3>4, <3>5, <3>6
  <2> QED BY <1>3, <2>6, <2>8 DEF Reading, ReadVersion, ReadSearch, ReadFill, ReadDone
<1>5. ASSUME ~disorder, ~lostWrite, NEW node \in Range(cache'), node.key \notin tainted'
      PROVE  UpToDate(node)
  BY <1>1, <1>5 DEF ReadInv, CacheOk
<1>6. OnePlace(cache')
  BY <1>1, <1>2
<1> QED BY <1>1, <1>3, <1>4, <1>5, <1>6, ReaderStep

\* The newest of what get() has found and what is in the immutable memtable.
LEMMA NewestOne ==
    ASSUME NEW C, OneSeq(C), NEW H, OneSeq(H)
    PROVE  OneSeq(Newest(C \cup H)) /\ (Newest(C \cup H) = {} => C = {} /\ H = {})
<1>1. /\ \A e \in C \cup H : e.seq \in Nat /\ e \in Entry
      /\ (\A e, g \in C : e.seq = g.seq) /\ \A e, g \in H : e.seq = g.seq
  BY DEF OneSeq, Entry
<1>2. OneSeq(Newest(C \cup H))
  <2>1. \A e, g \in Newest(C \cup H) : e.seq = g.seq
    BY <1>1 DEF Newest
  <2>2. Newest(C \cup H) \in SUBSET Entry
    BY <1>1 DEF Newest
  <2> QED BY <2>1, <2>2 DEF OneSeq
<1>3. ASSUME NEW e \in C \cup H PROVE Newest(C \cup H) # {}
  <2>1. CASE \A g \in C \cup H : e.seq >= g.seq
    BY <2>1 DEF Newest
  <2>2. CASE \E g \in C \cup H : ~(e.seq >= g.seq)
    <3>1. PICK g \in C \cup H : ~(e.seq >= g.seq)
      BY <2>2
    <3>2. \A x \in C \cup H : x.seq = e.seq \/ x.seq = g.seq
      BY <1>1, <3>1
    <3>3. \A x \in C \cup H : g.seq >= x.seq
      BY <1>1, <3>1, <3>2
    <3> QED BY <3>3 DEF Newest
  <2> QED BY <2>1, <2>2
<1> QED BY <1>2, <1>3

\* It is as new as one of them.
LEMMA NewestReaches ==
    ASSUME NEW C \in SUBSET Entry, NEW H \in SUBSET Entry, NEW n \in Nat, NEW d \in Nat,
           \A e \in H : e.type = "DELETE" => d >= e.seq,
           \/ C = {} /\ \A e \in H : e.seq >= n
           \/ C # {} /\ \A e \in C : e.seq >= n /\ (e.type = "DELETE" => d >= n),
           NEW e \in Newest(C \cup H)
    PROVE  e.seq >= n /\ (e.type = "DELETE" => d >= n)
<1>1. \A g \in C \cup H : g.seq \in Nat
  BY DEF Entry
<1>2. e \in C \cup H /\ \A g \in C \cup H : e.seq >= g.seq
  BY DEF Newest
<1>3. e.seq >= n
  BY <1>1, <1>2
<1>4. e.type = "DELETE" => d >= n
  BY <1>1, <1>2, <1>3
<1> QED BY <1>3, <1>4

\* get() looks into the immutable memtable.
LEMMA ImmutableReads ==
    ASSUME Inv, VInv, ReadInv, NEW r \in Readers, GetImmutable(r)
    PROVE  ReadInv'
<1>1. /\ UNCHANGED <<memtable, immutable, cf, f, version, tables, counter, w, seq, acked, lastDel,
                     proc, disorder, lostWrite, tainted, cache>>
      /\ proc = "up" /\ rd[r].pc = "imm"
      /\ rd' = [rd EXCEPT ![r].pc = "version",
                          ![r].cand = Newest(@ \cup ImmutableEntry(rd[r].key)),
                          ![r].gap = \E t \in Callers : cf[t].pc = "store"]
  BY DEF GetImmutable, memVars, fileVars, ackVars, raceVars, boundVars
<1>2. rd = [q \in Readers |-> rd[q]] /\ ReaderOk(rd[r]) /\ OnePlace(cache)
  BY DEF Inv, Types, ReaderTypes, ReadInv
<1>3. /\ rd'[r].pc = "version" /\ rd'[r].key = rd[r].key
      /\ rd'[r].cand = Newest(rd[r].cand \cup ImmutableEntry(rd[r].key))
      /\ rd'[r].gap = \E t \in Callers : cf[t].pc = "store"
      /\ rd'[r].floor = rd[r].floor /\ rd'[r].overlap = rd[r].overlap
      /\ \A q \in Readers : q # r => rd'[q] = rd[q]
  BY <1>1, <1>2 DEF ReaderOk
<1>4. ASSUME ~disorder, ~lostWrite PROVE Reading(r)'
  <2>1. Begun(r) /\ rd[r].pc # "idle" /\ ReadImm(r)
    BY <1>1, <1>4 DEF ReadInv, Reading
  <2>2. PICK k \in Keys, n0 \in Nat : k = rd[r].key /\ n0 = rd[r].floor /\ n0 <= acked[k]
    BY <2>1 DEF Begun
  <2>3. PICK C, M, Wt, H, F, T, d :
            /\ C = rd[r].cand
            /\ M = Mem(k) /\ Wt = Waiting(k) /\ H = ImmutableEntry(k) /\ F = Filed(k)
            /\ T = Top(k) /\ d = lastDel[k]
    OBVIOUS
  <2>4. /\ H \in SUBSET Entry /\ (\A e, g \in H : e = g) /\ d \in Nat
        /\ \A e \in H, g \in F : NotOlder(e, g)
        /\ \A e \in H : e.type = "DELETE" => d >= e.seq
        /\ \A e \in H \cup F : e.seq \in Nat
    BY <1>1, <1>4, <2>3, KeyFacts
  <2>5. OneSeq(C)
    BY <2>1, <2>3 DEF Begun
  <2>6. PICK N : N = Newest(C \cup H)
    OBVIOUS
  <2>7. rd'[r].key = k /\ rd'[r].cand = N /\ rd'[r].floor = n0
    BY <1>3, <2>2, <2>3, <2>6
  <2>8. OneSeq(N) /\ (N = {} => C = {} /\ H = {})
    <3>1. OneSeq(H)
      BY <2>4 DEF OneSeq
    <3> QED BY <2>5, <2>6, <3>1, NewestOne
  <2>9. Begun(r)'
    BY <1>1, <2>2, <2>7, <2>8 DEF Begun
  <2>10. ASSUME HandedOver(k) = {}, NEW n \in Nat, \A e \in C : e.seq >= n,
                \A e \in C : e.type = "DELETE" => d >= n, C = {} => Passed(k, n)
         PROVE  /\ \A e \in N : e.seq >= n /\ (e.type = "DELETE" => d >= n)
                /\ N = {} => PassedAll(k, n)
    <3>1. CASE C # {}
      <4>1. \A e \in N : e.seq >= n /\ (e.type = "DELETE" => d >= n)
        <5>1. C \in SUBSET Entry
          BY <2>5 DEF OneSeq
        <5> QED BY <2>4, <2>6, <2>10, <3>1, <5>1, NewestReaches
      <4> QED BY <2>8, <3>1, <4>1
    <3>2. CASE C = {}
      <4>1. /\ Wt = {} \/ Wt = H
            /\ Covers(Wt, H, T, F, d, n) /\ \A e \in M : e.seq >= n
        BY <2>3, <2>10, <3>2 DEF Passed, Waiting
      <4>2. ASSUME NEW e \in H PROVE e.seq >= n
        <5>1. CASE n = 0
          BY <2>4, <5>1
        <5>2. ASSUME NEW g \in Wt \cup F, g.seq >= n PROVE e.seq >= n
          BY <2>4, <4>1, <5>2 DEF NotOlder
        <5> QED BY <4>1, <5>1, <5>2 DEF Covers
      <4>3. \A e \in N : e.seq >= n /\ (e.type = "DELETE" => d >= n)
        <5>1. C \in SUBSET Entry
          BY <3>2
        <5> QED BY <2>4, <2>6, <2>10, <3>2, <4>2, <5>1, NewestReaches
      <4>4. ASSUME N = {} PROVE PassedAll(k, n)
        <5>1. H = {} /\ Wt = {}
          BY <2>8, <4>1, <4>4
        <5>2. Covers({}, {}, T, F, d, n)
          BY <4>1, <5>1
        <5>3. InMemory(k) = M
          BY <2>3, <2>10, <5>1 DEF InMemory
        <5> QED BY <2>3, <4>1, <5>2, <5>3 DEF PassedAll
      <4> QED BY <4>3, <4>4
    <3> QED BY <3>1, <3>2
  <2>11. ReadVersion(r)'
    <3> SUFFICES ASSUME ~rd'[r].gap, NEW n \in Goals(r)'
                 PROVE  /\ \A e \in N : e.seq >= n /\ (e.type = "DELETE" => d >= n)
                        /\ N = {} => PassedAll(k, n)'
      BY <1>1, <2>3, <2>7 DEF ReadVersion, Reaches, PassedAll
    <3>1. \A t \in Callers : cf[t].pc # "store"
      BY <1>3, Zenon
    <3>2. HandedOver(k) = {}
      BY <3>1 DEF HandedOver
    <3>3. Goals(r)' = Goals(r)
      <4>1. \A j : Due(j)' = Due(j)
        BY <1>1, ReaderState
      <4> QED BY <1>3, <4>1 DEF Goals
    <3>4. n \in Goals(r) /\ n \in Nat
      BY <1>1, <1>4, <2>1, <3>3, GoalNumbers
    <3>5. Reaches(C, k, n) /\ (C = {} => Passed(k, n))
      BY <1>1, <2>1, <2>2, <2>3, <3>4 DEF ReadImm
    <3>6. PassedAll(k, n)' <=> PassedAll(k, n)
      BY <1>1, ReaderState
    <3>7. /\ \A e \in N : e.seq >= n /\ (e.type = "DELETE" => d >= n)
          /\ N = {} => PassedAll(k, n)
      BY <2>3, <2>10, <3>2, <3>4, <3>5 DEF Reaches
    <3> QED BY <3>6, <3>7
  <2> QED BY <1>3, <2>9, <2>11 DEF Reading, ReadImm, ReadSearch, ReadFill, ReadDone
<1>5. ASSUME ~disorder, ~lostWrite, NEW node \in Range(cache'), node.key \notin tainted'
      PROVE  UpToDate(node)
  BY <1>1, <1>5 DEF ReadInv, CacheOk
<1>6. OnePlace(cache')
  BY <1>1, <1>2
<1> QED BY <1>1, <1>3, <1>4, <1>5, <1>6, ReaderStep

\* get() takes the version.
LEMMA VersionReads ==
    ASSUME Inv, VInv, ReadInv, NEW r \in Readers, GetVersion(r)
    PROVE  ReadInv'
<1>1. /\ UNCHANGED <<memtable, immutable, cf, f, version, tables, counter, w, seq, acked, lastDel,
                     proc, disorder, lostWrite, tainted, cache>>
      /\ proc = "up" /\ rd[r].pc = "version"
      /\ rd' = [rd EXCEPT ![r].pc = "search", ![r].version = version,
                          ![r].gap = @ \/ ComeBack(r)]
  BY DEF GetVersion, memVars, fileVars, ackVars, raceVars, boundVars
<1>2. rd = [q \in Readers |-> rd[q]] /\ ReaderOk(rd[r]) /\ OnePlace(cache)
  BY DEF Inv, Types, ReaderTypes, ReadInv
<1>3. /\ rd'[r].pc = "search" /\ rd'[r].key = rd[r].key /\ rd'[r].cand = rd[r].cand
      /\ rd'[r].version = version /\ rd'[r].gap = (rd[r].gap \/ ComeBack(r))
      /\ rd'[r].floor = rd[r].floor /\ rd'[r].overlap = rd[r].overlap
      /\ \A q \in Readers : q # r => rd'[q] = rd[q]
  BY <1>1, <1>2 DEF ReaderOk
<1>4. ASSUME ~disorder, ~lostWrite PROVE Reading(r)'
  <2>1. Begun(r) /\ rd[r].pc # "idle" /\ ReadVersion(r)
    BY <1>1, <1>4 DEF ReadInv, Reading
  <2>2. PICK k \in Keys, n0 \in Nat : k = rd[r].key /\ n0 = rd[r].floor /\ n0 <= acked[k]
    BY <2>1 DEF Begun
  <2>3. PICK C, v : C = rd[r].cand /\ v = version
    OBVIOUS
  <2>4. rd'[r].key = k /\ rd'[r].cand = C /\ rd'[r].floor = n0 /\ rd'[r].version = v
    BY <1>3, <2>2, <2>3
  <2>5. OneSeq(C) /\ Begun(r)'
    BY <1>1, <2>1, <2>2, <2>3, <2>4 DEF Begun
  <2>6. Orderly(v) /\ VersionUpto(v, counter) /\ Deleted(v)
    BY <1>1, <1>4, <2>3 DEF VInv, InOrder, TreeOrder, Inv, TreeInv, Numbers, ReadInv, Tombstones
  <2>7. ASSUME ~rd'[r].gap, NEW n \in Goals(r)
        PROVE  Reaches(C, k, n) /\ (C = {} => InVersion(v, k, n))
    <3>1. ~rd[r].gap /\ ~ComeBack(r)
      BY <1>3, <2>7, Zenon
    <3>2. n \in Nat /\ n >= n0
      BY <1>1, <1>4, <2>1, <2>2, GoalNumbers
    <3>3. Reaches(C, k, n) /\ (C = {} => PassedAll(k, n))
      BY <1>1, <2>1, <2>2, <2>3, <3>1 DEF ReadVersion
    <3>4. ASSUME C = {} PROVE InVersion(v, k, n)
      <4>1. Covers({}, {}, Top(k), Filed(k), lastDel[k], n)
        BY <3>3, <3>4 DEF PassedAll
      <4>2. CASE n = 0
        BY <4>2 DEF InVersion
      <4>3. CASE Top(k) = {} /\ lastDel[k] >= n
        <5>1. v \in Versions(Metas) /\ Readable(v, tables)
          BY <2>3, <2>6 DEF Inv, Types, TreeTypes, Known, Orderly
        <5>2. \A l \in {0, 1} : Hits(version, tables, l, k) = {}
          BY <2>3, <4>3, <5>1, HitsFound DEF Top, Levels
        <5>3. lastDel[k] >= n0
          BY <1>1, <2>2, <3>2, <4>3 DEF VInv, Acks
        <5>4. ComeBack(r)
          BY <2>2, <2>3, <3>4, <5>2, <5>3 DEF ComeBack
        <5> QED BY <3>1, <5>4
      <4>4. ASSUME NEW e \in {} \cup Filed(k), \A g \in {} \cup Filed(k) : NotOlder(e, g),
                   e.seq >= n, e.type = "DELETE" => lastDel[k] >= n
            PROVE  InVersion(v, k, n)
        BY <2>3, <4>4 DEF InVersion, Reaches, Filed
      <4> QED BY <4>1, <4>2, <4>3, <4>4 DEF Covers
    <3> QED BY <3>3, <3>4
  <2>8. ReadSearch(r)'
    <3>1. Orderly(v)' /\ VersionUpto(v, counter') /\ Deleted(v)'
      BY <1>1, <2>6, ReaderState
    <3>2. Goals(r)' = Goals(r)
      <4>1. \A j : Due(j)' = Due(j)
        BY <1>1, ReaderState
      <4> QED BY <1>3, <4>1 DEF Goals
    <3>3. ASSUME ~rd'[r].gap, NEW n \in Goals(r)'
          PROVE  /\ \A e \in C : e.seq >= n /\ (e.type = "DELETE" => lastDel'[k] >= n)
                 /\ C = {} => InVersion(v, k, n)'
      <4>1. Reaches(C, k, n) /\ (C = {} => InVersion(v, k, n))
        BY <2>7, <3>2, <3>3
      <4>2. InVersion(v, k, n)' <=> InVersion(v, k, n)
        BY <1>1, ReaderState
      <4> QED BY <1>1, <4>1, <4>2 DEF Reaches
    <3> QED BY <2>4, <3>1, <3>3 DEF ReadSearch, Orderly, Deleted, Reaches, InVersion
  <2> QED BY <1>3, <2>5, <2>8 DEF Reading, ReadImm, ReadVersion, ReadFill, ReadDone
<1>5. ASSUME ~disorder, ~lostWrite, NEW node \in Range(cache'), node.key \notin tainted'
      PROVE  UpToDate(node)
  BY <1>1, <1>5 DEF ReadInv, CacheOk
<1>6. OnePlace(cache')
  BY <1>1, <1>2
<1> QED BY <1>1, <1>3, <1>4, <1>5, <1>6, ReaderStep

\* The search with a candidate never comes out with nothing, nor with less.
LEMMA LookupKeeps ==
    ASSUME TreeTypes, NEW v, Known(v), Orderly(v), VersionUpto(v, counter), NEW t \in Contents,
           NEW k, NEW C, OneSeq(C), C # {}
    PROVE  /\ Lookup(v, tables, k, C) # {}
           /\ \A e \in Lookup(v, tables, k, C) :
                  /\ e \in C \/ e \in Stored(v, tables, k)
                  /\ \A g \in C : e.seq >= g.seq
<1> DEFINE Stops == {l \in Levels : /\ v.levels[l] # <<>>
                                    /\ C # {} \/ Hits(v, tables, l, k) # {}}
           H == Hits(v, tables, Min(Stops), k)
<1>1. Lookup(v, tables, k, C) = IF Stops = {} THEN C ELSE Newest(C \cup H)
  BY DEF Lookup
<1>2. \A e \in C : e \in Entry /\ e.seq \in Nat
  BY DEF OneSeq, Entry
<1>3. \A e, g \in C : e.seq = g.seq
  BY DEF OneSeq
<1>4. CASE Stops = {}
  BY <1>1, <1>2, <1>3, <1>4
<1>5. CASE Stops # {}
  <2>1. Stops \in SUBSET Nat /\ Stops \subseteq Levels
    BY DEF Levels
  <2> HIDE DEF Stops
  <2>2. PICK l \in Levels : l = Min(Stops)
    BY <1>5, <2>1, MinNat
  <2>3. H = Found(v, tables, l, k)
    BY <2>2, HitsFound DEF Known, Orderly
  <2> HIDE DEF H
  <2>4. \A e \in H : \E id \in v.sstables : e \in EntryOf(tables[id], k)
    <3> SUFFICES ASSUME NEW e \in H PROVE \E id \in v.sstables : e \in EntryOf(tables[id], k)
      OBVIOUS
    <3>1. PICK m \in Range(v.levels[l]) : k \in DOMAIN tables[m.id] /\ e = tables[m.id][k]
      <4>1. e \in Found(v, tables, l, k)
        BY <2>3
      <4> QED BY <4>1 DEF Found
    <3>2. m.id \in v.sstables
      BY DEF Orderly, Readable
    <3> QED BY <3>1, <3>2 DEF EntryOf
  <2>5. /\ v.sstables \in SUBSET Nat /\ counter \in Nat
        /\ \A id \in v.sstables : id <= counter
        /\ \A id \in v.sstables : tables[id] \in Contents
    BY DEF TreeTypes, Known, Versions, VersionUpto
  <2>6. PICK b \in Nat : \A e \in H : b >= e.seq
    <3>1. PICK ids, tb, n0 : ids = v.sstables /\ tb = tables /\ n0 = counter
      BY <2>5
    <3>2. /\ n0 \in Nat /\ ids \in SUBSET Nat /\ (\A id \in ids : id <= n0)
          /\ \A id \in ids : tb[id] \in Contents
      BY <2>5, <3>1
    <3>3. \A e \in H : e \in EntryOf(t, k) \/ \E id \in ids : e \in EntryOf(tb[id], k)
      BY <2>4, <3>1
    <3>4. SeqOf(H) \in Nat /\ \A e \in H : SeqOf(H) >= e.seq
      BY <3>2, <3>3, RecoveredDeletes
    <3> QED BY <3>4
  <2>7. \A e \in C \cup H : e.seq \in Nat
    <3> SUFFICES ASSUME NEW e \in H PROVE e.seq \in Nat
      BY <1>2
    <3>1. PICK id \in v.sstables : e \in EntryOf(tables[id], k)
      BY <2>4
    <3>2. e \in Entry
      BY <2>5, <3>1, EntryOfContents
    <3> QED BY <3>2 DEF Entry
  <2>8. Newest(C \cup H) # {}
    <3> DEFINE N == {e.seq : e \in C \cup H}
    <3>1. PICK x \in C : TRUE
      OBVIOUS
    <3>2. x.seq \in Nat /\ b + x.seq \in Nat
      BY <1>2
    <3>3. N \in SUBSET Nat /\ N # {}
      BY <2>7
    <3>4. \A n \in N : n <= b + x.seq
      BY <1>2, <1>3, <2>6, <2>7, <3>2
    <3> HIDE DEF N
    <3>5. PICK n \in N : \A m \in N : m <= n
      BY <3>2, <3>3, <3>4, LargestNatural
    <3>6. PICK e \in C \cup H : e.seq = n
      BY DEF N
    <3>7. \A g \in C \cup H : e.seq >= g.seq
      BY <2>7, <3>5, <3>6 DEF N
    <3> QED BY <3>7 DEF Newest
  <2>9. ASSUME NEW e \in Newest(C \cup H)
        PROVE  (e \in C \/ e \in Stored(v, tables, k)) /\ \A g \in C : e.seq >= g.seq
    <3>1. (e \in C \/ e \in H) /\ \A g \in C : e.seq >= g.seq
      BY DEF Newest
    <3>2. e \in H => e \in Stored(v, tables, k)
      BY <2>3 DEF Stored
    <3> QED BY <3>1, <3>2
  <2> QED BY <1>1, <1>5, <2>8, <2>9
<1> QED BY <1>4, <1>5

\* What the search through the levels of the version comes out with.
LEMMA LookupReaches ==
    ASSUME TreeTypes, memtable \in Contents, NEW v, Known(v), Orderly(v),
           VersionUpto(v, counter), Deleted(v), NEW k \in Keys, NEW C, OneSeq(C), NEW n \in Nat,
           lastDel[k] \in Nat, Reaches(C, k, n), C = {} => InVersion(v, k, n)
    PROVE  /\ Reaches(Lookup(v, tables, k, C), k, n)
           /\ Lookup(v, tables, k, C) = {} => n = 0
<1>1. \A e \in Stored(v, tables, k) : e.seq \in Nat /\ (e.type = "DELETE" => lastDel[k] >= e.seq)
  <2> SUFFICES ASSUME NEW e \in Stored(v, tables, k) PROVE e.seq \in Nat
    BY DEF Deleted
  <2>1. PICK l \in Levels : e \in Found(v, tables, l, k)
    BY FoundFiles
  <2>2. PICK m \in Range(v.levels[l]) : k \in DOMAIN tables[m.id] /\ e = tables[m.id][k]
    BY <2>1, FoundFiles
  <2> QED BY <2>2 DEF Orderly, Readable
<1>2. PICK R : R = Lookup(v, tables, k, C)
  OBVIOUS
<1>3. CASE C # {}
  <2>1. /\ R # {}
        /\ \A e \in R : /\ e \in C \/ e \in Stored(v, tables, k)
                        /\ \A g \in C : e.seq >= g.seq
    BY <1>2, <1>3, LookupKeeps
  <2>2. \A g \in C : g.seq \in Nat /\ g.seq >= n /\ (g.type = "DELETE" => lastDel[k] >= n)
    BY DEF OneSeq, Entry, Reaches
  <2>3. ASSUME NEW e \in R PROVE e.seq >= n /\ (e.type = "DELETE" => lastDel[k] >= n)
    <3>1. PICK g \in C : e.seq >= g.seq
      BY <1>3, <2>1
    <3>2. e \in C \/ e \in Stored(v, tables, k)
      BY <2>1
    <3>3. e.seq \in Nat /\ e.seq >= n
      BY <1>1, <2>2, <3>1, <3>2
    <3> QED BY <1>1, <2>2, <3>2, <3>3
  <2> QED BY <1>2, <2>1, <2>3 DEF Reaches
<1>4. CASE C = {}
  <2>1. R = Newest(Stored(v, tables, k))
    BY <1>2, <1>4, LookupStored DEF Known, Orderly
  <2>2. CASE n = 0
    <3>1. \A e \in R : e.seq >= 0 /\ lastDel[k] >= 0
      BY <1>1, <2>1 DEF Newest
    <3> QED BY <1>2, <2>2, <3>1 DEF Reaches
  <2>3. ASSUME NEW e \in Stored(v, tables, k), \A g \in Stored(v, tables, k) : NotOlder(e, g),
               Reaches({e}, k, n)
        PROVE  Reaches(R, k, n) /\ R # {}
    <3>1. \A g \in Stored(v, tables, k) : e.seq >= g.seq
      BY <1>1, <2>3 DEF NotOlder
    <3>2. e \in R
      BY <2>1, <3>1 DEF Newest
    <3>3. e.seq >= n
      BY <2>3 DEF Reaches
    <3>4. \A g \in R : g.seq >= n /\ (g.type = "DELETE" => lastDel[k] >= n)
      BY <1>1, <2>1, <3>3 DEF Newest
    <3> QED BY <3>2, <3>4 DEF Reaches
  <2> QED BY <1>2, <1>4, <2>2, <2>3 DEF InVersion
<1> QED BY <1>3, <1>4

\* Entries that are as new as a write answer for it.
LEMMA ReachesAnswers ==
    ASSUME NEW C, OneSeq(C), \A e \in C : e.type = "PUT", NEW k, NEW n \in Nat, Reaches(C, k, n),
           C = {} => n = 0 \/ lastDel[k] >= n
    PROVE  Answers(C, k, n)
<1>1. Visible(C) = C
  BY DEF Visible
<1>2. CASE C = {}
  BY <1>1, <1>2 DEF Answers
<1>3. ASSUME NEW e \in C PROVE Answers(C, k, n)
  <2>1. SeqOf(C) = e.seq /\ e.seq >= n
    BY SeqOfOne DEF Reaches
  <2> QED BY <1>1, <2>1 DEF Answers
<1> QED BY <1>2, <1>3

\* get() searches the levels of its version.
LEMMA SearchReads ==
    ASSUME Inv, VInv, ReadInv, NEW r \in Readers, GetSearch(r)
    PROVE  ReadInv'
<1>1. PICK R, found : /\ R = Lookup(rd[r].version, tables, rd[r].key, rd[r].cand)
                      /\ found = Visible(R)
  OBVIOUS
<1>2. /\ UNCHANGED <<memtable, immutable, cf, f, version, tables, counter, w, seq, acked, lastDel,
                     proc, disorder, lostWrite, tainted, cache>>
      /\ proc = "up" /\ rd[r].pc = "search"
      /\ rd' = [rd EXCEPT ![r].pc = IF found # {} /\ CacheSize > 0 THEN "fill" ELSE "done",
                          ![r].cand = found, ![r].version = EmptyVersion]
  BY <1>1 DEF GetSearch, memVars, fileVars, ackVars, raceVars, boundVars
<1>3. rd = [q \in Readers |-> rd[q]] /\ ReaderOk(rd[r]) /\ OnePlace(cache)
  BY DEF Inv, Types, ReaderTypes, ReadInv
<1>4. /\ rd'[r].pc \in {"fill", "done"} /\ rd'[r].key = rd[r].key /\ rd'[r].cand = found
      /\ rd'[r].gap = rd[r].gap
      /\ rd'[r].floor = rd[r].floor /\ rd'[r].overlap = rd[r].overlap
      /\ \A q \in Readers : q # r => rd'[q] = rd[q]
  BY <1>2, <1>3 DEF ReaderOk
<1>5. ASSUME ~disorder, ~lostWrite PROVE Reading(r)'
  <2>1. Begun(r) /\ rd[r].pc # "idle" /\ ReadSearch(r)
    BY <1>2, <1>5 DEF ReadInv, Reading
  <2>2. PICK k \in Keys, n0 \in Nat : k = rd[r].key /\ n0 = rd[r].floor /\ n0 <= acked[k]
    BY <2>1 DEF Begun
  <2>3. PICK C, v : C = rd[r].cand /\ v = rd[r].version
    OBVIOUS
  <2>4. /\ OneSeq(C) /\ Known(v) /\ Orderly(v) /\ VersionUpto(v, counter) /\ Deleted(v)
        /\ TreeTypes /\ memtable \in Contents /\ lastDel[k] \in Nat
    <3>1. OneSeq(C)
      BY <2>1, <2>3 DEF Begun
    <3>2. Known(v)
      BY <1>3, <2>3 DEF ReaderOk
    <3>3. Orderly(v) /\ VersionUpto(v, counter) /\ Deleted(v)
      BY <1>2, <2>1, <2>3 DEF ReadSearch
    <3>4. TreeTypes /\ memtable \in Contents /\ lastDel[k] \in Nat
      BY <1>2 DEF Inv, Types, MemoryTypes, VInv, Acks
    <3> QED BY <3>1, <3>2, <3>3, <3>4
  <2>5. OneSeq(found) /\ \A e \in found : e.type = "PUT"
    <3>1. C \in SUBSET Entry /\ Newest(C) = C
      <4>1. \A e \in C : e \in Entry /\ e.seq \in Nat
        BY <2>4 DEF OneSeq, Entry
      <4>2. \A e, g \in C : e.seq = g.seq
        BY <2>4 DEF OneSeq
      <4>3. \A e, g \in C : e.seq >= g.seq
        BY <4>1, <4>2
      <4> QED BY <4>1, <4>3 DEF Newest
    <3>2. \A id \in v.sstables : tables[id] \in Contents
      BY <2>4 DEF TreeTypes, Known
    <3>3. R = Lookup(v, tables, k, C)
      BY <1>1, <2>2, <2>3
    <3>4. OneSeq(Lookup(v, tables, k, Newest(C)))
      BY <3>1, <3>2, LookupOneSeq
    <3>5. OneSeq(R)
      BY <3>1, <3>3, <3>4
    <3> QED BY <1>1, <3>5 DEF OneSeq, Visible
  <2>6. ASSUME ~rd[r].gap, NEW n \in Goals(r)
        PROVE  n \in Nat /\ Reaches(found, k, n) /\ (found = {} => n = 0 \/ lastDel[k] >= n)
    <3>1. n \in Nat
      BY <1>2, <1>5, <2>1, GoalNumbers
    <3>2. Reaches(C, k, n) /\ (C = {} => InVersion(v, k, n))
      BY <1>2, <2>1, <2>2, <2>3, <2>6 DEF ReadSearch
    <3>3. R = Lookup(v, tables, k, C)
      BY <1>1, <2>2, <2>3
    <3>4. Reaches(R, k, n) /\ (R = {} => n = 0)
      <4>1. Reaches(Lookup(v, tables, k, C), k, n) /\ (Lookup(v, tables, k, C) = {} => n = 0)
        BY <2>4, <3>1, <3>2, LookupReaches
      <4> QED BY <3>3, <4>1
    <3>5. Reaches(found, k, n)
      BY <1>1, <3>4 DEF Reaches, Visible
    <3>6. ASSUME found = {}, NEW e \in R PROVE lastDel[k] >= n
      <4>1. e \in Entry
        <5>1. C \in SUBSET Entry
          BY <2>4 DEF OneSeq
        <5>2. e \in C \/ e \in Stored(v, tables, k)
          <6>1. CASE C # {}
            BY <2>4, <3>3, <3>6, <6>1, LookupKeeps
          <6>2. CASE C = {}
            BY <2>4, <3>3, <3>6, <6>2, LookupStored DEF Known, Orderly, Newest
          <6> QED BY <6>1, <6>2
        <5>3. CASE e \in Stored(v, tables, k)
          <6>1. PICK l \in Levels : e \in Found(v, tables, l, k)
            BY <5>3, FoundFiles
          <6>2. PICK m \in Range(v.levels[l]) : k \in DOMAIN tables[m.id] /\ e = tables[m.id][k]
            BY <6>1 DEF Found
          <6>3. m.id \in v.sstables
            BY <2>4 DEF Orderly, Readable
          <6>4. tables[m.id] \in Contents /\ e \in EntryOf(tables[m.id], k)
            BY <2>4, <6>2, <6>3 DEF TreeTypes, Known, EntryOf
          <6> QED BY <6>4, EntryOfContents
        <5> QED BY <5>1, <5>2, <5>3
      <4>2. e.type = "DELETE"
        BY <1>1, <3>6, <4>1 DEF Visible, Entry
      <4> QED BY <3>4, <4>2 DEF Reaches
    <3> QED BY <3>1, <3>4, <3>5, <3>6
  <2>7. Begun(r)'
    BY <1>2, <1>4, <2>2, <2>5 DEF Begun
  <2>8. Goals(r)' = Goals(r)
    <3>1. \A j : Due(j)' = Due(j)
      BY <1>2, ReaderState
    <3> QED BY <1>4, <3>1 DEF Goals
  <2>9. ReadFill(r)'
    <3>1. ASSUME ~rd'[r].gap, NEW n \in Goals(r)'
          PROVE  \A e \in found : e.seq >= n /\ (e.type = "DELETE" => lastDel'[k] >= n)
      BY <1>2, <1>4, <2>6, <2>8, <3>1 DEF Reaches
    <3> QED BY <1>4, <2>2, <2>5, <3>1 DEF ReadFill, Reaches
  <2>10. ReadDone(r)'
    <3> SUFFICES ASSUME ~rd[r].gap PROVE Answers(found, k, n0)'
      BY <1>4, <2>2 DEF ReadDone, Answers
    <3>1. n0 \in Goals(r)
      BY <2>2 DEF Goals
    <3>2. Answers(found, k, n0)
      BY <2>5, <2>6, <3>1, ReachesAnswers
    <3> QED BY <1>2, <3>2, ReaderState
  <2> QED BY <1>4, <2>7, <2>9, <2>10 DEF Reading, ReadImm, ReadVersion, ReadSearch
<1>6. ASSUME ~disorder, ~lostWrite, NEW node \in Range(cache'), node.key \notin tainted'
      PROVE  UpToDate(node)
  BY <1>2, <1>6 DEF ReadInv, CacheOk
<1>7. OnePlace(cache')
  BY <1>2, <1>3
<1> QED BY <1>2, <1>4, <1>5, <1>6, <1>7, ReaderStep

\* get() finds a file gone.
LEMMA ThrowReads ==
    ASSUME Inv, VInv, ReadInv, NEW r \in Readers, GetThrow(r)
    PROVE  ReadInv'
<1>1. /\ UNCHANGED <<memtable, immutable, cf, f, version, tables, counter, w, seq, acked, lastDel,
                     proc, disorder, lostWrite, tainted, cache>>
      /\ proc = "up" /\ rd[r].pc = "search"
      /\ rd' = [rd EXCEPT ![r].pc = "threw", ![r].version = EmptyVersion]
  BY DEF GetThrow, memVars, fileVars, ackVars, raceVars, boundVars
<1>2. rd = [q \in Readers |-> rd[q]] /\ ReaderOk(rd[r]) /\ OnePlace(cache)
  BY DEF Inv, Types, ReaderTypes, ReadInv
<1>3. /\ rd'[r].pc = "threw" /\ rd'[r].key = rd[r].key /\ rd'[r].cand = rd[r].cand
      /\ rd'[r].floor = rd[r].floor
      /\ \A q \in Readers : q # r => rd'[q] = rd[q]
  BY <1>1, <1>2 DEF ReaderOk
<1>4. ASSUME ~disorder, ~lostWrite PROVE Reading(r)'
  <2>1. Begun(r)
    BY <1>4 DEF ReadInv, Reading
  <2>2. Begun(r)'
    BY <1>1, <1>3, <2>1 DEF Begun
  <2> QED BY <1>3, <2>2 DEF Reading, ReadImm, ReadVersion, ReadSearch, ReadFill, ReadDone
<1>5. ASSUME ~disorder, ~lostWrite, NEW node \in Range(cache'), node.key \notin tainted'
      PROVE  UpToDate(node)
  BY <1>1, <1>5 DEF ReadInv, CacheOk
<1>6. OnePlace(cache')
  BY <1>1, <1>2
<1> QED BY <1>1, <1>3, <1>4, <1>5, <1>6, ReaderStep

\* get() puts what it has found in the cache.
LEMMA FillReads ==
    ASSUME Inv, VInv, ReadInv, NEW r \in Readers, GetFill(r)
    PROVE  ReadInv'
<1>1. /\ UNCHANGED <<memtable, immutable, cf, f, version, tables, counter, w, seq, acked, lastDel,
                     proc, disorder, lostWrite>>
      /\ proc = "up" /\ rd[r].pc = "fill"
      /\ tainted' = IF rd[r].gap \/ rd[r].overlap THEN tainted \cup {rd[r].key}
                                                  ELSE tainted \ {rd[r].key}
      /\ rd' = [rd EXCEPT ![r].pc = "done"]
  BY DEF GetFill, memVars, fileVars, ackVars, boundVars
<1>2. PICK e \in rd[r].cand : cache' = CachePut(cache, rd[r].key, e, CacheSize)
  BY DEF GetFill
<1>3. /\ cache \in Seq(Node) /\ rd = [q \in Readers |-> rd[q]] /\ ReaderOk(rd[r])
      /\ OnePlace(cache)
  BY DEF Inv, Types, ReaderTypes, ReadInv
<1>4. rd[r].key \in Nat /\ e \in Entry /\ CacheSize > 0
  BY <1>1, <1>3 DEF ReaderOk
<1>5. /\ OnePlace(cache')
      /\ \A x \in Range(cache') :
             x = [key |-> rd[r].key, entry |-> e] \/ (x \in Range(cache) /\ x.key # rd[r].key)
  <2>1. PICK j \in Nat : j = rd[r].key
    BY <1>4
  <2> QED BY <1>2, <1>3, <1>4, <2>1, CacheNodes
<1>6. /\ rd'[r].pc = "done" /\ rd'[r].key = rd[r].key /\ rd'[r].cand = rd[r].cand
      /\ rd'[r].floor = rd[r].floor /\ rd'[r].gap = rd[r].gap
      /\ \A q \in Readers : q # r => rd'[q] = rd[q]
  BY <1>1, <1>3 DEF ReaderOk
<1>7. ASSUME ~disorder, ~lostWrite
      PROVE  /\ Reading(r)'
             /\ \A x \in Range(cache') : x.key \notin tainted' => UpToDate(x)
  <2>1. Begun(r) /\ rd[r].pc # "idle" /\ ReadFill(r)
    BY <1>1, <1>7 DEF ReadInv, Reading
  <2>2. PICK k \in Keys, n0 \in Nat : k = rd[r].key /\ n0 = rd[r].floor /\ n0 <= acked[k]
    BY <2>1 DEF Begun
  <2>3. PICK C : C = rd[r].cand
    OBVIOUS
  <2>4. OneSeq(C) /\ (\A g \in C : g.type = "PUT") /\ e \in C
    BY <1>1, <1>2, <2>1, <2>3 DEF Begun, ReadFill
  <2>5. ~rd[r].gap => \A n \in Goals(r) : Reaches(C, k, n)
    BY <1>1, <2>1, <2>2, <2>3 DEF ReadFill
  <2>6. n0 \in Goals(r)
    BY <2>2 DEF Goals
  <2>7. Begun(r)'
    BY <1>1, <1>6, <2>2, <2>3, <2>4 DEF Begun
  <2>8. ReadDone(r)'
    <3> SUFFICES ASSUME ~rd[r].gap PROVE Answers(C, k, n0)'
      BY <1>6, <2>2, <2>3 DEF ReadDone, Answers
    <3>1. Answers(C, k, n0)
      BY <2>4, <2>5, <2>6, ReachesAnswers
    <3> QED BY <1>1, <3>1, ReaderState
  <2>9. Reading(r)'
    BY <1>6, <2>7, <2>8 DEF Reading, ReadImm, ReadVersion, ReadSearch, ReadFill
  <2>10. ASSUME NEW x \in Range(cache'), x.key \notin tainted' PROVE UpToDate(x)
    <3>1. CASE x \in Range(cache) /\ x.key # rd[r].key
      <4>1. x.key \notin tainted
        BY <1>1, <2>10, <3>1
      <4> QED BY <1>7, <3>1, <4>1 DEF ReadInv, CacheOk
    <3>2. CASE x = [key |-> k, entry |-> e]
      <4>1. ~rd[r].gap /\ ~rd[r].overlap
        BY <1>1, <2>2, <2>10, <3>2
      <4>2. Goals(r) = {n0} \cup {n \in Due(k) : n >= n0}
        BY <2>2, <4>1 DEF Goals
      <4>3. \A n \in Goals(r) : e.seq >= n
        BY <2>4, <2>5, <4>1 DEF Reaches
      <4>4. acked[k] \in Due(k) /\ \A n \in Due(k) : n \in Nat
        BY <1>1, <1>7, <2>1, <2>2, GoalNumbers
      <4>5. e.seq \in Nat /\ e.seq >= acked[k] /\ e.seq >= n0
        BY <1>4, <2>2, <4>2, <4>3, <4>4 DEF Entry
      <4>6. \A n \in Due(k) : e.seq >= n
        BY <2>2, <4>2, <4>3, <4>4, <4>5
      <4>7. x.key = k /\ x.entry = e /\ e.type = "PUT"
        BY <2>4, <3>2
      <4> QED BY <4>5, <4>6, <4>7 DEF UpToDate
    <3> QED BY <1>5, <2>2, <3>1, <3>2
  <2> QED BY <2>9, <2>10
<1> QED BY <1>1, <1>5, <1>6, <1>7, ReaderStep

\* Every number is that of one of the entries, if there is one.
LEMMA SeqOfSome ==
    ASSUME NEW T, \A e \in T : e.seq \in Nat, SeqOf(T) \in Nat, \A e \in T : SeqOf(T) >= e.seq
    PROVE  SeqOf(T) = 0 \/ \E e \in T : SeqOf(T) = e.seq
<1> DEFINE S == {0} \cup {e.seq : e \in T}
<1>1. PICK b \in Nat : b = SeqOf(T)
  OBVIOUS
<1>2. S \in SUBSET Nat /\ S # {} /\ \A n \in S : n <= b
  BY <1>1
<1>3. SeqOf(T) = Max(S)
  BY DEF SeqOf
<1> HIDE DEF S
<1>4. Max(S) \in S
  BY <1>1, <1>2, MaxNat
<1> QED BY <1>3, <1>4 DEF S

\* The deletes that the constructor knows of are those it recovers.
LEMMA RestartDeletes ==
    ASSUME Inv, Inv', CrashRestart, proc' = "up", VInv', ~disorder'
    PROVE  Tombstones'
<1>1. /\ UNCHANGED <<tables, files, levelsFile>> /\ w' = WriterStart
      /\ disorder' = (disorder \/ \E id \in version'.sstables : Misplaced(id)')
      /\ lastDel' = [k \in Keys |->
             SeqOf({e \in EntryOf(memtable', k) \cup InFiles(version'.sstables, k) :
                        e.type = "DELETE"})]
  BY DEF CrashRestart, fileVars
<1>2. PICK levels : Read(levels)
  BY DEF CrashRestart, Read
<1>3. /\ 1 <= seq' /\ seq' \in Nat /\ memtable' \in Contents
      /\ \A k \in DOMAIN memtable' : memtable'[k].seq < seq'
  BY <1>2, RestartFinds
<1>4. TreeTypes' /\ VersionUpto(version', counter')
  BY DEF Inv, Types, TreeInv, Numbers
<1>5. NextSeq' = seq'
  BY <1>1 DEF NextSeq, WriterStart
<1>6. Orderly(version)' /\ \A id \in version'.sstables : ~Misplaced(id)'
  BY <1>1 DEF VInv, InOrder, TreeOrder, Orderly
<1>7. ASSUME NEW k \in Keys
      PROVE  /\ lastDel'[k] < seq'
             /\ \A id \in version'.sstables : \A e \in EntryOf(tables'[id], k) :
                    e.type = "DELETE" => lastDel'[k] >= e.seq
  <2>1. PICK T : T = {e \in EntryOf(memtable', k) \cup UNION {EntryOf(tables'[id], k) :
                                                id \in version'.sstables} : e.type = "DELETE"}
    OBVIOUS
  <2>2. lastDel'[k] = SeqOf(T)
    BY <1>1, <2>1 DEF InFiles
  <2>3. SeqOf(T) \in Nat /\ \A e \in T : SeqOf(T) >= e.seq
    <3>0. counter' \in Nat /\ version'.sstables \in SUBSET Nat
      BY <1>4 DEF TreeTypes, Known, Versions
    <3>a. PICK b \in Nat : b = counter'
      BY <3>0
    <3>b. PICK ids \in SUBSET Nat : ids = version'.sstables
      BY <3>0
    <3>c. PICK tb : tb = tables'
      OBVIOUS
    <3>d. PICK t \in Contents : t = memtable'
      BY <1>3
    <3>1. b = counter' /\ ids = version'.sstables /\ tb = tables' /\ t = memtable'
      BY <3>a, <3>b, <3>c, <3>d
    <3>2. \A id \in ids : id <= b /\ tb[id] \in Contents
      BY <1>4, <3>1 DEF VersionUpto, TreeTypes, Known
    <3>3. \A e \in T : e \in EntryOf(t, k) \/ \E id \in ids : e \in EntryOf(tb[id], k)
      BY <2>1, <3>1
    <3> QED BY <3>2, <3>3, RecoveredDeletes
  <2>4. ASSUME NEW e \in T PROVE e.seq \in Nat /\ e.seq < seq'
    <3>1. CASE e \in EntryOf(memtable', k)
      <4>1. e \in Entry /\ k \in DOMAIN memtable' /\ e = memtable'[k]
        BY <1>3, <3>1, EntryOfContents DEF EntryOf
      <4> QED BY <1>3, <4>1 DEF Entry
    <3>2. ASSUME NEW id \in version'.sstables, e \in EntryOf(tables'[id], k)
          PROVE  e.seq \in Nat /\ e.seq < seq'
      <4>1. tables'[id] \in Contents
        BY <1>4 DEF TreeTypes, Known
      <4>2. e \in Entry /\ k \in DOMAIN tables'[id] /\ e = tables'[id][k]
        BY <3>2, <4>1, EntryOfContents DEF EntryOf
      <4>3. ~(tables'[id][k].seq >= seq')
        BY <1>6, <4>2 DEF Misplaced
      <4> QED BY <1>3, <4>2, <4>3 DEF Entry
    <3> QED BY <2>1, <3>1, <3>2
  <2>5. SeqOf(T) < seq'
    <3>1. SeqOf(T) = 0 \/ \E e \in T : SeqOf(T) = e.seq
      BY <2>3, <2>4, SeqOfSome
    <3> QED BY <1>3, <2>4, <3>1
  <2>6. \A id \in version'.sstables : \A e \in EntryOf(tables'[id], k) :
            e.type = "DELETE" => e \in T
    BY <2>1
  <2> QED BY <2>2, <2>3, <2>5, <2>6
<1>8. Deleted(version)'
  <2> SUFFICES ASSUME NEW k \in Keys, NEW e \in Stored(version', tables', k), e.type = "DELETE"
               PROVE  lastDel'[k] >= e.seq
    BY DEF Deleted
  <2>1. PICK l \in Levels : e \in Found(version', tables', l, k)
    BY FoundFiles
  <2>2. PICK m \in Range(version'.levels[l]) : k \in DOMAIN tables'[m.id] /\ e = tables'[m.id][k]
    BY <2>1 DEF Found
  <2>3. m.id \in version'.sstables
    BY <1>6 DEF Orderly, Readable
  <2> QED BY <1>7, <2>2, <2>3 DEF EntryOf
<1> QED BY <1>5, <1>7, <1>8 DEF Tombstones, Deleted

\* The process dies and is started again: no get() is under way, nothing is cached.
LEMMA RestartReads ==
    ASSUME Inv, Inv', CrashRestart, VInv'
    PROVE  ReadInv'
<1>1. cache' = CacheClear /\ rd' = ReadersStart
  BY DEF CrashRestart
<1>2. Range(cache') = {} /\ OnePlace(cache')
  BY <1>1 DEF CacheClear, Range, OnePlace
<1>3. \A r \in Readers : Reading(r)'
  BY <1>1 DEF ReadersStart, Reading, Begun, ReadImm, ReadVersion, ReadSearch, ReadFill, ReadDone
<1> QED BY <1>2, <1>3, RestartDeletes DEF ReadInv, CacheOk

\* A thread that throws ends the process and changes nothing else.
LEMMA StopReads ==
    ASSUME ReadInv, CompactThrow \/ UNCHANGED vars
    PROVE  ReadInv'
<1>1. /\ UNCHANGED <<memtable, immutable, cf, f, version, tables, counter, w, seq, acked,
                     lastDel, rd, cache, tainted, disorder, lostWrite>>
      /\ proc' = proc \/ proc' = "failed"
  BY DEF CompactThrow, vars, memVars, fileVars, readVars, ackVars, raceVars, boundVars
<1>2. OnePlace(cache')
  BY <1>1 DEF ReadInv
<1>3. SUFFICES ASSUME ~disorder, ~lostWrite
               PROVE  /\ proc' = "up" => Tombstones'
                      /\ CacheOk' /\ \A r \in Readers : Reading(r)'
  BY <1>1, <1>2 DEF ReadInv
<1>4. (\A k : Due(k)' = Due(k) /\ (Writing(k)' <=> Writing(k))) /\ (Tombstones' <=> Tombstones)
  BY <1>1, ReaderState
<1>5. proc' = "up" => Tombstones'
  BY <1>1, <1>3, <1>4 DEF ReadInv
<1>6. CacheOk'
  <2> SUFFICES ASSUME NEW x \in Range(cache'), x.key \notin tainted' PROVE UpToDate(x)'
    BY DEF CacheOk
  <2>1. UpToDate(x)
    BY <1>1, <1>3 DEF ReadInv, CacheOk
  <2> QED BY <1>1, <1>4, <2>1 DEF UpToDate
<1>7. ASSUME NEW r \in Readers PROVE Reading(r)'
  <2>1. Reading(r) /\ rd'[r] = rd[r]
    BY <1>1, <1>3 DEF ReadInv
  <2> QED BY <1>1, <2>1, SameReading
<1> QED BY <1>5, <1>6, <1>7

-----------------------------------------------------------------------------
(* The theorems about what get() returns.                                  *)

\* At the start nothing is read and nothing cached.
LEMMA InitReads == Init => ReadInv
<1> SUFFICES ASSUME Init PROVE ReadInv
  OBVIOUS
<1>1. /\ cache = CacheClear /\ rd = ReadersStart /\ version = EmptyVersion
      /\ w = WriterStart /\ seq = 1 /\ lastDel = [k \in Keys |-> 0]
  BY DEF Init
<1>2. Range(cache) = {} /\ OnePlace(cache)
  BY <1>1 DEF CacheClear, Range, OnePlace
<1>3. \A r \in Readers : Reading(r)
  BY <1>1 DEF ReadersStart, Reading, Begun, ReadImm, ReadVersion, ReadSearch, ReadFill, ReadDone
<1>4. Deleted(version)
  BY <1>1, EmptyKnown DEF Deleted, Stored, Found, EmptyVersion, Range
<1>5. \A k \in Keys : lastDel[k] < NextSeq
  BY <1>1 DEF NextSeq, WriterStart
<1> QED BY <1>2, <1>3, <1>4, <1>5 DEF ReadInv, CacheOk, Tombstones

\* What a get() under way has passed by holds no newer write than what lies ahead
\* of it, and no cached entry that is not tainted is older than the write that
\* was answered last, in every step of the writer, of flush(), of the flush
\* thread, of the compaction thread and of other get() calls (get,
\* writerThreadLoop, checkFlush, flushThreadLoop, compactL0toL1, compactlevelN).
THEOREM ReadInvCorrect == Spec => []ReadInv
<1>1. Inv /\ Inv' /\ VInv /\ VInv' /\ ReadInv /\ [Next]_vars => ReadInv'
  <2> SUFFICES ASSUME Inv, Inv', VInv, VInv', ReadInv, [Next]_vars PROVE ReadInv'
    OBVIOUS
  <2>1. CASE WalSwap \/ WalPublish
    BY <2>1, IdleStepReads
  <2>2. CASE WriterPop \/ WriterStep
    BY <2>2, WriterReads, WriterApplyReads, WriterAckReads DEF WriterStep
  <2>3. CASE \E t \in Flushers : FlushCall(t)
    <3>1. Flushers \subseteq Callers
      BY DEF Callers
    <3> QED BY <2>3, <3>1, CallerReads
  <2>4. CASE \E t \in Callers : CheckFlush(t)
    BY <2>4, CallerReads, IdleStepReads, ClearReads, StoreReads DEF CheckFlush
  <2>5. CASE SaveMetadata
    BY <2>5, IdleStepReads
  <2>6. CASE FlushThread
    BY <2>6, IdleStepReads, FlushInstallReads DEF FlushThread
  <2>7. CASE CompactionThread
    BY <2>7, IdleStepReads, CompactInstallReads, StopReads DEF CompactionThread
  <2>8. CASE \E r \in Readers, k \in Keys : GetBegin(r, k)
    BY <2>8, BeginReads
  <2>9. CASE \E r \in Readers : Get(r)
    BY <2>9, MemtableReads, ImmutableReads, VersionReads, SearchReads, ThrowReads, FillReads
       DEF Get
  <2>10. CASE CrashRestart
    BY <2>10, RestartReads
  <2>11. CASE UNCHANGED vars
    BY <2>11, StopReads
  <2> QED BY <2>1, <2>2, <2>3, <2>4, <2>5, <2>6, <2>7, <2>8, <2>9, <2>10, <2>11 DEF Next
<1> QED BY <1>1, InitReads, InvCorrect, VInvCorrect, PTL DEF Spec

\* get() never returns a value older than the last one answered before it began,
\* although it reads the memtable, the immutable memtable, the version and the
\* files one after the other, unless it overlaps a hand-over or one of the races
\* that NothingLost names has happened (Engine::get).
THEOREM ReadsFreshCorrect == Spec => []ReadsFresh
<1>1. ReadInv => ReadsFresh
  BY DEF ReadInv, Reading, ReadDone, ReadsFresh
<1> QED BY <1>1, ReadInvCorrect, PTL

\* A cached entry is as new as the last answered write of its key, unless a get()
\* that overlapped a write of the key or a hand-over has put it there: what the
\* writer invalidates is not brought back (LRUCache::put, Engine::get).
THEOREM CacheCurrentCorrect == Spec => []CacheCurrent
<1>1. Inv /\ ReadInv => CacheCurrent
  <2> SUFFICES ASSUME Inv, ReadInv, ~disorder, ~lostWrite, NEW i \in DOMAIN cache,
                      cache[i].key \notin tainted
               PROVE  Answers({cache[i].entry}, cache[i].key, acked[cache[i].key])
    BY DEF CacheCurrent
  <2>1. cache \in Seq(Node)
    BY DEF Inv, Types, ReaderTypes
  <2>2. PICK x : x = cache[i]
    OBVIOUS
  <2>3. x \in Range(cache) /\ x \in Node
    BY <2>1, <2>2 DEF Range
  <2>4. UpToDate(x)
    BY <2>2, <2>3 DEF ReadInv, CacheOk
  <2>5. PICK C, k : C = {x.entry} /\ k = x.key
    OBVIOUS
  <2>6. OneSeq(C) /\ x.entry \in C
    BY <2>3, <2>5 DEF OneSeq, Node
  <2>7. SeqOf(C) = x.entry.seq /\ Visible(C) # {}
    BY <2>4, <2>6, SeqOfOne DEF UpToDate, Visible
  <2>8. Answers(C, k, acked[k])
    BY <2>4, <2>5, <2>7 DEF UpToDate, Answers
  <2> QED BY <2>2, <2>5, <2>8
<1> QED BY <1>1, InvCorrect, ReadInvCorrect, PTL

=============================================================================
