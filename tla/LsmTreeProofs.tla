--------------------------- MODULE LsmTreeProofs ---------------------------
(* Theorems about LsmTree, for any keys, limits and bounds.                *)
EXTENDS LsmTree, TablesProofs

Records == [key : Keys, seq : Nat, type : {"PUT", "DELETE"}]

\* The type of every variable.
Types ==
    /\ IsTable(memtable, Keys)
    /\ \A t \in immutable : IsTable(t, Keys) /\ immutable = {t}
    /\ flushDue \in BOOLEAN /\ linked \in BOOLEAN
    /\ version \in Versions(Metas)
    /\ \A id \in DOMAIN tables : id \in Nat /\ id <= counter /\ IsTable(tables[id], Keys)
    /\ seq \in Nat /\ counter \in Nat
    /\ log \in Seq(Records)
    /\ dels \in Nat /\ flushes \in Nat /\ reopens \in Nat

\* Every file of a level is loaded and its table known.
Files ==
    /\ version.sstables \subseteq DOMAIN tables
    /\ \A l \in Levels : \A m \in Range(version.levels[l]) :
           m.id \in version.sstables /\ Describes(m, tables[m.id])

\* Every entry of the tables ts was written before write number n.
TablesBefore(ts, n) == \A id \in DOMAIN ts : \A k \in DOMAIN ts[id] : ts[id][k].seq < n

\* metadata.txt and levels.txt are those of the current version, and the saved
\* seq_number_ is beyond all that the tables hold.
Saved ==
    \/ /\ saved = {} /\ version = EmptyVersion
       /\ DOMAIN tables = {} /\ counter = 0
    \/ \E n \in 0..seq :
           /\ saved = {[counter |-> counter, seq |-> n, levels |-> version.levels]}
           /\ TablesBefore(tables, n)

\* Writes move from the memtable to the immutable one and from there to tables
\* in the order in which they were made; the log has only what is in the
\* memtable, and nothing after a hand-over.
Recency ==
    /\ \A k \in DOMAIN memtable : memtable[k].seq < seq /\ TablesBefore(tables, memtable[k].seq)
    /\ \A t \in immutable : \A k \in DOMAIN t :
           /\ t[k].seq < seq /\ TablesBefore(tables, t[k].seq)
           /\ \A j \in DOMAIN memtable : t[k].seq < memtable[j].seq
    /\ \A r \in Range(log) : r.seq < seq /\ TablesBefore(tables, r.seq)
    /\ linked => immutable = {}
    /\ ~linked => log = <<>>

Inv == Types /\ Files /\ Saved /\ Recency /\ LevelsStaySorted /\ LevelsInOrder

-----------------------------------------------------------------------------
(* The operations that leave the tables alone.                             *)

\* The tree is the same, and so are version and files.
LEMMA TreeSame ==
    ASSUME Inv, UNCHANGED treeVars, seq' \in Nat, seq <= seq'
    PROVE  /\ Files' /\ Saved' /\ LevelsStaySorted' /\ LevelsInOrder'
           /\ tables' = tables
<1>1. UNCHANGED <<version, tables, counter, saved>>
  BY DEF treeVars
<1>2. Files' /\ LevelsStaySorted' /\ LevelsInOrder'
  BY <1>1 DEF Inv, Files, LevelsStaySorted, LevelsInOrder
<1>4. Saved'
  BY <1>1 DEF Inv, Saved, Types
<1> QED BY <1>1, <1>2, <1>4

\* A record of the log.
LEMMA LogRecord ==
    ASSUME Inv
    PROVE  \A x \in Range(log) : x.seq \in Nat /\ x \in Records
<1>1. log \in Seq(Records)
  BY DEF Inv, Types
<1>2. \A i \in DOMAIN log : log[i] \in Records
  BY <1>1
<1>3. \A r \in Records : r.seq \in Nat
  BY DEF Records
<1> QED BY <1>2, <1>3 DEF Range

\* put and del
LEMMA WriteStep ==
    ASSUME Inv, NEW k \in Keys, NEW type \in {"PUT", "DELETE"}, Write(k, type),
           dels' \in Nat
    PROVE  Inv'
<1> DEFINE e == [seq |-> seq, type |-> type]
           r == [key |-> k, seq |-> seq, type |-> type]
<1>1. e \in Entry /\ r \in Records /\ seq \in Nat
  BY DEF Inv, Types, Entry, Records
<1>2. /\ memtable' = PutEntry(memtable, k, e) /\ seq' = seq + 1
      /\ UNCHANGED <<immutable, treeVars, linked, flushes, reopens>>
      /\ flushDue' \in BOOLEAN
      /\ log' = IF linked THEN Append(log, r) ELSE log
  BY DEF Write
<1>3. /\ IsTable(memtable', Keys)
      /\ DOMAIN memtable' = DOMAIN memtable \cup {k} /\ memtable'[k] = e
      /\ \A j \in DOMAIN memtable \ {k} : memtable'[j] = memtable[j]
  <2>1. IsTable(memtable, Keys)
    BY DEF Inv, Types
  <2>2. e \in Entry
    BY <1>1
  <2> HIDE DEF e
  <2> DEFINE u == PutEntry(memtable, k, e)
  <2>3. /\ IsTable(u, Keys)
        /\ DOMAIN u = DOMAIN memtable \cup {k} /\ u[k] = e
        /\ \A j \in DOMAIN memtable \ {k} : u[j] = memtable[j]
    BY <2>1, <2>2 DEF PutEntry, With, IsTable
  <2> QED BY <1>2, <2>3
<1>4. log' \in Seq(Records) /\ \A x \in Range(log') : x \in Range(log) \/ (linked /\ x = r)
  <2>1. log \in Seq(Records)
    BY DEF Inv, Types
  <2>2. Range(Append(log, r)) = Range(log) \cup {r}
    BY <1>1, <2>1, AppendRange
  <2> HIDE DEF r
  <2> QED BY <1>1, <1>2, <2>1, <2>2
<1>5. /\ Files' /\ Saved' /\ LevelsStaySorted' /\ LevelsInOrder'
      /\ tables' = tables
  BY <1>1, <1>2, TreeSame
<1>6. Types'
  BY <1>1, <1>2, <1>3, <1>4 DEF Inv, Types, treeVars
<1>7. TablesBefore(tables, seq)
  <2>1. CASE DOMAIN tables = {}
    BY <2>1 DEF TablesBefore
  <2>2. CASE \E n \in 0..seq : TablesBefore(tables, n)
    BY <2>2, <1>1 DEF Inv, Types, TablesBefore, IsTable, Entry
  <2> QED BY <2>1, <2>2 DEF Inv, Saved
<1>8. Recency'
  <2>1. \A j \in DOMAIN memtable' : memtable'[j].seq < seq' /\ TablesBefore(tables', memtable'[j].seq)
    <3> TAKE j \in DOMAIN memtable'
    <3>1. CASE j = k
      BY <3>1, <1>1, <1>2, <1>3, <1>5, <1>7
    <3>2. CASE j # k
      <4>1. j \in DOMAIN memtable /\ memtable'[j] = memtable[j] /\ memtable[j].seq \in Nat
        BY <3>2, <1>3 DEF Inv, Types, IsTable, Entry
      <4> QED BY <4>1, <1>1, <1>2, <1>5 DEF Inv, Recency
    <3> QED BY <3>1, <3>2
  <2>2. \A t \in immutable' : \A i \in DOMAIN t :
            /\ t[i].seq < seq' /\ TablesBefore(tables', t[i].seq)
            /\ \A j \in DOMAIN memtable' : t[i].seq < memtable'[j].seq
    <3> TAKE t \in immutable'
    <3> TAKE i \in DOMAIN t
    <3>1. t \in immutable /\ t[i].seq \in Nat
      BY <1>2 DEF Inv, Types, IsTable, Entry
    <3>2. t[i].seq < seq /\ TablesBefore(tables, t[i].seq)
          /\ \A j \in DOMAIN memtable : t[i].seq < memtable[j].seq
      BY <3>1 DEF Inv, Recency
    <3> QED BY <3>1, <3>2, <1>1, <1>2, <1>3, <1>5
  <2>3. \A x \in Range(log') : x.seq < seq' /\ TablesBefore(tables', x.seq)
    <3> TAKE x \in Range(log')
    <3>1. CASE x = r
      BY <3>1, <1>1, <1>2, <1>5, <1>7
    <3>2. CASE x \in Range(log)
      <4>1. x.seq < seq /\ TablesBefore(tables, x.seq)
        BY <3>2 DEF Inv, Recency
      <4>2. x.seq \in Nat
        BY <3>2, LogRecord
      <4> QED BY <4>1, <4>2, <1>1, <1>2, <1>5
    <3> QED BY <3>1, <3>2, <1>4
  <2>4. (linked' => immutable' = {}) /\ (~linked' => log' = <<>>)
    BY <1>2 DEF Inv, Recency
  <2> QED BY <2>1, <2>2, <2>3, <2>4 DEF Recency
<1> QED BY <1>5, <1>6, <1>8 DEF Inv

\* checkFlush, in the writer or in a client
LEMMA HandOverStep ==
    ASSUME Inv, HandOver, flushDue' \in BOOLEAN, flushes' \in Nat
    PROVE  Inv'
<1>1. /\ immutable = {} /\ immutable' = {memtable} /\ memtable' = EmptyTable
      /\ log' = <<>> /\ linked' = FALSE
      /\ UNCHANGED <<treeVars, seq, dels, reopens>>
  BY DEF HandOver
<1>2. seq \in Nat
  BY DEF Inv, Types
<1>3. /\ Files' /\ Saved' /\ LevelsStaySorted' /\ LevelsInOrder'
      /\ tables' = tables
  BY <1>1, <1>2, TreeSame
<1>4. IsTable(memtable', Keys) /\ DOMAIN memtable' = {}
  BY <1>1, EmptyIsTable
<1>5. Types'
  <2>1. \A t \in immutable' : IsTable(t, Keys) /\ immutable' = {t}
    BY <1>1 DEF Inv, Types
  <2>2. UNCHANGED <<version, tables, counter, seq, dels, reopens>>
    BY <1>1 DEF treeVars
  <2>3. log' \in Seq(Records) /\ linked' \in BOOLEAN
    <3>1. log' \in Seq(Records)
      BY <1>1
    <3>2. linked' \in BOOLEAN
      BY <1>1
    <3> QED BY <3>1, <3>2
  <2> QED BY <1>4, <2>1, <2>2, <2>3 DEF Inv, Types
<1>6. Recency'
  BY <1>1, <1>3, <1>4 DEF Inv, Recency, Range
<1> QED BY <1>3, <1>5, <1>6 DEF Inv

-----------------------------------------------------------------------------
(* New tables.                                                             *)

\* The metadata of a new file.
LEMMA NewMeta ==
    ASSUME NEW id \in Nat, NEW l \in Levels, NEW t, IsTable(t, Keys), t # EmptyTable
    PROVE  LET m == MetaOf(id, l, t)
           IN  m \in Metas /\ m.id = id /\ m.level = l /\ Describes(m, t)
<1> DEFINE m == MetaOf(id, l, t)
<1>1. Keys \in SUBSET Nat /\ IsFiniteSet(Keys)
  BY LsmAssumption
<1>2. DOMAIN t # {}
  BY NotEmptyTable
<1>3. /\ m = [id |-> id, level |-> l, minKey |-> m.minKey,
              maxKey |-> m.maxKey, size |-> m.size]
      /\ m.minKey \in DOMAIN t /\ m.maxKey \in DOMAIN t /\ m.size \in Nat
      /\ Bounded(m)
      /\ \A k \in DOMAIN t : m.minKey <= k /\ k <= m.maxKey
  BY <1>1, <1>2, MetaOfTable
<1> HIDE DEF m
<1>4. m.minKey \in Keys /\ m.maxKey \in Keys
  BY <1>3 DEF IsTable
<1>5. m \in Metas /\ m.id = id /\ m.level = l
  <2>1. [id |-> id, level |-> l, minKey |-> m.minKey,
         maxKey |-> m.maxKey, size |-> m.size] \in Metas
    BY <1>3, <1>4 DEF Metas
  <2> QED BY <1>3, <2>1
<1>6. Describes(m, t)
  BY <1>3 DEF Describes, Bounded
<1> QED BY <1>5, <1>6 DEF m

\* A file of a level is loaded and its metadata sound.
LEMMA MetasBounded ==
    ASSUME Inv, NEW l \in Levels, NEW m \in Range(version.levels[l])
    PROVE  m \in Metas /\ Bounded(m) /\ m.id \in DOMAIN tables /\ m.id \in version.sstables
<1>1. version.levels[l] \in Seq(Metas)
  BY DEF Inv, Types, Versions
<1>2. m \in Metas
  BY <1>1 DEF Range
<1>3. m.minKey \in Nat /\ m.maxKey \in Nat
  BY <1>2, LsmAssumption DEF Metas
<1>4. m.minKey <= m.maxKey /\ m.id \in version.sstables /\ m.id \in DOMAIN tables
  BY DEF Inv, Files, Describes
<1> QED BY <1>2, <1>3, <1>4 DEF Bounded

\* A table written from the entries of others, or from a memtable, under a new
\* number; of the old numbers only some are kept.
LEMMA TablesReplaced ==
    ASSUME Inv, NEW t, IsTable(t, Keys), NEW kept \in SUBSET DOMAIN tables,
           counter' = counter + 1,
           tables' = With(Restrict(tables, kept), counter + 1, t)
    PROVE  /\ DOMAIN tables' = kept \cup {counter + 1}
           /\ tables'[counter + 1] = t
           /\ counter + 1 \notin DOMAIN tables
           /\ \A id \in kept : tables'[id] = tables[id]
           /\ \A id \in DOMAIN tables' :
                  id \in Nat /\ id <= counter' /\ IsTable(tables'[id], Keys)
<1>1. counter \in Nat /\ \A id \in DOMAIN tables :
                             id \in Nat /\ id <= counter /\ IsTable(tables[id], Keys)
  BY DEF Inv, Types
<1>2. counter + 1 \notin DOMAIN tables
  BY <1>1
<1>3. /\ DOMAIN tables' = kept \cup {counter + 1}
      /\ tables'[counter + 1] = t
      /\ \A id \in kept : tables'[id] = tables[id]
  BY <1>2 DEF With, Restrict
<1>4. \A id \in DOMAIN tables' :
          id \in Nat /\ id <= counter' /\ IsTable(tables'[id], Keys)
  <2> TAKE id \in DOMAIN tables'
  <2>1. CASE id = counter + 1
    BY <2>1, <1>1, <1>3
  <2>2. CASE id \in kept
    <3>1. id \in Nat /\ id <= counter /\ IsTable(tables[id], Keys)
      BY <2>2, <1>1
    <3> QED BY <3>1, <2>2, <1>1, <1>3
  <2> QED BY <2>1, <2>2, <1>3
<1> QED BY <1>2, <1>3, <1>4

\* What the flush of the memtable t does: a table with its entries, whose file
\* meta is added to L0.
Flushing(t, meta) ==
    /\ counter' = counter + 1
    /\ saved' = {[counter |-> counter', seq |-> seq, levels |-> version'.levels]}
    /\ meta \in Metas /\ meta.id = counter + 1 /\ Describes(meta, t)
    /\ DOMAIN tables' = DOMAIN tables \cup {counter + 1}
    /\ tables'[counter + 1] = t /\ counter + 1 \notin DOMAIN tables
    /\ \A i \in DOMAIN tables : tables'[i] = tables[i]
    /\ \A i \in DOMAIN tables' :
           i \in Nat /\ i <= counter' /\ IsTable(tables'[i], Keys)
    /\ version' \in Versions(Metas)
    /\ version'.sstables = version.sstables \cup {counter + 1}
    /\ \A l \in Levels : l # 0 => version'.levels[l] = version.levels[l]
    /\ Range(version'.levels[0]) = Range(version.levels[0]) \cup {meta}

\* flushThreadLoop writes the memtable to a new file, unless it is empty.
LEMMA FlushFacts ==
    ASSUME Inv, FlushThread
    PROVE  \E t \in immutable :
               /\ IsTable(t, Keys) /\ immutable = {t} /\ immutable' = {}
               /\ UNCHANGED <<memtable, flushDue, seq, log, linked, dels, flushes, reopens>>
               /\ \/ t = EmptyTable /\ UNCHANGED treeVars
                  \/ t # EmptyTable /\ \E meta : Flushing(t, meta)
<1>1. PICK t \in immutable :
          /\ immutable' = {}
          /\ IF t = EmptyTable THEN UNCHANGED treeVars
             ELSE /\ counter' = counter + 1
                  /\ tables' = With(tables, counter + 1, t)
                  /\ version' = AddSSTable(version, MetaOf(counter + 1, 0, t))
                  /\ Save(version', counter + 1)
          /\ UNCHANGED <<memtable, flushDue, seq, log, linked, countVars>>
  BY DEF FlushThread
<1>2. /\ IsTable(t, Keys) /\ immutable = {t} /\ counter \in Nat
      /\ UNCHANGED <<dels, flushes, reopens>>
  BY <1>1 DEF Inv, Types, countVars
<1>3. ASSUME t # EmptyTable PROVE \E meta : Flushing(t, meta)
  <2> DEFINE id == counter + 1
             meta == MetaOf(id, 0, t)
  <2>1. /\ counter' = counter + 1
        /\ version' = AddSSTable(version, meta)
        /\ saved' = {[counter |-> counter', seq |-> seq, levels |-> version'.levels]}
        /\ tables' = With(Restrict(tables, DOMAIN tables), counter + 1, t)
    BY <1>1, <1>3 DEF Save, With, Restrict
  <2>2. /\ DOMAIN tables' = DOMAIN tables \cup {id}
        /\ tables'[id] = t /\ id \notin DOMAIN tables
        /\ \A i \in DOMAIN tables : tables'[i] = tables[i]
        /\ \A i \in DOMAIN tables' :
               i \in Nat /\ i <= counter' /\ IsTable(tables'[i], Keys)
    BY <1>2, <2>1, TablesReplaced
  <2>3. meta \in Metas /\ meta.id = id /\ meta.level = 0 /\ Describes(meta, t)
    BY <1>2, <1>3, NewMeta DEF Levels
  <2>4. version \in Versions(Metas) /\ id \in Nat
    BY <1>2 DEF Inv, Types
  <2> HIDE DEF meta
  <2>5. /\ version' \in Versions(Metas)
        /\ version'.sstables = version.sstables \cup {id}
        /\ version'.levels[0] = Append(version.levels[0], meta)
        /\ \A l \in Levels : l # 0 => version'.levels[l] = version.levels[l]
    <3>1. meta.level \in Levels /\ meta.id \in Nat
      BY <2>3, <2>4 DEF Levels
    <3> HIDE DEF id
    <3>2. Added(Metas, version, meta, AddSSTable(version, meta))
      BY <2>3, <2>4, <3>1, AddSSTableLevels
    <3>3. Added(Metas, version, meta, version')
      BY <2>1, <3>2
    <3> QED BY <2>3, <3>3 DEF Added
  <2>6. Range(version'.levels[0]) = Range(version.levels[0]) \cup {meta}
    BY <2>3, <2>4, <2>5, AppendRange DEF Versions, Levels
  <2>7. Flushing(t, meta)
    BY <2>1, <2>2, <2>3, <2>5, <2>6 DEF Flushing
  <2> QED BY <2>7
<1> QED BY <1>1, <1>2, <1>3

\* flushThreadLoop: the new file is newer than all others.
LEMMA FlushThreadStep ==
    ASSUME Inv, FlushThread
    PROVE  Inv'
<1>1. PICK t \in immutable :
          /\ IsTable(t, Keys) /\ immutable = {t} /\ immutable' = {}
          /\ UNCHANGED <<memtable, flushDue, seq, log, linked, dels, flushes, reopens>>
          /\ \/ t = EmptyTable /\ UNCHANGED treeVars
             \/ t # EmptyTable /\ \E meta : Flushing(t, meta)
  BY FlushFacts
<1>2. /\ IsTable(t, Keys) /\ immutable = {t} /\ seq \in Nat /\ counter \in Nat
      /\ UNCHANGED <<dels, flushes, reopens>>
  BY <1>1 DEF Inv, Types
<1>3. linked = FALSE /\ log = <<>>
  BY <1>2 DEF Inv, Recency, Types
<1>4. CASE t = EmptyTable
  <2>1. UNCHANGED treeVars
    BY <1>1, <1>4
  <2>2. /\ Files' /\ Saved' /\ LevelsStaySorted' /\ LevelsInOrder'
        /\ tables' = tables
    BY <1>1, <1>2, <2>1, TreeSame
  <2>3. Types'
    BY <1>1, <1>2, <2>1 DEF Inv, Types, treeVars
  <2>4. Recency'
    BY <1>1, <2>2 DEF Inv, Recency
  <2> QED BY <2>2, <2>3, <2>4 DEF Inv
<1>5. CASE t # EmptyTable
  <2> DEFINE id == counter + 1
  <2>1. PICK meta : Flushing(t, meta)
    BY <1>1, <1>5
  <2>2. /\ DOMAIN tables' = DOMAIN tables \cup {id}
        /\ tables'[id] = t /\ id \notin DOMAIN tables
        /\ \A i \in DOMAIN tables : tables'[i] = tables[i]
        /\ \A i \in DOMAIN tables' :
               i \in Nat /\ i <= counter' /\ IsTable(tables'[i], Keys)
    BY <2>1 DEF Flushing
  <2>3. meta \in Metas /\ meta.id = id /\ Describes(meta, t)
    BY <2>1 DEF Flushing
  <2>4. /\ counter' = counter + 1
        /\ saved' = {[counter |-> counter', seq |-> seq, levels |-> version'.levels]}
    BY <2>1 DEF Flushing
  <2>5. /\ version' \in Versions(Metas)
        /\ version'.sstables = version.sstables \cup {id}
        /\ \A l \in Levels : l # 0 => version'.levels[l] = version.levels[l]
    BY <2>1 DEF Flushing
  <2>6. Range(version'.levels[0]) = Range(version.levels[0]) \cup {meta}
    BY <2>1 DEF Flushing
  <2> HIDE DEF id
  <2>7. /\ \A k \in DOMAIN t : t[k].seq < seq /\ TablesBefore(tables, t[k].seq)
        /\ \A k \in DOMAIN t : \A j \in DOMAIN memtable : t[k].seq < memtable[j].seq
    BY <1>1 DEF Inv, Recency
  <2>8. Types'
    <3>1. counter' \in Nat
      BY <1>2, <2>4
    <3>2. \A u \in immutable' : IsTable(u, Keys) /\ immutable' = {u}
      BY <1>1
    <3>3. IsTable(memtable', Keys)
      BY <1>1 DEF Inv, Types
    <3>4. /\ flushDue' \in BOOLEAN /\ linked' \in BOOLEAN
          /\ log' \in Seq(Records) /\ dels' \in Nat /\ flushes' \in Nat
          /\ reopens' \in Nat
      BY <1>1, <1>2 DEF Inv, Types
    <3> QED BY <1>1, <1>2, <2>2, <2>5, <3>1, <3>2, <3>3, <3>4 DEF Types
  <2>9. Files'
    <3>1. version'.sstables \subseteq DOMAIN tables'
      BY <2>2, <2>5 DEF Inv, Files
    <3>2. ASSUME NEW l \in Levels, NEW m \in Range(version'.levels[l])
          PROVE  m.id \in version'.sstables /\ Describes(m, tables'[m.id])
      <4>1. CASE m = meta
        BY <4>1, <2>2, <2>3, <2>5
      <4>2. CASE m \in Range(version.levels[l])
        <5>1. m.id \in version.sstables /\ Describes(m, tables[m.id])
              /\ m.id \in DOMAIN tables
          BY <4>2 DEF Inv, Files
        <5> QED BY <5>1, <2>2, <2>5
      <4> QED BY <4>1, <4>2, <2>5, <2>6
    <3> QED BY <3>1, <3>2 DEF Files
  <2>10. TablesBefore(tables', seq)
    <3>1. TablesBefore(tables, seq)
      <4>1. CASE DOMAIN tables = {}
        BY <4>1 DEF TablesBefore
      <4>2. CASE \E n \in 0..seq : TablesBefore(tables, n)
        BY <4>2, <1>2 DEF Inv, Types, TablesBefore, IsTable, Entry
      <4> QED BY <4>1, <4>2 DEF Inv, Saved
    <3> QED BY <3>1, <2>2, <2>7 DEF TablesBefore
  <2>11. Saved'
    BY <1>1, <1>2, <2>4, <2>10 DEF Saved
  <2>12. Recency'
    <3>1. ASSUME NEW j \in DOMAIN memtable
          PROVE  TablesBefore(tables', memtable[j].seq)
      <4>1. TablesBefore(tables, memtable[j].seq)
        BY DEF Inv, Recency
      <4> QED BY <4>1, <2>2, <2>7 DEF TablesBefore
    <3>2. immutable' = {} /\ log' = <<>> /\ memtable' = memtable /\ seq' = seq
      BY <1>1, <1>3
    <3>3. Range(log') = {}
      BY <3>2 DEF Range
    <3> QED BY <3>1, <3>2, <3>3 DEF Inv, Recency
  <2>13. LevelsStaySorted'
    BY <2>5 DEF Inv, LevelsStaySorted, SortedLevels
  <2>14. LevelsInOrder'
    <3> SUFFICES ASSUME NEW l \in Levels, NEW m \in Levels, l < m,
                        NEW a \in Range(version'.levels[l]),
                        NEW b \in Range(version'.levels[m]),
                        NEW k \in DOMAIN tables'[a.id] \cap DOMAIN tables'[b.id]
                 PROVE  tables'[a.id][k].seq > tables'[b.id][k].seq
      BY DEF LevelsInOrder
    <3>1. m # 0 /\ b \in Range(version.levels[m])
      BY <2>5 DEF Levels
    <3>2. b.id \in DOMAIN tables /\ tables'[b.id] = tables[b.id]
      BY <3>1, <2>2 DEF Inv, Files
    <3>3. CASE a = meta
      <4>1. tables'[a.id] = t
        BY <3>3, <2>2, <2>3
      <4>2. TablesBefore(tables, t[k].seq)
        BY <2>7, <4>1
      <4>3. tables[b.id][k].seq < t[k].seq
        BY <3>2, <4>2 DEF TablesBefore
      <4>4. tables[b.id][k].seq \in Nat /\ t[k].seq \in Nat
        BY <1>2, <3>2, <4>1 DEF Inv, Types, IsTable, Entry
      <4> QED BY <3>2, <4>1, <4>3, <4>4
    <3>4. CASE a \in Range(version.levels[l])
      <4>1. a.id \in DOMAIN tables /\ tables'[a.id] = tables[a.id]
        BY <3>4, <2>2 DEF Inv, Files
      <4> QED BY <3>1, <3>2, <3>4, <4>1 DEF Inv, LevelsInOrder
    <3> QED BY <3>3, <3>4, <2>5, <2>6
  <2> QED BY <2>8, <2>9, <2>11, <2>12, <2>13, <2>14 DEF Inv
<1> QED BY <1>4, <1>5

-----------------------------------------------------------------------------
(* Compactions.                                                            *)

\* What compactL0toL1 and compactlevelN read: files of the level, and of the
\* next one those whose keys lie between the lowest and the highest of theirs.
LEMMA InputFiles ==
    ASSUME Inv, NEW l \in 0..2, CanCompact(version, l)
    PROVE  /\ l \in Levels /\ l + 1 \in Levels
           /\ Sources(version, l) \subseteq Range(version.levels[l])
           /\ Overlapping(version, l) \subseteq Range(version.levels[l + 1])
           /\ CompactionInputs(version, l) \subseteq DOMAIN tables
           /\ \A m \in Sources(version, l) \cup Overlapping(version, l) :
                  m.id \in CompactionInputs(version, l)
           /\ \A id \in CompactionInputs(version, l) :
                  \E m \in Sources(version, l) \cup Overlapping(version, l) : id = m.id
<1>1. l \in Levels /\ l + 1 \in Levels
  BY DEF Levels
<1>2. version.levels[l] \in Seq(Metas) /\ version.levels[l] # <<>>
  BY <1>1 DEF Inv, Types, Versions, CanCompact
<1>3. Head(version.levels[l]) \in Range(version.levels[l])
  <2>1. /\ Head(version.levels[l]) = version.levels[l][1]
        /\ 1 \in DOMAIN version.levels[l]
    BY <1>2
  <2> QED BY <2>1 DEF Range
<1>4. Sources(version, l) \subseteq Range(version.levels[l])
  BY <1>3 DEF Sources
<1>5. Overlapping(version, l) \subseteq Range(version.levels[l + 1])
  BY DEF Overlapping
<1>6. \A m \in Sources(version, l) \cup Overlapping(version, l) :
          m.id \in version.sstables /\ m.id \in DOMAIN tables
  BY <1>1, <1>4, <1>5, MetasBounded
<1>7. /\ \A m \in Sources(version, l) \cup Overlapping(version, l) :
             m.id \in CompactionInputs(version, l)
      /\ \A id \in CompactionInputs(version, l) :
             \E m \in Sources(version, l) \cup Overlapping(version, l) : id = m.id
  BY <1>6 DEF CompactionInputs
<1>8. CompactionInputs(version, l) \subseteq DOMAIN tables
  BY <1>6, <1>7
<1> QED BY <1>1, <1>4, <1>5, <1>7, <1>8

\* A file of the next level that is not merged is apart from the others there,
\* and its keys are all below or all above those of the files merged.
LEMMA OutsideInputs ==
    ASSUME Inv, NEW l \in 0..2, CanCompact(version, l),
           NEW m \in Range(version.levels[l + 1]), m \notin Overlapping(version, l)
    PROVE  \/ \A n \in Sources(version, l) \cup Overlapping(version, l) :
                  m.maxKey < n.minKey
           \/ \A n \in Sources(version, l) \cup Overlapping(version, l) :
                  n.maxKey < m.minKey
<1> DEFINE src == Sources(version, l)
           over == Overlapping(version, l)
           low == Min({n.minKey : n \in src})
           high == Max({n.maxKey : n \in src})
<1>1. /\ l \in Levels /\ l + 1 \in Levels
      /\ src \subseteq Range(version.levels[l])
      /\ over \subseteq Range(version.levels[l + 1])
  BY InputFiles
<1>2. /\ \A n \in src \cup over : n \in Metas /\ Bounded(n)
      /\ Bounded(m)
  BY <1>1, MetasBounded
<1>3. src # {}
  <2>1. version.levels[l] \in Seq(Metas) /\ version.levels[l] # <<>>
    BY <1>1 DEF Inv, Types, Versions, CanCompact
  <2>2. 1 \in DOMAIN version.levels[l]
    BY <2>1
  <2> QED BY <2>2 DEF Sources, Range
<1>4. over = {n \in Range(version.levels[l + 1]) : ~(n.maxKey < low \/ n.minKey > high)}
  BY DEF Overlapping
<1>5. low \in Nat /\ \A n \in src : low <= n.minKey
  <2> DEFINE S == {n.minKey : n \in src}
  <2>1. S \in SUBSET Nat /\ S # {}
    BY <1>2, <1>3 DEF Bounded
  <2>2. Min(S) \in S /\ \A x \in S : Min(S) <= x
    BY <2>1, MinNat
  <2> QED BY <2>1, <2>2
<1>6. high \in Nat /\ \A n \in src : n.maxKey <= high
  <2> DEFINE S == {n.maxKey : n \in src}
  <2>1. S \in SUBSET Keys /\ S # {}
    BY <1>2, <1>3 DEF Metas
  <2>2. S \in SUBSET Nat /\ IsFiniteSet(S)
    BY <2>1, LsmAssumption, FS_Subset
  <2>3. Max(S) \in S /\ \A x \in S : x <= Max(S)
    BY <2>1, <2>2, MaxFinite
  <2> QED BY <2>2, <2>3
<1> HIDE DEF low, high, src, over
<1>7. m.maxKey < low \/ m.minKey > high
  BY <1>4 DEF over
<1>8. \A n \in over : n.maxKey >= low /\ n.minKey <= high
  BY <1>2, <1>4, <1>5, <1>6 DEF Bounded
<1>9. \A n \in over : Apart(m, n)
  <2> TAKE n \in over
  <2>1. Ascending(version.levels[l + 1])
    BY <1>1 DEF Inv, LevelsStaySorted, SortedLevels, Ascending, Levels
  <2>2. DOMAIN version.levels[l + 1] \subseteq Nat
    <3>1. version.levels[l + 1] \in Seq(Metas)
      BY <1>1 DEF Inv, Types, Versions
    <3> QED BY <3>1
  <2>3. m # n
    BY DEF over
  <2> QED BY <1>1, <2>1, <2>2, <2>3, AscendingApart
<1>10. CASE m.maxKey < low
  <2>1. \A n \in src : m.maxKey < n.minKey
    BY <1>2, <1>5, <1>10 DEF Bounded
  <2>2. \A n \in over : m.maxKey < n.minKey
    BY <1>2, <1>5, <1>8, <1>9, <1>10 DEF Bounded, Apart
  <2> QED BY <2>1, <2>2 DEF src, over
<1>11. CASE m.minKey > high
  <2>1. \A n \in src : n.maxKey < m.minKey
    BY <1>2, <1>6, <1>11 DEF Bounded
  <2>2. \A n \in over : n.maxKey < m.minKey
    BY <1>2, <1>6, <1>8, <1>9, <1>11 DEF Bounded, Apart
  <2> QED BY <2>1, <2>2 DEF src, over
<1> QED BY <1>7, <1>10, <1>11

\* What a compaction of level l does: the tables ids are merged into one, whose
\* file meta takes their place, on the next level.
Compaction(l, ids, merged, meta) ==
    /\ Merged(Keys, tables, ids, merged)
    /\ meta \in Metas /\ meta.id = counter + 1 /\ meta.level = l + 1
    /\ meta.minKey \in DOMAIN merged /\ meta.maxKey \in DOMAIN merged
    /\ Bounded(meta) /\ Describes(meta, merged)
    /\ DOMAIN tables' = (DOMAIN tables \ ids) \cup {counter + 1}
    /\ tables'[counter + 1] = merged /\ counter + 1 \notin DOMAIN tables
    /\ \A i \in DOMAIN tables \ ids : tables'[i] = tables[i]
    /\ \A i \in DOMAIN tables' :
           i \in Nat /\ i <= counter' /\ IsTable(tables'[i], Keys)
    /\ Compacted(Metas, version, ids, meta, version')

\* compactL0toL1 and compactlevelN do that and leave the rest alone.
LEMMA CompactFacts ==
    ASSUME Inv, NEW l \in 0..2, Compact(l)
    PROVE  /\ CanCompact(version, l)
           /\ counter' = counter + 1
           /\ saved' = {[counter |-> counter', seq |-> seq, levels |-> version'.levels]}
           /\ UNCHANGED <<memtable, immutable, flushDue, seq, log, linked,
                          dels, flushes, reopens>>
           /\ \E merged, meta :
                  Compaction(l, CompactionInputs(version, l), merged, meta)
<1> DEFINE ids == CompactionInputs(version, l)
           merged == MergeSSTables(tables, ids)
           id == counter + 1
           meta == MetaOf(id, l + 1, merged)
           kept == DOMAIN tables \ ids
<1>1. /\ CanCompact(version, l) /\ merged # EmptyTable
      /\ counter' = counter + 1
      /\ version' = CompactedVersion(version, ids, meta)
      /\ tables' = With(Restrict(tables, kept), counter + 1, merged)
      /\ saved' = {[counter |-> counter', seq |-> seq, levels |-> version'.levels]}
      /\ UNCHANGED <<memtable, immutable, flushDue, seq, log, linked,
                     dels, flushes, reopens>>
  BY DEF Compact, Save, countVars
<1>2. l \in Levels /\ l + 1 \in Levels /\ ids \subseteq DOMAIN tables
  BY <1>1, InputFiles
<1>3. /\ counter \in Nat /\ version \in Versions(Metas)
      /\ \A i \in DOMAIN tables : i \in Nat /\ i <= counter /\ IsTable(tables[i], Keys)
  BY DEF Inv, Types
<1>4. Merged(Keys, tables, ids, merged) /\ IsTable(merged, Keys)
  <2>1. \A i \in ids : IsTable(tables[i], Keys)
    BY <1>2, <1>3
  <2> HIDE DEF ids
  <2>2. Merged(Keys, tables, ids, MergeSSTables(tables, ids))
    BY <2>1, MergedTable
  <2> QED BY <2>2 DEF Merged
<1> HIDE DEF merged
<1>5. /\ meta \in Metas /\ meta.id = id /\ meta.level = l + 1
      /\ Describes(meta, merged)
      /\ meta.minKey \in DOMAIN merged /\ meta.maxKey \in DOMAIN merged
      /\ Bounded(meta)
  <2>1. id \in Nat
    BY <1>3
  <2>2. DOMAIN merged # {}
    BY <1>1, <1>4, NotEmptyTable
  <2>3. Keys \in SUBSET Nat /\ IsFiniteSet(Keys)
    BY LsmAssumption
  <2>4. /\ meta.minKey \in DOMAIN merged /\ meta.maxKey \in DOMAIN merged
        /\ Bounded(meta)
    BY <1>4, <2>2, <2>3, MetaOfTable
  <2>5. meta \in Metas /\ meta.id = id /\ meta.level = l + 1 /\ Describes(meta, merged)
    BY <1>1, <1>2, <1>4, <2>1, NewMeta
  <2> QED BY <2>4, <2>5
<1>6. id \in Nat /\ kept \in SUBSET DOMAIN tables
  BY <1>3
<1>7. /\ DOMAIN tables' = kept \cup {id}
      /\ tables'[id] = merged /\ id \notin DOMAIN tables
      /\ \A i \in kept : tables'[i] = tables[i]
      /\ \A i \in DOMAIN tables' :
             i \in Nat /\ i <= counter' /\ IsTable(tables'[i], Keys)
  <2> HIDE DEF kept
  <2> QED BY <1>1, <1>4, <1>6, TablesReplaced
<1> HIDE DEF meta
<1>8. Compacted(Metas, version, ids, meta, version')
  <2>1. \A m \in Metas : m.minKey \in Nat
    BY LsmAssumption DEF Metas
  <2>2. meta.level \in Levels /\ meta.id \in Nat
    BY <1>2, <1>5, <1>6
  <2> HIDE DEF ids, id
  <2>3. Compacted(Metas, version, ids, meta, CompactedVersion(version, ids, meta))
    BY <1>3, <1>5, <2>1, <2>2, CompactedLevels
  <2> QED BY <1>1, <2>3
<1> HIDE DEF ids
<1>9. Compaction(l, ids, merged, meta)
  BY <1>4, <1>5, <1>7, <1>8 DEF Compaction
<1> QED BY <1>1, <1>9 DEF ids

\* compactL0toL1, compactlevelN
LEMMA CompactStep ==
    ASSUME Inv, NEW l \in 0..2, Compact(l)
    PROVE  Inv'
<1> DEFINE src == Sources(version, l) \cup Overlapping(version, l)
           ids == CompactionInputs(version, l)
           id == counter + 1
           kept == DOMAIN tables \ ids
<1>1. /\ CanCompact(version, l)
      /\ counter' = counter + 1
      /\ saved' = {[counter |-> counter', seq |-> seq, levels |-> version'.levels]}
      /\ UNCHANGED <<memtable, immutable, flushDue, seq, log, linked,
                     dels, flushes, reopens>>
  BY CompactFacts
<1>2. /\ l \in Levels /\ l + 1 \in Levels
      /\ Sources(version, l) \subseteq Range(version.levels[l])
      /\ Overlapping(version, l) \subseteq Range(version.levels[l + 1])
      /\ ids \subseteq DOMAIN tables
      /\ \A m \in src : m.id \in ids
      /\ \A i \in ids : \E m \in src : i = m.id
  BY <1>1, InputFiles
<1>3. /\ counter \in Nat /\ seq \in Nat /\ version \in Versions(Metas)
      /\ \A i \in DOMAIN tables : i \in Nat /\ i <= counter /\ IsTable(tables[i], Keys)
  BY DEF Inv, Types
<1> HIDE DEF ids
<1>4. PICK merged, meta : Compaction(l, ids, merged, meta)
  BY CompactFacts DEF ids
<1>5. /\ meta \in Metas /\ meta.id = id /\ meta.level = l + 1
      /\ Describes(meta, merged)
      /\ meta.minKey \in DOMAIN merged /\ meta.maxKey \in DOMAIN merged
      /\ Bounded(meta)
  BY <1>4 DEF Compaction
<1>6. /\ IsTable(merged, Keys)
      /\ \A k \in DOMAIN merged : \E i \in ids :
             k \in DOMAIN tables[i] /\ merged[k] = tables[i][k]
  BY <1>4 DEF Compaction, Merged
<1>7. /\ DOMAIN tables' = kept \cup {id}
      /\ tables'[id] = merged /\ id \notin DOMAIN tables
      /\ \A i \in kept : tables'[i] = tables[i]
      /\ \A i \in DOMAIN tables' :
             i \in Nat /\ i <= counter' /\ IsTable(tables'[i], Keys)
  BY <1>4 DEF Compaction
<1>8. Compacted(Metas, version, ids, meta, version')
  BY <1>4 DEF Compaction
<1> HIDE DEF id
<1>9. /\ version' \in Versions(Metas)
      /\ version'.sstables = (version.sstables \ ids) \cup {id}
      /\ version'.levels[l + 1] = Sorted(Append(Without(version.levels[l + 1], ids), meta))
      /\ \A p \in Levels : p # l + 1 => version'.levels[p] = Without(version.levels[p], ids)
      /\ \A p \in Levels : \A m \in Range(version'.levels[p]) :
             \/ m \in Range(version.levels[p]) /\ m.id \notin ids
             \/ p = l + 1 /\ m = meta
  BY <1>5, <1>8 DEF Compacted
<1>10. \A p \in Levels : \A m \in Range(version.levels[p]) :
           m.id \notin ids => /\ m.id \in version'.sstables /\ m.id \in DOMAIN tables'
                              /\ tables'[m.id] = tables[m.id]
                              /\ Describes(m, tables'[m.id])
  <2> SUFFICES ASSUME NEW p \in Levels, NEW m \in Range(version.levels[p]),
                      m.id \notin ids
               PROVE  /\ m.id \in version'.sstables /\ m.id \in DOMAIN tables'
                      /\ tables'[m.id] = tables[m.id]
                      /\ Describes(m, tables'[m.id])
    OBVIOUS
  <2>1. m.id \in version.sstables /\ m.id \in kept /\ Describes(m, tables[m.id])
    BY DEF Inv, Files
  <2> QED BY <2>1, <1>7, <1>9
<1>11. \A k \in DOMAIN merged : \E n \in src :
           k \in DOMAIN tables[n.id] /\ merged[k] = tables[n.id][k]
  BY <1>2, <1>6
<1>12. \A n : TablesBefore(tables, n) => TablesBefore(tables', n)
  BY <1>2, <1>6, <1>7 DEF TablesBefore
<1>13. Types'
  <2>1. counter' \in Nat
    BY <1>1, <1>3
  <2>2. /\ IsTable(memtable', Keys)
        /\ \A u \in immutable' : IsTable(u, Keys) /\ immutable' = {u}
    BY <1>1 DEF Inv, Types
  <2>3. /\ flushDue' \in BOOLEAN /\ linked' \in BOOLEAN
        /\ log' \in Seq(Records) /\ dels' \in Nat /\ flushes' \in Nat
        /\ reopens' \in Nat
    BY <1>1 DEF Inv, Types
  <2> QED BY <1>1, <1>3, <1>7, <1>9, <2>1, <2>2, <2>3 DEF Types
<1>14. Files'
  <2>1. version'.sstables \subseteq DOMAIN tables'
    BY <1>7, <1>9 DEF Inv, Files
  <2>2. ASSUME NEW p \in Levels, NEW m \in Range(version'.levels[p])
        PROVE  m.id \in version'.sstables /\ Describes(m, tables'[m.id])
    <3>1. CASE m = meta
      BY <3>1, <1>5, <1>7, <1>9
    <3>2. CASE m \in Range(version.levels[p]) /\ m.id \notin ids
      BY <3>2, <1>10
    <3> QED BY <3>1, <3>2, <1>9
  <2> QED BY <2>1, <2>2 DEF Files
<1>15. Saved'
  <2>1. TablesBefore(tables, seq)
    <3>1. CASE DOMAIN tables = {}
      BY <3>1 DEF TablesBefore
    <3>2. CASE \E n \in 0..seq : TablesBefore(tables, n)
      BY <3>2, <1>3 DEF TablesBefore, IsTable, Entry
    <3> QED BY <3>1, <3>2 DEF Inv, Saved
  <2>2. TablesBefore(tables', seq)
    BY <2>1, <1>12
  <2>3. /\ saved' = {[counter |-> counter', seq |-> seq, levels |-> version'.levels]}
        /\ seq \in 0..seq'
    BY <1>1, <1>3
  <2> QED BY <2>2, <2>3 DEF Saved
<1>16. Recency'
  BY <1>1, <1>12 DEF Inv, Recency
<1> HIDE DEF ids, src
<1>17. LevelsStaySorted'
  <2>1. \A p \in Levels \ {0} : Ascending(version.levels[p])
    BY DEF Inv, LevelsStaySorted, SortedLevels, Ascending
  <2>2. \A p \in Levels : version.levels[p] \in Seq(Metas)
    BY <1>3 DEF Versions
  <2>3. ASSUME NEW p \in Levels, p # 0, p # l + 1
        PROVE  Ascending(version'.levels[p])
    BY <2>1, <2>2, <2>3, <1>9, WithoutAscending
  <2>4. Ascending(version'.levels[l + 1])
    <3> DEFINE left == Without(version.levels[l + 1], ids)
               B == {m \in Metas : Bounded(m)}
    <3>1. l + 1 # 0
      OBVIOUS
    <3>2. /\ left \in Seq(Metas) /\ Ascending(left)
          /\ Range(left) = {m \in Range(version.levels[l + 1]) : m.id \notin ids}
      BY <1>2, <2>1, <2>2, <3>1, WithoutAscending, WithoutRange
    <3> HIDE DEF left
    <3>3. \A m \in Range(left) : m \in B
      BY <1>2, <3>2, MetasBounded
    <3>4. left \in Seq(B) /\ meta \in B /\ \A m \in B : Bounded(m)
      BY <1>5, <3>2, <3>3, SeqInto
    <3>5. \A m \in Range(left) : Apart(m, meta)
      <4> TAKE m \in Range(left)
      <4>1. m \in Range(version.levels[l + 1]) /\ m \notin Overlapping(version, l)
        BY <1>2, <3>2 DEF src
      <4>2. \/ \A n \in src : m.maxKey < n.minKey
            \/ \A n \in src : n.maxKey < m.minKey
        BY <1>1, <4>1, OutsideInputs DEF src
      <4>3. PICK x \in src : meta.minKey \in DOMAIN tables[x.id]
        BY <1>5, <1>11
      <4>4. PICK y \in src : meta.maxKey \in DOMAIN tables[y.id]
        BY <1>5, <1>11
      <4>5. /\ Bounded(x) /\ Describes(x, tables[x.id])
            /\ Bounded(y) /\ Describes(y, tables[y.id])
        BY <1>2, MetasBounded DEF Inv, Files, src
      <4>6. x.minKey <= meta.minKey /\ meta.maxKey <= y.maxKey
        BY <4>3, <4>4, <4>5 DEF Describes
      <4>7. Bounded(m) /\ Bounded(meta)
        BY <3>3, <1>5
      <4> QED BY <4>2, <4>5, <4>6, <4>7 DEF Bounded, Apart
    <3> HIDE DEF B
    <3>6. Ascending(Sorted(Append(left, meta)))
      BY <3>2, <3>4, <3>5, SortedAscending
    <3> QED BY <3>6, <1>9 DEF left
  <2> QED BY <2>3, <2>4 DEF LevelsStaySorted, SortedLevels, Ascending
<1>18. LevelsInOrder'
  <2> SUFFICES ASSUME NEW p \in Levels, NEW q \in Levels, p < q,
                      NEW a \in Range(version'.levels[p]),
                      NEW b \in Range(version'.levels[q]),
                      NEW k \in DOMAIN tables'[a.id] \cap DOMAIN tables'[b.id]
               PROVE  tables'[a.id][k].seq > tables'[b.id][k].seq
    BY DEF LevelsInOrder
  <2>1. CASE /\ a \in Range(version.levels[p]) /\ a.id \notin ids
             /\ b \in Range(version.levels[q]) /\ b.id \notin ids
    <3>1. tables'[a.id] = tables[a.id] /\ tables'[b.id] = tables[b.id]
      BY <2>1, <1>10
    <3> QED BY <2>1, <3>1 DEF Inv, LevelsInOrder
  <2>2. CASE /\ a = meta /\ p = l + 1
             /\ b \in Range(version.levels[q]) /\ b.id \notin ids
    <3>1. tables'[a.id] = merged /\ tables'[b.id] = tables[b.id]
      BY <2>2, <1>5, <1>7, <1>10
    <3>2. PICK n \in src : k \in DOMAIN tables[n.id] /\ merged[k] = tables[n.id][k]
      BY <3>1, <1>11
    <3>3. PICK r \in Levels : r < q /\ n \in Range(version.levels[r])
      BY <1>2, <2>2 DEF src, Levels
    <3> QED BY <2>2, <3>1, <3>2, <3>3 DEF Inv, LevelsInOrder
  <2>3. CASE /\ a \in Range(version.levels[p]) /\ a.id \notin ids
             /\ b = meta /\ q = l + 1
    <3>1. tables'[b.id] = merged /\ tables'[a.id] = tables[a.id]
      BY <2>3, <1>5, <1>7, <1>10
    <3>2. PICK n \in src : k \in DOMAIN tables[n.id] /\ merged[k] = tables[n.id][k]
      BY <3>1, <1>11
    <3>3. CASE \E r \in Levels : p < r /\ n \in Range(version.levels[r])
      BY <2>3, <3>1, <3>2, <3>3 DEF Inv, LevelsInOrder
    <3>4. CASE p = l /\ n \in Sources(version, l)
      <4>1. a # n
        BY <1>2, <2>3, <3>2
      <4>2. l # 0
        BY <1>2, <2>3, <3>4 DEF Sources, src
      <4>3. Ascending(version.levels[l]) /\ DOMAIN version.levels[l] \subseteq Nat
        <5>1. version.levels[l] \in Seq(Metas)
          BY <1>2, <1>3 DEF Versions
        <5>2. Ascending(version.levels[l])
          BY <1>2, <4>2 DEF Inv, LevelsStaySorted, SortedLevels, Ascending
        <5> QED BY <5>1, <5>2
      <4>4. n \in Range(version.levels[l]) /\ a \in Range(version.levels[l])
        BY <1>2, <2>3, <3>4
      <4>5. Apart(a, n)
        BY <4>1, <4>3, <4>4, AscendingApart
      <4>6. /\ Describes(a, tables[a.id]) /\ Describes(n, tables[n.id])
            /\ Bounded(a) /\ Bounded(n)
        BY <1>2, <4>4, MetasBounded DEF Inv, Files
      <4>7. k \in Nat
        BY <1>6, <3>1, LsmAssumption DEF IsTable
      <4>8. /\ a.minKey <= k /\ k <= a.maxKey
            /\ n.minKey <= k /\ k <= n.maxKey
        BY <3>1, <3>2, <4>6 DEF Describes
      <4> QED BY <4>5, <4>6, <4>7, <4>8 DEF Apart, Bounded
    <3> QED BY <3>3, <3>4, <1>2, <2>3 DEF src, Levels
  <2> QED BY <2>1, <2>2, <2>3, <1>9
<1> QED BY <1>13, <1>14, <1>15, <1>16, <1>17, <1>18 DEF Inv

-----------------------------------------------------------------------------
(* Restarts.                                                               *)

\* The counters that the constructor reads or works out.
LEMMA ReopenCounters ==
    ASSUME Inv, Reopen
    PROVE  /\ counter' = counter /\ version'.levels = version.levels
           /\ version' = [levels |-> version'.levels, sstables |-> version'.sstables]
           /\ version'.sstables = IdsOf(version.levels) \cap DOMAIN tables
           /\ seq' \in Nat /\ \A r \in Range(log) : r.seq < seq'
           /\ saved # {} => \E n \in 0..seq' :
                  /\ saved = {[counter |-> counter, seq |-> n, levels |-> version.levels]}
                  /\ TablesBefore(tables, n)
<1> DEFINE meta == CHOOSE m \in saved : TRUE
           start == IF saved = {} THEN 1 ELSE meta.seq
           S == {start} \cup {r.seq : r \in Range(log)}
<1>1. /\ counter' = IF saved = {} THEN 0 ELSE meta.counter
      /\ version' = IF saved = {} THEN EmptyVersion
                    ELSE LoadedVersion(meta.levels, DOMAIN tables)
      /\ seq' = IF log = <<>> THEN start ELSE Max(S) + 1
  BY DEF Reopen
<1>2. seq \in Nat /\ \A r \in Range(log) : r.seq \in Nat /\ r.seq < seq
  BY LogRecord DEF Inv, Types, Recency
<1>3. /\ counter' = counter /\ version'.levels = version.levels
      /\ version' = [levels |-> version'.levels, sstables |-> version'.sstables]
      /\ version'.sstables = IdsOf(version.levels) \cap DOMAIN tables
      /\ start \in Nat /\ start <= seq + 1
      /\ saved # {} => /\ saved = {[counter |-> counter, seq |-> start, levels |-> version.levels]}
                       /\ TablesBefore(tables, start)
  <2>1. CASE saved = {}
    <3>1. version = EmptyVersion /\ DOMAIN tables = {} /\ counter = 0
      BY <2>1 DEF Inv, Saved
    <3> QED BY <1>1, <1>2, <2>1, <3>1 DEF EmptyVersion
  <2>2. CASE saved # {}
    <3>1. PICK n \in 0..seq :
              /\ saved = {[counter |-> counter, seq |-> n, levels |-> version.levels]}
              /\ TablesBefore(tables, n)
      BY <2>2 DEF Inv, Saved
    <3>2. meta = [counter |-> counter, seq |-> n, levels |-> version.levels]
      BY <3>1
    <3> HIDE DEF meta
    <3>3. start = n
      BY <2>2, <3>2
    <3>4. counter' = counter /\ version' = LoadedVersion(version.levels, DOMAIN tables)
      BY <1>1, <2>2, <3>2
    <3> QED BY <1>2, <2>2, <3>1, <3>3, <3>4 DEF LoadedVersion
  <2> QED BY <2>1, <2>2
<1> HIDE DEF start
<1>4. seq' \in Nat /\ start <= seq' /\ \A r \in Range(log) : r.seq < seq'
  <2>1. CASE log = <<>>
    BY <2>1, <1>1, <1>3 DEF Range
  <2>2. CASE log # <<>>
    <3>1. S \in SUBSET Nat /\ S # {} /\ seq + 1 \in Nat /\ \A x \in S : x <= seq + 1
      BY <1>2, <1>3
    <3> HIDE DEF S
    <3>2. Max(S) \in S /\ \A x \in S : x <= Max(S)
      BY <3>1, MaxNat
    <3>3. Max(S) \in Nat /\ seq' = Max(S) + 1
      BY <1>1, <2>2, <3>1, <3>2
    <3>4. start \in S /\ \A r \in Range(log) : r.seq \in S
      BY DEF S
    <3> QED BY <1>2, <1>3, <3>2, <3>3, <3>4
  <2> QED BY <2>1, <2>2
<1> QED BY <1>3, <1>4

\* The destructor and the constructor.
LEMMA ReopenStep ==
    ASSUME Inv, Reopen
    PROVE  Inv'
<1>1. /\ immutable = {} /\ reopens' = reopens + 1
      /\ memtable' = Replayed(log) /\ linked' = TRUE
      /\ UNCHANGED <<immutable, flushDue, tables, log, saved, dels, flushes>>
      /\ saved = {} => version' = EmptyVersion
  BY DEF Reopen
<1>2. /\ counter' = counter /\ version'.levels = version.levels
      /\ version' = [levels |-> version'.levels, sstables |-> version'.sstables]
      /\ version'.sstables = IdsOf(version.levels) \cap DOMAIN tables
      /\ seq' \in Nat /\ \A r \in Range(log) : r.seq < seq'
      /\ saved # {} => \E n \in 0..seq' :
             /\ saved = {[counter |-> counter, seq |-> n, levels |-> version.levels]}
             /\ TablesBefore(tables, n)
  BY ReopenCounters
<1>3. /\ IsTable(Replayed(log), Keys)
      /\ \A k \in DOMAIN Replayed(log) : \E r \in Range(log) :
             r.key = k /\ Replayed(log)[k] = [seq |-> r.seq, type |-> r.type]
  <2>1. log \in Seq([key : Keys, seq : Nat, type : {"PUT", "DELETE"}])
    BY DEF Inv, Types, Records
  <2>2. IsTable(Replayed(log), Keys) /\ FromLog(log, Replayed(log))
    BY <2>1, ReplayedTable
  <2> QED BY <2>2 DEF FromLog
<1>4. /\ version.levels \in [Levels -> Seq(Metas)]
      /\ \A i \in DOMAIN tables : i \in Nat /\ i <= counter /\ IsTable(tables[i], Keys)
      /\ counter \in Nat /\ reopens \in Nat
  BY DEF Inv, Types, Versions
<1>5. version' \in Versions(Metas)
  <2>1. version'.sstables \in SUBSET Nat
    BY <1>2, <1>4
  <2> QED BY <1>2, <1>4, <2>1 DEF Versions
<1>6. Types'
  <2>1. IsTable(memtable', Keys)
    BY <1>1, <1>3
  <2>2. \A u \in immutable' : IsTable(u, Keys) /\ immutable' = {u}
    BY <1>1
  <2>3. /\ flushDue' \in BOOLEAN /\ log' \in Seq(Records)
        /\ dels' \in Nat /\ flushes' \in Nat
    BY <1>1 DEF Inv, Types
  <2>4. linked' \in BOOLEAN
    BY <1>1
  <2>5. counter' \in Nat /\ reopens' \in Nat /\ seq' \in Nat
    BY <1>1, <1>2, <1>4
  <2>6. \A i \in DOMAIN tables' : i \in Nat /\ i <= counter' /\ IsTable(tables'[i], Keys)
    BY <1>1, <1>2, <1>4
  <2> QED BY <1>5, <2>1, <2>2, <2>3, <2>4, <2>5, <2>6 DEF Types
<1>7. Files'
  <2>1. ASSUME NEW l \in Levels, NEW m \in Range(version.levels[l])
        PROVE  m.id \in version'.sstables /\ Describes(m, tables[m.id])
    <3>1. m.id \in DOMAIN tables /\ Describes(m, tables[m.id])
      BY DEF Inv, Files
    <3>2. m.id \in IdsOf(version.levels)
      BY DEF IdsOf
    <3> QED BY <1>2, <3>1, <3>2
  <2> QED BY <1>1, <1>2, <2>1 DEF Files
<1>8. Saved'
  <2>1. CASE saved = {}
    BY <1>1, <1>2, <2>1 DEF Inv, Saved
  <2>2. CASE saved # {}
    <3>1. PICK n \in 0..seq' :
              /\ saved = {[counter |-> counter, seq |-> n, levels |-> version.levels]}
              /\ TablesBefore(tables, n)
      BY <1>2, <2>2
    <3> QED BY <1>1, <1>2, <3>1 DEF Saved
  <2> QED BY <2>1, <2>2
<1>9. Recency'
  <2>1. \A r \in Range(log) : r.seq < seq' /\ TablesBefore(tables, r.seq)
    BY <1>2 DEF Inv, Recency
  <2>2. \A k \in DOMAIN memtable' :
            memtable'[k].seq < seq' /\ TablesBefore(tables, memtable'[k].seq)
    <3> TAKE k \in DOMAIN memtable'
    <3>1. PICK r \in Range(log) : memtable'[k] = [seq |-> r.seq, type |-> r.type]
      BY <1>1, <1>3
    <3> QED BY <2>1, <3>1
  <2> QED BY <1>1, <2>1, <2>2 DEF Recency
<1>10. LevelsStaySorted' /\ LevelsInOrder'
  BY <1>1, <1>2 DEF Inv, LevelsStaySorted, SortedLevels, LevelsInOrder
<1> QED BY <1>6, <1>7, <1>8, <1>9, <1>10 DEF Inv

-----------------------------------------------------------------------------
\* Every operation of the engine, whatever the order in which its threads
\* take their turns, keeps what Inv says: tables are made of what was written
\* before, newer tables are higher up, and what was saved is what is there.
THEOREM InvCorrect == Spec => []Inv
<1>1. Init => Inv
  <2> SUFFICES ASSUME Init PROVE Inv
    OBVIOUS
  <2>1. /\ memtable = EmptyTable /\ immutable = {} /\ flushDue = FALSE
        /\ version = EmptyVersion /\ tables = EmptyTable
        /\ seq = 1 /\ counter = 0 /\ log = <<>> /\ linked = TRUE /\ saved = {}
        /\ dels = 0 /\ flushes = 0 /\ reopens = 0
    BY DEF Init
  <2>2. IsTable(EmptyTable, Keys) /\ DOMAIN EmptyTable = {}
    BY EmptyIsTable
  <2>3. /\ \A l \in Levels : version.levels[l] = <<>> /\ Range(version.levels[l]) = {}
        /\ version \in Versions(Metas) /\ version.sstables = {}
    BY <2>1 DEF EmptyVersion, Versions, Range
  <2>4. Types
    <3>1. flushDue \in BOOLEAN /\ linked \in BOOLEAN
      BY <2>1
    <3>2. log \in Seq(Records)
      BY <2>1
    <3> QED BY <2>1, <2>2, <2>3, <3>1, <3>2 DEF Types
  <2>5. Files
    BY <2>1, <2>2, <2>3 DEF Files
  <2>6. Saved
    BY <2>1, <2>2 DEF Saved
  <2>7. Recency
    BY <2>1, <2>2 DEF Recency, Range
  <2>8. LevelsStaySorted /\ LevelsInOrder
    BY <2>3 DEF LevelsStaySorted, SortedLevels, LevelsInOrder
  <2> QED BY <2>4, <2>5, <2>6, <2>7, <2>8 DEF Inv
<1>2. Inv /\ [Next]_vars => Inv'
  <2> SUFFICES ASSUME Inv, [Next]_vars PROVE Inv'
    OBVIOUS
  <2>1. ASSUME NEW k \in Keys, Put(k) PROVE Inv'
    <3>1. Write(k, "PUT") /\ dels' \in Nat
      BY <2>1 DEF Put, Inv, Types
    <3> QED BY <3>1, WriteStep
  <2>2. ASSUME NEW k \in Keys, Del(k) PROVE Inv'
    <3>1. Write(k, "DELETE") /\ dels' \in Nat
      BY <2>2 DEF Del, Inv, Types
    <3> QED BY <3>1, WriteStep
  <2>3. CASE CheckFlush
    <3>1. HandOver /\ flushDue' \in BOOLEAN /\ flushes' \in Nat
      BY <2>3 DEF CheckFlush, Inv, Types
    <3> QED BY <3>1, HandOverStep
  <2>4. CASE Flush
    <3>1. HandOver /\ flushDue' \in BOOLEAN /\ flushes' \in Nat
      BY <2>4 DEF Flush, Inv, Types
    <3> QED BY <3>1, HandOverStep
  <2>5. CASE FlushThread
    BY <2>5, FlushThreadStep
  <2>6. ASSUME NEW l \in 0..2, Compact(l) PROVE Inv'
    BY <2>6, CompactStep
  <2>7. CASE Reopen
    BY <2>7, ReopenStep
  <2>8. CASE UNCHANGED vars
    BY <2>8 DEF vars, Inv, Types, Files, Saved, Recency, LevelsStaySorted, LevelsInOrder
  <2> QED BY <2>1, <2>2, <2>3, <2>4, <2>5, <2>6, <2>7, <2>8 DEF Next
<1> QED BY <1>1, <1>2, PTL DEF Spec

\* What get() takes for granted of the levels holds after every sequence of
\* writes, hand-overs, flushes, compactions and restarts.
THEOREM LevelsCorrect == Spec => []LevelsSound
<1>1. Inv => LevelsSound
  <2> SUFFICES ASSUME Inv PROVE LevelsSound
    OBVIOUS
  <2>1. \A t \in {memtable} \cup immutable \cup Range(tables) : IsTable(t, Keys)
    BY DEF Inv, Types, Range
  <2>2. \A t : IsTable(t, Keys) => DOMAIN t \subseteq Keys /\ Range(t) \subseteq Entry
    BY DEF IsTable, Range
  <2>3. Cardinality(immutable) <= 1
    <3>1. CASE immutable = {}
      BY <3>1, FS_EmptySet
    <3>2. CASE immutable # {}
      <4>1. PICK t \in immutable : immutable = {t}
        BY <3>2 DEF Inv, Types
      <4>2. Cardinality({t}) = 1
        BY FS_Singleton
      <4> QED BY <4>1, <4>2
    <3> QED BY <3>1, <3>2
  <2>4. \A l \in Levels : Range(version.levels[l]) \subseteq Metas
    BY MetasBounded
  <2>5. TypeOK
    BY <2>1, <2>2, <2>3, <2>4 DEF Inv, Types, Files, TypeOK
  <2> QED BY <2>5 DEF Inv, LevelsSound
<1> QED BY <1>1, InvCorrect, PTL

-----------------------------------------------------------------------------
(* The numbers of the writes: the engine as a map, which KVStore describes, *)
(* takes them for the values written.                                      *)

\* Two tables that hold a key with the same number hold the same entry.
Once ==
    \A i, j \in DOMAIN tables : \A k \in DOMAIN tables[i] \cap DOMAIN tables[j] :
        tables[i][k].seq = tables[j][k].seq => tables[i][k] = tables[j][k]

\* No number is 0, which stands for no value.
Numbered ==
    /\ seq >= 1
    /\ \A m \in saved : m.seq >= 1
    /\ \A id \in DOMAIN tables : \A k \in DOMAIN tables[id] : tables[id][k].seq >= 1
    /\ \A t \in {memtable} \cup immutable : \A k \in DOMAIN t : t[k].seq >= 1
    /\ \A r \in Range(log) : r.seq >= 1

\* Until the first hand-over the log has the whole memtable.
LogKept == linked => memtable = Replayed(log)

Values == Once /\ Numbered /\ LogKept

\* A write, in the memtable as in what a replay of the log would give.
LEMMA ReplayedAppend ==
    ASSUME NEW r \in Records, log \in Seq(Records)
    PROVE  Replayed(Append(log, r)) =
               PutEntry(Replayed(log), r.key, [seq |-> r.seq, type |-> r.type])
<1> DEFINE s == Append(log, r)
           P(k) == {i \in DOMAIN log : log[i].key = k}
           Q(k) == {i \in DOMAIN s : s[i].key = k}
           a == Replayed(log)
           b == Replayed(s)
           n == Len(log)
<1>1. /\ n \in Nat /\ DOMAIN log = 1..n /\ DOMAIN s = 1..(n + 1)
      /\ s[n + 1] = r /\ \A i \in 1..n : s[i] = log[i]
  OBVIOUS
<1>2. Range(s) = Range(log) \cup {r}
  BY AppendRange
<1>3. /\ DOMAIN a = {x.key : x \in Range(log)}
      /\ \A k \in DOMAIN a : a[k] = [seq |-> log[Max(P(k))].seq, type |-> log[Max(P(k))].type]
  BY DEF Replayed
<1>4. /\ DOMAIN b = {x.key : x \in Range(s)} /\ b = [k \in DOMAIN b |-> b[k]]
      /\ \A k \in DOMAIN b : b[k] = [seq |-> s[Max(Q(k))].seq, type |-> s[Max(Q(k))].type]
  BY DEF Replayed
<1> HIDE DEF s, a, b, n
<1>5. DOMAIN b = DOMAIN a \cup {r.key}
  BY <1>2, <1>3, <1>4
<1>6. b[r.key] = [seq |-> r.seq, type |-> r.type]
  <2>1. /\ n + 1 \in Q(r.key) /\ Q(r.key) \in SUBSET Nat /\ n + 1 \in Nat
        /\ \A i \in Q(r.key) : i <= n + 1
    BY <1>1
  <2> HIDE DEF Q
  <2>2. Max(Q(r.key)) \in Q(r.key) /\ \A i \in Q(r.key) : i <= Max(Q(r.key))
    BY <2>1, MaxNat
  <2>3. Max(Q(r.key)) = n + 1
    BY <2>1, <2>2
  <2> QED BY <1>1, <1>4, <1>5, <2>3
<1>7. ASSUME NEW k \in DOMAIN a, k # r.key
      PROVE  b[k] = a[k]
  <2>1. Q(k) = P(k)
    BY <1>1, <1>7
  <2>2. PICK i \in DOMAIN log : log[i].key = k
    BY <1>3 DEF Range
  <2>3. i \in P(k) /\ P(k) \in SUBSET Nat /\ \A j \in P(k) : j <= n
    BY <1>1, <2>2
  <2>4. Max(P(k)) \in P(k)
    BY <1>1, <2>3, MaxNat
  <2>5. s[Max(Q(k))] = log[Max(P(k))]
    BY <1>1, <2>1, <2>4
  <2> HIDE DEF P, Q
  <2> QED BY <1>3, <1>4, <1>5, <2>5, ZenonT(60)
<1>8. b = PutEntry(a, r.key, [seq |-> r.seq, type |-> r.type])
  BY <1>4, <1>5, <1>6, <1>7 DEF PutEntry, With
<1> QED BY <1>8 DEF a, b, s

\* A new table has what other tables had, or what no table has.
LEMMA OnceKept ==
    ASSUME Inv, Values, NEW kept \in SUBSET DOMAIN tables, NEW id,
           DOMAIN tables' = kept \cup {id}, \A i \in kept : tables'[i] = tables[i],
           \A k \in DOMAIN tables'[id] :
               \/ TablesBefore(tables, tables'[id][k].seq) /\ tables'[id][k].seq \in Nat
               \/ \E i \in DOMAIN tables :
                      k \in DOMAIN tables[i] /\ tables'[id][k] = tables[i][k]
    PROVE  Once'
<1> SUFFICES ASSUME NEW i \in DOMAIN tables', NEW j \in DOMAIN tables',
                    NEW k \in DOMAIN tables'[i] \cap DOMAIN tables'[j],
                    tables'[i][k].seq = tables'[j][k].seq
             PROVE  tables'[i][k] = tables'[j][k]
  BY DEF Once
<1>1. \A p \in DOMAIN tables : \A x \in DOMAIN tables[p] : tables[p][x].seq \in Nat
  BY DEF Inv, Types, IsTable, Entry
<1>2. \A p, q \in DOMAIN tables : \A x \in DOMAIN tables[p] \cap DOMAIN tables[q] :
          tables[p][x].seq = tables[q][x].seq => tables[p][x] = tables[q][x]
  BY DEF Values, Once
<1>3. CASE i = id /\ j = id
  BY <1>3
<1>4. CASE i = id /\ j \in kept
  BY <1>1, <1>2, <1>4 DEF TablesBefore
<1>5. CASE i \in kept /\ j = id
  BY <1>1, <1>2, <1>5 DEF TablesBefore
<1>6. CASE i \in kept /\ j \in kept
  BY <1>2, <1>6
<1> QED BY <1>3, <1>4, <1>5, <1>6

\* Every operation keeps the numbers apart and the log good.
LEMMA ValuesStep ==
    ASSUME Inv, Inv', Values, [Next]_vars
    PROVE  Values'
<1>1. /\ seq \in Nat /\ seq >= 1 /\ log \in Seq(Records)
      /\ \A id \in DOMAIN tables : IsTable(tables[id], Keys)
  BY DEF Inv, Types, Values, Numbered
<1>2. ASSUME NEW k \in Keys, NEW type \in {"PUT", "DELETE"}, Write(k, type)
      PROVE  Values'
  <2> DEFINE e == [seq |-> seq, type |-> type]
             r == [key |-> k, seq |-> seq, type |-> type]
  <2>1. /\ memtable' = PutEntry(memtable, k, e) /\ seq' = seq + 1
        /\ log' = IF linked THEN Append(log, r) ELSE log
        /\ UNCHANGED <<immutable, version, tables, counter, saved, linked>>
    BY <1>2 DEF Write, treeVars
  <2>2. r \in Records /\ r.key = k /\ [seq |-> r.seq, type |-> r.type] = e
    BY <1>1 DEF Records
  <2>3. Once'
    BY <2>1 DEF Values, Once
  <2>4. LogKept'
    <3> HIDE DEF e, r
    <3>1. CASE linked
      <4>1. Replayed(log') = PutEntry(Replayed(log), k, e)
        BY <1>1, <2>1, <2>2, <3>1, ReplayedAppend
      <4> QED BY <2>1, <3>1, <4>1 DEF Values, LogKept
    <3> QED BY <2>1, <3>1 DEF LogKept
  <2>5. \A x \in Range(log') : x.seq >= 1
    <3>1. Range(Append(log, r)) = Range(log) \cup {r}
      BY <1>1, <2>2, AppendRange
    <3>2. \A x \in Range(log) : x.seq >= 1
      BY DEF Values, Numbered
    <3>3. r.seq >= 1
      BY <1>1
    <3> HIDE DEF r
    <3> QED BY <2>1, <3>1, <3>2, <3>3
  <2>6. \A j \in DOMAIN memtable' : memtable'[j].seq >= 1
    <3>1. \A j \in DOMAIN memtable' :
              memtable'[j] = e \/ (j \in DOMAIN memtable /\ memtable'[j] = memtable[j])
      <4> HIDE DEF e
      <4> QED BY <2>1 DEF PutEntry, With
    <3>2. e.seq >= 1
      BY <1>1
    <3> HIDE DEF e
    <3> QED BY <3>1, <3>2 DEF Values, Numbered
  <2>7. Numbered'
    BY <1>1, <2>1, <2>5, <2>6 DEF Values, Numbered
  <2> QED BY <2>3, <2>4, <2>7 DEF Values
<1>3. ASSUME HandOver PROVE Values'
  <2>1. /\ immutable' = {memtable} /\ memtable' = EmptyTable
        /\ log' = <<>> /\ linked' = FALSE
        /\ UNCHANGED <<version, tables, counter, saved, seq>>
    BY <1>3 DEF HandOver, treeVars
  <2>2. DOMAIN memtable' = {} /\ Range(log') = {}
    BY <2>1, EmptyIsTable DEF Range
  <2> QED BY <2>1, <2>2 DEF Values, Once, Numbered, LogKept
<1>4. ASSUME FlushThread PROVE Values'
  <2>1. PICK t \in immutable :
            /\ IsTable(t, Keys) /\ immutable = {t} /\ immutable' = {}
            /\ UNCHANGED <<memtable, flushDue, seq, log, linked, dels, flushes, reopens>>
            /\ \/ t = EmptyTable /\ UNCHANGED treeVars
               \/ t # EmptyTable /\ \E meta : Flushing(t, meta)
    BY <1>4, FlushFacts
  <2>2. CASE UNCHANGED treeVars
    BY <2>1, <2>2 DEF Values, Once, Numbered, LogKept, treeVars
  <2>3. ASSUME NEW meta, Flushing(t, meta) PROVE Values'
    <3>1. /\ DOMAIN tables' = DOMAIN tables \cup {counter + 1}
          /\ tables'[counter + 1] = t
          /\ \A i \in DOMAIN tables : tables'[i] = tables[i]
          /\ saved' = {[counter |-> counter', seq |-> seq, levels |-> version'.levels]}
      BY <2>3 DEF Flushing
    <3>2. \A k \in DOMAIN t : /\ TablesBefore(tables, t[k].seq) /\ t[k].seq \in Nat
                              /\ t[k].seq >= 1
      BY <2>1 DEF Inv, Recency, IsTable, Entry, Values, Numbered
    <3>3. Once'
      <4> DEFINE id == counter + 1
                 kept == DOMAIN tables
      <4>1. /\ DOMAIN tables' = kept \cup {id} /\ kept \in SUBSET DOMAIN tables
            /\ \A i \in kept : tables'[i] = tables[i]
            /\ \A k \in DOMAIN tables'[id] :
                   TablesBefore(tables, tables'[id][k].seq) /\ tables'[id][k].seq \in Nat
        BY <3>1, <3>2
      <4> HIDE DEF id, kept
      <4> QED BY <4>1, OnceKept
    <3>4. LogKept'
      BY <2>1 DEF Values, LogKept
    <3>5. Numbered'
      BY <1>1, <2>1, <3>1, <3>2 DEF Values, Numbered
    <3> QED BY <3>3, <3>4, <3>5 DEF Values
  <2> QED BY <2>1, <2>2, <2>3
<1>5. ASSUME NEW l \in 0..2, Compact(l) PROVE Values'
  <2> DEFINE ids == CompactionInputs(version, l)
             id == counter + 1
             kept == DOMAIN tables \ ids
  <2>1. /\ CanCompact(version, l)
        /\ saved' = {[counter |-> counter', seq |-> seq, levels |-> version'.levels]}
        /\ UNCHANGED <<memtable, immutable, seq, log, linked>>
    BY <1>5, CompactFacts
  <2>2. PICK merged, meta : Compaction(l, ids, merged, meta)
    BY <1>5, CompactFacts
  <2>3. ids \subseteq DOMAIN tables
    BY <2>1, InputFiles
  <2> HIDE DEF ids
  <2>4. /\ DOMAIN tables' = kept \cup {id} /\ kept \in SUBSET DOMAIN tables
        /\ \A i \in kept : tables'[i] = tables[i]
        /\ tables'[id] = merged
    BY <2>2 DEF Compaction
  <2>5. \A k \in DOMAIN tables'[id] : \E i \in DOMAIN tables :
            k \in DOMAIN tables[i] /\ tables'[id][k] = tables[i][k]
    BY <2>2, <2>3, <2>4 DEF Compaction, Merged
  <2> HIDE DEF id, kept
  <2>6. Once'
    BY <2>4, <2>5, OnceKept
  <2>7. LogKept'
    BY <2>1 DEF Values, LogKept
  <2>8. Numbered'
    BY <1>1, <2>1, <2>4, <2>5 DEF Values, Numbered
  <2> QED BY <2>6, <2>7, <2>8 DEF Values
<1>6. ASSUME Reopen PROVE Values'
  <2>1. /\ memtable' = Replayed(log)
        /\ UNCHANGED <<immutable, tables, log, saved>>
    BY <1>6 DEF Reopen
  <2>2. \A k \in DOMAIN memtable' : memtable'[k].seq >= 1
    <3>1. log \in Seq([key : Keys, seq : Nat, type : {"PUT", "DELETE"}])
      BY <1>1 DEF Records
    <3>2. FromLog(log, Replayed(log))
      BY <3>1, ReplayedTable
    <3> QED BY <2>1, <3>2 DEF FromLog, Values, Numbered
  <2>3. seq' >= 1
    <3>1. CASE log = <<>>
      <4>1. CASE saved = {}
        BY <1>6, <3>1, <4>1 DEF Reopen
      <4>2. CASE saved # {}
        <5>1. seq' = (CHOOSE m \in saved : TRUE).seq
          BY <1>6, <3>1, <4>2 DEF Reopen
        <5>2. (CHOOSE m \in saved : TRUE) \in saved
          BY <4>2
        <5> QED BY <5>1, <5>2 DEF Values, Numbered
      <4> QED BY <4>1, <4>2
    <3>2. CASE log # <<>>
      <4>1. 1 \in DOMAIN log
        BY <1>1, <3>2
      <4>2. log[1] \in Range(log)
        BY <4>1 DEF Range
      <4>3. log[1].seq < seq' /\ seq' \in Nat /\ log[1].seq \in Nat
        BY <1>6, <4>2, ReopenCounters, LogRecord
      <4> QED BY <4>3
    <3> QED BY <3>1, <3>2
  <2> QED BY <2>1, <2>2, <2>3 DEF Values, Once, Numbered, LogKept
<1>7. CASE UNCHANGED vars
  BY <1>7 DEF vars, Values, Once, Numbered, LogKept
<1> QED BY <1>2, <1>3, <1>4, <1>5, <1>6, <1>7
        DEF Next, Put, Del, CheckFlush, Flush

-----------------------------------------------------------------------------
(* What get() returns, in terms of the tables.                             *)

\* The value of an entry for the caller of get().
Shown(e) == IF e.type = "PUT" THEN e.seq ELSE 0

\* The value of key k according to the tables alone.
Settled(v, ts, k) == Value(Visible(Newest(Stored(v, ts, k))))

View ==
    \A k \in Keys :
        /\ k \in DOMAIN memtable => Contents[k] = Shown(memtable[k])
        /\ k \notin DOMAIN memtable => Contents[k] = Below[k]
        /\ \A t \in immutable : k \in DOMAIN t => Below[k] = Shown(t[k])
        /\ (\A t \in immutable : k \notin DOMAIN t) => Below[k] = Settled(version, tables, k)

\* What get() makes of the one entry it found.
LEMMA ShownValue ==
    ASSUME NEW e
    PROVE  Value(Visible({e})) = Shown(e)
<1>1. CASE e.type = "PUT"
  <2>1. Visible({e}) = {e}
    BY <1>1 DEF Visible
  <2>2. (CHOOSE x \in {e} : TRUE) = e
    OBVIOUS
  <2> QED BY <1>1, <2>1, <2>2 DEF Value, Shown
<1>2. CASE e.type # "PUT"
  <2>1. Visible({e}) = {}
    BY <1>2 DEF Visible
  <2> QED BY <1>2, <2>1 DEF Value, Shown
<1> QED BY <1>1, <1>2

\* The versions the engine makes are what get() expects.
LEMMA InvReadable ==
    ASSUME Inv
    PROVE  /\ Readable(version, tables) /\ version \in Versions(Metas)
           /\ \A k : \A e : e \in Stored(version, tables, k) <=>
                  \E l \in Levels : \E m \in Range(version.levels[l]) :
                      k \in DOMAIN tables[m.id] /\ e = tables[m.id][k]
           /\ \A l \in Levels : \A m \in Range(version.levels[l]) : m.id \in DOMAIN tables
           /\ \A k : \A e \in Stored(version, tables, k) : e.seq \in Nat
<1>1. \A l \in Levels : \A m \in Range(version.levels[l]) :
          /\ m.id \in version.sstables /\ Bounded(m) /\ Describes(m, tables[m.id])
          /\ m.id \in DOMAIN tables
  BY MetasBounded DEF Inv, Files
<1>2. \A id \in DOMAIN tables : \A k \in DOMAIN tables[id] :
          k \in Nat /\ tables[id][k].seq \in Nat
  BY LsmAssumption, SMTT(30) DEF Inv, Types, IsTable, Entry
<1>3. SortedLevels(version)
  BY DEF Inv, LevelsStaySorted
<1>4. \A l \in Levels : \A k : \A e : e \in Found(version, tables, l, k) <=>
          \E m \in Range(version.levels[l]) : k \in DOMAIN tables[m.id] /\ e = tables[m.id][k]
  BY DEF Found
<1>5. ASSUME NEW p \in Levels, NEW q \in Levels, p < q, NEW k,
             NEW e \in Found(version, tables, p, k), NEW f \in Found(version, tables, q, k)
      PROVE  e.seq > f.seq
  <2>1. PICK a \in Range(version.levels[p]) :
            k \in DOMAIN tables[a.id] /\ e = tables[a.id][k]
    BY <1>4
  <2>2. PICK b \in Range(version.levels[q]) :
            k \in DOMAIN tables[b.id] /\ f = tables[b.id][k]
    BY <1>4
  <2> QED BY <1>5, <2>1, <2>2 DEF Inv, LevelsInOrder
<1>6. Readable(version, tables)
  BY <1>1, <1>2, <1>3, <1>5 DEF Readable, NotOlder
<1>7. \A k : \A e : e \in Stored(version, tables, k) <=>
          \E l \in Levels : \E m \in Range(version.levels[l]) :
              k \in DOMAIN tables[m.id] /\ e = tables[m.id][k]
  BY <1>4 DEF Stored
<1>8. \A k : \A e \in Stored(version, tables, k) : e.seq \in Nat
  BY <1>1, <1>2, <1>7
<1>9. version \in Versions(Metas)
  BY DEF Inv, Types
<1> QED BY <1>1, <1>6, <1>7, <1>8, <1>9

\* get() returns the entry of the memtable, else of the immutable one, else
\* the newest of the tables.
LEMMA InvView == Inv => View
<1> SUFFICES ASSUME Inv, NEW k \in Keys
             PROVE  /\ k \in DOMAIN memtable => Contents[k] = Shown(memtable[k])
                    /\ k \notin DOMAIN memtable => Contents[k] = Below[k]
                    /\ \A t \in immutable : k \in DOMAIN t => Below[k] = Shown(t[k])
                    /\ (\A t \in immutable : k \notin DOMAIN t) =>
                           Below[k] = Settled(version, tables, k)
  BY DEF View
<1> DEFINE U == UNION {EntryOf(t, k) : t \in immutable}
           L(c) == Lookup(version, tables, k, c)
           st == Stored(version, tables, k)
<1>1. /\ Readable(version, tables) /\ version \in Versions(Metas)
      /\ \A e : e \in st <=>
             \E l \in Levels : \E m \in Range(version.levels[l]) :
                 k \in DOMAIN tables[m.id] /\ e = tables[m.id][k]
      /\ \A l \in Levels : \A m \in Range(version.levels[l]) : m.id \in DOMAIN tables
      /\ \A e \in st : e.seq \in Nat
  BY InvReadable
<1>2. /\ Contents[k] = Value(Visible(L(Newest(EntryOf(memtable, k) \cup U))))
      /\ Below[k] = Value(Visible(L(U)))
  BY DEF Contents, Get, Candidate, Below
<1>3. \A n : TablesBefore(tables, n) => \A e \in st : e.seq < n
  BY <1>1 DEF TablesBefore
<1>4. L({}) = Newest(st)
  BY <1>1, LookupStored
<1>5. ASSUME NEW e, e.seq \in Nat, TablesBefore(tables, e.seq)
      PROVE  L({e}) = {e}
  BY <1>1, <1>3, <1>5, LookupCandidate DEF NotOlder
<1> HIDE DEF L, st
<1>6. ASSUME NEW t \in immutable, k \in DOMAIN t
      PROVE  U = {t[k]} /\ t[k].seq \in Nat /\ L(U) = {t[k]}
  <2>1. U = {t[k]}
    BY <1>6 DEF Inv, Types, EntryOf
  <2>2. t[k].seq \in Nat
    BY <1>6 DEF Inv, Types, IsTable, Entry
  <2>3. TablesBefore(tables, t[k].seq)
    BY <1>6 DEF Inv, Recency
  <2>4. L({t[k]}) = {t[k]}
    BY <1>5, <2>2, <2>3
  <2> QED BY <2>1, <2>2, <2>4
<1>7. (\A t \in immutable : k \notin DOMAIN t) => U = {}
  BY DEF EntryOf
<1>8. U = {} \/ \E t \in immutable : k \in DOMAIN t
  BY <1>7
<1>9. ASSUME NEW t \in immutable, k \in DOMAIN t PROVE Below[k] = Shown(t[k])
  <2>1. L(U) = {t[k]}
    BY <1>6, <1>9
  <2> HIDE DEF U
  <2> QED BY <1>2, <2>1, ShownValue
<1>10. (\A t \in immutable : k \notin DOMAIN t) => Below[k] = Settled(version, tables, k)
  <2> HIDE DEF U
  <2> QED BY <1>2, <1>4, <1>7 DEF Settled, st
<1>11. ASSUME k \in DOMAIN memtable PROVE Contents[k] = Shown(memtable[k])
  <2> DEFINE e == memtable[k]
  <2>1. e.seq \in Nat /\ TablesBefore(tables, e.seq)
    BY <1>11 DEF Inv, Types, Recency, IsTable, Entry
  <2>2. \A f \in U : f.seq \in Nat /\ f.seq < e.seq
    <3>1. CASE U = {}
      BY <3>1
    <3>2. ASSUME NEW t \in immutable, k \in DOMAIN t
          PROVE  \A f \in U : f.seq \in Nat /\ f.seq < e.seq
      <4>1. U = {t[k]} /\ t[k].seq \in Nat
        BY <1>6, <3>2
      <4>2. t[k].seq < e.seq
        BY <1>11, <3>2 DEF Inv, Recency
      <4> QED BY <4>1, <4>2
    <3> QED BY <3>1, <3>2, <1>8
  <2>3. EntryOf(memtable, k) = {e}
    BY <1>11 DEF EntryOf
  <2> HIDE DEF e, U
  <2>4. Newest({e} \cup U) = {e}
    BY <2>1, <2>2 DEF Newest
  <2>5. L({e}) = {e}
    BY <1>5, <2>1
  <2>6. Contents[k] = Value(Visible({e}))
    BY <1>2, <2>3, <2>4, <2>5
  <2> QED BY <2>6, ShownValue DEF e
<1>12. ASSUME k \notin DOMAIN memtable PROVE Contents[k] = Below[k]
  <2>1. EntryOf(memtable, k) = {}
    BY <1>12 DEF EntryOf
  <2>2. Newest(U) = U
    <3>1. CASE U = {}
      BY <3>1 DEF Newest
    <3>2. ASSUME NEW t \in immutable, k \in DOMAIN t PROVE Newest(U) = U
      <4>1. U = {t[k]} /\ t[k].seq \in Nat
        BY <1>6, <3>2
      <4> HIDE DEF U
      <4> QED BY <4>1 DEF Newest
    <3> QED BY <3>1, <3>2, <1>8
  <2> HIDE DEF U
  <2>3. EntryOf(memtable, k) \cup U = U
    BY <2>1
  <2> QED BY <1>2, <2>2, <2>3
<1> QED BY <1>9, <1>10, <1>11, <1>12

\* The same, after a step.
LEMMA InvViewNext == Inv' => View'
BY InvView, PTL

-----------------------------------------------------------------------------
(* Every step is one of KVStore.                                           *)

\* The files in which an entry is found.
LEMMA StoredEntry ==
    ASSUME NEW v, NEW ts, NEW k, NEW e
    PROVE  e \in Stored(v, ts, k) <=>
               \E l \in Levels : \E m \in Range(v.levels[l]) :
                   k \in DOMAIN ts[m.id] /\ e = ts[m.id][k]
BY DEF Stored, Found

\* get() returns the same for every key.
LEMMA SameContents ==
    ASSUME \A k \in Keys : Contents'[k] = Contents[k]
    PROVE  Contents' = Contents
BY DEF Contents

\* The same without the memtable.
LEMMA SameBelow ==
    ASSUME \A k \in Keys : Below'[k] = Below[k]
    PROVE  Below' = Below
BY DEF Below

\* put and del
LEMMA WriteRefined ==
    ASSUME Inv, Inv', NEW k \in Keys, NEW type \in {"PUT", "DELETE"}, Write(k, type)
    PROVE  KV!Write(k, IF type = "PUT" THEN seq ELSE 0)
<1> DEFINE e == [seq |-> seq, type |-> type]
<1>1. View /\ View'
  BY InvView, InvViewNext
<1>2. /\ memtable' = PutEntry(memtable, k, e) /\ seq' = seq + 1 /\ seq \in Nat
      /\ UNCHANGED <<immutable, version, tables, linked>>
  BY DEF Write, treeVars, Inv, Types
<1>3. Shown(e) = IF type = "PUT" THEN seq ELSE 0
  BY DEF Shown
<1> HIDE DEF e
<1>4. /\ DOMAIN memtable' = DOMAIN memtable \cup {k} /\ memtable'[k] = e
      /\ \A j \in DOMAIN memtable : j # k => memtable'[j] = memtable[j]
  BY <1>2 DEF PutEntry, With
<1>5. Below' = Below
  BY <1>2 DEF Below
<1>6. Contents'[k] = Shown(e)
  BY <1>1, <1>4 DEF View
<1>7. \A j \in Keys : j # k => Contents'[j] = Contents[j]
  <2> SUFFICES ASSUME NEW j \in Keys, j # k PROVE Contents'[j] = Contents[j]
    OBVIOUS
  <2>1. CASE j \in DOMAIN memtable
    BY <1>1, <1>4, <2>1 DEF View
  <2>2. CASE j \notin DOMAIN memtable
    BY <1>1, <1>4, <1>5, <2>2 DEF View
  <2> QED BY <2>1, <2>2
<1>8. Contents' = [Contents EXCEPT ![k] = Shown(e)]
  <2>1. /\ DOMAIN Contents = Keys /\ DOMAIN Contents' = Keys
        /\ Contents' = [j \in Keys |-> Contents'[j]]
    BY DEF Contents
  <2> HIDE DEF Contents
  <2> QED BY <2>1, <1>6, <1>7
<1> QED BY <1>2, <1>3, <1>5, <1>8 DEF KV!Write

\* checkFlush: what get() returns is now independent of the memtable.
LEMMA HandOverRefined ==
    ASSUME Inv, Inv', HandOver
    PROVE  KV!HandOver
<1>1. View /\ View'
  BY InvView, InvViewNext
<1>2. /\ immutable = {} /\ immutable' = {memtable} /\ memtable' = EmptyTable
      /\ linked' = FALSE /\ UNCHANGED <<version, tables, seq>>
  BY DEF HandOver, treeVars
<1>3. DOMAIN memtable' = {}
  BY <1>2, EmptyIsTable
<1>4. \A k \in Keys : Contents'[k] = Contents[k] /\ Below'[k] = Contents[k]
  <2> TAKE k \in Keys
  <2>1. Contents'[k] = Below'[k]
    BY <1>1, <1>3 DEF View
  <2>2. CASE k \in DOMAIN memtable
    BY <1>1, <1>2, <2>1, <2>2 DEF View
  <2>3. CASE k \notin DOMAIN memtable
    <3>1. Contents[k] = Settled(version, tables, k)
      BY <1>1, <1>2, <2>3 DEF View
    <3>2. Below'[k] = Settled(version', tables', k)
      BY <1>1, <1>2, <2>3 DEF View
    <3> QED BY <1>2, <2>1, <3>1, <3>2
  <2> QED BY <2>2, <2>3
<1>5. Contents' = Contents
  BY <1>4, SameContents
<1>6. Below' = Contents
  <2>1. /\ Below' = [k \in Keys |-> Below'[k]] /\ Contents = [k \in Keys |-> Contents[k]]
    BY DEF Below, Contents
  <2> QED BY <1>4, <2>1
<1> QED BY <1>2, <1>5, <1>6 DEF KV!HandOver

\* flushThreadLoop: get() finds in the new table what it found in the memtable.
LEMMA FlushRefined ==
    ASSUME Inv, Inv', Values, FlushThread
    PROVE  Contents' = Contents /\ Below' = Below /\ UNCHANGED <<linked, seq>>
<1>1. View /\ View'
  BY InvView, InvViewNext
<1>2. PICK t \in immutable :
          /\ IsTable(t, Keys) /\ immutable = {t} /\ immutable' = {}
          /\ UNCHANGED <<memtable, flushDue, seq, log, linked, dels, flushes, reopens>>
          /\ \/ t = EmptyTable /\ UNCHANGED treeVars
             \/ t # EmptyTable /\ \E meta : Flushing(t, meta)
  BY FlushFacts
<1>3. ASSUME NEW k \in Keys, k \notin DOMAIN t,
             Stored(version', tables', k) = Stored(version, tables, k)
      PROVE  Below'[k] = Below[k]
  <2>1. Below[k] = Settled(version, tables, k)
    BY <1>1, <1>2, <1>3 DEF View
  <2>2. Below'[k] = Settled(version', tables', k)
    BY <1>1, <1>2 DEF View
  <2> QED BY <1>3, <2>1, <2>2 DEF Settled
<1>4. \A k \in Keys : Below'[k] = Below[k]
  <2>1. CASE t = EmptyTable /\ UNCHANGED treeVars
    <3>1. DOMAIN t = {} /\ version' = version /\ tables' = tables
      BY <2>1, EmptyIsTable DEF treeVars
    <3> QED BY <1>3, <3>1
  <2>2. ASSUME NEW meta, Flushing(t, meta)
        PROVE  \A k \in Keys : Below'[k] = Below[k]
    <3> DEFINE id == counter + 1
    <3>1. /\ tables'[id] = t /\ meta.id = id /\ id \notin DOMAIN tables
          /\ \A i \in DOMAIN tables : tables'[i] = tables[i]
          /\ \A l \in Levels : l # 0 => version'.levels[l] = version.levels[l]
          /\ Range(version'.levels[0]) = Range(version.levels[0]) \cup {meta}
      BY <2>2 DEF Flushing
    <3> HIDE DEF id
    <3>2. 0 \in Levels
      BY DEF Levels
    <3>3. \A l \in Levels : \A m \in Range(version.levels[l]) :
              m.id \in DOMAIN tables /\ tables'[m.id] = tables[m.id]
      BY <3>1, InvReadable
    <3>4. \A k, e : e \in Stored(version', tables', k) <=>
              \/ e \in Stored(version, tables, k)
              \/ k \in DOMAIN t /\ e = t[k]
      <4> TAKE k, e
      <4>1. e \in Stored(version', tables', k) <=>
                \E l \in Levels : \E m \in Range(version'.levels[l]) :
                    k \in DOMAIN tables'[m.id] /\ e = tables'[m.id][k]
        BY StoredEntry
      <4>2. e \in Stored(version, tables, k) <=>
                \E l \in Levels : \E m \in Range(version.levels[l]) :
                    k \in DOMAIN tables[m.id] /\ e = tables[m.id][k]
        BY StoredEntry
      <4>3. ASSUME e \in Stored(version', tables', k)
            PROVE  e \in Stored(version, tables, k) \/ (k \in DOMAIN t /\ e = t[k])
        <5>1. PICK l \in Levels : \E m \in Range(version'.levels[l]) :
                  k \in DOMAIN tables'[m.id] /\ e = tables'[m.id][k]
          BY <4>1, <4>3
        <5>2. PICK m \in Range(version'.levels[l]) :
                  k \in DOMAIN tables'[m.id] /\ e = tables'[m.id][k]
          BY <5>1
        <5>3. m = meta \/ m \in Range(version.levels[l])
          BY <3>1
        <5> QED BY <3>1, <3>3, <4>2, <5>2, <5>3
      <4>4. ASSUME e \in Stored(version, tables, k)
            PROVE  e \in Stored(version', tables', k)
        <5>1. PICK l \in Levels : \E m \in Range(version.levels[l]) :
                  k \in DOMAIN tables[m.id] /\ e = tables[m.id][k]
          BY <4>2, <4>4
        <5>2. PICK m \in Range(version.levels[l]) :
                  k \in DOMAIN tables[m.id] /\ e = tables[m.id][k]
          BY <5>1
        <5>3. m \in Range(version'.levels[l])
          BY <3>1
        <5> QED BY <3>3, <4>1, <5>2, <5>3
      <4>5. ASSUME k \in DOMAIN t, e = t[k]
            PROVE  e \in Stored(version', tables', k)
        BY <3>1, <3>2, <4>1, <4>5
      <4> QED BY <4>3, <4>4, <4>5
    <3> TAKE k \in Keys
    <3>5. CASE k \notin DOMAIN t
      BY <1>3, <3>4, <3>5
    <3>6. CASE k \in DOMAIN t
      <4> DEFINE st == Stored(version, tables, k)
      <4>1. Stored(version', tables', k) = st \cup {t[k]}
        BY <3>4, <3>6
      <4>2. t[k].seq \in Nat /\ TablesBefore(tables, t[k].seq)
        BY <1>2, <3>6 DEF Inv, Recency, IsTable, Entry
      <4>3. \A e \in st : e.seq \in Nat /\ e.seq < t[k].seq
        BY <4>2, InvReadable DEF TablesBefore
      <4> HIDE DEF st
      <4>4. Newest(st \cup {t[k]}) = {t[k]}
        BY <4>2, <4>3 DEF Newest
      <4>5. Below'[k] = Settled(version', tables', k)
        BY <1>1, <1>2 DEF View
      <4>6. Below'[k] = Shown(t[k])
        BY <4>1, <4>4, <4>5, ShownValue DEF Settled
      <4>7. Below[k] = Shown(t[k])
        BY <1>1, <3>6 DEF View
      <4> QED BY <4>6, <4>7
    <3> QED BY <3>5, <3>6
  <2> QED BY <1>2, <2>1, <2>2
<1>5. \A k \in Keys : Contents'[k] = Contents[k]
  <2> TAKE k \in Keys
  <2>1. CASE k \in DOMAIN memtable
    BY <1>1, <1>2, <2>1 DEF View
  <2>2. CASE k \notin DOMAIN memtable
    BY <1>1, <1>2, <1>4, <2>2 DEF View
  <2> QED BY <2>1, <2>2
<1> QED BY <1>2, <1>4, <1>5, SameContents, SameBelow

\* The destructor and the constructor: the memtable comes back from the log,
\* or is lost after a hand-over.
LEMMA ReopenRefined ==
    ASSUME Inv, Inv', Values, Values', Reopen
    PROVE  KV!Restart
<1>1. View /\ View'
  BY InvView, InvViewNext
<1>2. /\ immutable = {} /\ memtable' = Replayed(log) /\ linked' = TRUE
      /\ UNCHANGED <<immutable, tables>>
  BY DEF Reopen
<1>3. version'.levels = version.levels
  BY ReopenCounters
<1>4. \A k : Stored(version', tables', k) = Stored(version, tables, k)
  BY <1>2, <1>3 DEF Stored, Found
<1>5. \A k \in Keys : /\ Below[k] = Settled(version, tables, k)
                      /\ Below'[k] = Settled(version', tables', k)
  BY <1>1, <1>2 DEF View
<1>6. \A k \in Keys : Below'[k] = Below[k]
  BY <1>4, <1>5 DEF Settled
<1>7. Below' = Below
  BY <1>6, SameBelow
<1>8. Contents' = IF linked THEN Contents ELSE Below
  <2>1. CASE linked
    <3>1. memtable' = memtable
      BY <1>2, <2>1 DEF Values, LogKept
    <3>2. \A k \in Keys : Contents'[k] = Contents[k]
      BY <1>1, <1>6, <3>1 DEF View
    <3> QED BY <2>1, <3>2, SameContents
  <2>2. CASE ~linked
    <3>1. log = <<>>
      BY <2>2 DEF Inv, Recency
    <3>2. DOMAIN memtable' = {}
      BY <1>2, <3>1 DEF Replayed, Range
    <3>3. \A k \in Keys : Contents'[k] = Below[k]
      BY <1>1, <1>6, <3>2 DEF View
    <3>4. Contents' = [k \in Keys |-> Contents'[k]] /\ Below = [k \in Keys |-> Below[k]]
      BY DEF Contents, Below
    <3> QED BY <2>2, <3>3, <3>4
  <2> QED BY <2>1, <2>2
<1>9. seq' \in Nat /\ seq' >= 1 /\ seq' - 1 \in Nat
  <2>1. seq' \in Nat
    BY DEF Inv, Types
  <2>2. seq' >= 1
    BY DEF Values, Numbered
  <2>3. PICK n \in Nat : n = seq'
    BY <2>1
  <2>4. n >= 1
    BY <2>2, <2>3
  <2>5. n - 1 \in Nat
    BY <2>4
  <2> QED BY <2>1, <2>2, <2>3, <2>5
<1>10. \A k \in Keys : Contents'[k] <= seq' - 1
  <2> TAKE k \in Keys
  <2>1. CASE k \in DOMAIN memtable'
    <3>1. memtable'[k].seq < seq' /\ memtable'[k].seq \in Nat
      BY <2>1 DEF Inv, Types, Recency, IsTable, Entry
    <3>2. Contents'[k] = Shown(memtable'[k])
      BY <1>1, <2>1 DEF View
    <3> QED BY <1>9, <3>1, <3>2 DEF Shown
  <2>2. CASE k \notin DOMAIN memtable'
    <3> DEFINE found == Visible(Newest(Stored(version', tables', k)))
    <3>1. Contents'[k] = Value(found)
      BY <1>1, <1>5, <2>2 DEF View, Settled
    <3>2. \A e \in found : e \in Stored(version, tables, k)
      BY <1>4 DEF Visible, Newest
    <3>3. \A e \in found : e.seq \in Nat /\ e.seq < seq'
      <4> TAKE e \in found
      <4>1. PICK l \in Levels : \E m \in Range(version.levels[l]) :
                k \in DOMAIN tables[m.id] /\ e = tables[m.id][k]
        BY <3>2, StoredEntry
      <4>2. PICK id \in DOMAIN tables : k \in DOMAIN tables[id] /\ e = tables[id][k]
        BY <4>1, InvReadable
      <4>3. e.seq \in Nat
        BY <3>2, InvReadable
      <4>4. \E n \in 0..seq' : TablesBefore(tables, n)
        BY <1>2, <4>2 DEF Inv, Saved
      <4> QED BY <1>9, <4>2, <4>3, <4>4 DEF TablesBefore
    <3> HIDE DEF found
    <3>4. CASE found = {}
      <4>1. Contents'[k] = 0
        BY <3>1, <3>4 DEF Value
      <4>2. PICK n \in Nat : n = seq' - 1
        BY <1>9
      <4>3. 0 <= n
        OBVIOUS
      <4> QED BY <4>1, <4>2, <4>3
    <3>5. CASE found # {}
      <4>1. (CHOOSE e \in found : TRUE) \in found
        BY <3>5
      <4> QED BY <1>9, <3>1, <3>3, <3>5, <4>1 DEF Value
    <3> QED BY <3>4, <3>5
  <2> QED BY <2>1, <2>2
<1>11. UNCHANGED (version.levels[2] # <<>> \/ version.levels[3] # <<>>)
  BY <1>3
<1> QED BY <1>2, <1>7, <1>8, <1>9, <1>10, <1>11 DEF KV!Restart

\* What a compaction of level l does to one key: get() finds the same entry, or
\* the key was deleted and the level it is found on now is below the next one.
LEMMA CompactedKey ==
    ASSUME Inv, Values, NEW l \in 0..2, CanCompact(version, l), NEW merged, NEW meta,
           Compaction(l, CompactionInputs(version, l), merged, meta), NEW k
    PROVE  \/ Newest(Stored(version', tables', k)) = Newest(Stored(version, tables, k))
           \/ /\ Visible(Newest(Stored(version, tables, k))) = {}
              /\ \A e \in Stored(version', tables', k) : e \in Stored(version, tables, k)
              /\ Stored(version', tables', k) # {} =>
                     version.levels[2] # <<>> \/ version.levels[3] # <<>>
<1> DEFINE ids == CompactionInputs(version, l)
           src == Sources(version, l) \cup Overlapping(version, l)
           old == Stored(version, tables, k)
           new == Stored(version', tables', k)
           In == {tables[i][k] : i \in {j \in ids : k \in DOMAIN tables[j]}}
           Rest(q) == {m \in Range(version.levels[q]) :
                          m.id \notin ids /\ k \in DOMAIN tables[m.id]}
           Out == UNION {{tables[m.id][k] : m \in Rest(q)} : q \in Levels}
<1>1. /\ l \in Levels /\ l + 1 \in Levels
      /\ Sources(version, l) \subseteq Range(version.levels[l])
      /\ Overlapping(version, l) \subseteq Range(version.levels[l + 1])
      /\ ids \subseteq DOMAIN tables
      /\ \A m \in src : m.id \in ids
      /\ \A i \in ids : \E m \in src : i = m.id
  BY InputFiles
<1>2. /\ \A l1 \in Levels : \A m \in Range(version.levels[l1]) : m.id \in DOMAIN tables
      /\ \A e \in old : e.seq \in Nat
  BY InvReadable
<1>3. \A e : e \in old <=>
          \E q \in Levels : \E m \in Range(version.levels[q]) :
              k \in DOMAIN tables[m.id] /\ e = tables[m.id][k]
  BY StoredEntry
<1>4. \A e : e \in new <=>
          \E q \in Levels : \E m \in Range(version'.levels[q]) :
              k \in DOMAIN tables'[m.id] /\ e = tables'[m.id][k]
  BY StoredEntry
<1> HIDE DEF ids, old, new
<1>5. /\ Merged(Keys, tables, ids, merged)
      /\ meta.id = counter + 1 /\ meta.level = l + 1
      /\ tables'[counter + 1] = merged
      /\ \A i \in DOMAIN tables \ ids : tables'[i] = tables[i]
      /\ Compacted(Metas, version, ids, meta, version')
  BY DEF Compaction, ids
<1>6. \A q \in Levels : \A m : m \in Range(version'.levels[q]) <=>
          \/ m \in Range(version.levels[q]) /\ m.id \notin ids
          \/ q = l + 1 /\ m = meta
  BY <1>5 DEF Compacted
<1>7. \A e : e \in In <=> \E m \in src : k \in DOMAIN tables[m.id] /\ e = tables[m.id][k]
  BY <1>1
<1>8. \A e : e \in Out <=> \E q \in Levels : \E m \in Rest(q) : e = tables[m.id][k]
  OBVIOUS
<1>9. old = In \cup Out
  <2>1. \A e \in In : e \in old
    BY <1>1, <1>3, <1>7
  <2>2. \A e \in Out : e \in old
    BY <1>3, <1>8
  <2>3. \A e \in old : e \in In \cup Out
    <3> TAKE e \in old
    <3>1. PICK q \in Levels : \E m \in Range(version.levels[q]) :
              k \in DOMAIN tables[m.id] /\ e = tables[m.id][k]
      BY <1>3
    <3>2. PICK m \in Range(version.levels[q]) :
              k \in DOMAIN tables[m.id] /\ e = tables[m.id][k]
      BY <3>1
    <3>3. CASE m.id \in ids
      BY <3>2, <3>3
    <3>4. CASE m.id \notin ids
      <4>1. m \in Rest(q)
        BY <3>2, <3>4
      <4> QED BY <1>8, <3>2, <4>1
    <3> QED BY <3>3, <3>4
  <2> HIDE DEF In, Out
  <2> QED BY <2>1, <2>2, <2>3
<1>10. new = Out \cup (IF k \in DOMAIN merged THEN {merged[k]} ELSE {})
  <2>1. \A e \in Out : e \in new
    <3> TAKE e \in Out
    <3>1. PICK q \in Levels : \E m \in Rest(q) : e = tables[m.id][k]
      BY <1>8
    <3>2. PICK m \in Rest(q) : e = tables[m.id][k]
      BY <3>1
    <3>3. m \in Range(version'.levels[q]) /\ tables'[m.id] = tables[m.id]
      BY <1>2, <1>5, <1>6
    <3> QED BY <1>4, <3>2, <3>3
  <2>2. k \in DOMAIN merged => merged[k] \in new
    BY <1>1, <1>4, <1>5, <1>6
  <2>3. \A e \in new : e \in Out \/ (k \in DOMAIN merged /\ e = merged[k])
    <3> TAKE e \in new
    <3>1. PICK q \in Levels : \E m \in Range(version'.levels[q]) :
              k \in DOMAIN tables'[m.id] /\ e = tables'[m.id][k]
      BY <1>4
    <3>2. PICK m \in Range(version'.levels[q]) :
              k \in DOMAIN tables'[m.id] /\ e = tables'[m.id][k]
      BY <3>1
    <3>3. CASE m = meta
      BY <1>5, <3>2, <3>3
    <3>4. CASE m \in Range(version.levels[q]) /\ m.id \notin ids
      <4>1. tables'[m.id] = tables[m.id]
        BY <1>2, <1>5, <3>4
      <4>2. m \in Rest(q)
        BY <3>2, <3>4, <4>1
      <4> QED BY <1>8, <3>2, <4>1, <4>2
    <3> QED BY <1>6, <3>3, <3>4
  <2> HIDE DEF Out
  <2> QED BY <2>1, <2>2, <2>3
<1>11. \A e \in In \cup Out : e.seq \in Nat
  BY <1>2, <1>9
<1>12. \A e, f \in In \cup Out : e.seq = f.seq => e = f
  <2>1. \A e \in old : \E i \in DOMAIN tables : k \in DOMAIN tables[i] /\ e = tables[i][k]
    BY <1>2, <1>3
  <2> HIDE DEF In, Out
  <2> QED BY <1>9, <2>1 DEF Values, Once
<1>13. CASE k \in DOMAIN merged
  <2>1. merged[k] \in In /\ \A e \in In : merged[k].seq >= e.seq
    BY <1>5, <1>13 DEF Merged
  <2> HIDE DEF In, Out
  <2>2. Newest(Out \cup {merged[k]}) = Newest(In \cup Out)
    BY <1>11, <1>12, <2>1, NewestMerged
  <2>3. new = Out \cup {merged[k]}
    BY <1>10, <1>13
  <2>4. Newest(new) = Newest(old)
    BY <1>9, <2>2, <2>3
  <2> QED BY <2>4 DEF old, new
<1>14. CASE k \notin DOMAIN merged /\ In = {}
  <2> HIDE DEF In, Out
  <2>1. new = old
    BY <1>9, <1>10, <1>14
  <2> QED BY <2>1 DEF old, new
<1>15. CASE k \notin DOMAIN merged /\ In # {}
  <2>1. new = Out
    <3> HIDE DEF Out
    <3> QED BY <1>10, <1>15
  <2>2. PICK d \in In : \A e \in In : d.seq >= e.seq
    <3> DEFINE N == {e.seq : e \in In}
    <3>1. N \in SUBSET Nat /\ N # {}
      BY <1>11, <1>15
    <3>2. seq \in Nat /\ \A n \in N : n <= seq
      <4>1. seq \in Nat
        BY DEF Inv, Types
      <4>2. \A e \in In : e.seq \in Nat /\ e.seq < seq
        <5> TAKE e \in In
        <5>1. PICK i \in DOMAIN tables : k \in DOMAIN tables[i] /\ e = tables[i][k]
          BY <1>1
        <5>2. PICK n \in 0..seq : TablesBefore(tables, n)
          BY <5>1 DEF Inv, Saved
        <5> QED BY <1>11, <4>1, <5>1, <5>2 DEF TablesBefore
      <4> HIDE DEF In
      <4> QED BY <4>1, <4>2
    <3>3. PICK n \in N : \A x \in N : x <= n
      <4> HIDE DEF N
      <4> QED BY <3>1, <3>2, LargestNatural
    <3>4. PICK d \in In : n = d.seq
      OBVIOUS
    <3>5. \A e \in In : d.seq >= e.seq
      <4> HIDE DEF In
      <4> QED BY <1>11, <3>3, <3>4
    <3> HIDE DEF In
    <3> QED BY <3>4, <3>5
  <2>3. PICK n \in src : k \in DOMAIN tables[n.id] /\ d = tables[n.id][k]
    BY <1>7
  <2>4. d.type # "PUT"
    <3>1. n.id \in ids
      BY <1>1
    <3>2. \A j \in ids : k \in DOMAIN tables[j] => tables[n.id][k].seq >= tables[j][k].seq
      BY <2>2, <2>3
    <3> QED BY <1>5, <1>15, <2>3, <3>1, <3>2 DEF Merged
  <2>5. \/ Newest(Out) = Newest(In \cup Out)
        \/ /\ Visible(Newest(In \cup Out)) = {}
           /\ \A e \in Out : e.seq <= d.seq
    <3> HIDE DEF In, Out
    <3> QED BY <1>11, <1>12, <2>2, <2>4, NewestDropped
  <2>6. CASE Newest(Out) = Newest(In \cup Out)
    <3> HIDE DEF In, Out
    <3>1. Newest(new) = Newest(old)
      BY <1>9, <2>1, <2>6
    <3> QED BY <3>1 DEF old, new
  <2>7. CASE /\ Visible(Newest(In \cup Out)) = {}
             /\ \A e \in Out : e.seq <= d.seq
    <3>1. \A q \in Levels : \A b \in Rest(q) : q > l + 1
      <4> SUFFICES ASSUME NEW q \in Levels, NEW b \in Rest(q), q <= l + 1 PROVE FALSE
        BY DEF Levels
      <4>1. /\ b \in Range(version.levels[q]) /\ b.id \notin ids
            /\ k \in DOMAIN tables[b.id] /\ tables[b.id][k] \in Out
        BY <1>8
      <4>2. tables[b.id][k].seq <= d.seq /\ d.seq \in Nat /\ tables[b.id][k].seq \in Nat
        BY <1>11, <2>2, <2>7, <4>1
      <4> HIDE DEF In, Out, Rest
      <4>3. /\ Describes(b, tables[b.id]) /\ Bounded(b) /\ k \in Nat
        <5>1. k \in Keys
          BY <1>2, <4>1 DEF Inv, Types, IsTable
        <5> QED BY <4>1, <5>1, MetasBounded, LsmAssumption DEF Inv, Files
      <4>4. /\ Describes(n, tables[n.id]) /\ Bounded(n)
        BY <1>1, MetasBounded DEF Inv, Files
      <4>5. /\ b.minKey <= k /\ k <= b.maxKey /\ n.minKey <= k /\ k <= n.maxKey
        BY <2>3, <4>1, <4>3, <4>4 DEF Describes
      <4>6. ~Apart(b, n)
        BY <4>3, <4>4, <4>5 DEF Apart, Bounded
      <4>7. CASE \E p \in Levels : q < p /\ n \in Range(version.levels[p])
        <5>1. tables[b.id][k].seq > tables[n.id][k].seq
          BY <2>3, <4>1, <4>7 DEF Inv, LevelsInOrder
        <5> QED BY <2>3, <4>2, <5>1
      <4>8. CASE q = l /\ n \in Sources(version, l)
        <5>1. b # n
          BY <1>1, <4>1
        <5>2. l # 0
          BY <1>1, <4>1, <4>8 DEF Sources, src
        <5>3. Ascending(version.levels[l]) /\ DOMAIN version.levels[l] \subseteq Nat
          <6>1. version.levels[l] \in Seq(Metas)
            BY <1>1 DEF Inv, Types, Versions
          <6>2. Ascending(version.levels[l])
            BY <1>1, <5>2 DEF Inv, LevelsStaySorted, SortedLevels, Ascending
          <6> QED BY <6>1, <6>2
        <5>4. n \in Range(version.levels[l]) /\ b \in Range(version.levels[l])
          BY <1>1, <4>1, <4>8
        <5> QED BY <4>6, <5>1, <5>3, <5>4, AscendingApart
      <4>9. CASE q = l + 1
        <5>1. b \in Range(version.levels[l + 1]) /\ b \notin Overlapping(version, l)
          BY <1>1, <4>1, <4>9
        <5>2. b.maxKey < n.minKey \/ n.maxKey < b.minKey
          BY <5>1, OutsideInputs
        <5> QED BY <4>6, <5>2 DEF Apart
      <4>10. q < l \/ q = l \/ q = l + 1
        BY <4>9 DEF Levels
      <4> QED BY <1>1, <4>7, <4>8, <4>9, <4>10 DEF src, Levels
    <3>2. \A e \in new : e \in old
      BY <1>9, <2>1
    <3>3. new # {} => version.levels[2] # <<>> \/ version.levels[3] # <<>>
      <4> SUFFICES ASSUME NEW e \in new
                   PROVE  version.levels[2] # <<>> \/ version.levels[3] # <<>>
        OBVIOUS
      <4>1. PICK q \in Levels : \E b \in Rest(q) : e = tables[b.id][k]
        BY <1>8, <2>1
      <4>2. PICK b \in Rest(q) : e = tables[b.id][k]
        BY <4>1
      <4>3. q = 2 \/ q = 3
        BY <3>1, <4>2 DEF Levels
      <4>4. version.levels[q] # <<>>
        BY <4>2 DEF Range
      <4> QED BY <4>3, <4>4
    <3>4. Visible(Newest(old)) = {}
      <4> HIDE DEF In, Out
      <4> QED BY <1>9, <2>7
    <3> QED BY <3>2, <3>3, <3>4 DEF old, new
  <2> QED BY <2>5, <2>6, <2>7
<1> QED BY <1>13, <1>14, <1>15

\* compactL0toL1, compactlevelN
LEMMA CompactRefined ==
    ASSUME Inv, Inv', Values, NEW l \in 0..2, Compact(l)
    PROVE  KV!Rearrange
<1> DEFINE Deep == version.levels[2] # <<>> \/ version.levels[3] # <<>>
           Same(k) == Contents'[k] = Contents[k] /\ Below'[k] = Below[k]
           Back(k) == /\ Deep /\ Below[k] = 0 /\ Below'[k] \in 1..(seq - 1)
                      /\ \/ Contents'[k] = Contents[k]
                         \/ Contents[k] = 0 /\ Contents'[k] = Below'[k]
<1>1. View /\ View'
  BY InvView, InvViewNext
<1>2. /\ CanCompact(version, l)
      /\ UNCHANGED <<memtable, immutable, seq, linked>>
  BY CompactFacts
<1>3. PICK merged, meta : Compaction(l, CompactionInputs(version, l), merged, meta)
  BY CompactFacts
<1>4. ASSUME NEW k \in Keys PROVE Same(k) \/ Back(k)
  <2> DEFINE old == Stored(version, tables, k)
             new == Stored(version', tables', k)
  <2>1. k \in DOMAIN memtable => Contents'[k] = Contents[k]
    BY <1>1, <1>2 DEF View
  <2>2. k \notin DOMAIN memtable => Contents'[k] = Below'[k] /\ Contents[k] = Below[k]
    BY <1>1, <1>2 DEF View
  <2>3. CASE Below'[k] = Below[k]
    BY <2>1, <2>2, <2>3
  <2>4. CASE \E t \in immutable : k \in DOMAIN t
    <3>1. Below'[k] = Below[k]
      BY <1>1, <1>2, <2>4 DEF View
    <3> QED BY <2>3, <3>1
  <2>5. CASE \A t \in immutable : k \notin DOMAIN t
    <3>1. Below[k] = Value(Visible(Newest(old))) /\ Below'[k] = Value(Visible(Newest(new)))
      BY <1>1, <1>2, <2>5 DEF View, Settled
    <3>2. \/ Newest(new) = Newest(old)
          \/ /\ Visible(Newest(old)) = {}
             /\ \A e \in new : e \in old
             /\ new # {} => Deep
      BY <1>2, <1>3, CompactedKey
    <3> DEFINE found == Visible(Newest(new))
    <3>3. \A e \in found : e \in new
      BY DEF Visible, Newest
    <3>4. CASE Newest(new) = Newest(old)
      BY <2>3, <3>1, <3>4
    <3>5. CASE /\ Visible(Newest(old)) = {}
               /\ \A e \in new : e \in old
               /\ new # {} => Deep
      <4> HIDE DEF found, old, new, Deep
      <4>1. Below[k] = 0
        BY <3>1, <3>5 DEF Value
      <4>2. CASE found = {}
        <5>1. Below'[k] = 0
          BY <3>1, <4>2 DEF Value, found
        <5> QED BY <2>3, <4>1, <5>1
      <4>3. CASE found # {}
        <5> DEFINE e == CHOOSE x \in found : TRUE
        <5>1. e \in found
          BY <4>3
        <5>2. Below'[k] = e.seq
          BY <3>1, <4>3 DEF Value, found
        <5> HIDE DEF e
        <5>3. e \in new /\ e \in old
          BY <3>3, <3>5, <5>1
        <5>4. PICK q \in Levels : \E m \in Range(version.levels[q]) :
                  k \in DOMAIN tables[m.id] /\ e = tables[m.id][k]
          BY <5>3, StoredEntry DEF old
        <5>5. PICK id \in DOMAIN tables : k \in DOMAIN tables[id] /\ e = tables[id][k]
          BY <5>4, InvReadable
        <5>6. e.seq \in Nat /\ e.seq >= 1 /\ seq \in Nat
          BY <5>5 DEF Inv, Types, IsTable, Entry, Values, Numbered
        <5>7. e.seq < seq
          <6>1. PICK n \in 0..seq : TablesBefore(tables, n)
            BY <5>5 DEF Inv, Saved
          <6> QED BY <5>5, <5>6, <6>1 DEF TablesBefore
        <5>8. e.seq \in 1..(seq - 1)
          BY <5>6, <5>7
        <5>9. Deep
          BY <3>5, <5>3
        <5>10. Back(k)
          BY <2>1, <2>2, <4>1, <5>2, <5>8, <5>9
        <5> QED BY <5>10
      <4> QED BY <4>2, <4>3
    <3> QED BY <3>2, <3>4, <3>5
  <2> QED BY <2>4, <2>5
<1>5. CASE \A k \in Keys : Same(k)
  <2>1. Contents' = Contents /\ Below' = Below
    BY <1>5, SameContents, SameBelow
  <2> QED BY <1>2, <2>1 DEF KV!Rearrange
<1>6. CASE \E k \in Keys : ~Same(k)
  <2>1. Deep
    BY <1>4, <1>6
  <2> HIDE DEF Deep
  <2>2. \A k \in Keys :
            \/ Contents'[k] = Contents[k] /\ Below'[k] = Below[k]
            \/ /\ Below[k] = 0 /\ Below'[k] \in 1..(seq - 1)
               /\ \/ Contents'[k] = Contents[k]
                  \/ Contents[k] = 0 /\ Contents'[k] = Below'[k]
    BY <1>4
  <2> QED BY <1>2, <2>1, <2>2 DEF KV!Rearrange, Deep
<1> QED BY <1>5, <1>6

\* Every step of the engine is a step of the map or leaves it as it is.
LEMMA StepRefined ==
    ASSUME Inv, Inv', Values, Values', [Next]_vars
    PROVE  [KV!Next]_(KV!vars)
<1>1. ASSUME NEW k \in Keys, Put(k) PROVE KV!Next
  <2>1. Write(k, "PUT") /\ seq \in Nat
    BY <1>1 DEF Put, Inv, Types
  <2>2. KV!Write(k, IF "PUT" = "PUT" THEN seq ELSE 0)
    BY <2>1, WriteRefined
  <2>3. seq = seq - 1 + 1
    BY <2>1
  <2>4. KV!Put(k)
    BY <2>2, <2>3 DEF KV!Put
  <2> QED BY <2>4 DEF KV!Next
<1>2. ASSUME NEW k \in Keys, Del(k) PROVE KV!Next
  <2>1. Write(k, "DELETE")
    BY <1>2 DEF Del
  <2>2. KV!Write(k, IF "DELETE" = "PUT" THEN seq ELSE 0)
    BY <2>1, WriteRefined
  <2>3. KV!Del(k)
    BY <2>2 DEF KV!Del
  <2> QED BY <2>3 DEF KV!Next
<1>3. ASSUME HandOver PROVE KV!Next
  BY <1>3, HandOverRefined DEF KV!Next
<1>4. ASSUME FlushThread PROVE KV!Next
  <2>1. Contents' = Contents /\ Below' = Below /\ UNCHANGED <<linked, seq>>
    BY <1>4, FlushRefined
  <2>2. KV!Rearrange
    BY <2>1 DEF KV!Rearrange
  <2> QED BY <2>2 DEF KV!Next
<1>5. ASSUME NEW l \in 0..2, Compact(l) PROVE KV!Next
  BY <1>5, CompactRefined DEF KV!Next
<1>6. ASSUME Reopen PROVE KV!Next
  BY <1>6, ReopenRefined DEF KV!Next
<1>7. CASE UNCHANGED vars
  <2>1. UNCHANGED <<memtable, immutable, version, tables, seq, linked>>
    BY <1>7 DEF vars
  <2>2. Contents' = Contents /\ Below' = Below
    BY <2>1 DEF Contents, Get, Candidate, Below
  <2> QED BY <2>1, <2>2 DEF KV!vars
<1> QED BY <1>1, <1>2, <1>3, <1>4, <1>5, <1>6, <1>7
        DEF Next, CheckFlush, Flush

\* The engine is a map: what get() returns for a key changes by a put or a
\* delete of that key and by nothing else that the flush and the compaction
\* threads or a clean restart do, but for the two exceptions KVStore names.
THEOREM MapCorrect == Spec => ImplementsMap
<1>1. Init => Values
  <2> SUFFICES ASSUME Init PROVE Values
    OBVIOUS
  <2>1. /\ memtable = EmptyTable /\ immutable = {} /\ tables = EmptyTable
        /\ seq = 1 /\ log = <<>> /\ saved = {}
    BY DEF Init
  <2>2. DOMAIN EmptyTable = {} /\ Range(log) = {}
    BY <2>1, EmptyIsTable DEF Range
  <2>3. Replayed(log) = memtable
    BY <2>1, <2>2 DEF Replayed, EmptyTable
  <2> QED BY <2>1, <2>2, <2>3 DEF Values, Once, Numbered, LogKept
<1>2. Inv /\ Inv' /\ Values /\ [Next]_vars => Values'
  BY ValuesStep
<1>3. Init /\ Inv => KV!Init
  <2> SUFFICES ASSUME Init, Inv PROVE KV!Init
    OBVIOUS
  <2>1. /\ memtable = EmptyTable /\ immutable = {} /\ version = EmptyVersion
        /\ seq = 1 /\ linked = TRUE
    BY DEF Init
  <2>2. \A l \in Levels : version.levels[l] = <<>> /\ Range(version.levels[l]) = {}
    BY <2>1 DEF EmptyVersion, Range
  <2>3. \A k : Stored(version, tables, k) = {}
    BY <2>2 DEF Stored, Found
  <2>4. Value(Visible(Newest({}))) = 0
    BY DEF Value, Visible, Newest
  <2>5. DOMAIN memtable = {}
    BY <2>1, EmptyIsTable
  <2>6. \A k \in Keys : Below[k] = 0 /\ Contents[k] = 0
    BY <2>1, <2>3, <2>4, <2>5, InvView DEF View, Settled
  <2>7. Contents = [k \in Keys |-> 0] /\ Below = [k \in Keys |-> 0]
    <3>1. Contents = [k \in Keys |-> Contents[k]] /\ Below = [k \in Keys |-> Below[k]]
      BY DEF Contents, Below
    <3> QED BY <2>6, <3>1
  <2>8. version.levels[2] = <<>> /\ version.levels[3] = <<>>
    BY <2>2 DEF Levels
  <2> QED BY <2>1, <2>7, <2>8 DEF KV!Init
<1>4. Inv /\ Inv' /\ Values /\ Values' /\ [Next]_vars => [KV!Next]_(KV!vars)
  BY StepRefined
<1> QED BY <1>1, <1>2, <1>3, <1>4, InvCorrect, PTL DEF Spec, ImplementsMap, KV!Spec
=============================================================================
