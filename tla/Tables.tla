------------------------------- MODULE Tables -------------------------------
(***************************************************************************)
(* The data structures of the LSM tree (memtable.cpp, sstable.cpp,         *)
(* table_version.cpp) and the algorithms on them: the lookup of get() and  *)
(* the merge of the two compaction functions.                              *)
(*                                                                         *)
(* A key is a number (the code only compares keys); an entry is the        *)
(* sequence number of its write, which also stands for the value written,  *)
(* and its type.  The contents of a memtable or of an SSTable are a        *)
(* function from the keys it holds to entries.                             *)
(***************************************************************************)
EXTENDS Integers, Sequences, FiniteSets, FiniteSetsExt, Functions, TLC

Levels == 0..3

Entry == [seq : Nat, type : {"PUT", "DELETE"}]

\* std::optional<Entry> is a set of at most one entry; of several candidates
\* the one with the highest sequence number wins.
Newest(S) == {e \in S : \A f \in S : e.seq >= f.seq}

\* MemTable::get; also a lookup in the contents of one SSTable.
EntryOf(data, key) == IF key \in DOMAIN data THEN {data[key]} ELSE {}

\* f with y at x, whether or not it had something there.
With(f, x, y) == [z \in DOMAIN f \cup {x} |-> IF z = x THEN y ELSE f[z]]

\* MemTable::put and del.
PutEntry(data, key, e) == With(data, key, e)

EmptyTable == <<>>

-----------------------------------------------------------------------------
(* SSTableMeta and TableVersion.  The sstables vector is the set of the    *)
(* ids it holds: findSSTableById looks a file up by its id.                *)
MetaOf(id, level, data) ==
    [id |-> id, level |-> level, minKey |-> Min(DOMAIN data),
     maxKey |-> Max(DOMAIN data), size |-> Cardinality(DOMAIN data)]

EmptyVersion == [levels |-> [l \in Levels |-> <<>>], sstables |-> {}]

AddSSTable(v, meta) ==
    [sstables |-> v.sstables \cup {meta.id},
     levels |-> [v.levels EXCEPT ![meta.level] = Append(@, meta)]]

\* remove_if and erase: what is kept stays in its order.
Without(metas, ids) ==
    LET kept[i \in 0..Len(metas)] ==
            IF i = 0 THEN <<>>
            ELSE IF metas[i].id \in ids THEN kept[i - 1]
                                        ELSE Append(kept[i - 1], metas[i])
    IN  kept[Len(metas)]

RemoveSSTablesByIds(v, ids) ==
    [sstables |-> v.sstables \ ids,
     levels |-> [l \in Levels |-> Without(v.levels[l], ids)]]

\* std::sort by minKey: some order in which no file comes before one with a
\* smaller minKey.
Sorted(metas) ==
    LET order == CHOOSE p \in Bijection(DOMAIN metas, DOMAIN metas) :
            \A i, j \in DOMAIN metas :
                i < j => metas[p[i]].minKey <= metas[p[j]].minKey
    IN  [i \in DOMAIN metas |-> metas[order[i]]]

SortLevel(v, l) == [v EXCEPT !.levels[l] = Sorted(@)]

-----------------------------------------------------------------------------
(* get(): every file of L0; in L1 and below the file lower_bound finds.    *)
FirstReaching(metas, key) ==
    {metas[i] : i \in {j \in DOMAIN metas :
        /\ metas[j].maxKey >= key
        /\ \A n \in 1..(j - 1) : metas[n].maxKey < key}}

FilesFor(v, l, key) ==
    {m \in IF l = 0 THEN Range(v.levels[0])
                    ELSE FirstReaching(v.levels[l], key) :
        m.id \in v.sstables /\ m.minKey <= key /\ key <= m.maxKey}

Hits(v, tables, l, key) ==
    UNION {EntryOf(tables[m.id], key) : m \in FilesFor(v, l, key)}

\* The levels are searched in order and the search ends at the first level
\* after which there is a candidate; cand is the one the memtables gave.
Lookup(v, tables, key, cand) ==
    LET Stops == {l \in Levels : /\ v.levels[l] # <<>>
                                 /\ cand # {} \/ Hits(v, tables, l, key) # {}}
    IN  IF Stops = {} THEN cand
        ELSE Newest(cand \cup Hits(v, tables, Min(Stops), key))

\* The files a lookup opens: those that hold the key (the Bloom filter keeps
\* it out of nearly all others, and never out of these).
FilesRead(v, tables, key, cand) ==
    LET Stops == {l \in Levels : /\ v.levels[l] # <<>>
                                 /\ cand # {} \/ Hits(v, tables, l, key) # {}}
    IN  IF Stops = {} THEN {}
        ELSE {m.id : m \in {n \in FilesFor(v, Min(Stops), key) :
                                key \in DOMAIN tables[n.id]}}

\* What get() returns to its caller: a deleted key is not found.
Visible(cand) == {e \in cand : e.type = "PUT"}

-----------------------------------------------------------------------------
(* compactL0toL1 (level 0: all of L0) and compactlevelN (the first file of *)
(* the level), each merged with the overlapping files one level down.      *)
Sources(v, l) == IF l = 0 THEN Range(v.levels[0]) ELSE {Head(v.levels[l])}

Overlapping(v, l) ==
    LET low  == Min({m.minKey : m \in Sources(v, l)})
        high == Max({m.maxKey : m \in Sources(v, l)})
    IN  {m \in Range(v.levels[l + 1]) : ~(m.maxKey < low \/ m.minKey > high)}

CompactionInputs(v, l) ==
    {m.id : m \in Sources(v, l) \cup Overlapping(v, l)} \cap v.sstables

\* The k-way merge: the newest entry of each key, tombstones dropped.
NewestOf(tables, ids, key) ==
    Newest(UNION {EntryOf(tables[id], key) : id \in ids})

MergeOldest(tables, ids) ==     \* mutant: the heap's order reversed
    LET All(k) == UNION {EntryOf(tables[id], k) : id \in ids}
        Oldest(k) == CHOOSE e \in All(k) : \A f \in All(k) : e.seq <= f.seq
        keys == UNION {DOMAIN tables[id] : id \in ids}
    IN  [k \in {j \in keys : Oldest(j).type = "PUT"} |-> Oldest(k)]
MergeSSTables(tables, ids) ==
    LET keys == UNION {DOMAIN tables[id] : id \in ids}
        live == {k \in keys : Visible(NewestOf(tables, ids, k)) # {}}
    IN  [k \in live |-> CHOOSE e \in NewestOf(tables, ids, k) : TRUE]

\* compactlevelN gives up when the source table is not loaded.
CanCompact(v, l) ==
    /\ v.levels[l] # <<>>
    /\ l > 0 => Head(v.levels[l]).id \in v.sstables

CompactedVersionUnsorted(v, ids, meta) ==    \* mutant: no sort
    AddSSTable(RemoveSSTablesByIds(v, ids), meta)
CompactedVersion(v, ids, meta) ==
    SortLevel(AddSSTable(RemoveSSTablesByIds(v, ids), meta), meta.level)

\* shouldCompactUnlocked: the number of files in L0, the size of the others.
LevelSize(v, l) ==
    FoldFunction(LAMBDA m, n : m.size + n, 0, v.levels[l])

ShouldCompact(v, l, l0Files, limit) ==
    IF l = 0 THEN Len(v.levels[0]) >= l0Files
             ELSE v.levels[l] # <<>> /\ LevelSize(v, l) > limit[l]

-----------------------------------------------------------------------------
\* recover(): the log is replayed into the memtable, the last record of a key
\* winning.
Replayed(records) ==
    [k \in {r.key : r \in Range(records)} |->
        LET r == records[Max({i \in DOMAIN records : records[i].key = k})]
        IN  [seq |-> r.seq, type |-> r.type]]

\* loadLevelMetadata and loadSSTables: the levels as they were saved, and the
\* tables whose files exist.
IdsOf(levels) == {m.id : m \in UNION {Range(levels[l]) : l \in Levels}}

LoadedVersionL0(levels, files) ==       \* mutant: only level 0 is loaded
    [levels |-> levels, sstables |-> {m.id : m \in Range(levels[0])} \cap files]
LoadedVersion(levels, files) ==
    [levels |-> levels, sstables |-> IdsOf(levels) \cap files]

-----------------------------------------------------------------------------
(* L1 and below are sorted and their files do not overlap: what the binary *)
(* search of get() and the early end of its loop rely on.                  *)
SortedLevels(v) ==
    \A l \in Levels \ {0} : \A i, j \in DOMAIN v.levels[l] :
        i < j => v.levels[l][i].maxKey < v.levels[l][j].minKey
=============================================================================
