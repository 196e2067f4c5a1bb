------------------------------ MODULE SSTable ------------------------------
(***************************************************************************)
(* One SSTable file through its life (engine/src/sstable.cpp): written by  *)
(* SSTable::flush, looked up with its Bloom filter (bloom_filter.cpp) and  *)
(* its sparse index, read in full by a compaction, and loaded again when   *)
(* the engine is reopened; and the line levels.txt has of it (engine.cpp). *)
(* The modules of the LSM tree take a table for the map it was made from:  *)
(* this module says when that is so.                                       *)
(*                                                                         *)
(* A crash after the file is written and before metadata.txt is leaves the *)
(* file behind while its number is given out again, so flush() may find a  *)
(* file, whole or torn, under the name it is about to write.               *)
(***************************************************************************)
EXTENDS Integers, Sequences, FiniteSets, FiniteSetsExt, TLC

CONSTANTS
    Keys,           \* the keys, a set of numbers
    Entries,        \* what a table has of a key: a sequence number and a type
    Hash,           \* std::hash of a key, and of the key with its salt
    WordsOf,        \* the words a key is read as by operator>>
    IndexInterval,  \* INDEX_INTERVAL (16)
    MaxNumber,      \* bound: the numbers that are told from other words
    MaxTables       \* bound: tables written under this number

ASSUME SSTableAssumption ==
    /\ Keys \subseteq Nat /\ IsFiniteSet(Keys) /\ Cardinality(Keys) <= MaxNumber
    /\ Entries \subseteq [seq : 0..MaxNumber, type : {"PUT", "DELETE"}]
    /\ Hash \in [Keys -> Nat \X Nat]
    /\ \A k \in Keys : WordsOf[k] \in Seq(STRING)
    /\ IndexInterval \in Nat \ {0} /\ MaxNumber \in Nat /\ MaxTables \in Nat

VARIABLES
    contents,       \* the map the table was made from
    bin,            \* the file: absent or torn (no record), or its parts
    handle,         \* the SSTable object: at most one
    meta,           \* its SSTableMeta in the version: at most one
    line,           \* its line in levels.txt: at most one
    stale,          \* flush() found a file under its name
    threw,          \* it threw on a torn one
    written         \* tables written

sstableVars == <<contents, bin, handle, meta, line, stale, threw, written>>

Absent   == [state |-> "absent"]
TornFile == [state |-> "torn"]

SSTableInit ==
    /\ contents = <<>> /\ bin = Absent /\ handle = {} /\ meta = {} /\ line = {}
    /\ stale = FALSE /\ threw = FALSE /\ written = 0

-----------------------------------------------------------------------------
(* BloomFilter, for a false positive rate of 0.01.                         *)
BloomSize(n)   == (n * 958505) \div 100000
BloomHashes(n) ==
    LET hashes == (BloomSize(n) * 693147) \div (n * 1000000)
    IN  IF hashes < 1 THEN 1 ELSE hashes

\* The sum wraps at 2^64, for add() and contains() alike.
BitsOf(key, size, hashes) ==
    {(Hash[key][1] + i * Hash[key][2]) % size : i \in 0..(hashes - 1)}

Bloom(keys) ==
    LET n == Cardinality(keys)
    IN  [size |-> BloomSize(n), hashes |-> BloomHashes(n),
         bits |-> UNION {BitsOf(k, BloomSize(n), BloomHashes(n)) : k \in keys}]

MayContain(bloom, key) == BitsOf(key, bloom.size, bloom.hashes) \subseteq bloom.bits

\* Eight bits to a byte, a byte being the set of its bits that are 1.
Serialize(bloom) ==
    [size |-> bloom.size, hashes |-> bloom.hashes,
     bytes |-> [j \in 0..((bloom.size + 7) \div 8 - 1) |->
                   {b \in 0..7 : j * 8 + b \in bloom.bits}]]

DeserializeShort(d) ==      \* mutant: only the full bytes are read
    [size |-> d.size, hashes |-> d.hashes,
     bits |-> {i \in 0..((d.size \div 8) * 8 - 1) : i % 8 \in d.bytes[i \div 8]}]
Deserialize(d) ==
    [size |-> d.size, hashes |-> d.hashes,
     bits |-> {i \in 0..(d.size - 1) : i % 8 \in d.bytes[i \div 8]}]

-----------------------------------------------------------------------------
(* The records of a file are in the order of their keys, those of the map. *)
(* A record takes one unit, and one for its value; a deletion has no value.*)
Smaller(map, key) == {k \in DOMAIN map : k < key}

SizeOf(map, keys) == Cardinality(keys) + Cardinality({k \in keys : map[k].type = "PUT"})

Offset(map, key) == SizeOf(map, Smaller(map, key))

\* The key of record number n, from 0.
KeyAt(map, n) == CHOOSE key \in DOMAIN map : Cardinality(Smaller(map, key)) = n

IndexOf(map) ==
    [j \in 1..((Cardinality(DOMAIN map) + IndexInterval - 1) \div IndexInterval) |->
        LET key == KeyAt(map, (j - 1) * IndexInterval)
        IN  [key |-> key, offset |-> Offset(map, key)]]

\* SSTable::flush, on top of the index it has loaded: the object it returns, and
\* the file.
TableOf(map, index) ==
    [minKey |-> KeyAt(map, 0), maxKey |-> KeyAt(map, Cardinality(DOMAIN map) - 1),
     index |-> index \o IndexOf(map), bloom |-> Bloom(DOMAIN map),
     metadataOffset |-> SizeOf(map, DOMAIN map)]

Written(map, index) ==
    [state |-> "whole", records |-> map,
     metadata |-> [TableOf(map, index) EXCEPT !.bloom = Serialize(@)]]

LoadMetadata(f) == [f.metadata EXCEPT !.bloom = Deserialize(@)]

-----------------------------------------------------------------------------
(* SSTable::get *)
\* Where std::upper_bound may end, as a number of entries passed: the entry
\* before it is not greater than the key and the next one is.  One place in an
\* index that is sorted.
UpperBounds(index, key) ==
    {n \in 0..Len(index) :
        /\ n > 0 => index[n].key <= key
        /\ n < Len(index) => key < index[n + 1].key}

\* The part of the file that is searched.
SearchStart(t, n) == IF n = 0 THEN 0 ELSE t.index[n].offset

SearchEnd(t, n) ==
    LET it == IF n = 0 THEN 1 ELSE n
    IN  IF it < Len(t.index) THEN t.index[it + 1].offset ELSE t.metadataOffset

\* Reading starts inside a record, or beyond the last one: any result.
Misaligned(t, f, n) ==
    /\ SearchStart(t, n) < SearchEnd(t, n)
    /\ \A k \in DOMAIN f.records : Offset(f.records, k) # SearchStart(t, n)

Scanned(t, f, n) ==
    {k \in DOMAIN f.records :
        /\ SearchStart(t, n) <= Offset(f.records, k)
        /\ Offset(f.records, k) < SearchEnd(t, n)}

\* The records are read in order up to the end of the part, the key, or the
\* first greater key.
GetEntry(t, f, key, n) ==
    IF key < t.minKey \/ key > t.maxKey \/ ~MayContain(t.bloom, key) THEN {}
    ELSE {f.records[k] : k \in {j \in Scanned(t, f, n) :
            /\ j = key
            /\ \A i \in Scanned(t, f, n) :
                   Offset(f.records, i) < Offset(f.records, j) => i < key}}

\* getData and Iterator: the whole file up to the metadata.
GetDataShort(t, f) ==       \* mutant: the last record is left out
    [k \in {j \in DOMAIN f.records :
                Offset(f.records, j) + SizeOf(f.records, {j}) < t.metadataOffset} |->
        f.records[k]]
GetData(t, f) ==
    [k \in {j \in DOMAIN f.records : Offset(f.records, j) < t.metadataOffset} |->
        f.records[k]]

-----------------------------------------------------------------------------
(* levels.txt: the fields of a line separated by blanks, read back word by *)
(* word.  A field that is no number reads as 0, and what follows it is not *)
(* read at all: "?" is an uninitialised value.                             *)
LineOfKeyFirst(m) ==        \* mutant: the level after the keys
    <<m.id>> \o WordsOf[m.minKey] \o WordsOf[m.maxKey] \o <<m.level, m.maxSeq, m.size>>
LineOf(m) ==
    <<m.id, m.level>> \o WordsOf[m.minKey] \o WordsOf[m.maxKey] \o <<m.maxSeq, m.size>>

Numerals == {ToString(n) : n \in 0..MaxNumber}

MetaRead(l) ==
    LET Word(i)   == IF i <= Len(l) THEN l[i] ELSE "?"
        Number(i) == IF Word(i) \in Numerals THEN Word(i)
                     ELSE IF i <= Len(l) THEN ToString(0) ELSE "?"
    IN  [id |-> Number(1), level |-> Number(2), minKey |-> Word(3),
         maxKey |-> Word(4), maxSeq |-> Number(5),
         size |-> IF Word(5) \in Numerals THEN Number(6) ELSE "?"]

MetaData(map) ==
    [id |-> ToString(1), level |-> ToString(0),
     minKey |-> KeyAt(map, 0), maxKey |-> KeyAt(map, Cardinality(DOMAIN map) - 1),
     maxSeq |-> ToString(Max({map[k].seq : k \in DOMAIN map})),
     size |-> ToString(Cardinality(DOMAIN map))]

-----------------------------------------------------------------------------
Maps == UNION {[S -> Entries] : S \in (SUBSET Keys) \ {{}}}

Garbage == {<<>>} \cup {<<[key |-> k, offset |-> 1]>> : k \in Keys}

\* The index the SSTable object has when flush() has opened the file.
Loaded == IF bin = Absent THEN {<<>>}
          ELSE IF bin = TornFile THEN Garbage
          ELSE {bin.metadata.index}

\* The flush thread or a compaction writes the table and adds it to the version.
FlushTable(map) ==
    /\ ~threw /\ handle = {} /\ written < MaxTables
    /\ written' = written + 1
    /\ \/ /\ bin = TornFile                 \* lengths read past the end of it
          /\ threw' = TRUE
          /\ UNCHANGED <<contents, bin, handle, meta, stale>>
       \/ \E index \in Loaded :
              /\ bin' = Written(map, index)
              /\ contents' = map
              /\ handle' = {TableOf(map, index)}
              /\ meta' = {MetaData(map)}
              /\ stale' = (bin # Absent)
              /\ UNCHANGED threw
    /\ UNCHANGED line

\* saveMetadata
SaveLine ==
    /\ meta # {} /\ line = {}
    /\ line' = {LineOf(m) : m \in meta}
    /\ UNCHANGED <<contents, bin, handle, meta, stale, threw, written>>

\* A crash: before the file is complete, or before its line is saved.
CrashBeforeLine ==
    /\ line = {} /\ handle # {}
    /\ handle' = {} /\ meta' = {} /\ contents' = <<>> /\ stale' = FALSE
    /\ bin' \in {bin, TornFile}
    /\ UNCHANGED <<line, threw, written>>

\* loadLevelMetadata and loadSSTables, after a crash or a clean end
LoadTable ==
    /\ line # {}
    /\ handle' = {LoadMetadata(bin)}
    /\ meta' = {MetaRead(l) : l \in line}
    /\ UNCHANGED <<contents, bin, line, stale, threw, written>>

SSTableNext ==
    (\E map \in Maps : FlushTable(map)) \/ SaveLine \/ CrashBeforeLine \/ LoadTable

SSTableSpec == SSTableInit /\ [][SSTableNext]_sstableVars

-----------------------------------------------------------------------------
\* A table has at most one handle and one meta, of a file that is whole.
SSTableTypeOK ==
    /\ Cardinality(handle) <= 1 /\ Cardinality(meta) <= 1
    /\ handle # {} => bin.state = "whole" /\ contents \in Maps
    /\ stale \in BOOLEAN /\ threw \in BOOLEAN

\* Where the search ends at n, the lookup answers what the table was made from.
Exact(t, k, n) ==
    LET exact == IF k \in DOMAIN contents THEN {contents[k]} ELSE {}
    IN  IF stale THEN Misaligned(t, bin, n) \/ GetEntry(t, bin, k, n) \subseteq exact
        ELSE ~Misaligned(t, bin, n) /\ GetEntry(t, bin, k, n) = exact

\* get() answers for every key what the table was made from: the Bloom filter
\* hides no key and the index leads to the start of a record of the right block,
\* before and after the file is loaded again.  Over another table's file it may
\* miss keys, the old index being kept in front of the new one, but it takes no
\* entry for another's (SSTable::get, flush, loadMetadata).
GetExact ==
    /\ SSTableTypeOK
    /\ \A t \in handle, k \in Keys :
           /\ UpperBounds(t.index, k) # {}
           /\ \A n \in UpperBounds(t.index, k) : Exact(t, k, n)

\* A compaction reads the whole table, whatever its index (getData, Iterator).
ScanExact == \A t \in handle : GetData(t, bin) = contents

\* levels.txt gives back the table's meta when the keys in it are one word
\* each; its number and level, by which the file is found, always.
MetaKept ==
    \A l \in line :
        LET m == MetaData(contents)
            r == MetaRead(l)
        IN  /\ r.id = m.id /\ r.level = m.level
            /\ Len(WordsOf[m.minKey]) = 1 /\ Len(WordsOf[m.maxKey]) = 1 =>
                   /\ r.minKey = WordsOf[m.minKey][1] /\ r.maxKey = WordsOf[m.maxKey][1]
                   /\ r.maxSeq = m.maxSeq /\ r.size = m.size
=============================================================================
