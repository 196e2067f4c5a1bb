------------------------------- MODULE KVStore ------------------------------
(***************************************************************************)
(* What the engine promises its callers, with its threads taking turns: a  *)
(* map from keys to values that put() and del() change, one key at a time. *)
(* The value of a write is its number, so that no two writes look alike.   *)
(*                                                                         *)
(* Two things weaken the promise.  A restart keeps what was handed over to *)
(* the flush thread, and what was written since then only if nothing had   *)
(* been handed over at all (logged).  And once a level below L1 has been   *)
(* reached (deep), a deleted key may come back with an older value.        *)
(***************************************************************************)
EXTENDS Naturals

CONSTANTS Keys, NoValue

VARIABLES
    kv,         \* what get() returns
    kept,       \* what get() would return without the memtable
    logged,     \* the log is good for the whole memtable
    deep,       \* a level below L1 holds something
    writes

vars == <<writes, logged, deep, kv, kept>>

Init ==
    /\ kv = [k \in Keys |-> NoValue] /\ kept = kv
    /\ logged = TRUE /\ deep = FALSE /\ writes = 0

Write(k, v) ==
    /\ writes' = writes + 1
    /\ kv' = [kv EXCEPT ![k] = v]
    /\ UNCHANGED <<kept, logged, deep>>

Put(k) == Write(k, writes + 1)
Del(k) == Write(k, NoValue)

HandOver ==
    /\ logged' = FALSE
    /\ UNCHANGED <<writes, deep, kv>>
    /\ kept' = kv

\* A compaction: nothing changes, except that deleted keys may come back.
Rearrange ==
    /\ UNCHANGED <<logged, writes>>
    /\ \/ UNCHANGED <<kv, kept>>
       \/ /\ deep
          /\ \A k \in Keys :
                 \/ kv'[k] = kv[k] /\ kept'[k] = kept[k]
                 \/ /\ kept[k] = NoValue /\ kept'[k] \in 1..writes
                    /\ \/ kv'[k] = kv[k]
                       \/ kv[k] = NoValue /\ kv'[k] = kept'[k]

Restart ==
    /\ logged' = TRUE
    /\ kv' = IF logged THEN kv ELSE kept
    /\ writes' \in Nat /\ \A k \in Keys : kv'[k] <= writes'
    /\ UNCHANGED <<deep, kept>>

Next ==
    \/ \E k \in Keys : Put(k) \/ Del(k)
    \/ Rearrange \/ HandOver \/ Restart

Spec == Init /\ [][Next]_vars
=============================================================================
