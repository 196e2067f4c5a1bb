------------------------------- MODULE MCWal -------------------------------
(* Wal for TLC: the engine's two kinds of callers, the writer thread and a  *)
(* client inside flush().                                                   *)
EXTENDS Wal

TwoThreads == {"writer", "client"}
=============================================================================
