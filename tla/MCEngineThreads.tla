-------------------------- MODULE MCEngineThreads --------------------------
(* EngineThreads for TLC: one client beside the writer, which flushes,     *)
(* waits, pauses and resumes in any order.                                 *)
EXTENDS EngineThreads
=============================================================================
