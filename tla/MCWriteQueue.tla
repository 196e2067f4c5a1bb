---------------------------- MODULE MCWriteQueue ----------------------------
(* WriteQueue for TLC: two client threads that call put().                  *)
EXTENDS WriteQueue

TwoProducers == {"p1", "p2"}
=============================================================================
