----------------------------- MODULE MCSSTable -----------------------------
(* SSTable for TLC: hash values with collisions, among them a salted hash  *)
(* of 0; an empty key, and one with a blank in it.                         *)
EXTENDS SSTable

MCEntries == {[seq |-> 1, type |-> "PUT"], [seq |-> 2, type |-> "DELETE"]}

MCHash  == <<<<5, 3>>, <<14, 3>>, <<9, 0>>, <<2, 7>>, <<23, 11>>>>
MCWords == <<<<>>, <<"7">>, <<"b", "c">>, <<"d">>, <<"e">>>>
=============================================================================
