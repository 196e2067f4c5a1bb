------------------------------ MODULE MCLsmTree -----------------------------
(* LsmTree for TLC: sizes of the levels, in entries.                       *)
EXTENDS LsmTree

DeepLevels == <<0, 1>>          \* L1 and L2 overflow at once
=============================================================================
