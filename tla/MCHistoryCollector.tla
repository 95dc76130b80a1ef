-------------------------- MODULE MCHistoryCollector --------------------------
(***************************************************************************)
(* Instances of HistoryCollector for TLC.  Two items of one type and a     *)
(* chunk of one give two history.get calls per fetch; the items are alike. *)
(***************************************************************************)
EXTENDS HistoryCollector, TLC

SameType == [i \in Item |-> 0]
Alike == Permutations(Item)
=============================================================================
