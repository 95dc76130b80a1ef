-------------------------- MODULE MCLoadTransaction --------------------------
(***************************************************************************)
(* Instances of LoadTransaction for TLC.                                   *)
(***************************************************************************)
EXTENDS LoadTransaction

(* Writers 1 and 2 both have file 1, in which the first key comes twice;   *)
(* writer 3 has a file with the same keys in another order and one more,   *)
(* which begins a second page.                                             *)
TwinBatchOf == <<1, 1, 2>>
TwinRecords == <<<<"k1", "k1", "k2">>, <<"k2", "k1", "k3">>>>
=============================================================================
