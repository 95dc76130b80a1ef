----------------------------- MODULE MCInventory -----------------------------
(***************************************************************************)
(* An instance of InventoryCollector for TLC: several hosts in one fetch,  *)
(* or one host through any number of runs, files and loads.                *)
(***************************************************************************)
EXTENDS InventoryCollector

CONSTANT Main   \* the host that is followed through all runs

(* The bound: other hosts exist only until the first file is opened, a run *)
(* is started by hand, a second call fails or a second host is edited.  A  *)
(* behaviour that stops at the bound is not fair.                          *)
OneHost  == \A e \in Entity \ {Main} : version[e] = 0
OneFetch == /\ task = "write" /\ writes = 0 /\ ~manuals /\ pending = <<>> /\ table = Nothing
            /\ faults <= 1 /\ Cardinality({e \in Entity : version[e] > 1}) <= 1
Bounded  == OneHost \/ OneFetch
=============================================================================
