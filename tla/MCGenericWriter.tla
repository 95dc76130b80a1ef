--------------------------- MODULE MCGenericWriter ---------------------------
(***************************************************************************)
(* Instances of GenericWriter for TLC.  Files are numbered in the order    *)
(* the glob sorts them: obm_agent_* before zabbix_*.                       *)
(***************************************************************************)
EXTENDS GenericWriter

Shaped(table, method, target, cols, stamp) ==
  [table |-> table, method |-> method, target |-> target, cols |-> cols, stamp |-> stamp]

(* All of them have the snapshots of a table in order.                     *)
ASSUME ScenariosInOrder == SnapshotOrder

(* Written in place: an inventory batch 1 and its retry 2, which share a   *)
(* name (same run_id), the next hourly run 3, and two overlapping history  *)
(* windows 4 and 5.  Published atomically: a metadata file 6 taken first,  *)
(* two OBM requests 7 and 8 taken after it, whose names sort before it,    *)
(* and a metadata file 9 without data.  Request 8 has a column that the    *)
(* table lacks when request 7 creates it.                                  *)
HostFiles    == 1..3
HistoryFiles == 4..5
AtomicFiles  == 6..9

MCFileOf == <<1, 1, 2, 3, 4, 7, 6, 5, 8>>
MCMeta   == [b \in 1..9 |->
               CASE b \in HostFiles    -> Shaped("hosts", "upsert", TRUE, {"a"}, TRUE)
                 [] b \in HistoryFiles -> Shaped("history", "copy", TRUE, {"a"}, FALSE)
                 [] b = 6 -> Shaped("items", "upsert", TRUE, {"a"}, TRUE)
                 [] b = 7 -> Shaped("obm", "copy", FALSE, {"a"}, FALSE)
                 [] b = 8 -> Shaped("obm", "copy", FALSE, {"a", "b"}, FALSE)
                 [] b = 9 -> Shaped("templates", "upsert", TRUE, {"a"}, TRUE)]
MCKeys   == <<{"h1"}, {"h1"}, {"h1", "h2"}, {"k1", "k2"}, {"k2"}, {"i"}, {"r"}, {"r"}, {}>>
MCAfter  == <<{}, {1}, {1, 2}, {}, {4}, {}, {6}, {7}, {}>>

(* Which of them come together, and with how many failures (a state        *)
(* constraint): every kind with two, all those written in place with none. *)
Scenarios == {<<HostFiles, 2>>, <<HistoryFiles, 2>>, <<AtomicFiles, 2>>,
              <<HostFiles \cup HistoryFiles, 0>>}
Bounded == \E s \in Scenarios : (\A b \in Batch \ s[1] : stage[b] = "new") /\ faults <= s[2]

(* The inventory files alone.                                              *)
HostFileOf == <<1, 1, 2>>
HostMeta   == [b \in HostFiles |-> MCMeta[b]]
HostKeys   == [b \in HostFiles |-> MCKeys[b]]
HostAfter  == [b \in HostFiles |-> MCAfter[b]]
=============================================================================
