-------------------------- MODULE InventoryCollector --------------------------
(***************************************************************************)
(* The inventory from Zabbix to the table: the fetch of PagedFetch, the    *)
(* group filter of format_and_clean, write_pending, which writes one file  *)
(* per run in place under a name made of the run id, and the writer, which *)
(* upserts the files into zabbix_inventory in the order of their names.    *)
(* GenericWriter has the writer in detail; here one of its runs takes a    *)
(* listing and loads a file in one step.                                   *)
(*                                                                         *)
(* Run ids begin with their kind: all files of manual runs sort before     *)
(* those of scheduled ones, and within a kind they sort by time.  pending  *)
(* is the sequence of the files in that order, without those that cannot   *)
(* be parsed any more: nothing is loaded from them again.                  *)
(***************************************************************************)
EXTENDS PagedFetch, SequencesExt

CONSTANTS
  Selection,    \* the sets of hosts that target_groups of a manual run may pick
  MaxPending,   \* bound on the files in pending
  MaxFaults,    \* bound on failing calls and killed tasks
  Torn          \* the data of a file that is not closed

ASSUME InventoryAssumption == /\ Selection \subseteq SUBSET Entity
                              /\ MaxPending \in Nat \ {0} /\ MaxFaults \in Nat
                              /\ Torn \notin [Entity -> Nat]

VARIABLES
  kind,      \* "manual" or "scheduled": the current run
  asked,     \* the hosts its target_groups pick
  task,      \* write_pending: "write" before it opens its file, "open" after
  writes,    \* retries used by write_pending
  pending,   \* the files: kind, data, whether the current run has made it,
             \* whether the writer's run has it in its listing
  table,     \* zabbix_inventory: [Entity -> version of its row, 0 without]
  manuals,   \* history: a manual run has taken place
  faults

output == <<kind, asked, task, writes, manuals>>
stored == <<pending, table>>
all    == <<vars, output, stored, faults>>

Fault == faults < MaxFaults /\ faults' = faults + 1

(* Slips in single spots of the code, not part of the specification: the   *)
(* writer's listing in reverse, DO NOTHING instead of DO UPDATE.           *)
NewestFirst(i) == /\ i \in DOMAIN pending /\ pending[i].listed
                  /\ \A j \in DOMAIN pending : pending[j].listed => j <= i
KeptRows(data) == [e \in Entity |-> IF table[e] = 0 THEN data[e] ELSE table[e]]

(* format_and_clean: one record for each host fetched, unless the run asks *)
(* for the hosts of some groups.                                           *)
Filters(k) == IF k = "manual" THEN Selection ELSE {Entity}
Snapshot   == [e \in Entity |-> IF e \in asked /\ copies[e] > 0 THEN detail[e] ELSE 0]

(* The file of the current run, if it is there, and a new one in its place *)
(* in the order of the names: the last of its kind.                        *)
Mine     == {i \in DOMAIN pending : pending[i].mine}
Place    == 1 + IF kind = "scheduled" THEN Len(pending)
                ELSE Cardinality({i \in DOMAIN pending : pending[i].kind = "manual"})
File(d)  == [kind |-> kind, data |-> d, mine |-> TRUE, listed |-> FALSE]
With(d)  == IF Mine = {} THEN InsertAt(pending, Place, File(d))
            ELSE [i \in DOMAIN pending |->
                    IF i \in Mine THEN [pending[i] EXCEPT !.data = d] ELSE pending[i]]
RoomForFile == Len(pending) + 1 - Cardinality(Mine) <= MaxPending
Others(files) == [i \in DOMAIN files |-> [files[i] EXCEPT !.mine = FALSE]]

Begin == /\ Init
         /\ kind \in {"manual", "scheduled"} /\ manuals = (kind = "manual")
         /\ asked \in Filters(kind)
         /\ task = "write" /\ writes = 0 /\ faults = 0
         /\ pending = <<>> /\ table = Nothing

-----------------------------------------------------------------------------
(* Zabbix and the fetch, as in PagedFetch.                                 *)
Change == /\ \E e \in Entity : Create(e) \/ Edit(e) \/ Delete(e)
          /\ UNCHANGED <<output, stored, faults>>

Fetch == /\ ListIds \/ FetchDetails \/ FetchMacros \/ FetchTags
         /\ UNCHANGED <<output, stored, faults>>

FetchFails == CallFails /\ Fault /\ UNCHANGED <<output, stored>>

-----------------------------------------------------------------------------
(* write_pending: open(file_path, "w") empties the file of an attempt      *)
(* before, json.dump fills it.                                             *)
OpenFile ==
  /\ pc = "done" /\ task = "write" /\ RoomForFile
  /\ pending' = With(Torn)
  /\ task' = "open"
  /\ UNCHANGED <<vars, kind, asked, writes, manuals, table, faults>>

(* The next run, which lists the hosts some time after the one before has  *)
(* ended (max_active_runs=1), on schedule or by hand.                      *)
StartRun(k, files) ==
  /\ NextRun
  /\ kind' = k /\ asked' \in Filters(k) /\ manuals' = (manuals \/ k = "manual")
  /\ task' = "write" /\ writes' = 0
  /\ pending' = Others(files)

(* What is left when the file is closed, or the writing cut short.  A file *)
(* the writer has annotated in between, and so taken out of the sequence,  *)
(* may be whole or torn in the end.                                        *)
Closed == (IF RoomForFile THEN {With(Snapshot)} ELSE {})
            \cup (IF Mine = {} THEN {pending} ELSE {})
Cut    == {pending} \cup IF task = "open" THEN Closed ELSE {}

CloseFile(k) ==
  /\ task = "open"
  /\ \E files \in Closed : StartRun(k, files)
  /\ UNCHANGED <<table, faults>>

(* The task fails or is killed; its retry has the same records.            *)
WriteFails(k) ==
  /\ pc = "done" /\ Fault
  /\ \E files \in Cut :
       \/ /\ writes < Retries
          /\ writes' = writes + 1 /\ task' = "write" /\ pending' = files
          /\ UNCHANGED <<vars, kind, asked, manuals>>
       \/ writes = Retries /\ StartRun(k, files)
  /\ UNCHANGED table

(* After a fetch that failed for good there is nothing to write.           *)
GiveUp(k) == pc = "failed" /\ StartRun(k, pending) /\ UNCHANGED <<table, faults>>

-----------------------------------------------------------------------------
(* The writer.                                                             *)
collecting == <<vars, output>>

ListFiles ==
  /\ pending # <<>> /\ \A i \in DOMAIN pending : ~pending[i].listed
  /\ pending' = [i \in DOMAIN pending |-> [pending[i] EXCEPT !.listed = TRUE]]
  /\ UNCHANGED <<collecting, table, faults>>

NextFile(i) == /\ i \in DOMAIN pending /\ pending[i].listed
               /\ \A j \in DOMAIN pending : pending[j].listed => i <= j

Upserted(data) == [e \in Entity |-> IF data[e] # 0 THEN data[e] ELSE table[e]]

(* A file is loaded and removed, or found to be no JSON and spoilt for ever.*)
TakeFile(i) ==
  /\ NextFile(i)
  /\ table' = IF pending[i].data = Torn THEN table ELSE Upserted(pending[i].data)
  /\ pending' = RemoveAt(pending, i)
  /\ UNCHANGED <<collecting, faults>>

(* A call fails before or after the commit, and the file stays for the     *)
(* next run of the writer, or it is spoilt while it is read or annotated.  *)
TakeFails(i) ==
  /\ NextFile(i) /\ Fault /\ pending[i].data # Torn
  /\ table' \in {table, Upserted(pending[i].data)}
  /\ pending' \in {RemoveAt(pending, i), [pending EXCEPT ![i].listed = FALSE]}
  /\ UNCHANGED collecting

Writer == ListFiles \/ \E i \in DOMAIN pending : TakeFile(i)

Step == \/ Change \/ Fetch \/ FetchFails \/ OpenFile
        \/ (\E k \in {"manual", "scheduled"} : CloseFile(k) \/ WriteFails(k) \/ GiveUp(k))
        \/ Writer \/ (\E i \in DOMAIN pending : TakeFails(i))

InventorySpec == Begin /\ [][Step]_all

(* Tasks and the writer go on, the schedule starts its own runs, too, and  *)
(* it does not happen to every scheduled run that the writer reads its     *)
(* file before it is closed (a moment, against one run in five minutes).   *)
Task        == Fetch \/ OpenFile \/ \E k \in {"manual", "scheduled"} : CloseFile(k) \/ GiveUp(k)
Undisturbed == kind = "scheduled" /\ Mine # {} /\ \E k \in {"manual", "scheduled"} : CloseFile(k)
InventoryFairness == /\ WF_all(Task) /\ WF_all(Writer)
                     /\ SF_all(CloseFile("scheduled")) /\ SF_all(Undisturbed)

FairInventory == InventorySpec /\ InventoryFairness

-----------------------------------------------------------------------------
(* Properties.                                                             *)

(* Every variable keeps to its type; the file of a run is the only one it  *)
(* has made, and files are in the order of their names.                    *)
InventoryTypeOK ==
  /\ TypeOK
  /\ kind \in {"manual", "scheduled"} /\ asked \in Filters(kind) /\ task \in {"write", "open"}
  /\ writes \in 0..Retries /\ manuals \in BOOLEAN /\ faults \in 0..MaxFaults
  /\ table \in [Entity -> Nat] /\ Len(pending) <= MaxPending
  /\ \A i \in DOMAIN pending :
       /\ pending[i].data = Torn \/ pending[i].data \in [Entity -> Nat]
       /\ pending[i].mine => /\ \A j \in DOMAIN pending \ {i} : ~pending[j].mine
                             /\ pending[i].kind = kind
       /\ pending[i].kind = "scheduled" =>
            \A j \in DOMAIN pending : j > i => pending[j].kind = "scheduled"

(* docs/ARCHITECTURE.md: "a host's current state should overwrite its      *)
(* previous state".  As long as nothing fails and all runs are scheduled,  *)
(* no upsert takes a row back to an older state of its host, however long  *)
(* files wait, whatever the fetch took how long and whoever opens what.    *)
RowsGetNewer ==
  [][faults' = 0 /\ ~manuals' => \A e \in Entity : table[e] <= table'[e]]_all

(* Whatever fails, and whatever manual runs slip in: once Zabbix rests and *)
(* nothing fails any more, every host that is left in it gets a row with   *)
(* its last state, and keeps it.                                           *)
Converges == <>[](\A e \in alive : table[e] = version[e])
=============================================================================
