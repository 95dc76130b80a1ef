------------------------------ MODULE PagedFetch ------------------------------
(***************************************************************************)
(* How the collectors read Zabbix: one call lists all ids, the details are *)
(* then asked for chunk by chunk, because the API knows no offset.         *)
(* fetch_templates, fetch_items and fetch_item_map make one pass over the  *)
(* ids; fetch_raw_hosts makes a second one, with a call for the macros and *)
(* a call for the tags of each chunk.  Nothing stops Zabbix from changing  *)
(* between two calls.                                                      *)
(*                                                                         *)
(* What a call returns of an entity is reduced to the version it saw.      *)
(***************************************************************************)
EXTENDS Naturals, FiniteSets, Sequences

CONSTANTS
  Entity,
  ChunkSize,    \* CHUNK_SIZE, ITEM_CHUNK
  TwoPasses,    \* fetch_raw_hosts: macros and tags after the details
  Retries,      \* task retries
  MaxVersion    \* bound on the changes of an entity

ASSUME PagingAssumption == /\ IsFiniteSet(Entity)
                           /\ ChunkSize \in Nat \ {0}
                           /\ TwoPasses \in BOOLEAN
                           /\ Retries \in Nat /\ MaxVersion \in Nat

VARIABLES
  alive,     \* entities in Zabbix
  version,   \* [Entity -> Nat]; 0 before an entity is created, ids are not reused
  gone,      \* history: entities deleted since this attempt began
  pc,        \* the call that is made next, or how the run ended
  ids,       \* all_ids, in the order of the answer
  offset,    \* start of the chunk
  copies,    \* [Entity -> Nat]: how many records have its details
  detail,    \* [Entity -> version the details saw, 0 without]
  macro,     \* macro_map: [Entity -> version, 0 without]
  tag,       \* tag_map: [Entity -> version, 0 without]
  tries      \* retries used

zabbix == <<alive, version, gone>>
result == <<copies, detail, macro, tag>>
vars   == <<zabbix, pc, ids, offset, result, tries>>

Nothing == [e \in Entity |-> 0]

(* Slips in single spots of the code, not part of the specification: a     *)
(* chunk one longer than the step, the details left out, one retry too     *)
(* many.                                                                   *)
ChunkTooLong == {i \in DOMAIN ids : offset < i /\ i <= offset + ChunkSize + 1}
NoDetails    == IF TwoPasses THEN "macros" ELSE "details"
OneMoreRetry == tries <= Retries

(* range(0, total, CHUNK_SIZE) and all_ids[start: start + CHUNK_SIZE].     *)
NextOffset   == offset + ChunkSize
ChunkIndices == {i \in DOMAIN ids : offset < i /\ i <= offset + ChunkSize}
LastChunk    == Len(ids) <= NextOffset
ChunkIds     == {ids[i] : i \in ChunkIndices}

(* External: a get with ids returns, once each, those that exist.          *)
Answer == ChunkIds \cap alive

(* The pass that follows the listing.                                      *)
FirstPass == "details"

(* External: Airflow runs the task again unless its retries are used up.   *)
MayRetry == tries < Retries

Init == /\ alive \in SUBSET Entity
        /\ version = [e \in Entity |-> IF e \in alive THEN 1 ELSE 0]
        /\ gone = {} /\ pc = "list" /\ ids = <<>> /\ offset = 0 /\ tries = 0
        /\ copies = Nothing /\ detail = Nothing /\ macro = Nothing /\ tag = Nothing

-----------------------------------------------------------------------------
(* Zabbix between two calls.                                               *)
collector == <<pc, ids, offset, result, tries>>

Create(e) == /\ version[e] = 0
             /\ version' = [version EXCEPT ![e] = 1] /\ alive' = alive \cup {e}
             /\ UNCHANGED <<gone, collector>>
Edit(e)   == /\ e \in alive /\ version[e] < MaxVersion
             /\ version' = [version EXCEPT ![e] = @ + 1]
             /\ UNCHANGED <<alive, gone, collector>>
Delete(e) == /\ e \in alive
             /\ alive' = alive \ {e} /\ gone' = gone \cup {e}
             /\ UNCHANGED <<version, collector>>

-----------------------------------------------------------------------------
(* The collector task.                                                     *)

(* External: all ids, each once, in whatever order Zabbix answers.         *)
Listings == {s \in [1..Cardinality(alive) -> alive] :
               \A i, j \in 1..Cardinality(alive) : i # j => s[i] # s[j]}

ListIds ==
  /\ pc = "list"
  /\ ids' \in Listings
  /\ pc' = IF alive = {} THEN "done" ELSE FirstPass
  /\ offset' = 0
  /\ UNCHANGED <<zabbix, result, tries>>

(* all_hosts.extend(batch), records.append(...).                           *)
FetchDetails ==
  /\ pc = "details"
  /\ copies' = [e \in Entity |-> IF e \in Answer THEN copies[e] + 1 ELSE copies[e]]
  /\ detail' = [e \in Entity |-> IF e \in Answer THEN version[e] ELSE detail[e]]
  /\ offset' = IF LastChunk THEN 0 ELSE NextOffset
  /\ pc' = IF ~LastChunk THEN "details" ELSE IF TwoPasses THEN "macros" ELSE "done"
  /\ UNCHANGED <<zabbix, ids, macro, tag, tries>>

FetchMacros ==
  /\ pc = "macros"
  /\ macro' = [e \in Entity |-> IF e \in Answer THEN version[e] ELSE macro[e]]
  /\ pc' = "tags"
  /\ UNCHANGED <<zabbix, ids, offset, copies, detail, tag, tries>>

FetchTags ==
  /\ pc = "tags"
  /\ tag' = [e \in Entity |-> IF e \in Answer THEN version[e] ELSE tag[e]]
  /\ offset' = IF LastChunk THEN 0 ELSE NextOffset
  /\ pc' = IF LastChunk THEN "done" ELSE "macros"
  /\ UNCHANGED <<zabbix, ids, copies, detail, macro, tries>>

(* A new attempt starts with empty lists and a new listing.                *)
StartOver == /\ pc' = "list" /\ ids' = <<>> /\ offset' = 0 /\ gone' = {}
             /\ copies' = Nothing /\ detail' = Nothing /\ macro' = Nothing /\ tag' = Nothing

(* Any call fails or times out: the task raises and is retried.            *)
CallFails ==
  /\ pc \notin {"done", "failed"}
  /\ \/ MayRetry /\ tries' = tries + 1 /\ StartOver
     \/ ~MayRetry /\ pc' = "failed" /\ UNCHANGED <<gone, ids, offset, result, tries>>
  /\ UNCHANGED <<alive, version>>

(* The next scheduled run.                                                 *)
NextRun ==
  /\ pc \in {"done", "failed"}
  /\ StartOver /\ tries' = 0
  /\ UNCHANGED <<alive, version>>

Next == \/ (\E e \in Entity : Create(e) \/ Edit(e) \/ Delete(e))
        \/ ListIds \/ FetchDetails \/ FetchMacros \/ FetchTags \/ CallFails \/ NextRun

Spec == Init /\ [][Next]_vars

-----------------------------------------------------------------------------
(* Properties.                                                             *)

(* Every variable keeps to its type.                                       *)
TypeOK ==
  /\ alive \subseteq Entity /\ version \in [Entity -> Nat] /\ gone \subseteq Entity
  /\ pc \in {"list", "details", "macros", "tags", "done", "failed"}
  /\ ids \in Seq(Entity) /\ offset \in Nat /\ tries \in 0..Retries
  /\ copies \in [Entity -> Nat] /\ detail \in [Entity -> Nat]
  /\ macro \in [Entity -> Nat] /\ tag \in [Entity -> Nat]

(* Whatever is created, edited and deleted between the calls, a finished   *)
(* run has exactly one record of every listed entity that was not deleted  *)
(* meanwhile, with its macros and tags, at most one of every other listed  *)
(* entity, and none of an entity created after the listing: an upsert of   *)
(* the file never meets the same key twice.                                *)
Listed(e) == \E i \in DOMAIN ids : ids[i] = e
CompleteOnce ==
  pc = "done" => \A e \in Entity :
    /\ copies[e] <= IF Listed(e) THEN 1 ELSE 0
    /\ Listed(e) /\ e \notin gone => /\ copies[e] = 1
                                     /\ TwoPasses => macro[e] # 0 /\ tag[e] # 0

(* The parts of a record may come from different versions of its host, but *)
(* the later call never brings an older part: macros are no older than the *)
(* details they are merged into, tags no older than the macros.            *)
PartsInOrder ==
  \A e \in Entity :
    /\ macro[e] # 0 => detail[e] <= macro[e]
    /\ tag[e] # 0 /\ macro[e] # 0 => macro[e] <= tag[e]
    /\ macro[e] # 0 /\ pc = "done" => copies[e] = 1
=============================================================================
