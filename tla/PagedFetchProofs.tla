--------------------------- MODULE PagedFetchProofs ---------------------------
(***************************************************************************)
(* A finished run is complete and has no record twice, and the parts of a  *)
(* record are never out of order, for any number of entities, any chunk    *)
(* size, one pass or two, whatever Zabbix does between the calls and       *)
(* however often the task is retried.                                      *)
(***************************************************************************)
EXTENDS PagedFetch, FiniteSetTheorems, SequenceTheorems, TLAPS

(* Each id is listed once and belonged to an entity that existed.          *)
ListInv ==
  /\ \A e \in alive : version[e] > 0
  /\ \A i, j \in DOMAIN ids : ids[i] = ids[j] => i = j
  /\ \A i \in DOMAIN ids : ids[i] \in alive \cup gone

(* The records of a run that has asked for the details of the ids up to n. *)
DetailsUpTo(n) ==
  /\ \A e \in Entity : copies[e] > 0 => Listed(e)
  /\ \A i \in DOMAIN ids :
       /\ copies[ids[i]] <= IF i <= n THEN 1 ELSE 0
       /\ i <= n /\ ids[i] \notin gone => copies[ids[i]] = 1

(* The same of the second pass.                                            *)
MacrosUpTo(n) == \A i \in DOMAIN ids : i <= n /\ ids[i] \notin gone => macro[ids[i]] # 0
TagsUpTo(n)   == \A i \in DOMAIN ids : i <= n /\ ids[i] \notin gone => tag[ids[i]] # 0

PassInv ==
  /\ pc = "list" => copies = Nothing /\ ids = <<>>
  /\ pc = "details" => DetailsUpTo(offset)
  /\ pc \in {"macros", "tags", "done"} => DetailsUpTo(Len(ids))
  /\ pc = "macros" => MacrosUpTo(offset) /\ TagsUpTo(offset)
  /\ pc = "tags" => MacrosUpTo(NextOffset) /\ TagsUpTo(offset)
  /\ pc = "done" /\ TwoPasses => MacrosUpTo(Len(ids)) /\ TagsUpTo(Len(ids))

PagedInv == TypeOK /\ ListInv /\ PassInv

(* A listing is a sequence without repetition of what exists.              *)
LEMMA ListingType ==
  ASSUME TypeOK, NEW s \in Listings
  PROVE  /\ s \in Seq(Entity)
         /\ \A i \in DOMAIN s : s[i] \in alive
         /\ \A i, j \in DOMAIN s : s[i] = s[j] => i = j
         /\ alive = {} => Len(s) = 0
         /\ Len(s) \in Nat /\ DOMAIN s = 1..Len(s)
<1>1. Cardinality(alive) \in Nat
  BY FS_Subset, FS_CardinalityType, PagingAssumption DEF TypeOK
<1>2. s \in [1..Cardinality(alive) -> alive]
  BY DEF Listings
<1>3. DOMAIN s = 1..Cardinality(alive)
  BY <1>2
<1>4. s \in Seq(Entity) /\ Len(s) = Cardinality(alive)
  <2>1. s \in [1..Cardinality(alive) -> Entity]
    BY <1>2 DEF TypeOK
  <2>2. s \in Seq(Entity)
    BY <1>1, <2>1, SeqDef
  <2>3. DOMAIN s = 1..Len(s) /\ Len(s) \in Nat
    BY <2>2, LenProperties
  <2>. QED BY <1>1, <1>3, <2>2, <2>3
<1>5. alive = {} => Cardinality(alive) = 0
  BY FS_EmptySet
<1>6. \A i, j \in DOMAIN s : s[i] = s[j] => i = j
  BY <1>3 DEF Listings
<1>7. \A i \in DOMAIN s : s[i] \in alive
  BY <1>2, <1>3
<1>8. alive = {} => Len(s) = 0
  BY <1>4, <1>5
<1>9. Len(s) \in Nat /\ DOMAIN s = 1..Len(s)
  BY <1>4, LenProperties
<1>. QED BY <1>4, <1>6, <1>7, <1>8, <1>9

(* What the listing call leaves in all_ids.                                *)
LEMMA ListIdsType ==
  ASSUME TypeOK, ListIds
  PROVE  /\ ids' \in Seq(Entity) /\ Len(ids') \in Nat
         /\ \A i \in DOMAIN ids' : ids'[i] \in alive
         /\ \A i, j \in DOMAIN ids' : ids'[i] = ids'[j] => i = j
         /\ alive = {} => Len(ids') = 0
         /\ DOMAIN ids' = 1..Len(ids')
<1>1. ids' \in Listings
  BY DEF ListIds
<1>. QED BY <1>1, ListingType

(* What the passes have reached stays reached while only Zabbix changes.   *)
LEMMA PassStable ==
  ASSUME PassInv, UNCHANGED collector, gone \subseteq gone'
  PROVE  PassInv'
<1>1. UNCHANGED <<pc, ids, offset, copies, macro, tag>>
  BY DEF collector, result
<1>2. ASSUME NEW n, DetailsUpTo(n) PROVE DetailsUpTo(n)'
  BY <1>1, <1>2 DEF DetailsUpTo, Listed
<1>3. ASSUME NEW n, MacrosUpTo(n) PROVE MacrosUpTo(n)'
  BY <1>1, <1>3 DEF MacrosUpTo
<1>4. ASSUME NEW n, TagsUpTo(n) PROVE TagsUpTo(n)'
  BY <1>1, <1>4 DEF TagsUpTo
<1>. QED BY <1>1, <1>2, <1>3, <1>4 DEF PassInv, NextOffset

(* The chunk is the ids from offset to the next one.                       *)
LEMMA InAnswer ==
  ASSUME TypeOK, ListInv, NEW i \in DOMAIN ids
  PROVE  ids[i] \in Answer <=> offset < i /\ i <= NextOffset /\ ids[i] \in alive
BY DEF ListInv, Answer, ChunkIds, ChunkIndices, NextOffset

(* The call for a chunk adds one record of each of its ids that exists; n  *)
(* is the next offset, or the number of ids when this was the last chunk.  *)
LEMMA DetailsCounted ==
  ASSUME TypeOK, ListInv, FetchDetails, DetailsUpTo(offset),
         NEW n \in Nat, n = NextOffset \/ (LastChunk /\ n = Len(ids))
  PROVE  DetailsUpTo(n)'
<1>1. /\ UNCHANGED <<ids, gone>>
      /\ copies' = [e \in Entity |-> IF e \in Answer THEN copies[e] + 1 ELSE copies[e]]
  BY DEF FetchDetails, zabbix
<1>2. /\ offset \in Nat /\ NextOffset \in Nat /\ offset <= NextOffset
      /\ copies \in [Entity -> Nat] /\ ids \in Seq(Entity)
  BY PagingAssumption DEF TypeOK, NextOffset
<1>3. \A i \in DOMAIN ids : i \in Nat /\ i <= Len(ids) /\ ids[i] \in Entity
  BY <1>2
<1>4. \A i \in DOMAIN ids : (i <= n <=> i <= NextOffset)
  BY <1>2, <1>3 DEF LastChunk
<1>5. \A e \in Entity : copies'[e] > 0 => Listed(e)'
  <2>1. \A e \in Answer : Listed(e)
    BY DEF Answer, ChunkIds, ChunkIndices, Listed
  <2>2. \A e \in Entity : Listed(e)' <=> Listed(e)
    BY <1>1 DEF Listed
  <2>3. \A e \in Entity : copies[e] > 0 => Listed(e)
    BY DEF DetailsUpTo
  <2>. QED BY <1>1, <2>1, <2>2, <2>3
<1>6. ASSUME NEW i \in DOMAIN ids
      PROVE  /\ copies'[ids[i]] <= IF i <= n THEN 1 ELSE 0
             /\ i <= n /\ ids[i] \notin gone => copies'[ids[i]] = 1
  <2>1. i \in Nat /\ ids[i] \in Entity /\ copies[ids[i]] \in Nat
    BY <1>2, <1>3
  <2>2. /\ copies[ids[i]] <= IF i <= offset THEN 1 ELSE 0
        /\ i <= offset /\ ids[i] \notin gone => copies[ids[i]] = 1
    BY DEF DetailsUpTo
  <2>3. copies'[ids[i]] = IF ids[i] \in Answer THEN copies[ids[i]] + 1 ELSE copies[ids[i]]
    BY <1>1, <2>1
  <2>4. ids[i] \in Answer <=> offset < i /\ i <= n /\ ids[i] \in alive
    BY <1>4, InAnswer
  <2>5. ids[i] \in alive \cup gone
    BY DEF ListInv
  <2>6. CASE i <= offset
    <3>1. ids[i] \notin Answer /\ i <= n
      BY <1>2, <1>4, <2>1, <2>4, <2>6
    <3>. QED BY <2>2, <2>3, <2>6, <3>1
  <2>7. CASE ~(i <= offset)
    <3>1. offset < i /\ copies[ids[i]] = 0
      BY <1>2, <2>1, <2>2, <2>7
    <3>2. copies'[ids[i]] = IF ids[i] \in Answer THEN 1 ELSE 0
      BY <2>3, <3>1
    <3>. QED BY <2>4, <2>5, <3>1, <3>2
  <2>. QED BY <2>6, <2>7
<1>. QED BY <1>1, <1>5, <1>6 DEF DetailsUpTo

LEMMA PagedInit == Init => PagedInv
BY PagingAssumption DEF Init, PagedInv, TypeOK, ListInv, PassInv, Nothing

LEMMA PagedNext == PagedInv /\ [Next]_vars => PagedInv'
<1>. SUFFICES ASSUME PagedInv, [Next]_vars PROVE PagedInv'
  OBVIOUS
<1>. USE PagingAssumption DEF PagedInv, TypeOK, ListInv, PassInv
<1>1. ASSUME NEW e \in Entity, Create(e) \/ Edit(e) \/ Delete(e) PROVE PagedInv'
  <2>1. UNCHANGED collector /\ gone \subseteq gone'
    BY <1>1 DEF Create, Edit, Delete
  <2>2. TypeOK' /\ ListInv'
    <3>1. UNCHANGED <<pc, ids, offset, copies, detail, macro, tag, tries>>
      BY <2>1 DEF collector, result
    <3>2. CASE Create(e)
      BY <3>1, <3>2 DEF Create
    <3>3. CASE Edit(e)
      <4>1. /\ version' = [version EXCEPT ![e] = @ + 1] /\ e \in alive
            /\ UNCHANGED <<alive, gone>>
        BY <3>3 DEF Edit
      <4>2. version' \in [Entity -> Nat]
        BY <4>1
      <4>3. \A x \in Entity : version'[x] = IF x = e THEN version[x] + 1 ELSE version[x]
        BY <4>1
      <4>4. \A x \in alive : x \in Entity /\ version[x] \in Nat /\ version[x] > 0
        OBVIOUS
      <4>5. ASSUME NEW x \in alive PROVE version'[x] > 0
        <5>1. version[x] \in Nat /\ version[x] > 0 /\ x \in Entity
          BY <4>4
        <5>2. version'[x] = version[x] \/ version'[x] = version[x] + 1
          BY <4>3, <5>1
        <5>. QED BY <5>1, <5>2
      <4>. QED BY <3>1, <4>1, <4>2, <4>5
    <3>4. CASE Delete(e)
      BY <3>1, <3>4 DEF Delete
    <3>. QED BY <1>1, <3>2, <3>3, <3>4
  <2>. QED BY <2>1, <2>2, PassStable
<1>2. CASE ListIds
  <2>1. /\ ids' \in Seq(Entity) /\ Len(ids') \in Nat
        /\ \A i \in DOMAIN ids' : ids'[i] \in alive
        /\ \A i, j \in DOMAIN ids' : ids'[i] = ids'[j] => i = j
        /\ alive = {} => Len(ids') = 0
        /\ DOMAIN ids' = 1..Len(ids')
    BY <1>2, ListIdsType
  <2>2. /\ UNCHANGED <<alive, version, gone, copies, detail, macro, tag, tries>>
        /\ copies = Nothing /\ offset' = 0
        /\ pc' = IF alive = {} THEN "done" ELSE "details"
    BY <1>2 DEF ListIds, zabbix, result, FirstPass
  <2>3. TypeOK' /\ ListInv'
    BY <2>1, <2>2
  <2>4. PassInv'
    <3>1. CASE alive = {}
      <4>1. pc' = "done" /\ DOMAIN ids' = {} /\ Len(ids') = 0
        BY <2>1, <2>2, <3>1
      <4>. QED BY <2>2, <4>1 DEF DetailsUpTo, MacrosUpTo, TagsUpTo, Nothing
    <3>2. CASE alive # {}
      <4>1. \A i \in DOMAIN ids' : ids'[i] \in Entity /\ ~(i <= 0)
        BY <2>1
      <4>2. pc' = "details" /\ offset' = 0 /\ copies' = Nothing
        BY <2>2, <3>2
      <4>3. DetailsUpTo(offset)'
        BY <4>1, <4>2 DEF DetailsUpTo, Nothing
      <4>. QED BY <4>2, <4>3
    <3>. QED BY <3>1, <3>2
  <2>. QED BY <2>3, <2>4
<1>3. CASE FetchDetails
  <2>1. /\ UNCHANGED <<alive, version, gone, ids, macro, tag, tries>>
        /\ copies' = [e \in Entity |-> IF e \in Answer THEN copies[e] + 1 ELSE copies[e]]
        /\ detail' = [e \in Entity |-> IF e \in Answer THEN version[e] ELSE detail[e]]
        /\ offset' = IF LastChunk THEN 0 ELSE NextOffset
        /\ pc' = IF ~LastChunk THEN "details" ELSE IF TwoPasses THEN "macros" ELSE "done"
        /\ pc = "details"
    BY <1>3 DEF FetchDetails, zabbix
  <2>2. TypeOK' /\ ListInv'
    BY <2>1 DEF NextOffset
  <2>3. ASSUME NEW n \in Nat, n = NextOffset \/ (LastChunk /\ n = Len(ids))
        PROVE  DetailsUpTo(n)'
    <3>1. DetailsUpTo(offset)
      BY <2>1
    <3>. QED BY <1>3, <2>3, <3>1, DetailsCounted
  <2>4. NextOffset \in Nat /\ Len(ids) \in Nat
    BY DEF NextOffset
  <2>5. CASE ~LastChunk
    BY <2>1, <2>2, <2>3, <2>4, <2>5
  <2>6. CASE LastChunk
    <3>1. DetailsUpTo(Len(ids))'
      BY <2>1, <2>3, <2>4, <2>6
    <3>2. \A i \in DOMAIN ids : ~(i <= 0)
      OBVIOUS
    <3>3. MacrosUpTo(0)' /\ TagsUpTo(0)'
      BY <2>1, <3>2 DEF MacrosUpTo, TagsUpTo
    <3>. QED BY <2>1, <2>2, <2>6, <3>1, <3>3
  <2>. QED BY <2>5, <2>6
<1>4. CASE FetchMacros
  <2>1. /\ UNCHANGED <<alive, version, gone, ids, offset, copies, detail, tag, tries>>
        /\ macro' = [e \in Entity |-> IF e \in Answer THEN version[e] ELSE macro[e]]
        /\ pc = "macros" /\ pc' = "tags"
    BY <1>4 DEF FetchMacros, zabbix
  <2>2. TypeOK' /\ ListInv'
    BY <2>1
  <2>3. MacrosUpTo(NextOffset)'
    <3>. SUFFICES ASSUME NEW i \in DOMAIN ids, i <= NextOffset, ids[i] \notin gone
                  PROVE  macro'[ids[i]] # 0
      BY <2>1 DEF MacrosUpTo, NextOffset
    <3>1. ids[i] \in alive /\ ids[i] \in Entity
      OBVIOUS
    <3>2. CASE i <= offset
      BY <2>1, <3>1, <3>2 DEF MacrosUpTo
    <3>3. CASE offset < i
      <4>1. ids[i] \in Answer
        BY <3>1, <3>3, InAnswer
      <4>. QED BY <2>1, <3>1, <4>1
    <3>. QED BY <3>2, <3>3
  <2>4. DetailsUpTo(Len(ids))' /\ TagsUpTo(offset)'
    BY <2>1 DEF DetailsUpTo, TagsUpTo, Listed
  <2>. QED BY <2>1, <2>2, <2>3, <2>4
<1>5. CASE FetchTags
  <2>1. /\ UNCHANGED <<alive, version, gone, ids, copies, detail, macro, tries>>
        /\ tag' = [e \in Entity |-> IF e \in Answer THEN version[e] ELSE tag[e]]
        /\ offset' = IF LastChunk THEN 0 ELSE NextOffset
        /\ pc' = IF LastChunk THEN "done" ELSE "macros"
        /\ pc = "tags"
    BY <1>5 DEF FetchTags, zabbix
  <2>2. TypeOK' /\ ListInv'
    BY <2>1 DEF NextOffset
  <2>3. ASSUME NEW i \in DOMAIN ids, i <= NextOffset, ids[i] \notin gone
        PROVE  tag'[ids[i]] # 0 /\ macro'[ids[i]] # 0
    <3>1. ids[i] \in alive /\ ids[i] \in Entity
      BY <2>3
    <3>2. macro'[ids[i]] # 0
      BY <2>1, <2>3 DEF MacrosUpTo
    <3>3. CASE i <= offset
      BY <2>1, <2>3, <3>1, <3>2, <3>3 DEF TagsUpTo
    <3>4. CASE offset < i
      <4>1. ids[i] \in Answer
        BY <2>3, <3>1, <3>4, InAnswer
      <4>. QED BY <2>1, <3>1, <3>2, <4>1
    <3>. QED BY <3>3, <3>4
  <2>4. DetailsUpTo(Len(ids))'
    BY <2>1 DEF DetailsUpTo, Listed
  <2>5. CASE ~LastChunk
    <3>1. offset' = NextOffset /\ pc' = "macros" /\ ids' = ids /\ gone' = gone
      BY <2>1, <2>5
    <3>2. MacrosUpTo(offset)' /\ TagsUpTo(offset)'
      BY <2>3, <3>1 DEF MacrosUpTo, TagsUpTo
    <3>. QED BY <2>2, <2>4, <3>1, <3>2
  <2>6. CASE LastChunk
    <3>1. \A i \in DOMAIN ids : i <= NextOffset
      BY <2>6 DEF LastChunk, NextOffset
    <3>2. MacrosUpTo(Len(ids))' /\ TagsUpTo(Len(ids))'
      BY <2>1, <2>3, <3>1 DEF MacrosUpTo, TagsUpTo
    <3>. QED BY <2>1, <2>2, <2>4, <2>6, <3>2
  <2>. QED BY <2>5, <2>6
<1>6. CASE CallFails \/ NextRun
  <2>1. UNCHANGED <<alive, version>>
    BY <1>6 DEF CallFails, NextRun
  <2>2. CASE StartOver /\ tries' \in 0..Retries
    <3>1. ids' = <<>> /\ DOMAIN ids' = {}
      BY <2>2 DEF StartOver
    <3>. QED BY <2>1, <2>2, <3>1 DEF StartOver, Nothing
  <2>3. CASE pc' = "failed" /\ UNCHANGED <<gone, ids, offset, result, tries>>
    BY <2>1, <2>3 DEF result
  <2>4. CASE CallFails
    BY <2>2, <2>3, <2>4 DEF CallFails, MayRetry
  <2>5. CASE NextRun
    <3>1. StartOver /\ tries' = 0
      BY <2>5 DEF NextRun
    <3>2. tries' \in 0..Retries
      BY <3>1
    <3>. QED BY <2>2, <3>1, <3>2
  <2>. QED BY <1>6, <2>4, <2>5
<1>7. CASE UNCHANGED vars
  BY <1>7 DEF vars, zabbix, result, DetailsUpTo, MacrosUpTo, TagsUpTo, NextOffset, Listed
<1>. QED BY <1>1, <1>2, <1>3, <1>4, <1>5, <1>6, <1>7 DEF Next

(* A fetch keeps its variables to their types.                             *)
THEOREM FetchTypeCorrect == Spec => []TypeOK
<1>1. PagedInv => TypeOK
  BY DEF PagedInv
<1>. QED BY <1>1, PagedInit, PagedNext, PTL DEF Spec

(* A finished run has exactly one record, with macros and tags, of every   *)
(* listed entity that was not deleted meanwhile, and no other twice.       *)
THEOREM Complete == Spec => []CompleteOnce
<1>1. PagedInv => CompleteOnce
  <2>. SUFFICES ASSUME PagedInv, pc = "done", NEW e \in Entity
                PROVE  /\ copies[e] <= IF Listed(e) THEN 1 ELSE 0
                       /\ Listed(e) /\ e \notin gone =>
                            copies[e] = 1 /\ (TwoPasses => macro[e] # 0 /\ tag[e] # 0)
    BY DEF CompleteOnce
  <2>. USE DEF PagedInv, PassInv, TypeOK
  <2>1. CASE ~Listed(e)
    BY <2>1 DEF DetailsUpTo
  <2>2. CASE Listed(e)
    <3>1. PICK i \in DOMAIN ids : ids[i] = e
      BY <2>2 DEF Listed
    <3>2. i <= Len(ids)
      OBVIOUS
    <3>. QED BY <2>2, <3>1, <3>2 DEF DetailsUpTo, MacrosUpTo, TagsUpTo
  <2>. QED BY <2>1, <2>2
<1>. QED BY <1>1, PagedInit, PagedNext, PTL DEF Spec
-----------------------------------------------------------------------------
(* Where each part of a record stands.  Ids are not reused, so that what   *)
(* still exists has its details when its macros are asked for; each chunk  *)
(* is asked for its macros, and then for its tags, once.                   *)
NotReused == \A e \in gone : version[e] > 0 /\ e \notin alive

PartsOf(e) ==
  /\ detail[e] <= version[e] /\ macro[e] <= version[e]
  /\ macro[e] # 0 => detail[e] <= macro[e] /\ copies[e] = 1
  /\ tag[e] # 0 /\ macro[e] # 0 => macro[e] <= tag[e]

(* From index n on, nothing of the map m has been asked for.               *)
BlankFrom(m, n) == \A i \in DOMAIN ids : n < i => m[ids[i]] = 0

AskedInv ==
  /\ pc \in {"list", "details"} => macro = Nothing /\ tag = Nothing
  /\ pc = "macros" => BlankFrom(macro, offset) /\ BlankFrom(tag, offset)
  /\ pc = "tags" => BlankFrom(macro, NextOffset) /\ BlankFrom(tag, offset)

OrderInv == NotReused /\ AskedInv /\ \A e \in Entity : PartsOf(e)

LEMMA OrderInit == Init => OrderInv
BY DEF Init, OrderInv, NotReused, AskedInv, PartsOf, Nothing

(* The ids after a chunk are not in its answer.                            *)
LEMMA BeyondChunk ==
  ASSUME TypeOK, ListInv, NEW i \in DOMAIN ids, NextOffset < i
  PROVE  ids[i] \in Entity /\ offset < i /\ ids[i] \notin Answer
<1>1. offset \in Nat /\ ChunkSize \in Nat /\ ids \in Seq(Entity)
  BY PagingAssumption DEF TypeOK
<1>2. i \in Nat /\ ids[i] \in Entity
  BY <1>1
<1>3. NextOffset \in Nat /\ offset <= NextOffset
  BY <1>1 DEF NextOffset
<1>4. offset < i /\ ~(i <= NextOffset)
  BY <1>1, <1>2, <1>3
<1>. QED BY <1>2, <1>4, InAnswer

LEMMA OrderNext == PagedInv /\ OrderInv /\ [Next]_vars => OrderInv'
<1>. SUFFICES ASSUME PagedInv, OrderInv, [Next]_vars PROVE OrderInv'
  OBVIOUS
<1>. USE PagingAssumption DEF PagedInv, TypeOK, ListInv, OrderInv
<1>1. ASSUME NEW x \in Entity, Create(x) \/ Edit(x) \/ Delete(x) PROVE OrderInv'
  <2>1. UNCHANGED <<pc, ids, offset, copies, detail, macro, tag>>
    BY <1>1 DEF Create, Edit, Delete, collector, result
  <2>2. \A e \in Entity : version'[e] \in Nat /\ version[e] <= version'[e]
    <3>1. CASE Create(x)
      BY <3>1 DEF Create
    <3>2. CASE Edit(x)
      <4>. SUFFICES ASSUME NEW e \in Entity
                    PROVE  version'[e] \in Nat /\ version[e] <= version'[e]
        OBVIOUS
      <4>1. version[e] \in Nat
        OBVIOUS
      <4>2. version'[e] = version[e] \/ version'[e] = version[e] + 1
        BY <3>2 DEF Edit
      <4>. QED BY <4>1, <4>2
    <3>3. CASE Delete(x)
      BY <3>3 DEF Delete
    <3>. QED BY <1>1, <3>1, <3>2, <3>3
  <2>3. NotReused'
    BY <1>1, <2>2 DEF Create, Edit, Delete, NotReused
  <2>4. AskedInv'
    BY <2>1 DEF AskedInv, BlankFrom, NextOffset
  <2>5. ASSUME NEW e \in Entity PROVE PartsOf(e)'
    BY <2>1, <2>2, <2>5 DEF PartsOf
  <2>. QED BY <2>3, <2>4, <2>5
<1>2. CASE ListIds
  BY <1>2 DEF ListIds, zabbix, result, FirstPass, NotReused, AskedInv, PartsOf
<1>3. CASE FetchDetails
  <2>1. /\ UNCHANGED <<alive, version, gone, ids, macro, tag>>
        /\ detail' = [e \in Entity |-> IF e \in Answer THEN version[e] ELSE detail[e]]
        /\ pc' \in {"details", "macros", "done"}
        /\ macro = Nothing /\ tag = Nothing
    BY <1>3 DEF FetchDetails, zabbix, AskedInv
  <2>2. AskedInv'
    <3>1. \A i \in DOMAIN ids : ids[i] \in Entity
      OBVIOUS
    <3>. QED BY <2>1, <3>1 DEF AskedInv, BlankFrom, Nothing
  <2>. QED BY <2>1, <2>2 DEF NotReused, PartsOf, Nothing
<1>4. CASE FetchMacros
  <2>1. /\ UNCHANGED <<alive, version, gone, ids, offset, copies, detail, tag>>
        /\ macro' = [e \in Entity |-> IF e \in Answer THEN version[e] ELSE macro[e]]
        /\ pc = "macros" /\ pc' = "tags"
    BY <1>4 DEF FetchMacros, zabbix
  <2>2. AskedInv'
    <3>1. ASSUME NEW i \in DOMAIN ids, NextOffset < i PROVE macro'[ids[i]] = 0
      <4>1. ids[i] \in Entity /\ offset < i /\ ids[i] \notin Answer
        BY <3>1, BeyondChunk
      <4>. QED BY <2>1, <3>1, <4>1 DEF AskedInv, BlankFrom
    <3>. QED BY <2>1, <3>1 DEF AskedInv, BlankFrom, NextOffset
  <2>3. ASSUME NEW e \in Answer PROVE copies[e] = 1 /\ tag[e] = 0
    <3>1. PICK i \in ChunkIndices : ids[i] = e
      BY DEF Answer, ChunkIds
    <3>2. e \notin gone /\ i \in DOMAIN ids /\ i <= Len(ids) /\ offset < i
      BY DEF Answer, ChunkIndices, NotReused
    <3>. QED BY <2>1, <3>1, <3>2 DEF PassInv, DetailsUpTo, AskedInv, BlankFrom
  <2>4. ASSUME NEW e \in Entity PROVE PartsOf(e)'
    BY <2>1, <2>3 DEF PartsOf
  <2>. QED BY <2>1, <2>2, <2>4 DEF NotReused
<1>5. CASE FetchTags
  <2>1. /\ UNCHANGED <<alive, version, gone, ids, copies, detail, macro>>
        /\ tag' = [e \in Entity |-> IF e \in Answer THEN version[e] ELSE tag[e]]
        /\ pc = "tags"
        /\ offset' = IF LastChunk THEN 0 ELSE NextOffset
        /\ pc' = IF LastChunk THEN "done" ELSE "macros"
    BY <1>5 DEF FetchTags, zabbix
  <2>2. AskedInv'
    <3>1. ASSUME NEW i \in DOMAIN ids, NextOffset < i PROVE tag'[ids[i]] = 0
      <4>1. ids[i] \in Entity /\ offset < i /\ ids[i] \notin Answer
        BY <3>1, BeyondChunk
      <4>. QED BY <2>1, <3>1, <4>1 DEF AskedInv, BlankFrom
    <3>2. pc' = "done" \/ (pc' = "macros" /\ offset' = NextOffset)
      BY <2>1
    <3>3. BlankFrom(macro, NextOffset)
      BY <2>1 DEF AskedInv
    <3>4. \A i \in DOMAIN ids : NextOffset < i => macro'[ids[i]] = 0 /\ tag'[ids[i]] = 0
      BY <2>1, <3>1, <3>3 DEF BlankFrom
    <3>. QED BY <2>1, <3>2, <3>4 DEF AskedInv, BlankFrom
  <2>3. ASSUME NEW e \in Entity PROVE PartsOf(e)'
    BY <2>1 DEF PartsOf
  <2>. QED BY <2>1, <2>2, <2>3 DEF NotReused
<1>6. CASE CallFails \/ NextRun
  <2>1. UNCHANGED <<alive, version>>
    BY <1>6 DEF CallFails, NextRun
  <2>2. CASE StartOver
    BY <2>1, <2>2 DEF StartOver, NotReused, AskedInv, PartsOf, Nothing
  <2>3. CASE pc' = "failed" /\ UNCHANGED <<gone, ids, offset, result>>
    BY <2>1, <2>3 DEF result, NotReused, AskedInv, PartsOf
  <2>. QED BY <1>6, <2>2, <2>3 DEF CallFails, NextRun
<1>7. CASE UNCHANGED vars
  BY <1>7 DEF vars, zabbix, result, NotReused, AskedInv, PartsOf, BlankFrom, NextOffset
<1>. QED BY <1>1, <1>2, <1>3, <1>4, <1>5, <1>6, <1>7 DEF Next

(* The parts of a record are never out of order: macros are no older than  *)
(* the details they are merged into, tags no older than the macros.        *)
THEOREM PartsFollow == Spec => []PartsInOrder
<1>1. OrderInv => PartsInOrder
  BY DEF OrderInv, PartsOf, PartsInOrder
<1>. QED BY <1>1, PagedInit, PagedNext, OrderInit, OrderNext, PTL DEF Spec
=============================================================================
