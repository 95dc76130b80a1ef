------------------------ MODULE LoadTransactionProofs ------------------------
(***************************************************************************)
(* The loads of any number of writers are atomic, the statements of an     *)
(* upsert fit, and no staging table is left, for all files, page sizes,    *)
(* methods and failures.                                                   *)
(***************************************************************************)
EXTENDS LoadTransaction, WellFoundedInduction, NaturalsInduction, TLAPS

Running(s) == pc[s] \in {"rows", "drop", "commit"}
Sent(s)    == Rows(s) \ todo[s]

(* No two open transactions have written the same row.                     *)
RowLocks == \A s, u \in Session : \A k \in Key :
              dirty[s][k] # None /\ dirty[u][k] # None => s = u

(* Staging tables exist inside the transactions that use them.             *)
Staging == /\ catalog = {}
           /\ \A s \in created : method = "copy" /\ pc[s] \in {"rows", "drop"}
           /\ \A s \in Session : pc[s] = "staging" => method = "copy"

(* What a transaction has written are the rows it has sent, up to those a  *)
(* copy has skipped; the table has no row where a plain row was written.   *)
Written(s) ==
  \A k \in Key : dirty[s][k] # None =>
    \E i \in Sent(s) :
      /\ KeyOf(s, i) = k /\ dirty[s][k] = <<BatchOf[s], ValueAt(s, i)>>
      /\ method # "upsert" => /\ table[k] = None
                              /\ \A j \in Sent(s) : KeyOf(s, j) = k => i <= j
Arrived(s) ==
  \A i \in Sent(s) : \/ dirty[s][KeyOf(s, i)] # None
                     \/ method = "copy" /\ table[KeyOf(s, i)] # None
Single(s) == method \in {"insert", "plain"} =>
               \A i, j \in Sent(s) : KeyOf(s, i) = KeyOf(s, j) => i = j

Progress(s) ==
  /\ pc[s] = "staging" => todo[s] = Rows(s)
  /\ Running(s) => /\ todo[s] \subseteq Rows(s)
                   /\ \A i \in Sent(s), j \in todo[s] : i < j
                   /\ Written(s) /\ Arrived(s) /\ Single(s)
  /\ pc[s] \in {"drop", "commit"} => todo[s] = {}
  /\ ~Running(s) => dirty[s] = Clean
  /\ pc[s] # "rows" => touched[s] = {}
  /\ method = "upsert" => \A j \in todo[s] : KeyOf(s, j) \notin touched[s]

LoadInv == TypeOK /\ RowLocks /\ Staging /\ \A s \in Session : Progress(s)

(* The records of a file.                                                  *)
LEMMA RecordsType ==
  ASSUME NEW s \in Session
  PROVE  /\ Records[BatchOf[s]] \in Seq(Key) /\ BatchOf[s] \in Batch
         /\ \A i \in Indices(s) : i \in Nat /\ KeyOf(s, i) \in Key
         /\ Rows(s) \subseteq Indices(s) /\ Rows(s) \in SUBSET Nat
BY LoadAssumption DEF Indices, KeyOf, Rows

(* A set of numbers that is not empty has a least one.                     *)
LEMMA HasLeast ==
  ASSUME NEW T \in SUBSET Nat, T # {}
  PROVE  \E x \in T : \A y \in T : x <= y
<1>1. PICK x \in T : \A y \in T : ~(<<y, x>> \in OpToRel(<, Nat))
  BY NatLessThanWellFounded, WFMin
<1>2. \A y \in T : ~(y < x)
  BY <1>1 DEF OpToRel
<1>. QED BY <1>2

(* Every key of a file has its first record among the rows that are sent.  *)
LEMMA FirstIsSent ==
  ASSUME NEW s \in Session, NEW i \in Indices(s)
  PROVE  \E j \in Rows(s) : KeyOf(s, j) = KeyOf(s, i) /\ \A l \in Alike(s, i) : j <= l
<1>1. Alike(s, i) \in SUBSET Nat /\ i \in Alike(s, i)
  BY RecordsType DEF Alike
<1>2. PICK j \in Alike(s, i) : \A l \in Alike(s, i) : j <= l
  BY <1>1, HasLeast
<1>3. KeyOf(s, j) = KeyOf(s, i) /\ j \in Indices(s)
  BY DEF Alike
<1>4. Alike(s, j) = Alike(s, i)
  BY <1>3 DEF Alike
<1>. QED BY <1>2, <1>3, <1>4 DEF Rows, IsFirst

(* Of the rows of an upsert, no two have the same key.                     *)
LEMMA UpsertOnce ==
  ASSUME NEW s \in Session, method = "upsert", NEW i \in Rows(s), NEW j \in Rows(s),
         KeyOf(s, i) = KeyOf(s, j)
  PROVE  i = j
<1>1. i \in Nat /\ j \in Nat /\ i \in Alike(s, j) /\ j \in Alike(s, i)
  BY RecordsType DEF Alike, Rows
<1>2. i <= j /\ j <= i
  BY <1>1 DEF Rows, IsFirst
<1>. QED BY <1>1, <1>2

-----------------------------------------------------------------------------
(* A step of s leaves the other transactions alone, and changes only rows  *)
(* of the table that s has locked.                                         *)
OthersApart(s) ==
  /\ UNCHANGED method
  /\ \A u \in Session \ {s} : /\ pc'[u] = pc[u] /\ todo'[u] = todo[u]
                              /\ dirty'[u] = dirty[u] /\ touched'[u] = touched[u]
  /\ \A k \in Key : table'[k] = table[k] \/ (dirty[s][k] # None /\ table'[k] # None)

LEMMA OthersProgress ==
  ASSUME LoadInv, NEW s \in Session, OthersApart(s), NEW u \in Session \ {s}
  PROVE  Progress(u)'
<1>1. /\ Progress(u) /\ method' = method /\ pc'[u] = pc[u] /\ todo'[u] = todo[u]
      /\ dirty'[u] = dirty[u] /\ touched'[u] = touched[u]
  BY DEF LoadInv, OthersApart
<1>2. Rows(u)' = Rows(u) /\ Sent(u)' = Sent(u)
  BY <1>1 DEF Rows, Sent, Indices, IsFirst, Alike, KeyOf
<1>3. \A i : KeyOf(u, i)' = KeyOf(u, i) /\ ValueAt(u, i)' = ValueAt(u, i)
  BY <1>1 DEF KeyOf, ValueAt, LastLike, Alike, Indices
<1>4. \A k \in Key : /\ dirty[u][k] # None => table'[k] = table[k]
                     /\ table[k] # None => table'[k] # None
  BY DEF LoadInv, OthersApart, RowLocks
<1>5. Running(u)' <=> Running(u)
  BY <1>1 DEF Running
<1>6. ASSUME Written(u) PROVE Written(u)'
  BY <1>1, <1>2, <1>3, <1>4, <1>6 DEF Written
<1>7. \A i \in Sent(u) : KeyOf(u, i) \in Key
  BY RecordsType DEF Sent
<1>8. ASSUME Arrived(u) PROVE Arrived(u)'
  BY <1>1, <1>2, <1>3, <1>4, <1>7, <1>8 DEF Arrived
<1>9. ASSUME Single(u) PROVE Single(u)'
  BY <1>1, <1>2, <1>3, <1>9 DEF Single
<1>. QED BY <1>1, <1>2, <1>3, <1>5, <1>6, <1>8, <1>9 DEF Progress, Clean

LEMMA LoadInit == Init => LoadInv
<1>. SUFFICES ASSUME Init PROVE LoadInv
  OBVIOUS
<1>1. TypeOK
  BY LoadAssumption DEF Init, TypeOK, Clean, Row
<1>2. RowLocks /\ Staging /\ \A s \in Session : Progress(s)
  BY DEF Init, RowLocks, Staging, Progress, Running, Clean
<1>. QED BY <1>1, <1>2 DEF LoadInv
(* A step of s is then a matter of s, the locks and the staging tables.    *)
LEMMA OwnProgress ==
  ASSUME LoadInv, NEW s \in Session, OthersApart(s), TypeOK', RowLocks', Staging', Progress(s)'
  PROVE  LoadInv'
<1>1. \A u \in Session \ {s} : Progress(u)'
  BY OthersProgress
<1>2. \A u \in Session : Progress(u)'
  BY <1>1
<1>. QED BY <1>2 DEF LoadInv

(* Files do not change.                                                    *)
LEMMA SameRecords ==
  ASSUME UNCHANGED method, NEW s \in Session
  PROVE  /\ Rows(s)' = Rows(s) /\ Indices(s)' = Indices(s)
         /\ \A i : KeyOf(s, i)' = KeyOf(s, i) /\ ValueAt(s, i)' = ValueAt(s, i)
BY DEF Rows, Indices, IsFirst, Alike, KeyOf, ValueAt, LastLike

(* Nothing that Progress(s) reads changes but the place where s is.        *)
LEMMA SameRows ==
  ASSUME UNCHANGED <<method, table, dirty>>, NEW s \in Session, todo'[s] = todo[s],
         Written(s), Arrived(s), Single(s)
  PROVE  Written(s)' /\ Arrived(s)' /\ Single(s)'
<1>1. Rows(s)' = Rows(s) /\ \A i : KeyOf(s, i)' = KeyOf(s, i) /\ ValueAt(s, i)' = ValueAt(s, i)
  BY SameRecords
<1>2. Sent(s)' = Sent(s)
  BY <1>1 DEF Sent
<1>3. Written(s)'
  BY <1>1, <1>2 DEF Written
<1>4. Arrived(s)'
  BY <1>1, <1>2 DEF Arrived
<1>5. Single(s)'
  BY <1>1, <1>2 DEF Single
<1>. QED BY <1>3, <1>4, <1>5

(* Before and after the transaction.                                       *)
LEMMA OutsideStep ==
  ASSUME LoadInv, NEW s \in Session,
         TableThere(s) \/ CreateTable(s) \/ NextRun(s) \/ Cleanup(s) \/ Begin(s)
  PROVE  LoadInv'
<1>. USE LoadAssumption
<1>1. TypeOK /\ RowLocks /\ Staging /\ Progress(s)
  BY DEF LoadInv
<1>2. UNCHANGED <<method, table, dirty, created, touched, faults>>
  BY DEF TableThere, CreateTable, NextRun, Cleanup, Begin, server
<1>3. ~Running(s) /\ s \notin created
  BY <1>1 DEF TableThere, CreateTable, NextRun, Cleanup, Begin, Running, Staging
<1>4. dirty[s] = Clean /\ touched[s] = {}
  BY <1>1, <1>3 DEF Progress, Running
<1>5. RowLocks'
  BY <1>1, <1>2 DEF RowLocks
<1>6. CASE ~Begin(s)
  <2>1. PICK where \in {"load", "create", "failed", "ensure"} : pc' = [pc EXCEPT ![s] = where]
    BY <1>6 DEF TableThere, CreateTable, NextRun, Cleanup, Goto
  <2>2. /\ UNCHANGED <<todo, name>> /\ exists' \in BOOLEAN
        /\ catalog' = catalog \/ catalog' = catalog \ {name[s]}
    BY <1>1, <1>6 DEF TableThere, CreateTable, NextRun, Cleanup, server, TypeOK
  <2>3. OthersApart(s) /\ pc'[s] = where
    BY <1>1, <1>2, <2>1, <2>2 DEF OthersApart, TypeOK
  <2>4. TypeOK'
    <3>1. /\ catalog' \subseteq StagingName
          /\ pc' \in [Session -> {"ensure", "create", "load", "staging", "rows", "drop", "commit",
                                  "cleanup", "done", "failed"}]
      BY <1>1, <2>1, <2>2 DEF TypeOK
    <3>2. ASSUME NEW u \in Session
          PROVE  /\ todo'[u] \subseteq Indices(u)'
                 /\ pc'[u] = "rows" => todo'[u] # {}
                 /\ pc'[u] = "rows" \/ touched'[u] = {}
                 /\ pc'[u] \in {"rows", "drop", "commit"} \/ dirty'[u] = Clean'
                 /\ pc'[u] \in {"rows", "drop"} \/ u \notin created'
      <4>1. Indices(u)' = Indices(u) /\ Clean' = Clean
        BY <1>2, SameRecords DEF Clean
      <4>2. CASE u = s
        BY <1>1, <1>2, <1>3, <1>4, <2>2, <2>3, <4>1, <4>2 DEF TypeOK
      <4>3. CASE u # s
        BY <1>1, <1>2, <2>2, <2>3, <4>1, <4>3 DEF OthersApart, TypeOK
      <4>. QED BY <4>2, <4>3
    <3>. QED BY <1>1, <1>2, <2>2, <3>1, <3>2 DEF TypeOK
  <2>5. Staging'
    BY <1>1, <1>2, <1>3, <2>2, <2>3 DEF Staging, OthersApart, TypeOK
  <2>6. Progress(s)'
    BY <1>2, <1>4, <2>3 DEF Progress, Running, Clean
  <2>. QED BY <1>5, <2>3, <2>4, <2>5, <2>6, OwnProgress
<1>7. CASE Begin(s)
  <2>1. /\ todo' = [todo EXCEPT ![s] = Rows(s)] /\ UNCHANGED <<exists, catalog>>
        /\ \E n \in StagingName :
             IF method = "copy" THEN name' = [name EXCEPT ![s] = n]
                                     /\ pc' = [pc EXCEPT ![s] = "staging"]
                                ELSE name' = name /\ pc' = [pc EXCEPT ![s] = "rows"]
    BY <1>7 DEF Begin, Goto, server
  <2>2. PICK where \in {"staging", "rows"} :
          pc' = [pc EXCEPT ![s] = where] /\ (where = "staging" => method = "copy")
    BY <2>1
  <2>3. /\ pc'[s] = where /\ todo'[s] = Rows(s) /\ OthersApart(s)
        /\ name' \in [Session -> StagingName \cup {NoName}]
    <3>1. name' \in [Session -> StagingName \cup {NoName}]
      BY <1>1, <2>1 DEF TypeOK
    <3>2. pc'[s] = where /\ \A u \in Session \ {s} : pc'[u] = pc[u]
      BY <1>1, <2>2 DEF TypeOK
    <3>3. todo'[s] = Rows(s) /\ \A u \in Session \ {s} : todo'[u] = todo[u]
      BY <1>1, <2>1 DEF TypeOK
    <3>. QED BY <1>2, <3>1, <3>2, <3>3 DEF OthersApart
  <2>4. Rows(s) # {}
    <3>1. 1 \in Indices(s)
      BY RecordsType DEF Indices
    <3>. QED BY <3>1, FirstIsSent
  <2>5. TypeOK'
    <3>1. todo' \in [Session -> SUBSET Nat]
      BY <1>1, <2>1, RecordsType DEF TypeOK
    <3>2. pc' \in [Session -> {"ensure", "create", "load", "staging", "rows", "drop", "commit",
                               "cleanup", "done", "failed"}]
      BY <1>1, <2>2 DEF TypeOK
    <3>3. ASSUME NEW u \in Session
          PROVE  /\ todo'[u] \subseteq Indices(u)'
                 /\ pc'[u] = "rows" => todo'[u] # {}
                 /\ pc'[u] = "rows" \/ touched'[u] = {}
                 /\ pc'[u] \in {"rows", "drop", "commit"} \/ dirty'[u] = Clean'
                 /\ pc'[u] \in {"rows", "drop"} \/ u \notin created'
      <4>1. Indices(u)' = Indices(u) /\ Clean' = Clean /\ Rows(u) \subseteq Indices(u)
        BY <1>2, SameRecords, RecordsType DEF Clean
      <4>2. CASE u = s
        BY <1>2, <1>3, <1>4, <2>3, <2>4, <4>1, <4>2
      <4>3. CASE u # s
        BY <1>1, <1>2, <2>3, <4>1, <4>3 DEF OthersApart, TypeOK
      <4>. QED BY <4>2, <4>3
    <3>. QED BY <1>1, <1>2, <2>1, <2>3, <3>1, <3>2, <3>3 DEF TypeOK
  <2>6. Staging'
    BY <1>1, <1>2, <1>3, <2>1, <2>2, <2>3 DEF Staging, OthersApart, TypeOK
  <2>7. Progress(s)'
    <3>1. Sent(s)' = {} /\ Rows(s)' = Rows(s)
      BY <1>2, <2>3, SameRecords DEF Sent
    <3>2. dirty'[s] = Clean /\ touched'[s] = {} /\ Clean' = Clean
      BY <1>2, <1>4 DEF Clean
    <3>3. Written(s)' /\ Arrived(s)' /\ Single(s)'
      BY <3>1, <3>2 DEF Written, Arrived, Single, Clean
    <3>. QED BY <2>3, <3>1, <3>2, <3>3 DEF Progress, Running
  <2>. QED BY <1>5, <2>3, <2>5, <2>6, <2>7, OwnProgress
<1>. QED BY <1>6, <1>7

(* The staging table comes and goes inside the transaction.                *)
LEMMA StagingStep ==
  ASSUME LoadInv, NEW s \in Session, StageRows(s) \/ DropStaging(s)
  PROVE  LoadInv'
<1>1. TypeOK /\ RowLocks /\ Staging /\ Progress(s)
  BY DEF LoadInv
<1>2. UNCHANGED <<method, todo, touched, name, exists, table, catalog, dirty, faults>>
  BY DEF StageRows, DropStaging
<1>3. PICK where \in {"rows", "commit"} :
        /\ pc' = [pc EXCEPT ![s] = where]
        /\ where = "rows" => pc[s] = "staging" /\ created' = created \cup {s}
        /\ where = "commit" => pc[s] = "drop" /\ created' = created \ {s}
  BY DEF StageRows, DropStaging, Goto
<1>4. pc'[s] = where /\ OthersApart(s)
  BY <1>1, <1>2, <1>3 DEF OthersApart, TypeOK
<1>5. where = "rows" => todo[s] # {}
  <2>1. 1 \in Indices(s)
    BY RecordsType, LoadAssumption DEF Indices
  <2>2. Rows(s) # {}
    BY <2>1, FirstIsSent
  <2>. QED BY <1>1, <1>3, <2>2 DEF Progress
<1>6. TypeOK'
  <2>1. /\ created' \subseteq Session
        /\ pc' \in [Session -> {"ensure", "create", "load", "staging", "rows", "drop", "commit",
                                "cleanup", "done", "failed"}]
    BY <1>1, <1>3 DEF TypeOK
  <2>2. ASSUME NEW u \in Session
        PROVE  /\ todo'[u] \subseteq Indices(u)'
               /\ pc'[u] = "rows" => todo'[u] # {}
               /\ pc'[u] = "rows" \/ touched'[u] = {}
               /\ pc'[u] \in {"rows", "drop", "commit"} \/ dirty'[u] = Clean'
               /\ pc'[u] \in {"rows", "drop"} \/ u \notin created'
    <3>1. Indices(u)' = Indices(u) /\ Clean' = Clean
      BY <1>2, SameRecords DEF Clean
    <3>2. CASE u = s
      BY <1>1, <1>2, <1>3, <1>4, <1>5, <3>1, <3>2 DEF TypeOK
    <3>3. CASE u # s
      BY <1>1, <1>2, <1>3, <1>4, <3>1, <3>3 DEF OthersApart, TypeOK
    <3>. QED BY <3>2, <3>3
  <2>. QED BY <1>1, <1>2, <2>1, <2>2 DEF TypeOK
<1>7. RowLocks'
  BY <1>1, <1>2 DEF RowLocks
<1>8. Staging'
  BY <1>1, <1>2, <1>3, <1>4 DEF Staging, OthersApart, TypeOK
<1>9. Progress(s)'
  <2>1. CASE where = "rows"
    <3>1. /\ Sent(s)' = {} /\ Rows(s)' = Rows(s) /\ todo'[s] = Rows(s)
          /\ dirty'[s] = Clean /\ touched'[s] = {} /\ Clean' = Clean
      BY <1>1, <1>2, <1>3, <2>1, SameRecords DEF Sent, Progress, Running, Clean
    <3>2. Written(s)' /\ Arrived(s)' /\ Single(s)'
      BY <3>1 DEF Written, Arrived, Single, Clean
    <3>. QED BY <1>4, <2>1, <3>1, <3>2 DEF Progress, Running
  <2>2. CASE where = "commit"
    <3>1. /\ Written(s) /\ Arrived(s) /\ Single(s) /\ todo'[s] = {} /\ touched'[s] = {}
          /\ todo'[s] = todo[s]
      BY <1>1, <1>2, <1>3, <2>2 DEF Progress, Running
    <3>2. Written(s)' /\ Arrived(s)' /\ Single(s)'
      BY <1>2, <3>1, SameRows
    <3>. QED BY <1>4, <2>2, <3>1, <3>2 DEF Progress, Running
  <2>. QED BY <2>1, <2>2
<1>. QED BY <1>4, <1>6, <1>7, <1>8, <1>9, OwnProgress
(* The value of a row is a record of the file.                             *)
LEMMA HasGreatest ==
  ASSUME NEW n \in Nat, NEW T \in SUBSET (1..n), T # {}
  PROVE  Max(T) \in T
<1>. DEFINE D == {n - x : x \in T}
<1>. \A x \in T : x \in Nat /\ n - x \in Nat /\ n - x \in D
  OBVIOUS
<1>1. D \in SUBSET Nat /\ D # {}
  OBVIOUS
<1>2. PICK d \in D : \A e \in D : d <= e
  BY <1>1, HasLeast
<1>3. PICK x \in T : d = n - x
  OBVIOUS
<1>4. \A y \in T : x >= y
  <2>1. ASSUME NEW y \in T PROVE x >= y
    <3>1. n - y \in D /\ x \in Nat /\ y \in Nat
      OBVIOUS
    <3>2. n - x <= n - y
      BY <1>2, <1>3, <3>1
    <3>. QED BY <3>1, <3>2
  <2>. QED BY <2>1
<1>5. \E z \in T : \A y \in T : z >= y
  BY <1>4
<1>. QED BY <1>5 DEF Max

LEMMA ValueType ==
  ASSUME NEW s \in Session, NEW i \in Indices(s)
  PROVE  ValueAt(s, i) \in Nat
<1>1. i \in Nat /\ Alike(s, i) \in SUBSET (1..Len(Records[BatchOf[s]])) /\ i \in Alike(s, i)
  BY RecordsType DEF Alike, Indices
<1>2. Len(Records[BatchOf[s]]) \in Nat
  BY RecordsType
<1>3. \A n \in Nat : \A T \in SUBSET (1..n) : T # {} => Max(T) \in T
  BY HasGreatest
<1>4. Max(Alike(s, i)) \in Alike(s, i)
  BY <1>1, <1>2, <1>3
<1>. QED BY <1>1, <1>4 DEF ValueAt, LastLike

(* A row is sent: it is written, or skipped because its key is taken.      *)
LEMMA RowStep ==
  ASSUME LoadInv, NEW s \in Session, NEW i \in Indices(s), WriteRow(s, i)
  PROVE  LoadInv'
<1>. DEFINE k == KeyOf(s, i)
            r == <<BatchOf[s], ValueAt(s, i)>>
<1>1. TypeOK /\ RowLocks /\ Staging /\ Progress(s)
  BY DEF LoadInv
<1>2. /\ pc[s] = "rows" /\ i \in todo[s] /\ \A j \in todo[s] : i <= j
      /\ ~Locked(s, k) /\ ~Refused(s, k)
      /\ dirty' = IF Skipped(s, k) THEN dirty ELSE [dirty EXCEPT ![s][k] = r]
      /\ todo' = [todo EXCEPT ![s] = @ \ {i}]
      /\ UNCHANGED <<method, name, exists, table, catalog, created, faults>>
  BY DEF WriteRow, IsNext
<1>3. PICK t \in SUBSET Key : /\ touched' = [touched EXCEPT ![s] = t]
                              /\ t \subseteq touched[s] \cup {k} /\ (todo[s] = {i} => t = {})
                              /\ method # "upsert" => t = {}
  <2>1. \E t : /\ touched' = [touched EXCEPT ![s] = t]
               /\ t \subseteq touched[s] \cup {k} /\ (todo[s] = {i} => t = {})
               /\ method # "upsert" => t = {}
    BY DEF WriteRow
  <2>2. touched[s] \cup {k} \subseteq Key
    BY <1>1, RecordsType DEF TypeOK
  <2>. QED BY <2>1, <2>2
<1>4. PICK where \in {"rows", "drop", "commit"} :
        /\ pc' = [pc EXCEPT ![s] = where]
        /\ todo[s] # {i} => where = "rows"
        /\ todo[s] = {i} => where = IF method = "copy" THEN "drop" ELSE "commit"
  BY DEF WriteRow, Goto, WrittenOut
<1>5. k \in Key /\ r \in Row /\ r # None /\ i \in Nat /\ i \in Rows(s)
  BY <1>1, <1>2, RecordsType, ValueType, LoadAssumption DEF Row, Progress, Running
<1>6. /\ dirty' \in [Session -> [Key -> Row \cup {None}]]
      /\ \A u \in Session \ {s} : dirty'[u] = dirty[u]
      /\ \A q \in Key : dirty'[s][q] = IF q = k /\ ~Skipped(s, k) THEN r ELSE dirty[s][q]
  BY <1>1, <1>2, <1>5 DEF TypeOK
<1>7. /\ todo'[s] = todo[s] \ {i} /\ touched'[s] = t /\ pc'[s] = where
      /\ \A u \in Session \ {s} : /\ todo'[u] = todo[u] /\ touched'[u] = touched[u]
                                  /\ pc'[u] = pc[u]
  BY <1>1, <1>2, <1>3, <1>4 DEF TypeOK
<1>8. OthersApart(s)
  BY <1>2, <1>6, <1>7 DEF OthersApart
<1>9. TypeOK'
  <2>1. /\ todo' \in [Session -> SUBSET Nat] /\ touched' \in [Session -> SUBSET Key]
        /\ pc' \in [Session -> {"ensure", "create", "load", "staging", "rows", "drop", "commit",
                                "cleanup", "done", "failed"}]
    BY <1>1, <1>2, <1>3, <1>4 DEF TypeOK
  <2>2. ASSUME NEW u \in Session
        PROVE  /\ todo'[u] \subseteq Indices(u)'
               /\ pc'[u] = "rows" => todo'[u] # {}
               /\ pc'[u] = "rows" \/ touched'[u] = {}
               /\ pc'[u] \in {"rows", "drop", "commit"} \/ dirty'[u] = Clean'
               /\ pc'[u] \in {"rows", "drop"} \/ u \notin created'
    <3>1. Indices(u)' = Indices(u) /\ Clean' = Clean
      BY <1>2, SameRecords DEF Clean
    <3>2. CASE u = s
      BY <1>1, <1>2, <1>3, <1>4, <1>7, <3>1, <3>2 DEF TypeOK, Staging
    <3>3. CASE u # s
      BY <1>1, <1>2, <1>6, <1>7, <3>1, <3>3 DEF TypeOK
    <3>. QED BY <3>2, <3>3
  <2>. QED BY <1>1, <1>2, <1>6, <2>1, <2>2 DEF TypeOK
<1>10. RowLocks'
  BY <1>1, <1>2, <1>6 DEF RowLocks, Locked
<1>11. Staging'
  BY <1>1, <1>2, <1>4, <1>7 DEF Staging, TypeOK
<1>12. Progress(s)'
  <2>1. /\ todo[s] \subseteq Rows(s) /\ \A a \in Sent(s), b \in todo[s] : a < b
        /\ Written(s) /\ Arrived(s) /\ Single(s)
        /\ method = "upsert" => \A j \in todo[s] : KeyOf(s, j) \notin touched[s]
    BY <1>1, <1>2 DEF Progress, Running
  <2>2. /\ Rows(s)' = Rows(s) /\ Sent(s)' = Sent(s) \cup {i}
        /\ \A j : KeyOf(s, j)' = KeyOf(s, j) /\ ValueAt(s, j)' = ValueAt(s, j)
    BY <1>2, <1>5, <1>7, SameRecords DEF Sent
  <2>3. \A a \in Sent(s) : a < i /\ a \in Nat /\ KeyOf(s, a) \in Key
    BY <1>2, <2>1, RecordsType DEF Sent
  <2>4. \A a \in Sent(s)', b \in todo'[s] : a < b
    <3>1. \A b \in todo'[s] : b \in Nat /\ i < b /\ b \in todo[s]
      <4>1. todo[s] \in SUBSET Nat
        BY <1>1 DEF TypeOK
      <4>2. ASSUME NEW b \in todo'[s] PROVE b \in Nat /\ i < b /\ b \in todo[s]
        <5>1. b \in todo[s] /\ b # i /\ b \in Nat /\ i <= b
          BY <1>2, <1>7, <4>1
        <5>. QED BY <1>5, <5>1
      <4>. QED BY <4>2
    <3>. QED BY <1>5, <2>1, <2>2, <2>3, <3>1
  <2>5. method # "upsert" /\ ~Skipped(s, k) => ~Taken(s, k)
    BY <1>1, <1>2 DEF TypeOK, Refused, Skipped
  <2>6. method # "upsert" /\ ~Skipped(s, k) => \A a \in Sent(s) : KeyOf(s, a) # k
    BY <2>1, <2>5 DEF Arrived, Taken
  <2>7. Written(s)'
    <3>. SUFFICES ASSUME NEW q \in Key, dirty'[s][q] # None
                  PROVE  \E a \in Sent(s)' :
                           /\ KeyOf(s, a) = q /\ dirty'[s][q] = <<BatchOf[s], ValueAt(s, a)>>
                           /\ method # "upsert" =>
                                /\ table[q] = None
                                /\ \A j \in Sent(s)' : KeyOf(s, j) = q => a <= j
      BY <1>2, <2>2 DEF Written
    <3>1. CASE q = k /\ ~Skipped(s, k)
      <4>1. dirty'[s][q] = r /\ i \in Sent(s)'
        BY <1>6, <2>2, <3>1
      <4>2. method # "upsert" => table[k] = None /\ \A j \in Sent(s)' : KeyOf(s, j) = k => i <= j
        BY <1>5, <2>2, <2>5, <2>6, <3>1 DEF Taken
      <4>. QED BY <3>1, <4>1, <4>2
    <3>2. CASE ~(q = k /\ ~Skipped(s, k))
      <4>1. dirty'[s][q] = dirty[s][q]
        BY <1>6, <3>2
      <4>2. PICK a \in Sent(s) :
              /\ KeyOf(s, a) = q /\ dirty[s][q] = <<BatchOf[s], ValueAt(s, a)>>
              /\ method # "upsert" => /\ table[q] = None
                                      /\ \A j \in Sent(s) : KeyOf(s, j) = q => a <= j
        BY <2>1, <4>1 DEF Written
      <4>3. a < i /\ a \in Nat
        BY <2>3
      <4>4. \A j \in Sent(s)' : j \in Sent(s) \/ j = i
        BY <2>2
      <4>5. a <= i
        BY <1>5, <4>3
      <4>6. method # "upsert" => \A j \in Sent(s)' : KeyOf(s, j) = q => a <= j
        BY <4>2, <4>4, <4>5
      <4>7. a \in Sent(s)'
        BY <2>2
      <4>. QED BY <4>1, <4>2, <4>6, <4>7
    <3>. QED BY <3>1, <3>2
  <2>8. Arrived(s)'
    <3>. SUFFICES ASSUME NEW a \in Sent(s)'
                  PROVE  \/ dirty'[s][KeyOf(s, a)] # None
                         \/ method = "copy" /\ table[KeyOf(s, a)] # None
      BY <1>2, <2>2 DEF Arrived
    <3>1. CASE a = i /\ ~Skipped(s, k)
      BY <1>5, <1>6, <3>1
    <3>2. CASE a = i /\ Skipped(s, k)
      BY <1>5, <1>6, <3>2 DEF Skipped, Taken
    <3>3. CASE a \in Sent(s)
      <4>1. dirty[s][KeyOf(s, a)] # None => dirty'[s][KeyOf(s, a)] # None
        BY <1>5, <1>6, <2>3, <3>3
      <4>. QED BY <2>1, <3>3, <4>1 DEF Arrived
    <3>. QED BY <2>2, <3>1, <3>2, <3>3
  <2>9. Single(s)'
    <3>1. method \in {"insert", "plain"} => method # "upsert" /\ ~Skipped(s, k)
      BY DEF Skipped
    <3>2. method \in {"insert", "plain"} =>
            \A a, b \in Sent(s) \cup {i} : KeyOf(s, a) = KeyOf(s, b) => a = b
      BY <2>1, <2>6, <3>1 DEF Single
    <3>. QED BY <1>2, <2>2, <3>2 DEF Single
  <2>10. method = "upsert" => \A j \in todo'[s] : KeyOf(s, j) \notin t
    <3>1. method = "upsert" => \A j \in todo'[s] : KeyOf(s, j) # k
      BY <1>5, <1>7, <2>1, UpsertOnce
    <3>. QED BY <1>3, <1>7, <2>1, <3>1
  <2>11. where \in {"drop", "commit"} => todo'[s] = {} /\ t = {}
    BY <1>3, <1>4, <1>7
  <2>12. todo'[s] \subseteq Rows(s)
    BY <1>7, <2>1
  <2>. QED BY <1>2, <1>4, <1>7, <2>2, <2>4, <2>7, <2>8, <2>9, <2>10, <2>11, <2>12
           DEF Progress, Running
<1>. QED BY <1>8, <1>9, <1>10, <1>11, <1>12, OwnProgress

(* A rollback leaves nothing of the transaction.                           *)
LEMMA RollbackStep ==
  ASSUME LoadInv, NEW s \in Session,
         Deadlock(s) \/ Interrupted(s) \/ \E i \in Indices(s) : RowRefused(s, i)
  PROVE  LoadInv'
<1>1. TypeOK /\ RowLocks /\ Staging /\ Progress(s)
  BY DEF LoadInv
<1>2. /\ UNCHANGED <<method, name, exists, table, catalog>> /\ faults' \in 0..MaxFaults
      /\ dirty' = [dirty EXCEPT ![s] = Clean] /\ created' = created \ {s}
      /\ todo' = [todo EXCEPT ![s] = {}] /\ touched' = [touched EXCEPT ![s] = {}]
  BY <1>1, LoadAssumption DEF Deadlock, Interrupted, RowRefused, Rollback, Fault, TypeOK
<1>3. PICK where \in {"cleanup", "failed"} : pc' = [pc EXCEPT ![s] = where]
  BY DEF Deadlock, Interrupted, RowRefused, Goto, AfterError
<1>4. /\ pc'[s] = where /\ dirty'[s] = Clean /\ todo'[s] = {} /\ touched'[s] = {}
      /\ \A u \in Session \ {s} : /\ pc'[u] = pc[u] /\ dirty'[u] = dirty[u]
                                  /\ todo'[u] = todo[u] /\ touched'[u] = touched[u]
  BY <1>1, <1>2, <1>3 DEF TypeOK
<1>5. OthersApart(s)
  BY <1>2, <1>4 DEF OthersApart
<1>6. Clean' = Clean /\ \A q \in Key : Clean[q] = None
  BY DEF Clean
<1>7. TypeOK'
  <2>1. /\ todo' \in [Session -> SUBSET Nat] /\ touched' \in [Session -> SUBSET Key]
        /\ dirty' \in [Session -> [Key -> Row \cup {None}]] /\ created' \subseteq Session
        /\ pc' \in [Session -> {"ensure", "create", "load", "staging", "rows", "drop", "commit",
                                "cleanup", "done", "failed"}]
    BY <1>1, <1>2, <1>3 DEF TypeOK, Clean
  <2>2. ASSUME NEW u \in Session
        PROVE  /\ todo'[u] \subseteq Indices(u)'
               /\ pc'[u] = "rows" => todo'[u] # {}
               /\ pc'[u] = "rows" \/ touched'[u] = {}
               /\ pc'[u] \in {"rows", "drop", "commit"} \/ dirty'[u] = Clean'
               /\ pc'[u] \in {"rows", "drop"} \/ u \notin created'
    <3>1. Indices(u)' = Indices(u)
      BY <1>2, SameRecords
    <3>2. CASE u = s
      BY <1>2, <1>4, <1>6, <3>1, <3>2
    <3>3. CASE u # s
      BY <1>1, <1>2, <1>4, <1>6, <3>1, <3>3 DEF TypeOK
    <3>. QED BY <3>2, <3>3
  <2>. QED BY <1>1, <1>2, <2>1, <2>2 DEF TypeOK
<1>8. RowLocks'
  BY <1>1, <1>4, <1>6 DEF RowLocks
<1>9. Staging'
  BY <1>1, <1>2, <1>4 DEF Staging, TypeOK
<1>10. Progress(s)'
  BY <1>4, <1>6 DEF Progress, Running
<1>. QED BY <1>5, <1>7, <1>8, <1>9, <1>10, OwnProgress

-----------------------------------------------------------------------------
(* A commit makes the table what the load alone would have made of it.     *)
CommitStep(s) ==
  /\ pc[s] = "commit"
  /\ Commits(s) /\ UNCHANGED <<method, todo, touched, name>>
  /\ (Goto(s, "done") /\ UNCHANGED faults) \/ (Goto(s, "failed") /\ Fault)

LEMMA CommitKeeps ==
  ASSUME LoadInv, NEW s \in Session, CommitStep(s)
  PROVE  LoadInv'
<1>1. TypeOK /\ RowLocks /\ Staging /\ Progress(s)
  BY DEF LoadInv
<1>2. /\ pc[s] = "commit" /\ UNCHANGED <<method, todo, touched, name, exists>>
      /\ table' = [k \in Key |-> IF dirty[s][k] # None THEN dirty[s][k] ELSE table[k]]
      /\ dirty' = [dirty EXCEPT ![s] = Clean] /\ created' = created \ {s}
      /\ catalog' = catalog \cup {name[u] : u \in created \cap {s}}
      /\ faults' \in 0..MaxFaults
  BY <1>1, LoadAssumption DEF CommitStep, Commits, Fault, TypeOK
<1>3. PICK where \in {"done", "failed"} : pc' = [pc EXCEPT ![s] = where]
  BY DEF CommitStep, Goto
<1>4. s \notin created /\ todo[s] = {} /\ touched[s] = {}
  BY <1>1, <1>2 DEF Staging, Progress
<1>5. /\ pc'[s] = where /\ dirty'[s] = Clean
      /\ \A u \in Session \ {s} : pc'[u] = pc[u] /\ dirty'[u] = dirty[u]
  BY <1>1, <1>2, <1>3 DEF TypeOK
<1>6. catalog' = {} /\ created' = created
  BY <1>1, <1>2, <1>4 DEF Staging
<1>7. table' \in [Key -> Row \cup {None}]
  BY <1>1, <1>2 DEF TypeOK
<1>8. OthersApart(s)
  BY <1>2, <1>5 DEF OthersApart
<1>9. Clean' = Clean /\ \A q \in Key : Clean[q] = None
  BY DEF Clean
<1>10. TypeOK'
  <2>1. /\ dirty' \in [Session -> [Key -> Row \cup {None}]]
        /\ pc' \in [Session -> {"ensure", "create", "load", "staging", "rows", "drop", "commit",
                                "cleanup", "done", "failed"}]
    BY <1>1, <1>2, <1>3 DEF TypeOK, Clean
  <2>2. ASSUME NEW u \in Session
        PROVE  /\ todo'[u] \subseteq Indices(u)'
               /\ pc'[u] = "rows" => todo'[u] # {}
               /\ pc'[u] = "rows" \/ touched'[u] = {}
               /\ pc'[u] \in {"rows", "drop", "commit"} \/ dirty'[u] = Clean'
               /\ pc'[u] \in {"rows", "drop"} \/ u \notin created'
    <3>1. Indices(u)' = Indices(u)
      BY <1>2, SameRecords
    <3>2. CASE u = s
      BY <1>2, <1>4, <1>5, <1>6, <1>9, <3>1, <3>2
    <3>3. CASE u # s
      BY <1>1, <1>2, <1>5, <1>6, <1>9, <3>1, <3>3 DEF TypeOK
    <3>. QED BY <3>2, <3>3
  <2>. QED BY <1>1, <1>2, <1>6, <1>7, <2>1, <2>2 DEF TypeOK
<1>11. RowLocks'
  BY <1>1, <1>5, <1>9 DEF RowLocks
<1>12. Staging'
  BY <1>1, <1>2, <1>4, <1>5, <1>6 DEF Staging, TypeOK
<1>13. Progress(s)'
  BY <1>2, <1>4, <1>5, <1>9 DEF Progress, Running
<1>. QED BY <1>8, <1>10, <1>11, <1>12, <1>13, OwnProgress

LEMMA LoadNext == LoadInv /\ [Next]_vars => LoadInv'
<1>. SUFFICES ASSUME LoadInv, [Next]_vars PROVE LoadInv'
  OBVIOUS
<1>1. ASSUME NEW s \in Session, CommitLoad(s) \/ CommitUnheard(s) PROVE CommitStep(s)
  BY <1>1 DEF CommitLoad, CommitUnheard, CommitStep
<1>2. ASSUME NEW s \in Session, Step(s) \/ Deadlock(s) \/ Interrupted(s) \/ CommitUnheard(s)
      PROVE  LoadInv'
  BY <1>1, <1>2, OutsideStep, StagingStep, RowStep, RollbackStep, CommitKeeps DEF Step
<1>3. CASE UNCHANGED vars
  <2>1. UNCHANGED <<method, exists, table, catalog, pc, todo, dirty, touched, name, created, faults>>
    BY <1>3 DEF vars, client, server
  <2>2. ASSUME NEW s \in Session PROVE Progress(s)'
    <3>1. Progress(s) /\ Rows(s)' = Rows(s)
          /\ \A i : KeyOf(s, i)' = KeyOf(s, i)
      BY <2>1, SameRecords DEF LoadInv
    <3>2. Running(s) => Written(s)' /\ Arrived(s)' /\ Single(s)'
      BY <2>1, <3>1, SameRows DEF Progress
    <3>. QED BY <2>1, <3>1, <3>2 DEF Progress, Running, Sent, Clean
  <2>3. TypeOK' /\ RowLocks' /\ Staging'
    BY <2>1 DEF LoadInv, TypeOK, RowLocks, Staging, Indices, Clean
  <2>. QED BY <2>2, <2>3 DEF LoadInv
<1>. QED BY <1>2, <1>3 DEF Next
-----------------------------------------------------------------------------
LEMMA LeastIsMin ==
  ASSUME NEW T \in SUBSET Nat, NEW i \in T, \A j \in T : i <= j
  PROVE  Whole!Min(T) = i
<1>1. \A x \in T : (\A y \in T : x <= y) => x = i
  OBVIOUS
<1>. QED BY <1>1 DEF Whole!Min

(* Both modules mean the same by the greatest of a set.                    *)
LEMMA SameMax ==
  ASSUME NEW T
  PROVE  Whole!Max(T) = Max(T)
BY DEF Whole!Max, Max

(* The records of a key, in the terms of AtomicLoads.                      *)
LEMMA WholeIndices ==
  ASSUME NEW s \in Session, NEW k \in Key
  PROVE  /\ Whole!Indices(BatchOf[s], k) = {i \in Indices(s) : KeyOf(s, i) = k}
         /\ \A i \in Indices(s) : KeyOf(s, i) = k => Alike(s, i) = Whole!Indices(BatchOf[s], k)
         /\ Whole!Indices(BatchOf[s], k) \in SUBSET Nat
BY RecordsType DEF Whole!Indices, Indices, KeyOf, Alike

(* At its commit a load has written what AtomicLoads says, and it fits.    *)
LEMMA CommitIsWhole ==
  ASSUME LoadInv, NEW s \in Session, CommitStep(s)
  PROVE  Whole!Load(s)
<1>. DEFINE b == BatchOf[s]
<1>1. TypeOK /\ Progress(s) /\ pc[s] = "commit" /\ method' = method
  BY DEF LoadInv, CommitStep
<1>2. /\ Sent(s) = Rows(s) /\ Written(s) /\ Arrived(s) /\ Single(s)
  BY <1>1 DEF Progress, Running, Sent
<1>3. table' = [k \in Key |-> IF dirty[s][k] # None THEN dirty[s][k] ELSE table[k]]
  BY DEF CommitStep, Commits
<1>4. method # "upsert" => Rows(s) = Indices(s)
  BY DEF Rows
<1>5. Whole!Fits(b)
  <2>. SUFFICES ASSUME method \in {"insert", "plain"}, NEW k \in Key
                PROVE  /\ \A i, j \in Whole!Indices(b, k) : i = j
                       /\ Whole!Indices(b, k) # {} => table[k] = None
    BY DEF Whole!Fits
  <2>1. \A i \in Whole!Indices(b, k) : i \in Sent(s) /\ KeyOf(s, i) = k
    BY <1>2, <1>4, WholeIndices
  <2>2. \A i, j \in Whole!Indices(b, k) : i = j
    BY <1>2, <2>1 DEF Single
  <2>3. Whole!Indices(b, k) # {} => dirty[s][k] # None
    BY <1>2, <2>1 DEF Arrived
  <2>4. dirty[s][k] # None => table[k] = None
    BY <1>2 DEF Written
  <2>. QED BY <2>2, <2>3, <2>4
<1>6. ASSUME NEW k \in Key PROVE table'[k] = Whole!Loaded(b)[k]
  <2>1. table'[k] = IF dirty[s][k] # None THEN dirty[s][k] ELSE table[k]
    BY <1>3
  <2>2. Whole!Loaded(b)[k] =
          CASE Whole!Indices(b, k) = {} -> table[k]
            [] Whole!Indices(b, k) # {} /\ method = "upsert" -> <<b, Whole!LastOf(b, k)>>
            [] Whole!Indices(b, k) # {} /\ method # "upsert" ->
                 IF table[k] = None THEN <<b, Whole!FirstOf(b, k)>> ELSE table[k]
    BY DEF Whole!Loaded
  <2>3. dirty[s][k] # None =>
          \E i \in Rows(s) :
            /\ KeyOf(s, i) = k /\ dirty[s][k] = <<b, ValueAt(s, i)>>
            /\ method # "upsert" => /\ table[k] = None
                                    /\ \A j \in Rows(s) : KeyOf(s, j) = k => i <= j
    BY <1>2 DEF Written
  <2>4. CASE Whole!Indices(b, k) = {}
    <3>1. \A i \in Rows(s) : KeyOf(s, i) # k
      BY <2>4, RecordsType, WholeIndices
    <3>. QED BY <2>1, <2>2, <2>3, <2>4, <3>1
  <2>5. CASE Whole!Indices(b, k) # {} /\ method = "upsert"
    <3>1. PICK i \in Rows(s) : KeyOf(s, i) = k
      <4>1. PICK j \in Indices(s) : KeyOf(s, j) = k
        BY <2>5, WholeIndices
      <4>. QED BY <4>1, FirstIsSent
    <3>2. dirty[s][k] # None
      BY <1>2, <2>5, <3>1 DEF Arrived
    <3>3. PICK a \in Rows(s) : KeyOf(s, a) = k /\ dirty[s][k] = <<b, ValueAt(s, a)>>
      BY <2>3, <3>2
    <3>4. Alike(s, a) = Whole!Indices(b, k)
      BY <3>3, RecordsType, WholeIndices
    <3>5. ValueAt(s, a) = Whole!LastOf(b, k)
      BY <2>5, <3>4, SameMax DEF ValueAt, LastLike, Whole!LastOf
    <3>. QED BY <2>1, <2>2, <2>5, <3>2, <3>3, <3>5
  <2>6. CASE Whole!Indices(b, k) # {} /\ method # "upsert"
    <3>1. PICK i \in Rows(s) : KeyOf(s, i) = k
      BY <1>4, <2>6, WholeIndices
    <3>2. CASE dirty[s][k] # None
      <4>1. PICK a \in Rows(s) :
              /\ KeyOf(s, a) = k /\ dirty[s][k] = <<b, a>> /\ table[k] = None
              /\ \A j \in Rows(s) : KeyOf(s, j) = k => a <= j
        BY <2>3, <2>6, <3>2 DEF ValueAt
      <4>2. a \in Whole!Indices(b, k) /\ \A j \in Whole!Indices(b, k) : a <= j
        BY <1>4, <2>6, <4>1, WholeIndices
      <4>3. Whole!FirstOf(b, k) = a
        BY <4>2, WholeIndices, LeastIsMin DEF Whole!FirstOf
      <4>. QED BY <2>1, <2>2, <2>6, <3>2, <4>1, <4>3
    <3>3. CASE dirty[s][k] = None
      <4>1. table[k] # None
        BY <1>2, <3>1, <3>3 DEF Arrived
      <4>. QED BY <2>1, <2>2, <2>6, <3>3, <4>1
    <3>. QED BY <3>2, <3>3
  <2>. QED BY <2>4, <2>5, <2>6
<1>7. table' = Whole!Loaded(b)
  BY <1>3, <1>6 DEF Whole!Loaded
<1>8. {u \in Session : pc[u] = "done"}' \in
        {{u \in Session : pc[u] = "done"}, {u \in Session : pc[u] = "done"} \cup {s}}
  BY <1>1 DEF CommitStep, Goto, TypeOK
<1>9. s \notin {u \in Session : pc[u] = "done"}
  BY <1>1
<1>. QED BY <1>1, <1>5, <1>7, <1>8, <1>9 DEF Whole!Load

(* All other steps are none of AtomicLoads.                                *)
LEMMA OtherIsStutter ==
  ASSUME LoadInv, NEW s \in Session,
         \/ TableThere(s) \/ CreateTable(s) \/ Begin(s) \/ StageRows(s)
         \/ (\E i \in Indices(s) : WriteRow(s, i) \/ RowRefused(s, i))
         \/ DropStaging(s) \/ Cleanup(s) \/ NextRun(s) \/ Deadlock(s) \/ Interrupted(s)
  PROVE  UNCHANGED Whole!vars
<1>1. TypeOK
  BY DEF LoadInv
<1>2. UNCHANGED <<method, table>>
  BY DEF TableThere, CreateTable, Begin, StageRows, WriteRow, RowRefused, DropStaging, Cleanup,
         NextRun, Deadlock, Interrupted, server
<1>3. pc[s] # "done"
  BY DEF TableThere, CreateTable, Begin, StageRows, WriteRow, RowRefused, DropStaging, Cleanup,
         NextRun, Deadlock, WaitsFor, Circle, Interrupted
<1>4. \E where : where # "done" /\ pc' = [pc EXCEPT ![s] = where]
  BY DEF TableThere, CreateTable, Begin, StageRows, WriteRow, RowRefused, DropStaging, Cleanup,
         NextRun, Deadlock, Interrupted, Goto, WrittenOut, AfterError
<1>5. {u \in Session : pc[u] = "done"}' = {u \in Session : pc[u] = "done"}
  BY <1>1, <1>3, <1>4 DEF TypeOK
<1>. QED BY <1>2, <1>5 DEF Whole!vars

-----------------------------------------------------------------------------
(* Numbers of which each has a greater one among them have no bound.       *)
LEMMA Unbounded ==
  ASSUME NEW N \in Nat, NEW T \in SUBSET (0..N), T # {}, \A x \in T : \E y \in T : x < y
  PROVE  FALSE
<1> DEFINE Gaps == {N - x : x \in T}
<1>0. \A x \in T : x \in Nat /\ N - x \in Nat
  OBVIOUS
<1>1. Gaps \in SUBSET Nat /\ Gaps # {}
  BY <1>0
<1>2. PICK g \in Gaps : \A h \in Gaps : g <= h
  BY <1>1, HasLeast
<1>3. PICK x \in T : g = N - x
  OBVIOUS
<1>4. PICK y \in T : x < y
  OBVIOUS
<1>5. N - y \in Gaps
  OBVIOUS
<1>6. g <= N - y
  BY <1>2, <1>5
<1>. QED BY <1>0, <1>3, <1>4, <1>6

(* Who is waited for has rows to send, or could not wait itself.           *)
LEMMA HolderSends ==
  ASSUME LoadInv, NEW s \in Session, NEW u \in Session, WaitsFor(s, u),
         NEW v \in Session, WaitsFor(u, v)
  PROVE  pc[u] = "rows"
<1>1. pc[u] \in {"rows", "staging"}
  BY DEF WaitsFor
<1>2. CASE pc[s] = "staging" /\ NameHeld(s, u)
  BY <1>1, <1>2 DEF NameHeld, LoadInv, Staging
<1>3. CASE pc[s] = "rows" /\ \E i \in todo[s] : dirty[u][KeyOf(s, i)] # None
  <2>1. PICK i \in todo[s] : dirty[u][KeyOf(s, i)] # None
    BY <1>3
  <2>2. KeyOf(s, i) \in Key
    BY RecordsType DEF LoadInv, TypeOK
  <2>3. dirty[u] # Clean
    BY <2>1, <2>2 DEF Clean
  <2>. QED BY <1>1, <2>3 DEF LoadInv, Progress, Running
<1>. QED BY <1>2, <1>3 DEF WaitsFor

(* Of two that load the same file, the one that waits is behind.           *)
LEMMA WaiterIsBehind ==
  ASSUME LoadInv, NEW s \in Session, NEW u \in Session, pc[s] = "rows", pc[u] = "rows",
         WaitsFor(s, u), BatchOf[s] = BatchOf[u],
         NEW i, IsNext(s, i), NEW j, IsNext(u, j)
  PROVE  i < j
<1> DEFINE k == KeyOf(s, i)
<1>1. TypeOK /\ RowLocks /\ Progress(s) /\ Progress(u)
  BY DEF LoadInv
<1>2. /\ i \in todo[s] /\ j \in todo[u] /\ i \in Nat /\ j \in Nat
      /\ \A l \in todo[s] : i <= l
  BY <1>1 DEF IsNext, TypeOK
<1>3. u # s /\ dirty[u][k] # None
  <2>1. PICK l \in todo[s] : IsNext(s, l) /\ dirty[u][KeyOf(s, l)] # None
    BY DEF WaitsFor
  <2>2. l = i
    BY <1>1, <1>2, <2>1 DEF IsNext, TypeOK
  <2>. QED BY <2>1, <2>2 DEF WaitsFor
<1>4. k \in Key
  BY <1>1, <1>2, RecordsType DEF TypeOK
<1>5. dirty[s][k] = None
  BY <1>1, <1>3, <1>4 DEF RowLocks
<1>6. PICK l \in Sent(u) : KeyOf(u, l) = k /\ (method # "upsert" => table[k] = None)
  BY <1>1, <1>3, <1>4 DEF Progress, Running, Written
<1>7. Rows(s) = Rows(u) /\ KeyOf(s, l) = k
  BY <1>6 DEF Rows, Indices, IsFirst, Alike, KeyOf
<1>8. l \notin Sent(s)
  BY <1>1, <1>5, <1>6, <1>7 DEF Progress, Running, Arrived
<1>9. l \in todo[s] /\ l \in Nat
  BY <1>1, <1>6, <1>7, <1>8, RecordsType DEF Sent
<1>10. i <= l /\ l < j
  BY <1>1, <1>2, <1>6, <1>9 DEF Progress, Running
<1>. QED BY <1>2, <1>9, <1>10

(* Writers of one file wait for each other in an order, never in a circle. *)
LEMMA NoTwinCircle ==
  ASSUME LoadInv, NEW C \in SUBSET Session, Circle(C),
         \A s, u \in C : BatchOf[s] = BatchOf[u]
  PROVE  FALSE
<1>1. \A s \in C : pc[s] = "rows"
  BY HolderSends DEF Circle
<1>2. PICK a \in C : TRUE
  BY DEF Circle
<1> DEFINE N      == Len(Records[BatchOf[a]])
           Places == {i \in 0..N : \E s \in C : IsNext(s, i)}
<1>3. N \in Nat
  BY RecordsType
<1>4. ASSUME NEW s \in C PROVE \E i \in Places : IsNext(s, i)
  <2>1. todo[s] \in SUBSET Nat /\ todo[s] # {} /\ todo[s] \subseteq 0..N
    BY <1>1, RecordsType DEF LoadInv, TypeOK, Indices
  <2>2. PICK i \in todo[s] : \A j \in todo[s] : i <= j
    BY <2>1, HasLeast
  <2>. QED BY <2>1, <2>2 DEF IsNext
<1>5. ASSUME NEW i \in Places PROVE \E j \in Places : i < j
  <2>1. PICK s \in C : IsNext(s, i)
    OBVIOUS
  <2>2. PICK u \in C : WaitsFor(s, u)
    BY DEF Circle
  <2>3. PICK j \in Places : IsNext(u, j)
    BY <1>4
  <2>. QED BY <1>1, <2>1, <2>2, <2>3, WaiterIsBehind
<1>6. Places \in SUBSET (0..N) /\ Places # {}
  BY <1>2, <1>4
<1>. HIDE DEF N, Places
<1>. QED BY <1>3, <1>5, <1>6, Unbounded

-----------------------------------------------------------------------------
(* The sessions keep their variables to their types.                       *)
THEOREM LoadTypeCorrect == Spec => []TypeOK
<1>1. LoadInv => TypeOK
  BY DEF LoadInv
<1>. QED BY <1>1, LoadInit, LoadNext, PTL DEF Spec

(* An upsert never offers PostgreSQL the same key twice in one statement.  *)
THEOREM UpsertsAlwaysFit == Spec => []UpsertsFit
<1>1. LoadInv => UpsertsFit
  BY DEF LoadInv, Progress, UpsertsFit
<1>. QED BY <1>1, LoadInit, LoadNext, PTL DEF Spec

(* No staging table is ever committed.                                     *)
THEOREM StagingIsTemporary == Spec => []NoStagingLeft
<1>1. LoadInv => NoStagingLeft
  BY DEF LoadInv, Staging, NoStagingLeft
<1>. QED BY <1>1, LoadInit, LoadNext, PTL DEF Spec

(* Writers that load the same file never wait for each other in a circle.  *)
THEOREM TwinsTakeTurns == Spec => []TwinsDoNotDeadlock
<1>1. LoadInv => TwinsDoNotDeadlock
  BY NoTwinCircle DEF TwinsDoNotDeadlock
<1>. QED BY <1>1, LoadInit, LoadNext, PTL DEF Spec

(* Every load takes effect as a whole and at one moment: the detailed      *)
(* writers implement AtomicLoads.                                          *)
THEOREM LoadsImplementAtomicLoads == Spec => LoadsAreAtomic
<1>1. Init => Whole!Init
  BY DEF Init, Whole!Init, Clean
<1>2. LoadInv /\ [Next]_vars => [Whole!Next]_(Whole!vars)
  <2>. SUFFICES ASSUME LoadInv, [Next]_vars PROVE [Whole!Next]_(Whole!vars)
    OBVIOUS
  <2>1. CASE UNCHANGED vars
    BY <2>1 DEF vars, client, server, Whole!vars
  <2>2. ASSUME NEW s \in Session, CommitLoad(s) \/ CommitUnheard(s) PROVE Whole!Next
    <3>1. CommitStep(s)
      BY <2>2 DEF CommitLoad, CommitUnheard, CommitStep
    <3>. QED BY <3>1, CommitIsWhole DEF Whole!Next
  <2>3. ASSUME NEW s \in Session, Step(s) \/ Deadlock(s) \/ Interrupted(s) \/ CommitUnheard(s)
        PROVE  [Whole!Next]_(Whole!vars)
    BY <2>2, <2>3, OtherIsStutter DEF Step
  <2>. QED BY <2>1, <2>3 DEF Next
<1>. QED BY <1>1, <1>2, LoadInit, LoadNext, PTL DEF Spec, LoadsAreAtomic, Whole!Spec
=============================================================================
