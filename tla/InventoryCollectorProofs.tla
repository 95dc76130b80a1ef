----------------------- MODULE InventoryCollectorProofs -----------------------
(***************************************************************************)
(* The inventory from Zabbix to the table, for any number of hosts, any    *)
(* chunk size, any choice of target groups and any bounds: what a fetch    *)
(* promises holds in it, the files stay in the order of their names, and   *)
(* without faults and manual runs no row goes back to an older state.      *)
(***************************************************************************)
EXTENDS InventoryCollector, PagedFetchProofs

-----------------------------------------------------------------------------
(* The fetch is that of PagedFetch: writing files and loading them are     *)
(* stuttering steps of it.                                                 *)
LEMMA StepIsNext == ASSUME [Step]_all PROVE [Next]_vars
<1>1. CASE Change
  BY <1>1 DEF Change, Next
<1>2. CASE Fetch \/ FetchFails
  BY <1>2 DEF Fetch, FetchFails, Next
<1>3. CASE OpenFile \/ ListFiles
  BY <1>3 DEF OpenFile, ListFiles, collecting
<1>4. ASSUME NEW k, CloseFile(k) \/ WriteFails(k) \/ GiveUp(k) PROVE [Next]_vars
  BY <1>4 DEF CloseFile, WriteFails, GiveUp, StartRun, Next
<1>5. ASSUME NEW i, TakeFile(i) \/ TakeFails(i) PROVE [Next]_vars
  BY <1>5 DEF TakeFile, TakeFails, collecting
<1>6. CASE UNCHANGED all
  BY <1>6 DEF all
<1>. QED BY <1>1, <1>2, <1>3, <1>4, <1>5, <1>6 DEF Step, Writer

(* Whatever the writer, the write task and runs started by hand do, what a *)
(* run fetches is what PagedFetch says.                                    *)
THEOREM InventoryFetches == InventorySpec => Spec
<1>1. Begin => Init
  BY DEF Begin
<1>. QED BY <1>1, StepIsNext, PTL DEF InventorySpec, Spec

(* So the run that is written to a file is complete, has no host twice,    *)
(* and mixes the states of a host in one order only.                       *)
THEOREM InventoryComplete == InventorySpec => []CompleteOnce
BY InventoryFetches, Complete, PTL

THEOREM InventoryInOrder == InventorySpec => []PartsInOrder
BY InventoryFetches, PartsFollow, PTL

-----------------------------------------------------------------------------
(* Sequences.                                                              *)

LEMMA InsertedElements ==
  ASSUME NEW S, NEW s \in Seq(S), NEW n \in 1..(Len(s) + 1), NEW e \in S
  PROVE  /\ InsertAt(s, n, e) \in Seq(S) /\ Len(InsertAt(s, n, e)) = Len(s) + 1
         /\ DOMAIN InsertAt(s, n, e) = 1..(Len(s) + 1)
         /\ \A i \in 1..(Len(s) + 1) :
              InsertAt(s, n, e)[i] = IF i < n THEN s[i] ELSE IF i = n THEN e ELSE s[i - 1]
<1> DEFINE a == SubSeq(s, 1, n - 1)
           b == a \o <<e>>
           c == SubSeq(s, n, Len(s))
<1>1. Len(s) \in Nat /\ n \in Nat /\ \A i \in 1..Len(s) : s[i] \in S
  BY LenProperties
<1>2. a \in Seq(S) /\ Len(a) = n - 1 /\ \A i \in 1..(n - 1) : a[i] = s[i]
  <2>1. \A i \in 1..(n - 1) : s[i] \in S
    BY <1>1
  <2>2. n - 1 \in Int /\ 1 \in Int
    BY <1>1
  <2>3. /\ SubSeq(s, 1, n - 1) \in Seq(S)
        /\ Len(SubSeq(s, 1, n - 1)) = IF 1 <= n - 1 THEN n - 1 - 1 + 1 ELSE 0
        /\ \A i \in 1..(n - 1 - 1 + 1) : SubSeq(s, 1, n - 1)[i] = s[1 + i - 1]
    BY <2>1, <2>2, SubSeqProperties
  <2>. QED BY <1>1, <2>3
<1>3. c \in Seq(S) /\ Len(c) = Len(s) - n + 1 /\ \A i \in 1..(Len(s) - n + 1) : c[i] = s[n + i - 1]
  <2>1. \A i \in n..Len(s) : s[i] \in S
    BY <1>1
  <2>2. /\ SubSeq(s, n, Len(s)) \in Seq(S)
        /\ Len(SubSeq(s, n, Len(s))) = IF n <= Len(s) THEN Len(s) - n + 1 ELSE 0
        /\ \A i \in 1..(Len(s) - n + 1) : SubSeq(s, n, Len(s))[i] = s[n + i - 1]
    BY <1>1, <2>1, SubSeqProperties
  <2>. QED BY <1>1, <2>2
<1>. HIDE DEF c
<1>4. b \in Seq(S) /\ Len(b) = n /\ \A i \in 1..n : b[i] = IF i < n THEN s[i] ELSE e
  <2>1. <<e>> \in Seq(S) /\ Len(<<e>>) = 1 /\ <<e>>[1] = e
    OBVIOUS
  <2>2. /\ a \o <<e>> \in Seq(S) /\ Len(a \o <<e>>) = Len(a) + 1
        /\ \A i \in 1..(Len(a) + 1) :
             (a \o <<e>>)[i] = IF i <= Len(a) THEN a[i] ELSE <<e>>[i - Len(a)]
    BY <1>2, <2>1, ConcatProperties
  <2>. HIDE DEF a
  <2>3. ASSUME NEW i \in 1..n PROVE b[i] = IF i < n THEN s[i] ELSE e
    <3>1. CASE i < n
      BY <1>1, <1>2, <2>2, <3>1
    <3>2. CASE i = n
      <4>1. n - Len(a) = 1 /\ ~(n <= Len(a)) /\ n \in 1..(Len(a) + 1)
        BY <1>1, <1>2
      <4>. QED BY <2>1, <2>2, <3>2, <4>1
    <3>3. i < n \/ (i = n /\ ~(i < n))
      BY <1>1
    <3>. HIDE DEF b
    <3>. QED BY <3>1, <3>2, <3>3
  <2>. QED BY <1>1, <1>2, <2>2, <2>3
<1>. HIDE DEF b
<1>5. /\ b \o c \in Seq(S) /\ Len(b \o c) = Len(b) + Len(c)
      /\ \A i \in 1..(Len(b) + Len(c)) :
           (b \o c)[i] = IF i <= Len(b) THEN b[i] ELSE c[i - Len(b)]
  BY <1>3, <1>4, ConcatProperties
<1>6. InsertAt(s, n, e) = b \o c
  BY DEF InsertAt, b, c
<1>7. Len(b \o c) = Len(s) + 1 /\ DOMAIN (b \o c) = 1..(Len(s) + 1)
  BY <1>1, <1>3, <1>4, <1>5, LenProperties
<1>8. ASSUME NEW i \in 1..(Len(s) + 1)
      PROVE  (b \o c)[i] = IF i < n THEN s[i] ELSE IF i = n THEN e ELSE s[i - 1]
  <2>1. CASE i <= n
    BY <1>1, <1>3, <1>4, <1>5, <2>1
  <2>2. CASE ~(i <= n)
    <3>1. i - n \in 1..(Len(s) - n + 1) /\ n + (i - n) - 1 = i - 1
      BY <1>1, <2>2
    <3>2. (b \o c)[i] = c[i - n]
      BY <1>1, <1>3, <1>4, <1>5, <2>2
    <3>. QED BY <1>1, <1>3, <2>2, <3>1, <3>2
  <2>. QED BY <2>1, <2>2
<1>. QED BY <1>5, <1>6, <1>7, <1>8

LEMMA RemainingElements ==
  ASSUME NEW S, NEW s \in Seq(S), NEW n \in 1..Len(s)
  PROVE  /\ RemoveAt(s, n) \in Seq(S) /\ Len(RemoveAt(s, n)) = Len(s) - 1
         /\ DOMAIN RemoveAt(s, n) = 1..(Len(s) - 1)
         /\ \A i \in 1..(Len(s) - 1) : RemoveAt(s, n)[i] = IF i < n THEN s[i] ELSE s[i + 1]
<1> DEFINE a == SubSeq(s, 1, n - 1)
           c == SubSeq(s, n + 1, Len(s))
<1>1. Len(s) \in Nat /\ n \in Nat /\ \A i \in 1..Len(s) : s[i] \in S
  BY LenProperties
<1>2. a \in Seq(S) /\ Len(a) = n - 1 /\ \A i \in 1..(n - 1) : a[i] = s[i]
  <2>1. \A i \in 1..(n - 1) : s[i] \in S
    BY <1>1
  <2>2. n - 1 \in Int /\ 1 \in Int
    BY <1>1
  <2>3. /\ SubSeq(s, 1, n - 1) \in Seq(S)
        /\ Len(SubSeq(s, 1, n - 1)) = IF 1 <= n - 1 THEN n - 1 - 1 + 1 ELSE 0
        /\ \A i \in 1..(n - 1 - 1 + 1) : SubSeq(s, 1, n - 1)[i] = s[1 + i - 1]
    BY <2>1, <2>2, SubSeqProperties
  <2>. QED BY <1>1, <2>3
<1>3. c \in Seq(S) /\ Len(c) = Len(s) - n /\ \A i \in 1..(Len(s) - n) : c[i] = s[n + i]
  <2>1. \A i \in (n + 1)..Len(s) : s[i] \in S
    BY <1>1
  <2>2. n + 1 \in Int /\ Len(s) \in Int
    BY <1>1
  <2>3. /\ SubSeq(s, n + 1, Len(s)) \in Seq(S)
        /\ Len(SubSeq(s, n + 1, Len(s))) = IF n + 1 <= Len(s) THEN Len(s) - (n + 1) + 1 ELSE 0
        /\ \A i \in 1..(Len(s) - (n + 1) + 1) : SubSeq(s, n + 1, Len(s))[i] = s[n + 1 + i - 1]
    BY <2>1, <2>2, SubSeqProperties
  <2>4. Len(s) - (n + 1) + 1 = Len(s) - n
    BY <1>1
  <2>5. Len(c) = Len(s) - n
    BY <1>1, <2>3
  <2>6. ASSUME NEW i \in 1..(Len(s) - n) PROVE c[i] = s[n + i]
    <3>1. i \in Nat /\ i \in 1..(Len(s) - (n + 1) + 1)
      BY <2>4
    <3>2. n + 1 + i - 1 = n + i
      BY <1>1, <3>1
    <3>. QED BY <2>3, <3>1, <3>2
  <2>. QED BY <2>3, <2>5, <2>6
<1>. HIDE DEF a, c
<1>4. /\ a \o c \in Seq(S) /\ Len(a \o c) = Len(a) + Len(c)
      /\ \A i \in 1..(Len(a) + Len(c)) :
           (a \o c)[i] = IF i <= Len(a) THEN a[i] ELSE c[i - Len(a)]
  BY <1>2, <1>3, ConcatProperties
<1>5. RemoveAt(s, n) = a \o c
  BY DEF RemoveAt, a, c
<1>6. Len(a \o c) = Len(s) - 1 /\ DOMAIN (a \o c) = 1..(Len(s) - 1)
  BY <1>1, <1>2, <1>3, <1>4, LenProperties
<1>7. ASSUME NEW i \in 1..(Len(s) - 1)
      PROVE  (a \o c)[i] = IF i < n THEN s[i] ELSE s[i + 1]
  <2>1. CASE i < n
    BY <1>1, <1>2, <1>3, <1>4, <2>1
  <2>2. CASE ~(i < n)
    <3>1. i - (n - 1) \in 1..(Len(s) - n) /\ n + (i - (n - 1)) = i + 1
      BY <1>1, <2>2
    <3>2. (a \o c)[i] = c[i - (n - 1)]
      BY <1>1, <1>2, <1>3, <1>4, <2>2
    <3>. QED BY <1>1, <1>3, <2>2, <3>1, <3>2
  <2>. QED BY <2>1, <2>2
<1>. QED BY <1>4, <1>5, <1>6, <1>7

(* A set of places before which there is none outside of it is an interval.*)
LEMMA PrefixIsInterval ==
  ASSUME NEW n \in Nat, NEW M \in SUBSET (1..n),
         \A i \in M : \A j \in 1..n : j < i => j \in M
  PROVE  Cardinality(M) \in 0..n /\ M = 1..Cardinality(M)
<1>1. CASE M = 1..n
  <2>1. Cardinality(1..n) = n
    BY FS_Interval
  <2>. QED BY <1>1, <2>1
<1>2. CASE M # 1..n
  <2> DEFINE out == (1..n) \ M
  <2>1. out # {} /\ out \subseteq Nat
    <3>1. (1..n) \ M # {}
      BY <1>2
    <3>2. 1..n \subseteq Nat
      OBVIOUS
    <3>. QED BY <3>1, <3>2
  <2>2. PICK k \in out : \A j \in out : ~(j < k)
    <3>1. PICK k \in out : \A j \in out : ~(<<j, k>> \in OpToRel(<, Nat))
      BY <2>1, NatLessThanWellFounded, WFMin
    <3>2. \A j \in out : j \in Nat /\ ~(j < k)
      BY <2>1, <3>1 DEF OpToRel
    <3>. QED BY <3>2
  <2>3. M = 1..(k - 1)
    <3>1. k \in Nat /\ 1 <= k /\ k <= n /\ k \notin M
      BY <2>1
    <3>2. ASSUME NEW j \in 1..n PROVE j \in M <=> j < k
      <4>1. CASE j < k
        BY <2>2, <4>1
      <4>2. CASE j = k
        BY <3>1, <4>2
      <4>3. CASE k < j
        BY <3>1, <4>3
      <4>. QED BY <3>1, <4>1, <4>2, <4>3
    <3>3. \A j \in 1..(k - 1) : j \in 1..n /\ j < k
      BY <3>1
    <3>4. \A j \in M : j \in 1..n /\ j < k /\ j \in 1..(k - 1)
      BY <3>1, <3>2
    <3>. QED BY <3>2, <3>3, <3>4
  <2>4. Cardinality(1..(k - 1)) = k - 1
    <3>1. k \in Nat /\ 1 <= k /\ k - 1 \in Int
      BY <2>1
    <3>2. Cardinality(1..(k - 1)) = IF 1 > k - 1 THEN 0 ELSE k - 1 - 1 + 1
      BY <3>1, FS_Interval
    <3>. QED BY <3>1, <3>2
  <2>. QED BY <2>1, <2>3, <2>4
<1>. QED BY <1>1, <1>2

-----------------------------------------------------------------------------
(* The files of pending/, in the order of their names.                     *)
Kinds    == {"manual", "scheduled"}
Content  == [Entity -> Nat] \cup {Torn}
FileType == [kind : Kinds, data : Content, mine : BOOLEAN, listed : BOOLEAN]

Ordered(files) == \A i, j \in DOMAIN files :
  i < j /\ files[i].kind = "scheduled" => files[j].kind = "scheduled"
OneMine(files, k) == \A i \in DOMAIN files : files[i].mine =>
  files[i].kind = k /\ \A j \in DOMAIN files : files[j].mine => i = j
FilesOf(files, k) == /\ files \in Seq(FileType) /\ Len(files) <= MaxPending
                     /\ Ordered(files) /\ OneMine(files, k)

LEMMA SnapshotType == ASSUME TypeOK PROVE Snapshot \in Content
BY DEF TypeOK, Snapshot, Content

(* Manual runs come first: the place of a new file is after them, or at    *)
(* the end.                                                                *)
LEMMA PlaceInOrder ==
  ASSUME pending \in Seq(FileType), Ordered(pending), kind \in Kinds
  PROVE  /\ Place \in 1..(Len(pending) + 1)
         /\ kind = "scheduled" => Place = Len(pending) + 1
         /\ kind = "manual" => \A i \in DOMAIN pending :
              i < Place <=> pending[i].kind = "manual"
<1> DEFINE M == {i \in DOMAIN pending : pending[i].kind = "manual"}
<1>1. Len(pending) \in Nat /\ DOMAIN pending = 1..Len(pending)
  BY LenProperties
<1>2. \A i \in DOMAIN pending : pending[i].kind \in Kinds
  <2>1. \A i \in DOMAIN pending : pending[i] \in FileType
    BY <1>1, ElementOfSeq
  <2>. QED BY <2>1 DEF FileType
<1>3. M \in SUBSET (1..Len(pending))
  BY <1>1
<1>4. \A i \in M : \A j \in 1..Len(pending) : j < i => j \in M
  BY <1>1, <1>2 DEF Ordered, Kinds
<1>5. Cardinality(M) \in 0..Len(pending) /\ M = 1..Cardinality(M)
  BY <1>1, <1>3, <1>4, PrefixIsInterval
<1>6. Place = 1 + IF kind = "scheduled" THEN Len(pending) ELSE Cardinality(M)
  BY DEF Place
<1>. HIDE DEF M
<1>7. CASE kind = "scheduled"
  BY <1>1, <1>6, <1>7
<1>8. CASE kind = "manual"
  <2>1. Place = 1 + Cardinality(M)
    BY <1>6, <1>8
  <2>2. Place \in 1..(Len(pending) + 1)
    BY <1>1, <1>5, <2>1
  <2>3. ASSUME NEW i \in DOMAIN pending PROVE i < Place <=> pending[i].kind = "manual"
    <3>1. i \in M <=> pending[i].kind = "manual"
      BY DEF M
    <3>2. i \in Nat /\ 1 <= i
      BY <1>1
    <3>3. i \in M <=> i <= Cardinality(M)
      BY <1>5, <3>2
    <3>. QED BY <1>5, <2>1, <3>1, <3>2, <3>3
  <2>. QED BY <1>8, <2>2, <2>3
<1>. QED BY <1>7, <1>8 DEF Kinds

(* Writing the file of the run, a new one in its place or the one there.   *)
LEMMA WithInOrder ==
  ASSUME FilesOf(pending, kind), kind \in Kinds, RoomForFile, NEW d \in Content
  PROVE  FilesOf(With(d), kind)
<1>1. /\ Len(pending) \in Nat /\ DOMAIN pending = 1..Len(pending)
      /\ pending \in Seq(FileType) /\ Ordered(pending) /\ OneMine(pending, kind)
  BY LenProperties DEF FilesOf
<1>2. \A i \in DOMAIN pending : pending[i] \in FileType
  BY <1>1, ElementOfSeq
<1>3. CASE Mine = {}
  <2> DEFINE new == InsertAt(pending, Place, File(d))
  <2>1. /\ Place \in 1..(Len(pending) + 1)
        /\ kind = "scheduled" => Place = Len(pending) + 1
        /\ kind = "manual" => \A i \in DOMAIN pending :
             i < Place <=> pending[i].kind = "manual"
    BY <1>1, PlaceInOrder
  <2>2. File(d) \in FileType /\ File(d).kind = kind /\ File(d).mine
    BY DEF File, FileType
  <2>3. /\ new \in Seq(FileType) /\ Len(new) = Len(pending) + 1
        /\ DOMAIN new = 1..(Len(pending) + 1)
        /\ \A i \in 1..(Len(pending) + 1) :
             new[i] = IF i < Place THEN pending[i]
                      ELSE IF i = Place THEN File(d) ELSE pending[i - 1]
    <3> DEFINE f == File(d)
    <3>1. f \in FileType
      BY <2>2
    <3>. HIDE DEF f
    <3>2. /\ InsertAt(pending, Place, f) \in Seq(FileType)
          /\ Len(InsertAt(pending, Place, f)) = Len(pending) + 1
          /\ DOMAIN InsertAt(pending, Place, f) = 1..(Len(pending) + 1)
          /\ \A i \in 1..(Len(pending) + 1) :
               InsertAt(pending, Place, f)[i] = IF i < Place THEN pending[i]
                        ELSE IF i = Place THEN f ELSE pending[i - 1]
      BY <1>1, <2>1, <3>1, InsertedElements
    <3>. QED BY <3>2 DEF f
  <2>4. With(d) = new
    BY <1>3 DEF With
  <2>. HIDE DEF new
  <2>5. Len(pending) + 1 <= MaxPending
    <3>1. Cardinality(Mine) = 0
      BY <1>3, FS_EmptySet
    <3>. QED BY <1>1, <3>1 DEF RoomForFile
  <2>6. \A i \in DOMAIN pending : ~pending[i].mine
    BY <1>3 DEF Mine
  <2>7. ASSUME NEW i \in 1..(Len(pending) + 1)
        PROVE  \/ i < Place /\ i \in DOMAIN pending /\ new[i] = pending[i]
               \/ i = Place /\ new[i] = File(d)
               \/ Place < i /\ i - 1 \in DOMAIN pending /\ new[i] = pending[i - 1]
    BY <1>1, <2>1, <2>3
  <2>8. OneMine(new, kind)
    BY <2>2, <2>3, <2>6, <2>7 DEF OneMine
  <2>9. Ordered(new)
    <3>. SUFFICES ASSUME NEW i \in 1..(Len(pending) + 1), NEW j \in 1..(Len(pending) + 1),
                         i < j, new[i].kind = "scheduled"
                  PROVE  new[j].kind = "scheduled"
      BY <2>3 DEF Ordered
    <3>1. i \in Nat /\ j \in Nat /\ Place \in Nat
      BY <1>1, <2>1
    <3>2. CASE j < Place
      <4>1. i < Place /\ new[i] = pending[i] /\ new[j] = pending[j]
        BY <2>3, <3>1, <3>2
      <4>2. i \in DOMAIN pending /\ j \in DOMAIN pending
        BY <2>7, <3>1, <3>2, <4>1
      <4>. QED BY <1>1, <4>1, <4>2 DEF Ordered
    <3>3. CASE j = Place
      <4>1. new[j] = File(d) /\ i < Place
        BY <2>3, <3>1, <3>3
      <4>2. new[i] = pending[i] /\ i \in DOMAIN pending
        BY <2>7, <3>1, <4>1
      <4>3. kind = "scheduled"
        BY <2>1, <4>1, <4>2 DEF Kinds
      <4>. QED BY <2>2, <4>1, <4>3
    <3>4. CASE Place < j
      <4>1. new[j] = pending[j - 1] /\ j - 1 \in DOMAIN pending
        BY <2>7, <3>1, <3>4
      <4>2. kind = "manual" /\ ~(j - 1 < Place)
        BY <1>1, <2>1, <3>1, <3>4 DEF Kinds
      <4>3. pending[j - 1].kind # "manual"
        BY <2>1, <4>1, <4>2
      <4>4. pending[j - 1].kind \in Kinds
        BY <1>2, <4>1 DEF FileType
      <4>. QED BY <4>1, <4>3, <4>4 DEF Kinds
    <3>. QED BY <3>1, <3>2, <3>3, <3>4
  <2>. QED BY <2>3, <2>4, <2>5, <2>8, <2>9 DEF FilesOf
<1>4. CASE Mine # {}
  <2> DEFINE new == [i \in DOMAIN pending |->
                       IF i \in Mine THEN [pending[i] EXCEPT !.data = d] ELSE pending[i]]
  <2>1. With(d) = new
    BY <1>4 DEF With
  <2>2. \A i \in DOMAIN pending : /\ new[i] \in FileType /\ new[i].kind = pending[i].kind
                                  /\ new[i].mine = pending[i].mine
    BY <1>2 DEF FileType
  <2>3. new \in Seq(FileType) /\ Len(new) = Len(pending) /\ DOMAIN new = DOMAIN pending
    <3>1. new \in [1..Len(pending) -> FileType]
      BY <1>1, <2>2
    <3>2. new \in Seq(FileType)
      BY <1>1, <3>1, SeqDef
    <3>. QED BY <1>1, <3>1, <3>2, LenProperties
  <2>. HIDE DEF new
  <2>4. Ordered(new) /\ OneMine(new, kind)
    BY <1>1, <2>2, <2>3 DEF Ordered, OneMine
  <2>. QED BY <2>1, <2>3, <2>4 DEF FilesOf
<1>. QED BY <1>3, <1>4
(* Files that only change what is not their place.                         *)
LEMMA Relabelled ==
  ASSUME NEW old, NEW k, FilesOf(old, k), NEW l,
         NEW new \in [DOMAIN old -> FileType],
         \A i \in DOMAIN old : new[i].kind = old[i].kind,
         \/ \A i \in DOMAIN old : ~new[i].mine
         \/ k = l /\ \A i \in DOMAIN old : new[i].mine = old[i].mine
  PROVE  FilesOf(new, l) /\ Len(new) = Len(old)
<1>1. old \in Seq(FileType) /\ Len(old) \in Nat /\ DOMAIN old = 1..Len(old)
  BY LenProperties DEF FilesOf
<1>2. new \in Seq(FileType)
  BY <1>1, SeqDef
<1>3. Len(new) \in Nat /\ DOMAIN new = 1..Len(new)
  BY <1>2, LenProperties
<1>4. Len(new) = Len(old)
  BY <1>1, <1>3
<1>5. Ordered(new) /\ OneMine(new, l)
  BY DEF FilesOf, Ordered, OneMine
<1>. QED BY <1>2, <1>4, <1>5 DEF FilesOf

LEMMA OthersInOrder ==
  ASSUME NEW files, NEW k, NEW l, FilesOf(files, k)
  PROVE  FilesOf(Others(files), l)
<1>1. files \in Seq(FileType) /\ \A i \in DOMAIN files : files[i] \in FileType
  BY ElementOfSeq, LenProperties DEF FilesOf
<1>2. Others(files) \in [DOMAIN files -> FileType]
  BY <1>1 DEF Others, FileType
<1>3. \A i \in DOMAIN files : /\ Others(files)[i].kind = files[i].kind
                              /\ ~Others(files)[i].mine
  BY <1>1 DEF Others, FileType
<1>. QED BY <1>2, <1>3, Relabelled

LEMMA RemovedInOrder ==
  ASSUME NEW files, NEW k, FilesOf(files, k), NEW n \in DOMAIN files
  PROVE  FilesOf(RemoveAt(files, n), k)
<1> DEFINE new == RemoveAt(files, n)
<1>1. /\ files \in Seq(FileType) /\ Len(files) \in Nat /\ DOMAIN files = 1..Len(files)
      /\ Len(files) <= MaxPending
  BY LenProperties DEF FilesOf
<1>2. /\ new \in Seq(FileType) /\ Len(new) = Len(files) - 1
      /\ DOMAIN new = 1..(Len(files) - 1)
      /\ \A i \in 1..(Len(files) - 1) : new[i] = IF i < n THEN files[i] ELSE files[i + 1]
  BY <1>1, RemainingElements
<1>. HIDE DEF new
<1>3. ASSUME NEW i \in DOMAIN new
      PROVE  \/ i < n /\ i \in DOMAIN files /\ new[i] = files[i]
             \/ n <= i /\ i + 1 \in DOMAIN files /\ new[i] = files[i + 1]
  BY <1>1, <1>2
<1>4. Len(new) <= MaxPending
  BY <1>1, <1>2, InventoryAssumption
<1>5. ASSUME NEW i \in DOMAIN new, NEW j \in DOMAIN new
      PROVE  \E x, y \in DOMAIN files : /\ new[i] = files[x] /\ new[j] = files[y]
                                        /\ (x = y <=> i = j) /\ (i < j => x < y)
  <2>1. i \in Nat /\ j \in Nat /\ n \in Nat
    BY <1>1, <1>2
  <2>2. CASE i < n /\ j < n
    BY <1>3, <2>1, <2>2
  <2>3. CASE i < n /\ n <= j
    <3>1. new[i] = files[i] /\ new[j] = files[j + 1] /\ i \in DOMAIN files /\ j + 1 \in DOMAIN files
      BY <1>3, <2>1, <2>3
    <3>2. i # j + 1 /\ i # j /\ i < j + 1
      BY <2>1, <2>3
    <3>. QED BY <3>1, <3>2
  <2>4. CASE n <= i /\ j < n
    <3>1. new[i] = files[i + 1] /\ new[j] = files[j] /\ i + 1 \in DOMAIN files /\ j \in DOMAIN files
      BY <1>3, <2>1, <2>4
    <3>2. i + 1 # j /\ i # j /\ ~(i < j)
      BY <2>1, <2>4
    <3>. QED BY <3>1, <3>2
  <2>5. CASE n <= i /\ n <= j
    <3>1. new[i] = files[i + 1] /\ new[j] = files[j + 1] /\ i + 1 \in DOMAIN files /\ j + 1 \in DOMAIN files
      BY <1>3, <2>1, <2>5
    <3>2. (i + 1 = j + 1 <=> i = j) /\ (i < j => i + 1 < j + 1)
      BY <2>1
    <3>. QED BY <3>1, <3>2
  <2>. QED BY <2>1, <2>2, <2>3, <2>4, <2>5
<1>6. Ordered(new)
  BY <1>5 DEF FilesOf, Ordered
<1>7. OneMine(new, k)
  <2>1. \A i, j \in DOMAIN new : new[i].mine /\ new[j].mine => i = j
    BY <1>5 DEF FilesOf, OneMine
  <2>2. \A i \in DOMAIN new : new[i].mine => new[i].kind = k
    BY <1>3 DEF FilesOf, OneMine
  <2>. QED BY <2>1, <2>2 DEF OneMine
<1>8. FilesOf(new, k)
  BY <1>2, <1>4, <1>6, <1>7 DEF FilesOf
<1>. QED BY <1>8 DEF new

-----------------------------------------------------------------------------
(* Type correctness.                                                       *)

StoreInv ==
  /\ kind \in Kinds /\ asked \in Filters(kind) /\ task \in {"write", "open"}
  /\ writes \in 0..Retries /\ manuals \in BOOLEAN /\ faults \in 0..MaxFaults
  /\ table \in [Entity -> Nat] /\ FilesOf(pending, kind)

LEMMA StoreInit == Begin => StoreInv
<1>. SUFFICES ASSUME Begin PROVE StoreInv
  OBVIOUS
<1>1. pending = <<>> /\ pending \in Seq(FileType) /\ Len(pending) = 0 /\ DOMAIN pending = {}
  BY DEF Begin
<1>2. FilesOf(pending, kind)
  BY <1>1, InventoryAssumption DEF FilesOf, Ordered, OneMine
<1>. QED BY <1>2, PagingAssumption, InventoryAssumption DEF Begin, StoreInv, Kinds, Nothing

(* A run that starts finds files in order, and none of them is its own.    *)
LEMMA RunStarts ==
  ASSUME StoreInv, NEW k \in Kinds, NEW files, FilesOf(files, kind), StartRun(k, files),
         table' = table, faults' \in 0..MaxFaults
  PROVE  StoreInv'
<1>1. FilesOf(Others(files), k)
  BY OthersInOrder
<1>2. FilesOf(pending, kind)'
  BY <1>1 DEF StartRun
<1>. QED BY <1>2, PagingAssumption DEF StartRun, StoreInv

LEMMA WhatIsLeft ==
  ASSUME TypeOK, StoreInv, NEW files \in Cut \cup Closed
  PROVE  FilesOf(files, kind)
<1>1. CASE files = pending
  BY <1>1 DEF StoreInv
<1>2. CASE RoomForFile /\ files = With(Snapshot)
  BY <1>2, SnapshotType, WithInOrder DEF StoreInv
<1>. QED BY <1>1, <1>2 DEF Cut, Closed

LEMMA UpsertedType ==
  ASSUME StoreInv, NEW i \in DOMAIN pending, pending[i].data # Torn
  PROVE  Upserted(pending[i].data) \in [Entity -> Nat]
<1>1. pending[i] \in FileType
  BY ElementOfSeq, LenProperties DEF StoreInv, FilesOf
<1>2. pending[i].data \in [Entity -> Nat]
  BY <1>1 DEF FileType, Content
<1>. QED BY <1>2 DEF Upserted, StoreInv

LEMMA StoreNext == ASSUME TypeOK, StoreInv, [Step]_all PROVE StoreInv'
<1>1. /\ FilesOf(pending, kind) /\ pending \in Seq(FileType)
      /\ \A i \in DOMAIN pending : pending[i] \in FileType
  BY ElementOfSeq, LenProperties DEF StoreInv, FilesOf
<1>2. Fault => faults' \in 0..MaxFaults
  BY InventoryAssumption DEF Fault, StoreInv
<1>3. CASE Change \/ Fetch \/ FetchFails
  BY <1>2, <1>3 DEF Change, Fetch, FetchFails, output, stored, StoreInv
<1>4. CASE OpenFile
  <2>1. FilesOf(With(Torn), kind)
    BY <1>1, <1>4, WithInOrder DEF OpenFile, StoreInv, Content
  <2>. QED BY <1>4, <2>1 DEF OpenFile, StoreInv
<1>5. ASSUME NEW k \in Kinds, CloseFile(k) \/ GiveUp(k) PROVE StoreInv'
  <2>1. PICK files : /\ StartRun(k, files) /\ UNCHANGED <<table, faults>>
                     /\ files = pending \/ files \in Closed
    BY <1>5 DEF CloseFile, GiveUp
  <2>2. FilesOf(files, kind)
    BY <1>1, <2>1, WhatIsLeft
  <2>. QED BY <2>1, <2>2, RunStarts DEF StoreInv
<1>6. ASSUME NEW k \in Kinds, WriteFails(k) PROVE StoreInv'
  <2>1. PICK files \in Cut :
          \/ /\ writes < Retries
             /\ writes' = writes + 1 /\ task' = "write" /\ pending' = files
             /\ UNCHANGED <<vars, kind, asked, manuals>>
          \/ writes = Retries /\ StartRun(k, files)
    BY <1>6 DEF WriteFails
  <2>2. FilesOf(files, kind) /\ faults' \in 0..MaxFaults /\ table' = table
    BY <1>2, <1>6, WhatIsLeft DEF WriteFails
  <2>3. CASE StartRun(k, files)
    BY <2>2, <2>3, RunStarts
  <2>4. CASE /\ writes < Retries
             /\ writes' = writes + 1 /\ task' = "write" /\ pending' = files
             /\ UNCHANGED <<vars, kind, asked, manuals>>
    BY <2>2, <2>4, PagingAssumption DEF StoreInv
  <2>. QED BY <2>1, <2>3, <2>4
<1>7. CASE ListFiles
  <2>1. pending' \in [DOMAIN pending -> FileType]
    BY <1>1, <1>7 DEF ListFiles, FileType
  <2>2. \A i \in DOMAIN pending : /\ pending'[i].kind = pending[i].kind
                                  /\ pending'[i].mine = pending[i].mine
    BY <1>1, <1>7 DEF ListFiles, FileType
  <2>3. FilesOf(pending', kind)
    BY <1>1, <2>1, <2>2, Relabelled
  <2>. QED BY <1>7, <2>3 DEF ListFiles, collecting, output, StoreInv
<1>8. ASSUME NEW i \in DOMAIN pending, TakeFile(i) \/ TakeFails(i) PROVE StoreInv'
  <2>1. FilesOf(RemoveAt(pending, i), kind)
    BY <1>1, RemovedInOrder
  <2>2. FilesOf([pending EXCEPT ![i].listed = FALSE], kind)
    <3> DEFINE new == [pending EXCEPT ![i].listed = FALSE]
    <3>1. new \in [DOMAIN pending -> FileType]
      BY <1>1 DEF FileType
    <3>2. \A j \in DOMAIN pending : /\ new[j].kind = pending[j].kind
                                    /\ new[j].mine = pending[j].mine
      BY <1>1 DEF FileType
    <3>. HIDE DEF new
    <3>3. FilesOf(new, kind)
      BY <1>1, <3>1, <3>2, Relabelled
    <3>. QED BY <3>3 DEF new
  <2>3. pending[i].data # Torn => Upserted(pending[i].data) \in [Entity -> Nat]
    BY UpsertedType
  <2>4. UNCHANGED <<kind, asked, task, writes, manuals>>
    BY <1>8 DEF TakeFile, TakeFails, collecting, output
  <2>5. FilesOf(pending', kind)
    BY <1>8, <2>1, <2>2 DEF TakeFile, TakeFails
  <2>6. table' \in [Entity -> Nat]
    BY <1>8, <2>3 DEF TakeFile, TakeFails, StoreInv
  <2>7. faults' \in 0..MaxFaults
    BY <1>2, <1>8 DEF TakeFile, TakeFails, StoreInv
  <2>. QED BY <2>4, <2>5, <2>6, <2>7 DEF StoreInv
<1>9. CASE UNCHANGED all
  BY <1>9 DEF all, output, stored, StoreInv
<1>. QED BY <1>3, <1>4, <1>5, <1>6, <1>7, <1>8, <1>9 DEF Step, Writer, Kinds

(* Every variable keeps to its type, pending/ holds at most MaxPending     *)
(* files, in the order of their names, and one of the current run.         *)
THEOREM InventoryTypeCorrect == InventorySpec => []InventoryTypeOK
<1>1. InventorySpec => []TypeOK
  BY InventoryFetches, FetchTypeCorrect, PTL
<1>2. TypeOK /\ StoreInv => InventoryTypeOK
  <2>. SUFFICES ASSUME TypeOK, StoreInv PROVE InventoryTypeOK
    OBVIOUS
  <2>1. \A i \in DOMAIN pending : pending[i] \in FileType
    BY ElementOfSeq, LenProperties DEF StoreInv, FilesOf
  <2>. QED BY <2>1 DEF StoreInv, FilesOf, Ordered, OneMine, FileType, Content, Kinds, InventoryTypeOK
<1>. QED BY <1>1, <1>2, StoreInit, StoreNext, PTL DEF InventorySpec
-----------------------------------------------------------------------------
(* Rows get newer as long as nothing fails and all runs are scheduled.     *)

Has(file, e) == file.data # Torn /\ file.data[e] # 0

(* Only the last file is being written, and those that the writer has not  *)
(* listed come after those it has.                                         *)
Queue(files) == \A i, j \in DOMAIN files :
  i < j => ~files[i].mine /\ (files[j].listed => files[i].listed)

(* Files hold no host in an older state than those before them.            *)
Increasing(files) == \A e \in Entity : \A i, j \in DOMAIN files :
  i < j /\ Has(files[i], e) /\ Has(files[j], e) => files[i].data[e] <= files[j].data[e]

UpTo(files, e, n) == \A i \in DOMAIN files : Has(files[i], e) => files[i].data[e] <= n
From(files, e, n) == \A i \in DOMAIN files : Has(files[i], e) => n <= files[i].data[e]

(* A row is no newer than any file has its host, and files are no newer    *)
(* than what the run that goes on has fetched.                             *)
Ages == \A e \in Entity :
  /\ table[e] <= version[e] /\ UpTo(pending, e, version[e])
  /\ copies[e] > 0 => table[e] <= detail[e] /\ UpTo(pending, e, detail[e])
  /\ From(pending, e, table[e])

CalmInv  == kind = "scheduled" /\ Queue(pending) /\ Increasing(pending) /\ Ages
QuietInv == faults = 0 /\ ~manuals => CalmInv

(* What is known of the fetch and of the types.                            *)
Ground == TypeOK /\ StoreInv /\ \A e \in Entity : detail[e] <= version[e]

LEMMA GroundHolds == InventorySpec => []Ground
<1>1. Spec => [](PagedInv /\ OrderInv)
  BY PagedInit, PagedNext, OrderInit, OrderNext, PTL DEF Spec
<1>2. InventorySpec => [](PagedInv /\ OrderInv)
  BY <1>1, InventoryFetches, PTL
<1>3. PagedInv /\ OrderInv => TypeOK /\ \A e \in Entity : detail[e] <= version[e]
  BY DEF PagedInv, OrderInv, PartsOf
<1>4. PagedInv => TypeOK
  BY DEF PagedInv
<1>5. InventorySpec => []StoreInv
  BY <1>2, <1>4, StoreInit, StoreNext, PTL DEF InventorySpec
<1>. QED BY <1>2, <1>3, <1>5, PTL DEF Ground

LEMMA DataType ==
  ASSUME NEW files, NEW k, FilesOf(files, k), NEW i \in DOMAIN files, NEW e \in Entity,
         Has(files[i], e)
  PROVE  files[i].data[e] \in Nat
<1>1. files[i] \in FileType
  BY ElementOfSeq, LenProperties DEF FilesOf
<1>. QED BY <1>1 DEF FileType, Content, Has

(* A scheduled run writes its file at the end.                             *)
LEMMA WrittenLast ==
  ASSUME FilesOf(pending, kind), kind = "scheduled", Queue(pending), NEW d \in Content
  PROVE  \E n \in Nat : /\ DOMAIN With(d) = 1..n /\ n \in DOMAIN With(d)
                        /\ With(d)[n].data = d
                        /\ With(d)[n].listed => n \in DOMAIN pending /\ pending[n].listed
                        /\ \A i \in DOMAIN With(d) : i < n =>
                             i \in DOMAIN pending /\ With(d)[i] = pending[i] /\ ~pending[i].mine
<1>1. /\ pending \in Seq(FileType) /\ Len(pending) \in Nat
      /\ DOMAIN pending = 1..Len(pending) /\ Ordered(pending)
  BY LenProperties DEF FilesOf
<1>2. CASE Mine = {}
  <2> DEFINE f == File(d)
  <2>1. f \in FileType /\ f.data = d /\ ~f.listed
    BY <1>2 DEF File, FileType, Kinds
  <2>. HIDE DEF f
  <2>2. Place = Len(pending) + 1
    BY <1>1 DEF Place
  <2>3. Len(pending) + 1 \in 1..(Len(pending) + 1)
    BY <1>1
  <2>4. With(d) = InsertAt(pending, Len(pending) + 1, f)
    BY <1>2, <2>2 DEF With, f
  <2>5. /\ DOMAIN With(d) = 1..(Len(pending) + 1)
        /\ \A i \in 1..(Len(pending) + 1) :
             With(d)[i] = IF i < Len(pending) + 1 THEN pending[i]
                          ELSE IF i = Len(pending) + 1 THEN f ELSE pending[i - 1]
    <3>1. Len(pending) + 1 \in 1..(Len(pending) + 1) /\ pending \in Seq(FileType) /\ f \in FileType
      BY <1>1, <2>1, <2>3
    <3>2. LET new == InsertAt(pending, Len(pending) + 1, f)
          IN  /\ DOMAIN new = 1..(Len(pending) + 1)
              /\ \A i \in 1..(Len(pending) + 1) :
                   new[i] = IF i < Len(pending) + 1 THEN pending[i]
                            ELSE IF i = Len(pending) + 1 THEN f ELSE pending[i - 1]
      BY <3>1, InsertedElements
    <3>. QED BY <2>4, <3>2
  <2>6. With(d)[Len(pending) + 1] = f
    BY <1>1, <2>3, <2>5
  <2>7. ASSUME NEW i \in DOMAIN With(d), i < Len(pending) + 1
        PROVE  i \in DOMAIN pending /\ With(d)[i] = pending[i] /\ ~pending[i].mine
    <3>1. i \in DOMAIN pending /\ With(d)[i] = pending[i]
      BY <1>1, <2>5, <2>7
    <3>. QED BY <1>2, <3>1 DEF Mine
  <2>8. Len(pending) + 1 \in Nat /\ Len(pending) + 1 \in DOMAIN With(d)
    BY <1>1, <2>3, <2>5
  <2>. QED BY <2>1, <2>5, <2>6, <2>7, <2>8
<1>3. CASE Mine # {}
  <2>1. PICK n \in DOMAIN pending : pending[n].mine
    BY <1>3 DEF Mine
  <2>2. \A i \in DOMAIN pending : i \in Nat /\ ~(n < i) /\ (i < n => ~pending[i].mine)
    BY <1>1, <2>1 DEF Queue
  <2>3. n = Len(pending) /\ n \in Nat
    BY <1>1, <2>1, <2>2
  <2>4. /\ DOMAIN With(d) = DOMAIN pending
        /\ \A i \in DOMAIN pending : With(d)[i] =
             IF i \in Mine THEN [pending[i] EXCEPT !.data = d] ELSE pending[i]
    BY <1>3 DEF With
  <2>5. pending[n] \in FileType
    BY <1>1, <2>1, ElementOfSeq
  <2>6. With(d)[n].data = d /\ With(d)[n].listed = pending[n].listed
    BY <2>1, <2>4, <2>5 DEF Mine, FileType
  <2>7. \A i \in DOMAIN pending : i < n => With(d)[i] = pending[i] /\ ~pending[i].mine
    BY <2>2, <2>4 DEF Mine
  <2>. QED BY <1>1, <2>1, <2>3, <2>4, <2>6, <2>7
<1>. QED BY <1>2, <1>3

(* So what it writes has no effect on the order if it is no older than     *)
(* what there is.                                                          *)
LEMMA WrittenInTurn ==
  ASSUME Ground, CalmInv, RoomForFile, NEW d \in Content,
         d # Torn => \A e \in Entity : d[e] # 0 =>
           table[e] <= d[e] /\ d[e] <= version[e] /\ UpTo(pending, e, d[e])
  PROVE  /\ Queue(With(d)) /\ Increasing(With(d))
         /\ \A e \in Entity : UpTo(With(d), e, version[e]) /\ From(With(d), e, table[e])
         /\ d = Torn => \A e \in Entity : \A m \in Nat :
              UpTo(pending, e, m) => UpTo(With(d), e, m)
<1>1. FilesOf(pending, kind) /\ kind = "scheduled" /\ Queue(pending) /\ Increasing(pending)
  BY DEF Ground, StoreInv, CalmInv
<1>2. PICK n \in Nat : /\ DOMAIN With(d) = 1..n /\ n \in DOMAIN With(d)
                       /\ With(d)[n].data = d
                       /\ With(d)[n].listed => n \in DOMAIN pending /\ pending[n].listed
                       /\ \A i \in DOMAIN With(d) : i < n =>
                            i \in DOMAIN pending /\ With(d)[i] = pending[i] /\ ~pending[i].mine
  BY <1>1, WrittenLast
<1> DEFINE g == With(d)
<1>. HIDE DEF g
<1>3. /\ DOMAIN g = 1..n /\ n \in DOMAIN g /\ g[n].data = d
      /\ g[n].listed => n \in DOMAIN pending /\ pending[n].listed
      /\ \A i \in DOMAIN g : i < n =>
           i \in DOMAIN pending /\ g[i] = pending[i] /\ ~pending[i].mine
  BY <1>2 DEF g
<1>4. \A i \in DOMAIN g : i \in Nat /\ (i < n \/ i = n)
  BY <1>3
<1>5. ASSUME NEW e \in Entity, NEW i \in DOMAIN g, Has(g[i], e)
      PROVE  \/ i < n /\ i \in DOMAIN pending /\ g[i] = pending[i] /\ Has(pending[i], e)
             \/ i = n /\ g[i].data = d /\ d # Torn /\ d[e] # 0
  BY <1>3, <1>4, <1>5 DEF Has
<1>6. Queue(g)
  <2>. SUFFICES ASSUME NEW i \in DOMAIN g, NEW j \in DOMAIN g, i < j
                PROVE  ~g[i].mine /\ (g[j].listed => g[i].listed)
    BY DEF Queue
  <2>1. i < n
    BY <1>4
  <2>2. j = n \/ (j < n /\ g[j] = pending[j] /\ j \in DOMAIN pending)
    BY <1>3, <1>4
  <2>. QED BY <1>1, <1>3, <2>1, <2>2 DEF Queue
<1>7. Increasing(g)
  <2>. SUFFICES ASSUME NEW e \in Entity, NEW i \in DOMAIN g, NEW j \in DOMAIN g, i < j,
                       Has(g[i], e), Has(g[j], e)
                PROVE  g[i].data[e] <= g[j].data[e]
    BY DEF Increasing
  <2>1. i < n
    BY <1>4
  <2>2. i \in DOMAIN pending /\ g[i] = pending[i] /\ Has(pending[i], e)
    BY <1>4, <1>5, <2>1
  <2>3. CASE j = n
    <3>1. g[j].data = d /\ d # Torn /\ d[e] # 0
      BY <1>4, <1>5, <2>3
    <3>. QED BY <2>2, <3>1 DEF UpTo
  <2>4. CASE j < n
    <3>1. j \in DOMAIN pending /\ g[j] = pending[j] /\ Has(pending[j], e)
      BY <1>4, <1>5, <2>4
    <3>. QED BY <1>1, <2>2, <3>1 DEF Increasing
  <2>. QED BY <1>4, <2>3, <2>4
<1>8. ASSUME NEW e \in Entity PROVE UpTo(g, e, version[e]) /\ From(g, e, table[e])
  <2>1. UpTo(pending, e, version[e]) /\ From(pending, e, table[e])
    BY DEF CalmInv, Ages
  <2>. QED BY <1>5, <2>1 DEF UpTo, From
<1>9. ASSUME d = Torn, NEW e \in Entity, NEW m \in Nat, UpTo(pending, e, m)
      PROVE  UpTo(g, e, m)
  BY <1>5, <1>9 DEF UpTo
<1>. QED BY <1>6, <1>7, <1>8, <1>9 DEF g
(* A scheduled run begins with files in this order.                        *)
LEMMA RunStartsInTurn ==
  ASSUME Ground, CalmInv, NEW k, StartRun(k, pending) \/ \E f \in Closed : StartRun(k, f),
         manuals' = FALSE, k \in Kinds, table' = table
  PROVE  CalmInv'
<1>1. PICK files : StartRun(k, files) /\ (files = pending \/ (RoomForFile /\ files = With(Snapshot)))
  BY DEF Closed
<1>2. /\ kind' = "scheduled" /\ pending' = Others(files) /\ version' = version
      /\ copies' = Nothing
  BY <1>1 DEF StartRun, NextRun, StartOver, Kinds
<1>3. /\ Queue(files) /\ Increasing(files)
      /\ \A e \in Entity : UpTo(files, e, version[e]) /\ From(files, e, table[e])
  <2>1. CASE files = pending
    BY <2>1 DEF CalmInv, Ages
  <2>2. CASE RoomForFile /\ files = With(Snapshot)
    <3>1. Snapshot \in Content
      BY SnapshotType DEF Ground
    <3>2. ASSUME NEW e \in Entity, Snapshot[e] # 0
          PROVE  /\ table[e] <= Snapshot[e] /\ Snapshot[e] <= version[e]
                 /\ UpTo(pending, e, Snapshot[e])
      <4>1. copies[e] > 0 /\ Snapshot[e] = detail[e]
        BY <3>2 DEF Snapshot
      <4>. QED BY <4>1 DEF CalmInv, Ages, Ground
    <3>3. \A e \in Entity : Snapshot[e] # 0 =>
            /\ table[e] <= Snapshot[e] /\ Snapshot[e] <= version[e]
            /\ UpTo(pending, e, Snapshot[e])
      BY <3>2
    <3>. QED BY <2>2, <3>1, <3>3, WrittenInTurn
  <2>. QED BY <1>1, <2>1, <2>2
<1>4. FilesOf(files, kind)
  BY <1>1, WhatIsLeft DEF Ground, StoreInv, Closed
<1>5. /\ DOMAIN Others(files) = DOMAIN files
      /\ \A i \in DOMAIN files : /\ Others(files)[i].data = files[i].data
                                 /\ Others(files)[i].listed = files[i].listed
                                 /\ ~Others(files)[i].mine
  <2>1. \A i \in DOMAIN files : files[i] \in FileType
    BY <1>4, ElementOfSeq, LenProperties DEF FilesOf
  <2>. QED BY <2>1 DEF Others, FileType
<1>6. Queue(pending')
  BY <1>2, <1>3, <1>5 DEF Queue
<1>7. Increasing(pending')
  BY <1>2, <1>3, <1>5 DEF Increasing, Has
<1>8. \A e \in Entity : UpTo(pending', e, version[e]) /\ From(pending', e, table[e])
  BY <1>2, <1>3, <1>5 DEF UpTo, From, Has
<1>9. Increasing(pending)' /\ Queue(pending)'
  BY <1>6, <1>7 DEF Increasing, Queue, Has
<1>10. Ages'
  <2>. SUFFICES ASSUME NEW e \in Entity
                PROVE  /\ table'[e] <= version'[e] /\ UpTo(pending', e, version'[e])
                       /\ ~(copies'[e] > 0)
                       /\ From(pending', e, table'[e])
    BY DEF Ages, UpTo, From, Has
  <2>1. table[e] <= version[e]
    BY DEF CalmInv, Ages
  <2>. QED BY <1>2, <1>8, <2>1 DEF Nothing
<1>. QED BY <1>2, <1>9, <1>10 DEF CalmInv

LEMMA VersionGrows ==
  ASSUME TypeOK, NEW x \in Entity, Create(x) \/ Edit(x) \/ Delete(x), NEW e \in Entity
  PROVE  version'[e] \in Nat /\ version[e] <= version'[e]
<1>1. version[e] \in Nat /\ version \in [Entity -> Nat]
  BY DEF TypeOK
<1>2. CASE Create(x)
  BY <1>1, <1>2 DEF Create
<1>3. CASE Edit(x)
  <2>1. version'[e] = version[e] \/ version'[e] = version[e] + 1
    BY <1>1, <1>3 DEF Edit
  <2>. QED BY <1>1, <2>1
<1>4. CASE Delete(x)
  BY <1>1, <1>4 DEF Delete
<1>. QED BY <1>2, <1>3, <1>4

(* The file that is taken is the first one.                                *)
LEMMA TakenFirst ==
  ASSUME FilesOf(pending, kind), Queue(pending), NEW i \in DOMAIN pending, NextFile(i)
  PROVE  i = 1
<1>1. Len(pending) \in Nat /\ DOMAIN pending = 1..Len(pending)
  BY LenProperties DEF FilesOf
<1>2. 1 \in DOMAIN pending /\ (1 < i => pending[1].listed)
  BY <1>1 DEF NextFile, Queue
<1>. QED BY <1>1, <1>2 DEF NextFile

LEMMA TakenInTurn ==
  ASSUME Ground, CalmInv, NEW i \in DOMAIN pending, TakeFile(i)
  PROVE  CalmInv' /\ \A e \in Entity : table[e] <= table'[e]
<1>1. /\ FilesOf(pending, kind) /\ pending \in Seq(FileType)
      /\ Len(pending) \in Nat /\ DOMAIN pending = 1..Len(pending)
      /\ table \in [Entity -> Nat]
  BY LenProperties DEF Ground, StoreInv, FilesOf
<1>2. i = 1
  BY <1>1, TakenFirst DEF TakeFile, CalmInv
<1>3. /\ pending' = RemoveAt(pending, 1)
      /\ UNCHANGED <<kind, version, copies, detail>>
      /\ table' = IF pending[1].data = Torn THEN table ELSE Upserted(pending[1].data)
  BY <1>2 DEF TakeFile, collecting, vars, zabbix, result, output
<1>4. /\ DOMAIN pending' = 1..(Len(pending) - 1)
      /\ \A j \in DOMAIN pending' : pending'[j] = pending[j + 1]
  <2>1. 1 \in 1..Len(pending)
    BY <1>1, <1>2
  <2>2. LET new == RemoveAt(pending, 1)
        IN  /\ DOMAIN new = 1..(Len(pending) - 1)
            /\ \A j \in 1..(Len(pending) - 1) :
                 new[j] = IF j < 1 THEN pending[j] ELSE pending[j + 1]
    BY <1>1, <2>1, RemainingElements
  <2>3. \A j \in 1..(Len(pending) - 1) : ~(j < 1)
    OBVIOUS
  <2>. QED BY <1>3, <2>2, <2>3
<1>5. \A j \in DOMAIN pending' : j \in Nat /\ j + 1 \in DOMAIN pending /\ 1 < j + 1
  BY <1>1, <1>4
<1>6. ASSUME NEW e \in Entity
      PROVE  /\ table[e] \in Nat /\ table'[e] \in Nat
             /\ \/ table'[e] = table[e]
                \/ Has(pending[1], e) /\ table'[e] = pending[1].data[e]
  <2>1. CASE pending[1].data = Torn
    BY <1>1, <1>3, <2>1
  <2>2. CASE pending[1].data # Torn
    <3>1. table'[e] = IF pending[1].data[e] # 0 THEN pending[1].data[e] ELSE table[e]
      BY <1>3, <2>2 DEF Upserted
    <3>2. Upserted(pending[1].data) \in [Entity -> Nat]
      BY <1>2, <2>2, UpsertedType DEF Ground
    <3>. QED BY <1>1, <1>3, <2>2, <3>1, <3>2 DEF Has
  <2>. QED BY <2>1, <2>2
<1>7. ASSUME NEW e \in Entity PROVE table[e] <= table'[e]
  BY <1>1, <1>2, <1>6, <1>7 DEF CalmInv, Ages, From
<1>8. Queue(pending') /\ Increasing(pending')
  <2>1. Queue(pending) /\ Increasing(pending)
    BY DEF CalmInv
  <2>2. \A j, l \in DOMAIN pending' : j < l => j + 1 < l + 1
    BY <1>5
  <2>3. Queue(pending')
    BY <1>4, <1>5, <2>1, <2>2 DEF Queue
  <2>4. Increasing(pending')
    BY <1>4, <1>5, <2>1, <2>2 DEF Increasing
  <2>. QED BY <2>3, <2>4
<1>9. ASSUME NEW e \in Entity
      PROVE  /\ table'[e] <= version[e] /\ UpTo(pending', e, version[e])
             /\ copies[e] > 0 => table'[e] <= detail[e] /\ UpTo(pending', e, detail[e])
             /\ From(pending', e, table'[e])
  <2>1. /\ table[e] <= version[e] /\ UpTo(pending, e, version[e])
        /\ copies[e] > 0 => table[e] <= detail[e] /\ UpTo(pending, e, detail[e])
        /\ From(pending, e, table[e])
    BY DEF CalmInv, Ages
  <2>2. UpTo(pending', e, version[e]) /\ (copies[e] > 0 => UpTo(pending', e, detail[e]))
    BY <1>4, <1>5, <2>1 DEF UpTo
  <2>3. table'[e] <= version[e] /\ (copies[e] > 0 => table'[e] <= detail[e])
    BY <1>1, <1>2, <1>6, <2>1 DEF UpTo
  <2>4. From(pending', e, table'[e])
    <3>. SUFFICES ASSUME NEW j \in DOMAIN pending', Has(pending'[j], e)
                  PROVE  table'[e] <= pending'[j].data[e]
      BY DEF From
    <3>1. Has(pending[j + 1], e) /\ j + 1 \in DOMAIN pending /\ pending'[j] = pending[j + 1]
      BY <1>4, <1>5
    <3>2. table[e] <= pending[j + 1].data[e]
      BY <2>1, <3>1 DEF From
    <3>3. Has(pending[1], e) => pending[1].data[e] <= pending[j + 1].data[e]
      BY <1>2, <1>5, <3>1 DEF CalmInv, Increasing
    <3>. QED BY <1>6, <3>1, <3>2, <3>3
  <2>. QED BY <2>2, <2>3, <2>4
<1>10. Ages'
  <2>1. Ages' <=> \A e \in Entity :
          /\ table'[e] <= version'[e] /\ UpTo(pending', e, version'[e])
          /\ copies'[e] > 0 => table'[e] <= detail'[e] /\ UpTo(pending', e, detail'[e])
          /\ From(pending', e, table'[e])
    BY DEF Ages, UpTo, From, Has
  <2>. QED BY <1>3, <1>9, <2>1
<1>11. Queue(pending)' /\ Increasing(pending)'
  BY <1>8 DEF Queue, Increasing, Has
<1>12. CalmInv'
  BY <1>3, <1>10, <1>11 DEF CalmInv
<1>. QED BY <1>7, <1>12
LEMMA QuietInit == Begin => QuietInv
<1>. SUFFICES ASSUME Begin, ~manuals PROVE CalmInv
  BY DEF QuietInv
<1>1. kind = "scheduled"
  BY DEF Begin
<1>2. DOMAIN pending = {} /\ table = Nothing /\ copies = Nothing
  BY DEF Begin, Init
<1>3. \A e \in Entity : version[e] \in Nat
  BY DEF Begin, Init
<1>. QED BY <1>1, <1>2, <1>3 DEF CalmInv, Queue, Increasing, Ages, UpTo, From, Nothing

LEMMA QuietNext ==
  ASSUME Ground, CalmInv, [Step]_all, faults' = 0, ~manuals'
  PROVE  CalmInv' /\ \A e \in Entity : table[e] <= table'[e]
<1>1. /\ TypeOK /\ StoreInv /\ FilesOf(pending, kind) /\ table \in [Entity -> Nat]
      /\ kind = "scheduled" /\ Queue(pending) /\ Increasing(pending) /\ Ages
  BY DEF Ground, StoreInv, CalmInv
<1>2. \A e \in Entity : /\ table[e] \in Nat /\ table[e] <= table[e]
                        /\ version[e] \in Nat /\ detail[e] \in Nat /\ copies[e] \in Nat
  BY <1>1 DEF TypeOK
<1>3. ~Fault
  <2>1. faults \in Nat
    BY <1>1, InventoryAssumption DEF StoreInv
  <2>. QED BY <2>1 DEF Fault
<1>4. Ages' <=> \A e \in Entity :
        /\ table'[e] <= version'[e] /\ UpTo(pending', e, version'[e])
        /\ copies'[e] > 0 => table'[e] <= detail'[e] /\ UpTo(pending', e, detail'[e])
        /\ From(pending', e, table'[e])
  BY DEF Ages, UpTo, From, Has
<1>5. ASSUME UNCHANGED <<kind, pending, table>> PROVE Queue(pending)' /\ Increasing(pending)'
  BY <1>1, <1>5 DEF Queue, Increasing, Has
<1>6. CASE Change
  <2>1. PICK x \in Entity : Create(x) \/ Edit(x) \/ Delete(x)
    BY <1>6 DEF Change
  <2>2. UNCHANGED <<kind, pending, table, copies, detail>>
    BY <1>6, <2>1 DEF Change, output, stored, Create, Edit, Delete, collector, result
  <2>3. ASSUME NEW e \in Entity
        PROVE  /\ table'[e] <= version'[e] /\ UpTo(pending', e, version'[e])
               /\ copies'[e] > 0 => table'[e] <= detail'[e] /\ UpTo(pending', e, detail'[e])
               /\ From(pending', e, table'[e])
    <3>1. version'[e] \in Nat /\ version[e] <= version'[e]
      BY <1>1, <2>1, VersionGrows
    <3>2. UpTo(pending, e, version'[e])
      BY <1>1, <1>2, <3>1, DataType DEF Ages, UpTo
    <3>. QED BY <1>1, <1>2, <2>2, <3>1, <3>2 DEF Ages
  <2>. QED BY <1>1, <1>2, <1>4, <1>5, <2>2, <2>3 DEF CalmInv
<1>7. CASE Fetch
  <2>1. UNCHANGED <<kind, pending, table, version>>
    BY <1>7 DEF Fetch, output, stored, ListIds, FetchDetails, FetchMacros, FetchTags, zabbix
  <2>2. \A e \in Entity : copies'[e] > 0 =>
          \/ copies[e] > 0 /\ detail'[e] = detail[e]
          \/ detail'[e] = version[e]
    <3>1. CASE FetchDetails
      BY <3>1 DEF FetchDetails
    <3>2. CASE ListIds \/ FetchMacros \/ FetchTags
      BY <3>2 DEF ListIds, FetchMacros, FetchTags, result
    <3>. QED BY <1>7, <3>1, <3>2 DEF Fetch
  <2>3. ASSUME NEW e \in Entity
        PROVE  /\ table'[e] <= version'[e] /\ UpTo(pending', e, version'[e])
               /\ copies'[e] > 0 => table'[e] <= detail'[e] /\ UpTo(pending', e, detail'[e])
               /\ From(pending', e, table'[e])
    BY <1>1, <2>1, <2>2 DEF Ages
  <2>. QED BY <1>1, <1>2, <1>4, <1>5, <2>1, <2>3 DEF CalmInv
<1>8. CASE OpenFile
  <2>1. /\ RoomForFile /\ pending' = With(Torn)
        /\ UNCHANGED <<kind, table, version, copies, detail>>
    BY <1>8 DEF OpenFile, vars, zabbix, result
  <2>2. /\ Queue(With(Torn)) /\ Increasing(With(Torn))
        /\ \A e \in Entity : UpTo(With(Torn), e, version[e]) /\ From(With(Torn), e, table[e])
        /\ \A e \in Entity : \A m \in Nat : UpTo(pending, e, m) => UpTo(With(Torn), e, m)
    BY <2>1, WrittenInTurn DEF Content
  <2>3. Queue(pending)' /\ Increasing(pending)'
    BY <2>1, <2>2 DEF Queue, Increasing, Has
  <2>4. ASSUME NEW e \in Entity
        PROVE  /\ table'[e] <= version'[e] /\ UpTo(pending', e, version'[e])
               /\ copies'[e] > 0 => table'[e] <= detail'[e] /\ UpTo(pending', e, detail'[e])
               /\ From(pending', e, table'[e])
    BY <1>1, <1>2, <2>1, <2>2 DEF Ages
  <2>. QED BY <1>1, <1>2, <1>4, <2>1, <2>3, <2>4 DEF CalmInv
<1>9. ASSUME NEW k \in Kinds, CloseFile(k) \/ GiveUp(k)
      PROVE  CalmInv' /\ \A e \in Entity : table[e] <= table'[e]
  <2>1. table' = table /\ (StartRun(k, pending) \/ \E files \in Closed : StartRun(k, files))
    BY <1>9 DEF CloseFile, GiveUp
  <2>2. manuals' = FALSE
    BY <1>1, <2>1 DEF StartRun, StoreInv
  <2>3. CalmInv'
    BY <2>1, <2>2, RunStartsInTurn
  <2>. QED BY <1>2, <2>1, <2>3
<1>10. CASE ListFiles
  <2>1. /\ UNCHANGED <<kind, table, version, copies, detail>>
        /\ DOMAIN pending' = DOMAIN pending
        /\ \A i \in DOMAIN pending : /\ pending'[i].data = pending[i].data
                                     /\ pending'[i].mine = pending[i].mine
                                     /\ pending'[i].listed
    <3>1. \A i \in DOMAIN pending : pending[i] \in FileType
      BY <1>1, ElementOfSeq, LenProperties DEF FilesOf
    <3>. QED BY <1>10, <3>1 DEF ListFiles, collecting, vars, zabbix, result, output, FileType
  <2>2. Queue(pending') /\ Increasing(pending')
    BY <1>1, <2>1 DEF Queue, Increasing, Has
  <2>3. ASSUME NEW e \in Entity
        PROVE  /\ table'[e] <= version'[e] /\ UpTo(pending', e, version'[e])
               /\ copies'[e] > 0 => table'[e] <= detail'[e] /\ UpTo(pending', e, detail'[e])
               /\ From(pending', e, table'[e])
    BY <1>1, <2>1 DEF Ages, UpTo, From, Has
  <2>4. Queue(pending)' /\ Increasing(pending)'
    BY <2>2 DEF Queue, Increasing, Has
  <2>. QED BY <1>1, <1>2, <1>4, <2>1, <2>3, <2>4 DEF CalmInv
<1>11. ASSUME NEW i \in DOMAIN pending, TakeFile(i)
       PROVE  CalmInv' /\ \A e \in Entity : table[e] <= table'[e]
  BY <1>11, TakenInTurn
<1>12. CASE UNCHANGED all
  <2>1. UNCHANGED <<kind, pending, table, version, copies, detail>>
    BY <1>12 DEF all, vars, zabbix, result, output, stored
  <2>. QED BY <1>1, <1>2, <1>4, <1>5, <2>1 DEF CalmInv, Ages
<1>. QED BY <1>3, <1>6, <1>7, <1>8, <1>9, <1>10, <1>11, <1>12
         DEF Step, Writer, FetchFails, WriteFails, TakeFails, Kinds

(* As long as nothing fails and all runs are scheduled, no upsert takes a  *)
(* row back to an older state of its host: for any number of hosts and     *)
(* changes of them, any number of files that wait, and a file read before  *)
(* it was closed.                                                          *)
THEOREM RowsNeverGetOlder == InventorySpec => RowsGetNewer
<1>1. ASSUME Ground, QuietInv, [Step]_all
      PROVE  /\ QuietInv'
             /\ faults' = 0 /\ ~manuals' => \A e \in Entity : table[e] <= table'[e]
  <2>. SUFFICES ASSUME faults' = 0, ~manuals'
                PROVE  CalmInv' /\ \A e \in Entity : table[e] <= table'[e]
    BY DEF QuietInv
  <2>1. faults \in Nat /\ manuals \in BOOLEAN
    BY <1>1, InventoryAssumption DEF Ground, StoreInv
  <2>2. faults = 0 /\ ~manuals
    <3>1. faults' = faults \/ Fault
      BY <1>1 DEF Step, Change, Fetch, FetchFails, OpenFile, CloseFile, WriteFails, GiveUp,
                  Writer, ListFiles, TakeFile, TakeFails, all
    <3>2. manuals => manuals'
      <4>1. ASSUME NEW k, NEW files, StartRun(k, files) PROVE manuals => manuals'
        BY <4>1 DEF StartRun
      <4>2. UNCHANGED output => (manuals => manuals')
        BY DEF output
      <4>. QED BY <1>1, <4>1, <4>2
               DEF Step, Change, Fetch, FetchFails, OpenFile, CloseFile, WriteFails, GiveUp,
                   Writer, ListFiles, TakeFile, TakeFails, collecting, all
    <3>3. faults = 0
      BY <2>1, <3>1 DEF Fault
    <3>. QED BY <3>2, <3>3
  <2>3. CalmInv
    BY <1>1, <2>2 DEF QuietInv
  <2>. QED BY <1>1, <2>3, QuietNext
<1>. QED BY <1>1, GroundHolds, QuietInit, PTL DEF InventorySpec, RowsGetNewer
=============================================================================
