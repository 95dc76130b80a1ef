--------------------------- MODULE ObmShapingProofs ---------------------------
(***************************************************************************)
(* Nothing of records posted to the contract gets lost on the way to the   *)
(* staging files, nothing gets into them that was not posted, and all      *)
(* files of a table have the columns of its schema: for every mapping,     *)
(* bodies of any length, and any number of requests.                       *)
(***************************************************************************)
EXTENDS ObmShaping, SequenceTheorems, TLAPS

(* Types of a normalized record and of a row of a file.                    *)
Metrics    == UNION {[D -> Metric] : D \in SUBSET Columns}
NormalType == [of : Nat, class : Class, table : Table \cup {None}, common : SUBSET Common,
               metrics : Metrics, extra : SUBSET Metric]
Cells      == UNION {[D -> Common \cup Metric \cup {None}] : D \in SUBSET (Common \cup Columns)}
RowType    == [of : Nat, row : [cells : Cells, extra : SUBSET Metric]]

-----------------------------------------------------------------------------
(* The operators.                                                          *)

LEMMA BodyType ==
  ASSUME NEW p \in Payload
  PROVE  /\ Body(p) \in Seq(Record \cup {Junk}) /\ Len(Body(p)) \in Nat
         /\ DOMAIN Body(p) = 1..Len(Body(p))
         /\ \A n \in 1..Len(Body(p)) : Body(p)[n] # Junk => Body(p)[n] \in Record
<1>1. p.items \in Seq(Record \cup {Junk})
  BY PayloadAssumption
<1>2. CASE p.shape = "single" /\ p.items[1].wrapper = "data"
  <2>1. p.items[1] \in Record
    BY <1>2, PayloadAssumption
  <2>2. Unwrapped(p.items[1]) \in Record
    BY <2>1 DEF Unwrapped, Record
  <2>3. Body(p) = <<Unwrapped(p.items[1])>>
    BY <1>2 DEF Body
  <2>. QED BY <2>2, <2>3
<1>3. CASE ~(p.shape = "single" /\ p.items[1].wrapper = "data")
  <2>1. Body(p) = p.items
    BY <1>3 DEF Body
  <2>. QED BY <1>1, <2>1, ElementOfSeq, LenProperties
<1>. QED BY <1>2, <1>3

LEMMA PairsType == ASSUME NEW r \in Record PROVE Pairs(r) \subseteq Metric /\ r.common \subseteq Common
BY DEF Pairs, Record

LEMMA DetectedType == ASSUME NEW r \in Record PROVE Detected(r) \subseteq Class
BY DEF Detected, Record, Class, Spelling

(* What is mapped can be read back from its column.                        *)
LEMMA MappedBack ==
  ASSUME NEW r \in Record, NEW c
  PROVE  /\ DOMAIN Mapped(r, c) = {MetricMap[c][m] : m \in Known(r, c)}
         /\ \A m \in Known(r, c) : Mapped(r, c)[MetricMap[c][m]] = m /\ m \in DOMAIN MetricMap[c]
         /\ \A col \in DOMAIN Mapped(r, c) : Mapped(r, c)[col] \in Known(r, c)
         /\ Mapped(r, c) \in Metrics
<1>1. \A m \in Known(r, c) : m \in DOMAIN MetricMap[c] /\ m \in Metric /\ c \in DOMAIN MetricMap
  BY PairsType DEF Known
<1>2. DOMAIN Mapped(r, c) = {MetricMap[c][m] : m \in Known(r, c)}
  BY DEF Mapped
<1>3. ASSUME NEW m \in Known(r, c) PROVE Mapped(r, c)[MetricMap[c][m]] = m
  <2>1. \A n \in Known(r, c) : MetricMap[c][n] = MetricMap[c][m] => n = m
    BY <1>1, MappingAssumption
  <2>2. (CHOOSE n \in Known(r, c) : MetricMap[c][n] = MetricMap[c][m]) = m
    BY <2>1
  <2>. QED BY <2>2 DEF Mapped
<1>4. \A col \in DOMAIN Mapped(r, c) : Mapped(r, c)[col] \in Known(r, c)
  BY <1>2, <1>3
<1>5. Mapped(r, c) \in Metrics
  <2>1. DOMAIN Mapped(r, c) \in SUBSET Columns
    BY <1>1, <1>2 DEF Columns
  <2>2. \A col \in DOMAIN Mapped(r, c) : Mapped(r, c)[col] \in Metric
    BY <1>1, <1>4
  <2>3. Mapped(r, c) = [col \in DOMAIN Mapped(r, c) |-> Mapped(r, c)[col]]
    BY DEF Mapped
  <2>4. Mapped(r, c) \in [DOMAIN Mapped(r, c) -> Metric]
    BY <2>2, <2>3
  <2>. QED BY <2>1, <2>4 DEF Metrics
<1>. QED BY <1>1, <1>2, <1>3, <1>4, <1>5

LEMMA NormalizedType ==
  ASSUME NEW r \in Record, NEW c \in Class, NEW n \in Nat
  PROVE  Normalized(r, c, n) \in NormalType
BY PairsType, MappedBack DEF Normalized, NormalType, TargetTable, Table

LEMMA ColumnsType ==
  ASSUME NEW t PROVE Common \subseteq TableColumns(t) /\ TableColumns(t) \subseteq Common \cup Columns
BY MappingAssumption DEF TableColumns, Columns

LEMMA RowForType ==
  ASSUME NEW r \in NormalType, NEW t
  PROVE  /\ RowFor(r, ColumnsFor(t)) \in [cells : Cells, extra : SUBSET Metric]
         /\ DOMAIN RowFor(r, ColumnsFor(t)).cells = TableColumns(t)
<1> DEFINE D == TableColumns(t)
           cells == [col \in D |-> IF col \in DOMAIN r.metrics THEN r.metrics[col]
                                   ELSE IF col \in r.common THEN col ELSE None]
<1>1. D \in SUBSET (Common \cup Columns)
  BY ColumnsType
<1>2. r.metrics \in Metrics /\ r.common \subseteq Common /\ r.extra \subseteq Metric
  BY DEF NormalType
<1>3. \A col \in DOMAIN r.metrics : r.metrics[col] \in Metric
  BY <1>2 DEF Metrics
<1>4. cells \in [D -> Common \cup Metric \cup {None}]
  BY <1>2, <1>3
<1>5. cells \in Cells /\ DOMAIN cells = D
  BY <1>1, <1>4 DEF Cells
<1>6. RowFor(r, ColumnsFor(t)) = [cells |-> cells, extra |-> r.extra]
  BY DEF RowFor, ColumnsFor
<1>. HIDE DEF cells
<1>. QED BY <1>2, <1>5, <1>6

(* A row holds all that was extracted from its record.                     *)
LEMMA RowHolds ==
  ASSUME NEW r \in Record, NEW c \in Class, NEW n, TargetTable(c) # None
  PROVE  LET row    == RowFor(Normalized(r, c, n), ColumnsFor(TargetTable(c)))
             filled == {row.cells[col] : col \in DOMAIN row.cells} \ {None}
         IN  filled \cup row.extra = r.common \cup Pairs(r) /\ filled \cap row.extra = {}
<1> DEFINE t == TargetTable(c)
           D == TableColumns(t)
           cells == [col \in D |-> IF col \in DOMAIN Mapped(r, c) THEN Mapped(r, c)[col]
                                   ELSE IF col \in r.common THEN col ELSE None]
           values == {cells[col] : col \in D} \ {None}
           extra == Pairs(r) \ Known(r, c)
<1>1. c \in DOMAIN TableOf /\ t = TableOf[c] /\ c \in DOMAIN MetricMap
  BY MappingAssumption DEF TargetTable
<1>2. RowFor(Normalized(r, c, n), ColumnsFor(t)) = [cells |-> cells, extra |-> extra]
  BY DEF RowFor, ColumnsFor, Normalized
<1>0. /\ DOMAIN Mapped(r, c) = {MetricMap[c][m] : m \in Known(r, c)}
      /\ \A m \in Known(r, c) : Mapped(r, c)[MetricMap[c][m]] = m /\ m \in DOMAIN MetricMap[c]
      /\ \A col \in DOMAIN Mapped(r, c) : Mapped(r, c)[col] \in Known(r, c)
  BY MappedBack
<1>3. r.common \subseteq Common /\ Pairs(r) \subseteq Metric /\ Known(r, c) \subseteq Pairs(r)
  BY PairsType DEF Known
<1>4. DOMAIN Mapped(r, c) \subseteq D /\ r.common \subseteq D
  <2>1. r.common \subseteq D
    BY <1>3, ColumnsType
  <2>2. \A m \in Known(r, c) : MetricMap[c][m] \in D
    BY <1>1, <1>0 DEF TableColumns
  <2>. QED BY <2>1, <2>2, <1>0
<1>5. DOMAIN Mapped(r, c) \cap Common = {}
  <2>1. DOMAIN Mapped(r, c) \subseteq Columns
    BY <1>1, <1>0 DEF Columns
  <2>. QED BY <2>1, MappingAssumption
<1>6. values = r.common \cup Known(r, c)
  <2>1. ASSUME NEW v \in r.common PROVE v \in values
    <3>1. v \in D /\ v \notin DOMAIN Mapped(r, c) /\ v # None
      BY <1>3, <1>4, <1>5, KeyAssumption
    <3>2. cells[v] = v
      BY <3>1
    <3>. QED BY <3>1, <3>2
  <2>2. ASSUME NEW v \in Known(r, c) PROVE v \in values
    <3>1. MetricMap[c][v] \in DOMAIN Mapped(r, c) /\ Mapped(r, c)[MetricMap[c][v]] = v
      BY <1>0
    <3>2. MetricMap[c][v] \in D /\ cells[MetricMap[c][v]] = v
      BY <1>4, <3>1
    <3>3. v # None
      BY <1>3, KeyAssumption
    <3>. QED BY <3>2, <3>3
  <2>3. ASSUME NEW v \in values PROVE v \in r.common \cup Known(r, c)
    <3>1. PICK col \in D : v = cells[col]
      OBVIOUS
    <3>2. CASE col \in DOMAIN Mapped(r, c)
      <4>1. v = Mapped(r, c)[col]
        BY <3>1, <3>2
      <4>. QED BY <3>2, <4>1, <1>0
    <3>3. CASE col \notin DOMAIN Mapped(r, c)
      BY <3>1, <3>3
    <3>. QED BY <3>2, <3>3
  <2>. QED BY <2>1, <2>2, <2>3
<1>7. values \cup extra = r.common \cup Pairs(r) /\ values \cap extra = {}
  BY <1>3, <1>6, KeyAssumption
<1>8. DOMAIN cells = D
  OBVIOUS
<1>. HIDE DEF cells, extra
<1>. QED BY <1>2, <1>7, <1>8

(* What an element of the body has to do with the object that was posted.  *)
LEMMA AsPosted ==
  ASSUME payload \in Payload
  PROVE  /\ DOMAIN payload.items = DOMAIN Body(payload)
         /\ \A n \in DOMAIN Body(payload) :
              /\ Element(n) = Junk <=> Posted(n) = Junk
              /\ ~Mistaken(n) => Element(n) = Posted(n)
              /\ Mistaken(n) => Element(n) = Unwrapped(Posted(n)) /\ Posted(n) \in Record
<1>1. payload.items \in Seq(Record \cup {Junk})
  BY PayloadAssumption
<1>2. CASE payload.shape = "single" /\ payload.items[1].wrapper = "data"
  <2>1. payload.items[1] \in Record /\ Len(payload.items) = 1
    BY <1>2, PayloadAssumption
  <2>2. Unwrapped(payload.items[1]) \in Record
    BY <2>1 DEF Unwrapped, Record
  <2>3. Body(payload) = <<Unwrapped(payload.items[1])>>
    BY <1>2 DEF Body
  <2>4. DOMAIN payload.items = {1} /\ DOMAIN Body(payload) = {1}
    BY <1>1, <2>1, <2>3, LenProperties
  <2>5. Element(1) = Unwrapped(Posted(1)) /\ Posted(1) = payload.items[1] /\ Mistaken(1)
    BY <1>2, <2>3 DEF Element, Posted, Mistaken
  <2>6. Element(1) # Junk /\ Posted(1) # Junk
    BY <2>1, <2>2, <2>5, KeyAssumption
  <2>. QED BY <2>1, <2>4, <2>5, <2>6
<1>3. CASE ~(payload.shape = "single" /\ payload.items[1].wrapper = "data")
  <2>1. Body(payload) = payload.items
    BY <1>3 DEF Body
  <2>2. ASSUME NEW n \in DOMAIN Body(payload) PROVE ~Mistaken(n) /\ Element(n) = Posted(n)
    <3>1. payload.shape = "single" => n = 1
      BY <1>1, <2>1, PayloadAssumption, LenProperties
    <3>. QED BY <1>3, <2>1, <3>1 DEF Mistaken, Posted, Element
  <2>. QED BY <2>1, <2>2
<1>. QED BY <1>2, <1>3

(* The code extracts metrics that were posted, all of them if they are in  *)
(* one place, and detects the class they point to.                         *)
LEMMA Extracted ==
  ASSUME NEW r \in Record
  PROVE  /\ Pairs(r) \subseteq MetricsOf(r)
         /\ InOnePlace(r) => Pairs(r) = MetricsOf(r)
         /\ ~InOnePlace(r) => Pairs(r) = r.inner
         /\ InOnePlace(r) \/ r.class # None => Detected(r) \subseteq ClassesOf(r)
         /\ Pairs(Unwrapped(r)) \subseteq r.inner /\ Unwrapped(r).common = {}
<1>1. Pairs(r) \subseteq MetricsOf(r) /\ (~InOnePlace(r) => Pairs(r) = r.inner)
  BY DEF Pairs, MetricsOf, InOnePlace
<1>2. InOnePlace(r) => Pairs(r) = MetricsOf(r)
  BY DEF Pairs, MetricsOf, InOnePlace
<1>3. CASE r.class # None
  BY <1>1, <1>2, <1>3 DEF Detected, ClassesOf, Pairs, Unwrapped
<1>4. CASE r.class = None
  <2>1. ASSUME InOnePlace(r) PROVE Detected(r) \subseteq ClassesOf(r)
    <3>1. \A c \in Class : Votes(r, c) = Count(r, c)
      BY <1>2, <2>1 DEF Votes, Count
    <3>2. "UNKNOWN" \in Class
      BY DEF Class
    <3>. QED BY <1>4, <3>1, <3>2 DEF Detected, ClassesOf
  <2>. QED BY <1>1, <1>2, <1>4, <2>1 DEF Pairs, Unwrapped
<1>. QED BY <1>3, <1>4

(* A row made from an element of the body holds what was posted.           *)
LEMMA RowHoldsPosted ==
  ASSUME payload \in Payload, NEW n \in DOMAIN Body(payload), Element(n) # Junk,
         NEW c \in Class, TargetTable(c) # None
  PROVE  Holds(RowFor(Normalized(Element(n), c, n), ColumnsFor(TargetTable(c))), n)
<1> DEFINE row    == RowFor(Normalized(Element(n), c, n), ColumnsFor(TargetTable(c)))
           filled == {row.cells[col] : col \in DOMAIN row.cells} \ {None}
<1>1. Element(n) \in Record
  BY BodyType DEF Element
<1>2. /\ filled \cup row.extra = Element(n).common \cup Pairs(Element(n))
      /\ filled \cap row.extra = {}
  BY <1>1, RowHolds
<1>. SUFFICES Holds(row, n)
  OBVIOUS
<1>. HIDE DEF row
<1>3. CASE Mistaken(n)
  <2>1. Posted(n).wrapper = "data" /\ Element(n) = Unwrapped(Posted(n)) /\ Posted(n) \in Record
    BY <1>3, AsPosted DEF Mistaken
  <2>2. Pairs(Element(n)) \subseteq MetricsOf(Posted(n)) /\ Element(n).common = {}
    BY <2>1, Extracted DEF MetricsOf
  <2>. QED BY <1>2, <1>3, <2>2 DEF Holds
<1>4. CASE ~Mistaken(n)
  <2>1. Element(n) = Posted(n) /\ Posted(n) \in Record
    BY <1>1, <1>4, AsPosted
  <2>2. /\ Pairs(Element(n)) \subseteq MetricsOf(Posted(n)) /\ Element(n).common = Posted(n).common
        /\ (IF InOnePlace(Posted(n)) THEN MetricsOf(Posted(n)) ELSE Posted(n).inner)
             = Pairs(Element(n))
    BY <2>1, Extracted
  <2>. QED BY <1>2, <2>2 DEF Holds
<1>. QED BY <1>3, <1>4

-----------------------------------------------------------------------------
(* The invariant.  Records come from the body in its order, one from every *)
(* element reached that is an object; rows come from the records grouped   *)
(* so far in their order, one from every record that has a table.          *)
Types ==
  /\ pc \in {"idle", "normalize", "shape"} /\ payload \in Payload \cup {None}
  /\ payload = None => pc = "idle" /\ reached = 0
  /\ reached \in Nat /\ grouped \in Nat /\ requests \in 0..MaxRequests
  /\ records \in Seq(NormalType) /\ files \in [Table -> Seq(RowType)]

FromBody(r, body, n) == /\ r.of \in 1..n /\ body[r.of] # Junk
                        /\ \E c \in Detected(body[r.of]) : r = Normalized(body[r.of], c, r.of)

NormalizeInv ==
  /\ Len(records) <= reached
  /\ payload # None => reached <= Len(Body(payload))
  /\ payload # None /\ pc # "normalize" => reached = Len(Body(payload))
  /\ \A i \in 1..Len(records) : FromBody(records[i], Body(payload), reached)
  /\ \A i, j \in 1..Len(records) : i < j => records[i].of < records[j].of
  /\ \A n \in 1..reached : Element(n) # Junk => \E i \in 1..Len(records) : records[i].of = n

RowOf(r) == [of |-> r.of, row |-> RowFor(r, ColumnsFor(r.table))]

GroupInv ==
  /\ grouped <= Len(records)
  /\ pc = "normalize" => grouped = 0
  /\ pc = "idle" => grouped = Len(records)
  /\ \A t \in Table : \A k \in 1..Len(files[t]) :
       \E i \in 1..grouped : records[i].table = t /\ files[t][k] = RowOf(records[i])
  /\ \A t \in Table : \A k, l \in 1..Len(files[t]) : k < l => files[t][k].of < files[t][l].of
  /\ \A i \in 1..grouped : records[i].table # None => Staged(records[i].of, records[i].table)

OfItsSchema ==
  /\ published \subseteq Table \X SUBSET (Common \cup Columns)
  /\ \A x \in published : x[2] = TableColumns(x[1])

IInv == Types /\ NormalizeInv /\ GroupInv /\ OfItsSchema

-----------------------------------------------------------------------------
(* What a step leaves alone of it.                                         *)
LEMMA FilesDomain == ASSUME Types, NEW t \in Table
                     PROVE  Len(files[t]) \in Nat /\ DOMAIN files[t] = 1..Len(files[t])
<1>1. files[t] \in Seq(RowType)
  BY DEF Types
<1>. QED BY <1>1, LenProperties

LEMMA RecordsDomain ==
  ASSUME Types
  PROVE  /\ Len(records) \in Nat /\ DOMAIN records = 1..Len(records)
         /\ \A i \in 1..Len(records) : records[i] \in NormalType
<1>1. records \in Seq(NormalType)
  BY DEF Types
<1>. QED BY <1>1, LenProperties, ElementOfSeq

LEMMA InvInit == Init => IInv
<1>. SUFFICES ASSUME Init PROVE IInv
  OBVIOUS
<1>1. records = <<>> /\ Len(records) = 0 /\ files = NoFiles /\ reached = 0 /\ grouped = 0
  BY EmptySeq DEF Init
<1>2. files \in [Table -> Seq(RowType)] /\ \A t \in Table : files[t] = <<>> /\ Len(files[t]) = 0
  BY <1>1, EmptySeq DEF NoFiles
<1>3. Types
  BY <1>1, <1>2, PayloadAssumption, EmptySeq DEF Init, Types
<1>4. NormalizeInv
  BY <1>1 DEF Init, NormalizeInv
<1>5. GroupInv
  BY <1>1, <1>2 DEF Init, GroupInv
<1>6. OfItsSchema
  BY DEF Init, OfItsSchema
<1>. QED BY <1>3, <1>4, <1>5, <1>6 DEF IInv

LEMMA PostInv == ASSUME IInv, NEW p \in Payload, Post(p) PROVE IInv'
<1>1. records' = <<>> /\ Len(records') = 0 /\ files' = NoFiles /\ reached' = 0 /\ grouped' = 0
  BY EmptySeq DEF Post
<1>2. files' \in [Table -> Seq(RowType)] /\ \A t \in Table : files'[t] = <<>> /\ Len(files'[t]) = 0
  BY <1>1, EmptySeq DEF NoFiles
<1>3. Types'
  <2>1. requests' \in 0..MaxRequests
    BY PayloadAssumption DEF Post, IInv, Types
  <2>2. payload' \in Payload /\ payload' # None /\ pc' = "normalize"
    BY PayloadAssumption DEF Post
  <2>. QED BY <1>1, <1>2, <2>1, <2>2, EmptySeq DEF Types
<1>4. NormalizeInv'
  <2>1. payload' \in Payload /\ pc' = "normalize"
    BY DEF Post
  <2>2. Len(Body(payload')) \in Nat
    BY <2>1, BodyType
  <2>. QED BY <1>1, <2>1, <2>2 DEF NormalizeInv, FromBody, Element
<1>5. GroupInv'
  BY <1>1, <1>2 DEF GroupInv, Post
<1>6. OfItsSchema'
  BY DEF Post, OfItsSchema, IInv
<1>. QED BY <1>3, <1>4, <1>5, <1>6 DEF IInv

LEMMA SkipInv == ASSUME IInv, SkipElement PROVE IInv'
<1>0. /\ pc = "normalize" /\ pc' = pc /\ payload' = payload /\ payload \in Payload /\ payload # None
      /\ records' = records /\ files' = files /\ grouped' = grouped /\ reached' = reached + 1
      /\ reached \in Nat /\ reached < Len(Body(payload)) /\ Len(records) \in Nat
      /\ Len(Body(payload)) \in Nat /\ Element(reached + 1) = Junk
  BY BodyType, RecordsDomain DEF IInv, Types, SkipElement
<1>1. Types'
  BY <1>0 DEF IInv, Types, SkipElement
<1>2. NormalizeInv'
  <2>1. \A n : Element(n)' = Element(n)
    BY <1>0 DEF Element
  <2>2. \A r : FromBody(r, Body(payload), reached) => FromBody(r, Body(payload), reached + 1)
    BY <1>0 DEF FromBody
  <2>3. \A n \in 1..reached' : n \in 1..reached \/ n = reached + 1
    BY <1>0
  <2>. QED BY <1>0, <2>1, <2>2, <2>3 DEF IInv, NormalizeInv
<1>3. GroupInv'
  BY <1>0 DEF IInv, GroupInv, Staged
<1>4. OfItsSchema'
  BY DEF IInv, OfItsSchema, SkipElement
<1>. QED BY <1>1, <1>2, <1>3, <1>4 DEF IInv

LEMMA NormalizeRecordInv == ASSUME IInv, NormalizeRecord PROVE IInv'
<1> DEFINE e == Element(reached + 1)
<1>0. /\ pc = "normalize" /\ pc' = pc /\ payload' = payload /\ payload \in Payload /\ payload # None
      /\ files' = files /\ grouped' = grouped /\ reached' = reached + 1
      /\ reached \in Nat /\ reached < Len(Body(payload)) /\ Len(records) \in Nat
      /\ Len(Body(payload)) \in Nat /\ e # Junk /\ grouped = 0
  BY BodyType, RecordsDomain DEF IInv, Types, GroupInv, NormalizeRecord
<1>a. e \in Record
  BY <1>0, BodyType DEF Element
<1>b. PICK c \in Detected(e) : records' = Append(records, Normalized(e, c, reached + 1))
  BY DEF NormalizeRecord
<1> DEFINE new == Normalized(e, c, reached + 1)
<1>c. new \in NormalType
  BY <1>0, <1>a, <1>b, NormalizedType, DetectedType
<1>d. new.of = reached + 1
  BY DEF Normalized
<1>e. /\ records' \in Seq(NormalType) /\ Len(records') = Len(records) + 1
      /\ \A i \in 1..Len(records) : records'[i] = records[i]
      /\ records'[Len(records) + 1] = new
  <2>1. records \in Seq(NormalType)
    BY DEF IInv, Types
  <2>2. records' = Append(records, new)
    BY <1>b
  <2>. HIDE DEF new
  <2>. QED BY <2>1, <2>2, <1>c, AppendProperties
<1>1. Types'
  BY <1>0, <1>e DEF IInv, Types, NormalizeRecord
<1>2. NormalizeInv'
  <2>1. \A n : Element(n)' = Element(n)
    BY <1>0 DEF Element
  <2>2. \A r : FromBody(r, Body(payload), reached) => FromBody(r, Body(payload), reached + 1)
    BY <1>0 DEF FromBody
  <2>3. FromBody(new, Body(payload), reached + 1)
    BY <1>0, <1>b, <1>d DEF FromBody, Element
  <2>. HIDE DEF new, e
  <2>4. \A i \in 1..Len(records') : i \in 1..Len(records) \/ i = Len(records) + 1
    BY <1>0, <1>e
  <2>5. \A i \in 1..Len(records) : /\ FromBody(records[i], Body(payload), reached)
                                  /\ records[i].of < reached + 1
    BY <1>0 DEF IInv, NormalizeInv, FromBody
  <2>6. \A i \in 1..Len(records') : FromBody(records'[i], Body(payload'), reached')
    BY <1>0, <1>e, <2>2, <2>3, <2>4, <2>5
  <2>7. \A i, j \in 1..Len(records') : i < j => records'[i].of < records'[j].of
    <3>. SUFFICES ASSUME NEW i \in 1..Len(records'), NEW j \in 1..Len(records'), i < j
                  PROVE  records'[i].of < records'[j].of
      OBVIOUS
    <3>1. i \in 1..Len(records)
      BY <1>0, <1>e
    <3>2. CASE j \in 1..Len(records)
      BY <3>1, <3>2, <1>e DEF IInv, NormalizeInv
    <3>3. CASE j = Len(records) + 1
      BY <3>1, <3>3, <1>d, <1>e, <2>5
    <3>. QED BY <2>4, <3>2, <3>3
  <2>8. \A n \in 1..reached' : Element(n)' # Junk => \E i \in 1..Len(records') : records'[i].of = n
    <3>. SUFFICES ASSUME NEW n \in 1..reached', Element(n) # Junk
                  PROVE  \E i \in 1..Len(records') : records'[i].of = n
      BY <2>1
    <3>1. CASE n = reached + 1
      <4>1. Len(records) + 1 \in 1..Len(records')
        BY <1>0, <1>e
      <4>. QED BY <3>1, <4>1, <1>d, <1>e
    <3>2. CASE n \in 1..reached
      <4>1. PICK i \in 1..Len(records) : records[i].of = n
        BY <3>2 DEF IInv, NormalizeInv
      <4>2. i \in 1..Len(records') /\ records'[i] = records[i]
        BY <1>0, <1>e
      <4>. QED BY <4>1, <4>2
    <3>. QED BY <1>0, <3>1, <3>2
  <2>9. Len(records') <= reached' /\ reached' <= Len(Body(payload'))
    BY <1>0, <1>e DEF IInv, NormalizeInv
  <2>. QED BY <1>0, <2>6, <2>7, <2>8, <2>9 DEF NormalizeInv
<1>3. GroupInv'
  <2>1. 1..grouped = {} /\ grouped <= Len(records')
    BY <1>0, <1>e
  <2>2. grouped' = grouped /\ files' = files /\ pc' = "normalize" /\ grouped' = 0
    BY <1>0
  <2>. HIDE DEF new, e
  <2>. QED BY <2>1, <2>2 DEF IInv, GroupInv
<1>4. OfItsSchema'
  BY DEF IInv, OfItsSchema, NormalizeRecord
<1>. QED BY <1>1, <1>2, <1>3, <1>4 DEF IInv

LEMMA ShapingInv == ASSUME IInv, Shaping PROVE IInv'
<1>1. /\ pc' = "shape" /\ payload' = payload /\ records' = records /\ files' = files
      /\ grouped' = grouped /\ reached' = reached /\ published' = published /\ requests' = requests
      /\ pc = "normalize" /\ reached = Len(Body(payload))
  BY DEF Shaping
<1>2. Types'
  BY <1>1 DEF IInv, Types
<1>3. NormalizeInv'
  BY <1>1 DEF IInv, NormalizeInv, FromBody, Element
<1>4. GroupInv'
  BY <1>1 DEF IInv, GroupInv, Staged
<1>. QED BY <1>1, <1>2, <1>3, <1>4 DEF IInv, OfItsSchema

LEMMA GroupRecordInv == ASSUME IInv, GroupRecord PROVE IInv'
<1> DEFINE r == records[grouped + 1]
           row == RowOf(r)
<1>0. /\ pc = "shape" /\ pc' = pc /\ payload' = payload /\ records' = records /\ reached' = reached
      /\ published' = published /\ requests' = requests
      /\ grouped' = grouped + 1 /\ grouped < Len(records) /\ grouped \in Nat /\ Len(records) \in Nat
      /\ files' = Grouped(grouped + 1)
  BY RecordsDomain DEF IInv, Types, GroupRecord
<1>a. r \in NormalType /\ grouped + 1 \in 1..Len(records)
  BY <1>0, RecordsDomain DEF IInv
<1>b. row \in RowType /\ row.of = r.of
  <2>1. RowFor(r, ColumnsFor(r.table)) \in [cells : Cells, extra : SUBSET Metric] /\ r.of \in Nat
    BY <1>a, RowForType DEF NormalType
  <2>. HIDE DEF r
  <2>. QED BY <2>1 DEF RowOf, RowType
<1>c. \A t \in Table : files[t] \in Seq(RowType) /\ Len(files[t]) \in Nat
  BY FilesDomain DEF IInv, Types
<1>d. /\ r.table = None => files' = files
      /\ r.table # None => /\ r.table \in Table
                           /\ files' = [files EXCEPT ![r.table] = Append(@, row)]
  <2>1. r.table \in Table \cup {None}
    BY <1>a DEF NormalType
  <2>. QED BY <1>0, <2>1 DEF Grouped, RowOf
<1>e. files \in [Table -> Seq(RowType)]
  BY DEF IInv, Types
<1>. HIDE DEF r, row
(* The file of the record's table is one row longer, the others stay.      *)
<1>f. ASSUME NEW t \in Table, t = r.table
      PROVE  /\ Len(files'[t]) = Len(files[t]) + 1 /\ files'[t] \in Seq(RowType)
             /\ files'[t][Len(files[t]) + 1] = row
             /\ \A k \in 1..Len(files[t]) : files'[t][k] = files[t][k]
  <2>1. files'[t] = Append(files[t], row)
    BY <1>d, <1>e, <1>f, KeyAssumption
  <2>. QED BY <1>b, <1>c, <2>1, AppendProperties
<1>g. ASSUME NEW t \in Table, t # r.table PROVE files'[t] = files[t]
  BY <1>d, <1>e, <1>g
<1>1. Types'
  <2>1. files' \in [Table -> Seq(RowType)]
    <3>1. DOMAIN files' = Table /\ files' = [t \in Table |-> files'[t]]
      BY <1>d, <1>e
    <3>2. \A t \in Table : files'[t] \in Seq(RowType)
      BY <1>c, <1>f, <1>g
    <3>. QED BY <3>1, <3>2
  <2>. QED BY <1>0, <2>1 DEF IInv, Types
<1>2. NormalizeInv'
  BY <1>0 DEF IInv, NormalizeInv, FromBody, Element
<1>3. GroupInv'
  <2>1. ASSUME NEW t \in Table, NEW k \in 1..Len(files[t])
        PROVE  /\ \E i \in 1..grouped : records[i].table = t /\ files[t][k] = RowOf(records[i])
               /\ files[t][k].of < r.of
    <3>1. PICK i \in 1..grouped : records[i].table = t /\ files[t][k] = RowOf(records[i])
      BY DEF IInv, GroupInv
    <3>2. files[t][k].of = records[i].of
      BY <3>1 DEF RowOf
    <3>3. i \in 1..Len(records) /\ i < grouped + 1
      BY <1>0
    <3>4. records[i].of < r.of
      BY <1>a, <3>3 DEF IInv, NormalizeInv, r
    <3>. QED BY <3>1, <3>2, <3>4
  <2>2. \A i \in 1..grouped : i \in 1..grouped'
    BY <1>0
  <2>3. grouped + 1 \in 1..grouped'
    BY <1>0
  <2>4. \A t \in Table : t = r.table =>
          \A k \in 1..Len(files'[t]) : k \in 1..Len(files[t]) \/ k = Len(files[t]) + 1
    BY <1>c, <1>f
  <2>5. ASSUME NEW t \in Table, NEW k \in 1..Len(files'[t])
        PROVE  \E i \in 1..grouped' : records'[i].table = t /\ files'[t][k] = RowOf(records'[i])
    <3>1. CASE t # r.table
      BY <1>0, <1>g, <2>1, <2>2, <3>1
    <3>2. CASE t = r.table /\ k \in 1..Len(files[t])
      <4>1. PICK i \in 1..grouped : records[i].table = t /\ files[t][k] = RowOf(records[i])
        BY <2>1, <3>2
      <4>2. files'[t][k] = files[t][k] /\ i \in 1..grouped' /\ records'[i] = records[i]
        BY <1>0, <1>f, <2>2, <3>2
      <4>. QED BY <4>1, <4>2
    <3>3. CASE t = r.table /\ k = Len(files[t]) + 1
      <4>1. files'[t][k] = row
        BY <1>f, <3>3
      <4>. QED BY <1>0, <2>3, <3>3, <4>1 DEF r, row
    <3>. QED BY <2>4, <3>1, <3>2, <3>3
  <2>6. ASSUME NEW t \in Table, NEW k \in 1..Len(files'[t]), NEW l \in 1..Len(files'[t]), k < l
        PROVE  files'[t][k].of < files'[t][l].of
    <3>1. CASE t # r.table
      BY <1>g, <2>6, <3>1 DEF IInv, GroupInv
    <3>2. CASE t = r.table /\ l \in 1..Len(files[t])
      <4>1. k \in 1..Len(files[t])
        BY <1>c, <2>6, <3>2
      <4>2. files'[t][k] = files[t][k] /\ files'[t][l] = files[t][l]
        BY <1>f, <3>2, <4>1
      <4>. QED BY <2>6, <3>2, <4>1, <4>2 DEF IInv, GroupInv
    <3>3. CASE t = r.table /\ l = Len(files[t]) + 1
      <4>1. k \in 1..Len(files[t])
        BY <1>c, <2>6, <3>3
      <4>2. files'[t][k] = files[t][k] /\ files'[t][l] = row
        BY <1>f, <3>3, <4>1
      <4>. QED BY <1>b, <2>1, <4>1, <4>2
    <3>. QED BY <2>4, <3>1, <3>2, <3>3
  <2>7. ASSUME NEW t \in Table, NEW n, Staged(n, t)
        PROVE  \E k \in DOMAIN files'[t] : files'[t][k].of = n
    <3>1. PICK k \in 1..Len(files[t]) : files[t][k].of = n
      BY <2>7, FilesDomain DEF Staged, IInv
    <3>2. k \in 1..Len(files'[t]) /\ files'[t][k] = files[t][k]
      BY <1>c, <1>f, <1>g
    <3>3. DOMAIN files'[t] = 1..Len(files'[t])
      BY <1>c, <1>f, <1>g, LenProperties
    <3>. QED BY <3>1, <3>2, <3>3
  <2>8. ASSUME r.table # None PROVE \E k \in DOMAIN files'[r.table] : files'[r.table][k].of = r.of
    <3>1. r.table \in Table
      BY <1>d, <2>8
    <3>2. /\ Len(files'[r.table]) = Len(files[r.table]) + 1 /\ files'[r.table] \in Seq(RowType)
          /\ files'[r.table][Len(files[r.table]) + 1] = row
      BY <1>f, <3>1
    <3>3. Len(files[r.table]) + 1 \in DOMAIN files'[r.table]
      BY <1>c, <3>1, <3>2, LenProperties
    <3>. QED BY <1>b, <3>2, <3>3
  <2>9. ASSUME NEW i \in 1..grouped', records'[i].table # None
        PROVE  \E k \in DOMAIN files'[records'[i].table] :
                 files'[records'[i].table][k].of = records'[i].of
    <3>0. records'[i] = records[i] /\ records[i].table # None
      BY <1>0, <2>9
    <3>1. CASE i \in 1..grouped
      <4>1. Staged(records[i].of, records[i].table)
        BY <3>0, <3>1 DEF IInv, GroupInv
      <4>2. records[i].table \in Table
        BY <1>0, <3>0, <3>1, RecordsDomain DEF IInv, NormalType
      <4>3. \E k \in DOMAIN files'[records[i].table] : files'[records[i].table][k].of = records[i].of
        BY <2>7, <4>1, <4>2
      <4>. QED BY <3>0, <4>3
    <3>2. CASE i = grouped + 1
      BY <2>8, <3>0, <3>2 DEF r
    <3>. QED BY <1>0, <3>1, <3>2
  <2>10. \A i \in 1..grouped' : records'[i].table # None => Staged(records[i].of, records[i].table)'
    BY <2>9 DEF Staged
  <2>11. grouped' <= Len(records') /\ pc' = "shape"
    BY <1>0
  <2>. QED BY <2>5, <2>6, <2>10, <2>11 DEF GroupInv
<1>. QED BY <1>0, <1>1, <1>2, <1>3 DEF IInv, OfItsSchema

(* Every row of a file has the columns of its table.                       *)
LEMMA ShapesOfTable ==
  ASSUME IInv, NEW t \in Table, NEW x \in Shapes(t)
  PROVE  x \in Table \X SUBSET (Common \cup Columns) /\ x[2] = TableColumns(x[1])
<1>1. PICK k \in 1..Len(files[t]) : x = <<t, DOMAIN files[t][k].row.cells>>
  BY FilesDomain DEF Shapes, IInv
<1>2. PICK i \in 1..grouped : records[i].table = t /\ files[t][k] = RowOf(records[i])
  BY DEF IInv, GroupInv
<1>3. records[i] \in NormalType
  BY <1>2, RecordsDomain DEF IInv, GroupInv, Types
<1>4. files[t][k].row = RowFor(records[i], ColumnsFor(t))
  BY <1>2 DEF RowOf
<1>5. DOMAIN files[t][k].row.cells = TableColumns(t)
  BY <1>3, <1>4, RowForType
<1>. QED BY <1>1, <1>5, ColumnsType

LEMMA BuildInv == ASSUME IInv, BuildStagingPayloads PROVE IInv'
<1>0. /\ pc = "shape" /\ pc' = "idle" /\ grouped = Len(records)
      /\ UNCHANGED <<payload, reached, records, grouped, files, requests>>
      /\ published' = published \cup UNION {Shapes(t) : t \in Table}
  BY DEF BuildStagingPayloads
<1>1. Types' /\ NormalizeInv' /\ GroupInv'
  BY <1>0 DEF IInv, Types, NormalizeInv, GroupInv, FromBody, Element, Staged
<1>2. OfItsSchema'
  BY <1>0, ShapesOfTable DEF IInv, OfItsSchema
<1>. QED BY <1>1, <1>2 DEF IInv

LEMMA InvNext == IInv /\ [Next]_vars => IInv'
<1>. SUFFICES ASSUME IInv, [Next]_vars PROVE IInv'
  OBVIOUS
<1>1. CASE UNCHANGED vars
  BY <1>1 DEF vars, IInv, Types, NormalizeInv, GroupInv, OfItsSchema, FromBody, Element, Staged
<1>2. CASE Next
  BY <1>2, PostInv, SkipInv, NormalizeRecordInv, ShapingInv, GroupRecordInv, BuildInv DEF Next
<1>. QED BY <1>1, <1>2

LEMMA Invariant == Spec => []IInv
BY InvInit, InvNext, PTL DEF Spec

-----------------------------------------------------------------------------
(* Every variable keeps to its type.                                       *)
THEOREM ShapingTypeCorrect == Spec => []TypeOK
<1>1. IInv => TypeOK
  <2>. SUFFICES ASSUME IInv PROVE TypeOK
    OBVIOUS
  <2>1. reached \in 0..IF payload = None THEN 0 ELSE Len(Body(payload))
    <3>1. payload # None => reached <= Len(Body(payload)) /\ Len(Body(payload)) \in Nat
      BY BodyType DEF IInv, Types, NormalizeInv
    <3>2. reached \in Nat /\ (payload = None => reached = 0)
      BY DEF IInv, Types
    <3>. QED BY <3>1, <3>2
  <2>2. Len(records) <= reached /\ grouped \in 0..Len(records)
    BY RecordsDomain DEF IInv, Types, NormalizeInv, GroupInv
  <2>3. ASSUME NEW i \in DOMAIN records
        PROVE  /\ records[i].of \in 1..reached
               /\ records[i].class \in Class /\ records[i].table \in Table \cup {None}
               /\ records[i].common \subseteq Common /\ records[i].extra \subseteq Metric
               /\ DOMAIN records[i].metrics \subseteq Columns
    <3>1. i \in 1..Len(records) /\ records[i] \in NormalType
      BY RecordsDomain DEF IInv
    <3>2. records[i].of \in 1..reached
      BY <3>1 DEF IInv, NormalizeInv, FromBody
    <3>. QED BY <3>1, <3>2 DEF NormalType, Metrics
  <2>. QED BY <2>1, <2>2, <2>3 DEF IInv, Types, OfItsSchema, TypeOK
<1>. QED BY <1>1, Invariant, PTL

(* Once its files are built, nothing of a record that keeps to the         *)
(* contract and is no single record under data is lost, and nothing is in  *)
(* them that the request did not hold: posted objects and rows are in      *)
(* correspondence, whatever the mapping and however long the body.         *)
THEOREM RecordsAreStaged == Spec => []EveryRecordStaged
<1>1. IInv => EveryRecordStaged
  <2>. SUFFICES ASSUME IInv, pc = "idle", payload # None
                PROVE  /\ \A n \in DOMAIN payload.items : Posted(n) # Junk =>
                            \E c \in Class :
                              /\ ~Mistaken(n) /\ (InOnePlace(Posted(n)) \/ Posted(n).class # None)
                                   => c \in ClassesOf(Posted(n))
                              /\ \A t \in Table : Staged(n, t) <=> t = TargetTable(c)
                       /\ \A t \in Table : \A k \in DOMAIN files[t] :
                            /\ files[t][k].of \in DOMAIN payload.items
                            /\ Posted(files[t][k].of) # Junk
                            /\ Holds(files[t][k].row, files[t][k].of)
                            /\ \A l \in DOMAIN files[t] : k < l =>
                                 files[t][k].of < files[t][l].of
    BY DEF EveryRecordStaged
  <2>0. /\ payload \in Payload /\ DOMAIN Body(payload) = 1..reached /\ grouped = Len(records)
        /\ \A n \in 1..reached : Element(n) # Junk => Element(n) \in Record
        /\ Len(records) \in Nat
    BY BodyType, RecordsDomain DEF IInv, Types, NormalizeInv, GroupInv, Element
  <2>1. ASSUME NEW n \in 1..reached, Element(n) # Junk
        PROVE  \E c \in Detected(Element(n)) : \A t \in Table : Staged(n, t) <=> t = TargetTable(c)
    <3>1. PICK i \in 1..Len(records) : records[i].of = n
      BY <2>1 DEF IInv, NormalizeInv
    <3>2. PICK c \in Detected(Element(n)) : records[i] = Normalized(Element(n), c, n)
      BY <3>1 DEF IInv, NormalizeInv, FromBody, Element
    <3>3. records[i].table = TargetTable(c)
      BY <3>2 DEF Normalized
    <3>4. ASSUME NEW t \in Table, t = TargetTable(c) PROVE Staged(n, t)
      <4>1. records[i].table = t /\ t # None
        BY <3>3, <3>4, KeyAssumption
      <4>. QED BY <2>0, <3>1, <4>1 DEF IInv, GroupInv
    <3>5. ASSUME NEW t \in Table, Staged(n, t) PROVE t = TargetTable(c)
      <4>1. PICK k \in 1..Len(files[t]) : files[t][k].of = n
        BY <3>5, FilesDomain DEF Staged, IInv
      <4>2. PICK j \in 1..grouped : records[j].table = t /\ files[t][k] = RowOf(records[j])
        BY DEF IInv, GroupInv
      <4>3. records[j].of = n
        BY <4>1, <4>2 DEF RowOf
      <4>4. i = j
        <5>1. j \in 1..Len(records) /\ n \in Nat
          BY <2>0, <2>1
        <5>2. ~(i < j) /\ ~(j < i)
          BY <3>1, <4>3, <5>1 DEF IInv, NormalizeInv
        <5>. QED BY <5>1, <5>2
      <4>. QED BY <3>3, <4>2, <4>4
    <3>. QED BY <3>4, <3>5
  <2>2. ASSUME NEW t \in Table, NEW k \in 1..Len(files[t])
        PROVE  /\ files[t][k].of \in 1..reached /\ Element(files[t][k].of) # Junk
               /\ Holds(files[t][k].row, files[t][k].of)
    <3>1. PICK i \in 1..Len(records) : records[i].table = t /\ files[t][k] = RowOf(records[i])
      BY <2>0 DEF IInv, GroupInv
    <3>2. PICK n \in 1..reached : n = records[i].of
      BY DEF IInv, NormalizeInv, FromBody
    <3>3. Element(n) # Junk /\ \E c \in Detected(Element(n)) : records[i] = Normalized(Element(n), c, n)
      BY <3>2 DEF IInv, NormalizeInv, FromBody, Element
    <3>4. PICK c \in Detected(Element(n)) : records[i] = Normalized(Element(n), c, n)
      BY <3>3
    <3>5. Element(n) \in Record /\ c \in Class
      BY <2>0, <3>3, DetectedType
    <3>6. TargetTable(c) = t /\ t # None
      BY <3>1, <3>4, KeyAssumption DEF Normalized
    <3>7. files[t][k].of = n /\ files[t][k].row = RowFor(records[i], ColumnsFor(t))
      BY <3>1, <3>2 DEF RowOf
    <3>8. n \in DOMAIN Body(payload)
      BY <2>0
    <3>. QED BY <2>0, <3>3, <3>4, <3>5, <3>6, <3>7, <3>8, RowHoldsPosted
  <2>3. ASSUME NEW n \in 1..reached, Posted(n) # Junk
        PROVE  \E c \in Class :
                 /\ ~Mistaken(n) /\ (InOnePlace(Posted(n)) \/ Posted(n).class # None)
                      => c \in ClassesOf(Posted(n))
                 /\ \A t \in Table : Staged(n, t) <=> t = TargetTable(c)
    <3>1. Element(n) # Junk /\ (~Mistaken(n) => Element(n) = Posted(n)) /\ Element(n) \in Record
      BY <2>0, <2>3, AsPosted
    <3>2. PICK c \in Detected(Element(n)) : \A t \in Table : Staged(n, t) <=> t = TargetTable(c)
      BY <2>1, <3>1
    <3>3. c \in Class
      BY <3>1, <3>2, DetectedType
    <3>4. ~Mistaken(n) /\ (InOnePlace(Posted(n)) \/ Posted(n).class # None) => c \in ClassesOf(Posted(n))
      BY <3>1, <3>2, Extracted
    <3>. QED BY <3>2, <3>3, <3>4
  <2>4. DOMAIN payload.items = 1..reached /\ \A n \in 1..reached : Posted(n) = Junk <=> Element(n) = Junk
    BY <2>0, AsPosted
  <2>5. ASSUME NEW t \in Table, NEW k \in DOMAIN files[t]
        PROVE  /\ files[t][k].of \in DOMAIN payload.items /\ Posted(files[t][k].of) # Junk
               /\ Holds(files[t][k].row, files[t][k].of)
    <3>1. k \in 1..Len(files[t])
      BY FilesDomain DEF IInv
    <3>. QED BY <2>2, <2>4, <3>1
  <2>6. \A t \in Table : \A k, l \in DOMAIN files[t] : k < l => files[t][k].of < files[t][l].of
    BY FilesDomain DEF IInv, GroupInv
  <2>. QED BY <2>3, <2>4, <2>5, <2>6
<1>. QED BY <1>1, Invariant, PTL

(* The columns of a table's files never change, from request to request.   *)
THEOREM ColumnsNeverChange == Spec => []SameColumns
<1>1. IInv => SameColumns
  BY DEF IInv, OfItsSchema, SameColumns
<1>. QED BY <1>1, Invariant, PTL
=============================================================================
