------------------------------ MODULE ObmShaping ------------------------------
(***************************************************************************)
(* From a posted OBM payload to staging files: the Normalizer              *)
(* (sources/obm_agent/normalization.py), record by record, and             *)
(* build_staging_payloads (sources/obm_agent/staging.py).                  *)
(*                                                                         *)
(* A record is reduced to its keys: the class it names, its identity       *)
(* fields, its metrics and where they are.  The value of a key is the key  *)
(* itself, so that a cell tells where its content comes from.  The meta    *)
(* columns, which every row has, are left out.                             *)
(***************************************************************************)
EXTENDS Naturals, FiniteSets, Sequences

CONSTANTS
  Payload,      \* what clients post: sets of the records below
  MaxRequests,  \* bound on the requests
  Common,       \* identity fields, by their normalized names
  Metric,       \* raw metric keys
  PrefixClass,  \* [Metric -> Class or None]: class_prefix_map
  Named,        \* [spelling -> class]: strip().upper() of a class field
  TableOf,      \* [known classes -> Table]: classes with class_table_map
  MetricMap,    \* [known classes -> [some Metric -> column]]: metric_map
  None, Junk    \* nothing; an element of a list that is no object

Spelling == DOMAIN Named
Table    == {TableOf[c] : c \in DOMAIN TableOf}
Columns  == UNION {{MetricMap[c][m] : m \in DOMAIN MetricMap[c]} : c \in DOMAIN MetricMap}
Class    == {Named[s] : s \in Spelling} \cup DOMAIN TableOf \cup {"UNKNOWN"}

(* wrapper: the key of the object that holds the metrics, if there is one. *)
Record   == [class: Spelling \cup {None}, common: SUBSET Common,
             wrapper: {"none", "metrics", "data"}, inner: SUBSET Metric, top: SUBSET Metric]
Shape    == {"single", "list", "envelope"}

(* The mapping gives every class of its own metrics different columns,     *)
(* different from the identity fields too.                                 *)
ASSUME MappingAssumption ==
  /\ DOMAIN MetricMap = DOMAIN TableOf /\ Columns \cap Common = {}
  /\ \A c \in DOMAIN MetricMap : \A m, n \in DOMAIN MetricMap[c] :
       m # n => MetricMap[c][m] # MetricMap[c][n]
ASSUME PayloadAssumption ==
  /\ None \notin Payload /\ MaxRequests \in Nat
  /\ \A p \in Payload : /\ p.shape \in Shape /\ p.items \in Seq(Record \cup {Junk})
                        /\ p.shape = "single" => Len(p.items) = 1 /\ p.items[1] \in Record

(* The keys are told apart, so that the cells can stand for them.          *)
ASSUME KeyAssumption == /\ Common \cap Metric = {} /\ None \notin Common \cup Metric \cup Table
                        /\ None \notin Spelling /\ Junk \notin Record

VARIABLES
  pc,        \* "idle", "normalize", "shape"
  payload,   \* the request's body, None before the first
  reached,   \* how many elements of it normalize has reached
  records,   \* results, each with the place of its element in the body
  grouped,   \* how many of them build_staging_payloads has reached
  files,     \* [Table -> Seq of rows, each with the place of its element]
  published, \* <<table, columns>> of every file so far
  requests   \* how many there were
vars == <<pc, payload, reached, records, grouped, files, published, requests>>

(* Slips in single spots of the code, not part of the specification: the   *)
(* columns of one class only, the columns the records happen to have, the  *)
(* class as it is spelt.                                                   *)
OneClass(t)   == LET c == CHOOSE d \in DOMAIN TableOf : TableOf[d] = t
                 IN  Common \cup {MetricMap[c][m] : m \in DOMAIN MetricMap[c]}
Discovered(t) == UNION {r.common \cup DOMAIN r.metrics : r \in {records[i] : i \in DOMAIN records}}
Verbatim(r)   == {IF r.class = None THEN "UNKNOWN" ELSE r.class}

-----------------------------------------------------------------------------
(* normalization.py                                                        *)

(* _iter_records on an object looks for "records", "data", ... before it   *)
(* takes the object for a record: an object under "data" is the record.    *)
Unwrapped(r) == [class |-> None, common |-> {}, wrapper |-> "none", inner |-> {}, top |-> r.inner]
Body(p)      == IF p.shape = "single" /\ p.items[1].wrapper = "data"
                THEN <<Unwrapped(p.items[1])>> ELSE p.items

(* The wrapper's content, or the top-level keys with a known prefix.       *)
Pairs(r) == IF r.wrapper # "none" THEN r.inner
            ELSE {m \in r.top : PrefixClass[m] # None}

(* The class named, else one that most metric keys have the prefix of; of  *)
(* several, the one met first in the body.                                 *)
Votes(r, c) == Cardinality({m \in Pairs(r) : PrefixClass[m] = c})
Detected(r) ==
  IF r.class # None THEN {Named[r.class]}
  ELSE IF \A c \in Class : Votes(r, c) = 0 THEN {"UNKNOWN"}
  ELSE {c \in Class : \A d \in Class : Votes(r, d) <= Votes(r, c)}

TargetTable(c) == IF c \in DOMAIN TableOf THEN TableOf[c] ELSE None

(* _map_metrics: what the class map knows gets its column, the rest is     *)
(* extra.                                                                  *)
Known(r, c)  == IF c \in DOMAIN MetricMap THEN Pairs(r) \cap DOMAIN MetricMap[c] ELSE {}
Mapped(r, c) == [col \in {MetricMap[c][m] : m \in Known(r, c)} |->
                   CHOOSE m \in Known(r, c) : MetricMap[c][m] = col]

Normalized(r, c, n) ==
  [of |-> n, class |-> c, table |-> TargetTable(c), common |-> r.common,
   metrics |-> Mapped(r, c), extra |-> Pairs(r) \ Known(r, c)]

-----------------------------------------------------------------------------
(* staging.py                                                              *)

(* _build_table_schemas: every class that targets the table contributes.   *)
TableColumns(t) == Common \cup UNION {{MetricMap[c][m] : m \in DOMAIN MetricMap[c]} :
                                        c \in {d \in DOMAIN TableOf : TableOf[d] = t}}

(* A target table always comes from the mapping, so the fallback           *)
(* _discover_columns is not reached.                                       *)
ColumnsFor(t) == TableColumns(t)

(* _row_for: metrics over common, projected on the columns.                *)
RowFor(r, columns) ==
  [cells |-> [col \in columns |-> IF col \in DOMAIN r.metrics THEN r.metrics[col]
                                  ELSE IF col \in r.common THEN col ELSE None],
   extra |-> r.extra]

-----------------------------------------------------------------------------
NoFiles == [t \in Table |-> <<>>]

Init == /\ pc = "idle" /\ payload = None /\ reached = 0 /\ records = <<>> /\ grouped = 0
        /\ files = NoFiles /\ published = {} /\ requests = 0

Post(p) ==
  /\ pc = "idle" /\ requests < MaxRequests
  /\ payload' = p /\ reached' = 0 /\ requests' = requests + 1
  /\ pc' = "normalize" /\ records' = <<>> /\ grouped' = 0 /\ files' = NoFiles
  /\ UNCHANGED published

Element(n) == Body(payload)[n]

(* Elements of a list that are no objects are passed over.                 *)
SkipElement ==
  /\ pc = "normalize" /\ reached < Len(Body(payload)) /\ Element(reached + 1) = Junk
  /\ reached' = reached + 1
  /\ UNCHANGED <<pc, payload, records, grouped, files, published, requests>>

NormalizeRecord ==
  /\ pc = "normalize" /\ reached < Len(Body(payload)) /\ Element(reached + 1) # Junk
  /\ \E c \in Detected(Element(reached + 1)) :
       records' = Append(records, Normalized(Element(reached + 1), c, reached + 1))
  /\ reached' = reached + 1
  /\ UNCHANGED <<pc, payload, grouped, files, published, requests>>

(* ingest hands the list to the sink once normalize has returned.          *)
Shaping ==
  /\ pc = "normalize" /\ reached = Len(Body(payload))
  /\ pc' = "shape"
  /\ UNCHANGED <<payload, reached, records, grouped, files, published, requests>>

(* by_table: one file per table, with its records in their order; those    *)
(* without a table are skipped.                                            *)
Grouped(n) == LET r == records[n]
              IN  IF r.table = None THEN files
                  ELSE [files EXCEPT ![r.table] =
                          Append(@, [of |-> r.of, row |-> RowFor(r, ColumnsFor(r.table))])]

GroupRecord ==
  /\ pc = "shape" /\ grouped < Len(records)
  /\ grouped' = grouped + 1 /\ files' = Grouped(grouped + 1)
  /\ UNCHANGED <<pc, payload, reached, records, published, requests>>

Shapes(t) == {<<t, DOMAIN files[t][k].row.cells>> : k \in DOMAIN files[t]}

BuildStagingPayloads ==
  /\ pc = "shape" /\ grouped = Len(records)
  /\ published' = published \cup UNION {Shapes(t) : t \in Table}
  /\ pc' = "idle"
  /\ UNCHANGED <<payload, reached, records, grouped, files, requests>>

Next == \/ (\E p \in Payload : Post(p)) \/ SkipElement \/ NormalizeRecord \/ Shaping
        \/ GroupRecord \/ BuildStagingPayloads

Spec == Init /\ [][Next]_vars

-----------------------------------------------------------------------------
(* Properties.                                                             *)

(* Every variable keeps to its type.                                       *)
TypeOK ==
  /\ pc \in {"idle", "normalize", "shape"} /\ payload \in Payload \cup {None}
  /\ reached \in 0..IF payload = None THEN 0 ELSE Len(Body(payload))
  /\ Len(records) <= reached /\ grouped \in 0..Len(records)
  /\ \A i \in DOMAIN records :
       LET r == records[i]
       IN  /\ r.of \in 1..reached /\ r.class \in Class /\ r.table \in Table \cup {None}
           /\ r.common \subseteq Common /\ r.extra \subseteq Metric
           /\ DOMAIN r.metrics \subseteq Columns
  /\ DOMAIN files = Table /\ published \subseteq Table \X SUBSET (Common \cup Columns)
  /\ requests \in 0..MaxRequests

(* A record as it was posted, its metrics wherever they are, and the class *)
(* it names or that most of them have the prefix of (API_CONTRACT.md).     *)
Posted(n)    == payload.items[n]
MetricsOf(r) == (IF r.wrapper = "none" THEN {} ELSE r.inner) \cup {m \in r.top : PrefixClass[m] # None}
Count(r, c)  == Cardinality({m \in MetricsOf(r) : PrefixClass[m] = c})
ClassesOf(r) == IF r.class # None THEN {Named[r.class]}
                ELSE {c \in Class : IF \A d \in Class : Count(r, d) = 0 THEN c = "UNKNOWN"
                                    ELSE \A d \in Class : Count(r, d) <= Count(r, c)}

(* The contract wants the metrics in a wrapper or at the top level, not in *)
(* both; a single record with them under data is taken for an envelope.    *)
InOnePlace(r) == r.wrapper = "none" \/ \A m \in r.top : PrefixClass[m] = None
Mistaken(n)   == payload.shape = "single" /\ Posted(n).wrapper = "data"

(* A row holds nothing but the identity fields and metrics of the record   *)
(* as posted, each in a column or in extra_metrics but not in both; and    *)
(* all of them, up to top-level metrics next to a wrapper, which are lost. *)
Holds(row, n) ==
  LET r      == Posted(n)
      filled == {row.cells[c] : c \in DOMAIN row.cells} \ {None}
  IN  /\ filled \cup row.extra \subseteq r.common \cup MetricsOf(r) /\ filled \cap row.extra = {}
      /\ ~Mistaken(n) => r.common \cup (IF InOnePlace(r) THEN MetricsOf(r) ELSE r.inner)
                           \subseteq filled \cup row.extra

(* Once the files are built, every object that was posted is a row of the  *)
(* file of its class's table and of no other, of none if the class has no  *)
(* table, in the order of the body.  If it keeps to the contract and is no *)
(* single record under data, the class is the one it names or most of its  *)
(* metrics point to, and the row has all of its fields and metrics, known  *)
(* or unknown, whichever classes share the table.  No row comes from       *)
(* anything else or holds what was not posted.                             *)
Staged(n, t) == \E k \in DOMAIN files[t] : files[t][k].of = n
EveryRecordStaged ==
  pc = "idle" /\ payload # None =>
    /\ \A n \in DOMAIN payload.items : Posted(n) # Junk =>
         \E c \in Class :
           /\ ~Mistaken(n) /\ (InOnePlace(Posted(n)) \/ Posted(n).class # None) => c \in ClassesOf(Posted(n))
           /\ \A t \in Table : Staged(n, t) <=> t = TargetTable(c)
    /\ \A t \in Table : \A k \in DOMAIN files[t] :
         LET n == files[t][k].of
         IN  /\ n \in DOMAIN payload.items /\ Posted(n) # Junk /\ Holds(files[t][k].row, n)
             /\ \A l \in DOMAIN files[t] : k < l => n < files[t][l].of

(* The writer creates a table from the first file it meets and names the   *)
(* columns of a file's first row in every later load: all rows of all      *)
(* files of a table have the same columns, whatever the requests held.     *)
SameColumns == \A x, y \in published : x[1] = y[1] => x[2] = y[2]

(* API_CONTRACT.md: a single record object may carry its metrics under     *)
(* data; it keeps the class it names and its identity all the same.        *)
SingleRecordKept ==
  pc = "shape" /\ payload.shape = "single" =>
    /\ records[1].common = payload.items[1].common
    /\ payload.items[1].class # None => records[1].class = Named[payload.items[1].class]
=============================================================================
