---------------------------- MODULE GenericWriter ----------------------------
(***************************************************************************)
(* The generic PostgreSQL writer (dags/generic_postgres_writer.py), the    *)
(* pending/ directory it consumes and the producers that drop files there. *)
(*                                                                         *)
(* A batch is what one producing attempt wants to store: a file name, the  *)
(* meta that tells the writer how to load it, and the keys of its rows.    *)
(* Two batches may carry the same name: a retried or cleared collector     *)
(* task derives the name from the same run_id.  File names are naturals,   *)
(* whose order stands for the lexicographic order of sorted(glob(...)).    *)
(*                                                                         *)
(* One writer task runs at a time (max_active_runs=1).  It handles the     *)
(* files of its snapshot in name order; each step that another actor or a  *)
(* crash can separate from the next one is an action.                      *)
(***************************************************************************)
EXTENDS Naturals, FiniteSets

CONSTANTS
  Batch,      \* producing attempts; naturals, in the order they are taken
  File,       \* file names in pending/; naturals, in glob order
  Key,        \* primary keys of the keyed tables, table included
  Table,      \* target tables
  FileOf,     \* [Batch -> File]
  Meta,       \* [Batch -> the record MetaType below]
  Keys,       \* [Batch -> SUBSET Key], the keys of its rows; {} is empty data
  Direct,     \* batches written in place, without a temporary file
  After,      \* [Batch -> SUBSET Batch]: attempts that end before this starts
  MaxFaults,  \* bound on crashes and failing system or database calls
  NoTable, UpdatedAt,       \* a meta without table; the updated_at column
  Nobody,                   \* no batch
  Absent, Torn, Stub        \* no file; unparsable text; only {"_error": ...}

Method   == {"insert", "upsert", "copy"}
MetaType == [table: Table \cup {NoTable}, method: Method \cup {"other"},
             target: BOOLEAN, cols: SUBSET {"a", "b", UpdatedAt},
             stamp: BOOLEAN]
Shape    == [cols: SUBSET {"a", "b", UpdatedAt}, keyed: BOOLEAN]

ASSUME BatchAssumption == Batch \subseteq Nat /\ IsFiniteSet(Batch)
ASSUME FileAssumption  == File \subseteq Nat /\ IsFiniteSet(File)
ASSUME ShapeAssumption == /\ FileOf \in [Batch -> File]
                          /\ Meta \in [Batch -> MetaType]
                          /\ Keys \in [Batch -> SUBSET Key]
                          /\ After \in [Batch -> SUBSET Batch]
                          /\ Direct \subseteq Batch
                          /\ MaxFaults \in Nat
ASSUME SentinelAssumption ==
  /\ NoTable \notin Table \cup Shape
  /\ {Nobody, Absent, Torn, Stub} \cap Batch = {}
  /\ Absent # Torn /\ Absent # Stub /\ Torn # Stub

VARIABLES
  stage,    \* [Batch -> Stage]: how far its producer is
  content,  \* [File -> ...]: what pending/<file> holds
  pc,       \* where the writer task is
  found,    \* the files its glob returned
  todo,     \* those of them the loop has not reached
  cur,      \* file_path
  payload,  \* the batch in memory; Nobody when payload has no meta and data,
            \* and between files
  linked,   \* the file opened for annotation is still the one named cur
  connUp,   \* the run's connection works
  count,    \* the counters of the summary
  schema,   \* [Table -> shape of the table, or NoTable before it exists]
  row,      \* [Key -> the batch whose row a keyed table holds, or Nobody]
  commits,  \* [Batch -> Nat]: commits of its load: in a table without a
            \* primary key, the number of copies of each of its rows
  redo,     \* history: [Batch -> Nat], faults that hit it once committed
  damaged,  \* history: batches whose annotation was cut short or whose file
            \* could not be read
  faults    \* failures so far, at most MaxFaults

dir    == <<stage, content, linked>>
run    == <<found, todo, cur, payload>>
db     == <<schema, row, commits>>
ghosts == <<redo, damaged>>
vars   == <<dir, pc, run, connUp, count, db, ghosts, faults>>

Stage == {"new", "writing", "clobbered", "unlinked", "done", "dead"}
PC    == {"idle", "pick", "ensure", "load", "skip", "remove", "annotate", "dump"}
Zero  == [processed |-> 0, errors |-> 0, skipped |-> 0, deferred |-> 0]

Present      == {f \in File : content[f] # Absent}
Writing(f)   == {b \in Batch : FileOf[b] = f /\ stage[b] \in {"writing", "clobbered"}}
Bump(c)      == count' = [count EXCEPT ![c] = @ + 1]
Fault        == faults < MaxFaults /\ faults' = faults + 1

(* Changes of a single spot of the code, each the like of a slip in it;    *)
(* not part of the specification.  Unsorted glob; deferred one too few;    *)
(* no test that the text parsed; DO UPDATE in _copy; annotation without    *)
(* the payload; os.remove only for empty files; break after an error.      *)
UnsortedNext(f)    == f \in todo
OneTooFew          == Cardinality(todo) - 1
UnparsedIsEmpty(text) == IF text \notin Batch \/ Keys[text] = {} THEN "skip" ELSE "ensure"
AlwaysUpdated(b)   == [k \in Key |-> IF k \in Keys[b] THEN b ELSE row[k]]
ErrorOnly          == Stub
UnlinkEmptyOnly    == content' = IF pc = "skip" THEN [content EXCEPT ![cur] = Absent]
                                                ELSE content
BreakAfterError    == /\ pc' = IF pc = "dump" THEN "idle" ELSE "pick"
                      /\ payload' = Nobody /\ UNCHANGED <<found, todo, cur>>

(* The loop moves on; payload is reset before the next file is read.       *)
NextFile == pc' = "pick" /\ payload' = Nobody /\ UNCHANGED <<found, todo, cur>>

(* The checks of lines 383-390 on a parsed payload. *)
Valid(b) == /\ Meta[b].table # NoTable
            /\ Meta[b].method \in Method
            /\ Meta[b].method = "upsert" => Meta[b].target

(* Where a file's text leads: what does not parse leaves payload = {}, an  *)
(* error stub parses but has no table; both are annotated, as is what is   *)
(* not valid.  Empty data is skipped.                                      *)
Verdict(text) == IF text \notin Batch \/ ~Valid(text) THEN "annotate"
                 ELSE IF Keys[text] = {} THEN "skip" ELSE "ensure"

(* The next file of the sorted list, the number of files not reached.      *)
NextInOrder(f) == f \in todo /\ \A g \in todo : f <= g
Remaining      == Cardinality(todo)

(* os.remove takes whatever the name leads to by now.                      *)
Unlink == content' = [content EXCEPT ![cur] = Absent]

(* What the annotation writes: payload with _error, if there is a payload. *)
AnnotatedText == IF payload = Nobody THEN Stub ELSE payload

(* _ensure_table: the first file of a table fixes its columns and key. *)
ShapeOf(b) == [cols  |-> Meta[b].cols \cup IF Meta[b].stamp THEN {UpdatedAt} ELSE {},
               keyed |-> Meta[b].target]

(* The columns a load names: insert and upsert always add updated_at. *)
LoadCols(b) ==
  Meta[b].cols \cup IF Meta[b].method = "copy" THEN {} ELSE {UpdatedAt}

(* ON CONFLICT is used by upsert and by copy with a conflict_target. *)
OnConflict(b) == Meta[b].method # "insert" /\ Meta[b].target

(* What PostgreSQL demands of the statements of _insert, _upsert, _copy. *)
Accepts(b) ==
  LET s == schema[Meta[b].table]
  IN  /\ LoadCols(b) \subseteq s.cols
      /\ OnConflict(b) => s.keyed
      /\ s.keyed /\ ~OnConflict(b) => \A k \in Keys[b] : row[k] = Nobody

(* DO UPDATE replaces a row, DO NOTHING keeps the one that is there. *)
Merged(b) ==
  [k \in Key |-> IF k \in Keys[b] /\ (row[k] = Nobody \/ Meta[b].method = "upsert")
                   THEN b ELSE row[k]]

Commit(b) ==
  /\ row' = IF schema[Meta[b].table].keyed THEN Merged(b) ELSE row
  /\ commits' = [commits EXCEPT ![b] = @ + 1]
  /\ UNCHANGED schema

Init == /\ stage = [b \in Batch |-> "new"]
        /\ content = [f \in File |-> Absent]
        /\ pc = "idle" /\ found = {} /\ todo = {} /\ cur \in File
        /\ payload = Nobody /\ linked = TRUE /\ connUp = TRUE /\ count = Zero
        /\ schema = [t \in Table |-> NoTable]
        /\ row = [k \in Key |-> Nobody]
        /\ commits = [b \in Batch |-> 0] /\ redo = [b \in Batch |-> 0]
        /\ damaged = {} /\ faults = 0

-----------------------------------------------------------------------------
(* Producers.  writerSide is what their steps leave alone.                 *)

writerSide == <<pc, run, connUp, count, db, ghosts>>

CanStart(b) == /\ stage[b] = "new"
               /\ \A c \in After[b] : stage[c] \in {"done", "dead"}

(* write_pending_file_atomic, _write_pending: dump to a temporary name the *)
(* glob does not match, then os.replace.  A file the writer holds open     *)
(* under that name is no longer the one the name leads to.                 *)
PublishAtomic(b) ==
  /\ CanStart(b) /\ b \notin Direct
  /\ content' = [content EXCEPT ![FileOf[b]] = b]
  /\ stage' = [stage EXCEPT ![b] = "done"]
  /\ linked' = (linked /\ ~(pc = "dump" /\ FileOf[b] = cur))
  /\ UNCHANGED <<writerSide, faults>>

(* The history and inventory collectors open the final name with "w" ...   *)
DirectOpen(b) ==
  /\ CanStart(b) /\ b \in Direct
  /\ content' = [content EXCEPT ![FileOf[b]] = Torn]
  /\ stage' = [stage EXCEPT ![b] = "writing"]
  /\ UNCHANGED <<linked, writerSide, faults>>

(* ... and the text is whole once the file is closed.  If the writer       *)
(* truncated the file in between, the text survives only when none of it   *)
(* had been flushed; if the writer removed it, nobody can reach the text.  *)
DirectClose(b) ==
  /\ stage[b] \in {"writing", "clobbered", "unlinked"}
  /\ stage' = [stage EXCEPT ![b] = "done"]
  /\ \/ stage[b] # "unlinked" /\ content' = [content EXCEPT ![FileOf[b]] = b]
     \/ stage[b] = "clobbered" /\ content' = [content EXCEPT ![FileOf[b]] = Torn]
     \/ stage[b] = "unlinked" /\ UNCHANGED content
  /\ UNCHANGED <<linked, writerSide, faults>>

(* The collector task is killed while it writes. *)
DirectDie(b) ==
  /\ stage[b] \in {"writing", "clobbered", "unlinked"} /\ Fault
  /\ stage' = [stage EXCEPT ![b] = "dead"]
  /\ UNCHANGED <<content, linked, writerSide>>

-----------------------------------------------------------------------------
(* The writer: process_pending.                                            *)

(* glob, sort, connect; no file at all ends the run with zero counters.    *)
StartRun ==
  /\ pc = "idle"
  /\ found' = Present /\ todo' = Present /\ count' = Zero
  /\ connUp' = TRUE /\ payload' = Nobody
  /\ pc' = IF Present = {} THEN "idle" ELSE "pick"
  /\ UNCHANGED <<dir, cur, db, ghosts, faults>>

FinishRun ==
  /\ pc = "pick" /\ todo = {}
  /\ pc' = "idle"
  /\ UNCHANGED <<dir, run, connUp, count, db, ghosts, faults>>

(* The deadline is tested before each file, the first one too: connecting  *)
(* may have used up the budget.                                            *)
BudgetExpired ==
  /\ pc = "pick" /\ todo # {}
  /\ count' = [count EXCEPT !["deferred"] = Remaining]
  /\ todo' = {}
  /\ pc' = "idle"
  /\ UNCHANGED <<dir, found, cur, payload, connUp, db, ghosts, faults>>

(* open, json.load and the validation of one file. *)
ReadFile(f) ==
  /\ pc = "pick" /\ NextInOrder(f)
  /\ todo' = todo \ {f} /\ cur' = f
  /\ payload' = IF content[f] \in Batch THEN content[f] ELSE Nobody
  /\ pc' = Verdict(content[f])
  /\ IF Verdict(content[f]) = "annotate" THEN Bump("errors") ELSE UNCHANGED count
  /\ UNCHANGED <<dir, found, connUp, db, ghosts, faults>>

(* open or read fails on a file that may well be whole: payload is {}, so  *)
(* what the annotation leaves of the file is an error stub.                *)
ReadFault(f) ==
  /\ pc = "pick" /\ NextInOrder(f) /\ Fault
  /\ todo' = todo \ {f} /\ cur' = f /\ payload' = Nobody
  /\ pc' = "annotate" /\ Bump("errors")
  /\ damaged' = damaged \cup ({content[f]} \cap Batch)
  /\ UNCHANGED <<dir, found, connUp, db, redo>>

(* CREATE TABLE IF NOT EXISTS, in a transaction of its own. *)
EnsureTable ==
  /\ pc = "ensure" /\ connUp
  /\ LET t == Meta[payload].table
     IN  schema' = IF schema[t] = NoTable THEN [schema EXCEPT ![t] = ShapeOf(payload)]
                                          ELSE schema
  /\ pc' = "load"
  /\ UNCHANGED <<dir, run, connUp, count, row, commits, ghosts, faults>>

Load ==
  /\ pc = "load" /\ connUp /\ Accepts(payload)
  /\ Commit(payload)
  /\ pc' = "remove"
  /\ UNCHANGED <<dir, run, connUp, count, ghosts, faults>>

(* The statement is refused, for this file now and on every later run in   *)
(* the same state: nothing of it stays, the except branch annotates.       *)
LoadRejected ==
  /\ pc = "load" /\ connUp /\ ~Accepts(payload)
  /\ pc' = "annotate" /\ Bump("errors")
  /\ UNCHANGED <<dir, run, connUp, db, ghosts, faults>>

(* A database call fails before anything is committed; the connection may  *)
(* be gone for the rest of the run.                                        *)
DatabaseFault ==
  /\ pc \in {"ensure", "load"} /\ connUp /\ Fault
  /\ connUp' \in BOOLEAN
  /\ pc' = "annotate" /\ Bump("errors")
  /\ UNCHANGED <<dir, run, db, ghosts>>

(* The run has one connection: once it is gone every later file fails. *)
NoConnection ==
  /\ pc = "ensure" /\ ~connUp
  /\ pc' = "annotate" /\ Bump("errors")
  /\ UNCHANGED <<dir, run, connUp, db, ghosts, faults>>

(* commit() raises although the server committed. *)
CommitUnacknowledged ==
  /\ pc = "load" /\ connUp /\ Accepts(payload) /\ Fault
  /\ Commit(payload)
  /\ redo' = [redo EXCEPT ![payload] = @ + 1]
  /\ connUp' = FALSE
  /\ pc' = "annotate" /\ Bump("errors")
  /\ UNCHANGED <<dir, run, damaged>>

RemoveFile ==
  /\ pc \in {"skip", "remove"}
  /\ Unlink
  /\ stage' = [b \in Batch |-> IF b \in Writing(cur) THEN "unlinked" ELSE stage[b]]
  /\ Bump(IF pc = "skip" THEN "skipped" ELSE "processed")
  /\ NextFile
  /\ UNCHANGED <<linked, connUp, db, ghosts, faults>>

RemoveFault ==
  /\ pc \in {"skip", "remove"} /\ Fault
  /\ redo' = IF pc = "remove" THEN [redo EXCEPT ![payload] = @ + 1] ELSE redo
  /\ pc' = "annotate" /\ Bump("errors")
  /\ UNCHANGED <<dir, run, connUp, db, damaged>>

(* The except branch: open(file_path, "w") empties the file first ...      *)
AnnotateOpen ==
  /\ pc = "annotate"
  /\ content' = [content EXCEPT ![cur] = Torn]
  /\ stage' = [b \in Batch |-> IF b \in Writing(cur) THEN "clobbered" ELSE stage[b]]
  /\ linked' = TRUE
  /\ pc' = "dump"
  /\ UNCHANGED <<run, connUp, count, db, ghosts, faults>>

(* ... then writes payload and _error back.  A name replaced in between is *)
(* not affected.  Where a producer is writing the same file, or has opened *)
(* and closed it in between, the two texts may end up one over the other.  *)
AnnotateDump ==
  /\ pc = "dump"
  /\ \/ linked /\ content' = [content EXCEPT ![cur] = AnnotatedText]
     \/ /\ linked /\ (Writing(cur) # {} \/ content[cur] # Torn)
        /\ content' = [content EXCEPT ![cur] = Torn]
     \/ ~linked /\ UNCHANGED content
  /\ stage' = [b \in Batch |-> IF linked /\ b \in Writing(cur) THEN "clobbered" ELSE stage[b]]
  /\ NextFile
  /\ UNCHANGED <<linked, connUp, count, db, ghosts, faults>>

(* Either call may fail; the failure is swallowed and the loop goes on.    *)
AnnotateFault ==
  /\ pc \in {"annotate", "dump"} /\ Fault
  /\ damaged' = IF pc = "dump" THEN damaged \cup {payload} ELSE damaged
  /\ NextFile
  /\ UNCHANGED <<dir, connUp, count, db, redo>>

(* The task is killed (dagrun_timeout, pod eviction); an open transaction  *)
(* is rolled back, unless its commit was already on its way.  The local    *)
(* variables of the task are gone with it.                                 *)
Crash ==
  /\ pc # "idle" /\ Fault
  /\ \/ UNCHANGED db /\ redo' = IF pc = "remove" THEN [redo EXCEPT ![payload] = @ + 1] ELSE redo
     \/ /\ pc = "load" /\ connUp /\ Accepts(payload)
        /\ Commit(payload)
        /\ redo' = [redo EXCEPT ![payload] = @ + 1]
  /\ damaged' = IF pc = "dump" THEN damaged \cup {payload} ELSE damaged
  /\ pc' = "idle" /\ payload' = Nobody
  /\ found' = {} /\ todo' = {} /\ count' = Zero
  /\ UNCHANGED <<dir, cur, connUp>>

Producer == \E b \in Batch : PublishAtomic(b) \/ DirectOpen(b) \/ DirectClose(b) \/ DirectDie(b)

Writer == \/ StartRun \/ FinishRun \/ BudgetExpired \/ (\E f \in File : ReadFile(f))
          \/ EnsureTable \/ Load \/ LoadRejected \/ NoConnection
          \/ RemoveFile \/ AnnotateOpen \/ AnnotateDump

Failure == \/ (\E f \in File : ReadFault(f))
           \/ DatabaseFault \/ CommitUnacknowledged \/ RemoveFault \/ AnnotateFault \/ Crash

Next == Producer \/ Writer \/ Failure

Spec == Init /\ [][Next]_vars

(* Nobody else ever writes the file of b, and b gets there by os.replace:  *)
(* what write_pending_file_atomic with a fresh request_id gives.           *)
Sole(b) == /\ b \notin Direct /\ Keys[b] # {}
           /\ \A c \in Batch \ {b} : FileOf[c] # FileOf[b]

(* The scheduler keeps starting runs and a started run keeps going; an open *)
(* file is eventually closed.  StepFairness says nothing about the budget.  *)
StepFairness == WF_vars(Writer) /\ \A b \in Direct : WF_vars(DirectClose(b))

(* In addition, the budget is not exhausted every single time before the   *)
(* same file: a file that is due again and again is read in the end.       *)
BudgetFairness == \A b \in {c \in Batch : Sole(c)} : SF_vars(ReadFile(FileOf[b]))

FairSpec == Spec /\ StepFairness /\ BudgetFairness

-----------------------------------------------------------------------------
(* Properties.                                                             *)

(* Every variable keeps to its type. *)
TypeOK ==
  /\ stage \in [Batch -> Stage]
  /\ content \in [File -> Batch \cup {Absent, Torn, Stub}]
  /\ pc \in PC /\ found \subseteq File /\ todo \subseteq found /\ cur \in File
  /\ payload \in Batch \cup {Nobody}
  /\ pc \in {"ensure", "load", "skip", "remove"} => payload \in Batch
  /\ linked \in BOOLEAN /\ connUp \in BOOLEAN
  /\ count \in [{"processed", "errors", "skipped", "deferred"} -> Nat]
  /\ schema \in [Table -> Shape \cup {NoTable}]
  /\ row \in [Key -> Batch \cup {Nobody}]
  /\ commits \in [Batch -> Nat] /\ redo \in [Batch -> Nat]
  /\ damaged \subseteq Batch \cup {Nobody} /\ faults \in 0..MaxFaults

(* Every file the glob of a run returned is accounted for exactly once, in *)
(* the counters, in the rest of the loop or as the one being handled:      *)
(* a run that returns a summary has missed and double-counted none.        *)
InFlight == IF pc \in {"ensure", "load", "skip", "remove"} THEN 1 ELSE 0
Accounted ==
  count.processed + count.errors + count.skipped + count.deferred
    + Cardinality(todo) + InFlight = Cardinality(found)

(* The writer loads a batch once, and once more only for each fault that   *)
(* hit that very batch between its commit and the removal of its file: no  *)
(* other crash, retry or republication duplicates rows of an append-only   *)
(* table (copy without conflict_target).                                   *)
CopiesBounded == \A b \in Batch : commits[b] <= redo[b] + 1

(* A published batch that is not loaded yet is in pending/, or is being    *)
(* written back there, whatever else the run meets: only a file that could *)
(* not be read, or a failure between the truncation and the dump of its    *)
(* annotation, loses the batch.                                            *)
KeptUntilLoaded ==
  \A b \in Batch : Sole(b) /\ stage[b] = "done" /\ commits[b] = 0 /\ b \notin damaged
                    => content[FileOf[b]] = b \/ (pc = "dump" /\ payload = b)

(* A reload of a history batch (copy with conflict_target) changes no row: *)
(* the retry after a crash between commit and remove is idempotent, even   *)
(* when other runs have loaded overlapping windows since.                  *)
ReloadKeepsRows ==
  \A b \in Batch : /\ commits[b] > 0 /\ commits'[b] > commits[b]
                   /\ Meta[b].method = "copy" /\ Meta[b].target
                   => row' = row
ReloadIsIdempotent == [][ReloadKeepsRows]_vars

(* Scheduled runs of a collector: the batches of a table with upserts are  *)
(* taken one after the other, under names in the same order.  Keys and     *)
(* names belong to one table each.                                         *)
Upserted(t)  == \E b \in Batch : Meta[b].table = t /\ Meta[b].method = "upsert"
Older(b, c)  == b < c /\ Meta[b].table = Meta[c].table /\ Upserted(Meta[b].table)
SnapshotOrder ==
  \A b, c \in Batch :
    /\ Keys[b] \cap Keys[c] # {} \/ FileOf[b] = FileOf[c] => Meta[b].table = Meta[c].table
    /\ Older(b, c) => b \in After[c] /\ FileOf[b] <= FileOf[c]

(* Batches are numbered in the order their snapshots were taken.  As long  *)
(* as nothing fails, a row of a keyed table never goes back to an older    *)
(* snapshot, although files queue up, are deferred and are rewritten.      *)
(* Supposes SnapshotOrder; InventoryCollector has the runs that are        *)
(* started by hand.                                                        *)
GoesBack == \E k \in Key : row[k] # Nobody /\ row'[k] < row[k]
NoRegressionWithoutFaults == [][faults' = 0 => ~GoesBack]_vars

(* STAGING_FORMAT.md: on failure the file is not deleted but annotated and *)
(* left in pending/, so the next run retries it: a batch whose producer    *)
(* has finished is loaded, on file, in memory, or superseded by a rewrite. *)
NeverLost ==
  \A b \in Batch : stage[b] = "done" /\ commits[b] = 0 /\ Keys[b] # {}
    => \/ content[FileOf[b]] = b \/ payload = b
       \/ \E c \in Batch : b \in After[c] /\ FileOf[c] = FileOf[b] /\ stage[c] # "new"

(* pending/ and the writer as a channel for the Sole batches.  A batch is  *)
(* in custody while its file holds it, or the annotation that will write   *)
(* it back does.                                                           *)
Soles      == {b \in Batch : Sole(b)}
Custody(b) == content[FileOf[b]] = b \/ (pc = "dump" /\ payload = b)
ChanOf(b)  == CASE stage[b] # "done" -> "new"
                [] stage[b] = "done" /\ Custody(b) -> "waiting"
                [] stage[b] = "done" /\ ~Custody(b) /\ b \in damaged -> "lost"
                [] stage[b] = "done" /\ ~Custody(b) /\ b \notin damaged -> "settled"

Channel == INSTANCE Delivery
             WITH Batch  <- Soles,
                  chan   <- [b \in Soles |-> ChanOf(b)],
                  copies <- [b \in Soles |-> commits[b]],
                  doubt  <- [b \in Soles |-> redo[b]],
                  risk   <- damaged \cap Soles,
                  faults <- faults

(* For those batches every step of producers, writer and failures is one   *)
(* of the channel: a file leaves pending/ only after a commit that no      *)
(* fault has put in doubt, is loaded a second time only when the one before*)
(* is in doubt, never after it was removed, and never comes back.          *)
ImplementsDelivery == Channel!Spec

(* A batch the tables can take, whichever file created them.               *)
Loadable(b) ==
  /\ Valid(b)
  /\ \A c \in Batch : Meta[c].table = Meta[b].table =>
       /\ LoadCols(b) \subseteq ShapeOf(c).cols
       /\ OnConflict(b) = ShapeOf(c).keyed

(* Such a batch, once published, is loaded and its file leaves pending/,   *)
(* whatever poison files lie there and whatever failed before.             *)
Delivered ==
  \A b \in Batch : Sole(b) /\ Loadable(b) =>
    (stage[b] = "done" ~> b \in damaged \/ (commits[b] > 0 /\ content[FileOf[b]] = Absent))
=============================================================================
