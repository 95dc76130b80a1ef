--------------------------- MODULE LoadTransaction ---------------------------
(***************************************************************************)
(* The database side of a file (_ensure_table, _insert, _upsert, _copy of  *)
(* dags/generic_postgres_writer.py), statement by statement and row by     *)
(* row, with more than one writer at work: Airflow keeps to one run at a   *)
(* time (max_active_runs=1), but a task it has given up (heartbeat lost,   *)
(* dagrun_timeout) may still be running on its worker while the next one   *)
(* loads the same file.                                                    *)
(*                                                                         *)
(* A session is one writer's business with one file, which a later run     *)
(* repeats until the load is reported done.  All sessions load one table,  *)
(* with a primary key, by one method; "plain" is _copy without             *)
(* conflict_target.  PostgreSQL is at its default isolation level, READ    *)
(* COMMITTED: a transaction locks the rows it writes until it ends and     *)
(* sees the committed state of all others.                                 *)
(***************************************************************************)
EXTENDS Naturals, Sequences, FiniteSetsExt

CONSTANTS
  Session, Batch, BatchOf, Records, Key, None,   \* see AtomicLoads
  PageSize,     \* BATCH_SIZE: rows of one INSERT
  StagingName,  \* the names a staging table may get (milliseconds mod 1000000)
  NoName,
  MaxFaults     \* bound on lost connections, killed writers, failing calls

ASSUME LoadAssumption == /\ IsFiniteSet(Session) /\ IsFiniteSet(Key)
                         /\ BatchOf \in [Session -> Batch]
                         /\ Records \in [Batch -> Seq(Key) \ {<<>>}]
                         /\ PageSize \in Nat \ {0} /\ MaxFaults \in Nat
                         /\ NoName \notin StagingName
                         /\ None \notin Batch \X Nat

VARIABLES
  method,   \* a setting: meta.method of the table's files
  exists,   \* the table is there
  table,    \* committed rows: [Key -> <<batch, index>> or None]
  catalog,  \* committed staging tables
  pc,       \* [Session -> where it is]
  todo,     \* [Session -> indices of the rows still to be written]
  dirty,    \* [Session -> [Key -> row written, not committed; or None]]
  touched,  \* [Session -> keys the current statement has written]
  name,     \* [Session -> staging]
  created,  \* sessions whose open transaction holds a staging table
  faults

client == <<pc, todo, touched, name>>
server == <<exists, table, catalog, dirty, created>>
vars   == <<method, client, server, faults>>

Clean     == [k \in Key |-> None]
Indices(s)  == DOMAIN Records[BatchOf[s]]
KeyOf(s, i) == Records[BatchOf[s]][i]
Fault     == faults < MaxFaults /\ faults' = faults + 1

(* The de-duplication of _upsert: a dict keeps the place of the first      *)
(* record of a key and the value of the last one.                          *)
Alike(s, i)    == {j \in Indices(s) : KeyOf(s, j) = KeyOf(s, i)}
IsFirst(s, i)  == \A j \in Alike(s, i) : i <= j
LastLike(s, i) == Max(Alike(s, i))

(* Slips in single spots of the code, not part of the specification: the   *)
(* first record of a key wins; no de-duplication; a set instead of a dict, *)
(* whose order differs between processes; DROP forgotten; no rollback.     *)
FirstWins(s, i)  == i
AsTheyCome(s)    == Indices(s)
SetOrder(s, i)   == i \in todo[s] /\ \A j \in todo[s] : IF s % 2 = 0 THEN i <= j ELSE i >= j
NoDrop           == "commit"
NoRollback(s)    == /\ todo' = [todo EXCEPT ![s] = {}]
                    /\ touched' = [touched EXCEPT ![s] = {}]
                    /\ UNCHANGED <<dirty, created>>

(* The rows that are sent, each at the place of a record and with the      *)
(* value of one, from first to last.                                       *)
Rows(s)       == {i \in Indices(s) : method = "upsert" => IsFirst(s, i)}
ValueAt(s, i) == IF method = "upsert" THEN LastLike(s, i) ELSE i
IsNext(s, i)  == i \in todo[s] /\ \A j \in todo[s] : i <= j

(* External: the server's view of a statement that writes key k.           *)
Locked(s, k) == \E u \in Session \ {s} : dirty[u][k] # None
Taken(s, k)  == table[k] # None \/ dirty[s][k] # None

(* INSERT and COPY refuse a key that is there, DO UPDATE one that the same *)
(* statement has already written; DO NOTHING skips it.                     *)
Refused(s, k) == \/ method \in {"insert", "plain"} /\ Taken(s, k)
                 \/ method = "upsert" /\ k \in touched[s]
Skipped(s, k) == method = "copy" /\ Taken(s, k)

(* What follows the last row.                                              *)
WrittenOut == IF method = "copy" THEN "drop" ELSE "commit"

(* External: conn.rollback(), or the server's own when a client is gone.   *)
Rollback(s) == /\ dirty' = [dirty EXCEPT ![s] = Clean]
               /\ created' = created \ {s}
               /\ todo' = [todo EXCEPT ![s] = {}]
               /\ touched' = [touched EXCEPT ![s] = {}]

Init == /\ method \in {"insert", "upsert", "plain", "copy"}
        /\ exists \in BOOLEAN
        /\ table = Clean /\ catalog = {} /\ created = {} /\ faults = 0
        /\ pc = [s \in Session |-> "ensure"]
        /\ todo = [s \in Session |-> {}]
        /\ touched = [s \in Session |-> {}]
        /\ dirty = [s \in Session |-> Clean]
        /\ name = [s \in Session |-> NoName]

Goto(s, where) == pc' = [pc EXCEPT ![s] = where]

-----------------------------------------------------------------------------
(* CREATE TABLE IF NOT EXISTS looks first and creates then: of two writers *)
(* that both see no table, the later one gets an error.                    *)
TableThere(s) ==
  /\ pc[s] = "ensure"
  /\ Goto(s, IF exists THEN "load" ELSE "create")
  /\ UNCHANGED <<method, todo, touched, name, server, faults>>

CreateTable(s) ==
  /\ pc[s] = "create"
  /\ exists' = TRUE
  /\ Goto(s, IF exists THEN "failed" ELSE "load")
  /\ UNCHANGED <<method, todo, touched, name, table, catalog, dirty, created, faults>>

(* The rows, and for _copy with conflict_target a name, are made ready.    *)
Begin(s) ==
  /\ pc[s] = "load"
  /\ todo' = [todo EXCEPT ![s] = Rows(s)]
  /\ \E n \in StagingName :
       IF method = "copy" THEN name' = [name EXCEPT ![s] = n] /\ Goto(s, "staging")
                          ELSE UNCHANGED name /\ Goto(s, "rows")
  /\ UNCHANGED <<method, touched, server, faults>>

(* CREATE UNLOGGED TABLE and COPY into it.  A name that an open transaction*)
(* has created blocks until that transaction ends; that no other table has *)
(* the name is NoStagingLeft.                                              *)
NameHeld(s, u) == u # s /\ u \in created /\ name[u] = name[s]
StageRows(s) ==
  /\ pc[s] = "staging" /\ ~(\E u \in Session : NameHeld(s, u))
  /\ created' = created \cup {s}
  /\ Goto(s, "rows")
  /\ UNCHANGED <<method, todo, touched, name, exists, table, catalog, dirty, faults>>

(* One row of execute_values, COPY, or INSERT ... SELECT; a row that       *)
(* another open transaction has written is waited for.                     *)
WriteRow(s, i) ==
  /\ pc[s] = "rows" /\ IsNext(s, i)
  /\ LET k == KeyOf(s, i)
         t == touched[s] \cup {k}
     IN  /\ ~Locked(s, k) /\ ~Refused(s, k)
         /\ dirty' = IF Skipped(s, k) THEN dirty
                     ELSE [dirty EXCEPT ![s][k] = <<BatchOf[s], ValueAt(s, i)>>]
         /\ touched' = [touched EXCEPT ![s] =
                         IF method = "upsert" /\ Cardinality(t) < PageSize /\ todo[s] # {i}
                           THEN t ELSE {}]
  /\ todo' = [todo EXCEPT ![s] = @ \ {i}]
  /\ Goto(s, IF todo[s] = {i} THEN WrittenOut ELSE "rows")
  /\ UNCHANGED <<method, name, exists, table, catalog, created, faults>>

DropStaging(s) ==
  /\ pc[s] = "drop"
  /\ created' = created \ {s}
  /\ Goto(s, "commit")
  /\ UNCHANGED <<method, todo, touched, name, exists, table, catalog, dirty, faults>>

(* External: what a commit of s does to the committed state.               *)
Commits(s) ==
  /\ table' = [k \in Key |-> IF dirty[s][k] # None THEN dirty[s][k] ELSE table[k]]
  /\ catalog' = catalog \cup {name[u] : u \in created \cap {s}}
  /\ dirty' = [dirty EXCEPT ![s] = Clean]
  /\ created' = created \ {s}
  /\ UNCHANGED exists

CommitLoad(s) ==
  /\ pc[s] = "commit"
  /\ Commits(s)
  /\ Goto(s, "done")
  /\ UNCHANGED <<method, todo, touched, name, faults>>

-----------------------------------------------------------------------------
(* Failures.  _copy rolls back and drops its staging table before it       *)
(* raises, the other two leave the rollback to process_pending.            *)
AfterError == IF method = "copy" THEN "cleanup" ELSE "failed"

RowRefused(s, i) ==
  /\ pc[s] = "rows" /\ IsNext(s, i)
  /\ ~Locked(s, KeyOf(s, i)) /\ Refused(s, KeyOf(s, i))
  /\ Rollback(s) /\ Goto(s, AfterError)
  /\ UNCHANGED <<method, name, exists, table, catalog, faults>>

(* External: PostgreSQL looks for circles of waiting transactions and ends *)
(* one of them.                                                            *)
WaitsFor(s, u) ==
  \/ /\ pc[s] = "rows" /\ u # s
     /\ \E i \in todo[s] : IsNext(s, i) /\ dirty[u][KeyOf(s, i)] # None
  \/ pc[s] = "staging" /\ NameHeld(s, u)
Circle(C) == /\ C # {}
             /\ \A s \in C : \E u \in C : WaitsFor(s, u)
             /\ \A u \in C : \E s \in C : WaitsFor(s, u)
Deadlock(s) ==
  /\ \E C \in SUBSET Session : s \in C /\ Circle(C)
  /\ Rollback(s) /\ Goto(s, AfterError)
  /\ UNCHANGED <<method, name, exists, table, catalog, faults>>

(* DROP TABLE IF EXISTS in a transaction of its own sees committed tables. *)
Cleanup(s) ==
  /\ pc[s] = "cleanup"
  /\ catalog' = catalog \ {name[s]}
  /\ Goto(s, "failed")
  /\ UNCHANGED <<method, todo, touched, name, exists, table, dirty, created, faults>>

(* A statement fails; the connection, and with it the clean-up, may be     *)
(* gone, or the writer may have been killed.                               *)
Interrupted(s) ==
  /\ pc[s] \notin {"done", "failed"} /\ Fault
  /\ Rollback(s)
  /\ \/ Goto(s, "failed")
     \/ pc[s] \in {"staging", "rows", "drop", "commit"} /\ Goto(s, AfterError)
  /\ UNCHANGED <<method, name, exists, table, catalog>>

(* The commit took effect, but the writer does not learn of it.            *)
CommitUnheard(s) ==
  /\ pc[s] = "commit" /\ Fault
  /\ Commits(s)
  /\ Goto(s, "failed")
  /\ UNCHANGED <<method, todo, touched, name>>

(* The file is still in pending/: a later run takes it again.              *)
NextRun(s) ==
  /\ pc[s] = "failed"
  /\ Goto(s, "ensure")
  /\ UNCHANGED <<method, todo, touched, name, server, faults>>

Step(s) == \/ TableThere(s) \/ CreateTable(s) \/ Begin(s) \/ StageRows(s)
           \/ (\E i \in Indices(s) : WriteRow(s, i) \/ RowRefused(s, i))
           \/ DropStaging(s) \/ CommitLoad(s) \/ Cleanup(s) \/ NextRun(s)

Next == \E s \in Session : Step(s) \/ Deadlock(s) \/ Interrupted(s) \/ CommitUnheard(s)

Spec == Init /\ [][Next]_vars

(* Writers go on, PostgreSQL resolves deadlocks, and a transaction that    *)
(* waits for a lock is queued for it: when the one it waited for has ended,*)
(* it is not overtaken every time by a repetition of that one.             *)
Fairness == \A s \in Session :
  /\ WF_vars(Step(s)) /\ WF_vars(Deadlock(s)) /\ SF_vars(StageRows(s))
  /\ \A i \in Indices(s) : SF_vars(WriteRow(s, i))

FairSpec == Spec /\ Fairness

-----------------------------------------------------------------------------
(* Properties.                                                             *)

(* A row is known by the record it was made from.                          *)
Row == Batch \X Nat

(* Every variable keeps to its type; a session has rows in hand and holds  *)
(* locks only inside its transaction.                                      *)
TypeOK ==
  /\ method \in {"insert", "upsert", "plain", "copy"} /\ exists \in BOOLEAN
  /\ table \in [Key -> Row \cup {None}] /\ dirty \in [Session -> [Key -> Row \cup {None}]]
  /\ todo \in [Session -> SUBSET Nat]
  /\ catalog \subseteq StagingName
  /\ pc \in [Session -> {"ensure", "create", "load", "staging", "rows", "drop", "commit",
                         "cleanup", "done", "failed"}]
  /\ \A s \in Session :
       /\ todo[s] \subseteq Indices(s)
       /\ pc[s] = "rows" => todo[s] # {}
       /\ pc[s] = "rows" \/ touched[s] = {}
       /\ pc[s] \in {"rows", "drop", "commit"} \/ dirty[s] = Clean
       /\ pc[s] \in {"rows", "drop"} \/ s \notin created
  /\ touched \in [Session -> SUBSET Key] /\ name \in [Session -> StagingName \cup {NoName}]
  /\ created \subseteq Session /\ faults \in 0..MaxFaults

(* Whatever other writers do meanwhile and wherever one is interrupted,    *)
(* the table changes by whole loads only, each as if it had run alone.     *)
Whole == INSTANCE AtomicLoads WITH done <- {s \in Session : pc[s] = "done"}
LoadsAreAtomic == Whole!Spec

(* The comment of _upsert: repeated keys never make PostgreSQL refuse the  *)
(* statement, neither within a page nor across pages.                      *)
UpsertsFit ==
  \A s \in Session : method = "upsert" /\ pc[s] = "rows"
    => \A i \in todo[s] : IsNext(s, i) => KeyOf(s, i) \notin touched[s]

(* A staging table never outlives the load it was made for.                *)
NoStagingLeft == catalog = {}

(* A task that was given up and the one that follows it lock the rows of   *)
(* their file in the same order: by themselves they never wait for each    *)
(* other in a circle.                                                      *)
TwinsDoNotDeadlock ==
  \A C \in SUBSET Session :
    Cardinality(C) > 1 /\ Circle(C) => \E s, u \in C : BatchOf[s] # BatchOf[u]

(* Files of an upsert or of a copy that skips duplicates are all loaded in *)
(* the end, whatever order their rows are locked in.                       *)
AllLoaded == method \in {"upsert", "copy"} => \A s \in Session : <>(pc[s] = "done")
=============================================================================
