------------------------- MODULE GenericWriterProofs -------------------------
(***************************************************************************)
(* Theorems about GenericWriter, for every set of batches and files, every *)
(* meta, every sharing of names and every number of faults.                *)
(***************************************************************************)
EXTENDS GenericWriter, FiniteSetTheorems, TLAPS

-----------------------------------------------------------------------------
(* Type correctness.                                                       *)

(* A file reaches the database only after it passed the validation.        *)
Validated == pc \in {"ensure", "load"} => Valid(payload)

TypeInv == TypeOK /\ Validated

(* The shape a first file gives a table is a shape.                        *)
LEMMA ShapeType == ASSUME NEW b \in Batch PROVE ShapeOf(b) \in Shape
BY ShapeAssumption DEF ShapeOf, Shape, MetaType

(* A commit keeps the tables well typed.                                   *)
LEMMA CommitType ==
  ASSUME TypeOK, NEW b \in Batch, Commit(b)
  PROVE  /\ row' \in [Key -> Batch \cup {Nobody}]
         /\ commits' \in [Batch -> Nat]
         /\ schema' = schema
BY DEF TypeOK, Commit, Merged

(* Every listing is finite.                                                *)
LEMMA FiniteTodo ==
  ASSUME TypeOK
  PROVE  /\ IsFiniteSet(found) /\ IsFiniteSet(todo)
         /\ Cardinality(found) \in Nat /\ Cardinality(todo) \in Nat
<1>1. found \subseteq File /\ todo \subseteq File
  BY DEF TypeOK
<1>. QED BY <1>1, FileAssumption, FS_Subset, FS_CardinalityType

LEMMA TypeInit == Init => TypeInv
BY ShapeAssumption, SentinelAssumption
   DEF Init, TypeInv, TypeOK, Validated, Stage, PC, Zero

LEMMA TypeNext == TypeInv /\ [Next]_vars => TypeInv'
<1>. SUFFICES ASSUME TypeInv, [Next]_vars PROVE TypeInv'
  OBVIOUS
<1>. USE DEF TypeInv, TypeOK, Validated, PC
<1>1. ASSUME NEW b \in Batch, PublishAtomic(b) PROVE TypeInv'
  BY <1>1, ShapeAssumption DEF PublishAtomic, CanStart, writerSide, run, db, ghosts, Stage, Valid
<1>2. ASSUME NEW b \in Batch, DirectOpen(b) PROVE TypeInv'
  BY <1>2, ShapeAssumption DEF DirectOpen, CanStart, writerSide, run, db, ghosts, Stage, Valid
<1>3. ASSUME NEW b \in Batch, DirectClose(b) PROVE TypeInv'
  BY <1>3, ShapeAssumption DEF DirectClose, writerSide, run, db, ghosts, Stage, Valid
<1>4. ASSUME NEW b \in Batch, DirectDie(b) PROVE TypeInv'
  BY <1>4, ShapeAssumption DEF DirectDie, Fault, writerSide, run, db, ghosts, Stage, Valid
<1>5. CASE StartRun
  BY <1>5 DEF StartRun, Present, Zero, dir, db, ghosts, Valid
<1>6. CASE FinishRun
  BY <1>6 DEF FinishRun, dir, run, db, ghosts, Valid
<1>7. CASE BudgetExpired
  BY <1>7, FiniteTodo DEF BudgetExpired, Remaining, dir, db, ghosts, Valid
<1>8. ASSUME NEW f \in File, ReadFile(f) PROVE TypeInv'
  BY <1>8, SentinelAssumption DEF ReadFile, NextInOrder, Verdict, Bump, dir, db, ghosts, Valid
<1>9. CASE EnsureTable
  BY <1>9, ShapeType DEF EnsureTable, dir, run, ghosts, Valid
<1>10. CASE Load
  BY <1>10, CommitType DEF Load, dir, run, ghosts, Valid
<1>11. CASE LoadRejected
  BY <1>11 DEF LoadRejected, Bump, dir, run, db, ghosts, Valid
<1>12. CASE NoConnection
  BY <1>12 DEF NoConnection, Bump, dir, run, db, ghosts, Valid
<1>13. CASE RemoveFile
  BY <1>13 DEF RemoveFile, Unlink, NextFile, Bump, run, db, ghosts, Stage, Valid
<1>14. CASE AnnotateOpen
  BY <1>14 DEF AnnotateOpen, run, db, ghosts, Stage, Valid
<1>15. CASE AnnotateDump
  BY <1>15 DEF AnnotateDump, AnnotatedText, NextFile, db, ghosts, Stage, Valid
<1>16. CASE DatabaseFault
  BY <1>16, ShapeAssumption DEF DatabaseFault, Fault, Bump, dir, run, db, ghosts, Valid
<1>17. CASE CommitUnacknowledged
  <2>1. payload \in Batch /\ Commit(payload)
    BY <1>17 DEF CommitUnacknowledged
  <2>2. row' \in [Key -> Batch \cup {Nobody}] /\ commits' \in [Batch -> Nat] /\ schema' = schema
    BY <2>1, CommitType
  <2>3. redo' \in [Batch -> Nat] /\ faults' \in 0 .. MaxFaults
    BY <1>17, <2>1, ShapeAssumption DEF CommitUnacknowledged, Fault
  <2>4. connUp' \in BOOLEAN /\ pc' = "annotate"
    BY <1>17 DEF CommitUnacknowledged
  <2>5. count' \in [{"processed", "errors", "skipped", "deferred"} -> Nat]
    BY <1>17 DEF CommitUnacknowledged, Bump
  <2>. QED
    BY <1>17, <2>2, <2>3, <2>4, <2>5 DEF CommitUnacknowledged, dir, run
<1>18. CASE RemoveFault
  BY <1>18, ShapeAssumption DEF RemoveFault, Fault, Bump, dir, run, db, Valid
<1>19. CASE AnnotateFault
  BY <1>19, ShapeAssumption DEF AnnotateFault, Fault, NextFile, dir, db, Valid
<1>20. CASE Crash
  BY <1>20, CommitType, ShapeAssumption DEF Crash, Fault, Zero, dir, db, Valid
<1>21. CASE UNCHANGED vars
  BY <1>21 DEF vars, dir, run, db, ghosts, Valid
<1>22. ASSUME NEW f \in File, ReadFault(f) PROVE TypeInv'
  BY <1>22, SentinelAssumption, ShapeAssumption DEF ReadFault, NextInOrder, Fault, Bump, dir, db, Valid
<1>. QED
  BY <1>1, <1>2, <1>3, <1>4, <1>5, <1>6, <1>7, <1>8, <1>9, <1>10, <1>11, <1>12, <1>13,
     <1>14, <1>15, <1>16, <1>17, <1>18, <1>19, <1>20, <1>21, <1>22
  DEF Next, Producer, Writer, Failure

(* The variables of the writer, of pending/ and of the database keep their *)
(* types, and no step loads, skips or removes without a batch in memory.   *)
THEOREM TypeCorrect == Spec => []TypeOK
<1>1. TypeInv => TypeOK
  BY DEF TypeInv
<1>. QED BY <1>1, TypeInit, TypeNext, PTL DEF Spec

-----------------------------------------------------------------------------
(* Duplicates.                                                             *)

(* A whole text is the one of a finished producer of that very file, in    *)
(* pending/ and in the memory of the writer.                               *)
Named ==
  /\ \A f \in File : content[f] \in Batch => /\ FileOf[content[f]] = f
                                             /\ stage[content[f]] = "done"
  /\ payload \in Batch => FileOf[payload] = cur /\ stage[payload] = "done"

(* b may still be read, or be written back by the writer, some day.        *)
Pending(b) ==
  stage[b] \notin {"done", "dead"} \/ content[FileOf[b]] = b \/ payload = b

(* The strengthening of CopiesBounded: a batch that may come to be loaded  *)
(* again was hit by as many faults as it has copies.  Only the step from   *)
(* the commit to the removal of the file is one ahead.                     *)
CopiesInv ==
  \A b \in Batch :
    /\ commits[b] <= redo[b] + 1
    /\ Pending(b) /\ ~(pc = "remove" /\ payload = b) => commits[b] <= redo[b]

DupInv == TypeInv /\ Named /\ CopiesInv

LEMMA NamedInit == Init => Named
BY SentinelAssumption, ShapeAssumption DEF Init, Named

LEMMA NamedNext == TypeInv /\ Named /\ [Next]_vars => Named'
<1>. SUFFICES ASSUME TypeInv, Named, [Next]_vars PROVE Named'
  OBVIOUS
<1>. USE SentinelAssumption, ShapeAssumption DEF TypeInv, TypeOK, Named
<1>1. ASSUME NEW b \in Batch, PublishAtomic(b) PROVE Named'
  BY <1>1 DEF PublishAtomic, CanStart, writerSide, run
<1>2. ASSUME NEW b \in Batch, DirectOpen(b) PROVE Named'
  BY <1>2 DEF DirectOpen, CanStart, writerSide, run
<1>3. ASSUME NEW b \in Batch, DirectClose(b) PROVE Named'
  BY <1>3 DEF DirectClose, writerSide, run
<1>4. ASSUME NEW b \in Batch, DirectDie(b) PROVE Named'
  BY <1>4 DEF DirectDie, writerSide, run
<1>5. CASE StartRun
  BY <1>5 DEF StartRun, dir
<1>6. CASE FinishRun \/ EnsureTable \/ Load \/ LoadRejected \/ NoConnection
  BY <1>6 DEF FinishRun, EnsureTable, Load, LoadRejected, NoConnection, dir, run
<1>7. CASE BudgetExpired
  BY <1>7 DEF BudgetExpired, dir
<1>8. ASSUME NEW f \in File, ReadFile(f) PROVE Named'
  BY <1>8 DEF ReadFile, NextInOrder, dir
<1>9. CASE RemoveFile
  BY <1>9 DEF RemoveFile, Unlink, NextFile, Writing
<1>10. CASE AnnotateOpen
  BY <1>10 DEF AnnotateOpen, Writing, run
<1>11. CASE AnnotateDump
  BY <1>11 DEF AnnotateDump, AnnotatedText, NextFile, Writing
<1>12. CASE DatabaseFault \/ CommitUnacknowledged \/ RemoveFault
  BY <1>12 DEF DatabaseFault, CommitUnacknowledged, RemoveFault, dir, run
<1>13. CASE AnnotateFault \/ Crash
  BY <1>13 DEF AnnotateFault, Crash, NextFile, dir
<1>14. CASE UNCHANGED vars
  BY <1>14 DEF vars, dir, run
<1>15. ASSUME NEW f \in File, ReadFault(f) PROVE Named'
  BY <1>15 DEF ReadFault, NextInOrder, Fault, dir
<1>. QED
  BY <1>1, <1>2, <1>3, <1>4, <1>5, <1>6, <1>7, <1>8, <1>9, <1>10, <1>11, <1>12, <1>13,
     <1>14, <1>15
  DEF Next, Producer, Writer, Failure

LEMMA CopiesInit == Init => CopiesInv
BY DEF Init, CopiesInv

LEMMA CopiesNext == DupInv /\ [Next]_vars => CopiesInv'
<1>. SUFFICES ASSUME DupInv, [Next]_vars PROVE CopiesInv'
  OBVIOUS
<1>. USE SentinelAssumption, ShapeAssumption DEF DupInv, TypeInv, TypeOK, Named, CopiesInv, Pending
<1>1. ASSUME NEW b \in Batch, PublishAtomic(b) PROVE CopiesInv'
  BY <1>1 DEF PublishAtomic, CanStart, writerSide, run, db, ghosts
<1>2. ASSUME NEW b \in Batch, DirectOpen(b) PROVE CopiesInv'
  BY <1>2 DEF DirectOpen, CanStart, writerSide, run, db, ghosts
<1>3. ASSUME NEW b \in Batch, DirectClose(b) PROVE CopiesInv'
  BY <1>3 DEF DirectClose, writerSide, run, db, ghosts
<1>4. ASSUME NEW b \in Batch, DirectDie(b) PROVE CopiesInv'
  BY <1>4 DEF DirectDie, writerSide, run, db, ghosts
<1>5. CASE StartRun
  BY <1>5 DEF StartRun, dir, db, ghosts
<1>6. CASE FinishRun \/ EnsureTable \/ LoadRejected \/ NoConnection
  BY <1>6 DEF FinishRun, EnsureTable, LoadRejected, NoConnection, dir, run, db, ghosts
<1>7. CASE BudgetExpired
  BY <1>7 DEF BudgetExpired, dir, db, ghosts
<1>8. ASSUME NEW f \in File, ReadFile(f) PROVE CopiesInv'
  BY <1>8 DEF ReadFile, NextInOrder, Verdict, dir, db, ghosts
<1>9. CASE Load
  BY <1>9 DEF Load, Commit, dir, run, ghosts
<1>10. CASE RemoveFile
  BY <1>10 DEF RemoveFile, Unlink, NextFile, Writing, db, ghosts
<1>11. CASE AnnotateOpen
  BY <1>11 DEF AnnotateOpen, Writing, run, db, ghosts
<1>12. CASE AnnotateDump
  BY <1>12 DEF AnnotateDump, AnnotatedText, NextFile, Writing, db, ghosts
<1>13. CASE DatabaseFault
  BY <1>13 DEF DatabaseFault, dir, run, db, ghosts
<1>14. CASE CommitUnacknowledged
  BY <1>14 DEF CommitUnacknowledged, Commit, dir, run
<1>15. CASE RemoveFault
  BY <1>15 DEF RemoveFault, dir, run, db
<1>16. CASE AnnotateFault
  BY <1>16 DEF AnnotateFault, NextFile, dir, db
<1>17. CASE Crash
  BY <1>17 DEF Crash, Commit, dir, db
<1>18. CASE UNCHANGED vars
  BY <1>18 DEF vars, dir, run, db, ghosts
<1>19. ASSUME NEW f \in File, ReadFault(f) PROVE CopiesInv'
  BY <1>19 DEF ReadFault, NextInOrder, Fault, dir, db
<1>. QED
  BY <1>1, <1>2, <1>3, <1>4, <1>5, <1>6, <1>7, <1>8, <1>9, <1>10, <1>11, <1>12, <1>13,
     <1>14, <1>15, <1>16, <1>17, <1>18, <1>19
  DEF Next, Producer, Writer, Failure

(* However producers retry and rewrite names, whatever crashes, and in     *)
(* whatever order files are read: a batch has at most one copy more than   *)
(* the faults that struck between its commit and the removal of its file.  *)
THEOREM NoUnexplainedDuplicates == Spec => []CopiesBounded
<1>1. Init => DupInv
  BY TypeInit, NamedInit, CopiesInit DEF DupInv
<1>2. DupInv /\ [Next]_vars => DupInv'
  BY TypeNext, NamedNext, CopiesNext DEF DupInv
<1>3. DupInv => CopiesBounded
  BY DEF DupInv, CopiesInv, CopiesBounded
<1>. QED BY <1>1, <1>2, <1>3, PTL DEF Spec

-----------------------------------------------------------------------------
(* Loss.                                                                   *)

(* Where the writer holds the name of a file: listed, or opened.           *)
Held(f) == f \in todo \/ (pc \notin {"idle", "pick"} /\ f = cur)

(* The strengthening of KeptUntilLoaded.  The file of a sole batch is      *)
(* listed only once it is published; whoever is about to empty or remove   *)
(* it has the batch in memory, and has loaded it before removing.          *)
SoleShape ==
  /\ \A b \in Batch \ Direct : stage[b] \in {"new", "done"}
  /\ \A b \in Batch : Sole(b) /\ stage[b] = "new" => content[FileOf[b]] = Absent
  /\ \A b \in Batch : Sole(b) /\ Held(FileOf[b]) => stage[b] = "done"
  /\ pc = "remove" => commits[payload] > 0
  /\ pc = "skip" => Keys[payload] = {}

SoleKept ==
  \A b \in Batch :
    Sole(b) /\ stage[b] = "done" /\ commits[b] = 0 /\ b \notin damaged =>
      /\ pc \notin {"idle", "pick"} /\ cur = FileOf[b] => payload = b
      /\ IF pc = "dump" /\ cur = FileOf[b]
           THEN linked /\ content[FileOf[b]] = Torn
           ELSE content[FileOf[b]] = b

LossInv == TypeInv /\ Named /\ SoleShape /\ SoleKept

LEMMA LossInit == Init => SoleShape /\ SoleKept
BY ShapeAssumption DEF Init, SoleShape, SoleKept, Held, Sole

LEMMA SoleShapeNext == LossInv /\ [Next]_vars => SoleShape'
<1>. SUFFICES ASSUME LossInv, [Next]_vars PROVE SoleShape'
  OBVIOUS
<1>. USE SentinelAssumption, ShapeAssumption
         DEF LossInv, TypeInv, TypeOK, Named, SoleShape, Held, Sole
<1>1. ASSUME NEW b \in Batch, PublishAtomic(b) PROVE SoleShape'
  BY <1>1 DEF PublishAtomic, CanStart, writerSide, run, db, ghosts
<1>2. ASSUME NEW b \in Batch, DirectOpen(b) PROVE SoleShape'
  BY <1>2 DEF DirectOpen, CanStart, writerSide, run, db, ghosts
<1>3. ASSUME NEW b \in Batch, DirectClose(b) PROVE SoleShape'
  BY <1>3 DEF DirectClose, writerSide, run, db, ghosts
<1>4. ASSUME NEW b \in Batch, DirectDie(b) PROVE SoleShape'
  BY <1>4 DEF DirectDie, writerSide, run, db, ghosts
<1>5. CASE StartRun
  BY <1>5 DEF StartRun, Present, dir, db, ghosts
<1>6. CASE FinishRun
  BY <1>6 DEF FinishRun, dir, run, db, ghosts
<1>7. CASE BudgetExpired
  BY <1>7 DEF BudgetExpired, dir, db, ghosts
<1>8. ASSUME NEW f \in File, ReadFile(f) PROVE SoleShape'
  BY <1>8 DEF ReadFile, NextInOrder, Verdict, dir, db, ghosts
<1>9. CASE EnsureTable \/ LoadRejected \/ NoConnection
  BY <1>9 DEF EnsureTable, LoadRejected, NoConnection, dir, run, db, ghosts
<1>10. CASE Load
  BY <1>10 DEF Load, Commit, dir, run, ghosts
<1>11. CASE RemoveFile
  BY <1>11 DEF RemoveFile, Unlink, NextFile, Writing, db, ghosts
<1>12. CASE AnnotateOpen
  BY <1>12 DEF AnnotateOpen, Writing, run, db, ghosts
<1>13. CASE AnnotateDump
  BY <1>13 DEF AnnotateDump, AnnotatedText, NextFile, Writing, db, ghosts
<1>14. CASE DatabaseFault
  BY <1>14 DEF DatabaseFault, dir, run, db, ghosts
<1>15. CASE CommitUnacknowledged
  BY <1>15 DEF CommitUnacknowledged, Commit, dir, run
<1>16. CASE RemoveFault
  BY <1>16 DEF RemoveFault, dir, run, db
<1>17. CASE AnnotateFault
  BY <1>17 DEF AnnotateFault, NextFile, dir, db
<1>18. CASE Crash
  BY <1>18 DEF Crash, Commit, dir, db
<1>19. CASE UNCHANGED vars
  BY <1>19 DEF vars, dir, run, db, ghosts
<1>20. ASSUME NEW f \in File, ReadFault(f) PROVE SoleShape'
  BY <1>20 DEF ReadFault, NextInOrder, Fault, dir, db
<1>. QED
  BY <1>1, <1>2, <1>3, <1>4, <1>5, <1>6, <1>7, <1>8, <1>9, <1>10, <1>11, <1>12, <1>13,
     <1>14, <1>15, <1>16, <1>17, <1>18, <1>19, <1>20
  DEF Next, Producer, Writer, Failure

LEMMA SoleKeptNext == LossInv /\ [Next]_vars => SoleKept'
<1>. SUFFICES ASSUME LossInv, [Next]_vars PROVE SoleKept'
  OBVIOUS
<1>. USE SentinelAssumption, ShapeAssumption
         DEF LossInv, TypeInv, TypeOK, Named, SoleShape, SoleKept, Held, Sole
<1>1. ASSUME NEW b \in Batch, PublishAtomic(b) PROVE SoleKept'
  BY <1>1 DEF PublishAtomic, CanStart, writerSide, run, db, ghosts
<1>2. ASSUME NEW b \in Batch, DirectOpen(b) PROVE SoleKept'
  BY <1>2 DEF DirectOpen, CanStart, writerSide, run, db, ghosts
<1>3. ASSUME NEW b \in Batch, DirectClose(b) PROVE SoleKept'
  BY <1>3 DEF DirectClose, writerSide, run, db, ghosts
<1>4. ASSUME NEW b \in Batch, DirectDie(b) PROVE SoleKept'
  BY <1>4 DEF DirectDie, writerSide, run, db, ghosts
<1>5. CASE StartRun
  BY <1>5 DEF StartRun, Present, dir, db, ghosts
<1>6. CASE FinishRun
  BY <1>6 DEF FinishRun, dir, run, db, ghosts
<1>7. CASE BudgetExpired
  BY <1>7 DEF BudgetExpired, dir, db, ghosts
<1>8. ASSUME NEW f \in File, ReadFile(f) PROVE SoleKept'
  BY <1>8 DEF ReadFile, NextInOrder, Verdict, dir, db, ghosts
<1>9. CASE EnsureTable \/ LoadRejected \/ NoConnection
  BY <1>9 DEF EnsureTable, LoadRejected, NoConnection, dir, run, db, ghosts
<1>10. CASE Load
  BY <1>10 DEF Load, Commit, dir, run, ghosts
<1>11. CASE RemoveFile
  BY <1>11 DEF RemoveFile, Unlink, NextFile, Writing, db, ghosts
<1>12. CASE AnnotateOpen
  BY <1>12 DEF AnnotateOpen, Writing, run, db, ghosts
<1>13. CASE AnnotateDump
  <2>1. SUFFICES ASSUME NEW b \in Batch, Sole(b), stage'[b] = "done", commits'[b] = 0, b \notin damaged'
                 PROVE  pc' = "pick" /\ content'[FileOf[b]] = b
    BY <1>13 DEF AnnotateDump, NextFile
  <2>2. stage[b] = "done" /\ commits[b] = 0 /\ b \notin damaged
    BY <1>13, <2>1 DEF AnnotateDump, db, ghosts
  <2>3. pc' = "pick" /\ pc = "dump"
    BY <1>13 DEF AnnotateDump, NextFile
  <2>4. CASE cur # FileOf[b]
    <3>1. content[FileOf[b]] = b
      BY <2>2, <2>1, <2>4
    <3>. QED BY <3>1, <2>3, <2>4, <1>13 DEF AnnotateDump
  <2>5. CASE cur = FileOf[b]
    <3>1. payload = b
      BY <2>1, <2>2, <2>3, <2>5
    <3>2. Writing(cur) = {}
      BY <2>1, <2>5 DEF Writing
    <3>3. linked /\ content[cur] = Torn
      BY <2>1, <2>2, <2>3, <2>5
    <3>4. AnnotatedText = b
      BY <3>1 DEF AnnotatedText
    <3>5. content' = [content EXCEPT ![cur] = b]
      BY <3>2, <3>3, <3>4, <1>13 DEF AnnotateDump
    <3>. QED BY <3>5, <2>3, <2>5
  <2>. QED BY <2>3, <2>4, <2>5
<1>14. CASE DatabaseFault
  BY <1>14 DEF DatabaseFault, dir, run, db, ghosts
<1>15. CASE CommitUnacknowledged
  BY <1>15 DEF CommitUnacknowledged, Commit, dir, run
<1>16. CASE RemoveFault
  BY <1>16 DEF RemoveFault, dir, run, db
<1>17. CASE AnnotateFault
  BY <1>17 DEF AnnotateFault, NextFile, dir, db
<1>18. CASE Crash
  BY <1>18 DEF Crash, Commit, dir, db
<1>19. CASE UNCHANGED vars
  BY <1>19 DEF vars, dir, run, db, ghosts
<1>20. ASSUME NEW f \in File, ReadFault(f) PROVE SoleKept'
  BY <1>20 DEF ReadFault, NextInOrder, Fault, dir, db
<1>. QED
  BY <1>1, <1>2, <1>3, <1>4, <1>5, <1>6, <1>7, <1>8, <1>9, <1>10, <1>11, <1>12, <1>13,
     <1>14, <1>15, <1>16, <1>17, <1>18, <1>19, <1>20
  DEF Next, Producer, Writer, Failure

(* A batch published atomically under a name of its own (every OBM file)   *)
(* is in pending/ or being written back until it is loaded, whatever it    *)
(* contains, whatever else lies there and whatever fails, except a failure *)
(* to read it or in the middle of its own annotation.                      *)
THEOREM NoLossWhileAtomic == Spec => []KeptUntilLoaded
<1>1. Init => LossInv
  BY TypeInit, NamedInit, LossInit DEF LossInv
<1>2. LossInv /\ [Next]_vars => LossInv'
  BY TypeNext, NamedNext, SoleShapeNext, SoleKeptNext DEF LossInv
<1>3. LossInv => KeptUntilLoaded
  BY DEF LossInv, SoleKept, KeptUntilLoaded
<1>. QED BY <1>1, <1>2, <1>3, PTL DEF Spec

-----------------------------------------------------------------------------
(* Reloading.                                                              *)

(* A batch that was merged once left its keys in a table that is there and *)
(* has a primary key; no later load takes a key away.                      *)
MergedInv ==
  /\ pc = "load" => schema[Meta[payload].table] # NoTable
  /\ \A b \in Batch : commits[b] > 0 =>
       /\ schema[Meta[b].table] # NoTable
       /\ OnConflict(b) => /\ schema[Meta[b].table].keyed
                           /\ \A k \in Keys[b] : row[k] # Nobody

(* The steps that commit.                                                  *)
LEMMA CommitSteps ==
  ASSUME TypeInv, [Next]_vars
  PROVE  \/ schema' = schema /\ row' = row /\ commits' = commits
         \/ EnsureTable
         \/ pc = "load" /\ payload \in Batch /\ Accepts(payload) /\ Commit(payload)
<1>1. CASE Producer \/ UNCHANGED vars
  BY <1>1 DEF Producer, PublishAtomic, DirectOpen, DirectClose, DirectDie, writerSide, vars, db
<1>2. CASE Writer
  BY <1>2 DEF Writer, StartRun, FinishRun, BudgetExpired, ReadFile, Load, LoadRejected,
     NoConnection, RemoveFile, AnnotateOpen, AnnotateDump, db, TypeInv, TypeOK
<1>3. CASE Failure
  BY <1>3 DEF Failure, ReadFault, DatabaseFault, CommitUnacknowledged, RemoveFault, AnnotateFault, Crash,
     db, TypeInv, TypeOK
<1>. QED BY <1>1, <1>2, <1>3 DEF Next

(* Only EnsureTable leads to a load.                                       *)
LEMMA LoadFollowsEnsure ==
  ASSUME TypeInv, [Next]_vars, pc' = "load"
  PROVE  (EnsureTable /\ payload' = payload) \/ (pc = "load" /\ payload' = payload)
<1>1. CASE Producer \/ UNCHANGED vars
  BY <1>1 DEF Producer, PublishAtomic, DirectOpen, DirectClose, DirectDie, writerSide, vars, run
<1>2. CASE Writer
  BY <1>2 DEF Writer, StartRun, FinishRun, BudgetExpired, ReadFile, Verdict, EnsureTable, Load,
     LoadRejected, NoConnection, RemoveFile, NextFile, AnnotateOpen, AnnotateDump, run
<1>3. CASE Failure
  BY <1>3 DEF Failure, ReadFault, DatabaseFault, CommitUnacknowledged, RemoveFault, AnnotateFault, NextFile,
     Crash, run
<1>. QED BY <1>1, <1>2, <1>3 DEF Next

LEMMA MergedNext == TypeInv /\ MergedInv /\ [Next]_vars => MergedInv'
<1>. SUFFICES ASSUME TypeInv, MergedInv, [Next]_vars PROVE MergedInv'
  OBVIOUS
<1>. USE SentinelAssumption, ShapeAssumption DEF MergedInv, TypeInv, TypeOK, OnConflict
<1>1. CASE EnsureTable
  <2>. DEFINE t == Meta[payload].table
  <2>1. payload \in Batch /\ t \in Table
    BY <1>1 DEF EnsureTable, Validated, Valid, MetaType
  <2>2. schema'[t] # NoTable
    BY <1>1, <2>1, ShapeType DEF EnsureTable
  <2>3. \A u : schema[u] # NoTable => schema'[u] = schema[u]
    BY <1>1, <2>1 DEF EnsureTable
  <2>4. row' = row /\ commits' = commits /\ payload' = payload
    BY <1>1 DEF EnsureTable, run
  <2>. QED BY <2>2, <2>3, <2>4
<1>2. CASE schema' = schema /\ row' = row /\ commits' = commits /\ ~EnsureTable
  BY <1>2, LoadFollowsEnsure
<1>3. CASE /\ pc = "load" /\ payload \in Batch /\ Accepts(payload) /\ Commit(payload)
           /\ ~EnsureTable
  <2>1. schema' = schema /\ commits' = [commits EXCEPT ![payload] = @ + 1]
    BY <1>3 DEF Commit
  <2>2. \A k \in Key : row[k] # Nobody => row'[k] # Nobody
    BY <1>3 DEF Commit, Merged
  <2>3. OnConflict(payload) => /\ schema[Meta[payload].table].keyed
                              /\ \A k \in Keys[payload] : row'[k] # Nobody
    BY <1>3 DEF Accepts, Commit, Merged
  <2>4. pc' = "load" => schema'[Meta[payload'].table] # NoTable
    BY <1>3, <2>1, LoadFollowsEnsure
  <2>5. ASSUME NEW b \in Batch, commits'[b] > 0
        PROVE  /\ schema'[Meta[b].table] # NoTable
               /\ OnConflict(b) => /\ schema'[Meta[b].table].keyed
                                   /\ \A k \in Keys[b] : row'[k] # Nobody
    <3>1. CASE b = payload
      BY <1>3, <2>1, <2>3, <3>1
    <3>2. CASE b # payload
      BY <1>3, <2>1, <2>2, <2>5, <3>2
    <3>. QED BY <3>1, <3>2
  <2>. QED BY <2>4, <2>5
<1>. QED BY <1>1, <1>2, <1>3, CommitSteps

(* A history batch that is loaded again, after a crash or a failed removal *)
(* and whatever was loaded in between, changes no row of its table.        *)
THEOREM HistoryReloadIdempotent == Spec => ReloadIsIdempotent
<1>. DEFINE Inv == TypeInv /\ MergedInv
<1>1. Init => Inv
  BY TypeInit DEF Init, MergedInv
<1>2. Inv /\ [Next]_vars => Inv'
  BY TypeNext, MergedNext
<1>3. Inv /\ [Next]_vars => ReloadKeepsRows
  <2>. SUFFICES ASSUME Inv, [Next]_vars, NEW b \in Batch, commits[b] > 0,
                       commits'[b] > commits[b], Meta[b].method = "copy", Meta[b].target
                PROVE  row' = row
    BY DEF ReloadKeepsRows
  <2>. USE DEF TypeInv, TypeOK
  <2>1. CASE schema' = schema /\ row' = row /\ commits' = commits
    BY <2>1
  <2>2. CASE EnsureTable
    BY <2>2 DEF EnsureTable
  <2>3. CASE pc = "load" /\ payload \in Batch /\ Accepts(payload) /\ Commit(payload)
    <3>1. b = payload
      BY <2>3 DEF Commit
    <3>2. row' = Merged(b)
      BY <2>3, <3>1 DEF Commit, MergedInv, OnConflict
    <3>3. \A k \in Keys[b] : row[k] # Nobody
      BY DEF MergedInv, OnConflict
    <3>. QED BY <3>2, <3>3 DEF Merged
  <2>. QED BY <2>1, <2>2, <2>3, CommitSteps
<1>. QED BY <1>1, <1>2, <1>3, PTL DEF Spec, ReloadIsIdempotent

-----------------------------------------------------------------------------
(* The summary.                                                            *)

(* No file is deferred before the run ends.                                *)
AccountedInv == Accounted /\ (pc # "idle" => count.deferred = 0)

LEMMA AccountedInit == Init => AccountedInv
BY FS_EmptySet DEF Init, AccountedInv, Accounted, InFlight, Zero

LEMMA AccountedNext == TypeInv /\ AccountedInv /\ [Next]_vars => AccountedInv'
<1>. SUFFICES ASSUME TypeInv, AccountedInv, [Next]_vars PROVE AccountedInv'
  OBVIOUS
<1>0. Cardinality(found) \in Nat /\ Cardinality(todo) \in Nat /\ IsFiniteSet(todo)
  BY FiniteTodo DEF TypeInv
<1>. USE <1>0 DEF TypeInv, TypeOK, AccountedInv, Accounted, InFlight
<1>1. CASE Producer
  BY <1>1 DEF Producer, PublishAtomic, DirectOpen, DirectClose, DirectDie, writerSide, run
<1>2. CASE StartRun
  <2>1. IsFiniteSet(Present) /\ Cardinality(Present) \in Nat
    BY FileAssumption, FS_Subset, FS_CardinalityType DEF Present
  <2>2. Cardinality(todo') = Cardinality(found') /\ Cardinality(todo') \in Nat
    BY <1>2, <2>1 DEF StartRun
  <2>. QED BY <1>2, <2>2 DEF StartRun, Zero
<1>3. CASE FinishRun
  BY <1>3 DEF FinishRun, run
<1>4. CASE BudgetExpired
  <2>1. Cardinality(todo') = 0 /\ found' = found /\ pc = "pick" /\ pc' = "idle"
    BY <1>4, FS_EmptySet DEF BudgetExpired
  <2>2. count' = [count EXCEPT !["deferred"] = Cardinality(todo)]
    BY <1>4 DEF BudgetExpired, Remaining
  <2>. QED BY <2>1, <2>2
<1>5. ASSUME NEW f \in File, ReadFile(f) PROVE AccountedInv'
  <2>1. Cardinality(todo') = Cardinality(todo) - 1 /\ Cardinality(todo') \in Nat
    BY <1>5, FS_RemoveElement, FS_CardinalityType DEF ReadFile, NextInOrder
  <2>2. found' = found /\ pc = "pick"
    BY <1>5 DEF ReadFile
  <2>3. CASE pc' = "annotate"
    BY <1>5, <2>1, <2>2, <2>3 DEF ReadFile, Bump
  <2>4. CASE pc' # "annotate"
    <3>1. pc' \in {"skip", "ensure"} /\ count' = count
      BY <1>5, <2>4 DEF ReadFile, Verdict
    <3>. QED BY <3>1, <2>1, <2>2
  <2>. QED BY <2>3, <2>4
<1>6. CASE EnsureTable \/ Load
  BY <1>6 DEF EnsureTable, Load, run
<1>7. CASE LoadRejected \/ NoConnection \/ DatabaseFault \/ CommitUnacknowledged \/ RemoveFault
  BY <1>7 DEF LoadRejected, NoConnection, DatabaseFault, CommitUnacknowledged, RemoveFault,
     Bump, run
<1>8. CASE RemoveFile
  BY <1>8 DEF RemoveFile, NextFile, Bump
<1>9. CASE AnnotateOpen
  BY <1>9 DEF AnnotateOpen, run
<1>10. CASE AnnotateDump \/ AnnotateFault
  BY <1>10 DEF AnnotateDump, AnnotateFault, NextFile
<1>11. CASE Crash
  BY <1>11, FS_EmptySet DEF Crash, Zero
<1>12. CASE UNCHANGED vars
  BY <1>12 DEF vars, run
<1>13. ASSUME NEW f \in File, ReadFault(f) PROVE AccountedInv'
  <2>1. Cardinality(todo') = Cardinality(todo) - 1 /\ Cardinality(todo') \in Nat
    BY <1>13, FS_RemoveElement, FS_CardinalityType DEF ReadFault, NextInOrder
  <2>. QED BY <1>13, <2>1 DEF ReadFault, Bump
<1>. QED
  BY <1>1, <1>2, <1>3, <1>4, <1>5, <1>6, <1>7, <1>8, <1>9, <1>10, <1>11, <1>12, <1>13
  DEF Next, Writer, Failure

(* The four counters, the files not reached and the one in hand always add *)
(* up to the listing, so the summary of a run misses and repeats no file.  *)
THEOREM SummaryAccountsForEveryFile == Spec => []Accounted
<1>1. Init => TypeInv /\ AccountedInv
  BY TypeInit, AccountedInit
<1>2. TypeInv /\ AccountedInv /\ [Next]_vars => (TypeInv /\ AccountedInv)'
  BY TypeNext, AccountedNext
<1>3. AccountedInv => Accounted
  BY DEF AccountedInv
<1>. QED BY <1>1, <1>2, <1>3, PTL DEF Spec
-----------------------------------------------------------------------------
(* As long as nothing fails, the rows of a table never go back to an older *)
(* snapshot: for all batches of SnapshotOrder, with any backlog in         *)
(* pending/, runs cut off by their budget, and files rewritten meanwhile.  *)

(* No upsert of b is accepted, now or later.                               *)
Doomed(b) == \/ ~Valid(b)
             \/ LET s == schema[Meta[b].table]
                IN  s # NoTable /\ (~(LoadCols(b) \subseteq s.cols) \/ ~s.keyed)

(* b would replace rows if the writer met it.                              *)
Live(b) == Meta[b].method = "upsert" /\ ~Doomed(b)

NoneDead == connUp /\ \A b \in Batch : stage[b] # "dead"

(* A snapshot is written only after the older ones of its table.           *)
InTurn == \A b, c \in Batch : Older(b, c) /\ stage[c] # "new" => stage[b] = "done"

(* A name is there because of a batch that has it.                         *)
Origin == \A f \in File : content[f] # Absent \/ f \in found =>
            \E d \in Batch : FileOf[d] = f /\ stage[d] # "new"

(* The files of a listing are taken in order; what is written back is      *)
(* refused for good.                                                       *)
AtFile == pc \notin {"idle", "pick"} => cur \in found /\ \A g \in todo : cur < g
OnHand == /\ pc \in {"idle", "pick"} => payload = Nobody
          /\ pc \in {"annotate", "dump"} /\ payload \in Batch => ~Live(payload)

(* The file of the batch in memory does not hold an older one.             *)
LastInHand == \A b, c \in Batch :
  payload = c /\ Older(b, c) /\ FileOf[b] = FileOf[c] => content[FileOf[b]] # b

(* What lies in a file before one of the listing is still to be taken.     *)
Passed == \A b, d \in Batch :
  /\ pc # "idle" /\ Older(b, d) /\ FileOf[b] < FileOf[d] /\ FileOf[d] \in found
  /\ Live(b) /\ content[FileOf[b]] = b
  => FileOf[b] \in todo \/ payload = b

(* What is older than a row is not met any more.                           *)
Overtaken == \A k \in Key : row[k] \in Batch =>
  /\ k \in Keys[row[k]]
  /\ \A b \in Batch : b < row[k] /\ k \in Keys[b] /\ Live(b) => ~Pending(b)

CalmInv == /\ NoneDead /\ InTurn /\ Origin /\ AtFile /\ OnHand /\ LastInHand
           /\ Passed /\ Overtaken

OrderInv == faults = 0 => CalmInv
Ground   == TypeInv /\ Named /\ MergedInv

-----------------------------------------------------------------------------
(* The steps that are left when nothing fails.                             *)
Calm == /\ Ground /\ CalmInv /\ [Next]_vars /\ faults' = 0

LEMMA CalmSteps ==
  ASSUME Calm
  PROVE  \/ \E b \in Batch : PublishAtomic(b) \/ DirectOpen(b) \/ DirectClose(b)
         \/ StartRun \/ FinishRun \/ BudgetExpired \/ (\E f \in File : ReadFile(f))
         \/ EnsureTable \/ Load \/ LoadRejected
         \/ RemoveFile \/ AnnotateOpen \/ AnnotateDump \/ UNCHANGED vars
<1>1. ~Fault
  BY ShapeAssumption DEF Calm, Ground, TypeInv, TypeOK, Fault
<1>2. ~Failure /\ ~(\E b \in Batch : DirectDie(b))
  BY <1>1 DEF Failure, ReadFault, DatabaseFault, CommitUnacknowledged, RemoveFault,
              AnnotateFault, Crash, DirectDie
<1>3. ~NoConnection
  BY DEF NoConnection, Calm, CalmInv, NoneDead
<1>. QED BY <1>2, <1>3 DEF Calm, Next, Producer, Writer

(* Producers go on from "new" to "done".                                   *)
LEMMA StageMoves ==
  ASSUME Calm, NEW b \in Batch
  PROVE  /\ stage[b] = "done" => stage'[b] = "done"
         /\ stage[b] # "new" => stage'[b] # "new"
         /\ stage[b] = "new" /\ stage'[b] # "new" => CanStart(b)
         /\ stage'[b] # "dead" /\ connUp'
<1>. USE DEF Calm, Ground, TypeInv, TypeOK, CalmInv, NoneDead
<1>1. ASSUME NEW c \in Batch, PublishAtomic(c) \/ DirectOpen(c) \/ DirectClose(c)
      PROVE  /\ connUp' = connUp
             /\ stage'[b] = stage[b] \/ (c = b /\ stage'[b] \in {"writing", "done"} /\
                                         (CanStart(b) \/ stage[b] \in {"writing", "clobbered", "unlinked"}))
  BY <1>1 DEF PublishAtomic, DirectOpen, DirectClose, writerSide, CanStart
<1>2. ASSUME NEW c \in Batch, PublishAtomic(c) \/ DirectOpen(c) \/ DirectClose(c)
      PROVE  stage[b] # "done" \/ stage'[b] = "done"
  BY <1>1, <1>2 DEF CanStart
<1>3. CASE RemoveFile \/ AnnotateOpen \/ AnnotateDump
  BY <1>3 DEF RemoveFile, AnnotateOpen, AnnotateDump, Writing
<1>4. CASE \/ StartRun \/ FinishRun \/ BudgetExpired \/ (\E f \in File : ReadFile(f))
           \/ EnsureTable \/ Load \/ LoadRejected \/ UNCHANGED vars
  BY <1>4 DEF StartRun, FinishRun, BudgetExpired, ReadFile, EnsureTable, Load, LoadRejected,
              vars, dir
<1>. QED BY <1>1, <1>2, <1>3, <1>4, CalmSteps

(* A text gets into its file from its producer or from the writer's memory.*)
LEMMA ContentMoves ==
  ASSUME Calm
  PROVE  /\ \A b \in Batch : content'[FileOf[b]] = b =>
              \/ content[FileOf[b]] = b \/ stage[b] # "done" \/ (payload = b /\ pc = "dump")
         /\ \A f \in File : content'[f] # Absent =>
              \/ content[f] # Absent \/ (f = cur /\ pc \in {"annotate", "dump"})
              \/ \E d \in Batch : FileOf[d] = f /\ stage'[d] # "new"
<1>. USE SentinelAssumption, ShapeAssumption DEF Calm, Ground, TypeInv, TypeOK
<1>1. ASSUME NEW c \in Batch, PublishAtomic(c) \/ DirectOpen(c) \/ DirectClose(c)
      PROVE  /\ stage[c] # "done" /\ stage'[c] # "new"
             /\ \/ content' = content
                \/ content' = [content EXCEPT ![FileOf[c]] = c]
                \/ content' = [content EXCEPT ![FileOf[c]] = Torn]
  BY <1>1 DEF PublishAtomic, DirectOpen, DirectClose, CanStart
<1>2. CASE RemoveFile \/ AnnotateOpen \/ AnnotateDump
  <2>1. /\ \/ content' = content
           \/ RemoveFile /\ content' = [content EXCEPT ![cur] = Absent]
           \/ pc \in {"annotate", "dump"} /\ content' = [content EXCEPT ![cur] = Torn]
           \/ pc = "dump" /\ content' = [content EXCEPT ![cur] = AnnotatedText]
    BY <1>2 DEF RemoveFile, AnnotateOpen, AnnotateDump, Unlink
  <2>2. \A b \in Batch : AnnotatedText = b => payload = b
    BY DEF AnnotatedText
  <2>. QED BY <2>1, <2>2
<1>3. CASE \/ StartRun \/ FinishRun \/ BudgetExpired \/ (\E f \in File : ReadFile(f))
           \/ EnsureTable \/ Load \/ LoadRejected \/ UNCHANGED vars
  BY <1>3 DEF StartRun, FinishRun, BudgetExpired, ReadFile, EnsureTable, Load, LoadRejected,
              vars, dir
<1>4. CASE \E c \in Batch : PublishAtomic(c) \/ DirectOpen(c) \/ DirectClose(c)
  <2>1. PICK c \in Batch : PublishAtomic(c) \/ DirectOpen(c) \/ DirectClose(c)
    BY <1>4
  <2>2. ASSUME NEW b \in Batch, content'[FileOf[b]] = b, content[FileOf[b]] # b
        PROVE  stage[b] # "done"
    BY <1>1, <2>1, <2>2
  <2>3. ASSUME NEW f \in File, content'[f] # Absent, content[f] = Absent
        PROVE  FileOf[c] = f
    BY <1>1, <2>1, <2>3
  <2>. QED BY <1>1, <2>1, <2>2, <2>3
<1>. QED BY <1>2, <1>3, <1>4, CalmSteps

(* The loop: a new listing, the next file, a file that is done with, the   *)
(* end of the run, or steps with the same file.                            *)
LEMMA LoopMoves ==
  ASSUME Calm
  PROVE  \/ StartRun \/ (\E f \in File : ReadFile(f))
         \/ /\ found' = found /\ todo' = todo /\ payload' = Nobody
            /\ RemoveFile \/ pc = "dump"
         \/ pc' = "idle" /\ payload' = payload /\ found' = found /\ pc = "pick"
         \/ /\ found' = found /\ todo' = todo /\ payload' = payload /\ cur' = cur
            /\ (pc' = "idle" <=> pc = "idle") /\ (pc' = "pick" <=> pc = "pick")
<1>1. CASE \E b \in Batch : PublishAtomic(b) \/ DirectOpen(b) \/ DirectClose(b)
  BY <1>1 DEF PublishAtomic, DirectOpen, DirectClose, writerSide, run
<1>2. CASE FinishRun \/ BudgetExpired
  BY <1>2 DEF FinishRun, BudgetExpired, run
<1>3. CASE EnsureTable \/ Load \/ LoadRejected \/ AnnotateOpen \/ UNCHANGED vars
  BY <1>3 DEF EnsureTable, Load, LoadRejected, AnnotateOpen, vars, run
<1>4. CASE RemoveFile \/ AnnotateDump
  BY <1>4 DEF RemoveFile, AnnotateDump, NextFile
<1>. QED BY <1>1, <1>2, <1>3, <1>4, CalmSteps

(* What no longer lives, does not come back.                               *)
LEMMA LiveBefore ==
  ASSUME Calm, NEW b \in Batch, Live(b)'
  PROVE  Live(b)
<1>1. schema' = schema \/ EnsureTable
  BY CommitSteps DEF Calm, Ground, Commit
<1>2. \A t \in Table : schema[t] # NoTable => schema'[t] = schema[t]
  BY <1>1 DEF EnsureTable, Calm, Ground, TypeInv, TypeOK
<1>3. Valid(b) => Meta[b].table \in Table
  BY ShapeAssumption DEF Valid, MetaType
<1>. QED BY <1>2, <1>3 DEF Live, Doomed, Valid, LoadCols

LEMMA NotPendingStays ==
  ASSUME Calm, NEW b \in Batch, ~Pending(b)
  PROVE  ~Pending(b)'
<1>1. stage[b] = "done" /\ content[FileOf[b]] # b /\ payload # b
  BY DEF Pending, Calm, CalmInv, NoneDead
<1>2. stage'[b] = "done" /\ content'[FileOf[b]] # b
  BY <1>1, StageMoves, ContentMoves
<1>3. payload' # b
  <2>1. CASE \E f \in File : ReadFile(f)
    BY <1>1, <2>1, SentinelAssumption DEF ReadFile, Calm, Ground, Named
  <2>2. CASE StartRun
    BY <2>2, SentinelAssumption DEF StartRun
  <2>. QED BY <1>1, <2>1, <2>2, LoopMoves, SentinelAssumption
<1>. QED BY <1>2, <1>3 DEF Pending

-----------------------------------------------------------------------------
(* The parts of the invariant, one by one.                                 *)

LEMMA InTurnNext ==
  ASSUME SnapshotOrder, Calm
  PROVE  InTurn'
<1>. SUFFICES ASSUME NEW b \in Batch, NEW c \in Batch, Older(b, c), stage'[c] # "new"
              PROVE  stage'[b] = "done"
  BY DEF InTurn, Older, Upserted
<1>1. CASE stage[c] # "new"
  BY <1>1, StageMoves DEF Calm, CalmInv, InTurn
<1>2. CASE stage[c] = "new"
  <2>1. b \in After[c] /\ CanStart(c)
    BY <1>2, StageMoves DEF SnapshotOrder
  <2>2. stage[b] = "done"
    BY <2>1 DEF CanStart, Calm, CalmInv, NoneDead
  <2>. QED BY <2>2, StageMoves
<1>. QED BY <1>1, <1>2

LEMMA OriginNext ==
  ASSUME Calm
  PROVE  Origin'
<1>. SUFFICES ASSUME NEW f \in File, content'[f] # Absent \/ f \in found'
              PROVE  \E d \in Batch : FileOf[d] = f /\ stage'[d] # "new"
  BY DEF Origin
<1>1. CASE content[f] # Absent \/ f \in found
  BY <1>1, StageMoves DEF Calm, CalmInv, Origin
<1>2. CASE content[f] = Absent /\ content'[f] # Absent
  <2>1. CASE f = cur /\ pc \in {"annotate", "dump"}
    BY <1>1, <2>1 DEF Calm, CalmInv, AtFile
  <2>. QED BY <1>2, <2>1, ContentMoves
<1>3. CASE f \in found' /\ f \notin found
  <2>1. StartRun \/ \E g \in File : ReadFile(g)
    BY <1>3, LoopMoves
  <2>2. content[f] # Absent
    BY <1>3, <2>1 DEF StartRun, Present, ReadFile
  <2>. QED BY <1>1, <2>2
<1>. QED BY <1>1, <1>2, <1>3

LEMMA AtFileNext ==
  ASSUME Calm
  PROVE  AtFile'
<1>1. CASE StartRun
  BY <1>1 DEF StartRun, AtFile
<1>2. ASSUME NEW f \in File, ReadFile(f) PROVE AtFile'
  <2>1. f \in found /\ found' = found /\ todo' = todo \ {f} /\ cur' = f
    BY <1>2 DEF ReadFile, NextInOrder, Calm, Ground, TypeInv, TypeOK
  <2>2. \A g \in todo' : f < g
    BY <1>2, <2>1, FileAssumption DEF ReadFile, NextInOrder, Calm, Ground, TypeInv, TypeOK
  <2>. QED BY <2>1, <2>2 DEF AtFile
<1>3. CASE RemoveFile \/ pc = "dump"
  <2>1. pc' = "pick" \/ (found' = found /\ todo' = todo /\ cur' = cur /\ pc \notin {"idle", "pick"})
    <3>1. pc \notin {"idle", "pick"}
      BY <1>3 DEF RemoveFile
    <3>2. CASE RemoveFile \/ AnnotateDump
      BY <3>2 DEF RemoveFile, AnnotateDump, NextFile
    <3>3. ASSUME NEW b \in Batch, PublishAtomic(b) \/ DirectOpen(b) \/ DirectClose(b)
          PROVE  found' = found /\ todo' = todo /\ cur' = cur
      BY <3>3 DEF PublishAtomic, DirectOpen, DirectClose, writerSide, run
    <3>4. CASE UNCHANGED vars
      BY <3>1, <3>4 DEF vars, run
    <3>. QED
      BY <1>3, <3>1, <3>2, <3>3, <3>4, CalmSteps
      DEF StartRun, FinishRun, BudgetExpired, ReadFile, EnsureTable, Load, LoadRejected, AnnotateOpen
  <2>. QED BY <2>1 DEF AtFile, Calm, CalmInv
<1>. QED BY <1>1, <1>2, <1>3, LoopMoves DEF AtFile, Calm, CalmInv

LEMMA OnHandNext ==
  ASSUME Calm
  PROVE  OnHand'
<1>. USE SentinelAssumption, ShapeAssumption
<1>1. CASE StartRun
  BY <1>1 DEF StartRun, OnHand
<1>2. ASSUME NEW f \in File, ReadFile(f) PROVE OnHand'
  <2>1. payload' \in Batch /\ pc' \in {"annotate", "dump"} => ~Valid(payload')
    BY <1>2 DEF ReadFile, Verdict
  <2>2. pc' \notin {"idle", "pick"}
    BY <1>2 DEF ReadFile, Verdict
  <2>. QED BY <2>1, <2>2 DEF OnHand, Live, Doomed, Valid
<1>3. CASE LoadRejected
  <2>1. payload' = payload /\ pc' = "annotate" /\ schema' = schema /\ pc = "load"
        /\ ~Accepts(payload)
    BY <1>3 DEF LoadRejected, run, db
  <2>2. /\ payload \in Batch /\ Valid(payload) /\ schema[Meta[payload].table] # NoTable
    BY <2>1 DEF Calm, Ground, TypeInv, TypeOK, Validated, MergedInv
  <2>3. Meta[payload].method = "upsert" => OnConflict(payload)
    BY <2>2 DEF OnConflict, Valid
  <2>4. ~Live(payload)
    BY <2>1, <2>2, <2>3 DEF Live, Doomed, Accepts
  <2>. QED BY <2>1, <2>4 DEF OnHand, Live, Doomed, Valid, LoadCols
<1>4. CASE RemoveFile \/ AnnotateDump
  BY <1>4 DEF RemoveFile, AnnotateDump, NextFile, OnHand
<1>5. CASE FinishRun \/ BudgetExpired
  BY <1>5 DEF FinishRun, BudgetExpired, run, OnHand, Calm, CalmInv
<1>6. CASE EnsureTable \/ Load
  BY <1>6 DEF EnsureTable, Load, OnHand
<1>7. CASE \/ (\E b \in Batch : PublishAtomic(b) \/ DirectOpen(b) \/ DirectClose(b))
           \/ AnnotateOpen \/ UNCHANGED vars
  <2>1. /\ payload' = payload /\ schema' = schema
        /\ pc' = pc \/ (pc = "annotate" /\ pc' = "dump")
    BY <1>7 DEF PublishAtomic, DirectOpen, DirectClose, AnnotateOpen, vars, writerSide, run, db
  <2>2. Live(payload)' => Live(payload)
    BY <2>1 DEF Live, Doomed, Valid, LoadCols
  <2>. QED BY <2>1, <2>2 DEF OnHand, Calm, CalmInv
<1>. QED BY <1>1, <1>2, <1>3, <1>4, <1>5, <1>6, <1>7, CalmSteps

LEMMA LastInHandNext ==
  ASSUME SnapshotOrder, Calm
  PROVE  LastInHand'
<1>. SUFFICES ASSUME NEW b \in Batch, NEW c \in Batch, payload' = c, Older(b, c),
                     FileOf[b] = FileOf[c], content'[FileOf[b]] = b
              PROVE  FALSE
  BY DEF LastInHand, Older, Upserted
<1>1. b # c
  BY BatchAssumption DEF Older
<1>2. CASE payload = c
  <2>1. stage[c] = "done"
    BY <1>2 DEF Calm, Ground, Named
  <2>2. stage[b] = "done"
    BY <2>1 DEF Calm, CalmInv, InTurn
  <2>3. content[FileOf[b]] = b
    BY <1>1, <1>2, <2>2, ContentMoves
  <2>. QED BY <1>2, <2>3 DEF Calm, CalmInv, LastInHand
<1>3. CASE payload # c
  <2>1. PICK f \in File : ReadFile(f)
    BY <1>3, LoopMoves, SentinelAssumption DEF StartRun
  <2>2. content[f] = c /\ content' = content
    BY <2>1, SentinelAssumption DEF ReadFile, dir
  <2>3. FileOf[c] = f
    BY <2>2 DEF Calm, Ground, Named
  <2>. QED BY <1>1, <2>2, <2>3
<1>. QED BY <1>2, <1>3

(* A name of the listing shows that all older snapshots were there when it *)
(* was made.                                                               *)
LEMMA OlderWasThere ==
  ASSUME SnapshotOrder, InTurn, Origin,
         NEW b \in Batch, NEW d \in Batch, Older(b, d), FileOf[b] < FileOf[d],
         FileOf[d] \in found
  PROVE  stage[b] = "done"
<1>. USE BatchAssumption, FileAssumption, ShapeAssumption
<1>1. PICK e \in Batch : FileOf[e] = FileOf[d] /\ stage[e] # "new"
  BY DEF Origin
<1>2. Meta[e].table = Meta[d].table
  BY <1>1 DEF SnapshotOrder
<1>3. ~(e < b) /\ e # b
  <2>1. FileOf[b] \in Nat /\ FileOf[d] \in Nat
    OBVIOUS
  <2>2. e < b => FileOf[e] <= FileOf[b]
    BY <1>2 DEF SnapshotOrder, Older
  <2>. QED BY <1>1, <2>1, <2>2
<1>4. Older(b, e)
  BY <1>2, <1>3 DEF Older
<1>. QED BY <1>1, <1>4 DEF InTurn

LEMMA PassedNext ==
  ASSUME SnapshotOrder, Calm
  PROVE  Passed'
<1>. SUFFICES ASSUME NEW b \in Batch, NEW d \in Batch, pc' # "idle", Older(b, d),
                     FileOf[b] < FileOf[d], FileOf[d] \in found', Live(b)',
                     content'[FileOf[b]] = b
              PROVE  FileOf[b] \in todo' \/ payload' = b
  BY DEF Passed, Older, Upserted
<1>. USE SentinelAssumption, ShapeAssumption
<1>1. Live(b)
  BY LiveBefore
<1>2. CASE StartRun
  BY <1>2 DEF StartRun, Present, dir
<1>3. CASE ~StartRun
  <2>1. found' = found /\ pc # "idle"
    BY <1>3, LoopMoves DEF ReadFile, RemoveFile
  <2>2. stage[b] = "done"
    BY <2>1, OlderWasThere DEF Calm, CalmInv
  <2>3. content[FileOf[b]] = b
    BY <1>1, <2>2, ContentMoves DEF Calm, CalmInv, OnHand
  <2>4. FileOf[b] \in todo \/ payload = b
    BY <1>1, <2>1, <2>3 DEF Calm, CalmInv, Passed
  <2>5. ASSUME NEW f \in File, ReadFile(f) PROVE FileOf[b] \in todo' \/ payload' = b
    <3>1. payload # b /\ todo' = todo \ {f}
      BY <2>5 DEF ReadFile, Calm, CalmInv, OnHand
    <3>2. f = FileOf[b] => payload' = b
      BY <2>3, <2>5 DEF ReadFile
    <3>. QED BY <2>4, <3>1, <3>2
  <2>6. CASE RemoveFile \/ pc = "dump"
    <3>1. payload # b
      <4>1. ASSUME payload = b, RemoveFile PROVE FALSE
        <5>1. cur = FileOf[b] /\ content'[cur] = Absent
          BY <4>1 DEF RemoveFile, Unlink, Calm, Ground, Named, TypeInv, TypeOK
        <5>. QED BY <5>1
      <4>. QED BY <1>1, <2>6, <4>1 DEF Calm, CalmInv, OnHand
    <3>2. todo' = todo \/ \E f \in File : ReadFile(f)
      BY <1>3, <2>6, LoopMoves
    <3>. QED BY <2>4, <2>5, <3>1, <3>2
  <2>. QED BY <1>3, <2>4, <2>5, <2>6, LoopMoves
<1>. QED BY <1>2, <1>3

(* When a row is written, everything older is gone.                        *)
LEMMA LoadOvertakes ==
  ASSUME SnapshotOrder, Calm, pc = "load", NEW c \in Batch, payload = c,
         NEW b \in Batch, b < c, Keys[b] \cap Keys[c] # {}, Live(b)
  PROVE  ~Pending(b)
<1>. USE BatchAssumption, FileAssumption, ShapeAssumption DEF Calm, CalmInv
<1>1. Older(b, c)
  BY DEF SnapshotOrder, Older, Upserted, Live
<1>2. stage[c] = "done" /\ cur = FileOf[c]
  BY DEF Ground, Named
<1>3. stage[b] = "done" /\ payload # b
  BY <1>1, <1>2 DEF InTurn
<1>4. content[FileOf[b]] # b
  <2>1. FileOf[b] <= FileOf[c] /\ FileOf[b] \in Nat /\ FileOf[c] \in Nat
    BY <1>1 DEF SnapshotOrder
  <2>2. CASE FileOf[b] = FileOf[c]
    BY <1>1, <2>2 DEF LastInHand
  <2>3. CASE FileOf[b] < FileOf[c]
    <3>1. FileOf[c] \in found /\ FileOf[b] \notin todo
      BY <1>2, <2>1, <2>3 DEF AtFile
    <3>. QED BY <1>1, <1>3, <2>3, <3>1 DEF Passed
  <2>. QED BY <2>1, <2>2, <2>3
<1>. QED BY <1>3, <1>4 DEF Pending

(* The rows that a step changes.                                           *)
LEMMA RowMoves ==
  ASSUME Calm, NEW k \in Key, row'[k] # row[k]
  PROVE  /\ pc = "load" /\ payload \in Batch /\ Accepts(payload) /\ row'[k] = payload
         /\ k \in Keys[payload] /\ (row[k] = Nobody \/ Meta[payload].method = "upsert")
<1>1. pc = "load" /\ payload \in Batch /\ Accepts(payload) /\ Commit(payload)
  BY CommitSteps DEF EnsureTable, Calm, Ground
<1>. QED BY <1>1 DEF Commit, Merged, Calm, Ground, TypeInv, TypeOK

LEMMA OvertakenNext ==
  ASSUME SnapshotOrder, Calm
  PROVE  Overtaken'
<1>. SUFFICES ASSUME NEW k \in Key, row'[k] \in Batch
              PROVE  /\ k \in Keys[row'[k]]
                     /\ \A b \in Batch : b < row'[k] /\ k \in Keys[b] /\ Live(b)' => ~Pending(b)'
  BY DEF Overtaken
<1>1. CASE row'[k] = row[k]
  BY <1>1, LiveBefore, NotPendingStays DEF Calm, CalmInv, Overtaken
<1>2. CASE row'[k] # row[k]
  <2>1. pc = "load" /\ payload \in Batch /\ row'[k] = payload /\ k \in Keys[payload]
    BY <1>2, RowMoves
  <2>2. ASSUME NEW b \in Batch, b < payload, k \in Keys[b], Live(b)' PROVE ~Pending(b)'
    <3>1. Live(b)
      BY <2>2, LiveBefore
    <3>2. ~Pending(b)
      BY <2>1, <2>2, <3>1, LoadOvertakes
    <3>. QED BY <3>2, NotPendingStays
  <2>. QED BY <2>1, <2>2
<1>. QED BY <1>1, <1>2

-----------------------------------------------------------------------------
LEMMA OrderInit == Init => OrderInv
BY SentinelAssumption, ShapeAssumption
   DEF Init, OrderInv, CalmInv, NoneDead, InTurn, Origin, AtFile, OnHand, LastInHand,
       Passed, Overtaken

LEMMA OrderNext ==
  ASSUME SnapshotOrder
  PROVE  Ground /\ OrderInv /\ [Next]_vars => OrderInv'
<1>. SUFFICES ASSUME Ground, OrderInv, [Next]_vars, faults' = 0 PROVE CalmInv'
  BY DEF OrderInv
<1>1. faults = 0
  BY ShapeAssumption
     DEF Ground, TypeInv, TypeOK, Next, Producer, Writer, Failure, PublishAtomic, DirectOpen,
         DirectClose, DirectDie, StartRun, FinishRun, BudgetExpired, ReadFile, EnsureTable, Load,
         LoadRejected, NoConnection, RemoveFile, AnnotateOpen, AnnotateDump, ReadFault,
         DatabaseFault, CommitUnacknowledged, RemoveFault, AnnotateFault, Crash, Fault, vars
<1>2. Calm
  BY <1>1 DEF Calm, OrderInv
<1>3. NoneDead'
  <2>1. \A b \in Batch : stage'[b] # "dead"
    BY <1>2, StageMoves
  <2>2. connUp'
    BY <1>2, CalmSteps
       DEF Calm, CalmInv, NoneDead, PublishAtomic, DirectOpen, DirectClose, writerSide, StartRun,
           FinishRun, BudgetExpired, ReadFile, EnsureTable, Load, LoadRejected, RemoveFile,
           AnnotateOpen, AnnotateDump, vars
  <2>. QED BY <2>1, <2>2 DEF NoneDead
<1>. QED
  BY <1>2, <1>3, InTurnNext, OriginNext, AtFileNext, OnHandNext, LastInHandNext, PassedNext,
     OvertakenNext
  DEF CalmInv

(* Without a failure no row goes back to an older snapshot: what is older  *)
(* than a row was loaded before it, or is refused for good.                *)
THEOREM RowsNeverGoBack ==
  ASSUME SnapshotOrder
  PROVE  Spec => NoRegressionWithoutFaults
<1>1. Init => Ground /\ OrderInv
  BY TypeInit, NamedInit, OrderInit DEF Init, Ground, MergedInv
<1>2. Ground /\ OrderInv /\ [Next]_vars => (Ground /\ OrderInv)'
  BY TypeNext, NamedNext, MergedNext, OrderNext DEF Ground
<1>3. Ground /\ OrderInv /\ [Next]_vars /\ OrderInv' => (faults' = 0 => ~GoesBack)
  <2>. SUFFICES ASSUME Ground, OrderInv, [Next]_vars, faults' = 0,
                       NEW k \in Key, row[k] # Nobody, row'[k] < row[k]
                PROVE  FALSE
    BY DEF GoesBack
  <2>1. faults = 0
    BY ShapeAssumption
       DEF Ground, TypeInv, TypeOK, Next, Producer, Writer, Failure, PublishAtomic, DirectOpen,
           DirectClose, DirectDie, StartRun, FinishRun, BudgetExpired, ReadFile, EnsureTable,
           Load, LoadRejected, NoConnection, RemoveFile, AnnotateOpen, AnnotateDump, ReadFault,
           DatabaseFault, CommitUnacknowledged, RemoveFault, AnnotateFault, Crash, Fault, vars
  <2>2. Calm
    BY <2>1 DEF Calm, OrderInv
  <2>3. row[k] \in Batch /\ row'[k] # row[k]
    <3>1. row[k] \in Batch /\ row[k] \in Nat
      BY BatchAssumption DEF Ground, TypeInv, TypeOK
    <3>2. ~(row[k] < row[k])
      BY <3>1
    <3>. QED BY <3>1, <3>2
  <2>4. /\ pc = "load" /\ payload \in Batch /\ Accepts(payload) /\ row'[k] = payload
        /\ k \in Keys[payload] /\ Meta[payload].method = "upsert"
    BY <2>2, <2>3, RowMoves
  <2>5. Valid(payload) /\ schema[Meta[payload].table] # NoTable
    BY <2>4 DEF Ground, TypeInv, Validated, MergedInv
  <2>6. Live(payload)
    BY <2>4, <2>5 DEF Live, Doomed, Accepts, OnConflict, Valid
  <2>7. ~Pending(payload)
    BY <2>2, <2>3, <2>4, <2>6 DEF Calm, CalmInv, Overtaken
  <2>. QED BY <2>7 DEF Pending
<1>. QED BY <1>1, <1>2, <1>3, PTL DEF Spec, NoRegressionWithoutFaults

-----------------------------------------------------------------------------
(* The refinement: GenericWriter implements Delivery for the batches that  *)
(* are published atomically under a name of their own, next to producers   *)
(* of any other kind.                                                      *)

(* What the refinement needs beyond LossInv and CopiesInv: the counts tell *)
(* exactly which load is in doubt, and while a file is handled its text is *)
(* the batch in memory, or is being written back.                          *)
DoubtInv ==
  /\ pc = "remove" => commits[payload] > redo[payload]
  /\ \A b \in Batch : redo[b] <= commits[b]

HandInv ==
  /\ pc \in {"idle", "pick"} => payload = Nobody
  /\ \A b \in Soles : /\ payload = b /\ pc # "dump" => content[FileOf[b]] = b
                      /\ pc = "dump" /\ cur = FileOf[b]
                           => linked /\ content[FileOf[b]] = Torn
                      /\ pc = "annotate" /\ cur = FileOf[b] /\ content[cur] = b
                           => payload = b \/ b \in damaged

ChannelInv == LossInv /\ CopiesInv /\ DoubtInv /\ HandInv

(* At the start nothing is in doubt and nothing in hand.                   *)
LEMMA ChannelInit == Init => DoubtInv /\ HandInv
BY SentinelAssumption DEF Init, DoubtInv, HandInv, Soles

(* Each fault that is counted against a batch follows a commit of it.      *)
LEMMA DoubtNext == TypeInv /\ DoubtInv /\ [Next]_vars => DoubtInv'
<1>. SUFFICES ASSUME TypeInv, DoubtInv, [Next]_vars PROVE DoubtInv'
  OBVIOUS
<1>. USE DEF TypeInv, TypeOK, DoubtInv
<1>1. CASE Producer
  BY <1>1 DEF Producer, PublishAtomic, DirectOpen, DirectClose, DirectDie, writerSide, run, db, ghosts
<1>2. CASE StartRun \/ FinishRun \/ BudgetExpired
  BY <1>2 DEF StartRun, FinishRun, BudgetExpired, run, db, ghosts
<1>3. ASSUME NEW f \in File, ReadFile(f) \/ ReadFault(f) PROVE DoubtInv'
  BY <1>3 DEF ReadFile, ReadFault, Verdict, db, ghosts
<1>4. CASE EnsureTable \/ LoadRejected \/ NoConnection \/ DatabaseFault
  BY <1>4 DEF EnsureTable, LoadRejected, NoConnection, DatabaseFault, run, db, ghosts
<1>5. CASE Load \/ CommitUnacknowledged
  <2>1. payload \in Batch /\ commits' = [commits EXCEPT ![payload] = @ + 1] /\ payload' = payload
    BY <1>5 DEF Load, CommitUnacknowledged, Commit, run
  <2>2. redo' = redo \/ (pc' = "annotate" /\ redo' = [redo EXCEPT ![payload] = @ + 1])
    BY <1>5 DEF Load, CommitUnacknowledged, ghosts
  <2>. QED BY <2>1, <2>2
<1>6. CASE RemoveFile \/ AnnotateOpen \/ AnnotateDump \/ AnnotateFault
  BY <1>6 DEF RemoveFile, AnnotateOpen, AnnotateDump, AnnotateFault, NextFile, run, db, ghosts
<1>7. CASE RemoveFault
  BY <1>7 DEF RemoveFault, run, db
<1>8. CASE Crash
  BY <1>8 DEF Crash, Commit, db
<1>9. CASE UNCHANGED vars
  BY <1>9 DEF vars, run, db, ghosts
<1>. QED
  BY <1>1, <1>2, <1>3, <1>4, <1>5, <1>6, <1>7, <1>8, <1>9 DEF Next, Writer, Failure

(* Nobody but the writer touches the file of a sole batch it handles.      *)
LEMMA HandNext == LossInv /\ HandInv /\ [Next]_vars => HandInv'
<1>. SUFFICES ASSUME LossInv, HandInv, [Next]_vars PROVE HandInv'
  OBVIOUS
<1>. USE SentinelAssumption, ShapeAssumption
         DEF LossInv, TypeInv, TypeOK, Named, SoleShape, Held, HandInv, Soles, Sole
<1>1. ASSUME NEW b \in Batch, PublishAtomic(b) PROVE HandInv'
  BY <1>1 DEF PublishAtomic, CanStart, writerSide, run, db, ghosts
<1>2. ASSUME NEW b \in Batch, DirectOpen(b) PROVE HandInv'
  BY <1>2 DEF DirectOpen, CanStart, writerSide, run, db, ghosts
<1>3. ASSUME NEW b \in Batch, DirectClose(b) PROVE HandInv'
  BY <1>3 DEF DirectClose, writerSide, run, db, ghosts
<1>4. ASSUME NEW b \in Batch, DirectDie(b) PROVE HandInv'
  BY <1>4 DEF DirectDie, writerSide, run, db, ghosts
<1>5. CASE StartRun \/ FinishRun \/ BudgetExpired
  BY <1>5 DEF StartRun, FinishRun, BudgetExpired, dir, run, db, ghosts
<1>6. ASSUME NEW f \in File, ReadFile(f) \/ ReadFault(f) PROVE HandInv'
  BY <1>6 DEF ReadFile, ReadFault, Verdict, NextInOrder, dir, db, ghosts
<1>7. CASE EnsureTable \/ LoadRejected \/ NoConnection \/ DatabaseFault
  BY <1>7 DEF EnsureTable, LoadRejected, NoConnection, DatabaseFault, dir, run, db, ghosts
<1>8. CASE Load \/ CommitUnacknowledged \/ RemoveFault
  BY <1>8 DEF Load, CommitUnacknowledged, RemoveFault, dir, run
<1>9. CASE RemoveFile
  BY <1>9 DEF RemoveFile, Unlink, NextFile
<1>10. CASE AnnotateOpen
  BY <1>10 DEF AnnotateOpen, run
<1>11. CASE AnnotateDump \/ AnnotateFault \/ Crash
  BY <1>11 DEF AnnotateDump, AnnotateFault, Crash, NextFile, dir
<1>12. CASE UNCHANGED vars
  BY <1>12 DEF vars, dir, run, ghosts
<1>. QED
  BY <1>1, <1>2, <1>3, <1>4, <1>5, <1>6, <1>7, <1>8, <1>9, <1>10, <1>11, <1>12
  DEF Next, Producer, Writer, Failure

-----------------------------------------------------------------------------
(* The mapped steps.                                                       *)

(* What the channel sees of a batch.                                       *)
Seen(b) == <<ChanOf(b), commits[b], redo[b], b \in damaged>>

(* A step that none of the sole batches notices is no step of the channel, *)
(* or a failure elsewhere.                                                 *)
LEMMA Unnoticed ==
  ASSUME \A b \in Soles : Seen(b)' = Seen(b), UNCHANGED faults \/ Fault
  PROVE  [Channel!Next]_(Channel!vars)
<1>1. /\ [b \in Soles |-> ChanOf(b)]' = [b \in Soles |-> ChanOf(b)]
      /\ [b \in Soles |-> commits[b]]' = [b \in Soles |-> commits[b]]
      /\ [b \in Soles |-> redo[b]]' = [b \in Soles |-> redo[b]]
      /\ (damaged \cap Soles)' = damaged \cap Soles
  BY DEF Seen, Soles, Sole
<1>2. CASE UNCHANGED faults
  BY <1>1, <1>2 DEF Channel!vars
<1>3. CASE Fault
  BY <1>1, <1>3 DEF Fault, Channel!Fault, Channel!FaultElsewhere, Channel!Next
<1>. QED BY <1>2, <1>3

(* A step that changes only what the channel sees of b.                    *)
OnlySeen(b) == \A c \in Soles \ {b} : Seen(c)' = Seen(c)

(* The steps of the channel, from what each makes the channel see of b.    *)
LEMMA MappedSubmit ==
  ASSUME TypeInv, NEW b \in Soles, OnlySeen(b), UNCHANGED faults,
         ChanOf(b) = "new", Seen(b)' = <<"waiting", commits[b], redo[b], b \in damaged>>
  PROVE  Channel!Submit(b)
BY DEF OnlySeen, Seen, Soles, Sole, Channel!Submit

LEMMA MappedDeliver ==
  ASSUME TypeInv, NEW b \in Soles, OnlySeen(b), UNCHANGED faults,
         ChanOf(b) = "waiting", commits[b] = redo[b],
         Seen(b)' = <<"waiting", commits[b] + 1, redo[b], b \in damaged>>
  PROVE  Channel!Deliver(b)
BY DEF OnlySeen, Seen, Soles, Sole, Channel!Due, Channel!Deliver

LEMMA MappedDeliverUnheard ==
  ASSUME TypeInv, NEW b \in Soles, OnlySeen(b), Fault,
         ChanOf(b) = "waiting", commits[b] = redo[b],
         Seen(b)' = <<"waiting", commits[b] + 1, redo[b] + 1, b \in damaged>>
  PROVE  Channel!DeliverUnheard(b)
BY DEF OnlySeen, Seen, Soles, Sole, Fault, Channel!Fault, Channel!Due, Channel!DeliverUnheard

LEMMA MappedDoubt ==
  ASSUME TypeInv, NEW b \in Soles, OnlySeen(b), Fault,
         ChanOf(b) = "waiting", commits[b] = redo[b] + 1,
         Seen(b)' = <<"waiting", commits[b], redo[b] + 1, b \in damaged>>
  PROVE  Channel!Doubt(b)
BY DEF OnlySeen, Seen, Soles, Sole, Fault, Channel!Fault, Channel!Doubt

LEMMA MappedSettle ==
  ASSUME TypeInv, NEW b \in Soles, OnlySeen(b), UNCHANGED faults,
         ChanOf(b) = "waiting", commits[b] = redo[b] + 1,
         Seen(b)' = <<"settled", commits[b], redo[b], b \in damaged>>
  PROVE  Channel!Settle(b)
BY DEF OnlySeen, Seen, Soles, Sole, Channel!Settle

LEMMA MappedLose ==
  ASSUME TypeInv, NEW b \in Soles, OnlySeen(b), UNCHANGED faults,
         ChanOf(b) = "waiting", b \in damaged,
         Seen(b)' = <<"lost", commits[b], redo[b], b \in damaged>>
  PROVE  Channel!Lose(b)
BY DEF OnlySeen, Seen, Soles, Sole, Channel!Lose

LEMMA MappedEndanger ==
  ASSUME TypeInv, NEW b \in Soles, OnlySeen(b), Fault, ChanOf(b) = "waiting",
         \/ Seen(b)' = <<"waiting", commits[b], redo[b], TRUE>>
         \/ Seen(b)' = <<"lost", commits[b], redo[b], TRUE>>
  PROVE  Channel!Endanger(b)
BY DEF OnlySeen, Seen, Soles, Sole, Fault, Channel!Fault, Channel!Endanger

(* The batch in memory is in custody as long as its file is being handled, *)
(* and its count is that of the doubts, plus one between commit and remove.*)
LEMMA InHand ==
  ASSUME ChannelInv, NEW b \in Soles, payload = b
  PROVE  /\ ChanOf(b) = "waiting" /\ stage[b] = "done" /\ cur = FileOf[b]
         /\ commits[b] = redo[b] + IF pc = "remove" THEN 1 ELSE 0
         /\ pc # "dump" => content[FileOf[b]] = b
         /\ pc # "skip"
<1>. USE DEF ChannelInv, LossInv, TypeInv, TypeOK, Named, HandInv, Soles
<1>1. stage[b] = "done" /\ cur = FileOf[b] /\ (pc # "dump" => content[FileOf[b]] = b)
  OBVIOUS
<1>2. ChanOf(b) = "waiting"
  BY <1>1 DEF ChanOf, Custody
<1>3. commits[b] = redo[b] + IF pc = "remove" THEN 1 ELSE 0
  BY DEF CopiesInv, Pending, DoubtInv
<1>4. pc # "skip"
  BY DEF SoleShape, Sole
<1>. QED BY <1>1, <1>2, <1>3, <1>4

(* A step that leaves the files, the producers and the database alone, and *)
(* does not start or end the writing back of a sole batch.                 *)
LEMMA Aside ==
  ASSUME UNCHANGED <<content, stage, commits, redo, damaged>>,
         \A b \in Soles : (pc = "dump" /\ payload = b) <=> (pc' = "dump" /\ payload' = b)
  PROVE  \A b \in Soles : Seen(b)' = Seen(b)
BY DEF Seen, ChanOf, Custody, Soles, Sole

(* Only an atomic publication submits; other producers are not noticed.    *)
LEMMA ProducerMaps ==
  ASSUME ChannelInv, Producer
  PROVE  [Channel!Next]_(Channel!vars)
<1>. USE SentinelAssumption, ShapeAssumption
         DEF ChannelInv, LossInv, TypeInv, TypeOK, Named, SoleShape, Soles
<1>1. ASSUME NEW b \in Batch, PublishAtomic(b) PROVE [Channel!Next]_(Channel!vars)
  <2>1. /\ content' = [content EXCEPT ![FileOf[b]] = b] /\ stage[b] = "new"
        /\ stage' = [stage EXCEPT ![b] = "done"]
        /\ UNCHANGED <<pc, payload, commits, redo, damaged, faults>>
    BY <1>1 DEF PublishAtomic, CanStart, writerSide, run, db, ghosts
  <2>2. \A c \in Soles \ {b} : Seen(c)' = Seen(c)
    BY <2>1 DEF Seen, ChanOf, Custody, Sole
  <2>3. CASE b \in Soles
    <3>1. ChanOf(b) = "new" /\ Seen(b)' = <<"waiting", commits[b], redo[b], b \in damaged>>
      BY <2>1, <2>3 DEF Seen, ChanOf, Custody
    <3>2. Channel!Submit(b)
      BY <2>1, <2>2, <2>3, <3>1, MappedSubmit DEF OnlySeen
    <3>. QED BY <2>3, <3>2 DEF Channel!Next
  <2>4. CASE b \notin Soles
    BY <2>1, <2>2, <2>4, Unnoticed
  <2>. QED BY <2>3, <2>4
<1>2. ASSUME NEW b \in Batch, DirectOpen(b) \/ DirectClose(b) \/ DirectDie(b)
      PROVE  [Channel!Next]_(Channel!vars)
  <2>1. /\ UNCHANGED <<pc, payload, commits, redo, damaged>> /\ (UNCHANGED faults \/ Fault)
        /\ b \notin Soles
        /\ \A c \in Batch \ {b} : stage'[c] = stage[c]
        /\ \A f \in File \ {FileOf[b]} : content'[f] = content[f]
    BY <1>2 DEF DirectOpen, DirectClose, DirectDie, CanStart, Sole, writerSide, run, db, ghosts
  <2>2. \A c \in Soles : Seen(c)' = Seen(c)
    BY <2>1 DEF Seen, ChanOf, Custody, Sole
  <2>. QED BY <2>1, <2>2, Unnoticed
<1>. QED BY <1>1, <1>2 DEF Producer

(* A load delivers, a removal settles (or loses a batch that was damaged), *)
(* an annotation keeps the batch it has in memory and loses one it has not.*)
LEMMA WriterMaps ==
  ASSUME ChannelInv, Writer
  PROVE  [Channel!Next]_(Channel!vars)
<1>. USE SentinelAssumption, ShapeAssumption
         DEF ChannelInv, LossInv, TypeInv, TypeOK, Named, HandInv, Soles
<1>1. CASE StartRun \/ FinishRun \/ BudgetExpired
  <2>1. UNCHANGED <<content, stage, commits, redo, damaged, faults>> /\ pc # "dump" /\ pc' # "dump"
    BY <1>1 DEF StartRun, FinishRun, BudgetExpired, dir, db, ghosts
  <2>. QED BY <2>1, Aside, Unnoticed
<1>2. ASSUME NEW f \in File, ReadFile(f) PROVE [Channel!Next]_(Channel!vars)
  <2>1. UNCHANGED <<content, stage, commits, redo, damaged, faults>> /\ pc # "dump" /\ pc' # "dump"
    BY <1>2 DEF ReadFile, Verdict, dir, db, ghosts
  <2>. QED BY <2>1, Aside, Unnoticed
<1>3. CASE EnsureTable \/ LoadRejected \/ NoConnection
  <2>1. UNCHANGED <<content, stage, commits, redo, damaged, faults>> /\ pc # "dump" /\ pc' # "dump"
    BY <1>3 DEF EnsureTable, LoadRejected, NoConnection, dir, db, ghosts
  <2>. QED BY <2>1, Aside, Unnoticed
<1>4. CASE Load
  <2>1. /\ payload \in Batch /\ pc = "load" /\ pc' = "remove"
        /\ UNCHANGED <<content, stage, payload, redo, damaged, faults>>
        /\ commits' = [commits EXCEPT ![payload] = @ + 1]
    BY <1>4 DEF Load, Commit, dir, run, ghosts
  <2>2. \A c \in Soles \ {payload} : Seen(c)' = Seen(c)
    BY <2>1 DEF Seen, ChanOf, Custody, Sole
  <2>3. ASSUME NEW b \in Soles, payload = b PROVE [Channel!Next]_(Channel!vars)
    <3>1. ChanOf(b) = "waiting" /\ commits[b] = redo[b]
      BY <2>1, <2>3, InHand
    <3>2. Seen(b)' = <<"waiting", commits[b] + 1, redo[b], b \in damaged>>
      BY <2>1, <2>3, <3>1 DEF Seen, ChanOf, Custody
    <3>3. Channel!Deliver(b)
      BY <2>1, <2>2, <2>3, <3>1, <3>2, MappedDeliver DEF OnlySeen
    <3>. QED BY <2>3, <3>3 DEF Channel!Next
  <2>4. CASE payload \notin Soles
    BY <2>1, <2>2, <2>4, Unnoticed
  <2>. QED BY <2>3, <2>4
<1>5. CASE RemoveFile
  <2>1. /\ payload \in Batch /\ pc \in {"skip", "remove"} /\ pc' = "pick"
        /\ UNCHANGED <<commits, redo, damaged, faults>>
        /\ content' = [content EXCEPT ![cur] = Absent]
        /\ stage' = [b \in Batch |-> IF b \in Writing(cur) THEN "unlinked" ELSE stage[b]]
    BY <1>5 DEF RemoveFile, Unlink, NextFile, db, ghosts
  <2>2. \A c \in Soles : stage'[c] = stage[c]
    BY <2>1 DEF Writing, SoleShape, Sole
  <2>3. \A c \in Soles \ {payload} : FileOf[c] # cur
    BY <2>1 DEF Sole
  <2>4. \A c \in Soles \ {payload} : Seen(c)' = Seen(c)
    BY <2>1, <2>2, <2>3 DEF Seen, ChanOf, Custody, Sole
  <2>5. ASSUME NEW b \in Soles, payload = b PROVE [Channel!Next]_(Channel!vars)
    <3>1. /\ ChanOf(b) = "waiting" /\ commits[b] = redo[b] + 1
          /\ stage[b] = "done" /\ cur = FileOf[b]
      BY <2>1, <2>5, InHand
    <3>2. ~Custody(b)' /\ stage'[b] = "done"
      BY <2>1, <2>2, <2>5, <3>1 DEF Custody
    <3>3. CASE b \in damaged
      <4>1. Seen(b)' = <<"lost", commits[b], redo[b], b \in damaged>>
        BY <2>1, <3>2, <3>3 DEF Seen, ChanOf
      <4>2. Channel!Lose(b)
        BY <2>1, <2>4, <2>5, <3>1, <3>3, <4>1, MappedLose DEF OnlySeen
      <4>. QED BY <2>5, <4>2 DEF Channel!Next
    <3>4. CASE b \notin damaged
      <4>1. Seen(b)' = <<"settled", commits[b], redo[b], b \in damaged>>
        BY <2>1, <3>2, <3>4 DEF Seen, ChanOf
      <4>2. Channel!Settle(b)
        BY <2>1, <2>4, <2>5, <3>1, <4>1, MappedSettle DEF OnlySeen
      <4>. QED BY <2>5, <4>2 DEF Channel!Next
    <3>. QED BY <3>3, <3>4
  <2>6. CASE payload \notin Soles
    BY <2>1, <2>4, <2>6, Unnoticed
  <2>. QED BY <2>5, <2>6
<1>6. CASE AnnotateOpen
  <2>1. /\ pc = "annotate" /\ pc' = "dump"
        /\ UNCHANGED <<payload, commits, redo, damaged, faults>>
        /\ content' = [content EXCEPT ![cur] = Torn]
        /\ stage' = [b \in Batch |-> IF b \in Writing(cur) THEN "clobbered" ELSE stage[b]]
    BY <1>6 DEF AnnotateOpen, run, db, ghosts
  <2>2. \A c \in Soles : stage'[c] = stage[c]
    BY <2>1 DEF Writing, SoleShape, Sole
  <2>3. ASSUME NEW c \in Soles, FileOf[c] # cur \/ content[cur] # c \/ payload = c
        PROVE  Seen(c)' = Seen(c)
    <3>1. payload = c => FileOf[c] = cur /\ content[cur] = c
      BY <2>1, <2>3, InHand
    <3>2. Custody(c)' <=> Custody(c)
      BY <2>1, <2>3, <3>1 DEF Custody
    <3>. QED BY <2>1, <2>2, <3>2 DEF Seen, ChanOf
  <2>4. CASE \A c \in Soles : FileOf[c] # cur \/ content[cur] # c \/ payload = c
    BY <2>1, <2>3, <2>4, Unnoticed
  <2>5. ASSUME NEW c \in Soles, FileOf[c] = cur, content[cur] = c, payload # c
        PROVE  [Channel!Next]_(Channel!vars)
    <3>1. OnlySeen(c)
      BY <2>3, <2>5 DEF OnlySeen, Sole
    <3>2. c \in damaged /\ stage[c] = "done" /\ ChanOf(c) = "waiting"
      BY <2>1, <2>5 DEF ChanOf, Custody
    <3>3. ~Custody(c)'
      BY <2>1, <2>5 DEF Custody
    <3>4. Seen(c)' = <<"lost", commits[c], redo[c], c \in damaged>>
      BY <2>1, <2>2, <3>2, <3>3 DEF Seen, ChanOf
    <3>5. Channel!Lose(c)
      BY <2>1, <3>1, <3>2, <3>4, MappedLose
    <3>. QED BY <3>5 DEF Channel!Next
  <2>. QED BY <2>4, <2>5
<1>7. CASE AnnotateDump
  <2>1. /\ pc = "dump" /\ pc' = "pick" /\ payload' = Nobody
        /\ UNCHANGED <<commits, redo, damaged, faults>>
        /\ \A f \in File \ {cur} : content'[f] = content[f]
    BY <1>7 DEF AnnotateDump, NextFile, db, ghosts
  <2>2. \A c \in Soles : stage'[c] = stage[c]
    BY <1>7 DEF AnnotateDump, Writing, SoleShape, Sole
  <2>3. ASSUME NEW c \in Soles, FileOf[c] = cur PROVE Custody(c)' <=> Custody(c)
    <3>1. Writing(cur) = {}
      BY <2>3 DEF Writing, SoleShape, Sole
    <3>2. content' = [content EXCEPT ![cur] = AnnotatedText]
      BY <1>7, <2>1, <2>3, <3>1 DEF AnnotateDump
    <3>3. payload \in {Nobody, c}
      BY <2>3 DEF Sole
    <3>. QED BY <2>1, <2>3, <3>2, <3>3 DEF AnnotatedText, Custody
  <2>4. ASSUME NEW c \in Soles, FileOf[c] # cur PROVE Custody(c)' <=> Custody(c)
    BY <2>1, <2>4 DEF Custody
  <2>5. \A c \in Soles : Seen(c)' = Seen(c)
    BY <2>1, <2>2, <2>3, <2>4 DEF Seen, ChanOf
  <2>. QED BY <2>1, <2>5, Unnoticed
<1>. QED BY <1>1, <1>2, <1>3, <1>4, <1>5, <1>6, <1>7 DEF Writer

(* A failure puts the delivery in doubt or the batch at risk, if it hits   *)
(* one at all.                                                             *)
LEMMA FailureMaps ==
  ASSUME ChannelInv, Failure
  PROVE  [Channel!Next]_(Channel!vars)
<1>. USE SentinelAssumption, ShapeAssumption
         DEF ChannelInv, LossInv, TypeInv, TypeOK, Named, HandInv, Soles
<1>1. ASSUME NEW f \in File, ReadFault(f) PROVE [Channel!Next]_(Channel!vars)
  <2>1. /\ UNCHANGED <<content, stage, commits, redo>> /\ Fault
        /\ pc # "dump" /\ pc' # "dump"
        /\ damaged' = damaged \cup ({content[f]} \cap Batch)
    BY <1>1 DEF ReadFault, dir, db
  <2>2. \A c \in Soles \ {content[f]} : Seen(c)' = Seen(c)
    BY <2>1 DEF Seen, ChanOf, Custody, Sole
  <2>3. ASSUME NEW b \in Soles, content[f] = b PROVE [Channel!Next]_(Channel!vars)
    <3>1. stage[b] = "done" /\ FileOf[b] = f
      BY <2>3
    <3>2. ChanOf(b) = "waiting"
      BY <2>3, <3>1 DEF ChanOf, Custody
    <3>3. Seen(b)' = <<"waiting", commits[b], redo[b], TRUE>>
      BY <2>1, <2>3, <3>1 DEF Seen, ChanOf, Custody
    <3>4. Channel!Endanger(b)
      BY <2>1, <2>2, <2>3, <3>2, <3>3, MappedEndanger DEF OnlySeen
    <3>. QED BY <2>3, <3>4 DEF Channel!Next
  <2>4. CASE content[f] \notin Soles
    BY <2>1, <2>2, <2>4, Unnoticed
  <2>. QED BY <2>3, <2>4
<1>2. CASE DatabaseFault
  <2>1. UNCHANGED <<content, stage, commits, redo, damaged>> /\ Fault /\ pc # "dump" /\ pc' # "dump"
    BY <1>2 DEF DatabaseFault, dir, db, ghosts
  <2>. QED BY <2>1, Aside, Unnoticed
(* The commit took effect, and the task did not learn of it or is gone.    *)
<1>3. ASSUME /\ payload \in Batch /\ pc = "load" /\ pc' # "dump" /\ Fault
             /\ UNCHANGED <<content, stage, damaged>>
             /\ commits' = [commits EXCEPT ![payload] = @ + 1]
             /\ redo' = [redo EXCEPT ![payload] = @ + 1]
      PROVE  [Channel!Next]_(Channel!vars)
  <2>1. \A c \in Soles \ {payload} : Seen(c)' = Seen(c)
    BY <1>3 DEF Seen, ChanOf, Custody, Sole
  <2>2. ASSUME NEW b \in Soles, payload = b PROVE [Channel!Next]_(Channel!vars)
    <3>1. /\ ChanOf(b) = "waiting" /\ commits[b] = redo[b]
          /\ stage[b] = "done" /\ content[FileOf[b]] = b
      BY <1>3, <2>2, InHand
    <3>2. Seen(b)' = <<"waiting", commits[b] + 1, redo[b] + 1, b \in damaged>>
      BY <1>3, <2>2, <3>1 DEF Seen, ChanOf, Custody
    <3>3. Channel!DeliverUnheard(b)
      BY <1>3, <2>1, <2>2, <3>1, <3>2, MappedDeliverUnheard DEF OnlySeen
    <3>. QED BY <2>2, <3>3 DEF Channel!Next
  <2>3. CASE payload \notin Soles
    BY <1>3, <2>1, <2>3, Unnoticed
  <2>. QED BY <2>2, <2>3
(* The file could not be removed after the commit.                         *)
<1>4. ASSUME /\ payload \in Batch /\ pc = "remove" /\ pc' # "dump" /\ Fault
             /\ UNCHANGED <<content, stage, commits, damaged>>
             /\ redo' = [redo EXCEPT ![payload] = @ + 1]
      PROVE  [Channel!Next]_(Channel!vars)
  <2>1. \A c \in Soles \ {payload} : Seen(c)' = Seen(c)
    BY <1>4 DEF Seen, ChanOf, Custody, Sole
  <2>2. ASSUME NEW b \in Soles, payload = b PROVE [Channel!Next]_(Channel!vars)
    <3>1. /\ ChanOf(b) = "waiting" /\ commits[b] = redo[b] + 1
          /\ stage[b] = "done" /\ content[FileOf[b]] = b
      BY <1>4, <2>2, InHand
    <3>2. Seen(b)' = <<"waiting", commits[b], redo[b] + 1, b \in damaged>>
      BY <1>4, <2>2, <3>1 DEF Seen, ChanOf, Custody
    <3>3. Channel!Doubt(b)
      BY <1>4, <2>1, <2>2, <3>1, <3>2, MappedDoubt DEF OnlySeen
    <3>. QED BY <2>2, <3>3 DEF Channel!Next
  <2>3. CASE payload \notin Soles
    BY <1>4, <2>1, <2>3, Unnoticed
  <2>. QED BY <2>2, <2>3
(* The annotation is cut short between the truncation and the dump.        *)
<1>5. ASSUME /\ pc = "dump" /\ pc' # "dump" /\ Fault
             /\ UNCHANGED <<content, stage, commits, redo>>
             /\ damaged' = damaged \cup {payload}
      PROVE  [Channel!Next]_(Channel!vars)
  <2>1. \A c \in Soles \ {payload} : Seen(c)' = Seen(c)
    BY <1>5 DEF Seen, ChanOf, Custody, Sole
  <2>2. ASSUME NEW b \in Soles, payload = b PROVE [Channel!Next]_(Channel!vars)
    <3>1. ChanOf(b) = "waiting" /\ stage[b] = "done"
      BY <1>5, <2>2, InHand
    <3>2. \/ Seen(b)' = <<"waiting", commits[b], redo[b], TRUE>>
          \/ Seen(b)' = <<"lost", commits[b], redo[b], TRUE>>
      BY <1>5, <2>2, <3>1 DEF Seen, ChanOf
    <3>3. Channel!Endanger(b)
      BY <1>5, <2>1, <2>2, <3>1, <3>2, MappedEndanger DEF OnlySeen
    <3>. QED BY <2>2, <3>3 DEF Channel!Next
  <2>3. CASE payload \notin Soles
    BY <1>5, <2>1, <2>3, Unnoticed
  <2>. QED BY <2>2, <2>3
<1>6. CASE CommitUnacknowledged
  BY <1>3, <1>6 DEF CommitUnacknowledged, Commit, dir, run
<1>7. CASE RemoveFault
  <2>1. CASE pc = "remove"
    BY <1>4, <1>7, <2>1 DEF RemoveFault, dir, run, db
  <2>2. CASE pc = "skip"
    <3>1. UNCHANGED <<content, stage, commits, redo, damaged>> /\ Fault /\ pc' # "dump"
      BY <1>7, <2>2 DEF RemoveFault, dir, run, db
    <3>. QED BY <2>2, <3>1, Aside, Unnoticed
  <2>. QED BY <1>7, <2>1, <2>2 DEF RemoveFault
<1>8. CASE AnnotateFault
  <2>1. CASE pc = "dump"
    BY <1>5, <1>8, <2>1 DEF AnnotateFault, NextFile, dir, db
  <2>2. CASE pc = "annotate"
    <3>1. UNCHANGED <<content, stage, commits, redo, damaged>> /\ Fault /\ pc' # "dump"
      BY <1>8, <2>2 DEF AnnotateFault, NextFile, dir, db
    <3>. QED BY <2>2, <3>1, Aside, Unnoticed
  <2>. QED BY <1>8, <2>1, <2>2 DEF AnnotateFault
<1>9. CASE Crash
  <2>1. CASE pc = "dump"
    BY <1>5, <1>9, <2>1 DEF Crash, dir, db
  <2>2. CASE pc = "remove"
    BY <1>4, <1>9, <2>2 DEF Crash, dir, db
  <2>3. CASE pc = "load" /\ redo' # redo
    BY <1>3, <1>9, <2>3 DEF Crash, Commit, dir
  <2>4. CASE pc \notin {"dump", "remove"} /\ redo' = redo
    <3>1. UNCHANGED <<content, stage, commits, redo, damaged>> /\ Fault /\ pc' # "dump"
      BY <1>9, <2>4 DEF Crash, dir, db
    <3>. QED BY <2>4, <3>1, Aside, Unnoticed
  <2>. QED BY <1>9, <2>1, <2>2, <2>3, <2>4 DEF Crash
<1>. QED
  BY <1>1, <1>2, <1>6, <1>7, <1>8, <1>9 DEF Failure

(* pending/ and the writer are a channel that delivers at least once, for  *)
(* every batch that is published atomically under a name of its own: every *)
(* step of the producers, of the writer and of a failure is one step of    *)
(* the channel, or none.                                                   *)
THEOREM WriterImplementsDelivery == Spec => ImplementsDelivery
<1>1. Init => ChannelInv
  BY TypeInit, NamedInit, LossInit, CopiesInit, ChannelInit DEF ChannelInv, LossInv
<1>2. ChannelInv /\ [Next]_vars => ChannelInv'
  BY TypeNext, NamedNext, SoleShapeNext, SoleKeptNext, CopiesNext, DoubtNext, HandNext
     DEF ChannelInv, LossInv, DupInv
<1>3. Init => Channel!Init
  BY ShapeAssumption, SentinelAssumption DEF Init, Channel!Init, ChanOf, Soles, Sole
<1>4. ChannelInv /\ [Next]_vars => [Channel!Next]_(Channel!vars)
  <2>1. ASSUME ChannelInv, UNCHANGED vars PROVE [Channel!Next]_(Channel!vars)
    <3>1. UNCHANGED <<content, stage, commits, redo, damaged, faults, pc, payload>>
      BY <2>1 DEF vars, dir, run, db, ghosts
    <3>. QED BY <3>1, Aside, Unnoticed
  <2>. QED BY <2>1, ProducerMaps, WriterMaps, FailureMaps DEF Next
<1>. QED BY <1>1, <1>2, <1>3, <1>4, PTL DEF Spec, ImplementsDelivery, Channel!Spec
=============================================================================
