----------------------------- MODULE AtomicLoads -----------------------------
(***************************************************************************)
(* What _insert, _upsert and _copy promise about one keyed table: each     *)
(* load takes effect as a whole and at one moment, whatever other loads    *)
(* run beside it, and one that is reported done has taken effect.          *)
(***************************************************************************)
EXTENDS Naturals, Sequences, FiniteSetsExt

CONSTANTS
  Session,    \* attempts to load a file, one writer each
  Batch, BatchOf,   \* the files, [Session -> Batch]
  Records,    \* [Batch -> Seq(Key)]: the key of each record, in file order
  Key, None

VARIABLES
  method,     \* how files of this table are loaded
  table,      \* [Key -> <<batch, index of its record>>, or None]
  done        \* sessions whose load was reported done

vars == <<method, table, done>>

Indices(b, k) == {i \in DOMAIN Records[b] : Records[b][i] = k}
FirstOf(b, k) == Min(Indices(b, k))
LastOf(b, k)  == Max(Indices(b, k))

(* A plain insert fits only if every key is new.                           *)
Fits(b) == method \in {"insert", "plain"} =>
             \A k \in Key : /\ \A i, j \in Indices(b, k) : i = j
                            /\ Indices(b, k) # {} => table[k] = None

(* The last record of an upsert replaces the row, the first record of a    *)
(* copy that skips duplicates goes where there is none.                    *)
Loaded(b) ==
  [k \in Key |-> CASE Indices(b, k) = {} -> table[k]
                   [] Indices(b, k) # {} /\ method = "upsert" -> <<b, LastOf(b, k)>>
                   [] Indices(b, k) # {} /\ method # "upsert" ->
                        IF table[k] = None THEN <<b, FirstOf(b, k)>> ELSE table[k]]

Init == /\ method \in {"insert", "upsert", "plain", "copy"}
        /\ table = [k \in Key |-> None] /\ done = {}

(* A load may take effect without being reported (and be repeated later).  *)
Load(s) == /\ s \notin done /\ Fits(BatchOf[s])
           /\ table' = Loaded(BatchOf[s])
           /\ done' \in {done, done \cup {s}}
           /\ UNCHANGED method

Next == \E s \in Session : Load(s)

Spec == Init /\ [][Next]_vars
=============================================================================
