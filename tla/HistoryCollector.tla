--------------------------- MODULE HistoryCollector ---------------------------
(***************************************************************************)
(* The history collector (dags/zabbix_history_collector.py): scheduled     *)
(* runs that read a time window of Zabbix values, type by type, while time *)
(* passes, values arrive late, items are disabled and tasks fail.          *)
(*                                                                         *)
(* A value is <<item, clock>>: the (itemid, clock, ns) key of a row, with  *)
(* ns folded into the clock.  A run is named by the end of its data        *)
(* interval, a tick of the schedule; it may begin at any time after it.    *)
(* What happens to a file once it is written is GenericWriter's.           *)
(*                                                                         *)
(* How long the data interval is, is Airflow's choice and not the DAG's.   *)
(* Airflow 2 takes a cron string for a CronDataIntervalTimetable: the      *)
(* interval is the period that ends at the tick.  Airflow 3.0 (README.md,  *)
(* airflow/values.example.yaml) takes it for a CronTriggerTimetable unless *)
(* create_cron_data_intervals is set: start and end are both the tick.     *)
(***************************************************************************)
EXTENDS Integers, FiniteSets

CONSTANTS
  Item,
  ValueType,   \* VALUE_TYPES, the value types that are asked for
  TypeOf,      \* [Item -> Nat]: value_type of an item
  Interval,    \* the schedule, in seconds
  Span,        \* external: length of a data interval, Interval or 0
  Overlap,     \* OVERLAP_SEC
  Manual,      \* the 300 seconds of a run without data_interval
  Delay,       \* external: a value is in Zabbix at most Delay after its clock
  Chunk,       \* itemids per history.get, 5000 in the code
  Retries,     \* task retries of a run
  Horizon,     \* bound on time
  MaxValues    \* bound on the values that arrive

ASSUME ConfigAssumption ==
  /\ {Interval, Span, Overlap, Manual, Delay, Chunk, Retries, Horizon, MaxValues} \subseteq Nat
  /\ Interval > 0 /\ Chunk > 0 /\ ValueType \subseteq Nat
  /\ TypeOf \in [Item -> Nat]

(* When windows of runs in a row leave nothing out: one is as long as the  *)
(* time between two of them and the delay of late values.  No assumption:  *)
(* Airflow 2 and the default overlap give it, Airflow 3.0 and the default  *)
(* overlap do not.                                                         *)
WindowsCover == Interval + Delay <= Span + Overlap /\ Delay <= Interval

VARIABLES
  now,        \* seconds
  arrived,    \* the values Zabbix holds
  enabled,    \* monitored items
  retired,    \* history: items that were disabled at some time
  pc,         \* the active run (max_active_runs=1): "idle" or where it is
  end,        \* data_interval_end of the run, -1 without data interval
  from, till, \* its window, once fetch_history has begun
  items,      \* host_of: the items its map knows
  left,       \* those of them not asked for yet
  got,        \* all_records
  tries,      \* retries used
  next,       \* earliest tick the scheduler may still start a run for
  done,       \* ticks whose run succeeded
  collected   \* every value written to a file so far

source == <<arrived, enabled, retired>>
run    == <<pc, end, from, till, items, left, got, tries>>
vars   == <<now, source, run, next, done, collected>>

Value == Item \X (0..Horizon)
Ticks == {t \in 0..Horizon : t % Interval = 0}

(* Slips in single spots of the code, not part of the specification: no    *)
(* overlap, a failed run taken for a done one.                             *)
NoOverlap(s)     == s
GiveUpAsDone     == done \cup {end}

(* data_interval_start - OVERLAP_SEC.                                      *)
WindowStart(s) == s - Overlap

(* What makes two records of one file the same.                            *)
RecordKey(v) == <<v[1], v[2]>>

(* Only a run whose last task succeeds has covered its interval.           *)
DoneAfterFailure == done

Init == /\ now = 0 /\ arrived = {} /\ enabled \in SUBSET Item /\ retired = {}
        /\ pc = "idle" /\ end = -1 /\ from = 0 /\ till = 0
        /\ items = {} /\ left = {} /\ got = {} /\ tries = 0
        /\ next = 0 /\ done = {} /\ collected = {}

-----------------------------------------------------------------------------
(* The world: time, values, items.                                         *)
Tick == /\ now < Horizon /\ now' = now + 1
        /\ UNCHANGED <<source, run, next, done, collected>>

Arrive(i, c) ==
  /\ i \in enabled /\ c <= now /\ now <= c + Delay
  /\ <<i, c>> \notin arrived /\ Cardinality(arrived) < MaxValues
  /\ arrived' = arrived \cup {<<i, c>>}
  /\ UNCHANGED <<now, enabled, retired, run, next, done, collected>>

Switch(i) ==
  /\ enabled' = IF i \in enabled THEN enabled \ {i} ELSE enabled \cup {i}
  /\ retired' = IF i \in enabled THEN retired \cup {i} ELSE retired
  /\ UNCHANGED <<now, arrived, run, next, done, collected>>

-----------------------------------------------------------------------------
(* The latest tick.                                                        *)
Latest == {t \in Ticks : t <= now /\ now < t + Interval}

(* catchup=False: a run is created for the latest tick only.               *)
StartScheduled(t) ==
  /\ pc = "idle" /\ t \in Latest /\ next <= t
  /\ pc' = "map" /\ end' = t
  /\ next' = t + Interval
  /\ UNCHANGED <<now, source, from, till, items, left, got, tries, done, collected>>

(* Triggered by hand: intervals of a length end with the latest tick,      *)
(* empty ones now; without a logical date (Airflow 3) there is none.       *)
StartManual(e) ==
  /\ pc = "idle" /\ e \in {-1} \cup (IF Span = 0 THEN {now} ELSE Latest)
  /\ pc' = "map" /\ end' = e
  /\ UNCHANGED <<now, source, from, till, items, left, got, tries, next, done, collected>>

(* The locals of the run end with it.                                      *)
Finish == /\ pc' = "idle" /\ items' = {} /\ left' = {} /\ got' = {}
          /\ end' = -1 /\ from' = 0 /\ till' = 0 /\ tries' = 0
Succeed == /\ done' = (IF end \in Ticks THEN done \cup {end} ELSE done)
           /\ Finish

(* fetch_item_map lists the items monitored now.  Its second calls ask for *)
(* the details of just these, monitored or not, so that one step stands    *)
(* for the task as long as no item is deleted.  Other value types are left *)
(* out of the map.                                                         *)
BuildMap ==
  /\ pc = "map"
  /\ items' = {i \in enabled : TypeOf[i] \in ValueType}
  /\ pc' = "window" /\ tries' = 0
  /\ UNCHANGED <<now, source, end, from, till, left, got, next, done, collected>>

(* fetch_history begins: without items the run is over, else the window is *)
(* that of the data interval, or ends now when there is none.              *)
OpenWindow ==
  /\ pc = "window"
  /\ IF items = {} THEN Succeed
     ELSE /\ from' = WindowStart(IF end = -1 THEN now - Manual ELSE end - Span)
          /\ till' = IF end = -1 THEN now ELSE end
          /\ left' = items /\ got' = {} /\ pc' = "fetch"
          /\ UNCHANGED <<end, items, tries, done>>
  /\ UNCHANGED <<now, source, next, collected>>

(* One history.get: the values of some items of one type in the window, as *)
(* Zabbix has them now.                                                    *)
HistoryGet(vt, ids) == {v \in arrived : /\ v[1] \in ids /\ TypeOf[v[1]] = vt
                                        /\ from <= v[2] /\ v[2] <= till}

(* The types come in order, the items of a type in chunks.                 *)
FetchChunk(vt, ids) ==
  /\ pc = "fetch" /\ ids \subseteq {i \in left : TypeOf[i] = vt} /\ ids # {}
  /\ \A i \in left : vt <= TypeOf[i]
  /\ Cardinality(ids) <= Chunk
  /\ got' = got \cup {v \in HistoryGet(vt, ids) : \A u \in got : RecordKey(u) # RecordKey(v)}
  /\ left' = left \ ids
  /\ UNCHANGED <<now, source, pc, end, from, till, items, tries, next, done, collected>>

(* The pending file; no records, no file.                                  *)
WriteFile ==
  /\ pc = "fetch" /\ left = {}
  /\ collected' = collected \cup got
  /\ Succeed
  /\ UNCHANGED <<now, source, next>>

(* A task fails.  The map is built again, or the values are fetched again  *)
(* with the same map, up to Retries times each; then the run has failed.   *)
TaskFails ==
  /\ pc \in {"map", "window", "fetch"}
  /\ \/ /\ tries < Retries /\ tries' = tries + 1
        /\ pc' = (IF pc = "map" THEN "map" ELSE "window")
        /\ got' = {} /\ left' = {}
        /\ UNCHANGED <<end, from, till, items, done>>
     \/ /\ tries = Retries /\ Finish /\ done' = DoneAfterFailure
  /\ UNCHANGED <<now, source, next, collected>>

Next == \/ Tick \/ (\E i \in Item : Switch(i) \/ \E c \in 0..Horizon : Arrive(i, c))
        \/ (\E t \in Ticks : StartScheduled(t)) \/ (\E e \in -1..Horizon : StartManual(e))
        \/ BuildMap \/ OpenWindow \/ WriteFile \/ TaskFails
        \/ (\E vt \in ValueType, ids \in SUBSET Item : FetchChunk(vt, ids))

Spec == Init /\ [][Next]_vars

-----------------------------------------------------------------------------
(* Properties.                                                             *)

(* Every variable keeps to its type.                                       *)
TypeOK ==
  /\ now \in 0..Horizon /\ arrived \subseteq Value
  /\ enabled \subseteq Item /\ retired \subseteq Item
  /\ pc \in {"idle", "map", "window", "fetch"} /\ end \in Int /\ from \in Int /\ till \in Int
  /\ items \subseteq Item /\ left \subseteq items /\ got \subseteq Value
  /\ tries \in 0..Retries /\ next \in Nat /\ done \subseteq Ticks /\ collected \subseteq Value

(* Two ticks in a row whose runs succeeded leave no gap: every value of    *)
(* an item that was never disabled, of a type that is asked for, with a    *)
(* clock in the period before the first of them is in a file, whether it   *)
(* arrived on time or late, however long the runs took, whatever came in   *)
(* between their calls and however often they were retried.  Docs:         *)
(* ARCHITECTURE.md, "Gap prevention".                                      *)
NoGapBetweenRuns ==
  \A v \in arrived : \A t \in done :
    /\ t + Interval \in done /\ t - Interval <= v[2] /\ v[2] < t
    /\ v[1] \notin retired /\ TypeOf[v[1]] \in ValueType
    => v \in collected
=============================================================================
