------------------------ MODULE HistoryCollectorProofs ------------------------
(***************************************************************************)
(* The history collector leaves no gap between the runs of two ticks in a  *)
(* row, for every schedule, data interval, overlap and lateness that give  *)
(* WindowsCover, and for any number of items, values, types and retries.   *)
(***************************************************************************)
EXTENDS HistoryCollector, TLAPS

(* The types the argument needs.                                           *)
Types ==
  /\ now \in Nat /\ arrived \subseteq Value
  /\ pc \in {"idle", "map", "window", "fetch"} /\ end \in Int
  /\ from \in Int /\ till \in Int
  /\ left \subseteq items /\ got \subseteq arrived
  /\ pc # "fetch" => left = {}
  /\ done \subseteq Nat

(* v was in Zabbix before tick t, so before the run of t began, and        *)
(* belongs to the window of that run.                                      *)
InTime(v, t) == /\ t - Span - Overlap <= v[2] /\ v[2] + Delay < t
                /\ v[1] \notin retired /\ TypeOf[v[1]] \in ValueType

(* A run with a data interval looks at the window that ends with it, and   *)
(* which is over.                                                          *)
RunInv ==
  pc # "idle" /\ end # -1 =>
    /\ end \in Nat /\ end <= now
    /\ pc = "fetch" => from = end - Span - Overlap /\ till = end

(* What a done tick, and a run that has its map, that has asked for the    *)
(* item of v, owe.                                                         *)
DoneInv == \A t \in done : /\ t <= now
                           /\ \A v \in arrived : InTime(v, t) => v \in collected
FetchInv ==
  pc \in {"window", "fetch"} /\ end # -1 =>
    \A v \in arrived : InTime(v, end) =>
      /\ v[1] \in items
      /\ pc = "fetch" => v[1] \in left \/ v \in got

(* A value that may still be asked of belongs to an item that is monitored *)
(* unless it was disabled at some time.                                    *)
EnabledInv == \A v \in arrived : v[1] \in enabled \/ v[1] \in retired

GapInv == Types /\ RunInv /\ DoneInv /\ FetchInv /\ EnabledInv

(* A record is its own key: the dedup of a file drops no other value.      *)
LEMMA KeyIsValue == ASSUME NEW u \in Value, NEW v \in Value, RecordKey(u) = RecordKey(v)
                    PROVE  u = v
BY DEF RecordKey, Value

(* A value that arrives now is not in time for a tick that is past.        *)
LEMMA TooLate ==
  ASSUME GapInv, NEW i \in Item, NEW c \in 0..Horizon, Arrive(i, c),
         NEW t \in Nat, t <= now
  PROVE  ~InTime(<<i, c>>, t)
BY ConfigAssumption DEF Arrive, InTime, GapInv, Types

LEMMA TickIsTime == \A t \in Ticks : t \in Nat /\ t # -1
BY DEF Ticks

LEMMA GapInit == Init => GapInv
BY ConfigAssumption DEF Init, GapInv, Types, RunInv, DoneInv, FetchInv, EnabledInv

LEMMA GapNext == GapInv /\ [Next]_vars => GapInv'
<1>. SUFFICES ASSUME GapInv, [Next]_vars PROVE GapInv'
  OBVIOUS
<1>. USE ConfigAssumption
<1>. USE DEF GapInv, Types, RunInv, DoneInv, FetchInv, EnabledInv, InTime
<1>1. CASE Tick
  BY <1>1 DEF Tick, source, run
<1>2. ASSUME NEW i \in Item, Switch(i) PROVE GapInv'
  BY <1>2 DEF Switch, run
<1>3. ASSUME NEW i \in Item, NEW c \in 0..Horizon, Arrive(i, c) PROVE GapInv'
  <2>1. arrived' = arrived \cup {<<i, c>>} /\ <<i, c>> \in Value /\ i \in enabled
    BY <1>3 DEF Arrive, Value
  <2>2. UNCHANGED <<now, enabled, retired, run, next, done, collected>>
    BY <1>3 DEF Arrive
  <2>3. Types' /\ RunInv' /\ EnabledInv'
    BY <2>1, <2>2 DEF run
  <2>4. DoneInv'
    BY <2>1, <2>2, <1>3, TooLate
  <2>5. FetchInv'
    <3>. SUFFICES ASSUME pc \in {"window", "fetch"}, end # -1,
                         NEW v \in arrived', InTime(v, end)
                  PROVE  v[1] \in items /\ (pc = "fetch" => v[1] \in left \/ v \in got)
      BY <2>2 DEF run
    <3>1. end \in Nat /\ end <= now
      OBVIOUS
    <3>2. v # <<i, c>>
      BY <3>1, <1>3, TooLate
    <3>. QED BY <2>1, <3>2
  <2>. QED BY <2>3, <2>4, <2>5
<1>4. ASSUME NEW t \in Ticks, StartScheduled(t) PROVE GapInv'
  <2>1. /\ t \in Nat /\ t <= now /\ t # -1
        /\ pc = "idle" /\ pc' = "map" /\ end' = t
    BY <1>4 DEF StartScheduled, Latest, Ticks
  <2>2. UNCHANGED <<now, arrived, enabled, retired, from, till, items, left, got, done, collected>>
    BY <1>4 DEF StartScheduled, source
  <2>. QED BY <2>1, <2>2
<1>5. ASSUME NEW e \in -1..Horizon, StartManual(e) PROVE GapInv'
  <2>1. e = -1 \/ (e \in Nat /\ e <= now)
    BY <1>5 DEF StartManual, Latest, Ticks
  <2>2. /\ pc = "idle" /\ pc' = "map" /\ end' = e
        /\ UNCHANGED <<now, arrived, enabled, retired, from, till, items, left, got, done, collected>>
    BY <1>5 DEF StartManual, source
  <2>. QED BY <2>1, <2>2
<1>6. CASE BuildMap
  <2>1. \A v \in arrived : v[1] \in Item
    BY DEF Value
  <2>. QED BY <1>6, <2>1 DEF BuildMap, source
<1>7. CASE OpenWindow
  <2>1. CASE items = {}
    <3>1. /\ pc' = "idle" /\ got' = {} /\ left' = {} /\ items' = {} /\ end' = -1
          /\ from' = 0 /\ till' = 0
          /\ done' = IF end \in Ticks THEN done \cup {end} ELSE done
          /\ UNCHANGED <<now, arrived, enabled, retired, collected>>
      BY <1>7, <2>1 DEF OpenWindow, Succeed, Finish, source
    <3>2. pc = "window" /\ UNCHANGED <<enabled, retired>>
      BY <1>7 DEF OpenWindow, source
    <3>3. end # -1 => /\ end \in Nat /\ end <= now
                      /\ \A v \in arrived : ~InTime(v, end)
      BY <2>1, <3>2
    <3>4. Types' /\ RunInv' /\ FetchInv' /\ EnabledInv'
      BY <3>1, <3>2, TickIsTime
    <3>5. DoneInv'
      <4>1. \A t \in done' : t \in done \/ (t = end /\ end # -1)
        BY <3>1, TickIsTime
      <4>. QED BY <3>1, <3>3, <4>1
    <3>. QED BY <3>4, <3>5
  <2>2. CASE items # {}
    <3>1. /\ pc = "window" /\ pc' = "fetch" /\ left' = items /\ got' = {}
          /\ from' = (IF end = -1 THEN now - Manual ELSE end - Span) - Overlap
          /\ till' = IF end = -1 THEN now ELSE end
          /\ UNCHANGED <<now, arrived, enabled, retired, end, items, done, collected>>
      BY <1>7, <2>2 DEF OpenWindow, WindowStart, source
    <3>2. from' \in Int /\ till' \in Int
      BY <3>1
    <3>. QED BY <3>1, <3>2
  <2>. QED BY <2>1, <2>2
<1>8. ASSUME NEW vt \in ValueType, NEW ids \in SUBSET Item, FetchChunk(vt, ids) PROVE GapInv'
  <2>1. UNCHANGED <<now, source, pc, end, from, till, items, done, collected>>
    BY <1>8 DEF FetchChunk
  <2>2. got' \subseteq arrived /\ left' \subseteq items' /\ got \subseteq got'
    BY <1>8 DEF FetchChunk, HistoryGet
  <2>3. \A v \in HistoryGet(vt, ids) : v \in got'
    BY <1>8, KeyIsValue DEF FetchChunk, HistoryGet
  <2>4. FetchInv'
    <3>. SUFFICES ASSUME end # -1, NEW v \in arrived, InTime(v, end)
                  PROVE  v[1] \in items /\ (v[1] \in left' \/ v \in got')
      BY <2>1 DEF source
    <3>1. pc = "fetch" /\ left' = left \ ids /\ \A i \in ids : TypeOf[i] = vt
      BY <1>8 DEF FetchChunk
    <3>2. v[1] \in items /\ (v[1] \in left \/ v \in got)
      BY <3>1
    <3>3. CASE v[1] \in ids
      <4>1. v[2] \in Nat
        BY DEF Value
      <4>2. from = end - Span - Overlap /\ till = end
        BY <3>1
      <4>3. end - Span - Overlap <= v[2] /\ v[2] + Delay < end
        OBVIOUS
      <4>4. from <= v[2] /\ v[2] <= till
        BY <4>1, <4>2, <4>3
      <4>. QED BY <2>3, <3>1, <3>2, <3>3, <4>4 DEF HistoryGet
    <3>. QED BY <2>2, <3>1, <3>2, <3>3
  <2>5. pc = "fetch"
    BY <1>8 DEF FetchChunk
  <2>. QED BY <2>1, <2>2, <2>4, <2>5 DEF source
<1>9. CASE WriteFile
  <2>1. end # -1 => \A v \in arrived : InTime(v, end) => v \in got
    BY <1>9 DEF WriteFile
  <2>2. /\ pc' = "idle" /\ got' = {} /\ left' = {} /\ items' = {} /\ end' = -1
        /\ from' = 0 /\ till' = 0 /\ collected' = collected \cup got
        /\ done' = IF end \in Ticks THEN done \cup {end} ELSE done
        /\ UNCHANGED <<now, arrived, enabled, retired>>
    BY <1>9 DEF WriteFile, Succeed, Finish, source
  <2>3. pc = "fetch"
    BY <1>9 DEF WriteFile
  <2>4. \A t \in done' : t \in done \/ (t = end /\ end # -1)
    BY <2>2, TickIsTime
  <2>5. DoneInv'
    BY <2>1, <2>2, <2>3, <2>4
  <2>. QED BY <2>2, <2>5, TickIsTime
<1>10. CASE TaskFails
  <2>1. UNCHANGED <<now, arrived, enabled, retired, done, collected>>
    BY <1>10 DEF TaskFails, DoneAfterFailure, source
  <2>2. CASE /\ pc' = "idle" /\ got' = {} /\ left' = {} /\ items' = {} /\ end' = -1
             /\ from' = 0 /\ till' = 0
    BY <2>1, <2>2
  <2>3. CASE /\ UNCHANGED <<end, from, till, items>> /\ got' = {} /\ left' = {}
             /\ pc' = IF pc = "map" THEN "map" ELSE "window"
    BY <1>10, <2>1, <2>3 DEF TaskFails
  <2>. QED BY <1>10, <2>2, <2>3 DEF TaskFails, Finish
<1>11. CASE UNCHANGED vars
  BY <1>11 DEF vars, source, run
<1>. QED
  BY <1>1, <1>2, <1>3, <1>4, <1>5, <1>6, <1>7, <1>8, <1>9, <1>10, <1>11 DEF Next

(* If windows are long enough, every value of the period before the first  *)
(* of two ticks whose runs succeeded is in a file: either it was there at  *)
(* that tick, or it was late, lies in the window of the next tick too and  *)
(* was there by then.                                                      *)
THEOREM NoGap == ASSUME WindowsCover PROVE Spec => []NoGapBetweenRuns
<1>1. GapInv => NoGapBetweenRuns
  <2>. SUFFICES ASSUME GapInv, NEW v \in arrived, NEW t \in done, t + Interval \in done,
                       t - Interval <= v[2], v[2] < t,
                       v[1] \notin retired, TypeOf[v[1]] \in ValueType
                PROVE  v \in collected
    BY DEF NoGapBetweenRuns
  <2>1. v[2] \in Nat /\ t \in Nat
    BY DEF GapInv, Types, Value, Ticks
  <2>2. InTime(v, t) \/ InTime(v, t + Interval)
    BY <2>1, ConfigAssumption, WindowsCover DEF InTime, WindowsCover
  <2>. QED BY <2>2 DEF GapInv, DoneInv
<1>. QED BY <1>1, GapInit, GapNext, PTL DEF Spec
-----------------------------------------------------------------------------
(* For the types: the end of a run is a time, unless there is none, and    *)
(* items are left only while values are fetched.                           *)
RunTypes == TypeOK /\ (end = -1 \/ end \in Nat) /\ (pc # "fetch" => left = {})

LEMMA SucceedTypes ==
  ASSUME RunTypes, Succeed
  PROVE  /\ done' \subseteq Ticks /\ items' = {} /\ left' = {} /\ got' = {} /\ pc' = "idle"
         /\ end' = -1 /\ from' = 0 /\ till' = 0 /\ tries' = 0
<1>1. done \subseteq Ticks
  BY DEF RunTypes, TypeOK
<1>2. done' = IF end \in Ticks THEN done \cup {end} ELSE done
  BY DEF Succeed
<1>3. done' \subseteq Ticks
  BY <1>1, <1>2
<1>. QED BY <1>3 DEF Succeed, Finish

LEMMA TypesNext == RunTypes /\ [Next]_vars => RunTypes'
<1>. SUFFICES ASSUME RunTypes, [Next]_vars PROVE RunTypes'
  OBVIOUS
<1>. USE ConfigAssumption DEF RunTypes, TypeOK
<1>1. CASE Tick
  BY <1>1 DEF Tick, source, run
<1>2. ASSUME NEW i \in Item, Switch(i) PROVE RunTypes'
  BY <1>2 DEF Switch, run
<1>3. ASSUME NEW i \in Item, NEW c \in 0..Horizon, Arrive(i, c) PROVE RunTypes'
  BY <1>3 DEF Arrive, run, Value
<1>4. ASSUME NEW t \in Ticks, StartScheduled(t) PROVE RunTypes'
  BY <1>4 DEF StartScheduled, Ticks, source
<1>5. ASSUME NEW e \in -1..Horizon, StartManual(e) PROVE RunTypes'
  BY <1>5 DEF StartManual, source
<1>6. CASE BuildMap
  BY <1>6 DEF BuildMap, source
<1>7. CASE OpenWindow
  <2>1. CASE items = {}
    BY <1>7, <2>1, SucceedTypes DEF OpenWindow, source
  <2>2. CASE items # {}
    <3>1. Overlap \in Int /\ Manual \in Int /\ Span \in Int /\ now \in Int /\ end \in Int
      OBVIOUS
    <3>2. from' \in Int /\ till' \in Int
      BY <1>7, <2>2, <3>1 DEF OpenWindow, WindowStart
    <3>. QED BY <1>7, <2>2, <3>2 DEF OpenWindow, source
  <2>. QED BY <2>1, <2>2
<1>8. CASE WriteFile
  <2>1. Succeed /\ collected' = collected \cup got /\ UNCHANGED <<now, source, next>>
    BY <1>8 DEF WriteFile
  <2>. QED BY <2>1, SucceedTypes DEF source
<1>9. CASE TaskFails
  <2>1. UNCHANGED <<source, now, next, done, collected>>
    BY <1>9 DEF TaskFails, DoneAfterFailure
  <2>2. /\ pc' \in {"idle", "map", "window"} /\ left' = {} /\ got' = {}
        /\ tries' \in 0..Retries
    BY <1>9 DEF TaskFails, Finish
  <2>3. /\ end' \in {end, -1} /\ from' \in {from, 0} /\ till' \in {till, 0}
        /\ items' \in {items, {}}
    BY <1>9 DEF TaskFails, Finish
  <2>. QED BY <2>1, <2>2, <2>3 DEF source
<1>10. ASSUME NEW vt \in ValueType, NEW ids \in SUBSET Item, FetchChunk(vt, ids) PROVE RunTypes'
  <2>1. HistoryGet(vt, ids) \subseteq Value
    BY DEF HistoryGet
  <2>. QED BY <1>10, <2>1 DEF FetchChunk, source
<1>11. CASE UNCHANGED vars
  BY <1>11 DEF vars, source, run
<1>. QED BY <1>1, <1>2, <1>3, <1>4, <1>5, <1>6, <1>7, <1>8, <1>9, <1>10, <1>11 DEF Next

(* The collector keeps its variables to their types.                       *)
THEOREM CollectorTypeCorrect == Spec => []TypeOK
<1>1. Init => RunTypes
  BY ConfigAssumption DEF Init, RunTypes, TypeOK
<1>2. RunTypes => TypeOK
  BY DEF RunTypes
<1>. QED BY <1>1, <1>2, TypesNext, PTL DEF Spec
=============================================================================
