--------------------------- MODULE IngestionProofs ---------------------------
(***************************************************************************)
(* What the receiver promises to its clients and to a later replay, for    *)
(* any number of workers and requests, either setting, and any number of   *)
(* failing writes, killed workers and repeated deliveries.                 *)
(***************************************************************************)
EXTENDS Ingestion, TLAPS

(* A request is with one worker at most, and open as long as it is.        *)
Owned(w) == req[w] # None => /\ answer[req[w]] = 0 /\ req[w] \notin unheard
                             /\ \A v \in Worker \ {w} : req[v] # req[w]

(* What the worker has done with its request when it gets to a step.       *)
Progress(w) ==
  /\ at[w] = "idle" => why[w] = "none"
  /\ at[w] = "archive" => archive[req[w]] = "none" /\ why[w] = "none"
  /\ at[w] \notin {"idle", "archive"} => archive[req[w]] = "whole"
  /\ at[w] = "normalize" => /\ quarantine[req[w]] = "none" /\ staged[req[w]] = {}
                            /\ req[w] \notin logged /\ why[w] = "none"
  /\ at[w] = "quarantine" => /\ why[w] # "none"
                             /\ why[w] = "strict" => staged[req[w]] = {} /\ req[w] \notin logged
                             /\ why[w] = "weak" =>
                                  staged[req[w]] \cup left[w] = ToStage(req[w])
  /\ at[w] \in {"stage", "jsonl"} => /\ why[w] \in {"none", "weak"}
                                     /\ quarantine[req[w]] = why[w]
                                     /\ staged[req[w]] \cup left[w] = ToStage(req[w])
  /\ at[w] = "jsonl" => staged[req[w]] = ToStage(req[w])
  /\ at[w] = "respond" => /\ quarantine[req[w]] = why[w]
                          /\ why[w] \in {"none", "weak"} => staged[req[w]] = ToStage(req[w])
                          /\ why[w] = "strict" => staged[req[w]] = {} /\ req[w] \notin logged

(* What is promised of a request, whoever has it.                          *)
Kept(r) == answer[r] = 200 =>
             /\ archive[r] = "whole"
             /\ staged[r] = ToStage(r) \/ quarantine[r] \in {"exception", "sink"}
Derived(r) == staged[r] # {} \/ quarantine[r] # "none" \/ r \in logged => archive[r] = "whole"
Flagged(r) == answer[r] \in {200, 422} =>
                (r \in flagged <=> quarantine[r] \in {"exception", "strict", "weak", "sink"})
TurnedAway(r) ==
  /\ answer[r] \in {400, 401, 413} => archive[r] = "none" /\ quarantine[r] = "none"
  /\ answer[r] = 422 => archive[r] = "whole" /\ quarantine[r] = "strict"
  /\ answer[r] \in {400, 401, 413, 422} => staged[r] = {} /\ r \notin logged

(* An attempt that was not made has left nothing, and only answers are     *)
(* flagged.                                                                *)
Untried(r)  == (~Seen(r) => archive[r] = "none") /\ (r \in flagged => answer[r] # 0)
Standing(r) == Kept(r) /\ Derived(r) /\ Flagged(r) /\ TurnedAway(r) /\ Untried(r)

ServeInv == /\ TypeOK
            /\ \A w \in Worker : Owned(w) /\ Progress(w)
            /\ \A r \in Request : Standing(r)

-----------------------------------------------------------------------------
(* A step of w with r leaves everything else as it is.                     *)
OnlyThis(w, r) ==
  /\ \A v \in Worker \ {w} : /\ at'[v] = at[v] /\ req'[v] = req[v]
                             /\ why'[v] = why[v] /\ left'[v] = left[v]
  /\ \A q \in Request \ {r} :
       /\ answer'[q] = answer[q] /\ archive'[q] = archive[q]
       /\ quarantine'[q] = quarantine[q] /\ staged'[q] = staged[q]
       /\ q \in flagged' <=> q \in flagged
       /\ q \in unheard' <=> q \in unheard
       /\ q \in logged' <=> q \in logged

(* So what is known of the other workers and requests stays true.          *)
LEMMA OthersStand ==
  ASSUME ServeInv, NEW w \in Worker, NEW r \in Request, OnlyThis(w, r),
         \A v \in Worker \ {w} : req[v] # r, req[w] \in {None, r}, req'[w] \in {None, r}
  PROVE  /\ \A v \in Worker \ {w} : Owned(v)' /\ Progress(v)'
         /\ \A q \in Request \ {r} : Standing(q)'
<1>. USE RequestAssumption DEF ServeInv, TypeOK, OnlyThis
<1>1. ASSUME NEW v \in Worker \ {w} PROVE Owned(v)' /\ Progress(v)'
  <2>1. /\ Owned(v) /\ Progress(v) /\ at'[v] = at[v] /\ req'[v] = req[v]
        /\ why'[v] = why[v] /\ left'[v] = left[v]
    OBVIOUS
  <2>2. CASE req[v] = None
    <3>1. at[v] = "idle"
      BY <2>2
    <3>. QED BY <2>1, <2>2, <3>1 DEF Owned, Progress
  <2>3. CASE req[v] # None
    <3>1. req[v] \in Request \ {r}
      BY <2>3
    <3>2. /\ answer'[req[v]] = answer[req[v]] /\ archive'[req[v]] = archive[req[v]]
          /\ quarantine'[req[v]] = quarantine[req[v]] /\ staged'[req[v]] = staged[req[v]]
          /\ req[v] \in unheard' <=> req[v] \in unheard
          /\ req[v] \in logged' <=> req[v] \in logged
      BY <3>1
    <3>3. Progress(v)'
      BY <2>1, <3>2 DEF Progress, ToStage
    <3>4. \A u \in Worker \ {v} : req'[u] # req[v]
      BY <2>1, <2>3, <3>1 DEF Owned
    <3>. QED BY <2>1, <3>2, <3>3, <3>4 DEF Owned
  <2>. QED BY <2>2, <2>3
<1>2. ASSUME NEW q \in Request \ {r} PROVE Standing(q)'
  <2>1. /\ answer'[q] = answer[q] /\ archive'[q] = archive[q]
        /\ quarantine'[q] = quarantine[q] /\ staged'[q] = staged[q]
        /\ q \in flagged' <=> q \in flagged
        /\ q \in unheard' <=> q \in unheard
        /\ q \in logged' <=> q \in logged
    OBVIOUS
  <2>2. Seen(q)' <=> Seen(q)
    <3>1. \A v \in Worker : req'[v] = q <=> req[v] = q
      OBVIOUS
    <3>. QED BY <2>1, <3>1 DEF Seen
  <2>. QED BY <2>1, <2>2 DEF Standing, Kept, Derived, Flagged, TurnedAway, Untried, ToStage
<1>. QED BY <1>1, <1>2

(* A step is then a matter of its worker and its request.                  *)
LEMMA OwnStep ==
  ASSUME ServeInv, NEW w \in Worker, NEW r \in Request, OnlyThis(w, r),
         \A v \in Worker \ {w} : req[v] # r, req[w] \in {None, r}, req'[w] \in {None, r},
         TypeOK', Owned(w)', Progress(w)', Standing(r)'
  PROVE  ServeInv'
BY OthersStand DEF ServeInv

(* The request a worker has.                                               *)
LEMMA InWork ==
  ASSUME ServeInv, NEW w \in Worker, at[w] # "idle"
  PROVE  /\ req[w] \in Request /\ answer[req[w]] = 0 /\ req[w] \notin unheard
         /\ req[w] \notin flagged /\ Progress(w) /\ Standing(req[w])
         /\ \A v \in Worker \ {w} : req[v] # req[w]
<1>1. req[w] \in Request
  BY DEF ServeInv, TypeOK
<1>2. Owned(w) /\ Progress(w) /\ Standing(req[w])
  BY <1>1 DEF ServeInv
<1>3. req[w] # None
  BY <1>1, RequestAssumption
<1>. QED BY <1>1, <1>2, <1>3 DEF Owned, Standing, Untried

LEMMA ServeInit == Init => ServeInv
<1>. SUFFICES ASSUME Init PROVE ServeInv
  OBVIOUS
<1>1. TypeOK
  BY RequestAssumption, SettingAssumption DEF Init, TypeOK, At, Reason, Code
<1>2. \A w \in Worker : Owned(w) /\ Progress(w)
  BY DEF Init, Owned, Progress
<1>3. \A r \in Request : Standing(r)
  BY DEF Init, Standing, Kept, Derived, Flagged, TurnedAway, Untried
<1>. QED BY <1>1, <1>2, <1>3 DEF ServeInv

-----------------------------------------------------------------------------
(* At the door.                                                            *)
LEMMA DoorStep ==
  ASSUME ServeInv, NEW w \in Worker, NEW r \in Request, Refuse(w, r) \/ Accept(w, r)
  PROVE  ServeInv'
<1>. USE RequestAssumption, SettingAssumption DEF Arrive
<1>1. /\ at[w] = "idle" /\ req[w] = None /\ answer[r] = 0 /\ r \notin unheard /\ ~Seen(r)
      /\ \A v \in Worker : req[v] # r
  BY DEF Refuse, Accept, Seen, ServeInv, TypeOK
<1>2. TypeOK /\ Standing(r) /\ Progress(w)
  BY DEF ServeInv
<1>3. /\ archive[r] = "none" /\ quarantine[r] = "none" /\ staged[r] = {} /\ r \notin logged
      /\ r \notin flagged /\ why[w] = "none"
  BY <1>1, <1>2 DEF Standing, Untried, Derived, Progress
<1>4. CASE Refuse(w, r)
  <2>1. /\ answer' = [answer EXCEPT ![r] = Refusal(Body[r].entry)]
        /\ UNCHANGED <<strict, mtls, at, req, why, left, flagged, unheard, archive,
                       quarantine, staged, logged, faults>>
    BY <1>4 DEF Refuse, settings, control, disk
  <2>2. Refusal(Body[r].entry) \in {400, 401, 413}
    BY <1>4 DEF Refuse, Refused, Refusal
  <2>3. TypeOK'
    BY <1>2, <2>1, <2>2 DEF TypeOK, Code
  <2>4. answer'[r] \in {400, 401, 413} /\ \A q \in Request \ {r} : answer'[q] = answer[q]
    BY <1>2, <2>1, <2>2 DEF TypeOK
  <2>5. OnlyThis(w, r)
    BY <2>1, <2>4 DEF OnlyThis
  <2>6. Owned(w)' /\ Progress(w)'
    BY <1>1, <1>3, <2>1 DEF Owned, Progress
  <2>7. Standing(r)'
    BY <1>3, <2>1, <2>4 DEF Standing, Kept, Derived, Flagged, TurnedAway, Untried
  <2>. QED BY <1>1, <2>1, <2>3, <2>5, <2>6, <2>7, OwnStep
<1>5. CASE Accept(w, r)
  <2>1. /\ at' = [at EXCEPT ![w] = "archive"] /\ req' = [req EXCEPT ![w] = r]
        /\ UNCHANGED <<strict, mtls, why, left, answer, flagged, unheard, archive,
                       quarantine, staged, logged, faults>>
    BY <1>5 DEF Accept, Goto, FirstStep, settings, replies, disk
  <2>2. TypeOK'
    BY <1>2, <2>1 DEF TypeOK, At
  <2>3. at'[w] = "archive" /\ req'[w] = r
    BY <1>2, <2>1 DEF TypeOK
  <2>4. OnlyThis(w, r)
    BY <1>2, <2>1 DEF OnlyThis, TypeOK
  <2>5. Owned(w)' /\ Progress(w)'
    BY <1>1, <1>3, <2>1, <2>3, <2>4 DEF Owned, Progress, OnlyThis
  <2>6. Seen(r)'
    BY <2>3 DEF Seen
  <2>7. Standing(r)'
    BY <1>1, <1>3, <2>1, <2>6 DEF Standing, Kept, Derived, Flagged, TurnedAway, Untried
  <2>. QED BY <1>1, <2>2, <2>3, <2>4, <2>5, <2>7, OwnStep
<1>. QED BY <1>4, <1>5

-----------------------------------------------------------------------------
(* A step inside ingest keeps its request, and answers nothing.            *)
LEMMA InsideStep ==
  ASSUME ServeInv, NEW w \in Worker, at[w] # "idle", OnlyThis(w, req[w]), TypeOK', Progress(w)',
         UNCHANGED <<req, answer, flagged, unheard>>, Derived(req[w])'
  PROVE  ServeInv'
<1>1. /\ req[w] \in Request /\ answer[req[w]] = 0 /\ req[w] \notin unheard
      /\ req[w] \notin flagged /\ \A v \in Worker \ {w} : req[v] # req[w]
  BY InWork
<1>2. Owned(w)'
  BY <1>1 DEF Owned
<1>3. Standing(req[w])'
  BY <1>1 DEF Standing, Kept, Flagged, TurnedAway, Untried, Seen, Derived
<1>4. PICK r \in Request : r = req[w]
  BY <1>1
<1>. QED BY <1>1, <1>2, <1>3, <1>4, OwnStep

LEMMA ServeStep ==
  ASSUME ServeInv, NEW w \in Worker,
         \/ Archive(w) \/ Normalize(w) \/ Quarantine(w) \/ StageDone(w) \/ Jsonl(w)
         \/ SinkFault(w) \/ \E t \in Table : StageFile(w, t)
  PROVE  ServeInv'
<1>. DEFINE r == req[w]
<1>1. at[w] # "idle"
  BY DEF Archive, Normalize, Quarantine, StageDone, Jsonl, SinkFault, StageFile
<1>2. /\ r \in Request /\ Progress(w) /\ Derived(r) /\ TypeOK
      /\ Body[r] \in BodyType
  BY <1>1, InWork, RequestAssumption DEF Standing, ServeInv
<1>3. CASE Archive(w)
  <2>1. /\ at[w] = "archive" /\ at' = [at EXCEPT ![w] = "normalize"]
        /\ archive' = [archive EXCEPT ![r] = "whole"]
        /\ UNCHANGED <<strict, mtls, req, why, left, answer, flagged, unheard,
                       quarantine, staged, logged, faults>>
    BY <1>3 DEF Archive, Goto, settings, replies
  <2>2. quarantine[r] = "none" /\ staged[r] = {} /\ r \notin logged /\ why[w] = "none"
    BY <1>2, <2>1 DEF Progress, Derived
  <2>3. TypeOK' /\ OnlyThis(w, r) /\ archive'[r] = "whole" /\ at'[w] = "normalize"
    BY <1>2, <2>1 DEF TypeOK, OnlyThis, At
  <2>4. Progress(w)' /\ Derived(r)'
    BY <2>1, <2>2, <2>3 DEF Progress, Derived
  <2>. QED BY <1>1, <2>1, <2>3, <2>4, InsideStep
<1>4. CASE Normalize(w)
  <2>1. /\ at[w] = "normalize"
        /\ UNCHANGED <<strict, mtls, req, answer, flagged, unheard, archive,
                       quarantine, staged, logged, faults>>
    BY <1>4 DEF Normalize, settings, replies, disk
  <2>2. PICK reason \in {"none", "exception", "strict", "weak"} :
          /\ reason \in {"none", "weak"} => ~Body[r].breaks
          /\ why' = [why EXCEPT ![w] = reason]
          /\ at' = [at EXCEPT ![w] = IF reason = "none" THEN "stage" ELSE "quarantine"]
          /\ left' = [left EXCEPT ![w] = IF Body[r].breaks THEN {} ELSE ToStage(r)]
    BY <1>4 DEF Normalize, Goto
  <2>3. ToStage(r) \subseteq Table
    BY <1>2 DEF ToStage, BodyType
  <2>4. TypeOK' /\ OnlyThis(w, r)
    BY <1>1, <1>2, <2>1, <2>2, <2>3 DEF TypeOK, OnlyThis, At, Reason
  <2>5. /\ why'[w] = reason /\ at'[w] = IF reason = "none" THEN "stage" ELSE "quarantine"
        /\ left'[w] = IF Body[r].breaks THEN {} ELSE ToStage(r)
    BY <1>2, <2>2 DEF TypeOK
  <2>6. /\ archive[r] = "whole" /\ quarantine[r] = "none" /\ staged[r] = {} /\ r \notin logged
    BY <1>2, <2>1 DEF Progress
  <2>7. reason \in {"none", "weak"} => left'[w] = ToStage(r)
    BY <2>2, <2>5
  <2>8. Progress(w)' /\ Derived(r)'
    BY <2>1, <2>2, <2>5, <2>6, <2>7 DEF Progress, Derived, ToStage
  <2>. QED BY <1>1, <2>1, <2>4, <2>8, InsideStep
<1>5. CASE Quarantine(w)
  <2>1. /\ at[w] = "quarantine" /\ quarantine' = [quarantine EXCEPT ![r] = why[w]]
        /\ at' = [at EXCEPT ![w] = IF why[w] = "weak" THEN "stage" ELSE "respond"]
        /\ UNCHANGED <<strict, mtls, req, why, left, answer, flagged, unheard, archive,
                       staged, logged, faults>>
    BY <1>5 DEF Quarantine, Goto, AfterQuarantine, settings, replies
  <2>2. TypeOK' /\ OnlyThis(w, r)
    BY <1>1, <1>2, <2>1 DEF TypeOK, OnlyThis, At
  <2>3. /\ quarantine'[r] = why[w]
        /\ at'[w] = IF why[w] = "weak" THEN "stage" ELSE "respond"
    BY <1>2, <2>1 DEF TypeOK
  <2>4. /\ archive[r] = "whole" /\ why[w] # "none"
        /\ why[w] = "strict" => staged[r] = {} /\ r \notin logged
        /\ why[w] = "weak" => staged[r] \cup left[w] = ToStage(r)
    BY <1>2, <2>1 DEF Progress
  <2>5. Progress(w)' /\ Derived(r)'
    BY <2>1, <2>3, <2>4 DEF Progress, Derived, ToStage
  <2>. QED BY <1>1, <2>1, <2>2, <2>5, InsideStep
<1>6. ASSUME NEW t \in Table, StageFile(w, t) PROVE ServeInv'
  <2>1. /\ at[w] = "stage" /\ t \in left[w]
        /\ staged' = [staged EXCEPT ![r] = @ \cup {t}]
        /\ left' = [left EXCEPT ![w] = @ \ {t}]
        /\ UNCHANGED <<strict, mtls, at, req, why, answer, flagged, unheard, archive,
                       quarantine, logged, faults>>
    BY <1>6 DEF StageFile, Staged, settings, replies
  <2>2. TypeOK' /\ OnlyThis(w, r)
    BY <1>2, <2>1 DEF TypeOK, OnlyThis
  <2>3. staged'[r] = staged[r] \cup {t} /\ left'[w] = left[w] \ {t}
    BY <1>2, <2>1 DEF TypeOK
  <2>4. staged'[r] \cup left'[w] = staged[r] \cup left[w]
    BY <2>1, <2>3
  <2>5. Progress(w)' /\ Derived(r)'
    BY <1>2, <2>1, <2>4 DEF Progress, Derived, ToStage
  <2>. QED BY <1>1, <2>1, <2>2, <2>5, InsideStep
<1>7. CASE StageDone(w)
  <2>1. /\ at[w] = "stage" /\ left[w] = {}
        /\ \E next \in {"jsonl", "respond"} : at' = [at EXCEPT ![w] = next]
        /\ UNCHANGED <<strict, mtls, req, why, left, answer, flagged, unheard, archive,
                       quarantine, staged, logged, faults>>
    BY <1>7 DEF StageDone, Goto, settings, replies, disk
  <2>2. TypeOK' /\ OnlyThis(w, r) /\ at'[w] \in {"jsonl", "respond"}
    BY <1>1, <1>2, <2>1 DEF TypeOK, OnlyThis, At
  <2>3. /\ staged[r] = ToStage(r) /\ archive[r] = "whole"
        /\ why[w] \in {"none", "weak"} /\ quarantine[r] = why[w]
    BY <1>2, <2>1 DEF Progress
  <2>4. Progress(w)' /\ Derived(r)'
    BY <1>2, <2>1, <2>2, <2>3 DEF Progress, Derived, ToStage
  <2>. QED BY <1>1, <2>1, <2>2, <2>4, InsideStep
<1>8. CASE Jsonl(w)
  <2>1. /\ at[w] = "jsonl" /\ logged' = logged \cup {r}
        /\ at' = [at EXCEPT ![w] = "respond"]
        /\ UNCHANGED <<strict, mtls, req, why, left, answer, flagged, unheard, archive,
                       quarantine, staged, faults>>
    BY <1>8 DEF Jsonl, Goto, settings, replies
  <2>2. TypeOK' /\ OnlyThis(w, r) /\ at'[w] = "respond"
    BY <1>1, <1>2, <2>1 DEF TypeOK, OnlyThis, At
  <2>3. /\ staged[r] = ToStage(r) /\ archive[r] = "whole"
        /\ why[w] \in {"none", "weak"} /\ quarantine[r] = why[w]
    BY <1>2, <2>1 DEF Progress
  <2>4. Progress(w)' /\ Derived(r)'
    BY <2>1, <2>2, <2>3 DEF Progress, Derived, ToStage
  <2>. QED BY <1>1, <2>1, <2>2, <2>4, InsideStep
<1>9. CASE SinkFault(w)
  <2>1. /\ at[w] \in {"stage", "jsonl"} /\ faults' \in 0..MaxFaults
        /\ at' = [at EXCEPT ![w] = "quarantine"] /\ why' = [why EXCEPT ![w] = "sink"]
        /\ left' = [left EXCEPT ![w] = {}]
        /\ UNCHANGED <<strict, mtls, req, answer, flagged, unheard, archive,
                       quarantine, staged, logged>>
    BY <1>2, <1>9, SettingAssumption
    DEF SinkFault, SinkFailed, Goto, Fault, TypeOK, settings, replies, disk
  <2>2. /\ TypeOK' /\ OnlyThis(w, r)
        /\ at'[w] = "quarantine" /\ why'[w] = "sink"
    BY <1>1, <1>2, <2>1 DEF TypeOK, OnlyThis, At, Reason
  <2>3. archive[r] = "whole"
    BY <1>2, <2>1 DEF Progress
  <2>4. Progress(w)' /\ Derived(r)'
    BY <2>1, <2>2, <2>3 DEF Progress, Derived
  <2>. QED BY <1>1, <2>1, <2>2, <2>4, InsideStep
<1>. QED BY <1>3, <1>4, <1>5, <1>6, <1>7, <1>8, <1>9

-----------------------------------------------------------------------------
(* The end of a request: an answer, a failing write or a killed worker.    *)
LEMMA EndStep ==
  ASSUME ServeInv, NEW w \in Worker, Respond(w) \/ WriteFault(w) \/ WorkerKilled(w)
  PROVE  ServeInv'
<1>. USE RequestAssumption, SettingAssumption
<1>1. at[w] # "idle"
  BY DEF Respond, WriteFault, WorkerKilled
<1>. PICK r \in Request : r = req[w]
  BY <1>1, InWork
<1>2. /\ r = req[w] /\ Progress(w) /\ Standing(r) /\ TypeOK /\ answer[r] = 0
      /\ r \notin flagged /\ \A v \in Worker \ {w} : req[v] # r
  BY <1>1, InWork DEF ServeInv
<1>3. Release(w) /\ strict' = strict /\ mtls' = mtls /\ staged' = staged /\ logged' = logged
  BY DEF Respond, WriteFault, WorkerKilled, settings, disk
<1>4. /\ at'[w] = "idle" /\ req'[w] = None /\ why'[w] = "none"
      /\ at' \in [Worker -> At] /\ req' \in [Worker -> Request \cup {None}]
      /\ why' \in [Worker -> Reason] /\ left' \in [Worker -> SUBSET Table]
      /\ \A v \in Worker \ {w} : /\ at'[v] = at[v] /\ req'[v] = req[v]
                                 /\ why'[v] = why[v] /\ left'[v] = left[v]
  BY <1>2, <1>3 DEF Release, Goto, TypeOK, At, Reason
<1>5. Owned(w)' /\ Progress(w)'
  BY <1>4 DEF Owned, Progress
<1>6. faults' \in 0..MaxFaults
  BY <1>2 DEF Respond, WriteFault, WorkerKilled, Fault, TypeOK
<1>7. /\ answer' \in [Request -> Code] /\ flagged' \subseteq Request /\ unheard' \subseteq Request
      /\ archive' \in [Request -> {"none", "partial", "whole"}]
      /\ quarantine' \in [Request -> Reason \cup {"partial"}]
  BY <1>2 DEF Respond, WriteFault, WorkerKilled, TypeOK, Code, disk
<1>8. TypeOK'
  BY <1>2, <1>3, <1>4, <1>6, <1>7 DEF TypeOK
<1>9. OnlyThis(w, r)
  BY <1>2, <1>3, <1>4 DEF Respond, WriteFault, WorkerKilled, OnlyThis, TypeOK, disk
<1>10. Standing(r)'
  <2>1. CASE Respond(w)
    <3>1. /\ at[w] = "respond" /\ archive' = archive /\ quarantine' = quarantine
          /\ answer'[r] = IF why[w] = "strict" THEN 422 ELSE 200
          /\ r \in flagged' <=> why[w] # "none"
      BY <1>2, <2>1 DEF Respond, Flag, disk, TypeOK
    <3>2. /\ archive[r] = "whole" /\ quarantine[r] = why[w] /\ why[w] \in Reason
          /\ why[w] \in {"none", "weak"} => staged[r] = ToStage(r)
          /\ why[w] = "strict" => staged[r] = {} /\ r \notin logged
      BY <1>2, <3>1 DEF Progress, TypeOK
    <3>3. answer'[r] # 0
      BY <3>1
    <3>4. Kept(r)' /\ Derived(r)'
      BY <1>3, <3>1, <3>2 DEF Kept, Derived, Reason, ToStage
    <3>5. Flagged(r)'
      BY <3>1, <3>2 DEF Flagged, Reason
    <3>6. TurnedAway(r)'
      BY <1>3, <3>1, <3>2 DEF TurnedAway
    <3>. QED BY <3>3, <3>4, <3>5, <3>6 DEF Standing, Untried, Seen
  <2>2. CASE WriteFault(w)
    <3>1. answer'[r] = 500 /\ flagged' = flagged
      BY <1>2, <2>2 DEF WriteFault, TypeOK
    <3>2. Derived(r)'
      <4>1. CASE at[w] = "archive"
        <5>1. quarantine[r] = "none" /\ staged[r] = {} /\ r \notin logged
          BY <1>2, <4>1 DEF Progress, Standing, Derived
        <5>. QED BY <1>3, <2>2, <4>1, <5>1 DEF WriteFault, Derived
      <4>2. CASE at[w] = "quarantine"
        <5>1. archive[r] = "whole" /\ archive' = archive
          BY <1>2, <2>2, <4>2 DEF Progress, WriteFault
        <5>. QED BY <5>1 DEF Derived
      <4>. QED BY <2>2, <4>1, <4>2 DEF WriteFault
    <3>. QED BY <1>2, <3>1, <3>2 DEF Standing, Kept, Flagged, TurnedAway, Untried, Seen
  <2>3. CASE WorkerKilled(w)
    <3>1. answer' = answer /\ flagged' = flagged /\ r \in unheard'
      BY <2>3 DEF WorkerKilled
    <3>2. Derived(r)'
      <4>1. CASE at[w] = "archive"
        <5>1. quarantine[r] = "none" /\ staged[r] = {} /\ r \notin logged /\ quarantine' = quarantine
          BY <1>2, <2>3, <4>1 DEF Progress, Standing, Derived, WorkerKilled
        <5>. QED BY <1>3, <5>1 DEF Derived
      <4>2. CASE at[w] # "archive"
        <5>1. archive[r] = "whole" /\ archive' = archive
          BY <1>1, <1>2, <2>3, <4>2 DEF Progress, WorkerKilled
        <5>. QED BY <5>1 DEF Derived
      <4>. QED BY <4>1, <4>2
    <3>. QED BY <1>2, <3>1, <3>2 DEF Standing, Kept, Flagged, TurnedAway, Untried, Seen
  <2>. QED BY <2>1, <2>2, <2>3
<1>. QED BY <1>2, <1>4, <1>5, <1>8, <1>9, <1>10, OwnStep

LEMMA ServeNext == ServeInv /\ [Next]_vars => ServeInv'
<1>. SUFFICES ASSUME ServeInv, [Next]_vars PROVE ServeInv'
  OBVIOUS
<1>1. CASE UNCHANGED vars
  BY <1>1 DEF vars, settings, control, replies, disk, ServeInv, TypeOK, Owned, Progress, Standing,
              Kept, Derived, Flagged, TurnedAway, Untried, Seen, ToStage
<1>2. ASSUME NEW w \in Worker,
             \/ \E r \in Request : Refuse(w, r) \/ Accept(w, r)
             \/ Serve(w) \/ SinkFault(w) \/ WriteFault(w) \/ WorkerKilled(w)
      PROVE  ServeInv'
  BY <1>2, DoorStep, ServeStep, EndStep DEF Serve
<1>. QED BY <1>1, <1>2 DEF Next

-----------------------------------------------------------------------------
(* The receiver keeps its variables to their types.                        *)
THEOREM ServerTypeCorrect == Spec => []TypeOK
<1>1. ServeInv => TypeOK
  BY DEF ServeInv
<1>. QED BY <1>1, ServeInit, ServeNext, PTL DEF Spec

(* What is answered with 200 is archived, and staged or in the quarantine. *)
THEOREM AcceptedStaysKept == Spec => []AcceptedIsKept
<1>1. ServeInv => AcceptedIsKept
  BY DEF ServeInv, Standing, Kept, AcceptedIsKept
<1>. QED BY <1>1, ServeInit, ServeNext, PTL DEF Spec

(* All that is derived from a payload can be derived again from its archive.*)
THEOREM ReplayIsPossible == Spec => []ArchivedFirst
<1>1. ServeInv => ArchivedFirst
  BY DEF ServeInv, Standing, Derived, ArchivedFirst
<1>. QED BY <1>1, ServeInit, ServeNext, PTL DEF Spec

(* The flag of an answer and the quarantine agree.                         *)
THEOREM FlagTellsTheTruth == Spec => []FlagIsTrue
<1>1. ServeInv => FlagIsTrue
  BY DEF ServeInv, Standing, Flagged, FlagIsTrue
<1>. QED BY <1>1, ServeInit, ServeNext, PTL DEF Spec

(* A refused request has stored no record.                                 *)
THEOREM RefusalStoresNothing == Spec => []RefusedStagesNothing
<1>1. ServeInv => RefusedStagesNothing
  BY DEF ServeInv, Standing, TurnedAway, RefusedStagesNothing
<1>. QED BY <1>1, ServeInit, ServeNext, PTL DEF Spec
=============================================================================
