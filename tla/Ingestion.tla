------------------------------ MODULE Ingestion ------------------------------
(***************************************************************************)
(* The OBM receiver (data-collector-webservice/app): POST .../obm/metrics  *)
(* from the mTLS check to the response, handled by the worker processes of *)
(* all replicas at once.  A request is one delivery attempt; its id is a   *)
(* fresh uuid, so a client that repeats a payload makes a new request.     *)
(* handle_metrics is async but ingest is not: a worker serves one request  *)
(* at a time from the archive to the response.                             *)
(*                                                                         *)
(* Data is reduced to what decides the flow: which target tables the       *)
(* records of a request have, whether one of them has no table (unknown    *)
(* class), whether one has no identity, whether normalizing them raises.   *)
(***************************************************************************)
EXTENDS Naturals, FiniteSets

CONSTANTS
  Worker, Request, Table,
  Body,             \* [Request -> BodyType]
  Retries,          \* [Request -> SUBSET Request]: the attempts it repeats
  StagingEnabled, JsonlEnabled,  \* Settings: output_sinks
  MaxFaults,        \* bound on failing writes, lost answers, killed workers
  None

(* entry: what the handler makes of headers and body before ingest.        *)
BodyType == [entry: {"ok", "unverified", "too_large", "malformed", "empty"},
             tables: SUBSET Table, unknown: BOOLEAN, weak: BOOLEAN, breaks: BOOLEAN]

ASSUME RequestAssumption == /\ Body \in [Request -> BodyType]
                            /\ Retries \in [Request -> SUBSET Request]
                            /\ None \notin Request
ASSUME SettingAssumption ==
  /\ {StagingEnabled, JsonlEnabled} \subseteq BOOLEAN
  /\ MaxFaults \in Nat

VARIABLES
  strict,     \* Settings.strict_validation, the same all the time
  mtls,       \* Settings.enforce_proxy_mtls_header, the same all the time
  at,         \* [Worker -> At]: where it is
  req,        \* [Worker -> the request it serves, or None]
  why,        \* [Worker -> Reason]: what it quarantines its request for
  left,       \* [Worker -> SUBSET Table]: staging files not written yet
  answer,     \* [Request -> status code, 0 while there is none]
  flagged,    \* requests answered with quarantined = true
  unheard,    \* requests whose client got no answer: killed worker, lost reply
  archive,    \* [Request -> {"none", "partial", "whole"}] raw archive
  quarantine, \* [Request -> Reason \cup {"partial"}]
  staged,     \* [Request -> SUBSET Table]: files published in pending/
  logged,     \* requests whose records are in the JSONL file
  faults      \* failures so far

settings == <<strict, mtls>>
control == <<at, req, why, left>>
replies == <<answer, flagged, unheard>>
disk    == <<archive, quarantine, staged, logged>>
vars    == <<settings, control, replies, disk, faults>>

At     == {"idle", "archive", "normalize", "quarantine", "stage", "jsonl", "respond"}
Reason == {"none", "exception", "strict", "weak", "sink"}
Code   == {0, 200, 400, 401, 413, 422, 500}
Fault  == faults < MaxFaults /\ faults' = faults + 1
Goto(w, step) == at' = [at EXCEPT ![w] = step]

(* Slips in single spots of the code, not part of the specification: the   *)
(* raw archive forgotten, the missing return after a strict rejection, a   *)
(* sink failure only logged, quarantined=False at the end of ingest, a     *)
(* builder that offers the same file again, a request kept by its worker.  *)
NormalizeFirst            == "normalize"
StageAfterStrict(reason)  == IF reason \in {"weak", "strict"} THEN "stage" ELSE "respond"
SinkFailureLogged(w)      == Goto(w, "respond") /\ UNCHANGED why
FlagFailuresOnly(w)       == why[w] \in {"exception", "strict", "sink"}
StageAgain(w, t)          == left
ReleaseKeepingRequest(w)  == Goto(w, "idle") /\ UNCHANGED <<req, why, left>>

(* Lines 48-106 of ingest.py: the checks before anything is stored.        *)
Refusal(e) == CASE e = "unverified" -> 401 [] e = "too_large" -> 413
                [] e \in {"malformed", "empty"} -> 400

Refused(r) == \/ Body[r].entry = "unverified" /\ mtls
              \/ Body[r].entry \in {"too_large", "malformed", "empty"}

(* What ingest does first.                                                 *)
FirstStep == "archive"

(* The file per table that build_staging_payloads makes; records without a *)
(* table are skipped.                                                      *)
ToStage(r) == IF StagingEnabled THEN Body[r].tables ELSE {}
HasRows(r) == Body[r].tables # {} \/ Body[r].unknown

(* What follows the quarantine: the weak path goes on to the sinks.        *)
AfterQuarantine(reason) == IF reason = "weak" THEN "stage" ELSE "respond"

(* A failing sink leads to the quarantine, the request is still accepted.  *)
SinkFailed(w) == Goto(w, "quarantine") /\ why' = [why EXCEPT ![w] = "sink"]

(* The quarantined field of IngestionResult.                               *)
Flag(w) == why[w] # "none"

(* One builder tuple is done.                                              *)
Staged(w, t) == [left EXCEPT ![w] = @ \ {t}]

Init == /\ strict \in BOOLEAN /\ mtls \in BOOLEAN
        /\ at = [w \in Worker |-> "idle"] /\ req = [w \in Worker |-> None]
        /\ why = [w \in Worker |-> "none"] /\ left = [w \in Worker |-> {}]
        /\ answer = [r \in Request |-> 0] /\ flagged = {} /\ unheard = {}
        /\ archive = [r \in Request |-> "none"]
        /\ quarantine = [r \in Request |-> "none"]
        /\ staged = [r \in Request |-> {}] /\ logged = {} /\ faults = 0

Seen(r)   == answer[r] # 0 \/ r \in unheard \/ \E w \in Worker : req[w] = r

(* The worker is done with its request.                                    *)
Release(w) == /\ Goto(w, "idle") /\ req' = [req EXCEPT ![w] = None]
              /\ why' = [why EXCEPT ![w] = "none"] /\ left' = [left EXCEPT ![w] = {}]

-----------------------------------------------------------------------------
(* A client sends a payload, or sends it again when the last attempt was   *)
(* not answered, or answered with 500.                                     *)
Arrive(w, r) ==
  /\ at[w] = "idle" /\ ~Seen(r)
  /\ \A p \in Retries[r] : p \in unheard \/ answer[p] = 500

(* enforce_mtls, the size limit and json.loads turn the request away.      *)
Refuse(w, r) ==
  /\ Arrive(w, r) /\ Refused(r)
  /\ answer' = [answer EXCEPT ![r] = Refusal(Body[r].entry)]
  /\ UNCHANGED <<settings, control, flagged, unheard, disk, faults>>

Accept(w, r) ==
  /\ Arrive(w, r) /\ ~Refused(r)
  /\ Goto(w, FirstStep) /\ req' = [req EXCEPT ![w] = r]
  /\ UNCHANGED <<settings, why, left, replies, disk, faults>>

(* archive_raw_payload: write_bytes under the request's own name.          *)
Archive(w) ==
  /\ at[w] = "archive"
  /\ archive' = [archive EXCEPT ![req[w]] = "whole"]
  /\ Goto(w, "normalize")
  /\ UNCHANGED <<settings, req, why, left, replies, quarantine, staged, logged, faults>>

(* normalize raises, or weak records decide where to go; the reason is the *)
(* one the quarantine document will carry.                                 *)
Normalize(w) ==
  /\ at[w] = "normalize"
  /\ LET b == Body[req[w]]
         reason == IF b.breaks THEN "exception"
                   ELSE IF ~b.weak THEN "none"
                   ELSE IF strict THEN "strict" ELSE "weak"
     IN  /\ why' = [why EXCEPT ![w] = reason]
         /\ Goto(w, IF reason = "none" THEN "stage" ELSE "quarantine")
         /\ left' = [left EXCEPT ![w] = IF b.breaks THEN {} ELSE ToStage(req[w])]
  /\ UNCHANGED <<settings, req, replies, disk, faults>>

(* write_quarantine overwrites an earlier document of the same request.    *)
Quarantine(w) ==
  /\ at[w] = "quarantine"
  /\ quarantine' = [quarantine EXCEPT ![req[w]] = why[w]]
  /\ Goto(w, AfterQuarantine(why[w]))
  /\ UNCHANGED <<settings, req, why, left, replies, archive, staged, logged, faults>>

(* StagingSink.write: one file after the other, each published by          *)
(* os.replace.                                                             *)
StageFile(w, t) ==
  /\ at[w] = "stage" /\ t \in left[w]
  /\ staged' = [staged EXCEPT ![req[w]] = @ \cup {t}]
  /\ left' = Staged(w, t)
  /\ UNCHANGED <<settings, at, req, why, replies, archive, quarantine, logged, faults>>

(* CompositeSink: the JSONL sink after the staging sink.                   *)
StageDone(w) ==
  /\ at[w] = "stage" /\ left[w] = {}
  /\ Goto(w, IF JsonlEnabled /\ HasRows(req[w]) THEN "jsonl" ELSE "respond")
  /\ UNCHANGED <<settings, req, why, left, replies, disk, faults>>

Jsonl(w) ==
  /\ at[w] = "jsonl"
  /\ logged' = logged \cup {req[w]}
  /\ Goto(w, "respond")
  /\ UNCHANGED <<settings, req, why, left, replies, archive, quarantine, staged, faults>>

(* sink.write raises: what was staged stays, the rest is not tried.        *)
SinkFault(w) ==
  /\ \/ at[w] = "stage" /\ left[w] # {}
     \/ at[w] = "jsonl"
  /\ Fault
  /\ SinkFailed(w)
  /\ left' = [left EXCEPT ![w] = {}]
  /\ UNCHANGED <<settings, req, replies, disk>>

(* Nothing catches a failing archive or quarantine write: status 500.      *)
WriteFault(w) ==
  /\ at[w] \in {"archive", "quarantine"} /\ Fault
  /\ IF at[w] = "archive"
       THEN archive' \in {archive, [archive EXCEPT ![req[w]] = "partial"]} /\ UNCHANGED quarantine
       ELSE quarantine' \in {quarantine, [quarantine EXCEPT ![req[w]] = "partial"]} /\ UNCHANGED archive
  /\ answer' = [answer EXCEPT ![req[w]] = 500]
  /\ Release(w)
  /\ UNCHANGED <<settings, flagged, unheard, staged, logged>>

Respond(w) ==
  /\ at[w] = "respond"
  /\ answer' = [answer EXCEPT ![req[w]] = IF why[w] = "strict" THEN 422 ELSE 200]
  /\ flagged' = IF Flag(w) THEN flagged \cup {req[w]} ELSE flagged
  /\ Release(w)
  /\ \/ UNCHANGED <<unheard, faults>>
     \/ Fault /\ unheard' = unheard \cup {req[w]}
  /\ UNCHANGED <<settings, disk>>

(* A worker or its pod is killed in the middle of a request.               *)
WorkerKilled(w) ==
  /\ at[w] # "idle" /\ Fault
  /\ unheard' = unheard \cup {req[w]}
  /\ archive' = IF at[w] = "archive" THEN [archive EXCEPT ![req[w]] = "partial"] ELSE archive
  /\ quarantine' = IF at[w] = "quarantine" THEN [quarantine EXCEPT ![req[w]] = "partial"] ELSE quarantine
  /\ Release(w)
  /\ UNCHANGED <<settings, answer, flagged, staged, logged>>

Serve(w) == \/ Archive(w) \/ Normalize(w) \/ Quarantine(w) \/ StageDone(w)
            \/ Jsonl(w) \/ Respond(w) \/ \E t \in Table : StageFile(w, t)

Next == \E w \in Worker :
          \/ \E r \in Request : Refuse(w, r) \/ Accept(w, r)
          \/ Serve(w)
          \/ SinkFault(w) \/ WriteFault(w) \/ WorkerKilled(w)

Spec == Init /\ [][Next]_vars

(* A worker that has a request goes on with it.                            *)
FairSpec == Spec /\ \A w \in Worker : WF_vars(Serve(w))

-----------------------------------------------------------------------------
(* Properties.                                                             *)

(* Every variable keeps to its type; a worker is idle without a request.   *)
TypeOK ==
  /\ strict \in BOOLEAN /\ mtls \in BOOLEAN
  /\ at \in [Worker -> At] /\ req \in [Worker -> Request \cup {None}]
  /\ \A w \in Worker : at[w] = "idle" <=> req[w] = None
  /\ why \in [Worker -> Reason] /\ left \in [Worker -> SUBSET Table]
  /\ answer \in [Request -> Code] /\ flagged \subseteq Request /\ unheard \subseteq Request
  /\ archive \in [Request -> {"none", "partial", "whole"}]
  /\ quarantine \in [Request -> Reason \cup {"partial"}]
  /\ staged \in [Request -> SUBSET Table] /\ logged \subseteq Request
  /\ faults \in 0..MaxFaults

(* A client that is told 200 can forget the payload: its raw body is       *)
(* archived whole, and all its tables are staged unless the payload lies   *)
(* in the quarantine, through partial sink failures and weak records.      *)
AcceptedIsKept ==
  \A r \in Request : answer[r] = 200 =>
    /\ archive[r] = "whole"
    /\ staged[r] = ToStage(r) \/ quarantine[r] \in {"exception", "sink"}

(* Nothing derived from a payload exists without its whole archive, which  *)
(* is what a replay starts from: not in pending/, not in the quarantine,   *)
(* not in the log, also when the worker was killed half-way.               *)
ArchivedFirst ==
  \A r \in Request : staged[r] # {} \/ quarantine[r] # "none" \/ r \in logged
                       => archive[r] = "whole"

(* The quarantined flag of the answer tells whether a complete quarantine  *)
(* document of this request exists.                                        *)
FlagIsTrue ==
  \A r \in Request : answer[r] \in {200, 422} =>
    (r \in flagged <=> quarantine[r] \in {"exception", "strict", "weak", "sink"})

(* A request turned away at the door (certificate, size, syntax) leaves no *)
(* trace on any disk; one refused by strict validation is archived and in  *)
(* the quarantine, but not one of its strong records is staged or logged:  *)
(* the client may correct and resend it without storing them twice.        *)
RefusedStagesNothing ==
  \A r \in Request :
    /\ answer[r] \in {400, 401, 413} => archive[r] = "none" /\ quarantine[r] = "none"
    /\ answer[r] = 422 => archive[r] = "whole" /\ quarantine[r] = "strict"
    /\ answer[r] \in {400, 401, 413, 422} => staged[r] = {} /\ r \notin logged

(* Every request a worker took is answered, or its worker was killed.      *)
Settled == \A r \in Request : archive[r] # "none" ~> answer[r] # 0 \/ r \in unheard

(* ingestion_service.py says that mapping failures never block ingestion   *)
(* and that normalized output or quarantine writes can only fail softly:   *)
(* once the raw payload is archived, the request is not failed.            *)
FailsSoftly == \A r \in Request : archive[r] = "whole" => answer[r] # 500
=============================================================================
