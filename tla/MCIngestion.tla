----------------------------- MODULE MCIngestion -----------------------------
(***************************************************************************)
(* Instances of Ingestion for TLC.                                         *)
(***************************************************************************)
EXTENDS Ingestion

Payload(tables, unknown, weak, breaks) ==
  [entry |-> "ok", tables |-> tables, unknown |-> unknown, weak |-> weak, breaks |-> breaks]

(* Two tables; the same payload again; a weak record among strong ones; a  *)
(* client without certificate, whose payload normalize fails on.           *)
MixedBody == [r1 |-> Payload({"node", "disk"}, FALSE, FALSE, FALSE),
              r2 |-> Payload({"node", "disk"}, FALSE, FALSE, FALSE),
              r3 |-> Payload({"node"}, TRUE, TRUE, FALSE),
              r4 |-> [Payload({"node"}, FALSE, FALSE, TRUE) EXCEPT !.entry = "unverified"]]
MixedRetries == [r1 |-> {}, r2 |-> {"r1"}, r3 |-> {}, r4 |-> {}]
=============================================================================
