------------------------------- MODULE Delivery -------------------------------
(***************************************************************************)
(* What the pending/ directory and the writer promise for a batch that was *)
(* published whole under a name of its own, in the terms of a producer: a  *)
(* channel that delivers at least once.                                    *)
(*                                                                         *)
(* A submitted batch is in custody ("waiting") until it is settled.  It is *)
(* delivered, and settled only after a delivery that nothing has put in    *)
(* doubt; a further delivery needs a failure that put the one before in    *)
(* doubt.  It gets lost only if a failure has put the batch itself at risk.*)
(***************************************************************************)
EXTENDS Naturals

CONSTANTS
  Batch,
  MaxFaults   \* bound on the failures

VARIABLES
  chan,     \* [Batch -> where the batch is]
  copies,   \* [Batch -> Nat]: deliveries
  doubt,    \* [Batch -> Nat]: deliveries put in doubt
  risk,     \* batches at risk
  faults    \* failures so far

vars == <<chan, copies, doubt, risk, faults>>

Init == /\ chan = [b \in Batch |-> "new"]
        /\ copies = [b \in Batch |-> 0] /\ doubt = [b \in Batch |-> 0]
        /\ risk = {} /\ faults = 0

Fault == faults < MaxFaults /\ faults' = faults + 1

Submit(b) == /\ chan[b] = "new"
             /\ chan' = [chan EXCEPT ![b] = "waiting"]
             /\ UNCHANGED <<copies, doubt, risk, faults>>

(* Due: every delivery so far is in doubt.                                 *)
Due(b) == chan[b] = "waiting" /\ copies[b] = doubt[b]

Deliver(b) == /\ Due(b)
              /\ copies' = [copies EXCEPT ![b] = @ + 1]
              /\ UNCHANGED <<chan, doubt, risk, faults>>

(* A delivery whose acknowledgement is lost is in doubt at once ...        *)
DeliverUnheard(b) == /\ Due(b) /\ Fault
                     /\ copies' = [copies EXCEPT ![b] = @ + 1]
                     /\ doubt' = [doubt EXCEPT ![b] = @ + 1]
                     /\ UNCHANGED <<chan, risk>>

(* ... another one when the batch cannot be settled after it.              *)
Doubt(b) == /\ chan[b] = "waiting" /\ copies[b] = doubt[b] + 1 /\ Fault
            /\ doubt' = [doubt EXCEPT ![b] = @ + 1]
            /\ UNCHANGED <<chan, copies, risk>>

Settle(b) == /\ chan[b] = "waiting" /\ copies[b] = doubt[b] + 1
             /\ chan' = [chan EXCEPT ![b] = "settled"]
             /\ UNCHANGED <<copies, doubt, risk, faults>>

(* A failure puts a waiting batch at risk, and may lose it with that;      *)
(* what is at risk may also get lost later.                                *)
Endanger(b) == /\ chan[b] = "waiting" /\ Fault
               /\ risk' = risk \cup {b}
               /\ chan' \in {chan, [chan EXCEPT ![b] = "lost"]}
               /\ UNCHANGED <<copies, doubt>>

Lose(b) == /\ chan[b] = "waiting" /\ b \in risk
           /\ chan' = [chan EXCEPT ![b] = "lost"]
           /\ UNCHANGED <<copies, doubt, risk, faults>>

(* A failure that does not concern these batches.                          *)
FaultElsewhere == Fault /\ UNCHANGED <<chan, copies, doubt, risk>>

Next == \/ \E b \in Batch : \/ Submit(b) \/ Deliver(b) \/ DeliverUnheard(b) \/ Doubt(b)
                            \/ Settle(b) \/ Endanger(b) \/ Lose(b)
        \/ FaultElsewhere

Spec == Init /\ [][Next]_vars
=============================================================================
