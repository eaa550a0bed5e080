-------------------------- MODULE CommandDelivery ---------------------------
(***************************************************************************)
(* What the command queue of PowerEcuProtocol promises its callers, with   *)
(* no line, no clock and no replies: commands are numbered as accepted,    *)
(* they leave in that order, each is transmitted at most once, at most one *)
(* is outstanding, and the oldest makes room when more than Capacity wait. *)
(* The comment of CommandState (power_ecu_protocol.hpp) asks for "only one *)
(* transmission per cycle" with one acknowledgement per transmission.      *)
(***************************************************************************)
EXTENDS Naturals

CONSTANT Capacity

VARIABLES accepted,     \* number of commands accepted so far
          finished,     \* commands 1..finished have left the queue
          outstanding,  \* a transmission awaits its acknowledgement
          delivered     \* the commands transmitted

vars == <<accepted, finished, outstanding, delivered>>

Init == accepted = 0 /\ finished = 0 /\ outstanding = FALSE /\ delivered = {}

(* The oldest waiting command makes room when the queue is full. *)
Accept ==
  /\ accepted' = accepted + 1
  /\ finished' = IF accepted - finished < Capacity THEN finished ELSE finished + 1
  /\ UNCHANGED <<outstanding, delivered>>

Transmit ==
  /\ ~outstanding
  /\ finished < accepted
  /\ finished + 1 \notin delivered
  /\ outstanding' = TRUE
  /\ delivered' = delivered \cup {finished + 1}
  /\ UNCHANGED <<accepted, finished>>

Finish ==
  /\ outstanding
  /\ finished < accepted
  /\ finished' = finished + 1
  /\ outstanding' = FALSE
  /\ UNCHANGED <<accepted, delivered>>

Next == Accept \/ Transmit \/ Finish

Spec == Init /\ [][Next]_vars
=============================================================================
