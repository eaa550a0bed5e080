------------------------------ MODULE IoBoards ------------------------------
(***************************************************************************)
(* The two drivers of digital inputs and outputs.  A robot has one of the  *)
(* boards, and nothing passes between the drivers: they share a run.       *)
(***************************************************************************)
EXTENDS DigitalIo, HsrbCgos

VARIABLE board

Init == board \in {"usb_io", "cgos"} /\ IoInit /\ CgosInit

UsbIo == board = "usb_io" /\ IoNext /\ UNCHANGED <<board, cgosVars>>
Cgos == board = "cgos" /\ CgosNext /\ UNCHANGED <<board, ioVars>>

Next == UsbIo \/ Cgos

Spec == Init /\ [][Next]_<<board, ioVars, cgosVars>>
=============================================================================
