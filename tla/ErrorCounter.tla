---------------------------- MODULE ErrorCounter ----------------------------
(***************************************************************************)
(* hsrb_power_ecu/src/error_counter.hpp: a sliding window over the results *)
(* of the last reads (or writes) with the number of failures among them.   *)
(* The code keeps that number incrementally instead of recounting it; the  *)
(* counter is a record of the window and of the number, as in the class.   *)
(***************************************************************************)
EXTENDS Naturals, Sequences, FiniteSets

(***************************************************************************)
(* ErrorCounter(buffer_size): the window starts full of successes.         *)
(***************************************************************************)
NewErrorCounter(size) ==
  [buffer |-> [i \in 1..size |-> TRUE], error_count |-> 0]

(* Mutant of Register: the failure that leaves the window is not deducted. *)
RegisterNeverDeducts(counter, result) ==
  [buffer      |-> Append(Tail(counter.buffer), result),
   error_count |-> counter.error_count + (IF result THEN 0 ELSE 1)]

(***************************************************************************)
(* Register(result): the oldest result leaves the window, the new one      *)
(* enters it, and the number of failures follows both.                     *)
(***************************************************************************)
Register(counter, result) ==
  [buffer      |-> Append(Tail(counter.buffer), result),
   error_count |-> (counter.error_count + (IF result THEN 0 ELSE 1))
                     - (IF Head(counter.buffer) THEN 0 ELSE 1)]

(***************************************************************************)
(* GetErrorRate() > kRetryRate, with kRetryRate = 0.9.                     *)
(***************************************************************************)
ExceedsRetryRate(counter) ==
  10 * counter.error_count > 9 * Len(counter.buffer)

(* The positions of the window that hold a failure. *)
Failures(buffer) == {i \in DOMAIN buffer : ~buffer[i]}
=============================================================================
