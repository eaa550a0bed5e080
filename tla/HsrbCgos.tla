------------------------------ MODULE HsrbCgos ------------------------------
(***************************************************************************)
(* hsrb_cgos_driver: the hardware interface HsrbCgosHw over HsrbCgosLib,   *)
(* with the driver's descriptor, its board and its eight pins.             *)
(***************************************************************************)
EXTENDS Integers, Sequences, FiniteSets

CONSTANTS Pins,          \* pin numbers a configuration may name
          MaxGpios,      \* bound on the length of a configuration
          MaxCycles,     \* bound on the calls that change pins or commands
          Handles        \* handles the driver may give to the board

ASSUME CgosAssumption ==
  /\ Pins \subseteq Int
  /\ MaxGpios \in Nat
  /\ MaxCycles \in Nat
  /\ Handles \subseteq Nat

VARIABLES lifecycle,     \* the state the controller manager keeps (external)
          gpios,         \* gpios_
          value,         \* value_ of each of them
          cgos_handle_, fd_,
          descriptors,   \* how many descriptors of the driver are open
          boards,        \* the handles of the boards that are open
          refused,       \* history: the handles the driver last refused to close
          port,          \* the level of the input pins, and what was last written
          cycles

cgosVars == <<lifecycle, gpios, value, cgos_handle_, fd_, descriptors, boards, refused, port, cycles>>

-----------------------------------------------------------------------------
(* on_init *)

Entries == [pin : Pins, direction : {"in", "out", "other"}] \cup
           [problem : {"missing", "unparsable"}]
Configurations == UNION {[1..n -> Entries] : n \in 0..MaxGpios}

Supported(entry) ==
  /\ "pin" \in DOMAIN entry
  /\ \/ entry.direction = "in" /\ entry.pin \in 0..3
     \/ entry.direction = "out" /\ entry.pin \in 4..7

(* The entries before the one it refuses have been added.                   *)
OnInit(configuration) ==
  LET unsupported == {i \in DOMAIN configuration : ~ Supported(configuration[i])}
      added == IF unsupported = {} THEN Len(configuration)
               ELSE (CHOOSE i \in unsupported : \A j \in unsupported : i <= j) - 1
  IN  /\ lifecycle = "none"
      /\ gpios' = SubSeq(configuration, 1, added)
      /\ value' = [i \in 1..added |-> 0]
      /\ lifecycle' = IF unsupported = {} /\ configuration # <<>> THEN "unconfigured" ELSE "finalized"
      /\ UNCHANGED <<cgos_handle_, fd_, descriptors, boards, refused, port, cycles>>

-----------------------------------------------------------------------------
(* HsrbCgosLib and on_configure *)

Closed == -1
Opened == 3

(* Finalize, for what the descriptors and fd_ then are.                     *)
Finalized(fd, n) == [fd |-> Closed, n |-> IF fd # Closed THEN n - 1 ELSE n]

(* Initialize: the results it may have.  A descriptor whose version could   *)
(* not be asked for stays open, and one of another version is closed.       *)
Initialize ==
  {[ok |-> TRUE, fd |-> Opened, n |-> descriptors + 1],
   [ok |-> FALSE, fd |-> Opened, n |-> descriptors + 1],
   [ok |-> FALSE, fd |-> Finalized(Opened, descriptors + 1).fd, n |-> Finalized(Opened, descriptors + 1).n],
   [ok |-> FALSE, fd |-> fd_, n |-> descriptors]}

OnConfigure ==
  /\ lifecycle = "unconfigured"
  /\ \E library \in Initialize :
       /\ fd_' = library.fd
       /\ descriptors' = library.n
       /\ \/ (* No driver, or no board: not an error. *)
             /\ cgos_handle_' = 0
             /\ lifecycle' = "inactive"
             /\ UNCHANGED <<boards, refused>>
          \/ /\ library.ok
             /\ cgos_handle_' \in Handles
             /\ boards' = boards \cup {cgos_handle_'}
             /\ refused' = refused \ {cgos_handle_'}
             /\ \/ lifecycle' = "inactive"
                \/ lifecycle' = "finalized"  \* GetIOCount fails, or counts none
  /\ UNCHANGED <<gpios, value, port, cycles>>

-----------------------------------------------------------------------------
(* read and write, which the controller manager calls in both states        *)

Configured == lifecycle \in {"inactive", "active"}
Inputs == {i \in DOMAIN gpios : gpios[i].direction = "in"}
Outputs == DOMAIN gpios \ Inputs

(* Without a board nothing happens; an error ends the life of the component *)
(* (external).                                                              *)
Read ==
  /\ Configured
  /\ cgos_handle_ # 0
  /\ \/ /\ value' = [i \in DOMAIN gpios |-> IF i \in Inputs THEN port.level[gpios[i].pin] ELSE value[i]]
        /\ UNCHANGED lifecycle
     \/ lifecycle' = "finalized" /\ UNCHANGED value
  /\ UNCHANGED <<gpios, cgos_handle_, fd_, descriptors, boards, refused, port, cycles>>

(* The last of the outputs of one pin counts.                               *)
WrittenTo(pin) ==
  LET own == {i \in Outputs : gpios[i].pin = pin}
  IN  IF own = {} THEN 0 ELSE value[CHOOSE i \in own : \A j \in own : i >= j]

Write ==
  /\ Configured
  /\ cgos_handle_ # 0
  /\ \/ /\ port' = [port EXCEPT !.written = [pin \in Pins \cup 0..7 |-> WrittenTo(pin)]]
        /\ UNCHANGED lifecycle
     \/ lifecycle' = "finalized" /\ UNCHANGED port
  /\ UNCHANGED <<gpios, value, cgos_handle_, fd_, descriptors, boards, refused, cycles>>

(* A controller sets the value of an output.                                *)
SetOutput ==
  /\ lifecycle = "active"
  /\ cycles < MaxCycles
  /\ cycles' = cycles + 1
  /\ \E i \in Outputs : value' = [value EXCEPT ![i] = 1 - @]
  /\ UNCHANGED <<lifecycle, gpios, cgos_handle_, fd_, descriptors, boards, refused, port>>

-----------------------------------------------------------------------------
(* on_activate, on_deactivate, on_cleanup and the destructor *)

OnActivate == lifecycle = "inactive" /\ lifecycle' = "active"
OnDeactivate == lifecycle = "active" /\ lifecycle' = "inactive"

Activation ==
  /\ OnActivate \/ OnDeactivate
  /\ UNCHANGED <<gpios, value, cgos_handle_, fd_, descriptors, boards, refused, port, cycles>>

(* BoardClose: the driver closes the board or fails; without a descriptor   *)
(* it is not even asked.                                                    *)
BoardClose(fd) ==
  \/ /\ fd # Closed
     /\ boards' = boards \ {cgos_handle_}
     /\ UNCHANGED refused
  \/ /\ UNCHANGED boards
     /\ refused' = IF fd # Closed THEN refused \cup {cgos_handle_} ELSE refused

(* A plausible slip: the library is finalized first.                        *)
OnCleanupFinalizeFirst ==
  /\ lifecycle = "inactive"
  /\ lifecycle' = "unconfigured"
  /\ BoardClose(Finalized(fd_, descriptors).fd)
  /\ fd_' = Finalized(fd_, descriptors).fd
  /\ descriptors' = Finalized(fd_, descriptors).n
  /\ UNCHANGED <<gpios, value, cgos_handle_, port, cycles>>

(* Whether the board was closed is not looked at, and the handle is kept.   *)
OnCleanup ==
  /\ lifecycle = "inactive"
  /\ lifecycle' = "unconfigured"
  /\ BoardClose(fd_)
  /\ fd_' = Finalized(fd_, descriptors).fd
  /\ descriptors' = Finalized(fd_, descriptors).n
  /\ UNCHANGED <<gpios, value, cgos_handle_, port, cycles>>

(* ~HsrbCgosLib closes the descriptor, and nobody closes the board.         *)
Destroyed ==
  /\ lifecycle = "finalized"
  /\ lifecycle' = "gone"
  /\ fd_' = Finalized(fd_, descriptors).fd
  /\ descriptors' = Finalized(fd_, descriptors).n
  /\ UNCHANGED <<gpios, value, cgos_handle_, boards, refused, port, cycles>>

PinChanges ==
  /\ cycles < MaxCycles
  /\ cycles' = cycles + 1
  /\ \E pin \in 0..3 : port' = [port EXCEPT !.level[pin] = 1 - @]
  /\ UNCHANGED <<lifecycle, gpios, value, cgos_handle_, fd_, descriptors, boards, refused>>

CgosInit ==
  /\ lifecycle = "none"
  /\ gpios = <<>> /\ value = <<>>
  /\ cgos_handle_ = 0 /\ fd_ = Closed
  /\ descriptors = 0 /\ boards = {} /\ refused = {}
  /\ port = [level |-> [pin \in 0..3 |-> 0], written |-> [pin \in 0..7 |-> 0]]
  /\ cycles = 0

CgosNext ==
  \/ \E configuration \in Configurations : OnInit(configuration)
  \/ OnConfigure \/ Read \/ Write \/ SetOutput
  \/ Activation \/ OnCleanup \/ Destroyed \/ PinChanges

-----------------------------------------------------------------------------
(* The handle that is kept over on_cleanup (hsrb_cgos_hw.cpp:176) is never  *)
(* used for a board that is not open; a component that is not configured    *)
(* holds no descriptor, and no board but those the driver refused to close, *)
(* which on_cleanup does not notice; and only the pins of configured        *)
(* outputs are ever set.  A component that ended in an error leaves its     *)
(* board open.                                                              *)
HandleIsValid ==
  /\ Configured /\ cgos_handle_ # 0 => fd_ # Closed /\ cgos_handle_ \in boards
  /\ descriptors = IF fd_ = Closed THEN 0 ELSE 1
  /\ lifecycle \in {"none", "unconfigured"} => descriptors = 0 /\ boards \subseteq refused
  /\ \A pin \in DOMAIN port.written :
       port.written[pin] = 1 => pin \in 4..7 /\ \E i \in Outputs : gpios[i].pin = pin
=============================================================================
