--------------------------- MODULE IoBoards_proofs ---------------------------
(***************************************************************************)
(* Proofs about the two drivers of digital inputs and outputs: the CGOS    *)
(* driver (HsrbCgos) and the USB-IO board (DigitalIo), for every           *)
(* configuration, every number of messages and calls and every bound.      *)
(***************************************************************************)
EXTENDS IoBoards, DataInduction

----------------------------------------------------------------------------
(* What the component holds in each state of its life *)

Held ==
  /\ fd_ \in {Closed, Opened}
  /\ descriptors = IF fd_ = Closed THEN 0 ELSE 1
  /\ boards \subseteq {cgos_handle_} \cup refused
  /\ lifecycle \in {"none", "unconfigured"} => fd_ = Closed
  /\ lifecycle \in {"none", "unconfigured", "inactive", "active"} /\ fd_ = Closed => boards \subseteq refused
  /\ Configured /\ cgos_handle_ # 0 => fd_ # Closed /\ cgos_handle_ \in boards

(* The GPIOs that were accepted, and the pins that were set for them.       *)
PinsOK ==
  /\ gpios \in Seq(Entries)
  /\ \A i \in DOMAIN gpios : Supported(gpios[i])
  /\ DOMAIN port = {"level", "written"}
  /\ lifecycle = "none" => \A pin \in DOMAIN port.written : port.written[pin] = 0
  /\ \A pin \in DOMAIN port.written :
       port.written[pin] = 1 => pin \in 4..7 /\ \E i \in Outputs : gpios[i].pin = pin

CgosInv == Held /\ PinsOK

LEMMA HeldStep ==
  ASSUME Held, CgosNext
  PROVE  Held'
<1> USE DEF Closed, Opened, Configured
<1>1. CASE \E configuration \in Configurations : OnInit(configuration)
  BY <1>1 DEF OnInit, Held
<1>2. CASE OnConfigure
  <2>1. fd_ = Closed /\ descriptors = 0 /\ boards \subseteq refused
    BY <1>2 DEF OnConfigure, Held
  <2>2. PICK library \in Initialize :
          /\ fd_' = library.fd /\ descriptors' = library.n
          /\ \/ cgos_handle_' = 0 /\ lifecycle' = "inactive" /\ UNCHANGED <<boards, refused>>
             \/ /\ library.ok /\ boards' = boards \cup {cgos_handle_'}
                /\ refused' = refused \ {cgos_handle_'}
                /\ lifecycle' \in {"inactive", "finalized"}
    BY <1>2 DEF OnConfigure
  <2>3. /\ fd_' \in {Closed, Opened} /\ descriptors' = IF fd_' = Closed THEN 0 ELSE 1
        /\ library.ok => fd_' = Opened
    BY <2>1, <2>2 DEF Initialize, Finalized
  <2> QED
    BY <2>1, <2>2, <2>3 DEF Held
<1>3. CASE Read \/ Write \/ SetOutput \/ Activation \/ PinChanges
  BY <1>3 DEF Read, Write, SetOutput, Activation, OnActivate, OnDeactivate, PinChanges, Held
<1>4. CASE OnCleanup
  BY <1>4 DEF OnCleanup, BoardClose, Finalized, Held
<1>5. CASE Destroyed
  BY <1>5 DEF Destroyed, Finalized, Held
<1> QED
  BY <1>1, <1>2, <1>3, <1>4, <1>5 DEF CgosNext

(* The entries that on_init adds are those before the first it refuses.     *)
LEMMA AddedAreSupported ==
  ASSUME NEW configuration \in Configurations, OnInit(configuration)
  PROVE  gpios' \in Seq(Entries) /\ \A i \in DOMAIN gpios' : Supported(gpios'[i])
<1> DEFINE unsupported == {i \in DOMAIN configuration : ~ Supported(configuration[i])}
           added == IF unsupported = {} THEN Len(configuration)
                    ELSE (CHOOSE i \in unsupported : \A j \in unsupported : i <= j) - 1
<1>1. gpios' = SubSeq(configuration, 1, added)
  BY DEF OnInit
<1>2. configuration \in Seq(Entries) /\ DOMAIN configuration = 1..Len(configuration)
      /\ Len(configuration) \in Nat
  <2>1. PICK n \in 0..MaxGpios : configuration \in [1..n -> Entries]
    BY DEF Configurations
  <2>2. n \in Nat
    BY CgosAssumption
  <2> QED
    BY <2>1, <2>2
<1>3. added \in 0..Len(configuration) /\ \A i \in 1..added : Supported(configuration[i])
  <2>1. CASE unsupported = {}
    BY <1>2, <2>1
  <2>2. CASE unsupported # {}
    <3>1. unsupported \subseteq Nat
      BY <1>2
    <3>2. \E i \in unsupported : \A j \in unsupported : i <= j
      BY <2>2, <3>1, Smallest
    <3> DEFINE first == CHOOSE i \in unsupported : \A j \in unsupported : i <= j
    <3>3. first \in unsupported /\ \A j \in unsupported : first <= j
      BY <3>2
    <3>4. added = first - 1
      BY <2>2
    <3> HIDE DEF first
    <3> QED
      BY <1>2, <3>3, <3>4
  <2> QED
    BY <2>1, <2>2
<1> HIDE DEF added, unsupported
<1>4. /\ gpios' \in Seq(Entries) /\ Len(gpios') = added
      /\ \A i \in 1..added : gpios'[i] = configuration[i]
  BY <1>1, <1>2, <1>3
<1> QED
  BY <1>3, <1>4

(* Write sets a pin only for an output that is configured on it.            *)
LEMMA OnlyOutputsWritten ==
  ASSUME PinsOK, NEW pin, WrittenTo(pin) = 1
  PROVE  pin \in 4..7 /\ \E i \in Outputs : gpios[i].pin = pin
<1> DEFINE own == {i \in Outputs : gpios[i].pin = pin}
<1>1. own # {}
  BY DEF WrittenTo
<1>2. PICK i \in Outputs : gpios[i].pin = pin
  BY <1>1
<1>3. Supported(gpios[i]) /\ gpios[i].direction # "in"
  BY <1>2 DEF PinsOK, Outputs, Inputs
<1> QED
  BY <1>2, <1>3 DEF Supported

LEMMA PinsStep ==
  ASSUME PinsOK, CgosNext
  PROVE  PinsOK'
<1>1. CASE \E configuration \in Configurations : OnInit(configuration)
  <2>1. gpios' \in Seq(Entries) /\ \A i \in DOMAIN gpios' : Supported(gpios'[i])
    BY <1>1, AddedAreSupported
  <2>2. \A pin \in DOMAIN port.written : port.written[pin] = 0
    BY <1>1 DEF OnInit, PinsOK
  <2>3. UNCHANGED port
    BY <1>1 DEF OnInit
  <2> QED
    BY <2>1, <2>2, <2>3 DEF PinsOK
<1>2. CASE Write
  <2>1. CASE port' = [port EXCEPT !.written = [pin \in Pins \cup 0..7 |-> WrittenTo(pin)]]
    <3>1. /\ DOMAIN port' = {"level", "written"}
          /\ port'.written = [pin \in Pins \cup 0..7 |-> WrittenTo(pin)]
      BY <2>1 DEF PinsOK
    <3>2. UNCHANGED <<gpios, lifecycle>> \/ (UNCHANGED gpios /\ lifecycle' = "finalized")
      BY <1>2 DEF Write
    <3>3. lifecycle' # "none" /\ Outputs' = Outputs
      BY <1>2, <3>2 DEF Write, Configured, Outputs, Inputs
    <3> QED
      BY <3>1, <3>2, <3>3, OnlyOutputsWritten DEF PinsOK
  <2>2. CASE UNCHANGED port /\ lifecycle' = "finalized"
    BY <1>2, <2>2 DEF Write, PinsOK, Outputs, Inputs
  <2> QED
    BY <1>2, <2>1, <2>2 DEF Write
<1>3. CASE PinChanges
  <2>1. DOMAIN port' = DOMAIN port /\ port'.written = port.written
    BY <1>3 DEF PinChanges, PinsOK
  <2> QED
    BY <1>3, <2>1 DEF PinChanges, PinsOK, Outputs, Inputs
<1>4. CASE Read \/ SetOutput \/ Activation \/ OnCleanup \/ Destroyed \/ OnConfigure
  <2>1. UNCHANGED <<gpios, port>>
    BY <1>4 DEF Read, SetOutput, Activation, OnCleanup, Destroyed, OnConfigure
  <2>2. lifecycle' # "none"
    BY <1>4 DEF Read, SetOutput, Activation, OnActivate, OnDeactivate, OnCleanup, Destroyed,
                OnConfigure, Configured
  <2> QED
    BY <2>1, <2>2 DEF PinsOK, Outputs, Inputs
<1> QED
  BY <1>1, <1>2, <1>3, <1>4 DEF CgosNext

LEMMA CgosInvInit == CgosInit => CgosInv
<1> SUFFICES ASSUME CgosInit PROVE CgosInv
  OBVIOUS
<1>1. Held
  BY DEF CgosInit, Held, Closed, Opened, Configured
<1>2. gpios \in Seq(Entries) /\ DOMAIN gpios = {}
  BY DEF CgosInit
<1>3. DOMAIN port = {"level", "written"} /\ \A pin \in DOMAIN port.written : port.written[pin] = 0
  BY DEF CgosInit
<1> QED
  BY <1>1, <1>2, <1>3 DEF CgosInv, PinsOK

LEMMA CgosInvHolds == Spec => []CgosInv
<1>1. Init => CgosInv
  BY CgosInvInit DEF Init
<1>2. CgosInv /\ [Next]_<<board, ioVars, cgosVars>> => CgosInv'
  <2> SUFFICES ASSUME CgosInv, [Next]_<<board, ioVars, cgosVars>> PROVE CgosInv'
    OBVIOUS
  <2>1. CASE UNCHANGED cgosVars
    BY <2>1 DEF cgosVars, CgosInv, Held, PinsOK, Configured, Outputs, Inputs
  <2>2. CASE CgosNext
    BY <2>2, HeldStep, PinsStep DEF CgosInv
  <2> QED
    BY <2>1, <2>2 DEF Next, UsbIo, Cgos
<1> QED
  BY <1>1, <1>2, PTL DEF Spec

(***************************************************************************)
(* However often the component is configured and cleaned up, and whether   *)
(* or not the driver and the board are there: the handle it keeps is used  *)
(* only for an open board; on_cleanup leaves no descriptor behind, and no  *)
(* board but one that the driver refused to close when it was asked to;    *)
(* and only pins 4 to 7 that are configured as outputs are set             *)
(* (HsrbCgosHw::on_init, on_configure, on_cleanup, read and write).        *)
(***************************************************************************)
THEOREM HandleStaysValid == Spec => []HandleIsValid
<1>1. CgosInv => HandleIsValid
  BY DEF CgosInv, Held, PinsOK, HandleIsValid
<1> QED
  BY <1>1, CgosInvHolds, PTL
----------------------------------------------------------------------------
(* DigitalIo: the host and the board in step, while the line has lost       *)
(* nothing and no answer was late                                           *)

Levels == {0, 1}
CommandType == {c \in Seq(Int) : Len(c) = 7 /\ \A i \in 4..7 : c[i] \in Levels}
AnswerType == {a \in Seq(Int) : Len(a) = 6}

StateOK ==
  /\ command \in CommandType
  /\ level \in [1..6 -> Levels]
  /\ output \in [1..4 -> Levels]
  /\ count_timeout \in 0..kCeaseComunicate

Silent == wire = <<>> /\ toBoard = <<>>

(* What the board shows after it has heard the last message.                *)
Obeyed ==
  /\ sent \in CommandType /\ answered \in AnswerType
  /\ output = SubSeq(sent, 4, 7)
  /\ led \in {SubSeq(sent, 1, 3), <<0, 0, 0>>} \cup
            (IF count_timeout = kCeaseComunicate THEN {<<255, 255, 255>>} ELSE {})

(* The four states of an exchange: before the first, the message under way, *)
(* the answer under way, and over.                                          *)
NoExchange == thread = "write" /\ messages = 0 /\ Silent /\ toHost = <<>>
Asked ==
  /\ thread = "read" /\ toHost = <<>>
  /\ wire \in Seq(Int) /\ toBoard \in Seq(Int)
  /\ sent \in CommandType /\ toBoard \o wire = sent
Answering == thread = "read" /\ Silent /\ toHost = answered /\ Obeyed
Over == thread = "write" /\ Silent /\ toHost = <<>> /\ stored = answered /\ Obeyed

IoInv ==
  /\ lost \in Nat
  /\ lost = 0 => StateOK /\ (NoExchange \/ Asked \/ Answering \/ Over)

LEMMA ColorsOK ==
  ASSUME NEW c \in Colors
  PROVE  ToColorInput(c) \in Int
BY IoAssumption DEF ToColorInput, ColorInputMax

LEMMA FunctionIsSeq ==
  ASSUME NEW n \in Nat, NEW f \in [1..n -> Int]
  PROVE  f \in Seq(Int) /\ Len(f) = n
OBVIOUS

LEMMA SetCommandOK ==
  ASSUME StateOK, SetCommand
  PROVE  command' \in CommandType
<1>1. /\ command \in Seq(Int) /\ Len(command) = 7 /\ \A i \in 4..7 : command[i] \in Levels
  BY DEF StateOK, CommandType
<1>2. CASE \E i \in 4..7, state \in {0, 1} : command' = [command EXCEPT ![i] = state]
  <2>1. PICK i \in 4..7, state \in Levels : command' = [command EXCEPT ![i] = state]
    BY <1>2 DEF Levels
  <2>2. state \in Int
    BY DEF Levels
  <2>3. /\ command' \in Seq(Int) /\ Len(command') = Len(command)
        /\ \A j \in 1..Len(command) : command'[j] = IF j = i THEN state ELSE command[j]
    <3>1. i \in 1..Len(command)
      BY <1>1
    <3>2. command \in [1..7 -> Int]
      BY <1>1, LenProperties
    <3>3. /\ command' \in [1..7 -> Int]
          /\ \A j \in 1..7 : command'[j] = IF j = i THEN state ELSE command[j]
      BY <2>1, <2>2, <3>2
    <3>4. command' \in Seq(Int) /\ Len(command') = 7
      <4>1. 7 \in Nat
        OBVIOUS
      <4> QED
        BY <3>3, <4>1, FunctionIsSeq
    <3> QED
      BY <1>1, <3>3, <3>4
  <2> QED
    BY <1>1, <2>3 DEF CommandType
<1>3. ASSUME NEW r \in Colors, NEW g \in Colors, NEW b \in Colors,
             command' = <<ToColorInput(r), ToColorInput(g), ToColorInput(b)>> \o SubSeq(command, 4, 7)
      PROVE  command' \in CommandType
  <2> DEFINE colors == <<ToColorInput(r), ToColorInput(g), ToColorInput(b)>>
             others == SubSeq(command, 4, 7)
  <2>1. colors \in Seq(Int) /\ Len(colors) = 3
    BY ColorsOK
  <2>2. others \in Seq(Int) /\ Len(others) = 4 /\ \A i \in 1..4 : others[i] \in Levels
    <3>1. \A i \in 4..7 : command[i] \in Int
      BY <1>1 DEF Levels
    <3>2. /\ others \in Seq(Int) /\ Len(others) = IF 4 <= 7 THEN 7 - 4 + 1 ELSE 0
          /\ \A i \in 1..(7 - 4 + 1) : others[i] = command[4 + i - 1]
      BY <3>1, SubSeqProperties
    <3>3. \A i \in 1..4 : 4 + i - 1 \in 4..7
      OBVIOUS
    <3> QED
      BY <1>1, <3>2, <3>3
  <2> HIDE DEF colors, others
  <2>3. /\ colors \o others \in Seq(Int) /\ Len(colors \o others) = Len(colors) + Len(others)
        /\ \A i \in 1..(Len(colors) + Len(others)) :
             (colors \o others)[i] = IF i <= Len(colors) THEN colors[i] ELSE others[i - Len(colors)]
    BY <2>1, <2>2, ConcatProperties
  <2>4. \A i \in 4..7 : (colors \o others)[i] \in Levels
    <3>1. ASSUME NEW i \in 4..7 PROVE i \in 1..(3 + 4) /\ ~(i <= 3) /\ i - 3 \in 1..4
      OBVIOUS
    <3> QED
      BY <2>1, <2>2, <2>3, <3>1
  <2> QED
    <3>1. command' = colors \o others
      BY <1>3 DEF colors, others
    <3>2. Len(colors \o others) = 7
      BY <2>1, <2>2, <2>3
    <3> QED
      BY <2>3, <2>4, <3>1, <3>2 DEF CommandType
<1> QED
  BY <1>2, <1>3 DEF SetCommand

(* The seven bytes of a message are the colour of the LED and four outputs. *)
LEMMA MessageParts ==
  ASSUME NEW c \in CommandType
  PROVE  /\ SubSeq(c, 4, 7) = [i \in 1..4 |-> c[3 + i]]
         /\ SubSeq(c, 1, 3) = <<c[1], c[2], c[3]>>
         /\ SubSeq(c, 8, Len(c)) = <<>>
         /\ SubSeq(c, 4, 7) \in [1..4 -> Levels]
<1>1. c \in Seq(Int) /\ Len(c) = 7 /\ \A i \in 4..7 : c[i] \in Levels
  BY DEF CommandType
<1>2. SubSeq(c, 4, 7) = [i \in 1..4 |-> c[3 + i]]
  BY <1>1
<1>3. SubSeq(c, 1, 3) = <<c[1], c[2], c[3]>>
  <2> DEFINE s == SubSeq(c, 1, 3)
             t == <<c[1], c[2], c[3]>>
  <2>1. \A i \in 1..3 : c[i] \in Int
    <3>1. \A i \in 1..3 : i \in 1..Len(c)
      BY <1>1
    <3> QED
      BY <1>1, <3>1, ElementOfSeq
  <2>2. /\ s \in Seq(Int) /\ Len(s) = IF 1 <= 3 THEN 3 - 1 + 1 ELSE 0
        /\ \A i \in 1..(3 - 1 + 1) : s[i] = c[1 + i - 1]
    BY <2>1, SubSeqProperties
  <2>3. t \in Seq(Int) /\ Len(t) = 3 /\ t[1] = c[1] /\ t[2] = c[2] /\ t[3] = c[3]
    BY <2>1
  <2>4. \A i \in 1..3 : s[i] = t[i]
    BY <2>2, <2>3
  <2> HIDE DEF s, t
  <2>5. Len(s) = Len(t) /\ \A i \in 1..Len(s) : s[i] = t[i]
    BY <2>2, <2>3, <2>4
  <2>6. s = t
    BY <2>2, <2>3, <2>5, SeqEqual
  <2> QED
    BY <2>6 DEF s, t
<1>4. SubSeq(c, 8, Len(c)) = <<>>
  BY <1>1
<1>5. \A i \in 1..4 : c[3 + i] \in Levels
  BY <1>1
<1> QED
  BY <1>2, <1>3, <1>4, <1>5

LEMMA WholeIsHeard ==
  ASSUME Asked, Len(toBoard) >= 7
  PROVE  toBoard = sent /\ wire = <<>>
<1>1. /\ sent \in Seq(Int) /\ Len(sent) = 7 /\ toBoard \o wire = sent
      /\ wire \in Seq(Int) /\ toBoard \in Seq(Int)
  BY DEF Asked, CommandType
<1>2. Len(toBoard) + Len(wire) = 7 /\ Len(wire) \in Nat /\ Len(toBoard) \in Nat
  <2>1. Len(toBoard \o wire) = Len(toBoard) + Len(wire)
        /\ Len(wire) \in Nat /\ Len(toBoard) \in Nat
    BY <1>1, ConcatProperties, LenProperties
  <2> QED
    BY <1>1, <2>1
<1>3. wire = <<>>
  BY <1>1, <1>2, EmptySeq
<1> QED
  BY <1>1, <1>3, ConcatEmptySeq

(* A byte that arrives leaves the message what it is. *)
LEMMA ArrivalKeepsMessage ==
  ASSUME Asked, ByteArrives
  PROVE  Asked'
<1>1. /\ wire \in Seq(Int) /\ toBoard \in Seq(Int) /\ wire # <<>>
      /\ wire' = Tail(wire) /\ toBoard' = Append(toBoard, Head(wire))
      /\ UNCHANGED <<thread, toHost, sent>>
  BY DEF Asked, ByteArrives
<1>2. /\ Head(wire) \in Int /\ Tail(wire) \in Seq(Int) /\ wire = <<Head(wire)>> \o Tail(wire)
  <2>1. Len(wire) \in Nat \ {0}
    BY <1>1, EmptySeq
  <2>2. /\ Head(wire) \in Int /\ Tail(wire) \in Seq(Int) /\ Len(Tail(wire)) = Len(wire) - 1
        /\ \A i \in 1..Len(Tail(wire)) : Tail(wire)[i] = wire[i + 1]
    BY <1>1, HeadTailProperties
  <2>3. Head(wire) = wire[1]
    BY <1>1, <2>1
  <2>4. <<Head(wire)>> \in Seq(Int) /\ Len(<<Head(wire)>>) = 1 /\ (<<Head(wire)>>)[1] = Head(wire)
    BY <2>2
  <2>5. /\ <<Head(wire)>> \o Tail(wire) \in Seq(Int)
        /\ Len(<<Head(wire)>> \o Tail(wire)) = 1 + Len(Tail(wire))
        /\ \A i \in 1..(1 + Len(Tail(wire))) :
             (<<Head(wire)>> \o Tail(wire))[i] = IF i <= 1 THEN (<<Head(wire)>>)[i] ELSE Tail(wire)[i - 1]
    BY <2>2, <2>4, ConcatProperties
  <2>6. \A i \in 1..Len(wire) : (<<Head(wire)>> \o Tail(wire))[i] = wire[i]
    BY <2>1, <2>2, <2>3, <2>4, <2>5
  <2> QED
    BY <1>1, <2>1, <2>2, <2>5, <2>6, SeqEqual
<1>3. toBoard' \in Seq(Int) /\ toBoard' = toBoard \o <<Head(wire)>>
  BY <1>1, <1>2, AppendProperties, AppendIsConcat
<1>4. toBoard' \o wire' = toBoard \o wire
  <2>1. <<Head(wire)>> \in Seq(Int)
    BY <1>2
  <2>2. (toBoard \o <<Head(wire)>>) \o Tail(wire) = toBoard \o (<<Head(wire)>> \o Tail(wire))
    BY <1>1, <1>2, <2>1, ConcatAssociative
  <2> QED
    BY <1>1, <1>2, <1>3, <2>2
<1> QED
  BY <1>1, <1>2, <1>3, <1>4 DEF Asked

LEMMA AnswerOK ==
  ASSUME level \in [1..6 -> Levels]
  PROVE  Answer \in AnswerType
<1>1. Bit(Latched[1]) \in Int /\ Bit(Latched[2]) \in Int
  BY DEF Bit
<1>2. /\ 1 - level[1] \in Int /\ 1 - level[2] \in Int /\ level[3] \in Int /\ level[4] \in Int
  BY DEF Levels
<1> QED
  BY <1>1, <1>2 DEF Answer, AnswerType

Exchanges == NoExchange \/ Asked \/ Answering \/ Over

LEMMA HostStep ==
  ASSUME StateOK, Exchanges, lost = 0, lost' = 0, SetCommand \/ HostWrites \/ HostReads
  PROVE  StateOK' /\ Exchanges'
<1>1. CASE SetCommand
  <2>1. command' \in CommandType
    BY <1>1, SetCommandOK
  <2>2. UNCHANGED <<thread, stored, wire, toBoard, toHost, level, sketchVars, sent, answered, messages>>
    BY <1>1 DEF SetCommand
  <2>3. StateOK'
    BY <2>1, <2>2 DEF StateOK, sketchVars
  <2>4. Exchanges'
    BY <2>2 DEF Exchanges, NoExchange, Asked, Answering, Over, Silent, Obeyed, sketchVars
  <2> QED
    BY <2>3, <2>4
<1>2. CASE HostWrites
  <2>1. /\ thread' = "read" /\ sent' = command /\ wire' = wire \o command
        /\ UNCHANGED <<command, toBoard, toHost, level, sketchVars>>
    BY <1>2 DEF HostWrites, Fault
  <2>2. wire = <<>> /\ toBoard = <<>> /\ toHost = <<>>
    BY <1>2 DEF HostWrites, Exchanges, NoExchange, Asked, Answering, Over, Silent
  <2>3. command \in Seq(Int) /\ command \in CommandType
    BY DEF StateOK, CommandType
  <2>4. wire' = command /\ <<>> \o command = command
    BY <2>1, <2>2, <2>3, ConcatEmptySeq
  <2>5. <<>> \in Seq(Int)
    OBVIOUS
  <2>6. Asked'
    BY <2>1, <2>2, <2>3, <2>4, <2>5 DEF Asked
  <2> QED
    BY <2>1, <2>6 DEF StateOK, Exchanges, sketchVars
<1>3. CASE HostReads
  <2>1. UNCHANGED <<command, wire, toBoard, level, sketchVars, sent, answered>>
    BY <1>3 DEF HostReads
  <2>2. CASE Asked
    <3>1. Len(toHost) = 0
      BY <2>2 DEF Asked
    <3>2. Len(wire) + Len(toBoard) = 7
      <4>1. /\ wire \in Seq(Int) /\ toBoard \in Seq(Int) /\ toBoard \o wire = sent
            /\ Len(sent) = 7
        BY <2>2 DEF Asked, CommandType
      <4>2. /\ Len(toBoard \o wire) = Len(toBoard) + Len(wire)
            /\ Len(wire) \in Nat /\ Len(toBoard) \in Nat
        BY <4>1, ConcatProperties, LenProperties
      <4>3. Len(toBoard) + Len(wire) = 7
        BY <4>1, <4>2
      <4> QED
        BY <4>2, <4>3
    <3> QED
      BY <1>3, <3>1, <3>2 DEF HostReads, Fault
  <2>3. CASE Answering
    <3>1. toHost = answered /\ answered \in Seq(Int) /\ Len(answered) = 6
      BY <2>3 DEF Answering, Obeyed, AnswerType
    <3>2. /\ stored' = SubSeq(toHost, 1, 6) /\ toHost' = SubSeq(toHost, 7, Len(toHost))
          /\ thread' = "write"
      BY <1>3, <3>1 DEF HostReads, Fault
    <3>3. stored' = answered
      BY <3>1, <3>2, SubSeqFull
    <3>4. toHost' = <<>>
      <4>1. 7 \in Int /\ Len(toHost) \in Int /\ Len(toHost) < 7
        BY <3>1
      <4> QED
        BY <3>2, <4>1, SubSeqEmpty
    <3>5. Over'
      BY <2>1, <2>3, <3>2, <3>3, <3>4 DEF Over, Answering, Silent, Obeyed, sketchVars
    <3> QED
      BY <2>1, <3>5 DEF StateOK, Exchanges, sketchVars
  <2> QED
    BY <1>3, <2>2, <2>3 DEF HostReads, Exchanges, NoExchange, Over
<1> QED
  BY <1>1, <1>2, <1>3

(* The sketch answers a whole message, and obeys it. *)
LEMMA ExchangeIsWhole ==
  ASSUME StateOK, Exchanges, Loop, Enough
  PROVE  StateOK' /\ Answering'
<1>1. Asked
  <2>1. Len(<<>>) = 0
    OBVIOUS
  <2> QED
    BY <2>1 DEF Enough, Exchanges, NoExchange, Answering, Over, Silent
<1>2. toBoard = sent /\ wire = <<>>
  BY <1>1, WholeIsHeard DEF Enough
<1>3. sent \in CommandType /\ sent \in Seq(Int) /\ Len(sent) = 7 /\ \A i \in 4..7 : sent[i] \in Levels
  BY <1>1 DEF Asked, CommandType
<1>4. /\ UNCHANGED <<thread, command, wire, level, sent>> /\ Exchange
  BY DEF Loop, NoMessage
<1>5. \A i \in 1..7 : Byte(i) = sent[i]
  BY <1>2, <1>3 DEF Byte
<1>6. output' = SubSeq(sent, 4, 7) /\ output' \in [1..4 -> Levels]
  <2>1. output' = [i \in 1..4 |-> WriteCommand(output[i], Byte(3 + i))]
    BY <1>4 DEF Exchange
  <2>2. ASSUME NEW i \in 1..4 PROVE WriteCommand(output[i], Byte(3 + i)) = sent[3 + i]
    <3>1. 3 + i \in 4..7 /\ 3 + i \in 1..7
      OBVIOUS
    <3>2. Byte(3 + i) = sent[3 + i] /\ sent[3 + i] \in {0, 1}
      BY <1>3, <1>5, <3>1 DEF Levels
    <3> QED
      BY <3>2 DEF WriteCommand
  <2>3. output' = [i \in 1..4 |-> sent[3 + i]]
    BY <2>1, <2>2
  <2> QED
    BY <1>3, <2>3, MessageParts
<1>7. led' \in {SubSeq(sent, 1, 3), <<0, 0, 0>>}
  <2>1. Byte(1) = sent[1] /\ Byte(2) = sent[2] /\ Byte(3) = sent[3]
    BY <1>5
  <2>2. SubSeq(sent, 1, 3) = <<sent[1], sent[2], sent[3]>>
    BY <1>3, MessageParts
  <2> QED
    BY <1>4, <2>1, <2>2 DEF Exchange
<1>8. toBoard' = <<>>
  BY <1>2, <1>3, <1>4, MessageParts DEF Exchange
<1>9. Answer \in AnswerType /\ Answer \in Seq(Int)
  BY AnswerOK DEF StateOK, AnswerType
<1>10. toHost' = Answer /\ answered' = Answer
  <2>1. <<>> \o Answer = Answer
    BY <1>9, ConcatEmptySeq
  <2> QED
    BY <1>1, <1>4, <2>1 DEF Asked, Exchange
<1>11. count_timeout' = 0 /\ count_timeout' \in 0..kCeaseComunicate
  BY <1>4, IoAssumption DEF Exchange
<1>12. StateOK'
  BY <1>4, <1>6, <1>11 DEF StateOK
<1>13. Obeyed'
  BY <1>3, <1>4, <1>6, <1>7, <1>9, <1>10 DEF Obeyed
<1> QED
  BY <1>1, <1>2, <1>4, <1>8, <1>10, <1>12, <1>13 DEF Answering, Silent, Asked

(* A turn without a message may turn the LED white, and changes no output.  *)
LEMMA TurnKeepsStep ==
  ASSUME StateOK, Exchanges, Loop, ~Enough
  PROVE  StateOK' /\ Exchanges'
<1>1. /\ UNCHANGED <<thread, command, stored, wire, toBoard, toHost, level, output, sent, answered, messages>>
      /\ count_timeout' = IF count_timeout + 1 > kCeaseComunicate THEN kCeaseComunicate
                          ELSE count_timeout + 1
      /\ led' = IF count_timeout + 1 <= kCeaseComunicate THEN led
                ELSE IF LedOn THEN <<255, 255, 255>> ELSE <<0, 0, 0>>
  BY DEF Loop, Exchange, NoMessage
<1>2. count_timeout \in 0..kCeaseComunicate /\ kCeaseComunicate \in Nat
  BY IoAssumption DEF StateOK
<1>3. count_timeout' \in 0..kCeaseComunicate
  BY <1>1, <1>2
<1>4. StateOK'
  BY <1>1, <1>3 DEF StateOK
<1>5. ASSUME Obeyed PROVE Obeyed'
  <2>1. CASE count_timeout + 1 > kCeaseComunicate
    <3>1. count_timeout' = kCeaseComunicate /\ led' \in {<<255, 255, 255>>, <<0, 0, 0>>}
      BY <1>1, <1>2, <2>1
    <3> QED
      BY <1>1, <1>5, <3>1 DEF Obeyed
  <2>2. CASE count_timeout + 1 <= kCeaseComunicate
    <3>1. count_timeout # kCeaseComunicate /\ led' = led
      BY <1>1, <1>2, <2>2
    <3> QED
      BY <1>1, <1>5, <3>1 DEF Obeyed
  <2> QED
    BY <1>2, <2>1, <2>2
<1> QED
  BY <1>1, <1>4, <1>5 DEF Exchanges, NoExchange, Asked, Answering, Over, Silent

LEMMA BoardStep ==
  ASSUME StateOK, Exchanges, ByteArrives \/ Changes \/ Loop
  PROVE  StateOK' /\ Exchanges'
<1>1. CASE ByteArrives
  <2>1. Asked
    BY <1>1 DEF ByteArrives, Exchanges, NoExchange, Answering, Over, Silent
  <2>2. Asked'
    BY <1>1, <2>1, ArrivalKeepsMessage
  <2> QED
    BY <1>1, <2>2 DEF ByteArrives, StateOK, Exchanges, sketchVars
<1>2. CASE Changes
  <2>1. PICK i \in 1..6 : level' = [level EXCEPT ![i] = 1 - @]
    BY <1>2 DEF Changes
  <2>2. level' \in [1..6 -> Levels]
    BY <2>1 DEF StateOK, Levels
  <2>3. UNCHANGED <<thread, command, stored, wire, toBoard, toHost, sketchVars, sent, answered, messages>>
    BY <1>2 DEF Changes
  <2> QED
    BY <2>2, <2>3
       DEF StateOK, Exchanges, NoExchange, Asked, Answering, Over, Silent, Obeyed, sketchVars
<1>3. CASE Loop
  BY <1>3, ExchangeIsWhole, TurnKeepsStep DEF Exchanges
<1> QED
  BY <1>1, <1>2, <1>3

LEMMA IoInvInit == IoInit => IoInv
<1> SUFFICES ASSUME IoInit PROVE IoInv
  OBVIOUS
<1>1. command \in CommandType
  <2>1. command = <<255, 255, 255, 0, 0, 1, 0>>
    BY DEF IoInit
  <2>2. <<255, 255, 255, 0, 0, 1, 0>> \in Seq(Int) /\ Len(<<255, 255, 255, 0, 0, 1, 0>>) = 7
    OBVIOUS
  <2>3. ASSUME NEW i \in 4..7 PROVE command[i] \in Levels
    <3>1. i = 4 \/ i = 5 \/ i = 6 \/ i = 7
      OBVIOUS
    <3> QED
      BY <2>1, <3>1 DEF Levels
  <2> QED
    BY <2>1, <2>2, <2>3 DEF CommandType
<1>2. level \in [1..6 -> Levels]
  BY DEF IoInit, Levels
<1>3. output \in [1..4 -> Levels]
  BY DEF IoInit, Levels
<1>4. StateOK
  BY <1>1, <1>2, <1>3, IoAssumption DEF IoInit, StateOK
<1>5. NoExchange
  BY DEF IoInit, NoExchange, Silent
<1> QED
  BY <1>4, <1>5 DEF IoInit, IoInv

LEMMA IoInvNext == IoInv /\ IoNext => IoInv'
<1> SUFFICES ASSUME IoInv, IoNext PROVE IoInv'
  OBVIOUS
<1>1. lost \in Nat /\ lost' \in {lost, lost + 1}
  BY DEF IoInv, IoNext, SetCommand, HostWrites, HostReads, Fault, ByteArrives, Changes, Loop, bounds
<1>2. lost' \in Nat /\ (lost' = 0 => lost = 0)
  BY <1>1
<1>3. ASSUME lost' = 0 PROVE StateOK' /\ Exchanges'
  BY <1>2, <1>3, HostStep, BoardStep DEF IoInv, IoNext, Exchanges
<1> QED
  BY <1>2, <1>3 DEF IoInv, Exchanges

LEMMA IoInvHolds == Spec => []IoInv
<1>1. Init => IoInv
  BY IoInvInit DEF Init
<1>2. IoInv /\ [Next]_<<board, ioVars, cgosVars>> => IoInv'
  <2> SUFFICES ASSUME IoInv, [Next]_<<board, ioVars, cgosVars>> PROVE IoInv'
    OBVIOUS
  <2>1. CASE UNCHANGED ioVars
    BY <2>1 DEF ioVars, sketchVars, bounds, IoInv, StateOK, NoExchange, Asked, Answering, Over,
                Silent, Obeyed
  <2>2. CASE IoNext
    BY <2>2, IoInvNext
  <2> QED
    BY <2>1, <2>2 DEF Next, UsbIo, Cgos
<1> QED
  BY <1>1, <1>2, PTL DEF Spec

(***************************************************************************)
(* As long as the line loses nothing and no answer is late, the two        *)
(* streams, in which nothing marks the beginning of a message, never get   *)
(* out of step: after each exchange the host holds the board's answer to   *)
(* it and the board obeys the message, however the bytes arrive, whenever  *)
(* commands and inputs change and however many exchanges there were        *)
(* (SerialConnection._run_impl, the loop of hsrb_usbio_3_serial.ino).      *)
(***************************************************************************)
THEOREM StaysInStep == Spec => []InStep
<1>1. IoInv => InStep
  BY DEF IoInv, NoExchange, Asked, Answering, Over, Silent, Obeyed, InStep
<1> QED
  BY <1>1, IoInvHolds, PTL


=============================================================================
