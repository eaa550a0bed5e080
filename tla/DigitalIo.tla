------------------------------ MODULE DigitalIo ------------------------------
(***************************************************************************)
(* hsrb_digital_io: the thread of SerialConnection, which sends seven      *)
(* bytes and reads six back, and the sketch on the Arduino, which answers. *)
(* Nothing in either stream marks where a message begins.                  *)
(***************************************************************************)
EXTENDS Integers, Sequences

CONSTANTS MaxMessages,   \* bound on the messages of the host
          MaxCommands,   \* bound on the calls of the setters
          MaxChanges,    \* bound on the changes of the board's inputs
          MaxLoops,      \* bound on the turns of the sketch's loop
          MaxLost,       \* bound on the faults of the line
          Colors,        \* what set_color is given, in hundredths
          UIntModulus,   \* unsigned int on the board: 2^16
          kBumperCount,  \* the 10 turns of a contact that count
          kCeaseComunicate, kBlinkWait

ASSUME IoAssumption ==
  /\ {MaxMessages, MaxCommands, MaxChanges, MaxLoops, MaxLost} \subseteq Nat
  /\ Colors \subseteq Int
  /\ {UIntModulus, kBumperCount, kCeaseComunicate, kBlinkWait} \subseteq Nat \ {0}

VARIABLES thread,         \* where _run_impl is; it holds the lock in "read"
          command,        \* _color_r to _suction
          stored,         \* _magnetic_sensor_1 to _rear_bumper_sensor
          wire,           \* the bytes under way to the board
          toBoard, toHost,
          level,          \* the inputs of the board
          led,            \* the status LED
          output,         \* prev_head_led to prev_suction, and the pins they stand for
          contact,        \* front_bumper_count and rear_bumper_count
          bumper,         \* front_bumper and rear_bumper
          count_timeout, count_blinking, is_led_on,
          sent, answered, \* the last message and the last answer
          messages, commands, changes, loops, lost

sketchVars == <<led, output, contact, bumper, count_timeout, count_blinking, is_led_on>>
bounds == <<messages, commands, changes, loops, lost>>
ioVars == <<thread, command, stored, wire, toBoard, toHost, level, sketchVars, sent, answered, bounds>>

-----------------------------------------------------------------------------
(* SerialConnection *)

ColorInputMax == 255

ToColorInput(hundredths) ==
  IF hundredths < 0 THEN 0
  ELSE IF hundredths > 100 THEN ColorInputMax ELSE (hundredths * ColorInputMax) \div 100

(* The setters wait for the lock, so that none runs during an exchange.     *)
SetCommand ==
  /\ thread # "read"
  /\ commands < MaxCommands
  /\ commands' = commands + 1
  /\ \/ \E r, g, b \in Colors :
          command' = <<ToColorInput(r), ToColorInput(g), ToColorInput(b)>> \o SubSeq(command, 4, 7)
     \/ \E i \in 4..7, state \in {0, 1} : command' = [command EXCEPT ![i] = state]
  /\ UNCHANGED <<thread, stored, wire, toBoard, toHost, level, sketchVars, sent, answered,
                 messages, changes, loops, lost>>

(* The line loses a byte of the message, or all up to one while the board   *)
(* starts, which opening its port makes it do.                              *)
Fault == lost < MaxLost /\ lost' = lost + 1
Without(message, i) == SubSeq(message, 1, i - 1) \o SubSeq(message, i + 1, Len(message))

HostWrites ==
  /\ thread = "write"
  /\ thread' = "read"
  /\ messages < MaxMessages
  /\ messages' = messages + 1
  /\ sent' = command
  /\ \/ wire' = wire \o command /\ UNCHANGED lost
     \/ /\ Fault
        /\ \E i \in 1..7 : wire' \in {wire \o Without(command, i), wire \o SubSeq(command, i + 1, 7)}
  /\ UNCHANGED <<command, stored, toBoard, toHost, level, sketchVars, answered, commands, changes, loops>>

(* read(6): all six, or after 0.1 s what there is, which nobody keeps.  The *)
(* board answers in time unless there is no whole message for it.           *)
HostReads ==
  /\ thread = "read"
  /\ \/ /\ Len(toHost) >= 6
        /\ stored' = SubSeq(toHost, 1, 6)
        /\ toHost' = SubSeq(toHost, 7, Len(toHost))
        /\ thread' = "write"
        /\ UNCHANGED lost
     \/ /\ Len(toHost) < 6
        /\ \/ Len(wire) + Len(toBoard) < 7 /\ UNCHANGED lost
           \/ Fault
        /\ toHost' = <<>>
        /\ thread' = "write"
        /\ UNCHANGED stored
     \/ (* A damaged character: decode or int raises, and no timer starts. *)
        /\ Len(toHost) >= 6
        /\ Fault
        /\ toHost' = SubSeq(toHost, 7, Len(toHost))
        /\ thread' = "dead"
        /\ stored' \in {SubSeq(toHost, 1, i) \o SubSeq(stored, i + 1, 6) : i \in 0..5}
  /\ UNCHANGED <<command, wire, toBoard, level, sketchVars, sent, answered,
                 messages, commands, changes, loops>>

-----------------------------------------------------------------------------
(* The sketch *)

ByteArrives ==
  /\ wire # <<>>
  /\ wire' = Tail(wire)
  /\ toBoard' = Append(toBoard, Head(wire))
  /\ UNCHANGED <<thread, command, stored, toHost, level, sketchVars, sent, answered, bounds>>

(* The inputs in the order of the answer; the first two are low when set.   *)
Changes ==
  /\ changes < MaxChanges
  /\ changes' = changes + 1
  /\ \E i \in 1..6 : level' = [level EXCEPT ![i] = 1 - @]
  /\ UNCHANGED <<thread, command, stored, wire, toBoard, toHost, sketchVars, sent, answered,
                 messages, commands, loops, lost>>

EmergencySwitch == level[3] = 1
Pressed(i) == level[4 + i] = 1

Contact == [i \in 1..2 |-> IF Pressed(i) THEN (contact[i] + 1) % UIntModulus ELSE 0]
Latched == [i \in 1..2 |-> bumper[i] \/ (Pressed(i) /\ Contact[i] >= kBumperCount)]

Blinking == EmergencySwitch /\ ((count_blinking + 1) % UIntModulus) % kBlinkWait = 0
LedOn == IF EmergencySwitch THEN is_led_on # Blinking ELSE TRUE

Bit(b) == IF b THEN 1 ELSE 0

(* WriteCommand only heeds a 0 and a 1.                                     *)
WriteCommand(state, byte) == IF byte \in {0, 1} THEN byte ELSE state

Answer == <<1 - level[1], 1 - level[2], level[3], level[4], Bit(Latched[1]), Bit(Latched[2])>>

(* A plausible slip: the last byte is not waited for.                       *)
EnoughButOne == Len(toBoard) >= 6
Enough == Len(toBoard) >= 7

(* Serial.read is -1 when there is nothing.                                 *)
Byte(i) == IF i <= Len(toBoard) THEN toBoard[i] ELSE 255

Exchange ==
  /\ Enough
  /\ output' = [i \in 1..4 |-> WriteCommand(output[i], Byte(3 + i))]
  /\ led' = IF LedOn THEN <<Byte(1), Byte(2), Byte(3)>> ELSE <<0, 0, 0>>
  /\ toBoard' = SubSeq(toBoard, 8, Len(toBoard))
  /\ toHost' = toHost \o Answer
  /\ answered' = Answer
  /\ bumper' = [i \in 1..2 |-> FALSE]
  /\ count_timeout' = 0

NoMessage ==
  /\ ~ Enough
  /\ bumper' = Latched
  /\ count_timeout' = IF count_timeout + 1 > kCeaseComunicate THEN kCeaseComunicate ELSE count_timeout + 1
  /\ led' = IF count_timeout + 1 <= kCeaseComunicate THEN led
            ELSE IF LedOn THEN <<255, 255, 255>> ELSE <<0, 0, 0>>
  /\ UNCHANGED <<output, toBoard, toHost, answered>>

Loop ==
  /\ loops < MaxLoops
  /\ loops' = loops + 1
  /\ contact' = Contact
  /\ count_blinking' = IF Blinking THEN 0 ELSE (count_blinking + 1) % UIntModulus
  /\ is_led_on' = LedOn
  /\ Exchange \/ NoMessage
  /\ UNCHANGED <<thread, command, stored, wire, level, sent, messages, commands, changes, lost>>

IoInit ==
  /\ thread = "write"
  /\ command = <<255, 255, 255, 0, 0, 1, 0>>
  /\ stored = <<0, 0, 0, 0, 0, 0>>
  /\ wire = <<>> /\ toBoard = <<>> /\ toHost = <<>>
  /\ level = <<0, 0, 0, 0, 0, 0>>
  /\ led = <<0, 0, 0>>
  /\ output = <<0, 0, 1, 0>>
  /\ contact = <<0, 0>>
  /\ bumper = <<FALSE, FALSE>>
  /\ count_timeout = 0 /\ count_blinking = 0 /\ is_led_on = TRUE
  /\ sent = <<>> /\ answered = <<>> 
  /\ messages = 0 /\ commands = 0 /\ changes = 0 /\ loops = 0 /\ lost = 0

IoNext == SetCommand \/ HostWrites \/ HostReads \/ ByteArrives \/ Changes \/ Loop

-----------------------------------------------------------------------------
(* As long as the line loses nothing, and no answer is late: when an        *)
(* exchange is over, what the host stores is the board's answer to it, and  *)
(* the board's outputs are those of the message; the status LED may be off  *)
(* when the emergency switch makes it blink.  One byte less, and each       *)
(* later message is taken from the wrong place, for nothing resynchronises  *)
(* the streams (serial_connection.py:107-122, hsrb_usbio_3_serial.ino:106). *)
InStep ==
  lost = 0 /\ thread = "write" /\ messages > 0 =>
    /\ wire = <<>> /\ toBoard = <<>> /\ toHost = <<>>
    /\ stored = answered
    /\ output = SubSeq(sent, 4, 7)
    /\ led \in {SubSeq(sent, 1, 3), <<0, 0, 0>>} \cup
              (IF count_timeout = kCeaseComunicate THEN {<<255, 255, 255>>} ELSE {})
=============================================================================
