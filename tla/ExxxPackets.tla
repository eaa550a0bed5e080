----------------------------- MODULE ExxxPackets -----------------------------
(***************************************************************************)
(* The packets on the servo motors' bus: exxx_network.cpp builds requests, *)
(* exxx_packet_parser.hpp takes the status packets apart byte by byte, and *)
(* exxx_warning_category.cpp and exxx_error_category.cpp name the bits of  *)
(* a status.  Bytes are numbers, 16-bit fields have their low byte first.  *)
(***************************************************************************)
EXTENDS Integers, SequencesExt

kHeader1 == 170
kHeader2 == 85

Instruction == [Ping |-> 1, ReadData |-> 2, WriteData |-> 3, WriteEeprom |-> 9,
                AvagoAvePos |-> 10, ReadHash |-> 12, SyncParam |-> 13, Reset |-> 16]

Uint16(bytes, i) == bytes[i] + 256 * bytes[i + 1]
LowHigh(n) == <<n % 256, n \div 256>>

(* A plausible slip: the sum is not cut to eight bits. *)
ChecksumWide(bytes) == 255 - FoldLeft(+, 0, bytes)

(* ~ of the sum, in eight bits. *)
Checksum(bytes) == 255 - (FoldLeft(+, 0, bytes) % 256)

Enclose(body) == <<kHeader1, kHeader2>> \o body \o <<Checksum(body)>>

(* What ExxxNetwork::Send writes; the length counts from the instruction to *)
(* the checksum, and two zero bytes follow it.                              *)
Request(id, instruction, data) ==
  Enclose(<<id>> \o LowHigh(Len(data) + 2) \o <<instruction>> \o data) \o <<0, 0>>

(* What a node answers. *)
StatusPacket(id, status, data) ==
  Enclose(<<id>> \o LowHigh(Len(data) + 3) \o LowHigh(status) \o data)

-----------------------------------------------------------------------------
(* ExxxPacketParser *)

Reset == [state |-> "Header1", packet |-> <<>>, status |-> "kContinue"]

Keep(parser, input, state) ==
  [state |-> state, packet |-> Append(parser.packet, input), status |-> "kContinue"]
Refuse(parser, state) == [state |-> state, packet |-> parser.packet, status |-> "kError"]

PacketLength(parser) == Uint16(parser.packet, 4)

(* A plausible slip: the checksum is read and not compared. *)
ChecksumByteUnread(parser, input) ==
  [Keep(parser, input, "Checksum") EXCEPT !.status = "kDone"]

ChecksumByte(parser, input) ==
  IF input = Checksum(SubSeq(parser.packet, 3, Len(parser.packet)))
  THEN [Keep(parser, input, "Checksum") EXCEPT !.status = "kDone"]
  ELSE Refuse(parser, "Checksum")

Expect(parser, input, accepted, state, otherwise) ==
  IF accepted THEN Keep(parser, input, state) ELSE Refuse(parser, otherwise)

TryParse(parser, id, input) ==
  CASE parser.state = "Header1" -> Expect(parser, input, input = kHeader1, "Header2", "Header1")
    [] parser.state = "Header2" -> Expect(parser, input, input = kHeader2, "NodeID", "ParserError")
    [] parser.state = "NodeID" -> Expect(parser, input, input = id, "Length1", "ParserError")
    [] parser.state = "Length1" -> Keep(parser, input, "Length2")
    [] parser.state = "Length2" ->
         Expect(parser, input, parser.packet[4] + 256 * input >= 3, "ErrorStatus1", "ParserError")
    [] parser.state = "ErrorStatus1" -> Keep(parser, input, "ErrorStatus2")
    [] parser.state = "ErrorStatus2" ->
         Keep(parser, input, IF PacketLength(parser) = 3 THEN "Checksum" ELSE "Data")
    [] parser.state = "Data" ->
         Keep(parser, input,
              IF Len(parser.packet) + 1 >= PacketLength(parser) + 4 THEN "Checksum" ELSE "Data")
    [] parser.state = "Checksum" -> ChecksumByte(parser, input)
    [] parser.state = "ParserError" -> Refuse(parser, "ParserError")

(* The loop of ExxxNetwork::Receive over what one read returned: the byte   *)
(* the parser refuses is dropped with what it had, and so is all that       *)
(* follows a packet.                                                        *)
ParseNext(parser, id, input) ==
  CASE parser.status = "kDone" -> parser
    [] parser.status = "kError" -> TryParse(Reset, id, input)
    [] parser.status = "kContinue" -> TryParse(parser, id, input)

ParseAll(parser, id, bytes) ==
  FoldLeft(LAMBDA p, input : ParseNext(p, id, input), parser, bytes)

PacketStatus(packet) == Uint16(packet, 6)
PacketData(packet) == SubSeq(packet, 8, Len(packet) - 1)

-----------------------------------------------------------------------------
(* MessageBuilder and the messages of the error categories, in the order    *)
(* they are appended: pairs of the mask and the name.                       *)

WarningMessages ==
  <<<<32768, "OhterDriveMode">>, <<16384, "HandRestriction">>, <<8192, "Avago2Mr">>,
    <<4096, "AddressRange">>, <<2048, "Inst">>, <<1024, "CheckSum">>,
    <<512, "PositionVelocityRestriction">>, <<256, "ElectricalOverload">>,
    <<128, "PositionRestriction">>, <<64, "DutyRestriction">>, <<32, "DutyDown">>,
    <<16, "CurrentRestriction">>, <<8, "CurrentDown">>, <<4, "VelocityRestriction">>,
    <<2, "VelocityDown">>, <<1, "AlarmStatus">>>>

ErrorMessages ==
  <<<<16384, "Avago">>, <<8192, "Encoder">>, <<4096, "Communication">>, <<2048, "Logic">>,
    <<1024, "Eeprom">>, <<512, "HallSensor">>, <<256, "Jumping">>, <<128, "CurrentSensor">>,
    <<64, "ReferenceDeviation">>, <<32, "ControlDeviation">>, <<16, "CoreTemp">>,
    <<8, "Current">>, <<4, "OverPosition">>, <<2, "Voltage">>, <<1, "Temperature">>,
    <<32768, "FunctionalSafety">>>>

(* The two names that occur twice differ in their description. *)
SafetyErrorMessages ==
  <<<<2, "MOSFET Short">>, <<4, "MOSFET Open">>, <<16, "Watchdog Slow">>,
    <<32, "Watchdog Fast">>, <<64, "ROM">>, <<128, "Monitor">>, <<256, "Inverter PBM">>,
    <<512, "Inverter 12V">>, <<1024, "Inverter Three phase">>, <<2048, "ResolverSensor BLDC">>,
    <<4096, "PositionSensor BLDC">>, <<8192, "ResolverSensor range">>, <<16384, "Current">>,
    <<32768, "Inverter Two phase">>, <<65536, "ResolverSensor DC">>,
    <<131072, "PositionSensor DC">>, <<262144, "Motor">>>>

HasBit(n, mask) == (n \div mask) % 2 = 1

Message(messages, greatest, ev) ==
  IF ev \in 1..greatest
  THEN FoldLeft(LAMBDA text, m : IF HasBit(ev, m[1]) THEN Append(text, m[2]) ELSE text,
                <<>>, messages)
  ELSE <<"Invalid">>
=============================================================================
