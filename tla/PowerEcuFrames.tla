--------------------------- MODULE PowerEcuFrames ---------------------------
(***************************************************************************)
(* hsrb_power_ecu/src/power_ecu_com_frame_{encoder,decoder}.{hpp,cpp} and  *)
(* power_ecu_com_common.{hpp,cpp}: a frame is a header of twelve           *)
(* characters, the elements, and a footer of eleven.                       *)
(*                                                                         *)
(*     E,ecu1_,326,<element>,<element>,...,h<checksum>,\n                  *)
(*                                                                         *)
(* The size counts what follows the header. The characters of a packet's   *)
(* name and of a checksum are not spelled out: the i-th character of name  *)
(* n is <<n, i>>, and the checksum of some characters is eight characters  *)
(* that hold them, so two spans have one checksum only when they are equal.*)
(***************************************************************************)
EXTENDS PowerEcuElements, TLC

kPacketHeaderLength == 12
kPacketFooterLength == 11
NameLength == 5
ChecksumLength == 8

Comma == Char(",")
NameText(name) == [i \in 1..NameLength |-> <<name, i>>]

CalculateCrc32(span) == [i \in 1..ChecksumLength |-> <<"crc", i, span>>]

(* The characters of the size: three digits, or more when it needs them. *)
SizeText(size) == Digits(size, 10, IF size < 1000 THEN 3 ELSE 4)

Header(mark, name, size) ==
  <<Char(mark), Comma>> \o NameText(name) \o <<Comma>> \o SizeText(size) \o <<Comma>>

WithFooter(span) == span \o <<Char("h")>> \o CalculateCrc32(span) \o <<Comma, Char("\n")>>

-----------------------------------------------------------------------------
(* Encoding a command *)

(* IPowerEcuComDataEncoder::Encode: the elements before the first one that  *)
(* fails, each with its comma. rprod overrides it and writes no comma.      *)
DataEncode(packet) ==
  LET comma == IF packet.name = "rprod" THEN <<>> ELSE <<Comma>>
      append(done, e) ==
        IF done.ok /\ e.ok THEN Written(done.text \o e.text \o comma)
        ELSE [done EXCEPT !.ok = FALSE]
  IN  FoldLeft(append, Written(<<>>), packet.elements)

(* PowerEcuComFrameEncoder::Encode into an empty buffer. What the data      *)
(* encoder returns is not looked at: a packet whose element does not fit    *)
(* leaves with the elements before it, its declared size and a checksum     *)
(* that holds.                                                              *)
FrameEncode(packet) ==
  WithFooter(Header("H", packet.name, packet.size) \o DataEncode(packet).text)

-----------------------------------------------------------------------------
(* Decoding a report *)

(* atoi: an optional sign, then the digits up to the first other character. *)
Atoi(text) ==
  LET signed == Head(text) \in {Char("-"), Char("+"), Char(" ")}
      body == IF signed THEN Tail(text) ELSE text
      length == CHOOSE n \in 0..Len(body) :
                  /\ \A i \in 1..n : IsDigit(body[i], 10)
                  /\ n < Len(body) => ~ IsDigit(body[n + 1], 10)
      value == Number(SubSeq(body, 1, length), 10)
  IN  IF Head(text) = Char("-") THEN - value ELSE value

(* packet_size is a size_t: a negative number is larger than any buffer. *)
Huge == 1000000
PacketSize(text) == IF Atoi(text) < 0 THEN Huge ELSE Atoi(text)

Stored(values, name, value) ==
  [n \in DOMAIN values \cup {name} |-> IF n = name THEN value ELSE values[n]]

(* IPowerEcuComDataDecoder::Decode: each element ends at the next comma and *)
(* is stored as soon as it is decoded, so a failure keeps the ones before.  *)
DataDecode(elements, text, raw) ==
  LET next(state, e) ==
        LET commas == {i \in 1..Len(state.rest) : state.rest[i] = Comma}
            comma == CHOOSE i \in commas : \A j \in commas : i <= j
            result == DecodeElement(e, SubSeq(state.rest, 1, comma - 1))
        IN  IF ~ state.ok THEN state
            ELSE IF commas = {} THEN [state EXCEPT !.ok = FALSE]
            ELSE IF ~ result.ok THEN [state EXCEPT !.ok = FALSE]
            ELSE [ok |-> TRUE,
                  raw |-> Stored(state.raw, e.name, result.value),
                  rest |-> SubSeq(state.rest, comma + 1, Len(state.rest))]
  IN  FoldLeft(next, [ok |-> TRUE, raw |-> raw, rest |-> text], elements)

(* What Decode returns: the outcome, the characters it is done with, and,   *)
(* when it got as far as the data, the packet's name and its characters.    *)
OutOfRange(used)    == [result |-> "result_out_of_range", used |-> used]
ProtocolError(used) == [result |-> "protocol_error", used |-> used]
Framed(used, name, data) == [result |-> "framed", used |-> used, name |-> name, data |-> data]

(* PowerEcuComFrameDecoder::Decode on the characters of buffer, up to the   *)
(* data decoder it calls. sizes is the size each registered decoder insists *)
(* on. SkipString moves over the characters it compares even when they      *)
(* differ, so each refusal has its own place to go on from. The "h" of the  *)
(* footer and its last two characters are never compared.                   *)
FrameDecode(buffer, sizes) ==
  LET starts == {i \in 1..Len(buffer) : buffer[i] = Char("E")}
      first == CHOOSE i \in starts : \A j \in starts : i <= j
      skipped == first - 1
      left == Len(buffer) - skipped
      at(n) == buffer[skipped + n]
      size == PacketSize(SubSeq(buffer, skipped + 9, skipped + 11))
      frame == kPacketHeaderLength + size
      span == SubSeq(buffer, first, skipped + frame - kPacketFooterLength)
      checksum == SubSeq(buffer, skipped + frame - kPacketFooterLength + 2,
                         skipped + frame - 2)
      names == {n \in DOMAIN sizes : SubSeq(buffer, skipped + 3, skipped + 7) = NameText(n)}
      name == CHOOSE n \in names : TRUE
  IN  IF starts = {} THEN OutOfRange(Len(buffer))
      ELSE IF left < kPacketHeaderLength THEN OutOfRange(skipped)
      ELSE IF at(2) # Comma THEN ProtocolError(skipped + 2)
      ELSE IF at(8) # Comma THEN ProtocolError(skipped + 8)
      ELSE IF size < 11 THEN ProtocolError(skipped + 11)
      ELSE IF at(12) # Comma THEN ProtocolError(skipped + 12)
      ELSE IF left - kPacketHeaderLength < size THEN OutOfRange(skipped)
      ELSE IF CalculateCrc32(span) # checksum THEN ProtocolError(skipped + frame)
      ELSE IF names = {} THEN ProtocolError(skipped + frame)
      ELSE IF sizes[name] # size THEN ProtocolError(skipped + frame)
      ELSE Framed(skipped + frame, name,
                  SubSeq(buffer, skipped + kPacketHeaderLength + 1,
                         skipped + frame - kPacketFooterLength))
=============================================================================
