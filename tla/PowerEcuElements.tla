-------------------------- MODULE PowerEcuElements --------------------------
(***************************************************************************)
(* hsrb_power_ecu/src/power_ecu_com_element_{encoder,decoder}.hpp: how one *)
(* element of a packet is written and read.                                *)
(*                                                                         *)
(* A character is a tuple of one string, so that it can be compared with   *)
(* the characters PowerEcuFrames adds. An encoder returns the characters   *)
(* it appends, or Refused; a decoder the value it stores, or Refused.      *)
(***************************************************************************)
EXTENDS Integers, Sequences, SequencesExt

Char(c) == <<c>>

Hexadecimal == <<"0", "1", "2", "3", "4", "5", "6", "7",
                 "8", "9", "A", "B", "C", "D", "E", "F">>
Digit(d) == Char(Hexadecimal[d + 1])
IsDigit(c, base) == \E d \in 0..base - 1 : c = Digit(d)
DigitValue(c) == CHOOSE d \in 0..15 : c = Digit(d)

Refused == [ok |-> FALSE]
Written(text) == [ok |-> TRUE, text |-> text]
Read(value) == [ok |-> TRUE, value |-> value]

(* The C types of the elements. TLC's integers end at 2^31 - 1, and so does *)
(* uint32 here.                                                             *)
uint8  == [min |-> 0, max |-> 255]
uint16 == [min |-> 0, max |-> 65535]
uint32 == [min |-> 0, max |-> 2147483647]
int8   == [min |-> -128, max |-> 127]
int16  == [min |-> -32768, max |-> 32767]
int32  == [min |-> -2147483647 - 1, max |-> 2147483647]

(* static_cast to an unsigned type. *)
Cast(type, value) ==
  IF value <= type.max THEN value ELSE value % (type.max + 1)

(* What is left of value once its n lower digits are taken. *)
Rest(value, base, n) ==
  LET rest[i \in 0..n] == IF i = 0 THEN value ELSE rest[i - 1] \div base
  IN  rest[n]

Digits(value, base, n) ==
  [i \in 1..n |-> Digit(Rest(value, base, n - i) % base)]

Number(text, base) ==
  FoldLeft(LAMBDA number, c : number * base + DigitValue(c), 0, text)

AllDigits(text, base) == \A i \in 1..Len(text) : IsDigit(text[i], base)

-----------------------------------------------------------------------------
(* Encoders *)

ElementUintEncoder(length, value) ==
  IF Rest(value, 10, length) # 0 THEN Refused
  ELSE Written(Digits(value, 10, length))

ElementHexUintEncoder(length, value) ==
  IF Rest(value, 16, length) # 0 THEN Refused
  ELSE Written(<<Char("h")>> \o Digits(value, 16, length))

(* RegisterBit: bit b carries flags[b + 1]; the address must lie inside the *)
(* element, and a sequence has no address twice.                            *)
RegisteredBits(length, flags) == 0..Len(flags) - 1 \cap 0..length * 4 - 1

(* flags is the sequence of the registered bool values, bit 0 first. *)
ElementHexUintBitsEncoder(length, flags) ==
  LET bit(b) == IF flags[b + 1] THEN 2 ^ b ELSE 0
      sum[b \in 0..Len(flags)] ==
        IF b = 0 THEN 0
        ELSE sum[b - 1] + IF b - 1 \in RegisteredBits(length, flags)
                          THEN bit(b - 1) ELSE 0
  IN  ElementHexUintEncoder(length, sum[Len(flags)])

ElementStringEncoder(length, value) ==
  IF Len(value) # length THEN Refused ELSE Written(value)

-----------------------------------------------------------------------------
(* Decoders *)

ElementUintDecoder(type, length, text) ==
  IF Len(text) # length \/ ~ AllDigits(text, 10) THEN Refused
  ELSE Read(Cast(type, Number(text, 10)))

ElementHexUintDecoder(type, length, text) ==
  IF Len(text) - 1 # length \/ Head(text) # Char("h") \/ ~ AllDigits(Tail(text), 16)
  THEN Refused
  ELSE Read(Cast(type, Number(Tail(text), 16)))

(* The value is clamped to the limits of its type, not wrapped. *)
ElementIntDecoder(type, length, text) ==
  IF \/ Len(text) - 1 # length
     \/ Head(text) \notin {Char(" "), Char("-")}
     \/ ~ AllDigits(Tail(text), 10)
  THEN Refused
  ELSE LET magnitude == Number(Tail(text), 10)
           value == IF Head(text) = Char("-") THEN - magnitude ELSE magnitude
       IN  Read(CASE value > type.max -> type.max
                  [] value < type.min -> type.min
                  [] OTHER -> value)

ElementStringDecoder(length, text) ==
  IF Len(text) # length THEN Refused ELSE Read(text)

-----------------------------------------------------------------------------
(* An element decoder as a value: what it reads and where it stores it. *)

UintElement(name, type, length) ==
  [kind |-> "uint", name |-> name, type |-> type, length |-> length]
HexElement(name, type, length) ==
  [kind |-> "hex", name |-> name, type |-> type, length |-> length]
IntElement(name, type, length) ==
  [kind |-> "int", name |-> name, type |-> type, length |-> length]
StringElement(name, length) ==
  [kind |-> "string", name |-> name, length |-> length]

(* decoder->Decode: what the element stores, or Refused. *)
DecodeElement(e, text) ==
  CASE e.kind = "uint"   -> ElementUintDecoder(e.type, e.length, text)
    [] e.kind = "hex"    -> ElementHexUintDecoder(e.type, e.length, text)
    [] e.kind = "int"    -> ElementIntDecoder(e.type, e.length, text)
    [] e.kind = "string" -> ElementStringDecoder(e.length, text)
=============================================================================
