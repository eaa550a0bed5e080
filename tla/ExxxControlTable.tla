--------------------------- MODULE ExxxControlTable ---------------------------
(***************************************************************************)
(* control_table.cpp, control_table_item_descriptor.cpp and                *)
(* load_control_table.cpp: where the items of a servo's control table lie  *)
(* and what their bytes are in MKS units.                                  *)
(*                                                                         *)
(* A table file is the sequence of its lines, the heading first, or <<>>   *)
(* when it cannot be read; its MD5 is the file itself.  A conversion is    *)
(* <<number>>, or <<>> when the column holds none.  MKS values are whole   *)
(* numbers of tenths.                                                      *)
(***************************************************************************)
EXTENDS Integers, SequencesExt, Functions

NumBytes == [uint8_t |-> 1, int8_t |-> 1, uint16_t |-> 2, int16_t |-> 2,
             uint32_t |-> 4, int32_t |-> 4, float |-> 4,
             uint64_t |-> 8, int64_t |-> 8, double |-> 8]
Signed == {"int8_t", "int16_t"}

-----------------------------------------------------------------------------
(* ControlTable *)

Line(columns, type, name, mks) == [columns |-> columns, type |-> type, name |-> name, mks |-> mks]

Coefficient(mks) == IF mks = <<>> THEN 1 ELSE mks[1]

Descriptor(type, address, mks) ==
  [type |-> type, initial_address |-> address, num_bytes |-> NumBytes[type],
   coefficient_mks |-> Coefficient(mks)]

EmptyTable == [error |-> "kSuccess", descriptors |-> <<>>, last_address |-> 0]

AddItem(table, line) ==
  [error |-> table.error,
   descriptors |-> [name \in DOMAIN table.descriptors \cup {line.name} |->
                      IF name = line.name THEN Descriptor(line.type, table.last_address, line.mks)
                      ELSE table.descriptors[name]],
   last_address |-> (table.last_address + NumBytes[line.type]) % 65536]

ProcessLine(table, line) ==
  CASE line.columns # 12 -> [table EXCEPT !.error = "kColumnSizeError"]
    [] line.columns = 12 /\ line.name \in DOMAIN table.descriptors ->
         [table EXCEPT !.error = "kAlreadyRecorded"]
    [] line.columns = 12 /\ line.name \notin DOMAIN table.descriptors
       /\ line.type \notin DOMAIN NumBytes -> [table EXCEPT !.error = "kBadType"]
    [] OTHER -> AddItem(table, line)

(* The items before a line in error stay. *)
Load(file) ==
  IF file = <<>> THEN [EmptyTable EXCEPT !.error = "kFileOpenError"]
  ELSE FoldLeft(LAMBDA table, line : IF table.error = "kSuccess" THEN ProcessLine(table, line) ELSE table,
                EmptyTable, Tail(file))

CalculateMd5Sum(file) == file

HasItem(table, name) == name \in DOMAIN table.descriptors
ReferItemDescriptor(table, name) == table.descriptors[name]

(* A plausible slip: a table in the home directory is taken as it is. *)
LoadHomeTable(home, package, hw_hash) ==
  LET candidates == IF home # {} THEN home ELSE {hw_hash}
      file == CHOOSE f \in candidates : TRUE
  IN  [ok |-> Load(file).error = "kSuccess", table |-> Load(file)]

(* The table of the home directory, if there is one, is the only one tried. *)
(* Of the package's tables the first whose sum is the servo's is loaded,    *)
(* and no other after it.                                                   *)
LoadControlTable(home, package, hw_hash) ==
  LET candidates == IF home # {} THEN home ELSE package
  IN  IF \E file \in candidates : Load(file).error = "kSuccess" /\ CalculateMd5Sum(file) = hw_hash
      THEN [ok |-> TRUE, table |-> Load(hw_hash)] ELSE [ok |-> FALSE, table |-> EmptyTable]

-----------------------------------------------------------------------------
(* ControlTableItemDescriptor, for the integers of one and two bytes *)

Modulus(type) == 256 ^ NumBytes[type]
Greatest(type) == IF type \in Signed THEN Modulus(type) \div 2 - 1 ELSE Modulus(type) - 1

Bytes(type, n) ==
  LET u == n % Modulus(type)
  IN  IF NumBytes[type] = 1 THEN <<u>> ELSE <<u % 256, u \div 256>>

DoubleCast(type, bytes) ==
  LET u == bytes[1] + (IF Len(bytes) > 1 THEN 256 * bytes[2] ELSE 0)
  IN  IF type \in Signed /\ u > Greatest(type) THEN u - Modulus(type) ELSE u

(* boost::math::round of a number of tenths: a half goes away from zero. *)
Round(tenths) == IF tenths >= 0 THEN (tenths + 5) \div 10 ELSE -((5 - tenths) \div 10)

(* The bytes a value may become, none when it is refused.  The test of the  *)
(* range takes the type for a signed one: a negative value of an unsigned   *)
(* type passes, and what the conversion makes of it is up to the build.     *)
ByteCast(type, tenths) ==
  CASE Round(tenths) > Greatest(type) \/ Round(tenths) < - Greatest(type) -> {}
    [] Round(tenths) \in - Greatest(type)..-1 /\ type \notin Signed ->
         {Bytes(type, Round(tenths)), Bytes(type, 0)}
    [] OTHER -> {Bytes(type, Round(tenths))}

(* The number of a table's units, over the units in one MKS unit. *)
ConvertToMKS(item, bytes) == [units |-> DoubleCast(item.type, bytes), per |-> item.coefficient_mks]
ConvertToBytes(item, tenths) == ByteCast(item.type, tenths * item.coefficient_mks)
=============================================================================
