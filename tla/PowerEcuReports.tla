-------------------------- MODULE PowerEcuReports ---------------------------
(***************************************************************************)
(* hsrb_power_ecu/src/power_ecu_com_data_decoder.{hpp,cpp}: the packets of *)
(* the power ECU. A data decoder is the size it insists on, the element    *)
(* decoders in the order of the packet, each with the name of the variable *)
(* it stores into, the parameters it registers, and Update, which turns    *)
(* the stored values ("raw") into the parameters the driver reads ("out"). *)
(*                                                                         *)
(* Quantities stay integers: Update's factors 1e-3 (battery), 1e-9         *)
(* (quaternion) and 1e-8 (velocity, acceleration) are the unit of the      *)
(* parameter, not a change of its value.                                   *)
(***************************************************************************)
EXTENDS PowerEcuElements, FiniteSets

(* The characters of an element: the sign or the "h" counts. *)
Width(e) == IF e.kind \in {"hex", "int"} THEN e.length + 1 ELSE e.length

Ints(names, type, length) ==
  [i \in 1..Len(names) |-> IntElement(names[i], type, length)]

-----------------------------------------------------------------------------
(* ecu1_: basic information *)

Ecu1Size == 326

Quaternion == <<"quaternion_t", "quaternion_x", "quaternion_y", "quaternion_z">>
Gyro == <<"angular_velocity_x", "angular_velocity_y", "angular_velocity_z">>
Accelerometer == <<"acceleration_x", "acceleration_y", "acceleration_z">>

Ecu1Elements ==
  << UintElement("time_stamp", uint32, 10),
     StringElement("date", 14),
     StringElement("power_ecu_status_flag", 2 + 1),
     StringElement("power_ecu_status", 16 + 1),
     StringElement("diag_status", 64 + 1),
     IntElement("battery_total_capacity", uint16, 5),
     IntElement("battery_remaining_capacity", uint16, 5),
     IntElement("electric_current", int16, 5),
     IntElement("battery_voltage", uint16, 5),
     IntElement("battery_temperature", int8, 3),
     HexElement("battery_state_flag", uint16, 4),
     UintElement("battery_initial_learning_capacity", uint16, 5),
     HexElement("battery_error_status", uint16, 4),
     UintElement("battery_relative_capacity", uint8, 3),
     HexElement("bumper_status", uint8, 2),
     StringElement("gyro_status", 16 + 1) >>
  \o Ints(Quaternion \o Gyro \o Accelerometer, int32, 10)
  \o << HexElement("charger_state", uint8, 2) >>

(* The parameters of each type, as the constructor registers them. *)
Ecu1Parameters ==
  LET Typed(type, names) == {<<name, type>> : name \in names}
  IN  UNION {
    Typed("uint32_t", {"time_stamp", "power_ecu_internal_state"}),
    Typed("uint16_t", {"battery_initial_learning_capacity", "battery_error_status"}),
    Typed("uint8_t", {"charger_state"}),
    Typed("std::string", {"ecu1_date", "power_ecu_status_flag", "diag_status", "gyro_status"}),
    Typed("double", {"battery_total_capacity", "battery_remaining_capacity",
                     "electric_current", "battery_voltage", "battery_temperature",
                     "battery_relative_capacity"}),
    Typed("bool", {"is_battery_crgov", "is_battery_23par", "is_battery_std",
                   "is_battery_full", "is_battery_discov", "is_battery_chg",
                   "is_battery_disc", "is_battery_0per", "is_battery_45par",
                   "is_battery_sel", "is_battery_bal", "is_powerecu_bat_stat",
                   "is_powerecu_sw_kinoko", "is_powerecu_sw_pwr", "is_powerecu_sw_drv",
                   "is_powerecu_sw_latch", "is_powerecu_sw_w_sel", "is_powerecu_sw_w_stop",
                   "is_bumper_bumper2", "is_bumper_bumper1", "is_bumper_prox5",
                   "is_bumper_prox4", "is_bumper_prox3", "is_bumper_prox2",
                   "is_bumper_prox1"}),
    {<<"imu_quaternions", "array<double, 4>">>,
     <<"imu_angular_velocities", "array<double, 3>">>,
     <<"imu_accelerations", "array<double, 3>">>}}

BitOf(value, b) == (value \div 2 ^ b) % 2 = 1

(* Copies that drop the leading "h". *)
Ecu1Status(raw) ==
  [time_stamp |-> raw.time_stamp,
   ecu1_date |-> raw.date,
   power_ecu_status_flag |-> Tail(raw.power_ecu_status_flag),
   diag_status |-> Tail(raw.diag_status)]

Ecu1Battery(raw) ==
  LET flag(b) == BitOf(raw.battery_state_flag, b)
  IN [battery_total_capacity |-> raw.battery_total_capacity,
      battery_remaining_capacity |-> raw.battery_remaining_capacity,
      electric_current |-> raw.electric_current,
      battery_voltage |-> raw.battery_voltage,
      battery_temperature |-> raw.battery_temperature,
      is_battery_45par |-> flag(8 + 2),
      is_battery_sel |-> flag(8 + 1),
      is_battery_bal |-> flag(8 + 0),
      is_battery_crgov |-> flag(7),
      is_battery_23par |-> flag(6),
      is_battery_std |-> flag(5),
      is_battery_full |-> flag(4),
      is_battery_discov |-> flag(3),
      is_battery_chg |-> flag(2),
      is_battery_disc |-> flag(1),
      is_battery_0per |-> flag(0),
      battery_initial_learning_capacity |-> raw.battery_initial_learning_capacity,
      battery_error_status |-> raw.battery_error_status,
      battery_relative_capacity |-> raw.battery_relative_capacity]

(* strtol stops at the first character that is no digit, of either case. *)
HexValue(text) ==
  LET digit(i) == \E d \in 0..15 : text[i] = Digit(d)
      length == CHOOSE n \in 0..Len(text) :
                  /\ \A i \in 1..n : digit(i)
                  /\ n < Len(text) => ~ digit(n + 1)
  IN  Number(SubSeq(text, 1, length), 16)

(* The two stop switches are reported the other way round; the drive switch *)
(* is replaced by the internal state of the ECU.                            *)
Ecu1Switches(raw) ==
  LET status == raw.power_ecu_status
      state == HexValue(SubSeq(status, Len(status) - 5, Len(status) - 4))
      bits == HexValue(SubSeq(status, Len(status) - 1, Len(status)))
  IN [power_ecu_internal_state |-> state,
      is_powerecu_bat_stat |-> BitOf(bits, 6),
      is_powerecu_sw_kinoko |-> ~ BitOf(bits, 5),
      is_powerecu_sw_pwr |-> BitOf(bits, 4),
      is_powerecu_sw_drv |-> state # 9,
      is_powerecu_sw_latch |-> BitOf(bits, 2),
      is_powerecu_sw_w_sel |-> BitOf(bits, 1),
      is_powerecu_sw_w_stop |-> ~ BitOf(bits, 0)]

Ecu1Bumpers(raw) ==
  LET touched(b) == BitOf(raw.bumper_status, b)
  IN [is_bumper_bumper2 |-> touched(6), is_bumper_bumper1 |-> touched(5),
      is_bumper_prox5 |-> touched(4), is_bumper_prox4 |-> touched(3),
      is_bumper_prox3 |-> touched(2), is_bumper_prox2 |-> touched(1),
      is_bumper_prox1 |-> touched(0)]

(* A plausible slip: the rotation in the order of the frame. *)
Ecu1ImuFrameOrder(raw) ==
  [gyro_status |-> Tail(raw.gyro_status),
   imu_quaternions |-> [i \in 1..4 |-> raw[Quaternion[i]]],
   imu_angular_velocities |-> [i \in 1..3 |-> raw[Gyro[i]]],
   imu_accelerations |-> [i \in 1..3 |-> raw[Accelerometer[i]]],
   charger_state |-> raw.charger_state]

Ecu1Imu(raw) ==
  [gyro_status |-> Tail(raw.gyro_status),
   imu_quaternions |-> <<raw.quaternion_x, raw.quaternion_y, raw.quaternion_z, raw.quaternion_t>>,
   imu_angular_velocities |-> [i \in 1..3 |-> raw[Gyro[i]]],
   imu_accelerations |-> [i \in 1..3 |-> raw[Accelerometer[i]]],
   charger_state |-> raw.charger_state]

Ecu1Update(raw) ==
  Ecu1Status(raw) @@ Ecu1Battery(raw) @@ Ecu1Switches(raw) @@ Ecu1Bumpers(raw) @@ Ecu1Imu(raw)

-----------------------------------------------------------------------------
(* ecu2_: optional information, decoded straight into the parameters *)

Ecu2Size == 291

Ecu2Voltages == {"d12V_D0_V", "d12V_D1_V", "d12V_D2_V", "d12V_D3_V", "d12V_O1_V",
                 "d12V_O2_V", "d5VA_V", "d5VD1_V", "d5VD2_V", "d5VD3_V", "d5VD4_V",
                 "d5VD5_V", "Chgsense", "d2V5VDA1_V", "d2V5VDA2_V", "ACDC_V",
                 "BATT_V", "PBM_V", "PUMP_V"}

Ecu2Elements ==
  LET Measured(name) ==
        IntElement(name, IF name \in Ecu2Voltages THEN uint16 ELSE int16, 5)
      Rails == << "d12V_D0_V", "d12V_D0_A", "d12V_D1_V", "d12V_D1_A", "d12V_D2_V",
                  "d12V_D2_A", "d12V_D3_V", "d12V_D3_A", "d12V_O1_V", "d12V_O1_A",
                  "d12V_O2_V", "d12V_O2_A", "d5VA_V", "d5VD1_V", "d5VD1_A", "d5VD2_V",
                  "d5VD2_A", "d5VD3_V", "d5VD3_A", "d5VD4_V", "d5VD4_A", "d5VD5_V",
                  "d5VD5_A", "Chgsense", "d2V5VDA1_V", "d2V5VDA2_V", "ACDC_V", "ADCD_A",
                  "BATT_V", "BATT_A", "BATT_A2", "PBM_V", "PBM_A", "PBM_A2", "PUMP_V" >>
  IN  << StringElement("ecu2_date", 14) >>
      \o [i \in 1..Len(Rails) |-> Measured(Rails[i])]
      \o Ints(<<"ECU_TEMP", "ECU_TEMP1", "ECU_TEMP2", "ECU_TEMP3">>, int16, 3)

(* Every element is registered under its own name and type. *)
Ecu2Parameters ==
  {<<"ecu2_date", "std::string">>}
  \cup {<<e.name, IF e.type = uint16 THEN "uint16_t" ELSE "int16_t">> :
          e \in {Ecu2Elements[i] : i \in 2..Len(Ecu2Elements)}}

Ecu2Update(raw) == raw

-----------------------------------------------------------------------------
(* rxack: the answer to a command *)

RxackSize == 15
RxackElements == << HexElement("ack_value", uint8, 2) >>
RxackParameters == {<<"is_receive_ack", "bool">>, <<"ack_value", "uint8_t">>}
RxackUpdate(raw) == [is_receive_ack |-> TRUE] @@ raw

(* ver__: the answer to getv_ *)
VerSize == 95
VerElements == << StringElement("ver_power_ecu_version", 40 + 1),
                  StringElement("ver_power_ecu_com_version", 40 + 1) >>
VerParameters == {<<"ver_power_ecu_version", "std::string">>,
                  <<"ver_power_ecu_com_version", "std::string">>,
                  <<"is_receive_version", "bool">>}
VerUpdate(raw) ==
  [is_receive_version |-> TRUE,
   ver_power_ecu_version |-> Tail(raw.ver_power_ecu_version),
   ver_power_ecu_com_version |-> Tail(raw.ver_power_ecu_com_version)]
=============================================================================
