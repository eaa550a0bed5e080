---------------------------- MODULE PowerEcuCodec ----------------------------
(***************************************************************************)
(* hsrb_power_ecu/src/power_ecu_protocol.{hpp,cpp}: the packets the driver *)
(* registers and the parameters it looks up in them; what happens to a     *)
(* command from its parameters to its frame, and to a report from its      *)
(* frame to the topics, the battery diagnostics and the info command.      *)
(*                                                                         *)
(* A behaviour exercises one packet, its focus; the others would take the  *)
(* same steps beside it. A report differs from the idle one in one field,  *)
(* and the ECU returns to the idle report before it changes another field. *)
(***************************************************************************)
EXTENDS PowerEcuCommands, PowerEcuReports, PowerEcuFrames

CONSTANTS Versions,      \* power_ecu_com_version strings an ECU may answer
          KnownVersion,  \* kEcuComVersion1String
          SlowPeriod,    \* publish period of the topics
          FastPeriod,    \* publish period of imu/data
          Horizon        \* bound on the clock

ASSUME VersionsAssumption == KnownVersion \in Versions
ASSUME PeriodsAssumption == /\ SlowPeriod \in Nat \ {0}
                            /\ FastPeriod \in Nat \ {0}
                            /\ Horizon \in Nat

VARIABLES phase,      \* how far main has come
          version,    \* what the ECU answers to getv_
          registered, \* names of the packets with a data encoder or decoder
          focus,      \* the packet this behaviour exercises
          data,       \* PacketData of the command in focus
          frame,      \* the frame made from data, empty when data changed since
          report,     \* the field values of the last report in focus
          result,     \* outcome of decoding it
          raw, out,   \* packet_raw_data_ and packet_out_ of the report in focus
          now,        \* the clock
          next_publish_time_,
          messages,   \* per topic, how many messages and the last one
          printed     \* what the info command printed of the diagnostics

driverVars == <<phase, version, registered>>
commandVars == <<data, frame>>
reportVars == <<report, result, raw, out>>
publishVars == <<now, next_publish_time_, messages, printed>>
vars == <<driverVars, focus, commandVars, reportVars, publishVars>>

-----------------------------------------------------------------------------
(* The packets *)

DataEncoders ==
  {"time_", "start", "stop_", "heart", "pump_", "pbmsw", "ledc_", "g_res", "solsw",
   "pdcmd", "mute_", "getv_", "undck", "12vu_", "5vd3_", "5vd4_", "5vd5_",
   "rpros", "rprod", "rproe"}
DataDecoders == {"ecu1_", "ecu2_", "rxack", "ver__"}

PacketData(name) ==
  CASE name = "time_" -> TimePacketData  [] name = "start" -> StartPacketData
    [] name = "stop_" -> StopPacketData  [] name = "heart" -> HeartPacketData
    [] name = "pump_" -> PumpPacketData  [] name = "pbmsw" -> PbmswPacketData
    [] name = "ledc_" -> LedcPacketData  [] name = "g_res" -> GResPacketData
    [] name = "solsw" -> SolswPacketData [] name = "pdcmd" -> PdcmdPacketData
    [] name = "mute_" -> MutePacketData  [] name = "getv_" -> GetvPacketData
    [] name = "undck" -> UndckPacketData [] name = "12vu_" -> U12VuPacketData
    [] name = "5vd3_" -> U5Vd3PacketData [] name = "5vd4_" -> U5Vd4PacketData
    [] name = "5vd5_" -> U5Vd5PacketData [] name = "rpros" -> RprosPacketData
    [] name = "rprod" -> RprodPacketData [] name = "rproe" -> RproePacketData

DataEncoder(name, d) ==
  CASE name = "time_" -> TimeDataEncoder(d)  [] name = "start" -> StartDataEncoder(d)
    [] name = "stop_" -> StopDataEncoder(d)  [] name = "heart" -> HeartDataEncoder(d)
    [] name = "pump_" -> PumpDataEncoder(d)  [] name = "pbmsw" -> PbmswDataEncoder(d)
    [] name = "ledc_" -> LedcDataEncoder(d)  [] name = "g_res" -> GResDataEncoder(d)
    [] name = "solsw" -> SolswDataEncoder(d) [] name = "pdcmd" -> PdcmdDataEncoder(d)
    [] name = "mute_" -> MuteDataEncoder(d)  [] name = "getv_" -> GetvDataEncoder(d)
    [] name = "undck" -> UndckDataEncoder(d) [] name = "12vu_" -> U12VuDataEncoder(d)
    [] name = "5vd3_" -> U5Vd3DataEncoder(d) [] name = "5vd4_" -> U5Vd4DataEncoder(d)
    [] name = "5vd5_" -> U5Vd5DataEncoder(d) [] name = "rpros" -> RprosDataEncoder(d)
    [] name = "rprod" -> RprodDataEncoder(d) [] name = "rproe" -> RproeDataEncoder(d)

AnyData(name) == CHOOSE d \in PacketData(name) : TRUE

(* parameter_map_ of a packet: the names and types it was given. *)
Parameters(name) ==
  CASE name = "ecu1_" -> Ecu1Parameters
    [] name = "ecu2_" -> Ecu2Parameters
    [] name = "rxack" -> RxackParameters
    [] name = "ver__" -> VerParameters
    [] OTHER -> DataEncoder(name, AnyData(name)).parameters

(* Map::GetPtr finds the name, and then only with its own type. *)
GetParamPtr(packets, parameter) == {name \in packets : parameter \in Parameters(name)}
Found(packets, parameters) ==
  \A parameter \in parameters : GetParamPtr(packets, parameter) # {}

(* packet_data_() makes these values; without it they are whatever they are. *)
Zero(type) ==
  CASE type = "bool" -> FALSE
    [] type \in {"uint8_t", "uint16_t", "uint32_t"} -> 0
    [] type = "std::string" -> <<>>
    [] type = "Color<uint8_t>" -> [r |-> 0, g |-> 0, b |-> 0]
Uninitialised == {"undck", "12vu_", "5vd3_", "5vd4_", "5vd5_"}
InitialData(name) ==
  IF name \in Uninitialised THEN PacketData(name)
  ELSE {d \in PacketData(name) :
          \A p \in DataEncoder(name, d).parameters : d[p[1]] = Zero(p[2])}

-----------------------------------------------------------------------------
(* The power ECU's side of a report: the fields in the order and the widths *)
(* of the packets it sends, and what each may say. (External.)              *)

Field(name, kind, width, type) == [name |-> name, kind |-> kind, width |-> width, type |-> type]
Text(name, kind, width) == Field(name, kind, width, "text")

EcuFields(name) ==
  CASE name = "ecu1_" ->
         << Field("time_stamp", "decimal", 10, uint32), Text("date", "text", 14),
            Text("power_ecu_status_flag", "hextext", 2), Text("power_ecu_status", "status", 16),
            Text("diag_status", "bits", 64) >>
         \o [i \in 1..3 |-> Field(<<"battery_total_capacity", "battery_remaining_capacity",
                                    "electric_current">>[i],
                                  "signed", 5, <<uint16, uint16, int16>>[i])]
         \o << Field("battery_voltage", "signed", 5, uint16),
               Field("battery_temperature", "signed", 3, int8),
               Field("battery_state_flag", "hex", 4, uint16),
               Field("battery_initial_learning_capacity", "decimal", 5, uint16),
               Field("battery_error_status", "hex", 4, uint16),
               Field("battery_relative_capacity", "decimal", 3, uint8),
               Field("bumper_status", "hex", 2, uint8), Text("gyro_status", "hextext", 16) >>
         \o [i \in 1..10 |-> Field((Quaternion \o Gyro \o Accelerometer)[i], "signed", 10, int32)]
         \o << Field("charger_state", "hex", 2, uint8) >>
    [] name = "ecu2_" ->
         << Text("ecu2_date", "text", 14) >>
         \o [i \in 1..39 |-> LET e == Ecu2Elements[i + 1]
                             IN  Field(e.name, "signed", IF i <= 35 THEN 5 ELSE 3, e.type)]
    [] name = "rxack" -> << Field("ack_value", "hex", 2, uint8) >>
    [] name = "ver__" -> << Text("ver_power_ecu_version", "hextext", 40),
                            Text("ver_power_ecu_com_version", "hextext", 40) >>

IdleValue(f) ==
  CASE f.kind \in {"text", "hextext"} -> Digits(0, 10, f.width)
    [] f.kind = "status" -> [state |-> 0, bits |-> 0]
    [] f.kind = "bits" -> {}
    [] OTHER -> 0

(* The values a field takes: every single bit of a flag, the ends of a      *)
(* number's type, and for signed numbers the ends of what its digits hold.  *)
OtherValues(f) ==
  CASE f.kind \in {"text", "hextext"} -> {Digits(7, 10, f.width)}
    [] f.kind = "status" -> {[state |-> s, bits |-> 0] : s \in {8, 9, 17}}
                            \cup {[state |-> 0, bits |-> 2 ^ b] : b \in 0..7}
    [] f.kind = "bits" -> {{0}, {3, 71, 224}, {79}, {255}}
    [] f.kind = "hex" -> {2 ^ b : b \in 0..4 * f.width - 1}
    [] f.kind = "decimal" -> {1, 20, 21, 51, f.type.max}
    [] f.kind = "signed" /\ f.width = 10 -> {1, -1, 2147483647, -2147483647}
    [] OTHER -> LET most == 10 ^ f.width - 1
                IN  {1, -1, most, - most} \cup ({f.type.min, f.type.max} \cap (- most)..most)

EcuText(f, value) ==
  LET abs(n) == IF n < 0 THEN -n ELSE n
      nibble(i) == LET bit(b) == IF 4 * i + b \in value THEN 2 ^ b ELSE 0
                   IN  bit(0) + bit(1) + bit(2) + bit(3)
  IN CASE f.kind = "text" -> value
       [] f.kind = "hextext" -> <<Char("h")>> \o value
       [] f.kind = "status" -> <<Char("h")>> \o Digits(value.state, 16, 12)
                               \o Digits(value.bits, 16, 4)
       [] f.kind = "bits" -> <<Char("h")>> \o [i \in 1..f.width |-> Digit(nibble(f.width - i))]
       [] f.kind = "hex" -> <<Char("h")>> \o Digits(value, 16, f.width)
       [] f.kind = "decimal" -> Digits(value, 10, f.width)
       [] f.kind = "signed" -> <<Char(IF value < 0 THEN "-" ELSE " ")>>
                               \o Digits(abs(value), 10, f.width)

IdleReport(name) ==
  LET fields == EcuFields(name)
  IN  [n \in {fields[i].name : i \in DOMAIN fields} |->
         IdleValue(fields[CHOOSE i \in DOMAIN fields : fields[i].name = n])]

ReportsOf(name) ==
  LET fields == EcuFields(name)
      idle == IdleReport(name)
      changed(f) == {[idle EXCEPT ![f.name] = v] : v \in OtherValues(f)}
  IN  UNION {changed(fields[i]) : i \in DOMAIN fields}

EcuFrame(name, values) ==
  LET append(text, f) == text \o EcuText(f, values[f.name]) \o <<Comma>>
      body == FoldLeft(append, <<>>, EcuFields(name))
  IN  WithFooter(Header("E", name, Len(body) + kPacketFooterLength) \o body)

-----------------------------------------------------------------------------
(* The data decoders *)

Sizes == [ecu1_ |-> Ecu1Size, ecu2_ |-> Ecu2Size, rxack |-> RxackSize, ver__ |-> VerSize]

Elements(name) ==
  CASE name = "ecu1_" -> Ecu1Elements [] name = "ecu2_" -> Ecu2Elements
    [] name = "rxack" -> RxackElements [] name = "ver__" -> VerElements

Update(name, values) ==
  CASE name = "ecu1_" -> Ecu1Update(values) [] name = "ecu2_" -> Ecu2Update(values)
    [] name = "rxack" -> RxackUpdate(values) [] name = "ver__" -> VerUpdate(values)

(* packet_out_(): what is published before the first report. *)
NothingYet ==
  [electric_current |-> 0, battery_relative_capacity |-> 0, battery_remaining_capacity |-> 0,
   battery_total_capacity |-> 0, battery_voltage |-> 0, battery_temperature |-> 0,
   diag_status |-> <<>>, imu_quaternions |-> <<0, 0, 0, 0>>,
   imu_angular_velocities |-> <<0, 0, 0>>, imu_accelerations |-> <<0, 0, 0>>]
  @@ [flag \in {p[1] : p \in {q \in Ecu1Parameters : q[2] = "bool"}} |-> FALSE]

ReceiveReport(name, values) ==
  LET sizes == [n \in registered \cap DataDecoders |-> Sizes[n]]
      framed == FrameDecode(EcuFrame(name, values), sizes)
      decoded == DataDecode(Elements(name), framed.data, raw)
  IN  /\ report' = values
      /\ IF framed.result # "framed" THEN result' = framed.result /\ UNCHANGED <<raw, out>>
         ELSE /\ raw' = decoded.raw
              /\ result' = IF decoded.ok THEN "success" ELSE "protocol_error"
              /\ out' = IF decoded.ok THEN Update(name, decoded.raw) ELSE out

-----------------------------------------------------------------------------
(* main: Init, Start, and the objects that look parameters up *)

ConstructorPackets == {"rxack", "ver__", "heart", "getv_"}
ConstructorLookups ==
  {<<"counts", "uint32_t">>, <<"is_receive_ack", "bool">>, <<"ack_value", "uint8_t">>,
   <<"ver_power_ecu_version", "std::string">>,
   <<"ver_power_ecu_com_version", "std::string">>, <<"is_receive_version", "bool">>}

InitPackets(answer) ==
  IF answer = KnownVersion THEN (DataDecoders \cup DataEncoders) \ ConstructorPackets ELSE {}

Typed(type, names) == {<<name, type>> : name \in names}

(* What Init looks up, each time for a variable it does not use. *)
InitLookups ==
  Typed("uint32_t",
     {"time_stamp", "power_ecu_internal_state", "counts"})
  \cup Typed("std::string",
     {"ecu1_date", "power_ecu_status_flag", "diag_status", "gyro_status", "ecu2_date",
      "ver_power_ecu_version", "ver_power_ecu_com_version", "start_time",
      "repro_version", "repro_data"})
  \cup Typed("double",
     {"battery_total_capacity", "battery_remaining_capacity", "electric_current",
      "battery_voltage", "battery_temperature", "battery_relative_capacity"})
  \cup Typed("bool",
     {"is_battery_crgov", "is_battery_23par", "is_battery_std", "is_battery_full",
      "is_battery_discov", "is_battery_chg", "is_battery_disc", "is_battery_0per",
      "is_battery_45par", "is_battery_sel", "is_battery_bal", "is_powerecu_bat_stat",
      "is_powerecu_sw_kinoko", "is_powerecu_sw_pwr", "is_powerecu_sw_drv",
      "is_powerecu_sw_latch", "is_powerecu_sw_w_sel", "is_powerecu_sw_w_stop",
      "is_bumper_bumper2", "is_bumper_bumper1", "is_bumper_prox5", "is_bumper_prox4",
      "is_bumper_prox3", "is_bumper_prox2", "is_bumper_prox1", "is_receive_ack",
      "is_receive_version", "is_enable_ecu1", "is_enable_ecu2", "is_quaternion_reset",
      "is_gyro_reset", "is_cpu_shutdown", "is_gpu_shutdown", "is_ex1_shutdown",
      "is_undck", "is_amp_mute", "is_12vu_enable", "is_5vd3_enable", "is_5vd4_enable",
      "is_5vd5_enable"})
  \cup Typed("uint16_t",
     {"battery_initial_learning_capacity", "battery_error_status", "d12V_D0_V",
      "d12V_D1_V", "d12V_D2_V", "d12V_D3_V", "d12V_O1_V", "d12V_O2_V", "d5VA_V",
      "d5VD1_V", "d5VD2_V", "d5VD3_V", "d5VD4_V", "d5VD5_V", "Chgsense", "d2V5VDA1_V",
      "d2V5VDA2_V", "ACDC_V", "BATT_V", "PBM_V", "PUMP_V", "error_state"})
  \cup Typed("array<double, 4>",
     {"imu_quaternions"})
  \cup Typed("array<double, 3>",
     {"imu_angular_velocities", "imu_accelerations"})
  \cup Typed("uint8_t",
     {"charger_state", "ack_value", "is_pump_enable", "is_motor_enable",
      "is_solenoid_enable"})
  \cup Typed("int16_t",
     {"d12V_D0_A", "d12V_D1_A", "d12V_D2_A", "d12V_D3_A", "d12V_O1_A", "d12V_O2_A",
      "d5VD1_A", "d5VD2_A", "d5VD3_A", "d5VD4_A", "d5VD5_A", "ADCD_A", "BATT_A",
      "BATT_A2", "PBM_A", "PBM_A2", "ECU_TEMP", "ECU_TEMP1", "ECU_TEMP2", "ECU_TEMP3"})
  \cup Typed("Color<uint8_t>",
     {"led_color"})

StartLookups == {<<"start_time", "std::string">>, <<"is_amp_mute", "bool">>,
                 <<"is_enable_ecu1", "bool">>, <<"is_enable_ecu2", "bool">>}

LedLookups == {<<"led_color", "Color<uint8_t>">>}
BatteryLookupsMisnamed == {<<"battery_temparature", "double">>}
BatteryLookups ==
  {<<name, "double">> : name \in {"battery_relative_capacity", "battery_temperature",
     "battery_voltage", "electric_current", "battery_remaining_capacity",
     "battery_total_capacity"}}
RunstopLookups == {<<name, "bool">> : name \in {"is_powerecu_sw_w_sel", "is_powerecu_sw_kinoko",
                                                "is_powerecu_sw_w_stop"}}
ImuLookups == {<<"imu_quaternions", "array<double, 4>">>,
               <<"imu_angular_velocities", "array<double, 3>">>,
               <<"imu_accelerations", "array<double, 3>">>}
kParamAndTopicNames ==
  [base_f_bumper_sensor |-> "is_bumper_bumper1", base_b_bumper_sensor |-> "is_bumper_bumper2",
   emergency_stop_button |-> "is_powerecu_sw_kinoko",
   wireless_stop_button |-> "is_powerecu_sw_w_stop",
   wireless_stop_enable |-> "is_powerecu_sw_w_sel", battery_charging |-> "is_powerecu_bat_stat",
   base_magnetic_sensor_1 |-> "is_bumper_prox1", base_magnetic_sensor_2 |-> "is_bumper_prox2"]
BoolLookups == {<<kParamAndTopicNames[t], "bool">> : t \in DOMAIN kParamAndTopicNames}
DiagnosticLookups ==
  BatteryLookups
  \cup {<<name, "bool">> : name \in {"is_battery_0per", "is_battery_disc", "is_battery_discov",
          "is_battery_full", "is_battery_std", "is_battery_23par", "is_battery_crgov"}}

-----------------------------------------------------------------------------
(* The topics and the diagnostics *)

BatteryMessage(o) ==
  [percentage |-> o.battery_relative_capacity, temperature |-> o.battery_temperature,
   voltage |-> o.battery_voltage, current |-> - o.electric_current,
   charge |-> o.battery_remaining_capacity, capacity |-> o.battery_total_capacity]

RunstopMessage(o) ==
  o.is_powerecu_sw_kinoko \/ (o.is_powerecu_sw_w_sel /\ o.is_powerecu_sw_w_stop)

ImuMessage(o) ==
  [orientation |-> [x |-> o.imu_quaternions[1], y |-> o.imu_quaternions[2],
                    z |-> o.imu_quaternions[3], w |-> o.imu_quaternions[4]],
   angular_velocity |-> o.imu_angular_velocities,
   linear_acceleration |-> o.imu_accelerations]

BoolMessage(o, topic) == o[kParamAndTopicNames[topic]]

Topics == {"battery_state", "runstop_button", "imu/data"} \cup DOMAIN kParamAndTopicNames

CreateMessage(topic) ==
  CASE topic = "battery_state" -> BatteryMessage(out)
    [] topic = "runstop_button" -> RunstopMessage(out)
    [] topic = "imu/data" -> ImuMessage(out)
    [] OTHER -> BoolMessage(out, topic)

Period(topic) == IF topic = "imu/data" THEN FastPeriod ELSE SlowPeriod

(* BatteryDiagnosticTask::run, with the default thresholds. *)
BatteryLevel(o) ==
  CASE o.electric_current < 0 -> "OK"
    [] o.electric_current >= 0 /\ o.battery_relative_capacity > 50 -> "OK"
    [] o.electric_current >= 0 /\ o.battery_relative_capacity \in 21..50 -> "WARN"
    [] OTHER -> "ERROR"

-----------------------------------------------------------------------------
(* The info command *)

(* The keys of kDiagnosticsErrors. *)
DiagnosticsErrors ==
  0..71 \cup 80..81 \cup 104..109 \cup 144..148 \cup 160..180 \cup 208..213 \cup 224..239

(* A plausible slip: bit 0 in the first digit. *)
ParseFromTheFront(diag_status) ==
  {bit \in 0..4 * Len(diag_status) - 1 :
     BitOf(DigitValue(diag_status[bit \div 4 + 1]), bit % 4)}
ParseDiagStatus(diag_status) ==
  {bit \in 0..4 * Len(diag_status) - 1 :
     BitOf(DigitValue(diag_status[Len(diag_status) - bit \div 4]), bit % 4)}

(* PrintDiagStatus, in the order of the bits: at() throws for the first one *)
(* that has no text, and the process is aborted.                            *)
PrintDiagStatus(diag_status) ==
  LET bits == ParseDiagStatus(diag_status)
      unknown == bits \ DiagnosticsErrors
  IN  [outcome |-> IF unknown = {} THEN "done" ELSE "aborted",
       bits |-> {bit \in bits : \A other \in unknown : bit < other}]

-----------------------------------------------------------------------------
NoReport == [none |-> TRUE]
NotPrinted == [outcome |-> "nothing", bits |-> {}]

Init ==
  /\ phase = "constructed"
  /\ version \in Versions
  /\ registered = ConstructorPackets
  /\ Found(registered, ConstructorLookups)
  /\ focus \in DataEncoders \cup DataDecoders \cup {"topics"}
  /\ data \in IF focus \in DataEncoders THEN InitialData(focus) ELSE {<<>>}
  /\ frame = <<>>
  /\ report = NoReport
  /\ result = "success"
  /\ raw = <<>>
  /\ out = NothingYet
  /\ now = 0
  /\ next_publish_time_ = [topic \in Topics |-> Period(topic)]
  /\ messages = [topic \in Topics |-> [count |-> 0, message |-> <<>>]]
  /\ printed = NotPrinted

InitProtocol ==
  /\ phase = "constructed"
  /\ phase' = "initialised"
  /\ registered' = registered \cup InitPackets(version)
  /\ UNCHANGED <<version, focus, commandVars, reportVars, publishVars>>

StartTimeTooLong == Blanks(15)
StartTime == Blanks(14)

(* PowerEcuProtocol::Start writes through the pointers it looks up, found   *)
(* or not, and sends the three commands.                                    *)
Start ==
  /\ phase = "initialised"
  /\ IF Found(registered, StartLookups)
     THEN /\ phase' = "started"
          /\ data' = CASE focus = "time_" -> [start_time |-> StartTime]
                       [] focus = "mute_" -> [is_amp_mute |-> FALSE]
                       [] focus = "start" -> [is_enable_ecu1 |-> TRUE, is_enable_ecu2 |-> TRUE]
                       [] OTHER -> data
          /\ frame' = IF focus \in {"time_", "mute_", "start"}
                      THEN FrameEncode(DataEncoder(focus, data')) ELSE frame
     ELSE phase' = "crashed" /\ UNCHANGED commandVars
  /\ UNCHANGED <<version, registered, focus, reportVars, publishVars>>

(* The LED subscriber, the publishers and the diagnostic task: ExistParamPtr *)
(* ends the process when there is no such parameter.                         *)
CreateObjects ==
  /\ phase = "started"
  /\ phase' = IF Found(registered, LedLookups \cup BatteryLookups \cup RunstopLookups
                                   \cup ImuLookups \cup BoolLookups \cup DiagnosticLookups)
              THEN "running" ELSE "no_parameter"
  /\ UNCHANGED <<version, registered, focus, commandVars, reportVars, publishVars>>

(* A writer of the command's parameters, such as the LED callback. *)
SetParameters ==
  /\ phase = "running"
  /\ focus \in DataEncoders
  /\ data' \in PacketData(focus)
  /\ frame' = <<>>
  /\ UNCHANGED <<driverVars, focus, reportVars, publishVars>>

SendCommand ==
  /\ phase = "running"
  /\ focus \in registered \cap DataEncoders
  /\ frame' = FrameEncode(DataEncoder(focus, data))
  /\ UNCHANGED <<driverVars, focus, data, reportVars, publishVars>>

(* The topics need no more than these reports. *)
TopicReports ==
  {r \in ReportsOf("ecu1_") :
     \/ r.electric_current \in {-1, 1}
     \/ r.power_ecu_status.bits \in {2 ^ 0, 2 ^ 5}}

ReceiveEcu(name, reports) ==
  /\ phase \in {"started", "running"}
  /\ \E r \in IF report \in {NoReport, IdleReport(name)} THEN reports ELSE {IdleReport(name)} :
        ReceiveReport(name, r)
  /\ UNCHANGED <<driverVars, focus, commandVars, publishVars>>

Receive == focus \in DataDecoders /\ ReceiveEcu(focus, ReportsOf(focus))
ReceiveTopics == focus = "topics" /\ ReceiveEcu("ecu1_", TopicReports)

Tick ==
  /\ phase = "running"
  /\ focus = "topics"
  /\ now < Horizon
  /\ now' = now + 1
  /\ UNCHANGED <<driverVars, focus, commandVars, reportVars,
                 next_publish_time_, messages, printed>>

DueEarly(topic) == now + 1 >= next_publish_time_[topic]
Due(topic) == now >= next_publish_time_[topic]

(* One pass over the publishers. A publisher that is late takes one period  *)
(* off its lateness and publishes again in the next pass.                   *)
Publish ==
  LET due == {topic \in Topics : Due(topic)}
  IN  /\ phase = "running"
      /\ focus = "topics"
      /\ due # {}
      /\ messages' = [topic \in Topics |->
           IF topic \in due
           THEN [count |-> messages[topic].count + 1, message |-> CreateMessage(topic)]
           ELSE messages[topic]]
      /\ next_publish_time_' = [topic \in Topics |->
           IF topic \in due THEN next_publish_time_[topic] + Period(topic)
           ELSE next_publish_time_[topic]]
      /\ UNCHANGED <<driverVars, focus, commandVars, reportVars, now, printed>>

(* info_command's main after Start and the version it asks for again. *)
InfoCommand ==
  /\ phase = "started"
  /\ focus = "ecu1_"
  /\ printed' = PrintDiagStatus(out.diag_status)
  /\ phase' = "exited"
  /\ UNCHANGED <<version, registered, focus, commandVars, reportVars, now,
                 next_publish_time_, messages>>

Terminated ==
  /\ phase \in {"crashed", "no_parameter", "exited"}
  /\ UNCHANGED vars

Next ==
  \/ InitProtocol \/ Start \/ CreateObjects
  \/ SetParameters \/ SendCommand
  \/ Receive \/ ReceiveTopics \/ InfoCommand
  \/ Tick \/ Publish
  \/ Terminated

Spec == Init /\ [][Next]_vars

-----------------------------------------------------------------------------
(* Every variable has its type. *)
TypeOK ==
  /\ phase \in {"constructed", "initialised", "started", "running",
                "crashed", "no_parameter", "exited"}
  /\ version \in Versions
  /\ registered \subseteq DataEncoders \cup DataDecoders
  /\ focus \in DataEncoders \cup DataDecoders \cup {"topics"}
  /\ focus \in DataEncoders => data \in PacketData(focus)
  /\ result \in {"success", "protocol_error", "result_out_of_range"}
  /\ now \in 0..Horizon
  /\ \A topic \in Topics : /\ next_publish_time_[topic] \in Nat
                           /\ messages[topic].count \in Nat

(* With the version the driver knows, each parameter that Init, Start, the  *)
(* LED subscriber, the publishers and the diagnostic task look up by name   *)
(* and type is found, and no two packets give one name: Start crashes and       *)
(* ExistParamPtr exits only for another version.                            *)
LookupsSucceed ==
  version = KnownVersion =>
    /\ phase \notin {"crashed", "no_parameter"}
    /\ phase = "initialised" => Found(registered, InitLookups)
    /\ phase = "initialised" =>
         \A name \in registered : \A parameter \in Parameters(name) :
            GetParamPtr(registered, parameter) = {name}

(* A command whose elements all fit leaves as a frame exactly as long as it *)
(* declares, and no other data of that command give the same frame, so the  *)
(* ECU can read all of it back (undck carries no data).                     *)
CommandReadBack ==
  LET packet == DataEncoder(focus, data)
      fits == \A i \in DOMAIN packet.elements : packet.elements[i].ok
  IN  frame # <<>> /\ fits =>
        /\ Len(frame) = kPacketHeaderLength + PacketSize(SubSeq(frame, 9, 11))
        /\ focus # "undck" =>
             \A d \in PacketData(focus) \ {data} : FrameEncode(DataEncoder(focus, d)) # frame

Clamped(type, value) ==
  CASE value > type.max -> type.max [] value < type.min -> type.min [] OTHER -> value

(* Whatever the last report said, flipping one bit of the battery flags,    *)
(* the bumper state or the switches changes at most one bool parameter, and *)
(* no two bits change the same one.                                         *)
FlagsIndependent ==
  LET flags == {p[1] : p \in {q \in Ecu1Parameters : q[2] = "bool"}}
      flip(v, b) == IF BitOf(v, b) THEN v - 2 ^ b ELSE v + 2 ^ b
      switches(v) == EcuText(EcuFields("ecu1_")[4], v)
      flipped(f, b) ==
        IF f = "power_ecu_status"
        THEN LET status == report.power_ecu_status
             IN  [raw EXCEPT ![f] = switches([status EXCEPT !.bits = flip(@, b)])]
        ELSE [raw EXCEPT ![f] = flip(@, b)]
      bits == ({"battery_state_flag"} \X (0..15))
              \cup ({"bumper_status", "power_ecu_status"} \X (0..7))
      changed(fb) == LET other == Ecu1Update(flipped(fb[1], fb[2]))
                     IN  {<<fb, n>> : n \in {m \in flags : out[m] # other[m]}}
      changes == UNION {changed(fb) : fb \in bits}
  IN  focus = "ecu1_" /\ report # NoReport =>
        \A c, d \in changes : c[1] = d[1] <=> c[2] = d[2]

(* A report the ECU sends is accepted, and each field is stored with the    *)
(* value it was sent with, cut at the ends of its type; the topics show the *)
(* rotation's parts in their places and the current with its sign turned,   *)
(* and no two flags come from one bit.  Of a current that does not fit its  *)
(* int16_t it says nothing: the decoder (power_ecu_com_data_decoder.cpp:305)*)
(* names -65536 to 65534 mA and keeps no more than -32768 to 32767.         *)
ReportIsRead ==
  LET name == IF focus = "topics" THEN "ecu1_" ELSE focus
      fields == EcuFields(name)
      stored(f) == IF f.kind \in {"decimal", "hex", "signed"}
                   THEN Clamped(f.type, report[f.name]) ELSE EcuText(f, report[f.name])
      fits(f) == f.name = "electric_current" => report[f.name] \in int16.min..int16.max
  IN  report # NoReport =>
        /\ FlagsIndependent
        /\ result = "success"
        /\ \A i \in DOMAIN fields : fits(fields[i]) => raw[fields[i].name] = stored(fields[i])
        /\ name = "ecu1_" =>
             /\ out.power_ecu_internal_state = report.power_ecu_status.state
             /\ ImuMessage(out).orientation =
                  [x |-> report.quaternion_x, y |-> report.quaternion_y,
                   z |-> report.quaternion_z, w |-> report.quaternion_t]
             /\ report.electric_current \in int16.min..int16.max =>
                  BatteryMessage(out).current = - report.electric_current

(* A publisher that was held up catches up, and yet never sends more        *)
(* messages than its rate allows since it was made.                         *)
PublishRate ==
  \A topic \in Topics : messages[topic].count * Period(topic) <= now

(* The info command prints nothing but diagnostics of the last report, all  *)
(* of them unless it was aborted, and it is aborted only by a bit that has  *)
(* no text.                                                                 *)
InfoPrintsReported ==
  printed # NotPrinted /\ report # NoReport =>
    /\ printed.bits \subseteq report.diag_status
    /\ printed.outcome = "done" => printed.bits = report.diag_status
    /\ printed.outcome = "aborted" => ~ report.diag_status \subseteq DiagnosticsErrors
=============================================================================
