-------------------------- MODULE PowerEcuCommands --------------------------
(***************************************************************************)
(* hsrb_power_ecu/src/power_ecu_com_data_encoder.{hpp,cpp} and             *)
(* power_ecu_com_repro_data_encoder.{hpp,cpp}: the commands to the power   *)
(* ECU. Each data encoder has a set of the values its PacketData may hold, *)
(* cut down to the ends of each type and the places where the number of    *)
(* digits changes, and an operator from that data to the packet: the size  *)
(* it declares, what its element encoders return, and the parameters it    *)
(* registers, by name and type.                                            *)
(***************************************************************************)
EXTENDS PowerEcuElements

(* Values of the C types. *)
Uint8Values  == {0, 9, 10, 255}
Uint16Values == {0, 14, 65535}
Uint32Values == {0, 255, 65536, 2147483647}
Blanks(n) == [i \in 1..n |-> Char("_")]

Packet(name, size, elements, parameters) ==
  [name |-> name, size |-> size, elements |-> elements, parameters |-> parameters]

TimePacketData == [start_time : {Blanks(0), Blanks(13), Blanks(14)}]
TimeDataEncoder(d) ==
  Packet("time_", 26, <<ElementStringEncoder(14, d.start_time)>>,
         {<<"start_time", "std::string">>})

StartPacketData == [is_enable_ecu1 : BOOLEAN, is_enable_ecu2 : BOOLEAN]
StartDataEncoder(d) ==
  Packet("start", 15,
         <<ElementHexUintBitsEncoder(2, <<d.is_enable_ecu1, d.is_enable_ecu2>>)>>,
         {<<"is_enable_ecu1", "bool">>, <<"is_enable_ecu2", "bool">>})

StopPacketData == {<<>>}
StopDataEncoder(d) == Packet("stop_", 11, <<>>, {})

HeartPacketData == [error_state : Uint16Values, counts : Uint32Values]
HeartDataEncoder(d) ==
  Packet("heart", 27,
         <<ElementHexUintEncoder(4, d.error_state), ElementHexUintEncoder(8, d.counts)>>,
         {<<"error_state", "uint16_t">>, <<"counts", "uint32_t">>})

PumpPacketData == [is_pump_enable : Uint8Values]
PumpDataEncoder(d) ==
  Packet("pump_", 13, <<ElementUintEncoder(1, d.is_pump_enable)>>,
         {<<"is_pump_enable", "uint8_t">>})

PbmswPacketData == [is_motor_enable : Uint8Values]
PbmswDataEncoder(d) ==
  Packet("pbmsw", 13, <<ElementUintEncoder(1, d.is_motor_enable)>>,
         {<<"is_motor_enable", "uint8_t">>})

Color == [r : Uint8Values, g : Uint8Values, b : Uint8Values]
LedcPacketData == [led_color : Color]
LedcDataEncoder(d) ==
  Packet("ledc_", 23,
         <<ElementUintEncoder(3, d.led_color.r), ElementUintEncoder(3, d.led_color.g),
           ElementUintEncoder(3, d.led_color.b)>>,
         {<<"led_color", "Color<uint8_t>">>})

GResPacketData == [is_quaternion_reset : BOOLEAN, is_gyro_reset : BOOLEAN]
GResDataEncoder(d) ==
  Packet("g_res", 15,
         <<ElementHexUintBitsEncoder(2, <<d.is_quaternion_reset, d.is_gyro_reset>>)>>,
         {<<"is_quaternion_reset", "bool">>, <<"is_gyro_reset", "bool">>})

SolswPacketData == [is_solenoid_enable : Uint8Values]
SolswDataEncoder(d) ==
  Packet("solsw", 15, <<ElementHexUintEncoder(2, d.is_solenoid_enable)>>,
         {<<"is_solenoid_enable", "uint8_t">>})

PdcmdPacketData ==
  [is_cpu_shutdown : BOOLEAN, is_gpu_shutdown : BOOLEAN, is_ex1_shutdown : BOOLEAN]
(* A plausible slip: the third flag is not encoded. *)
PdcmdTwoFlags(d) ==
  Packet("pdcmd", 15, <<ElementHexUintBitsEncoder(2, <<d.is_cpu_shutdown, d.is_gpu_shutdown>>)>>,
         {<<"is_cpu_shutdown", "bool">>, <<"is_gpu_shutdown", "bool">>,
          <<"is_ex1_shutdown", "bool">>})
PdcmdDataEncoder(d) ==
  Packet("pdcmd", 15,
         <<ElementHexUintBitsEncoder(2,
             <<d.is_cpu_shutdown, d.is_gpu_shutdown, d.is_ex1_shutdown>>)>>,
         {<<"is_cpu_shutdown", "bool">>, <<"is_gpu_shutdown", "bool">>,
          <<"is_ex1_shutdown", "bool">>})

MutePacketData == [is_amp_mute : BOOLEAN]
MuteDataEncoder(d) ==
  Packet("mute_", 15, <<ElementHexUintBitsEncoder(2, <<d.is_amp_mute>>)>>,
         {<<"is_amp_mute", "bool">>})

(* The reserved value is written once, by the constructor. *)
GetvPacketData == [reserved : {0}]
GetvDataEncoder(d) ==
  Packet("getv_", 15, <<ElementHexUintEncoder(2, d.reserved)>>, {})

(* is_undck is registered but is no element: the frame says "undock" whatever *)
(* the parameter holds.                                                       *)
UndckPacketData == [is_undck : BOOLEAN]
UndckDataEncoder(d) == Packet("undck", 11, <<>>, {<<"is_undck", "bool">>})

(* A bool in an ElementUintEncoder is written as 0 or 1. *)
Bit(flag) == IF flag THEN 1 ELSE 0

U12VuPacketData == [is_12vu_enable : BOOLEAN]
U12VuDataEncoder(d) ==
  Packet("12vu_", 13, <<ElementUintEncoder(1, Bit(d.is_12vu_enable))>>,
         {<<"is_12vu_enable", "bool">>})

U5Vd3PacketData == [is_5vd3_enable : BOOLEAN]
U5Vd3DataEncoder(d) ==
  Packet("5vd3_", 13, <<ElementUintEncoder(1, Bit(d.is_5vd3_enable))>>,
         {<<"is_5vd3_enable", "bool">>})

U5Vd4PacketData == [is_5vd4_enable : BOOLEAN]
U5Vd4DataEncoder(d) ==
  Packet("5vd4_", 13, <<ElementUintEncoder(1, Bit(d.is_5vd4_enable))>>,
         {<<"is_5vd4_enable", "bool">>})

U5Vd5PacketData == [is_5vd5_enable : BOOLEAN]
U5Vd5DataEncoder(d) ==
  Packet("5vd5_", 13, <<ElementUintEncoder(1, Bit(d.is_5vd5_enable))>>,
         {<<"is_5vd5_enable", "bool">>})

RprosPacketData == [repro_version : {Blanks(0), Blanks(41)}]
RprosDataEncoder(d) ==
  Packet("rpros", 55,
         <<ElementUintEncoder(1, 0), ElementStringEncoder(41, d.repro_version)>>,
         {<<"repro_version", "std::string">>})

(* The data are copied as they are, without a comma, and the size is the    *)
(* footer and the data. It has its three digits up to 988 characters.       *)
RprodPacketData == [repro_data : {Blanks(0), Blanks(7), Blanks(89)}]
RprodDataEncoder(d) ==
  Packet("rprod", Len(d.repro_data) + 11, <<Written(d.repro_data)>>,
         {<<"repro_data", "std::string">>})

RproePacketData == {<<>>}
RproeDataEncoder(d) == Packet("rproe", 11, <<>>, {})
=============================================================================
