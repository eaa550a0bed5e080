------------------------ MODULE PowerEcuCodec_proofs ------------------------
(***************************************************************************)
(* Proofs about the driver around the codec (PowerEcuCodec): the pace of   *)
(* its publishers and the types of its variables, for every publish period *)
(* and every horizon of the clock.                                         *)
(***************************************************************************)
EXTENDS PowerEcuCodec, TLAPS

(* The next message of a topic is due one period after the last one was     *)
(* due, late or not, so that what was sent tells when the next one may be.  *)
PublishInv ==
  /\ now \in Nat
  /\ \A topic \in Topics :
       /\ messages[topic].count \in Nat
       /\ next_publish_time_[topic] = (messages[topic].count + 1) * Period(topic)
       /\ messages[topic].count * Period(topic) <= now

LEMMA PeriodIsPositive == \A topic : Period(topic) \in Nat \ {0}
  BY PeriodsAssumption DEF Period

LEMMA OnePeriodMore ==
  ASSUME NEW n \in Nat, NEW p \in Nat
  PROVE  (n + 1) * p + p = (n + 1 + 1) * p
  OBVIOUS

LEMMA PublishInvInit == Init => PublishInv
<1> SUFFICES ASSUME Init PROVE PublishInv
  OBVIOUS
<1>1. now = 0
  BY DEF Init
<1>2. ASSUME NEW topic \in Topics
      PROVE  messages[topic].count = 0 /\ next_publish_time_[topic] = Period(topic)
  BY DEF Init
<1>3. \A topic : (0 + 1) * Period(topic) = Period(topic) /\ 0 * Period(topic) = 0
  BY PeriodIsPositive
<1> QED
  BY <1>1, <1>2, <1>3 DEF PublishInv

LEMMA PublishKeeps == PublishInv /\ Publish => PublishInv'
<1> SUFFICES ASSUME PublishInv, Publish PROVE PublishInv'
  OBVIOUS
<1>1. now' = now /\ now \in Nat
  BY DEF Publish, PublishInv
<1>2. ASSUME NEW topic \in Topics
      PROVE  /\ messages'[topic].count \in Nat
             /\ next_publish_time_'[topic] = (messages'[topic].count + 1) * Period(topic)
             /\ messages'[topic].count * Period(topic) <= now
  <2> DEFINE n == messages[topic].count
             p == Period(topic)
  <2>1. /\ n \in Nat /\ p \in Nat
        /\ next_publish_time_[topic] = (n + 1) * p
        /\ n * p <= now
    BY PeriodIsPositive DEF PublishInv
  <2>2. CASE Due(topic)
    <3>1. messages'[topic].count = n + 1
      BY <2>2 DEF Publish
    <3>2. next_publish_time_'[topic] = next_publish_time_[topic] + p
      BY <2>2 DEF Publish
    <3>3. (n + 1) * p <= now
      BY <2>1, <2>2 DEF Due
    <3> HIDE DEF n, p
    <3>4. (n + 1) * p + p = (n + 1 + 1) * p
      BY <2>1, OnePeriodMore
    <3> QED
      BY <2>1, <3>1, <3>2, <3>3, <3>4 DEF p
  <2>3. CASE ~ Due(topic)
    <3>1. messages'[topic] = messages[topic] /\ next_publish_time_'[topic] = next_publish_time_[topic]
      BY <2>3 DEF Publish
    <3> QED
      BY <2>1, <3>1
  <2> QED
    BY <2>2, <2>3
<1> QED
  BY <1>1, <1>2 DEF PublishInv

LEMMA TickKeeps == PublishInv /\ Tick => PublishInv'
<1> SUFFICES ASSUME PublishInv, Tick PROVE PublishInv'
  OBVIOUS
<1>1. now' = now + 1 /\ now' \in Nat /\ UNCHANGED <<messages, next_publish_time_>>
  BY DEF Tick, PublishInv
<1>2. ASSUME NEW topic \in Topics
      PROVE messages[topic].count * Period(topic) <= now + 1
  <2>1. messages[topic].count * Period(topic) \in Nat
    BY PeriodIsPositive DEF PublishInv
  <2> QED
    BY <2>1 DEF PublishInv
<1> QED
  BY <1>1, <1>2 DEF PublishInv

LEMMA OthersKeep == PublishInv /\ UNCHANGED <<now, messages, next_publish_time_>> => PublishInv'
  BY DEF PublishInv

LEMMA PublishInvNext == PublishInv /\ [Next]_vars => PublishInv'
<1> SUFFICES ASSUME PublishInv, [Next]_vars PROVE PublishInv'
  OBVIOUS
<1>1. CASE Publish
  BY <1>1, PublishKeeps
<1>2. CASE Tick
  BY <1>2, TickKeeps
<1>3. CASE InitProtocol \/ Start \/ CreateObjects \/ SetParameters \/ SendCommand
  BY <1>3, OthersKeep DEF InitProtocol, Start, CreateObjects, SetParameters, SendCommand,
                          publishVars
<1>4. CASE Receive \/ ReceiveTopics
  BY <1>4, OthersKeep DEF Receive, ReceiveTopics, ReceiveEcu, publishVars
<1>5. CASE InfoCommand
  BY <1>5, OthersKeep DEF InfoCommand
<1>6. CASE Terminated \/ UNCHANGED vars
  BY <1>6, OthersKeep DEF Terminated, vars, publishVars
<1> QED
  BY <1>1, <1>2, <1>3, <1>4, <1>5, <1>6 DEF Next

(* A publisher that was held up sends the messages it missed one after the  *)
(* other, and yet at no time more than one per period since it was made:    *)
(* StatePublisher adds the period to the time that was due, not to the time *)
(* it is.                                                                   *)
THEOREM RateIsKept == Spec => []PublishRate
<1>1. PublishInv => PublishRate
  BY DEF PublishInv, PublishRate
<1> QED
  BY <1>1, PublishInvInit, PublishInvNext, PTL DEF Spec

-----------------------------------------------------------------------------
(* The types of the driver's variables. *)

LEMMA StartDataIs ==
  /\ [start_time |-> StartTime] \in PacketData("time_")
  /\ [is_amp_mute |-> FALSE] \in PacketData("mute_")
  /\ [is_enable_ecu1 |-> TRUE, is_enable_ecu2 |-> TRUE] \in PacketData("start")
<1>1. StartTime \in {Blanks(0), Blanks(13), Blanks(14)}
  BY DEF StartTime
<1>2. [start_time |-> StartTime] \in TimePacketData
  BY <1>1 DEF TimePacketData
<1>3. /\ PacketData("time_") = TimePacketData /\ PacketData("mute_") = MutePacketData
      /\ PacketData("start") = StartPacketData
  BY DEF PacketData
<1>4. /\ [is_amp_mute |-> FALSE] \in MutePacketData
      /\ [is_enable_ecu1 |-> TRUE, is_enable_ecu2 |-> TRUE] \in StartPacketData
  BY DEF MutePacketData, StartPacketData
<1> QED
  BY <1>2, <1>3, <1>4

LEMMA InitialDataIs == \A name : InitialData(name) \subseteq PacketData(name)
BY DEF InitialData

Outcomes == {"framed", "result_out_of_range", "protocol_error"}

LEMMA FrameOutcome == \A buffer, sizes : FrameDecode(buffer, sizes).result \in Outcomes
<1> TAKE buffer, sizes
<1>1. \A n : OutOfRange(n).result \in Outcomes /\ ProtocolError(n).result \in Outcomes
  BY DEF OutOfRange, ProtocolError, Outcomes
<1>2. \A n, name, data_ : Framed(n, name, data_).result \in Outcomes
  BY DEF Framed, Outcomes
<1> QED
  BY <1>1, <1>2, Zenon DEF FrameDecode

LEMMA ReportOutcome ==
  ASSUME NEW name, NEW values, ReceiveReport(name, values)
  PROVE  result' \in {"success", "protocol_error", "result_out_of_range"}
<1> DEFINE sizes == [n \in registered \cap DataDecoders |-> Sizes[n]]
           framed == FrameDecode(EcuFrame(name, values), sizes)
           ok == DataDecode(Elements(name), framed.data, raw).ok
<1>1. framed.result \in Outcomes
  BY FrameOutcome
<1>2. IF framed.result # "framed" THEN result' = framed.result
      ELSE result' = IF ok THEN "success" ELSE "protocol_error"
  BY DEF ReceiveReport
<1> HIDE DEF framed, ok
<1> QED
  BY <1>1, <1>2 DEF Outcomes

DriverTyped ==
  /\ phase \in {"constructed", "initialised", "started", "running",
                "crashed", "no_parameter", "exited"}
  /\ version \in Versions
  /\ registered \subseteq DataEncoders \cup DataDecoders
  /\ focus \in DataEncoders \cup DataDecoders \cup {"topics"}
  /\ focus \in DataEncoders => data \in PacketData(focus)
  /\ result \in {"success", "protocol_error", "result_out_of_range"}
  /\ now \in 0..Horizon

LEMMA InitDriverTyped == Init => DriverTyped
<1> SUFFICES ASSUME Init PROVE DriverTyped
  OBVIOUS
<1>1. now \in 0..Horizon
  BY PeriodsAssumption DEF Init
<1>2. focus \in DataEncoders => data \in PacketData(focus)
  BY InitialDataIs DEF Init
<1>3. registered \subseteq DataEncoders \cup DataDecoders
  BY DEF Init, ConstructorPackets, DataEncoders, DataDecoders
<1> QED
  BY <1>1, <1>2, <1>3 DEF Init, DriverTyped

LEMMA NextDriverTyped == DriverTyped /\ [Next]_vars => DriverTyped'
<1> SUFFICES ASSUME DriverTyped, [Next]_vars PROVE DriverTyped'
  OBVIOUS
<1>1. CASE InitProtocol
  <2>1. InitPackets(version) \subseteq DataEncoders \cup DataDecoders
    BY DEF InitPackets
  <2> QED
    BY <1>1, <2>1 DEF DriverTyped, InitProtocol, commandVars, reportVars, publishVars
<1>2. CASE Start
  <2>1. UNCHANGED <<version, registered, focus, result, now>> /\ phase' \in {"started", "crashed"}
    BY <1>2 DEF Start, reportVars, publishVars
  <2>2. \/ data' = data
        \/ focus = "time_" /\ data' = [start_time |-> StartTime]
        \/ focus = "mute_" /\ data' = [is_amp_mute |-> FALSE]
        \/ focus = "start" /\ data' = [is_enable_ecu1 |-> TRUE, is_enable_ecu2 |-> TRUE]
    BY <1>2 DEF Start, commandVars
  <2> QED
    BY <2>1, <2>2, StartDataIs DEF DriverTyped
<1>3. CASE CreateObjects
  BY <1>3 DEF DriverTyped, CreateObjects, commandVars, reportVars, publishVars
<1>4. CASE SetParameters \/ SendCommand
  BY <1>4 DEF DriverTyped, SetParameters, SendCommand, driverVars, reportVars, publishVars
<1>5. CASE Receive \/ ReceiveTopics
  <2>1. UNCHANGED <<driverVars, focus, commandVars, publishVars>>
    BY <1>5 DEF Receive, ReceiveTopics, ReceiveEcu
  <2>2. \E name, values : ReceiveReport(name, values)
    BY <1>5 DEF Receive, ReceiveTopics, ReceiveEcu
  <2>3. result' \in {"success", "protocol_error", "result_out_of_range"}
    BY <2>2, ReportOutcome
  <2> QED
    BY <2>1, <2>3 DEF DriverTyped, driverVars, commandVars, publishVars
<1>6. CASE InfoCommand
  BY <1>6 DEF DriverTyped, InfoCommand, commandVars, reportVars
<1>7. CASE Tick
  <2>1. now' \in 0..Horizon
    BY <1>7, PeriodsAssumption DEF DriverTyped, Tick
  <2> QED
    BY <1>7, <2>1 DEF DriverTyped, Tick, driverVars, commandVars, reportVars
<1>8. CASE Publish
  BY <1>8 DEF DriverTyped, Publish, driverVars, commandVars, reportVars
<1>9. CASE Terminated \/ UNCHANGED vars
  BY <1>9 DEF DriverTyped, Terminated, vars, driverVars, commandVars, reportVars, publishVars
<1> QED
  BY <1>1, <1>2, <1>3, <1>4, <1>5, <1>6, <1>7, <1>8, <1>9 DEF Next

LEMMA PublisherIsTyped ==
  PublishInv => \A topic \in Topics : /\ next_publish_time_[topic] \in Nat
                                      /\ messages[topic].count \in Nat
<1> SUFFICES ASSUME PublishInv, NEW topic \in Topics
             PROVE  next_publish_time_[topic] \in Nat /\ messages[topic].count \in Nat
  OBVIOUS
<1> DEFINE n == messages[topic].count
           p == Period(topic)
<1>1. n \in Nat /\ p \in Nat /\ next_publish_time_[topic] = (n + 1) * p
  BY PeriodIsPositive DEF PublishInv
<1> HIDE DEF n, p
<1>2. (n + 1) * p \in Nat
  BY <1>1
<1> QED
  BY <1>1, <1>2 DEF n

(* Whatever is received, sent or looked up, every variable of the driver     *)
(* has its type; what Start writes through its pointers suits the packet.    *)
THEOREM CodecTypeCorrect == Spec => []TypeOK
<1>1. Init => DriverTyped /\ PublishInv
  BY InitDriverTyped, PublishInvInit
<1>2. (DriverTyped /\ PublishInv) /\ [Next]_vars => (DriverTyped /\ PublishInv)'
  BY NextDriverTyped, PublishInvNext
<1>3. DriverTyped /\ PublishInv => TypeOK
  BY PublisherIsTyped DEF DriverTyped, TypeOK
<1> QED
  BY <1>1, <1>2, <1>3, PTL DEF Spec
=============================================================================
