------------------------------- MODULE Mpu9150 -------------------------------
(***************************************************************************)
(* hsrb_imu_sensor_protocol: the node that reads the gyro sensor's stream, *)
(* publishes its state and resets the sensor on request, with the packet   *)
(* parser and the protocol below it, byte by byte.                         *)
(*                                                                         *)
(* A data packet has its real frame around three bytes of data in place of *)
(* 44: one of the value of a header byte, the number of the sample and its *)
(* time stamp.                                                             *)
(***************************************************************************)
EXTENDS Integers, SequencesExt, FiniteSetsExt

CONSTANTS MaxSamples,    \* bound on the samples of the sensor
          MaxFaults,     \* bound on the faults of the line
          MaxRequests,   \* bound on the calls of the reset service
          Realtime,      \* is_realtime_, when there is a sensor
          ReadSizes,     \* how much a read returns, when so much is there
          StampModulus,  \* where the time stamp wraps around, in place of 2^32
          kRetryCount,
          kMPU9150ResetDuration, kMPU9150InstructionTimeout, kImuResetTimeout,
          kCycleOverBufferNum, \* how many cycles are judged
          CyclesPerCheck,      \* kCycleOverCheckInterval in cycles
          CycleOverLimit       \* cycle_over_error_tolerance_ in cycles

ASSUME NatAssumption ==
  /\ MaxSamples \in 0..255                \* a sample's number is one byte
  /\ {MaxFaults, MaxRequests, kRetryCount, CyclesPerCheck, CycleOverLimit} \subseteq Nat
  /\ ReadSizes \subseteq Nat \ {0}
  /\ Realtime \subseteq BOOLEAN
  /\ StampModulus \in 1..256
  /\ kMPU9150ResetDuration \in Nat
  /\ kMPU9150InstructionTimeout \in Nat
  /\ kImuResetTimeout \in Nat
  /\ kCycleOverBufferNum \in 1..255       \* cycle_over_count is a uint8_t

VARIABLES pc,            \* where the node is
          disable_imu_, is_realtime_,
          retry, tried,  \* TryWithRetry's count, and the time Reset has taken
          status_, age,  \* the protocol's status, and the time since the reset command
          reset_imu_,
          last_timestamp_, last_packet_num_,
          imu_output_, published,
          cycle_count, cycle_over_buffer, buffer_position, cycle_over_count,
          line,          \* the bytes that wait in the port
          sensor,        \* the sensor's samples, time stamp, commands and answers
          faults, requests,
          newest,        \* the last sample of the last read, or Mixed
          rising,        \* whether each sample had a later time stamp than those before
          gaveup         \* how many resets have timed out

configVars == <<disable_imu_, is_realtime_>>
protocolVars == <<status_, age, last_timestamp_, last_packet_num_>>
cycleVars == <<cycle_count, cycle_over_buffer, buffer_position, cycle_over_count>>
sensorVars == <<line, sensor, faults>>
ghostVars == <<newest, rising, gaveup>>
vars == <<pc, configVars, retry, tried, protocolVars, reset_imu_, imu_output_, published,
          cycleVars, sensorVars, requests, ghostVars>>

-----------------------------------------------------------------------------
(* MPU9150PacketParser *)

kMPU9150Header1Command == 64
kMPU9150Header2Command == 71
Checksum(bytes) == 255 - (FoldLeft(+, 0, bytes) % 256)

Start == [state |-> "Header1", packet |-> <<>>, packets |-> <<>>, reply |-> FALSE]

Keep(p, input, state) == [p EXCEPT !.state = state, !.packet = Append(@, input)]
Restart(p) == [p EXCEPT !.state = "Header1", !.packet = <<>>]

(* A packet without data is the answer to a command, and ends the parsing. *)
Finish(p, input) ==
  LET all == [Restart(p) EXCEPT !.packets = p.packets \o Append(p.packet, input)]
  IN  IF input # Checksum(p.packet) THEN Restart(p)
      ELSE IF p.packet[3] = 1 THEN [all EXCEPT !.reply = TRUE] ELSE all

TryParse(p, input) ==
  CASE p.state = "Header1" ->
         IF input = kMPU9150Header1Command THEN Keep(p, input, "Header2") ELSE p
    [] p.state = "Header2" ->
         IF input = kMPU9150Header2Command THEN Keep(p, input, "Length") ELSE Restart(p)
    [] p.state = "Length" ->
         IF input < 1 THEN Restart(p) ELSE Keep(p, input, IF input = 1 THEN "Checksum" ELSE "Data")
    [] p.state = "Data" ->
         Keep(p, input, IF Len(p.packet) + 1 = p.packet[3] + 2 THEN "Checksum" ELSE "Data")
    [] p.state = "Checksum" -> Finish(p, input)

(* MPU9150Network::Receive, for what one read returned: what follows an    *)
(* answer is dropped.  (Each state of the parser is bound, so that TLC      *)
(* evaluates it once.)                                                      *)
ParseNext(parser, input) ==
  CHOOSE q \in {IF p.reply THEN p ELSE TryParse(p, input) : p \in {parser}} : TRUE
ParseAll(bytes) == FoldLeft(ParseNext, Start, bytes)

(* What Receive may come to: an error, or one read.  Each starts the parser *)
(* afresh, so that a packet is only found whole within what a read returns. *)
Failed == [n |-> 0, error |-> TRUE, packets |-> <<>>, reply |-> FALSE]
ReadOf(n) ==
  CHOOSE receipt \in {[n |-> n, error |-> p.packets = <<>>, packets |-> p.packets, reply |-> p.reply] :
                        p \in {ParseAll(SubSeq(line, 1, n))}} : TRUE
Receipts == {Failed} \cup {ReadOf(n) : n \in {m \in ReadSizes \cup {Len(line)} : m \in 1..Len(line)}}

Consume(receipt) == line' = SubSeq(line, receipt.n + 1, Len(line))

-----------------------------------------------------------------------------
(* Sensor and line (external) *)

Packet(data) ==
  LET frame == <<kMPU9150Header1Command, kMPU9150Header2Command, Len(data) + 1>> \o data
  IN  Append(frame, Checksum(frame))
Sample(k, stamp) == Packet(<<kMPU9150Header1Command, k, stamp>>)
Reply == Packet(<<>>)
kPacketSize == Len(Sample(0, 0))

Damaged(packet) ==
  UNION {{[packet EXCEPT ![i] = (@ + 1) % 256], SubSeq(packet, 1, i - 1) \o SubSeq(packet, i + 1, Len(packet))} :
           i \in 1..Len(packet)}

Put(packet) ==
  \/ line' = line \o packet /\ UNCHANGED faults
  \/ /\ faults < MaxFaults
     /\ faults' = faults + 1
     /\ line' \in {line \o d : d \in Damaged(packet) \cup {<<>>}}

SensorSamples ==
  /\ sensor.samples < MaxSamples
  /\ sensor' = [sensor EXCEPT !.samples = @ + 1, !.stamp = (@ + 1) % StampModulus]
  /\ Put(Sample(sensor'.samples, sensor'.stamp))

(* A reset may set the time stamp back. *)
SensorResets ==
  /\ sensor.commands > sensor.resets
  /\ \E stamp \in {0, sensor.stamp} :
       sensor' = [sensor EXCEPT !.resets = @ + 1, !.stamp = stamp]
  /\ Put(Reply)

Sensor ==
  /\ ~ disable_imu_
  /\ pc # "stopped"
  /\ SensorSamples \/ SensorResets
  /\ UNCHANGED <<pc, configVars, retry, tried, protocolVars, reset_imu_, imu_output_, published,
                 cycleVars, requests, ghostVars>>

-----------------------------------------------------------------------------
(* MPU9150PacketConverter *)

Unset == -1     \* memory that was never written
SampleAt(packets, i) == packets[i * kPacketSize + 5]
StampAt(packets, i) == packets[i * kPacketSize + 6]
Count(packets) == Len(packets) \div kPacketSize

(* A plausible slip: the newest packet of this read is the first one. *)
LatestFirst(packets, last) ==
  FoldLeft(LAMBDA l, i : IF l.stamp < StampAt(packets, i) THEN [stamp |-> StampAt(packets, i), num |-> 0]
                         ELSE l,
           last, [i \in 1..Count(packets) |-> i - 1])

Latest(packets, last) ==
  FoldLeft(LAMBDA l, i : IF l.stamp < StampAt(packets, i) THEN [stamp |-> StampAt(packets, i), num |-> i]
                         ELSE l,
           last, [i \in 1..Count(packets) |-> i - 1])

(* When no time stamp is later than all before, the number of a packet of   *)
(* an earlier read is used again, though this one may have fewer.           *)
ToSensorState(packets) ==
  LET latest == Latest(packets, [stamp |-> last_timestamp_, num |-> last_packet_num_])
  IN  IF Len(packets) % kPacketSize # 0
      THEN [stamp |-> last_timestamp_, num |-> last_packet_num_, value |-> Unset]
      ELSE [stamp |-> latest.stamp, num |-> latest.num,
            value |-> IF latest.num < Count(packets) THEN SampleAt(packets, latest.num) ELSE Unset]

-----------------------------------------------------------------------------
(* MPU9150Protocol *)

Later(t, bound) == IF t > bound THEN t ELSE t + 1

(* The three branches of TryReset, with the result they give. *)
TryResetSends(result) ==
  /\ status_ = "Waiting"
  /\ \/ /\ status_' = "WaitForReset"
        /\ age' = 0
        /\ sensor' = [sensor EXCEPT !.commands = @ + 1]
        /\ result = "kContinue"
     \/ UNCHANGED <<status_, age, sensor>> /\ result = "kError"
  /\ UNCHANGED <<line, gaveup>>

TryResetWaits(result) ==
  /\ status_ = "WaitForReset"
  /\ status_' = IF age > kMPU9150ResetDuration THEN "ReceiveResetReturn" ELSE status_
  /\ result = "kContinue"
  /\ UNCHANGED <<age, sensor, line, gaveup>>

(* A plausible slip: any packet ends the reset. *)
IsReplyAnyPacket(receipt) == ~ receipt.error
IsReply(receipt) == ~ receipt.error /\ receipt.reply

(* A plausible slip: nobody looks at the time-out. *)
TryResetReceivesForever(result) ==
  /\ status_ = "ReceiveResetReturn"
  /\ \E receipt \in Receipts :
       /\ Consume(receipt)
       /\ status_' = IF IsReply(receipt) THEN "Waiting" ELSE status_
       /\ result = IF IsReply(receipt) THEN "kDone" ELSE "kContinue"
  /\ UNCHANGED <<age, sensor, gaveup>>

TryResetReceives(result) ==
  /\ status_ = "ReceiveResetReturn"
  /\ \E receipt \in Receipts :
       /\ Consume(receipt)
       /\ status_' = IF IsReply(receipt) \/ age > kMPU9150InstructionTimeout THEN "Waiting" ELSE status_
       /\ result = CASE IsReply(receipt) -> "kDone"
                     [] ~ IsReply(receipt) /\ age > kMPU9150InstructionTimeout -> "kError"
                     [] OTHER -> "kContinue"
  /\ gaveup' = IF result = "kError" THEN gaveup + 1 ELSE gaveup
  /\ UNCHANGED <<age, sensor>>

TryReset(result) ==
  /\ TryResetSends(result) \/ TryResetWaits(result) \/ TryResetReceives(result)
  /\ UNCHANGED <<last_timestamp_, last_packet_num_>>

ResetResults == {"kDone", "kError", "kContinue"}

-----------------------------------------------------------------------------
(* MPU9150Node *)

(* Init, which ends the program when the port cannot be opened. *)
Open ==
  /\ pc = "init"
  /\ \/ pc' = IF disable_imu_ THEN "start" ELSE "configure"
     \/ ~ disable_imu_ /\ pc' = "stopped"
  /\ UNCHANGED <<configVars, retry, tried, protocolVars, reset_imu_, imu_output_, published,
                 cycleVars, sensorVars, requests, ghostVars>>

(* Before the loop: a parameter out of range or no real-time priority.      *)
Begin ==
  /\ pc = "start"
  /\ pc' \in {"read", "stopped"}
  /\ UNCHANGED <<configVars, retry, tried, protocolVars, reset_imu_, imu_output_, published,
                 cycleVars, sensorVars, requests, ghostVars>>

(* An attempt of Configure ends without success. *)
NextAttempt ==
  IF retry < kRetryCount THEN retry' = retry + 1 /\ tried' = 0 /\ UNCHANGED pc
  ELSE pc' = "stopped" /\ UNCHANGED <<retry, tried>>

(* One turn of the loop of MPU9150Protocol::Reset, under TryWithRetry. *)
Configure ==
  /\ pc = "configure"
  /\ IF tried < kImuResetTimeout
     THEN \E result \in ResetResults :
            /\ TryReset(result)
            /\ CASE result = "kDone" -> pc' = "start" /\ UNCHANGED <<retry, tried>>
                 [] result = "kError" -> NextAttempt
                 [] result = "kContinue" -> UNCHANGED <<pc, retry, tried>>
     ELSE NextAttempt /\ UNCHANGED <<protocolVars, line, sensor, gaveup>>
  /\ UNCHANGED <<configVars, reset_imu_, imu_output_, published, cycleVars, faults, requests,
                 newest, rising>>

(* What a read has returned, for the properties. *)
Mixed == -2     \* a read that held something besides samples
Note(packets) ==
  LET stamps == <<last_timestamp_>> \o [i \in 1..Count(packets) |-> StampAt(packets, i - 1)]
  IN  IF Len(packets) % kPacketSize # 0
      THEN newest' = Mixed /\ UNCHANGED rising
      ELSE /\ newest' = SampleAt(packets, Count(packets) - 1)
           /\ rising' = (rising /\ \A i \in 1..Len(stamps) - 1 : stamps[i] < stamps[i + 1])

(* Read: the state keeps its value when nothing is received. *)
Read ==
  /\ pc = "read"
  /\ pc' = "publish"
  /\ IF disable_imu_ \/ status_ # "Waiting"
     THEN UNCHANGED <<last_timestamp_, last_packet_num_, imu_output_, line, newest, rising>>
     ELSE \E receipt \in Receipts :
            /\ Consume(receipt)
            /\ IF receipt.error
               THEN UNCHANGED <<last_timestamp_, last_packet_num_, imu_output_, newest, rising>>
               ELSE \E converted \in {ToSensorState(receipt.packets)} :
                      /\ last_timestamp_' = converted.stamp
                      /\ last_packet_num_' = converted.num
                      /\ imu_output_' = converted.value
                      /\ Note(receipt.packets)
  /\ UNCHANGED <<configVars, retry, tried, status_, age, reset_imu_, published, cycleVars,
                 sensor, faults, requests, gaveup>>

Publish ==
  /\ pc = "publish"
  /\ pc' = "write"
  /\ published' = imu_output_
  /\ UNCHANGED <<configVars, retry, tried, protocolVars, reset_imu_, imu_output_,
                 cycleVars, sensorVars, requests, ghostVars>>

(* Write: the service runs in spin_some of the same thread, so that the     *)
(* mutex is always free.                                                    *)
Write ==
  /\ pc = "write"
  /\ pc' = "check"
  /\ IF disable_imu_ \/ ~ reset_imu_
     THEN UNCHANGED <<protocolVars, reset_imu_, line, sensor, gaveup>>
     ELSE \E result \in ResetResults :
            TryReset(result) /\ reset_imu_' = (result = "kContinue")
  /\ UNCHANGED <<configVars, retry, tried, imu_output_, published, cycleVars, faults, requests,
                 newest, rising>>

(* The cycles that took too long, of the last kCycleOverBufferNum: the loop *)
(* ends when they are too many.  (Without is_realtime_ nobody asks.)        *)
Count1(over) == IF over THEN 1 ELSE 0

(* A plausible slip: a cycle is counted, and never taken back. *)
JudgeUp(over) ==
  /\ cycle_over_buffer' = [cycle_over_buffer EXCEPT ![buffer_position] = over]
  /\ cycle_over_count' = (cycle_over_count + Count1(over)) % 256
  /\ buffer_position' = (buffer_position + 1) % kCycleOverBufferNum
  /\ cycle_count' = IF cycle_count + 1 > CyclesPerCheck THEN 0 ELSE (cycle_count + 1) % 256
  /\ pc' = IF cycle_count + 1 > CyclesPerCheck /\ cycle_over_count' > CycleOverLimit
           THEN "stopped" ELSE "spin"

Judge(over) ==
  /\ cycle_over_buffer' = [cycle_over_buffer EXCEPT ![buffer_position] = over]
  /\ cycle_over_count' =
       (cycle_over_count + Count1(over) - Count1(cycle_over_buffer[buffer_position])) % 256
  /\ buffer_position' = (buffer_position + 1) % kCycleOverBufferNum
  /\ cycle_count' = IF cycle_count + 1 > CyclesPerCheck THEN 0 ELSE (cycle_count + 1) % 256
  /\ pc' = IF cycle_count + 1 > CyclesPerCheck /\ cycle_over_count' > CycleOverLimit
           THEN "stopped" ELSE "spin"

Check ==
  /\ pc = "check"
  /\ IF is_realtime_ THEN \E over \in BOOLEAN : Judge(over)
     ELSE pc' = "spin" /\ UNCHANGED cycleVars
  /\ UNCHANGED <<configVars, retry, tried, protocolVars, reset_imu_, imu_output_, published,
                 sensorVars, requests, ghostVars>>

(* spin_some, which runs ResetImuCallback when there is a request, and the  *)
(* sleep until the next cycle; or a signal has ended the loop.              *)
Spin ==
  /\ pc = "spin"
  /\ \/ pc' = "stopped" /\ UNCHANGED <<reset_imu_, requests>>
     \/ /\ pc' = "read"
        /\ \/ UNCHANGED <<reset_imu_, requests>>
           \/ /\ ~ disable_imu_
              /\ requests < MaxRequests
              /\ requests' = requests + 1
              /\ reset_imu_' = TRUE
  /\ UNCHANGED <<configVars, retry, tried, protocolVars, imu_output_, published,
                 cycleVars, sensorVars, ghostVars>>

Node == Open \/ Configure \/ Begin \/ Read \/ Publish \/ Write \/ Check \/ Spin

(* Time matters while a reset runs. *)
Tick ==
  /\ status_ # "Waiting" \/ pc = "configure"
  /\ pc # "stopped"
  /\ age' = Later(age, kMPU9150InstructionTimeout)
  /\ tried' = IF pc = "configure" THEN Later(tried, kImuResetTimeout) ELSE tried
  /\ UNCHANGED <<pc, configVars, retry, status_, last_timestamp_, last_packet_num_, reset_imu_,
                 imu_output_, published, cycleVars, sensorVars, requests, ghostVars>>

Terminated == pc = "stopped" /\ UNCHANGED vars

Init ==
  /\ pc = "init"
  /\ disable_imu_ \in BOOLEAN
  /\ is_realtime_ \in IF disable_imu_ THEN BOOLEAN ELSE Realtime
  /\ retry = 0 /\ tried = 0
  /\ status_ = "Waiting" /\ age = 0
  /\ reset_imu_ = FALSE
  /\ last_timestamp_ = 0 /\ last_packet_num_ = 0
  /\ imu_output_ = Unset /\ published = Unset
  /\ cycle_count = 0 /\ cycle_over_count = 0 /\ buffer_position = 0
  /\ cycle_over_buffer = [i \in 0..kCycleOverBufferNum - 1 |-> FALSE]
  /\ line = <<>>
  /\ sensor = [samples |-> 0, stamp |-> 0, commands |-> 0, resets |-> 0]
  /\ faults = 0 /\ requests = 0
  /\ newest = Unset
  /\ rising = TRUE
  /\ gaveup = 0

Next == Node \/ Sensor \/ Tick \/ Terminated

Spec == Init /\ [][Next]_vars /\ WF_vars(Node) /\ WF_vars(Tick)

-----------------------------------------------------------------------------
(* Properties *)

(* The counters of the loop agree with what they count: a cycle that took  *)
(* too long is counted as long as it is among those judged.                *)
TypeOK ==
  /\ pc \in {"init", "configure", "start", "read", "publish", "write", "check", "spin", "stopped"}
  /\ status_ \in {"Waiting", "WaitForReset", "ReceiveResetReturn"}
  /\ last_packet_num_ \in Nat
  /\ retry \in 0..kRetryCount
  /\ buffer_position \in DOMAIN cycle_over_buffer
  /\ cycle_count \in 0..255
  /\ cycle_over_count = Cardinality({i \in DOMAIN cycle_over_buffer : cycle_over_buffer[i]})
  /\ Range(line) \subseteq 0..255

(* What is published is the last sample of the last read that returned     *)
(* samples and nothing else, as long as the time stamps rise: the number   *)
(* of the packet is kept from one read to the next, and never that of an   *)
(* earlier read is used (mpu9150_network.cpp:255-271).  After a read of    *)
(* mixed packets it says nothing; see MixedLeavesState.                    *)
PublishedIsNewest ==
  pc = "write" /\ rising /\ newest # Mixed => published = newest

(* "If mixed with data other than streaming data, exit without doing       *)
(* anything" (mpu9150_network.cpp:249): the late answer of a reset that    *)
(* timed out, among the samples or alone, leaves the state that is         *)
(* published as it was.  Not so: see the run that checks it.               *)
MixedLeavesState ==
  [][pc = "read" /\ newest' = Mixed => imu_output_' = imu_output_]_vars

(* The protocol only goes back to reading when the sensor has executed the *)
(* reset, or it gave up; a late answer may stand for a later reset.        *)
ResetIsAnswered == status_ = "Waiting" => sensor.commands <= sensor.resets + gaveup

(* The reset at the start ends, and so does every reset that was asked for *)
(* (mpu9150_node.cpp:113-146), whatever the sensor answers.                *)
ResetEnds ==
  /\ pc = "configure" ~> pc # "configure"
  /\ reset_imu_ ~> (~ reset_imu_ \/ pc = "stopped")
=============================================================================
