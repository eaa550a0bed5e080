-------------------------- MODULE PowerEcuProtocol --------------------------
(***************************************************************************)
(* hsrb_power_ecu/src/power_ecu_protocol.{hpp,cpp}: the command queue, the *)
(* acknowledgement wait, the heartbeat and the error counters of class     *)
(* PowerEcuProtocol, the serial line it talks over and the power ECU at    *)
(* the other end.                                                          *)
(*                                                                         *)
(* The module is the class under ANY order of calls of its public methods  *)
(* by one thread; PowerEcuMainLoop composes it with the order main() uses. *)
(* A command is the number of the AddCommandQueue call that accepted it,   *)
(* so two "ledc_" in the queue are told apart though the code queues the   *)
(* same pointer twice; added[c] is its name. Names and payloads are data:  *)
(* a frame on the line is the number of its command, or HEART or GETV.     *)
(***************************************************************************)
EXTENDS ErrorCounter

CONSTANTS
  Names,           \* the commands AddCommandQueue accepts (command_map_)
  QueueSize,       \* kCommandQueueSize
  ErrorWindow,     \* kErrorCounterSize
  CommandTimeout,  \* kCommandTimeout, in units of the model's clock
  MaxSleep,        \* bound: the longest time between two calls
  MaxDebt,         \* bound: heartbeat debt beyond this is forgotten
  MaxCommands,     \* bound: AddCommandQueue calls in a behaviour
  EcuLine,         \* bound: frames in flight to the ECU
  PcLine           \* bound: replies in flight from the ECU

ASSUME NamesAssumption == "ledc_" \in Names /\ "heart" \notin Names /\ "getv_" \notin Names
ASSUME SizesAssumption == /\ QueueSize \in Nat \ {0}
                          /\ ErrorWindow \in Nat \ {0}
                          /\ MaxCommands \in Nat
                          /\ EcuLine \in Nat \ {0}
                          /\ PcLine \in Nat \ {0}
ASSUME TimesAssumption == /\ CommandTimeout \in Nat \ {0}
                          /\ MaxSleep \in Nat \ {0}
                          /\ MaxDebt \in Nat
                          /\ MaxDebt > CommandTimeout

(* kHeartbeatDuration: half of the command timeout. *)
HeartbeatDuration == CommandTimeout \div 2

Commands == 1..MaxCommands

(* Frames to the ECU: a queued command, the heartbeat or the version query. *)
HEART == MaxCommands + 1
GETV  == MaxCommands + 2
Frames == Commands \cup {HEART, GETV}

(* Frames from the ECU. "of" is the frame answered: it is not on the wire   *)
(* and the driver never reads it. "value" is ack_value (0 is success), or   *)
(* 0 in a ver__ frame whose communication version is kEcuComVersion1String. *)
Replies == [kind : {"rxack", "ver__"}, of : Frames, value : {0, 1}]

(* ack_ and version_ while is_receive_ack_ and is_receive_version_ are down:*)
(* the decoded value is read only when its flag is up.                      *)
NoReply == 2

(* How a command left the queue, or "pending" until it does. *)
Fates == {"pending", "acked", "refused", "timed_out", "overwritten"}

VARIABLES
  added,                 \* history: names of the commands accepted, in order
  command_queue_,        \* circular_buffer of the commands to be sent
  is_waiting_ack_,
  ack_,                  \* ack_value_ once is_receive_ack_, cleared by SendCommand
  version_,              \* ver_power_ecu_com_version_ once is_receive_version_
  since_send,            \* now - last_send_command_time_ while an ack is
                         \* awaited, up to CommandTimeout + 1
  since_heartbeat,       \* now - last_heartbeat_time_, up to MaxDebt
  read_error_counter_,
  write_error_counter_,
  to_ecu,                \* frames written to the port, not yet read by the ECU
  to_pc,                 \* frames sent by the ECU, not yet read by Receive
  fate,                  \* history: how each command left the queue
  sent,                  \* history: commands put on the line
  executed,              \* history: commands the ECU carried out
  alone                  \* history: the command awaited was sent on an idle
                         \* line and nothing has been sent since

callVars == <<is_waiting_ack_, ack_, version_, since_send, since_heartbeat,
              read_error_counter_, write_error_counter_>>
lineVars == <<to_ecu, to_pc>>
historyVars == <<added, fate, sent, executed, alone>>
vars == <<command_queue_, callVars, lineVars, historyVars>>

----------------------------------------------------------------------------
(* The constructor, after Open. *)
Init ==
  /\ added = <<>>
  /\ command_queue_ = <<>>
  /\ is_waiting_ack_ = FALSE
  /\ ack_ = NoReply
  /\ version_ = NoReply
  /\ since_send = 0
  /\ since_heartbeat = 0
  /\ read_error_counter_ = NewErrorCounter(ErrorWindow)
  /\ write_error_counter_ = NewErrorCounter(ErrorWindow)
  /\ to_ecu = <<>>
  /\ to_pc = <<>>
  /\ fate = [c \in Commands |-> "pending"]
  /\ sent = {}
  /\ executed = {}
  /\ alone = FALSE

----------------------------------------------------------------------------
(* AddCommandQueue(name). A full circular_buffer overwrites its front: the *)
(* oldest command goes, which is the one in flight while an ack is awaited.*)
CanAdd == Len(added) < MaxCommands

(* Mutant of QueueFull: the queue grows without limit. *)
QueueNeverFull == FALSE
QueueFull == Len(command_queue_) = QueueSize

(* Mutant of PushBack: the newest command overtakes the others. *)
PushFront(queue, c) == <<c>> \o queue
PushBack(queue, c) == Append(queue, c)

AddCommandQueue(name) ==
  /\ CanAdd
  /\ added' = Append(added, name)
  /\ IF QueueFull
     THEN /\ command_queue_' = PushBack(Tail(command_queue_), Len(added) + 1)
          /\ fate' = [fate EXCEPT ![Head(command_queue_)] = "overwritten"]
          /\ alone' = FALSE
     ELSE /\ command_queue_' = PushBack(command_queue_, Len(added) + 1)
          /\ UNCHANGED <<fate, alone>>
  /\ UNCHANGED <<callVars, lineVars, sent, executed>>

----------------------------------------------------------------------------
(* Mutant of SendCommand: the ack flag is not dropped.                     *)
SendKeepsAck(frame) ==
  /\ Len(to_ecu) < EcuLine
  /\ to_ecu' = Append(to_ecu, frame)
  /\ UNCHANGED ack_

(* SendCommand(frame) when network_->Send succeeds: the frame is on the    *)
(* line and the ack flag is dropped. When it fails nothing the ECU can     *)
(* decode is on the line (a partial write is not a frame) and no flag      *)
(* changes. EcuLine stands for the output buffer that makes Send time out.*)
SendCommand(frame) ==
  /\ Len(to_ecu) < EcuLine
  /\ to_ecu' = Append(to_ecu, frame)
  /\ ack_' = NoReply

(* Mutant of MaySendCommand: the ack of the command in flight is not awaited. *)
MaySendWhileWaiting == command_queue_ # <<>>
MaySendCommand == command_queue_ # <<>> /\ ~is_waiting_ack_

HeartbeatDue == since_heartbeat > HeartbeatDuration

(* SendAll, first branch: the front command. *)
SendFront ==
  /\ MaySendCommand
  /\ SendCommand(Head(command_queue_))
  /\ is_waiting_ack_' = TRUE
  /\ since_send' = 0
  /\ sent' = sent \cup {Head(command_queue_)}
  /\ alone' = (to_ecu = <<>> /\ to_pc = <<>>)
  /\ write_error_counter_' = Register(write_error_counter_, TRUE)
  /\ UNCHANGED <<added, command_queue_, version_, since_heartbeat, read_error_counter_, to_pc,
                 fate, executed>>

(* SendAll, second branch: a heartbeat, sent also while an ack is awaited. *)
(* last_heartbeat_time_ += kHeartbeatDuration: lost time is caught up.     *)
SendHeartbeat ==
  /\ ~MaySendCommand
  /\ HeartbeatDue
  /\ SendCommand(HEART)
  /\ since_heartbeat' = since_heartbeat - HeartbeatDuration
  /\ alone' = FALSE
  /\ write_error_counter_' = Register(write_error_counter_, TRUE)
  /\ UNCHANGED <<added, command_queue_, is_waiting_ack_, version_, since_send,
                 read_error_counter_, to_pc, fate, sent, executed>>

(* SendAll with nothing to send. *)
SendNothing ==
  /\ ~MaySendCommand
  /\ ~HeartbeatDue
  /\ write_error_counter_' = Register(write_error_counter_, TRUE)
  /\ UNCHANGED <<command_queue_, is_waiting_ack_, ack_, version_,
                 since_send, since_heartbeat,
                 read_error_counter_, lineVars, historyVars>>

(* SendAll whose SendCommand fails: the command stays in front, unsent. *)
SendFails ==
  /\ MaySendCommand \/ HeartbeatDue
  /\ write_error_counter_' = Register(write_error_counter_, FALSE)
  /\ UNCHANGED <<command_queue_, is_waiting_ack_, ack_, version_,
                 since_send, since_heartbeat,
                 read_error_counter_, lineVars, historyVars>>

SendAll(result) ==
  \/ result = "success" /\ (SendFront \/ SendHeartbeat \/ SendNothing)
  \/ result = "network_down" /\ SendFails

(* GetPowerEcuVersions sends its query directly. It is called by Init and  *)
(* by the info command, before Start queues anything or after Start has    *)
(* emptied the queue.                                                      *)
SendGetVersion ==
  /\ command_queue_ = <<>>
  /\ SendCommand(GETV)
  /\ version_' = NoReply
  /\ UNCHANGED <<command_queue_, is_waiting_ack_,
                 since_send, since_heartbeat, read_error_counter_,
                 write_error_counter_, to_pc, historyVars>>

SendGetVersionFails ==
  /\ command_queue_ = <<>>
  /\ version_' = NoReply
  /\ UNCHANGED <<command_queue_, is_waiting_ack_, ack_,
                 since_send, since_heartbeat, read_error_counter_,
                 write_error_counter_, lineVars, historyVars>>

----------------------------------------------------------------------------
(* ReceiveAll when network_->Receive fails: it returns before the ack      *)
(* timeout is looked at.                                                   *)
ReceiveFails ==
  /\ read_error_counter_' = Register(read_error_counter_, FALSE)
  /\ UNCHANGED <<command_queue_, is_waiting_ack_, ack_, version_,
                 since_send, since_heartbeat,
                 write_error_counter_, lineVars, historyVars>>

(* The replies of one kind among those that Receive brought, oldest first. *)
RepliesOf(batch, kind) == {i \in DOMAIN batch : batch[i].kind = kind}

LastOf(batch, kind) ==
  {i \in RepliesOf(batch, kind) : \A j \in RepliesOf(batch, kind) : j <= i}

(* The value the decoder of that kind leaves behind after the batch, as a  *)
(* singleton: of several replies only the last one is seen.                *)
ValueAfter(batch, kind, old) ==
  IF LastOf(batch, kind) = {} THEN {old}
  ELSE {batch[i].value : i \in LastOf(batch, kind)}

(* The decode loop over the n oldest replies on the line. n = 0 is a read  *)
(* of status frames or of the beginning of a frame.                        *)
Decode(n) ==
  LET batch == SubSeq(to_pc, 1, n) IN
  /\ to_pc' = SubSeq(to_pc, n + 1, Len(to_pc))
  /\ ack_' \in ValueAfter(batch, "rxack", ack_)
  /\ version_' \in ValueAfter(batch, "ver__", version_)

AckTimedOut == since_send > CommandTimeout

(* Mutant of Resolve: the driver goes on waiting for an ack. *)
ResolveKeepsWaiting(f) ==
  /\ since_send' = 0
  /\ command_queue_' = Tail(command_queue_)
  /\ fate' = [fate EXCEPT ![Head(command_queue_)] = f]
  /\ alone' = FALSE
  /\ UNCHANGED is_waiting_ack_

(* The front command leaves the queue with the fate f. *)
Resolve(f) ==
  /\ is_waiting_ack_' = FALSE
  /\ since_send' = 0
  /\ command_queue_' = Tail(command_queue_)
  /\ fate' = [fate EXCEPT ![Head(command_queue_)] = f]
  /\ alone' = FALSE

(* The ack handling that follows the decode loop, with the error code it   *)
(* leaves; garbled says that some frame of the batch failed to decode.     *)
NoAckHandling(result, garbled) ==
  /\ ~(is_waiting_ack_ /\ (ack_' # NoReply \/ AckTimedOut))
  /\ result = IF garbled THEN "protocol_error" ELSE "success"
  /\ UNCHANGED <<is_waiting_ack_, since_send, command_queue_, fate, alone>>

AckReceived(result, garbled) ==
  /\ is_waiting_ack_ /\ ack_' = 0
  /\ result = IF garbled THEN "protocol_error" ELSE "success"
  /\ Resolve("acked")

RefusalReceived(result) ==
  /\ is_waiting_ack_ /\ ack_' \notin {0, NoReply}
  /\ result = "operation_canceled"
  /\ Resolve("refused")

AckTimeout(result) ==
  /\ is_waiting_ack_ /\ ack_' = NoReply /\ AckTimedOut
  /\ result = "timed_out"
  /\ Resolve("timed_out")

ReceiveSucceeds(result) ==
  \E n \in 0..Len(to_pc), garbled \in BOOLEAN :
    /\ Decode(n)
    /\ \/ NoAckHandling(result, garbled)
       \/ AckReceived(result, garbled)
       \/ RefusalReceived(result)
       \/ AckTimeout(result)
    /\ read_error_counter_' = Register(read_error_counter_, result = "success")
    /\ UNCHANGED <<since_heartbeat, write_error_counter_, to_ecu,
                   added, sent, executed>>

ReceiveResults == {"success", "network_down", "protocol_error",
                   "operation_canceled", "timed_out"}

ReceiveAll(result) ==
  \/ result = "network_down" /\ ReceiveFails
  \/ result \in ReceiveResults \ {"network_down"} /\ ReceiveSucceeds(result)

----------------------------------------------------------------------------
(* The clock between two calls. The ages are capped where no comparison    *)
(* can tell the difference (since_send) or at a named bound.               *)
AtMost(limit, n) == IF n < limit THEN n ELSE limit

Elapse(d) ==
  /\ since_send' = IF is_waiting_ack_ THEN AtMost(CommandTimeout + 1, since_send + d)
                   ELSE since_send
  /\ since_heartbeat' = AtMost(MaxDebt, since_heartbeat + d)
  /\ UNCHANGED <<command_queue_, is_waiting_ack_, ack_, version_,
                 read_error_counter_,
                 write_error_counter_, lineVars, historyVars>>

----------------------------------------------------------------------------
(* The power ECU and the line (external). It answers its frames in order,  *)
(* at any time: a command or a heartbeat with rxack, a version query with  *)
(* ver__. A frame may be lost in either direction; a command that arrived  *)
(* is carried out exactly when it is answered with success, whether or not *)
(* the answer survives.                                                    *)
Answer(frame, value) ==
  [kind |-> IF frame = GETV THEN "ver__" ELSE "rxack", of |-> frame, value |-> value]

EcuUnchanged == UNCHANGED <<command_queue_, callVars, added, fate, sent, alone>>

EcuAnswers(value, lost) ==
  LET frame == Head(to_ecu) IN
  /\ to_ecu # <<>>
  /\ frame = HEART => value = 0
  /\ to_ecu' = Tail(to_ecu)
  /\ executed' = IF frame \in Commands /\ value = 0
                 THEN executed \cup {frame} ELSE executed
  /\ IF lost THEN UNCHANGED to_pc
     ELSE /\ Len(to_pc) < PcLine
          /\ to_pc' = Append(to_pc, Answer(frame, value))
  /\ EcuUnchanged

EcuMissesFrame ==
  /\ to_ecu # <<>>
  /\ to_ecu' = Tail(to_ecu)
  /\ UNCHANGED <<to_pc, executed>>
  /\ EcuUnchanged

Ecu == EcuMissesFrame \/ \E value \in {0, 1}, lost \in BOOLEAN : EcuAnswers(value, lost)

----------------------------------------------------------------------------
Next ==
  \/ \E name \in Names : AddCommandQueue(name)
  \/ \E result \in {"success", "network_down"} : SendAll(result)
  \/ \E result \in ReceiveResults : ReceiveAll(result)
  \/ SendGetVersion
  \/ SendGetVersionFails
  \/ \E d \in 1..MaxSleep : Elapse(d)
  \/ Ecu

Spec == Init /\ [][Next]_vars

----------------------------------------------------------------------------
(* Properties *)

CounterOK(counter) ==
  /\ counter \in [buffer : Seq(BOOLEAN), error_count : Nat]
  /\ Len(counter.buffer) = ErrorWindow

CommandTypeOK ==
  /\ added \in Seq(Names) /\ Len(added) <= MaxCommands
  /\ command_queue_ \in Seq(Commands) /\ Len(command_queue_) <= QueueSize
  /\ fate \in [Commands -> Fates]
  /\ sent \subseteq Commands
  /\ executed \subseteq Commands

AckTypeOK ==
  /\ is_waiting_ack_ \in BOOLEAN
  /\ ack_ \in {0, 1, NoReply}
  /\ version_ \in {0, 1, NoReply}
  /\ since_send \in 0..(CommandTimeout + 1)
  /\ since_heartbeat \in 0..MaxDebt
  /\ alone \in BOOLEAN

LineTypeOK ==
  /\ to_ecu \in Seq(Frames) /\ Len(to_ecu) <= EcuLine
  /\ to_pc \in Seq(Replies) /\ Len(to_pc) <= PcLine

TypeOK ==
  /\ CommandTypeOK
  /\ AckTypeOK
  /\ LineTypeOK
  /\ CounterOK(read_error_counter_)
  /\ CounterOK(write_error_counter_)

(***************************************************************************)
(* The number of failures each error counter keeps by adding and           *)
(* subtracting one is the number of failures in its window: it neither     *)
(* drifts nor wraps its uint32_t below zero, so the rate ProcessCommand-   *)
(* Queue and GetPowerEcuVersions compare is the rate of the last           *)
(* kErrorCounterSize calls (error_counter.hpp, Register).                  *)
(***************************************************************************)
CountersExact ==
  \A counter \in {read_error_counter_, write_error_counter_} :
    counter.error_count = Cardinality(Failures(counter.buffer))

(* The number of commands that have left the queue. *)
Finished == Len(added) - Len(command_queue_)

(***************************************************************************)
(* No accepted command is lost from the books, duplicated or overtaken:    *)
(* the queue is exactly the newest accepted commands in order of arrival,  *)
(* and every older one left it in one recorded way (AddCommandQueue and    *)
(* the pop_front calls of ReceiveAll).                                     *)
(***************************************************************************)
QueueIsNewest ==
  /\ Len(command_queue_) <= Len(added)
  /\ \A i \in 1..Len(command_queue_) : command_queue_[i] = Finished + i
  /\ \A c \in Commands : (fate[c] = "pending") <=> (c > Finished)

(***************************************************************************)
(* While an ack is awaited there is a command for pop_front to take and    *)
(* the ack flag is down: no ack that was decoded is ever discarded by the  *)
(* SendCommand of a heartbeat, and none decoded before the command was     *)
(* sent acknowledges it (SendCommand, ReceiveAll).                         *)
(***************************************************************************)
NoAckDiscarded ==
  is_waiting_ack_ => command_queue_ # <<>> /\ ack_ = NoReply

(***************************************************************************)
(* Of the commands in the queue only the front can have been sent, and     *)
(* only while its ack is awaited. Unless the queue overflowed, the         *)
(* commands sent are those that left the queue and the one awaited.        *)
(***************************************************************************)
OneOutstanding ==
  /\ sent \subseteq 1..Len(added)
  /\ \A i \in 1..Len(command_queue_) :
        command_queue_[i] \in sent => i = 1 /\ is_waiting_ack_
  /\ (\A c \in Commands : fate[c] # "overwritten")
       => sent = 1..(IF is_waiting_ack_ THEN Finished + 1 ELSE Finished)

(***************************************************************************)
(* A command is never put on the line after a later one, nor a second time *)
(* while its ack is still awaited, whatever was overwritten, refused or    *)
(* timed out in between (SendAll). Whether a command that timed out is     *)
(* sent again is left open: the class comment asks for it, and the code    *)
(* does not do it (see the README).                                        *)
(***************************************************************************)
Transmitted(c) == Len(to_ecu') > Len(to_ecu) /\ to_ecu'[Len(to_ecu')] = c

SentInOrder ==
  [][ \A c \in Commands :
        Transmitted(c) => /\ \A other \in sent : other <= c
                          /\ is_waiting_ack_ => c \notin sent ]_vars

(***************************************************************************)
(* When a command is sent on an idle line and nothing is sent after it,    *)
(* the ack that completes it is the ECU's answer to it: an "acked" command *)
(* was carried out and a "refused" one was not. (A heartbeat in flight or  *)
(* the late answer to a command that timed out break this: rxack names no  *)
(* command. See AckIsOwn.)                                                 *)
(***************************************************************************)
LoneAckIsOwn ==
  [][ \A c \in Commands :
        alone /\ fate[c] = "pending"
          => /\ fate'[c] = "acked" => c \in executed
             /\ fate'[c] = "refused" => c \notin executed ]_vars

(***************************************************************************)
(* The class comment's "requires confirmation of ACK from power ECU for    *)
(* each transmission": a command completed as acknowledged was carried     *)
(* out. Not so: see the run that checks it.                                *)
(***************************************************************************)
AckIsOwn == \A c \in Commands : fate[c] = "acked" => c \in executed

(***************************************************************************)
(* The queue, the line and the ECU together implement CommandDelivery: the *)
(* abstract state is the length of two sequences, the waiting flag and the *)
(* commands sent.                                                          *)
(***************************************************************************)
Delivery == INSTANCE CommandDelivery WITH
              Capacity    <- QueueSize,
              accepted    <- Len(added),
              finished    <- Finished,
              outstanding <- is_waiting_ack_,
              delivered   <- sent

ImplementsDelivery == Delivery!Spec
=============================================================================
