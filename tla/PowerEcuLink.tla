---------------------------- MODULE PowerEcuLink ----------------------------
(***************************************************************************)
(* hsrb_power_ecu/src/serial_network.cpp, power_ecu_com_frame_decoder.cpp  *)
(* and the receiving half of power_ecu_protocol.cpp, character by          *)
(* character: reads that return pieces of frames, frames damaged on the    *)
(* line, the receive buffer the decoder resynchronises on, and writes that *)
(* the port takes only in part.                                            *)
(*                                                                         *)
(* The frames have their real header and footer around a packet of two     *)
(* elements in place of the 27 of ecu1_; frame k carries k in both.        *)
(***************************************************************************)
EXTENDS PowerEcuFrames, FiniteSets

CONSTANTS MaxFrames,     \* bound on the frames the ECU sends
          MaxFaults,     \* bound on the faults of the line and the odd frames
          ReadSizes,     \* how much a read returns, when so much is there
          kBufferSize,   \* capacity of the buffers
          Commands,      \* the frames to send, with their lengths
          MaxCommands    \* bound on the calls to Send

ASSUME BoundsAssumption == /\ MaxFrames \in 1..9
                           /\ MaxFaults \in Nat
                           /\ ReadSizes \subseteq Nat \ {0}
                           /\ kBufferSize \in Nat
                           /\ MaxCommands \in Nat
ASSUME CommandsAssumption == Commands \subseteq Nat \ {0}

VARIABLES direction,       \* which half of the link this behaviour exercises
          fd_, port,       \* the descriptor, 0 for none, and whether the port is open
          timeout_ns_,     \* "none" when no time is left for even one try
          line,            \* what the ECU has sent and read() has not returned
          receive_buffer_,
          raw, out,        \* the values of the data decoder
          accepted,        \* what Update made of each frame it was called for
          error,           \* whether the last ReceiveAll returned protocol_error
          sent,            \* per frame, whether it is whole, where it ends, and how far it
                           \* can make the decoder skip
          send_buffer_, send_size, \* the frame in Send, and how much of it is written
          on_wire,         \* what the ECU was sent
          outcomes         \* what each Send returned, with the length of its frame

portVars == <<fd_, port, timeout_ns_>>
receiveVars == <<line, receive_buffer_, raw, out, accepted, error, sent>>
sendVars == <<send_buffer_, send_size, on_wire, outcomes>>
vars == <<direction, portVars, receiveVars, sendVars>>

-----------------------------------------------------------------------------
(* The packet *)

PacketElements ==
  <<UintElement("time_stamp", uint8, 1), UintElement("electric_current", uint8, 1)>>
PacketSizes == [ecu1_ |-> 15]

Body(k) == Digits(k, 10, 1) \o <<Comma>> \o Digits(k, 10, 1) \o <<Comma>>
Frame(name, body) == WithFooter(Header("E", name, Len(body) + kPacketFooterLength) \o body)
FrameLength == Len(Frame("ecu1_", Body(1)))

-----------------------------------------------------------------------------
(* The ECU and the line (external) *)

Spoiled(frame, i) ==
  LET put(c) == [frame EXCEPT ![i] = Char(c)]
  IN  {put("x"), put("E"), put("3"), SubSeq(frame, 1, i - 1) \o SubSeq(frame, i + 1, Len(frame))}

(* Frames the decoder does not know, or whose second element it cannot read. *)
OddFrames(k) ==
  {Frame("info1", Body(k)),
   Frame("ecu1_", Digits(k, 10, 1) \o <<Comma, Char("x"), Comma>>)}

(* How far a false header can reach: the size has a hundreds digit only if  *)
(* the damage put it there.                                                 *)
Reach(text) == kPacketHeaderLength + (IF text[9] = Char("3") THEN 399 ELSE 39)

Faults == Cardinality({k \in 1..Len(sent) : ~ sent[k].whole})
SentSoFar == IF sent = <<>> THEN 0 ELSE sent[Len(sent)].end

EcuSends ==
  /\ direction = "in"
  /\ Len(sent) < MaxFrames
  /\ LET k == Len(sent) + 1
         frame == Frame("ecu1_", Body(k))
         end(text) == SentSoFar + Len(text)
         send(text) == /\ line' = line \o text
                       /\ sent' = Append(sent, [whole |-> text = frame, end |-> end(text),
                                                until |-> end(text) + Reach(text)])
     IN  \/ send(frame)
         \/ /\ Faults < MaxFaults
            /\ \E text \in OddFrames(k) \cup UNION {Spoiled(frame, i) : i \in 1..Len(frame)} :
                  send(text)
  /\ UNCHANGED <<direction, portVars, receive_buffer_, raw, out, accepted, error, sendVars>>

-----------------------------------------------------------------------------
(* PowerEcuProtocol::ReceiveAll: the decode loop, to the first frame that is *)
(* not complete.                                                             *)

Start(buffer) == [rest |-> buffer, raw |-> raw, out |-> out, updates |-> <<>>,
                  error |-> FALSE, done |-> buffer = <<>>]

(* A plausible slip: what the data decoder returns is not looked at. *)
StoreAnyway(state, decoded) ==
  [state EXCEPT !.raw = decoded.raw, !.out = decoded.raw, !.updates = Append(@, decoded.raw)]

(* What a frame's elements make of the values, with whether all were read. *)
Store(state, decoded) ==
  [state EXCEPT !.raw = decoded.raw,
                !.out = IF decoded.ok THEN decoded.raw ELSE @,
                !.updates = IF decoded.ok THEN Append(@, decoded.raw) ELSE @,
                !.error = @ \/ ~ decoded.ok]

(* A plausible slip: after an error the rest of the buffer is dropped. *)
AdvanceToEnd(state, framed) ==
  CASE framed.result = "framed" ->
         Store([state EXCEPT !.rest = SubSeq(@, framed.used + 1, Len(@))],
               DataDecode(PacketElements, framed.data, state.raw))
    [] framed.result = "protocol_error" -> [state EXCEPT !.rest = <<>>, !.done = TRUE]
    [] OTHER -> [state EXCEPT !.rest = SubSeq(@, framed.used + 1, Len(@)), !.done = TRUE]

Advance(state, framed) ==
  LET moved == [state EXCEPT !.rest = SubSeq(@, framed.used + 1, Len(@))]
  IN  CASE framed.result = "result_out_of_range" -> [moved EXCEPT !.done = TRUE]
        [] framed.result = "protocol_error" -> [moved EXCEPT !.error = TRUE]
        [] framed.result = "framed" ->
             Store(moved, DataDecode(PacketElements, framed.data, state.raw))

DecodeStep(state) ==
  IF state.done THEN state ELSE Advance(state, FrameDecode(state.rest, PacketSizes))

(* Each step but the last drops two characters or more. *)
DecodeAll(buffer) ==
  FoldLeft(LAMBDA state, i : DecodeStep(state), Start(buffer),
           [i \in 1..Len(buffer) \div 2 + 1 |-> i])

(* A plausible slip: what is still in the buffer is forgotten. *)
WholeBuffer == kBufferSize
Space == kBufferSize - Len(receive_buffer_)

(* SerialNetwork::Receive and the loop. A full buffer makes read ask for no *)
(* characters and return 0, which is a success like any other.              *)
ReceiveAll ==
  /\ direction = "in"
  /\ port = "open"
  /\ timeout_ns_ = "some"
  /\ line # <<>>
  /\ \E n \in {m \in ReadSizes \cup {Len(line), Space} : m <= Len(line) /\ m <= Space} :
       \E decoded \in {DecodeAll(receive_buffer_ \o SubSeq(line, 1, n))} :
         /\ line' = SubSeq(line, n + 1, Len(line))
         /\ receive_buffer_' = decoded.rest
         /\ raw' = decoded.raw
         /\ out' = decoded.out
         /\ accepted' = accepted \o decoded.updates
         /\ error' = decoded.error
  /\ UNCHANGED <<direction, portVars, sent, sendVars>>

(* ppoll runs into its timeout, or ppoll or read fails. *)
ReceiveFails ==
  /\ direction = "in"
  /\ port = "open"
  /\ error' = FALSE
  /\ UNCHANGED <<direction, portVars, line, receive_buffer_, raw, out, accepted, sent, sendVars>>

-----------------------------------------------------------------------------
(* SerialNetwork::Send *)

Sending == send_buffer_ # <<>>
Return(length, outcome) ==
  /\ outcomes' = Append(outcomes, [length |-> length, outcome |-> outcome])
  /\ send_buffer_' = <<>>
  /\ send_size' = 0

Send ==
  /\ direction = "out"
  /\ port = "open"
  /\ ~ Sending
  /\ Len(outcomes) < MaxCommands
  /\ \E length \in Commands :
       IF length > kBufferSize THEN Return(length, "invalid_argument")
       ELSE IF timeout_ns_ = "none" THEN Return(length, "timed_out")
       ELSE /\ send_buffer_' = [i \in 1..length |-> <<Len(outcomes) + 1, i>>]
            /\ send_size' = 0
            /\ UNCHANGED outcomes
  /\ UNCHANGED <<direction, portVars, receiveVars, on_wire>>

(* A plausible slip: each write starts at the front again. *)
RemainingFromFront == send_buffer_
Remaining == SubSeq(send_buffer_, send_size + 1, Len(send_buffer_))

(* write takes some of what is left, perhaps nothing. *)
Write ==
  /\ Sending
  /\ \E n \in 0..Len(send_buffer_) - send_size :
       /\ on_wire' = on_wire \o SubSeq(Remaining, 1, n)
       /\ IF send_size + n = Len(send_buffer_) THEN Return(send_size + n, "success")
          ELSE send_size' = send_size + n /\ UNCHANGED <<send_buffer_, outcomes>>
  /\ UNCHANGED <<direction, portVars, receiveVars>>

(* The time is up, write fails, or the sleep after EAGAIN is interrupted:   *)
(* clock_nanosleep returns EINTR and leaves errno at EAGAIN, so the loop    *)
(* that means to sleep on gives up.                                         *)
SendGivesUp ==
  /\ Sending
  /\ \E outcome \in {"timed_out", "write_error", "interrupted"} :
       Return(Len(send_buffer_), outcome)
  /\ UNCHANGED <<direction, portVars, receiveVars, on_wire>>

-----------------------------------------------------------------------------
(* SerialNetwork::Configure, Open and Close *)

(* receive_timeout_ms: a negative value is refused, and one of more than    *)
(* 4294 ms leaves the range of the uint32_t, so that anything can be kept.  *)
Milliseconds == {-1, 0, 20, 5000}

Configure ==
  /\ fd_ = 0
  /\ port = "closed"
  /\ \E timeout \in Milliseconds :
       /\ timeout >= 0
       /\ timeout_ns_' \in IF timeout > 4294 THEN {"none", "some"}
                          ELSE IF timeout = 0 THEN {"none"} ELSE {"some"}
  /\ UNCHANGED <<direction, fd_, port, receiveVars, sendVars>>

Open ==
  /\ fd_ = 0
  /\ port = "closed"
  /\ \/ fd_' = 1 /\ port' = "open"       \* every call succeeds
     \/ fd_' = 1 /\ port' = "failed"     \* a call after open fails: fd_ stays
  /\ UNCHANGED <<direction, timeout_ns_, receiveVars, sendVars>>

Close ==
  /\ ~ Sending
  /\ fd_ # 0
  /\ fd_' = 0
  /\ port' = "gone"
  /\ UNCHANGED <<direction, timeout_ns_, receiveVars, sendVars>>

Terminated == port = "gone" /\ UNCHANGED vars

(* 0 is no frame's value; it stands for whatever the memory held. *)
NotInitialised == [time_stamp |-> 0, electric_current |-> 0]

Init ==
  /\ direction \in {"in", "out"}
  /\ fd_ = 0
  /\ port = "closed"
  /\ timeout_ns_ = "some"
  /\ line = <<>>
  /\ receive_buffer_ = <<>>
  /\ raw = NotInitialised
  /\ out = <<>>
  /\ accepted = <<>>
  /\ error = FALSE
  /\ sent = <<>>
  /\ send_buffer_ = <<>>
  /\ send_size = 0
  /\ on_wire = <<>>
  /\ outcomes = <<>>

Next ==
  \/ Configure \/ Open \/ Close \/ Terminated
  \/ EcuSends \/ ReceiveAll \/ ReceiveFails
  \/ Send \/ Write \/ SendGivesUp

Spec == Init /\ [][Next]_vars

-----------------------------------------------------------------------------
Values == [time_stamp : 1..MaxFrames, electric_current : 1..MaxFrames]

(* Every variable has its type, and the buffers keep to their capacity. *)
TypeOK ==
  /\ direction \in {"in", "out"}
  /\ fd_ \in {0, 1}
  /\ port \in {"closed", "open", "failed", "gone"}
  /\ timeout_ns_ \in {"none", "some"}
  /\ fd_ = 0 <=> port \in {"closed", "gone"}
  /\ Len(receive_buffer_) <= kBufferSize
  /\ \A i \in 1..Len(accepted) : accepted[i] \in Values
  /\ raw \in [time_stamp : 0..MaxFrames, electric_current : 0..MaxFrames]
  /\ out \in Values \cup {<<>>}
  /\ error \in BOOLEAN
  /\ sent \in Seq([whole : BOOLEAN, end : Nat, until : Nat])
  /\ send_size \in 0..Len(send_buffer_)

(* Whatever the reads cut the line into and whatever happened to it, each   *)
(* frame is taken at most once and in the order of the line, and what is    *)
(* published are the two values the ECU put in one frame, never of two,     *)
(* though the values of a frame that fails halfway stay in raw.             *)
AcceptedInOrder ==
  /\ \A i \in 1..Len(accepted) :
        /\ accepted[i].time_stamp = accepted[i].electric_current
        /\ \A j \in 1..i - 1 : accepted[j].time_stamp < accepted[i].time_stamp
  /\ accepted # <<>> => out = accepted[Len(accepted)]

(* A whole frame is taken as soon as its last character is read, if no      *)
(* character was damaged before it, or only so far back that any frame the  *)
(* damage may have pretended has ended.                                     *)
IntactIsAccepted ==
  \A k \in 1..Len(sent) :
    LET begins == sent[k].end - FrameLength
        read == SentSoFar - Len(line)
    IN  /\ sent[k].whole
        /\ sent[k].end <= read
        /\ \A j \in 1..k - 1 : ~ sent[j].whole => sent[j].until <= begins
        => \E i \in 1..Len(accepted) : accepted[i].time_stamp = k

(* When Send reports success the last characters on the wire are the whole  *)
(* command, however the port took them in pieces; when it reports a failure *)
(* a beginning of it may be there, never all of it.                         *)
SentIsWhole ==
  LET n == Len(outcomes)
      wire == Len(on_wire)
  IN  ~ Sending /\ n > 0 =>
        \E m \in 0..wire :
          /\ \A i \in 1..m : on_wire[wire - m + i] = <<n, i>>
          /\ \A i \in 1..wire - m : on_wire[i][1] # n
          /\ m <= outcomes[n].length
          /\ outcomes[n].outcome = "success" <=> m = outcomes[n].length
=============================================================================
