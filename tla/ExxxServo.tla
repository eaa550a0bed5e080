------------------------------ MODULE ExxxServo ------------------------------
(***************************************************************************)
(* One program on the servo motors' bus: exxx_protocol over exxx_network,  *)
(* byte by byte, driven by one of the command-line tools or, job           *)
(* "library", by a caller that uses ExxxProtocol in whatever order.  The   *)
(* servo and the line are external; an answer may come after its request   *)
(* timed out, damaged, or not at all.                                      *)
(*                                                                         *)
(* The hashes have 2 + 1 bytes in place of 16 + 20.                        *)
(***************************************************************************)
EXTENDS ExxxPackets, ExxxControlTable

CONSTANTS Programs,   \* what may be run
          MaxCalls,   \* bound on the calls of job "library"
          MaxFaults,  \* bound on the faults of the line
          ReadSizes,  \* how much a read returns, when so much is there
          Statuses    \* what the servo may report with an answer

ASSUME BoundsAssumption == /\ MaxCalls \in Nat
                           /\ MaxFaults \in Nat
                           /\ ReadSizes \subseteq Nat \ {0}
ASSUME StatusesAssumption == \A s \in Statuses : s \in Nat /\ s <= 65535

VARIABLES job,           \* the program that runs, with its arguments
          home, package, \* the control tables there are
          pc,            \* "open", "ready", "sending", "receiving" or "exited"
          call,          \* the call of ExxxProtocol that runs
          num_done,      \* how much of the request is written
          polled,        \* whether this Receive has read something
          parser_,
          line,          \* the bytes that wait in the port
          requests,      \* the requests the servo has not answered yet
          servo,         \* the servo: what it keeps and whether it runs
          results,       \* what the calls returned
          output, exit_code,
          answers,          \* the packets the servo sent
          faults

hostVars == <<pc, call, num_done, polled, parser_, results, output, exit_code>>
lineVars == <<line, requests, servo, answers, faults>>
vars == <<job, home, package, hostVars, lineVars>>

-----------------------------------------------------------------------------
(* Servo, tables and line (external) *)

Id == 11
OtherId == 12

Heading == Line(12, "type", "name", <<>>)
TableA == <<Heading, Line(12, "uint8_t", "temperature", <<>>), Line(12, "int16_t", "velocity", <<10>>)>>
TableB == <<Heading, Line(12, "int16_t", "velocity", <<10>>), Line(12, "uint8_t", "temperature", <<>>)>>
Duplicate == Append(TableA, Line(12, "int8_t", "velocity", <<>>))

kControlTableHashByte == 2
HashOf == [A |-> <<1, 1>>, B |-> <<2, 2>>]
TableOf == [A |-> TableA, B |-> TableB]
FirmwareHash == <<9>>
HashedTable(hash) == IF \E v \in {"A", "B"} : HashOf[v] = hash
                     THEN TableOf[CHOOSE v \in {"A", "B"} : HashOf[v] = hash] ELSE <<>>

MemorySize == 3
InMemory(addr, size) == addr + size <= MemorySize
Stored(addr, size) == [i \in 1..size |-> servo.memory[addr + i]]
Overwritten(addr, data) ==
  [i \in 1..MemorySize |-> IF i \in addr + 1..addr + Len(data) THEN data[i - addr] ELSE servo.memory[i]]

Without(packet, i) == SubSeq(packet, 1, i - 1) \o SubSeq(packet, i + 1, Len(packet))
Damaged(packet, i) ==
  {[packet EXCEPT ![i] = (@ + 1) % 256], Without(packet, i)}

(* The answer arrives, or a fault keeps it or one of its bytes back. *)
Put(status, data) ==
  \E packet \in {StatusPacket(Id, status, data)} :
     /\ answers' = answers \cup {packet}
     /\ \/ line' = line \o packet /\ UNCHANGED faults
        \/ /\ faults < MaxFaults
           /\ faults' = faults + 1
           /\ line' \in {line} \cup {line \o d : d \in UNION {Damaged(packet, i) : i \in 1..Len(packet)}}

Head_(i) == Head(requests)[i]
Arguments == SubSeq(Head(requests), 7, Len(Head(requests)) - 3)

ServoReads ==
  LET addr == Uint16(Arguments, 1)
      size == Uint16(Arguments, 3)
  IN  /\ Head_(6) = Instruction.ReadData
      /\ IF InMemory(addr, size) THEN \E s \in Statuses : Put(s, Stored(addr, size))
         ELSE Put(4096, <<>>)
      /\ UNCHANGED servo

ServoWrites ==
  LET addr == Uint16(Arguments, 1)
      data == SubSeq(Arguments, 3, Len(Arguments))
  IN  /\ Head_(6) = Instruction.WriteData
      /\ \/ /\ InMemory(addr, Len(data))
            /\ servo' = [servo EXCEPT !.memory = Overwritten(addr, data)]
            /\ \E s \in Statuses : Put(s, <<>>)
         \/ UNCHANGED servo /\ Put(4096, <<>>)

ServoSyncs ==
  /\ Head_(6) = Instruction.SyncParam
  /\ servo' = [servo EXCEPT !.synced = servo.memory]
  /\ \E s \in Statuses : Put(s, <<>>)

ServoSaves ==
  /\ Head_(6) = Instruction.WriteEeprom
  /\ servo' = [servo EXCEPT !.eeprom = servo.memory]
  /\ UNCHANGED <<line, answers, faults>>

(* It starts its boot loader without a word, or answers that it does not. *)
ServoResets ==
  /\ Head_(6) = Instruction.Reset
  /\ \/ servo' = [servo EXCEPT !.running = FALSE] /\ UNCHANGED <<line, answers, faults>>
     \/ UNCHANGED servo /\ \E s \in Statuses : Put(s, <<>>)

ServoTells ==
  /\ \/ Head_(6) \in {Instruction.Ping, Instruction.AvagoAvePos} /\ \E s \in Statuses : Put(s, <<>>)
     \/ Head_(6) = Instruction.ReadHash /\ \E s \in Statuses : Put(s, HashOf[servo.version] \o FirmwareHash)
  /\ UNCHANGED servo

(* The servo takes a request only as it should be; its boot loader none. *)
ServoAnswers ==
  /\ pc # "exited"
  /\ requests # <<>>
  /\ requests' = Tail(requests)
  /\ IF servo.running /\ Head(requests) = Request(Id, Head_(6), Arguments)
     THEN ServoReads \/ ServoWrites \/ ServoSyncs \/ ServoSaves \/ ServoResets \/ ServoTells
     ELSE UNCHANGED <<line, servo, answers, faults>>
  /\ UNCHANGED <<job, home, package, hostVars>>

(* A request does not arrive, or something else does. *)
LineFault ==
  /\ pc # "exited"
  /\ faults < MaxFaults
  /\ faults' = faults + 1
  /\ \/ requests # <<>> /\ requests' = Tail(requests) /\ UNCHANGED line
     \/ /\ line' \in {line \o noise : noise \in {<<kHeader1>>, StatusPacket(OtherId, 0, <<>>)}}
        /\ UNCHANGED requests
  /\ UNCHANGED <<job, home, package, hostVars, servo, answers>>

-----------------------------------------------------------------------------
(* ExxxProtocol: the calls, the requests they send and what they make of    *)
(* the answer.                                                              *)

SystemError(value) == [category |-> "system", value |-> value]
Success == SystemError(0)
EIO == 5
protocol_error == SystemError(71)
bad_message == SystemError(74)
message_size == SystemError(90)
timed_out == SystemError(110)

IsError(error) == error.value # 0
IsSystemError(error) == error.category = "system" /\ IsError(error)

Call(name, addr, size, data) == [name |-> name, addr |-> addr, size |-> size, data |-> data]
Plain(name) == Call(name, 0, 0, <<>>)
Read(addr, size) == Call("ReadData", addr, size, <<>>)
Write(addr, data) == Call("WriteData", addr, Len(data), data)

kResetData == <<82, 69, 83, 69, 84, 0, 255, 170, 85>>
SendData(c) ==
  CASE c.name = "ReadData" -> LowHigh(c.addr) \o LowHigh(c.size)
    [] c.name = "WriteData" -> LowHigh(c.addr) \o c.data
    [] c.name = "Reset" -> kResetData
    [] OTHER -> <<>>
RequestOf(c) == Request(Id, Instruction[c.name], SendData(c))

(* ReadBlock and ReadHash check the size of the answer. *)
ReadBlockResult(c, error, data) ==
  CASE IsSystemError(error) -> [error |-> error, data |-> <<>>]
    [] ~ IsSystemError(error) /\ Len(data) # c.size -> [error |-> protocol_error, data |-> <<>>]
    [] OTHER -> [error |-> error, data |-> data]

ReadHashResult(error, data) ==
  CASE IsSystemError(error) -> [error |-> error, data |-> <<>>]
    [] ~ IsSystemError(error) /\ Len(data) # kControlTableHashByte + Len(FirmwareHash) ->
         [error |-> message_size, data |-> <<>>]
    [] OTHER -> [error |-> Success, data |-> data]

(* A plausible slip: a request that was sent counts as done. *)
WriteBlockSent(error) == [error |-> Success, data |-> <<>>]

WriteBlockResult(error) == [error |-> error, data |-> <<>>]

(* A status is not an error; and whatever has the value of timed_out, even  *)
(* a status, means that the servo was reset.                                *)
PingResult(error) == [error |-> IF IsSystemError(error) THEN error ELSE Success, data |-> <<>>]
SyncParamResult(error) == [error |-> IF IsSystemError(error) THEN error ELSE Success, data |-> <<>>]
AvagoAvePosResult(error) == [error |-> IF IsSystemError(error) THEN error ELSE Success, data |-> <<>>]
ResetResult(error) ==
  [error |-> CASE error.value = timed_out.value -> Success
               [] error.value # timed_out.value /\ IsSystemError(error) -> error
               [] OTHER -> bad_message,
   data |-> <<>>]

Result(c, error, data) ==
  CASE c.name = "ReadData" -> ReadBlockResult(c, error, data)
    [] c.name = "WriteData" -> WriteBlockResult(error)
    [] c.name = "ReadHash" -> ReadHashResult(error, data)
    [] c.name = "Ping" -> PingResult(error)
    [] c.name = "SyncParam" -> SyncParamResult(error)
    [] c.name = "AvagoAvePos" -> AvagoAvePosResult(error)
    [] c.name = "Reset" -> ResetResult(error)

(* The call returns.  A request that was not sent is an error of its own. *)
Return(outcome, packet) ==
  /\ pc' = "ready"
  /\ results' = Append(results, [call |-> call, error |-> outcome.error, data |-> outcome.data,
                                 packet |-> packet])
  /\ UNCHANGED <<call, output, exit_code>>

Begin(c) ==
  /\ pc' = "sending"
  /\ call' = [c |-> c, clean |-> requests = <<>> /\ line = <<>>, faults |-> faults]
  /\ num_done' = 0
  /\ UNCHANGED <<polled, parser_, results, output, exit_code>>

-----------------------------------------------------------------------------
(* ExxxNetwork *)

(* The constructor: the port is opened and set up; only one that is not a   *)
(* USB adapter is emptied of what waits in it.                              *)
Open ==
  /\ pc = "open"
  /\ \/ /\ pc' = "ready"
        /\ line' = IF job.usb THEN line ELSE <<>>
        /\ UNCHANGED exit_code
     \/ pc' = "exited" /\ exit_code' = "failure" /\ UNCHANGED line
  /\ UNCHANGED <<job, home, package, call, num_done, polled, parser_, results, output,
                 requests, servo, answers, faults>>

(* Send: write takes a part of what is left, or all of it. *)
SendSome ==
  /\ pc = "sending"
  /\ \E request \in {RequestOf(call.c)} :
     \E n \in {4, Len(request) - num_done} :
       /\ num_done + n <= Len(request)
       /\ num_done' = num_done + n
       /\ IF num_done + n < Len(request)
          THEN UNCHANGED <<pc, call, polled, parser_, results, output, exit_code, requests>>
          ELSE /\ requests' = Append(requests, request)
               /\ IF call.c.name = "WriteEeprom"   \* no answer is waited for
                  THEN Return([error |-> Success, data |-> <<>>], <<>>) /\ UNCHANGED <<polled, parser_>>
                  ELSE /\ pc' = "receiving"
                       /\ polled' = FALSE
                       /\ parser_' = Reset
                       /\ UNCHANGED <<call, results, output, exit_code>>
  /\ UNCHANGED <<job, home, package, line, servo, answers, faults>>

(* The time is up, or write or the sleep after EAGAIN fails. *)
SendGivesUp ==
  /\ pc = "sending"
  /\ \E error \in {timed_out, SystemError(EIO)} : Return([error |-> error, data |-> <<>>], <<>>)
  /\ UNCHANGED <<job, home, package, num_done, polled, parser_, lineVars>>

(* Receive: one poll and read. *)
Receive ==
  /\ pc = "receiving"
  /\ line # <<>>
  /\ \E n \in {m \in ReadSizes \cup {Len(line)} : m <= Len(line)} :
     \E parsed \in {ParseAll(parser_, Id, SubSeq(line, 1, n))} :
       /\ line' = SubSeq(line, n + 1, Len(line))
       /\ parser_' = parsed
       /\ polled' = TRUE
       /\ IF parsed.status = "kDone"
          THEN Return(Result(call.c,
                             IF PacketStatus(parsed.packet) # 0
                             THEN [category |-> "warning", value |-> PacketStatus(parsed.packet)]
                             ELSE Success,
                             PacketData(parsed.packet)),
                      parsed.packet)
          ELSE UNCHANGED <<pc, call, results, output, exit_code>>
  /\ UNCHANGED <<job, home, package, num_done, requests, servo, answers, faults>>

(* Nothing comes in time, or there is no time left after a read; or ppoll   *)
(* or read fails.                                                           *)
ReceiveGivesUp ==
  /\ pc = "receiving"
  /\ \E error \in {timed_out, SystemError(EIO)} :
       /\ error = timed_out => line = <<>> \/ polled
       /\ Return(Result(call.c, error, <<>>), <<>>)
  /\ UNCHANGED <<job, home, package, num_done, polled, parser_, lineVars>>

-----------------------------------------------------------------------------
(* The programs *)

LastResult == results[Len(results)]
Exit(code, text) ==
  /\ pc' = "exited"
  /\ exit_code' = code
  /\ output' = text
  /\ UNCHANGED <<call, num_done, polled, parser_, results>>
Fail == Exit("failure", <<>>)

LibraryCalls ==
  {Read(1, 2), Write(0, <<kHeader1, kHeader2>>)}
    \cup {Plain(name) : name \in {"Ping", "Reset", "SyncParam", "AvagoAvePos", "WriteEeprom", "ReadHash"}}

Library ==
  /\ job.program = "library"
  /\ IF Len(results) < MaxCalls THEN \E c \in LibraryCalls : Begin(c) ELSE Exit("success", <<>>)

(* What the tools are asked for; the values of exxx_write are at the limits  *)
(* of their items.                                                          *)
Job(program, addr, size, value, item, usb) ==
  [program |-> program, addr |-> addr, size |-> size, value |-> value, item |-> item, usb |-> usb]

Jobs ==
  {j \in {Job(p, 0, 0, 0, "none", TRUE) : p \in {"library", "exxx_eeprom"}}
     \cup {Job("exxx_hash", 0, 0, 0, "none", u) : u \in BOOLEAN}
     \cup {Job("exxx_read_data", a, n, 0, "none", TRUE) : a \in {1, 2}, n \in {1, 2, 3}}
     \cup {Job("exxx_write_data", 1, n, 515, "none", TRUE) : n \in {1, 2, 3}}
     \cup {Job("exxx_read", 0, 0, 0, i, TRUE) : i \in {"temperature", "velocity", "torque"}}
     \cup {Job("exxx_write", 0, 0, v, "temperature", TRUE) : v \in {-7, 25, 2554, 2555}}
     \cup {Job("exxx_write", 0, 0, v, "velocity", TRUE) : v \in {-32768, -32767, -13, 32767, 32768}} :
   j.program \in Programs}

LowBytes(n, size) == [i \in 1..size |-> (n \div 256 ^ (i - 1)) % 256]

(* exxx_read_data: an error of the system leaves the value at 0, and it is  *)
(* printed all the same.                                                    *)
ReadDataTool ==
  /\ job.program = "exxx_read_data"
  /\ CASE job.size \notin {1, 2, 4, 8} -> Fail
       [] job.size \in {1, 2, 4, 8} /\ results = <<>> -> Begin(Read(job.addr, job.size))
       [] OTHER -> IF IsSystemError(LastResult.error) THEN Exit("failure", [i \in 1..job.size |-> 0])
                   ELSE Exit("success", LastResult.data)

WriteDataTool ==
  /\ job.program = "exxx_write_data"
  /\ CASE job.size \notin {1, 2, 4, 8} -> Fail
       [] job.size \in {1, 2, 4, 8} /\ results = <<>> ->
            Begin(Write(job.addr, LowBytes(job.value, job.size)))
       [] OTHER -> IF IsSystemError(LastResult.error) THEN Fail ELSE Exit("success", <<>>)

HashTool ==
  /\ job.program = "exxx_hash"
  /\ IF results = <<>> THEN Begin(Plain("ReadHash"))
     ELSE IF IsError(LastResult.error) THEN Fail ELSE Exit("success", LastResult.data)

EepromTool ==
  /\ job.program = "exxx_eeprom"
  /\ IF results = <<>> THEN Begin(Plain("WriteEeprom"))
     ELSE IF IsError(LastResult.error) THEN Fail ELSE Exit("success", <<>>)

(* The control table both tools look their item up in, once they have the   *)
(* servo's hash.                                                            *)
Loaded == LoadControlTable(home, package, HashedTable(SubSeq(results[1].data, 1, kControlTableHashByte)))
ItemFound == ~ IsSystemError(results[1].error) /\ Loaded.ok /\ HasItem(Loaded.table, job.item)
Item == ReferItemDescriptor(Loaded.table, job.item)

ReadTableTool ==
  /\ job.program = "exxx_read"
  /\ CASE results = <<>> -> Begin(Plain("ReadHash"))
       [] results # <<>> /\ ~ ItemFound -> Fail
       [] Len(results) = 1 /\ ItemFound -> Begin(Read(Item.initial_address, Item.num_bytes))
       [] Len(results) = 2 /\ ItemFound ->
            IF IsSystemError(LastResult.error) THEN Fail
            ELSE Exit("success", ConvertToMKS(Item, LastResult.data))

WriteTableTool ==
  /\ job.program = "exxx_write"
  /\ CASE results = <<>> -> Begin(Plain("ReadHash"))
       [] results # <<>> /\ ~ ItemFound -> Fail
       [] Len(results) = 1 /\ ItemFound ->
            \/ ConvertToBytes(Item, job.value) = {} /\ Fail
            \/ \E bytes \in ConvertToBytes(Item, job.value) : Begin(Write(Item.initial_address, bytes))
       [] Len(results) = 2 /\ ItemFound ->
            IF IsSystemError(LastResult.error) THEN Fail ELSE Begin(Plain("SyncParam"))
       [] Len(results) = 3 /\ ItemFound ->
            IF IsError(LastResult.error) THEN Fail ELSE Exit("success", <<>>)

Program ==
  /\ pc = "ready"
  /\ Library \/ ReadDataTool \/ WriteDataTool \/ HashTool \/ EepromTool
     \/ ReadTableTool \/ WriteTableTool
  /\ UNCHANGED <<job, home, package, lineVars>>

Terminated == pc = "exited" /\ UNCHANGED vars

-----------------------------------------------------------------------------
Init ==
  /\ job \in Jobs
  /\ IF job.program \in {"exxx_read", "exxx_write"}
     THEN /\ line = <<>>
          /\ home \in {{}, {TableA}, {Duplicate}, {<<>>}}
          /\ package \in {{TableA, TableB}, {TableB}}
     ELSE /\ line \in IF job.program = "exxx_hash" THEN {<<>>, <<kHeader1>>} ELSE {<<>>}
          /\ home = {} /\ package = {}
  /\ pc = "open"
  /\ call = [c |-> Plain("Ping"), clean |-> FALSE, faults |-> 0]
  /\ num_done = 0
  /\ polled = FALSE
  /\ parser_ = Reset
  /\ requests = <<>>
  /\ \E version \in IF job.program = "exxx_read" \/ job.program = "exxx_write" THEN {"A", "B"} ELSE {"A"} :
       servo = [version |-> version, memory |-> <<7, kHeader1, kHeader2>>, synced |-> <<>>, eeprom |-> <<>>, running |-> TRUE]
  /\ results = <<>>
  /\ output = <<>>
  /\ exit_code = "none"
  /\ answers = {}
  /\ faults = 0

Next == \/ Open \/ SendSome \/ SendGivesUp \/ Receive \/ ReceiveGivesUp
        \/ Program \/ ServoAnswers \/ LineFault \/ Terminated

Spec == Init /\ [][Next]_vars

-----------------------------------------------------------------------------
(* The messages of the three categories tell any two bits apart. *)
TellsBits(messages, greatest) ==
  \A i, j \in DOMAIN messages :
    Len(Message(messages, greatest, messages[i][1] + IF i = j THEN 0 ELSE messages[j][1])) =
      IF i = j THEN 1 ELSE 2

(* Every variable has its type, and each warning of the servo has a message *)
(* of as many parts as it has bits.                                         *)
TypeOK ==
  /\ job \in Jobs
  /\ pc \in {"open", "ready", "sending", "receiving", "exited"}
  /\ call.clean \in BOOLEAN
  /\ num_done \in 0..Len(RequestOf(call.c))
  /\ polled \in BOOLEAN
  /\ parser_.status \in {"kContinue", "kError", "kDone"}
  /\ line \in Seq(0..255)
  /\ \A i \in 1..Len(requests) : requests[i] \in Seq(0..255)
  /\ servo.memory \in [1..MemorySize -> 0..255]
  /\ Len(results) <= 3 \/ job.program = "library"
  /\ exit_code \in {"none", "success", "failure"}
  /\ faults \in 0..MaxFaults
  /\ \A i \in 1..Len(results) :
       results[i].error.category = "warning" =>
         Len(Message(WarningMessages, 65535, results[i].error.value)) =
           Cardinality({b \in 0..15 : HasBit(results[i].error.value, 2 ^ b)})
  /\ pc = "open" /\ job.program = "library" =>
       TellsBits(WarningMessages, 65535) /\ TellsBits(ErrorMessages, 65535)
         /\ TellsBits(SafetyErrorMessages, 524287)

(* What Receive takes for the answer is, byte for byte, a packet that the   *)
(* addressed node sent: noise, the header bytes within the data, a damaged  *)
(* answer and another node's are never taken for one.  There is one         *)
(* exception: an answer that lost a byte of the value of the header's first *)
(* passes for whole once the next answer's first byte stands for its        *)
(* checksum, for the sum lacks as much as the checksum in it adds.          *)
AcceptedWasSent ==
  \A i \in 1..Len(results) :
    LET packet == results[i].packet
    IN  \/ packet = <<>>
        \/ packet \in answers
        \/ \E answer \in answers : \E k \in 4..Len(answer) - 1 :
             answer[k] = kHeader1 /\ packet = Append(Without(answer, k), kHeader1)

(* A call that found no answer to an earlier one outstanding, and met at    *)
(* most one fault of the line, tells the truth of its own request: read     *)
(* data are the servo's memory, written ones are there, a synchronisation   *)
(* was one and a reset that fails was none.  With an answer outstanding     *)
(* this does not hold, nothing tells it apart; nor with two faults, for a   *)
(* byte that is lost and one of noise can make another whole answer.        *)
SuccessIsOwn ==
  results # <<>> /\ pc = "ready" /\ call.clean /\ faults <= call.faults + 1 =>
    LET c == call.c
    IN  /\ c.name = "ReadData" /\ ~ IsSystemError(LastResult.error) => LastResult.data = Stored(c.addr, c.size)
        /\ c.name = "WriteData" /\ ~ IsError(LastResult.error) => Stored(c.addr, c.size) = c.data
        /\ c.name = "SyncParam" /\ ~ IsError(LastResult.error) => servo.synced = servo.memory
        /\ c.name = "ReadHash" /\ ~ IsError(LastResult.error) =>
             LastResult.data = HashOf[servo.version] \o FirmwareHash
        /\ c.name = "Reset" /\ LastResult.error = bad_message => servo.running

(* The items of the servo's own table. *)
Own(name) == ReferItemDescriptor(Load(TableOf[servo.version]), name)
OwnBytes(name) == Stored(Own(name).initial_address, Own(name).num_bytes)
Magnitude(n) == IF n < 0 THEN -n ELSE n

(* A tool that exits with success read or wrote what it was asked to in the *)
(* servo it was asked to, by the servo's own control table and within half  *)
(* a unit of the table, and what was written is in use, unless the servo    *)
(* answered that it did not do it.  A negative value for an unsigned item   *)
(* is the exception: what is written then is up to the build.  So it is as  *)
(* long as the line had at most one fault; with two it does not hold, as    *)
(* with SuccessIsOwn.                                                       *)
ToolTellsTruth ==
  exit_code = "success" /\ faults <= 1 =>
    CASE job.program = "exxx_read_data" -> output = Stored(job.addr, job.size)
      [] job.program = "exxx_hash" -> output = HashOf[servo.version] \o FirmwareHash
      [] job.program = "exxx_read" ->
           output = [units |-> DoubleCast(Own(job.item).type, OwnBytes(job.item)),
                     per |-> Own(job.item).coefficient_mks]
      [] job.program = "exxx_write_data" ->
           LastResult.error.value # 0 \/ Stored(job.addr, job.size) = LowBytes(job.value, job.size)
      [] job.program = "exxx_write" ->
           \/ results[2].error.value # 0
           \/ Own(job.item).type \notin Signed /\ job.value < 0
           \/ /\ Magnitude(job.value * Own(job.item).coefficient_mks
                           - 10 * DoubleCast(Own(job.item).type, OwnBytes(job.item))) <= 5
              /\ servo.synced = servo.memory
      [] OTHER -> TRUE
=============================================================================
