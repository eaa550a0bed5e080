# hsrb_drivers: TLA+ models, checks and proofs

These modules model the device drivers of the HSR-B robot (`src/`): what is
modelled, what TLC checks on small instances and what TLAPS proves for every
value of the constants. `PROJECT.json` holds the same facts in a form tools can
read: components, runs, the mutants each property catches, the lines of source
behind each definition, findings, hazards and theorems.

## 1. The system

Four packages drive devices on serial lines (`hsrb_power_ecu`,
`hsrb_servomotor_protocol`, `hsrb_imu_sensor_protocol`, `hsrb_digital_io`) and one
drives pins through a kernel driver (`hsrb_cgos_driver`). They do not talk to each
other; each is a process (or a plugin) of its own.

| Component | State it keeps | Operations | Hard behaviours | What makes it correct |
|---|---|---|---|---|
| **Power ECU protocol** (`hsrb_power_ecu/src/power_ecu_protocol.*`, `error_counter.hpp`) | command queue (a circular buffer of 1000), whether an ack is awaited and since when, ack and version flags set by the decoder, time of the last heartbeat, two error windows | `Init`, `Start`, `Stop`, `AddCommandQueue`, `SendAll`, `ReceiveAll`, `ProcessCommandQueue`, `GetPowerEcuVersions` | acks that name no command, heartbeats sent while an ack is awaited, overflow that overwrites the command in flight, ack timeout against a late ack, failed reads and writes | no command lost from the books or sent while another is awaited, one outstanding, every command completes, exact error rates |
| **Power ECU node** (`main_loop.cpp`, `led_command_subscriber.cpp`) | where `main` is, the LED colour, `rclcpp::ok()` | start-up, the 100 Hz loop, the LED callback, shutdown | an ECU that is silent, refuses or is of another version, timers of different lengths, SIGINT at any point | start-up and shutdown end, set-up commands are answered before the main loop, the newest colour wins |
| **Power ECU frame decoder** (`power_ecu_com_frame_decoder.*`, element and data decoders) | the values of the last report, and those of a report that failed halfway | `Decode`, `Update` | resynchronisation, frames split between reads, corrupt sizes, an element that fails in the middle | an intact frame behind noise is found, once and in order; a report becomes the parameters it stands for |
| **Power ECU frame encoder and parameter map** (`power_ecu_com_frame_encoder.*`, data and element encoders, `any_type_pointer_map.hpp`) | the parameters of each command | `Encode`, `GetParamPtr` | an element that does not fit, names and types spelled out in many places | the ECU can read back what was asked for; every name looked up is registered |
| **Power ECU serial network** (`serial_network.cpp`) | descriptor, timeout, buffers | `Open`, `Configure`, `Send`, `Receive`, `Close` | partial writes, interrupted sleeps, a full buffer | a `Send` that succeeds has written the whole frame |
| **Power ECU publishers, diagnostics, info command** | time of the next message | `Publish`, `run`, `main` | a publisher that was held up, a position in a bit string | the rate of a topic, the diagnostics printed are those reported |
| **Servo bus exchange** (`hsrb_servomotor_protocol`: `exxx_network`, `exxx_packet_parser`, `exxx_protocol`) | parser buffer, the port's input | `Ping`, `Reset`, `ReadBlock`, `WriteBlock`, `SyncParam`, ... | late answers to earlier requests, noise, timeouts, another servo's answer | an accepted answer was sent by the servo; a success is the servo's doing |
| **Servo reprogramming** (`exxx_reprograming.cpp`, `flush.cpp`) | block position and number, retry counter | `WaitBoot`, `Erase`, `Flush`/`FlushXmodem`, `Run` | NAK and ACK crossing, duplicated ACKs, silence, wrapping block numbers | "Success" only after the whole image was acknowledged; the transfer ends |
| **Servo control table and tools** (`control_table*.cpp`, `load_control_table.cpp`, `read_*.cpp`, `write_*.cpp`) | the table | `Load`, lookups, conversions; command lines | a table of another firmware, duplicate names, values at the limit of a type | what a tool prints or writes is the servo's item |
| **IMU driver** (`hsrb_imu_sensor_protocol`) | parser buffer, newest time stamp and packet number, state of a reset, cycle times | `Configure`, `Read`, `Publish`, `Write`, reset service | reads that cut packets, time stamps that go back, a reset under way while samples come | the newest sample is published; a reset ends |
| **CGOS GPIO** (`hsrb_cgos_driver`) | descriptor, board handle, pins | life-cycle callbacks, `read`, `write` | repeated configure/cleanup, a missing driver, a failed call halfway | I/O only with an open handle |
| **Digital I/O** (`hsrb_digital_io`) | commands and inputs behind a lock | setters, getters, the periodic exchange, the Arduino loop | a lost byte, a short read, an exception in the timer | host and board are at the same message |

Inside the power ECU package everything runs on **one thread**: `main` calls the
protocol, and callbacks run inside `spin_some`, between two calls. What runs
beside it is the ECU, the serial line, the clock and the signal handler that
turns `rclcpp::ok()` false. The decoder writes parameters (`ack_value_` and
`is_receive_ack_` among them) through pointers the protocol, the publishers and
the LED subscriber share; the encoder reads them when a frame is sent, not when
the command is queued.

## 2. Modules

| Module | Models | Constants |
|---|---|---|
| `ErrorCounter` | `error_counter.hpp`: the window of results and the number of failures kept beside it | |
| `PowerEcuProtocol` | class `PowerEcuProtocol` under any order of calls, the line and the ECU | names, sizes, timeouts, bounds |
| `CommandDelivery` | abstract: what the queue promises its callers | capacity |
| `PowerEcuMainLoop` | `main()`: `PowerEcuProtocol` in the order the node calls it, the LED subscriber, SIGINT | colours, the 5 s timer |
| `ExxxReprograming` | `exxx_flush`: `WaitBoot`, `Erase`, `Flush` with its XMODEM transfer, `Run`, against the boot loader of a servo amplifier | image sizes, block size, retry counts, bounds |
| `PowerEcuElements` | element encoders and decoders: text of a number, flags, strings, widths | |
| `PowerEcuCommands` | the twenty data encoders and the parameters each registers | |
| `PowerEcuReports` | the four data decoders, their parameters and `Update` | |
| `PowerEcuFrames` | header, footer, `Encode` and `Decode` of a frame | |
| `PowerEcuCodec` | the four above in the driver: `Init`, `Start`, the lookups of `main`, a command sent, a report received, publishers, battery diagnostics, info command | versions, periods |
| `PowerEcuLink` | serial port and decode loop, character by character, on a faulty line | bounds, buffer size, sizes of reads |
| `ExxxPackets` | requests, the status-packet parser, the messages of the error categories | |
| `ExxxControlTable` | loading and choosing control tables, conversions | |
| `ExxxServo` | `ExxxNetwork`, `ExxxProtocol` and the six tools with a servo and a faulty bus | bounds, programs, statuses, sizes of reads |
| `Mpu9150` | the IMU node, its protocol, network and parser, with the sensor and a faulty line | timeouts, buffer sizes, bounds |
| `DigitalIo` | `SerialConnection` and the Arduino sketch with the bytes between them | the sketch's constants, bounds |
| `HsrbCgos` | the ros2_control component and the CGOS library | pins, handles, bounds |
| `IoBoards` | `DigitalIo` and `HsrbCgos` side by side for one run; the boards are independent, so a behaviour is of one of them | |
| `DataInduction` | no code: the lemmas on induction, recursion and folds that the proofs share | |
| `*_proofs` | the theorems about the module of that name; `PowerEcuMainLoop_proofs` holds those about `PowerEcuProtocol` and `ErrorCounter` too, `IoBoards_proofs` those about `HsrbCgos` and `DigitalIo`, `ExxxServo_proofs` those about `ExxxPackets` and `ExxxControlTable` | |

**State.** A variable with the name of a member is that member
(`command_queue_`, `is_waiting_ack_`, the error counters). Two pairs of members
are one variable each: `ack_` is `ack_value_` once `is_receive_ack_` is up and
`NoReply` while it is down (the value is read only when the flag is up);
`version_` likewise. Times are ages: `since_send` is
`now - last_send_command_time_` and `since_heartbeat` is
`now - last_heartbeat_time_`. A command is the number of the `AddCommandQueue`
call that accepted it: the code queues the same pointer twice when a name is
queued twice, the model tells the two apart. `added`, `fate`, `sent`,
`executed`, `alone` and `shown` are history: no action reads them in a guard
except for the bound `MaxCommands`.

**Actions.** One call is one step, because nothing else runs on the thread.
`SendAll(result)` is the command, the heartbeat, neither, or a failed `Send`.
`ReceiveAll(result)` is a failed `Receive`, which returns early, or a batch of
replies (any number of those on the line, including none) followed by the ack
handling in the order of the code: an ack first, then the timeout. A batch may
hold frames that do not decode (`garbled`). Where the error code of an early
return matters to the caller (the counters, the loops of `PowerEcuMainLoop`) it
is a parameter of the action. `PowerEcuMainLoop` walks a program point through
`GetPowerEcuVersions`, `Start`, `ProcessCommandQueue`, the main loop and `Stop`.

**Environment.** The ECU is external: it reads its frames in order and answers
whenever it likes, a command or a heartbeat with `rxack`, the version query with
`ver__`. A frame is lost in either direction at any time; nothing is
duplicated or reordered, as on a wire. Commands may be refused; heartbeats are
not.

**Reprogramming.** `ExxxReprograming` is the main thread of `exxx_flush`: `stage`
is the call that runs, `point` the place in it, and one step is one turn of its
loop (a byte or line received and what is sent in answer). Text is data: a
message the host looks for is a token, everything else is `"other"`;
`ReceiveLine` takes tokens up to a delimiter or up to what there is when the time
is over. The boot loader is external, described by the comments of the class
(`exxx_reprograming.cpp:227-250`, `351-365`, `423-440`, `481-489`, `588-592`) and
by XMODEM/SUM: it writes the block it expects, acknowledges a repetition, refuses
a garbled one, may cancel, asks with NAK after a long silence. It loses frames,
and the line loses and garbles what it says.

The one assumption is that its NAK period is longer than the host's reaction
(10 ms), so that a NAK does not cross a block. It matters: the host does not
discard input before it sends, so a NAK that crosses the first block has that
block sent twice, the second of its two ACKs is taken for that of the next block,
and if the last block is then garbled `EOT` is sent and "success" reported with a
block missing. With the guard of `PropAsks` removed TLC finds this.

**Frames and parameters.** `PowerEcuElements`, `PowerEcuCommands`,
`PowerEcuReports` and `PowerEcuFrames` have no variables: they are the encoders
and decoders as operators on sequences of characters. A packet's name and a
checksum are not spelled out: the *i*-th character of name *n* is `<<n, i>>`, and
a checksum holds the characters it was made from, so that two spans have the same
one only when they are equal (a CRC collision is left out). A sign, a digit, a
comma and the places where the decoder compares, or does not, are as in the code.
Physical units are left as integers. In `PowerEcuCodec` a behaviour has one
packet in focus, whose data take the values at the ends of their types and
either side of them; for a report one field at a time leaves its idle value.

**The link.** `PowerEcuLink` joins the port and the decode loop: `ReceiveAll` reads
some of the line, decodes all complete frames of the buffer and keeps the rest.
Reads return any of `ReadSizes`, all there is, or what fits. The line replaces a
character by one that means something to the decoder (`E`, a digit) or nothing,
or drops it. `Send` is one step per `write`, so that it may stop after any part.

**Servo bus.** `ExxxServo` has one thread, the program: `Open`, then calls; each call
is `Begin`, the writes, the reads, and `Return` with what the call makes of the
answer. The servo is external: it has three bytes of memory, an EEPROM copy and
a control table hash, takes a request whose checksum is right and answers with any status.
The line loses a request or an answer, changes or drops one byte of an answer, or
carries another servo's answer; there is no resynchronisation but the parser's.

**IMU.** `Mpu9150` is the node's thread with `Read`, `Publish`, `Write`, the check of the
cycle times and `spin_some` as its steps. Samples have one byte for the values
and one for the time stamp where the sensor has 40 and 4; header, length and
checksum are as in the code. A reset of the sensor may set its clock back.
Values that were never written are `Unset`.

**I/O boards.** In `DigitalIo` the timer thread alternates a write of seven bytes and
a read of six; the setters wait for its lock. One step of the sketch is one turn
of `loop()` (1 ms). `HsrbCgos` is the life cycle of the component; what the
controller manager may call in which state, and that an error ends the component,
is ros2_control's and external. Every call of the CGOS driver may fail, the closing of the board too.

## 3. What is checked

| Run | Asks | Result |
|---|---|---|
| `protocol` | any order of calls, a queue of two and three commands, so that it overflows with and without a command in flight | holds: `TypeOK`, `QueueIsNewest`, `NoAckDiscarded`, `OneOutstanding`, `SentInOrder`, `LoneAckIsOwn`, and the refinement `ImplementsDelivery` |
| `main_loop` | the node: version query, set-up, main loop with two LED commands, shutdown at any point, under fairness | holds: `MainTypeOK`, `CountersExact`, `SetupAnswered`, `LedConverges`, and `StartupEnds`, `ShutdownEnds`, `CommandsComplete`, `HeartbeatsGoOn` |
| `ack_is_own` | is a command completed as acknowledged one the ECU executed? | **violated**: finding 1 |
| `stop_is_sent` | has a node that ended well sent `stop_`? | **violated**: finding 2 |
| `reprograming` | the whole update: images of no, two and four blocks (whose numbers wrap), every loss, retry and I/O error | holds: `TypeOK`, `FlashedIsImage`, `OnlyWholeImageRuns`, `SuccessMeansRunning`, `FlushEnds` |
| `codec` | every command and every report, for both communication versions, from parameters to characters and back | holds: `TypeOK`, `LookupsSucceed`, `CommandReadBack`, `ReportIsRead`, `PublishRate`, `InfoPrintsReported` |
| `link` | reads and writes in pieces, characters damaged and lost, frames the decoder does not know | holds: `TypeOK`, `AcceptedInOrder`, `IntactIsAccepted`, `SentIsWhole` |
| `servo` | up to two calls in a row, or one of the tools, with answers that are late, damaged, lost or another servo's | holds: `TypeOK`, `AcceptedWasSent`, `SuccessIsOwn`, `ToolTellsTruth` |
| `imu` | samples and resets interleaved on a line that damages or loses one packet, a service call, the start-up with its retries | holds: `TypeOK`, `PublishedIsNewest`, `ResetIsAnswered`, and under fairness `ResetEnds` |
| `io` | the exchange with changing commands and inputs, and a lost byte; life-cycle calls in any order with every failure, that of closing the board included | holds: `InStep`, `HandleIsValid` |
| `empty_image` | does `FlushXmodem` return what it documents? | **violated**: finding 3 |
| `mixed_read` | does a read of more than samples leave the published state as it was? | **violated**: finding 4 |

**Findings.**

1. *An ack is anybody's.* The class comment asks for "confirmation of ACK from
   power ECU for each transmission" (`power_ecu_protocol.hpp:54`). `rxack`
   names no command, and heartbeats, which are sent while an ack is awaited, are
   answered with `rxack` too. The run loses a command on the line and has the
   heartbeat's ack complete it. What does hold is `LoneAckIsOwn`: an ack is
   the command's own when the command was sent on an idle line and nothing was
   sent after it.
2. *`stop_` is never sent.* `Stop` processes its queue while `rclcpp::ok()`, and
   `main` calls it only when that is already false. The test of the loop calls
   `Stop` while `rclcpp::ok()` still holds and does not meet this.
3. *An empty image divides by zero.* `flush.cpp` accepts an empty `.bin` file,
   and the progress display of `FlushXmodem` divides by its length at the first
   ACK: the program dies with the old firmware erased.
4. *A late answer becomes a sample.* `ToSensorState` is to "exit without doing anything"
   when a read holds anything but samples (`mpu9150_network.cpp:249`). It writes
   nothing, but `ReadState` has given it an uninitialised local, copies that to its caller and
   reports success (`mpu9150_protocol.cpp:73`). In the run a reset times out and its answer is
   read alone afterwards: the node publishes uninitialised memory instead of
   the last sample.

Other things met on the way that a maintainer may want to know, without a run of
their own.

*Power ECU.* The class comment asks for "retry processing" when no ack comes within 10 s
(`power_ecu_protocol.hpp:55`), and `CommandState` has a retry count that `AddCommandQueue`
clears; nothing raises it, and no command is ever retried. `SentInOrder` does not rest
on that: a code that sent the front command again after its timeout would satisfy it too; what
it excludes is a second transmission while the ack is still awaited and one behind a later
command. The battery current is documented from -65536 to 65534 mA
(`power_ecu_com_data_decoder.cpp:305`) and kept in an `int16_t`
(`power_ecu_com_data_decoder.hpp:112`), so that the topic shows 32.767 A at most;
`ReportIsRead` says nothing of a current beyond that. An ack timeout drops the command where `ReceiveAll` is said to "exit"
(`:295`). `ReceiveAll` returns `network_down` (`power_ecu_protocol.cpp:404`) before it
looks at the ack timeout (`:450`), and the main loop ignores the result: on a port
whose every read fails the command in flight blocks the queue for ever, contrary to
the comment at `:427`. The version query gives up at the first failed send in spite
of `kRetryCount` (`:317`). `Start` succeeds although set-up commands were refused;
after a refused or lost `ledc_` the subscriber ignores the repeated colour. A
negative size on the line blocks the receive buffer for good. What the data encoder
returns is not looked at (`power_ecu_com_frame_encoder.cpp:77`), so a `pump_` or
`pbmsw` parameter of two digits leaves as a frame without that element. `undck` has a
parameter and does not send it; `undck`, `12vu_` and the three `5vd` packets and
`packet_raw_data_` start uninitialised. A signed field of ten digits overflows
`int32_t` before it is clamped (`power_ecu_com_element_decoder.hpp:202`). `rprod` with more
than 988 bytes writes a size of four digits. Comments speak of 32 digits of
`diag_status` where 64 are decoded (`power_ecu_com_data_decoder.hpp:58`). The footer's
"h" and the frame's last two characters are not compared. A `receive_timeout_ms` above
4294 leaves the range of `uint32_t` (`serial_network.cpp:186`); a failed `Open` leaves
`fd_` set; the loop that means to sleep on after `EINTR` looks at `errno`, which
`clock_nanosleep` does not set, and gives up instead (`:222`). A publisher that was held up sends its
messages in a burst. The info command prints nothing when no `ecu1_` arrived, and an
unknown diagnostic bit aborts it before it stops or closes anything.

*Servo.* Nothing empties the port between calls, so a late answer shifts every later
one by one; it heals only because `Receive` drops the rest of a read. An answer that lost
a byte equal to the first header byte can pass when the next packet follows at once
(`AcceptedWasSent` excepts it). `Reset` counts a servo status of 110 as success, because
`timed_out` has that value, and a late answer makes it fail. A negative value for an unsigned
item passes the range check of `ByteCast` and its conversion is undefined.
`exxx_read_data` prints 0 when it could not read; `exxx_write` prints "success" although
the servo answered with a warning; `exxx_eeprom` succeeds without an answer; a home
table with another hash ends the search.

*Reprogramming.* The XMODEM comment speaks of 10 attempts where the constant is 100
(`exxx_reprograming.cpp:563`, `:50`).

*IMU.* When no time stamp is later than all before (the sensor's clock was
reset or wrapped), the packet number of an earlier read is used, perhaps beyond the
end of this one (`PublishedIsNewest` is about stamps that rise). A sample can be published again under a new stamp when reads fail.
`cycle_count` is a `uint8_t` and never reaches the check when the cycle is shorter than
0.4 ms. The calibrate service answers before the reset, a request during a reset is merged
with it, and the late answer of one reset may stand for the next.

*I/O.* Neither direction of the digital I/O board has a frame: after one lost byte each
later command reaches the neighbouring output, and after a short read, whose bytes are dropped,
each later answer is a mixture. An exception in the exchange ends it for ever while
the last inputs go on being published, and the board's 4 s time-out turns only the LED
white. A bumper held for 65.5 s wraps its counter and reads as released for ten turns.
In `hsrb_cgos_driver` a failed version request leaves the descriptor open until cleanup, an
error after `BoardOpen` leaves the board open, and the handle survives `on_cleanup`.
`on_cleanup` does not look at what `BoardClose` returns (`hsrb_cgos_hw.cpp:178`): a board
the driver refused to close stays open without an owner, and the component is unconfigured all the same.
`HandleIsValid` allows that board, and no other.

**Bounds, and why they are enough.**

* `QueueSize` 2 or 3 for 1000: overflow needs one command in flight, one behind
  it and one more; the node queues three commands before it sends.
* `MaxCommands` 3 (any order) to 6 (the node): three set-up commands, LED
  commands and `stop_`. One number is kept for `stop_`.
* `CommandTimeout` 2 to 5 units with steps of one unit: the heartbeat period is
  half of it and `ProcessTimeout` is shorter by one step, as 5 s is shorter than
  10 s. `since_send` is capped one above the timeout, where no comparison can
  tell more; heartbeat debt is forgotten beyond `MaxDebt`, one above the timeout,
  so that two heartbeats in a row do happen.
* `ErrorWindow` 1 for 1000, so that in start-up and set-up the first failure exceeds the limit
  (it never ends the main loop); 2 in `stop_is_sent`, where one failure in two calls does not.
  That set-up goes on after failures, and that a failure leaves a larger window while another enters it, is
  the matter of the theorems: `CountersExact`, `SetupAnswered` and `LedConverges` are proved for every window.
* `EcuLine` 1, `PcLine` 1 or 2 frames in flight: two replies make a late ack, a
  batch of two and the ack of a heartbeat beside that of a command possible.
* `ExxxReprograming`: blocks of 2 bytes for 128, so that 3 bytes are a full block
  and a part of one; block numbers modulo 3 for 256, the least with which the
  expected number, its predecessor and its successor differ, so four blocks wrap;
  3 command and 4 transfer attempts for 10 and 100, enough to lose a block and its
  ACK in a row; loops with a timer end at any turn, and surely after `Polls`.
* `codec`: parameters at 0, the greatest value and values in between that show each
  digit, flag by flag; two clock periods and a horizon of four ticks, so that a
  publisher that was held up owes two messages.
* `link`: four frames, at most one of which is damaged; reads of 5 or 9 characters, which cut
  header, size, body and footer of a frame in two, of all there is, or of what the buffer takes; a
  buffer of 85 characters for about three frames, so that it fills up before it is decoded;
  how far a damaged header can make the decoder skip (`Reach`) depends on whether the damage gave its
  size a hundreds digit. With this buffer the decoder then waits for more than fits and takes nothing
  more; with a larger one it would take up to 400 characters for one frame and drop them.
* `servo`: three bytes of memory, two tables of two items with the items swapped, two calls and one
  fault: a late answer needs one call that gives up and one after it.
* `imu`: three samples, one fault, one service request: two samples in one read, one in the next, and a
  reset between. The stamps do not wrap; a reset sets them back to 0. The error window is two
  cycles for 200, which are enough for a cycle to leave it.
* `io`: two messages with a command and an input change between, one loss, five turns of the
  sketch's loop; the bumper, cease and blink counts are 2 for 10, 4000 and 1000, so that each is
  reached in five turns, and the counters keep their 16 bits.
* The proofs below need none of these bounds.

**Fairness, power ECU.** `Main` is weakly fair: the thread is not suspended for ever, and
every call returns (the port's reads and writes have timeouts). `EcuStep` is
weakly fair: bytes on the line arrive or are lost. The main loop has strong
fairness on a `Receive` and a `Send` that succeed: the port is not dead for
ever (the ECU streams status frames at 100 Hz once `start` was executed). No
fairness is assumed of answers, LED messages or SIGINT, nor of the port before
the main loop: `StartupEnds` and `ShutdownEnds` hold with a dead ECU and a dead
port, by the timers alone. Without the
fairness of the port `CommandsComplete` fails (see above).

The clock advances only in `Sleep`, and after the bound `MaxCommands` no
further command is accepted; `HeartbeatsGoOn` therefore says nothing of LED
messages that never stop, which can indeed delay heartbeats (a hazard in
`PROJECT.json`).

**Fairness, reprogramming.** The host and the boot loader's reading are weakly
fair. A wait for silence that is tried again and again meets a silence (strong
fairness of `DiscardEnds` and `BootSilence`): the loops that discard input, and the
inner loop of `WaitBoot`, look at no timer while bytes come, and a line that
chatters for ever does hold them (TLC finds it without this assumption, although
`WaitBoot` takes a `boot_timeout`).

**Fairness, IMU.** `Node` and `Tick` are weakly fair: every call of the node
returns and the clock goes on. No fairness is assumed of the sensor or the line:
`ResetEnds` holds with a sensor that never answers, by the time-out of `TryReset` alone.
The other new runs check safety only.

## 4. What is proved

For all values of the constants that satisfy the named assumptions. For the power
ECU protocol: sizes and timeouts are positive, `MaxDebt` exceeds the timeout,
`ProcessTimeout` plus one sleep does not exceed `CommandTimeout`, the queue has
room for the set-up. For the firmware update: images have any lengths, a block
has at least one byte, block numbers are counted modulo at least three, every
command is tried at least once. For the IMU: a sample number is one byte and the
window of judged cycles is one a `uint8_t` can index.

**Power ECU protocol and node.**

* `PowerEcuMainLoop_proofs`, of the protocol under any order of calls: `TypeOK`, `CountersExact`, `QueueIsNewest`,
  `NoAckDiscarded`, `OneOutstanding`, `SentInOrder`, `LoneAckIsOwn`, and that
  `Spec` implements `CommandDelivery!Spec`. The inductive invariant `Inv` is the
  conjunction of the parts of `TypeOK` with `CountersInv`, `QueueIsNewest`,
  `NoAckDiscarded` and `OneOutstanding`: no one of these is inductive alone (to
  pop the front one must know that it is there while an ack is awaited; to send
  a command for the first time, that none in the queue but an awaited one was
  sent). `LoneAckIsOwn` needs `LineInv` besides: every frame on the line belongs
  to a command that was sent (`SentFirst`), and while a command is alone all that
  the line holds is that command or the answer to it (`Lone`). That registering a
  result keeps `error_count` the cardinality of the failures in a window of any
  size is shown first: the window shifts, so the proof goes by a bijection
  between the failures before and after, up to the two ends.
* The same module, of the node: `MainSpec` implies `Spec` (every step of the node is
  a call the protocol allows), hence all of the above of the node; `MainTypeOK`,
  `CountersExact`, `SetupAnswered` and `LedConverges`. `MainInv` adds to `Inv`
  where the thread is and what it has queued by then (`Progress`, `SetupFirst`),
  that the running timer is at least as old as the ack timer (`Timers`: this is why
  no set-up command times out), the fates of the set-up commands (`SetupFates`)
  and that the newest LED command, once sent, shows the present colour
  (`NewestColor`).

**Power ECU link and codec.**

* `PowerEcuLink_proofs`, the sending half: `SentIsWhole`, for commands of any length and
  whatever pieces `write` takes. `SendInv`: between two calls the wire ends with as much of
  the last command as its outcome tells, and within a call with what was written
  so far (`Ends`); nothing before it on the wire is of this command.
* The receiving half: `AcceptedInOrder` and `TypeOK`, for reads of any sizes, any number of
  damaged frames and a buffer of any capacity; the frames are at most nine, so that
  a frame's number is one digit. `ReceiveInv` speaks of the characters that are in the
  buffer or still on the line. A checksum holds what it was made from, so its first
  character is a mark that names its frame; the marks in the stream increase, and all
  belong to frames after the last one taken (`Stream`). Damage to one character can
  take a mark away and never makes one (`Once`, `TextIsOnce`); a frame is taken only
  when the decoder passes over its mark (`FrameDecoded`, `SpanFound`); so no frame is
  taken twice or late, wherever the decoder resynchronises. That the loop ends in a
  state as sound as each step leaves (`Sound`) is induction over the fold that
  models it.
* `PowerEcuCodec_proofs`: `PublishRate`, for every period. A publisher's next
  time is its count of messages times the period (`PublishInv`), which is what makes
  the catching up after a delay stop at the clock. `TypeOK` likewise, by `DriverTyped`: what
  `Start` writes through its pointers suits the packet it is written to.

**Firmware update.** `ExxxReprograming_proofs`: `TypeOK`, `FlashedIsImage`,
`OnlyWholeImageRuns` and `SuccessMeansRunning`, for images of any length, any number
of blocks whose one-byte number wraps, and every number of attempts. Safety of
XMODEM with wrapping numbers rests on what is in flight, so `Inv` is `TypeOK` with
`CountsOK` (the counters of attempts and polls stay below their limits) and `Phase`, which
walks through the update: before `FlushXmodem` nothing of the transfer is on the line
(`BeforeFlush`); while the boot loader asks, it has nothing (`Asking`); during the
transfer at most one of a block, its ACK and a NAK is under way (`OneUnderWay`) and the prop
is at the host's block or one ahead (`Transferring`), which is why three block numbers are
enough; after it the prop has all of the image (`Transferred`).

**Servo bus.** `ExxxServo_proofs`: `SuccessIsOwn`, for any number of calls and of earlier
faults, reads of any sizes, every two-byte status and every program; that every variable has
its type (`Typed`); that Receive accepts only whole packets (`AcceptedIsWhole`), for any number
of faults; and `ToolTellsTruth`. What the tools are asked for (`Jobs`) is fixed in the model, as
are the two control tables: the items of each width, at the limits of their values. It goes in five steps.

* Packets: what `StatusPacket` and `Request` build is whole, what each field of it reads as, and by how
  much the checksum changes with one byte (`SumChanged`, by induction over the fold).
* The parser: fed a stream byte by byte it accepts only a window of the stream that is a
  whole packet (`Parses`, `Live`, `Begun`), and it does accept a whole packet that comes next. What matters
  of the port is therefore `Rest`: the bytes that the parser holds, followed by those that wait. A read,
  of whatever size, takes a prefix of it.
* The line: an answer with one byte changed or dropped has no window that is whole; an answer
  behind a stray header byte or behind another servo's packet has no other than itself
  (`NoWindow`, `Harmless`). Requests are no longer than eleven bytes when they are answered, so that this
  is a case distinction over where the damage is.
* The exchange: while a call runs that began on an idle bus, `Exchange` says that its request is out and at most
  noise is on the line (`OwnAsked`), or nothing there can become an answer (`OwnLost`), or an
  answer comes that tells the truth about the servo (`OwnComing`). A servo keeps what an answer
  said until the next request, and there is none.
* The tools: which call a tool makes after how many (`ToolCalls`). What an answer said must
  still be so when the tool ends (`Held`): the first answer of `exxx_read` and `exxx_write` held the
  servo's hash, so the item is looked up in the servo's own table (`HashHeld`), and the bytes that were
  written are still there when the tool synchronises (`WriteHeld`). The second call of a tool finds no more
  than noise (`Fresh`). The second call of `exxx_hash` is the exception (`HashLine`): it may begin
  behind a stray header byte that the first left. Such a byte (`Headed`) is the
  start of a packet only if what follows lacks its own first byte, and then the two
  are the answer (`Stray`). What the two tables' conversions lose is at most half a
  unit (`WrittenIsNear`).

`SuccessIsOwn` speaks of at most one fault while the call runs. With two it is false: a byte
of the value of the header's first that is lost from an answer, and a stray one behind it, make another whole
packet. How many faults there were before the call does not matter. For the same reason
`ToolTellsTruth` speaks of at most one fault while the tool runs.

**IMU.** `Mpu9150_proofs`: `TypeOK`; that a cycle check stops the node only when too many
of the judged cycles were late (`StoppedWhenLate`); and `ResetIsAnswered`.

* `TypeOK` with the window of cycles (`CyclesOK`): `cycle_over_count` is the number of
  late cycles in the ring buffer, so the `uint8_t` never wraps.
* `ResetIsAnswered` (`ResetInv`) counts: the resets taken as answered, together with the answers on the
  line, are no more than those the sensor executed. What has to be shown for it is that only the sensor makes an answer: no
  sample, no damaged or shortened packet, and no piece of one that a read cut off
  reads as the four bytes of an answer (`SampleIsNoReply`, `RepliesAdded`,
  `WithoutOne`), and that the parser takes at most one from the line for each
  answer it reports (`RepliesConsumed`).

**I/O boards.** `IoBoards_proofs`: `HandleIsValid` for any number of faults and calls
(`CgosInv`: the handle, the descriptor and the pins belong to the state of the life cycle, and while
nothing is configured every open board is one the driver refused to close, which the history variable `refused` records)
and `InStep` for any number of messages (`IoInv`: while nothing was lost, a command, its
answer or neither is on the wire, never two, and what is on it is a whole message).

**`DataInduction`.** The library's induction theorems take an operator as a parameter, which
the provers cannot instantiate. Here a predicate is the set of the numbers that satisfy it
(`Induction`) and the step of a fold is a function (`FoldExists`, `FoldKeeps`), so that
what a loop of the code keeps can be proved of the fold that models it.

**Left to TLC alone, and why.**

* Liveness (`StartupEnds`, `ShutdownEnds`, `CommandsComplete`, `HeartbeatsGoOn`,
  `FlushEnds`, `ResetEnds`): fairness and `ENABLED` are beyond the prover. The
  counterexamples, of course.
* `PowerEcuLink`: `IntactIsAccepted` says that the decoder finds its way back. Its proof needs
  where in the stream each frame begins and where a false header can lie, and is planned.
* `PowerEcuCodec`: the other properties say what fixed tables (the parameters of
  twenty-four packets) make of chosen values. They are evaluated, not argued.
* `ExxxServo`: `AcceptedWasSent` is false for arbitrarily many calls: `Receive` drops what is behind an
  answer in one read, so that after enough late answers the parser may begin
  in the middle of one whose data happen to read as a header. Within the bounds none does.
  `TypeOK` adds to `Typed` the messages of the warnings, which are a fixed table.
* `Mpu9150`: `PublishedIsNewest` likewise. A damaged sample may pass its checksum by coincidence
  once its bytes take all values; within the bounds of the run none does.

## 5. What is not modelled, and the plan

Termios set-up, logging, the parsing of arguments and parameters, CRC and
checksum collisions of the power ECU's CRC-32, physical units, floating-point and wider integer items of a
control table, `SyncWriteData`, the publishing timers of `interfaces.py`, the four
`example_*.cpp` programs (they repeat the publishers with constants in place of the ECU).
`rclcpp::spin_some` after a shutdown that comes between the loop test and the call is
the library's business and left out. In `PowerEcuProtocol` a `Send` that fails after a
partial write leaves no complete frame on the line; `SentIsWhole` of `PowerEcuLink` is
what justifies it. A port that was unplugged is an I/O error in `ExxxReprograming`.

Next: `IntactIsAccepted` of `PowerEcuLink`, for any number of faults. Besides the order of the
marks it needs where in the stream each frame begins.
