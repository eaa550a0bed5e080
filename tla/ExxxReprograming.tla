-------------------------- MODULE ExxxReprograming --------------------------
(***************************************************************************)
(* hsrb_servomotor_protocol/src/.../exxx_reprograming.cpp and flush.cpp:   *)
(* exxx_flush, which rewrites the firmware of a servo amplifier: WaitBoot, *)
(* Erase, Flush with its XMODEM transfer, and Run, one after the other,    *)
(* over an RS485 line to the boot loader of the amplifier ("PROP").        *)
(*                                                                         *)
(* Text is data: a message the host looks for is one token, and every      *)
(* other text or garbage is "other". A block of the image is its number    *)
(* and the position it was cut from.                                       *)
(***************************************************************************)
EXTENDS Naturals, Sequences

CONSTANTS
  Lengths,         \* image sizes in bytes
  DataSize,        \* kXmodemDataSize
  BlockNumbers,    \* the values of the uint8_t block_number: 256
  CommandRetries,  \* kSendCommandMaxRetryCount
  XmodemRetries,   \* kFlushXmodemMaxRetryCount
  Polls,           \* bound: turns of a loop until its timer has surely run out
  PropLine,        \* bound: frames in flight to the boot loader
  HostLine         \* bound: tokens in flight to the host

ASSUME ImageAssumption == Lengths \subseteq Nat /\ DataSize \in Nat \ {0}
ASSUME BlockNumbersAssumption == BlockNumbers \in Nat /\ BlockNumbers > 2
ASSUME RetryAssumption == /\ CommandRetries \in Nat \ {0}
                          /\ XmodemRetries \in Nat \ {0}
                          /\ Polls \in Nat \ {0}
ASSUME LineAssumption == PropLine \in Nat \ {0} /\ HostLine \in Nat \ {0, 1}

VARIABLES
  stage,         \* the call of main() that is running, or "exit"
  point,         \* where in it the host is; in "exit", the exit status
  retry_count,   \* the retry_count of the running call
  polls,         \* turns of the running loop that is limited by a timer
  length,        \* flush_data.length()
  send_pos,
  block_number,
  to_prop,       \* frames written by the host, not yet read by the boot loader
  to_host,       \* tokens sent by the boot loader, not yet read by the host
  mode,          \* of the boot loader
  erased,        \* the old firmware is gone
  flashed        \* positions of the blocks written since, in order

transferVars == <<length, send_pos, block_number>>
hostVars == <<stage, point, retry_count, polls, transferVars>>
propVars == <<mode, erased, flashed>>
vars == <<hostVars, to_prop, to_host, propVars>>

Frame(code) == [code |-> code, number |-> 0, pos |-> 0]
Block(number, pos) == [code |-> "soh", number |-> number, pos |-> pos]

(* The number of blocks SendFlushBlockData cuts the image into; the first  *)
(* one is sent whatever the length.                                        *)
Blocks == IF length = 0 THEN 1 ELSE (length + DataSize - 1) \div DataSize

(* SendCommand: the command of each stage and the message that answers it. *)
CommandOf == [erase |-> "e", flush |-> "w", eot |-> "eot", run |-> "g"]
CheckMessageOf == [erase |-> "erase_check", flush |-> "flush_check",
                   eot |-> "success", run |-> "go"]

(* The tokens that end a line; "other" may be a line or a part of one. *)
Lines == {"boot", "erase_check", "completed", "flush_check", "success", "go"}
Tokens == Lines \cup {"ack", "nak", "can", "other"}

Stages == {"boot", "erase", "flush", "xmodem", "eot", "run", "exit"}
Points == {"send", "check", "discard", "confirm", "await", "nak", "first", "receive",
           "success", "failure", "crash"}
Modes == {"off", "boot", "menu", "erase?", "upload?", "upload", "run"}

(* main(): the amplifier was told to reset, or is switched off. *)
Init ==
  /\ stage = "boot" /\ point = "send"
  /\ retry_count = 0 /\ polls = 0
  /\ length \in Lengths
  /\ send_pos = 0 /\ block_number = 1
  /\ to_prop = <<>> /\ to_host = <<>>
  /\ mode = "off" /\ erased = FALSE /\ flashed = <<>>

At(s, p) == stage = s /\ point = p
Goto(s, p) == stage' = s /\ point' = p
Exit(status) == Goto("exit", status)

----------------------------------------------------------------------------
(* Sending and receiving *)

SendData(frame) == Len(to_prop) < PropLine /\ to_prop' = Append(to_prop, frame)

(* ReceiveByte: a time-out, or the next token (of a text, a byte). *)
ByteTimesOut == to_host = <<>> /\ UNCHANGED to_host
ReceiveByte(token) == to_host # <<>> /\ token = Head(to_host) /\ to_host' = Tail(to_host)

(* ReceiveLine: up to a delimiter, or all there is when the time is over. *)
ReceiveLine(line) ==
  \E n \in 1..Len(to_host) :
    /\ \A i \in 1..(n - 1) : to_host[i] \notin Lines
    /\ n = Len(to_host) \/ to_host[n] \in Lines \cup {"other"}
    /\ line = to_host[n]
    /\ to_host' = SubSeq(to_host, n + 1, Len(to_host))

(* CheckReceivedMessage. Mutant of MessageReceived: any line will do. *)
AnyLineReceived(message) == \E line \in Tokens : ReceiveLine(line)
MessageReceived(message) == ReceiveLine(message)
MessageMissed(message) ==
  \/ ByteTimesOut
  \/ \E line \in Tokens \ {message} : ReceiveLine(line)

(* One turn of a loop that gives up when its timer has run out. *)
Poll(s, p) ==
  /\ polls' = polls + 1
  /\ \/ Exit("failure")
     \/ polls' < Polls /\ Goto(s, p)

(* write, read or poll fail, or SendData cannot write all bytes in time:   *)
(* every loop breaks, and main() reports the error and ends.               *)
IoFails ==
  /\ stage # "exit"
  /\ Exit("failure")
  /\ UNCHANGED <<retry_count, polls, transferVars, to_prop, to_host, propVars>>

----------------------------------------------------------------------------
(* WaitBoot: the axis number is sent until the boot loader says its name. *)
BootSend ==
  /\ At("boot", "send")
  /\ SendData(Frame("id"))
  /\ Goto("boot", "check")
  /\ UNCHANGED <<retry_count, polls, transferVars, to_host, propVars>>

(* Lines are read until one is not there in time, whatever the timer says. *)
BootOtherLine ==
  /\ At("boot", "check")
  /\ \E line \in Tokens \ {"boot"} : ReceiveLine(line)
  /\ UNCHANGED <<hostVars, to_prop, propVars>>

BootSilence ==
  /\ At("boot", "check")
  /\ ByteTimesOut
  /\ Poll("boot", "send")
  /\ UNCHANGED <<retry_count, transferVars, to_prop, propVars>>

(* A boot loader of the wrong version for this type of file ends it. *)
BootMessage ==
  /\ At("boot", "check")
  /\ ReceiveLine("boot")
  /\ Goto("boot", "discard") \/ Exit("failure")
  /\ UNCHANGED <<retry_count, polls, transferVars, to_prop, propVars>>

(* WaitBoot and Flush read on until nothing comes any more. *)
DiscardByte ==
  /\ stage \in {"boot", "flush"} /\ point = "discard"
  /\ \E token \in Tokens : ReceiveByte(token)
  /\ UNCHANGED <<hostVars, to_prop, propVars>>

DiscardEnds ==
  /\ stage \in {"boot", "flush"} /\ point = "discard"
  /\ ByteTimesOut
  /\ IF stage = "boot" THEN Goto("erase", "send") ELSE Goto("flush", "confirm")
  /\ UNCHANGED <<retry_count, polls, transferVars, to_prop, propVars>>

----------------------------------------------------------------------------
(* SendCommand, for Erase, Flush, the end of FlushXmodem and Run. *)
SendCommand ==
  /\ stage \in DOMAIN CommandOf /\ point = "send"
  /\ SendData(Frame(CommandOf[stage]))
  /\ Goto(stage, "check")
  /\ UNCHANGED <<retry_count, polls, transferVars, to_host, propVars>>

CommandAnswered ==
  /\ stage \in DOMAIN CommandOf /\ point = "check"
  /\ MessageReceived(CheckMessageOf[stage])
  /\ retry_count' = 0
  /\ CASE stage = "erase" -> Goto("erase", "confirm")
       [] stage = "flush" -> Goto("flush", "discard")
       [] stage = "eot"   -> Goto("run", "send")
       [] stage = "run"   -> Exit("success")
  /\ UNCHANGED <<polls, transferVars, to_prop, propVars>>

CommandRetried ==
  /\ stage \in DOMAIN CommandOf /\ point = "check"
  /\ MessageMissed(CheckMessageOf[stage])
  /\ retry_count' = retry_count + 1
  /\ IF retry_count' >= CommandRetries THEN Exit("failure") ELSE Goto(stage, "send")
  /\ UNCHANGED <<polls, transferVars, to_prop, propVars>>

(* Erase and Flush: the 'y' for the question of the boot loader. *)
Confirm ==
  /\ stage \in {"erase", "flush"} /\ point = "confirm"
  /\ SendData(Frame("y"))
  /\ IF stage = "erase" THEN Goto("erase", "await") ELSE Goto("xmodem", "nak")
  /\ polls' = 0
  /\ UNCHANGED <<retry_count, transferVars, to_host, propVars>>

(* Erase: until the boot loader reports that it is done. *)
EraseFinished ==
  /\ At("erase", "await")
  /\ MessageReceived("completed")
  /\ Goto("flush", "send")
  /\ UNCHANGED <<retry_count, polls, transferVars, to_prop, propVars>>

EraseAwaited ==
  /\ At("erase", "await")
  /\ MessageMissed("completed")
  /\ Poll("erase", "await")
  /\ UNCHANGED <<retry_count, transferVars, to_prop, propVars>>

----------------------------------------------------------------------------
(* FlushXmodem *)

(* Mutant of Retry: the attempts are not counted. *)
RetryUncounted(p) == Goto("xmodem", p) /\ UNCHANGED retry_count

Retry(p) ==
  /\ retry_count' = retry_count + 1
  /\ IF retry_count' >= XmodemRetries THEN Exit("failure") ELSE Goto("xmodem", p)

(* The first loop: until the receiver asks for the transfer with a NAK. *)
AwaitNak ==
  /\ At("xmodem", "nak")
  /\ \/ /\ ReceiveByte("nak")
        /\ Goto("xmodem", "first")
        /\ UNCHANGED retry_count
     \/ /\ ByteTimesOut \/ \E token \in Tokens \ {"nak"} : ReceiveByte(token)
        /\ Retry("nak")
  /\ UNCHANGED <<polls, transferVars, to_prop, propVars>>

SendFlushBlockData == SendData(Block(block_number, send_pos))

SendFirstBlock ==
  /\ At("xmodem", "first")
  /\ SendFlushBlockData
  /\ retry_count' = 0
  /\ Goto("xmodem", "receive")
  /\ UNCHANGED <<polls, transferVars, to_host, propVars>>

(* kXmodemACK: on to the next block, or to the end of the transfer. The    *)
(* progress display divides by the length of the image.                    *)
(* Mutant of AdvanceBlock: the number does not wrap as a uint8_t does.     *)
AdvanceUnbounded ==
  /\ send_pos' = send_pos + DataSize
  /\ block_number' = block_number + 1

AdvanceBlock ==
  /\ send_pos' = send_pos + DataSize
  /\ block_number' = (block_number + 1) % BlockNumbers

(* Mutant of NextBlock: the data are cut before the position advances. *)
StaleBlock == Block(block_number', send_pos)
NextBlock == Block(block_number', send_pos')

(* Mutant of AllAcknowledged: the last block is not waited for. *)
AllSent == send_pos' + DataSize >= length
AllAcknowledged == send_pos' >= length

ReceiveAck ==
  /\ At("xmodem", "receive")
  /\ ReceiveByte("ack")
  /\ retry_count' = 0
  /\ AdvanceBlock
  /\ \/ length = 0 /\ Exit("crash") /\ UNCHANGED to_prop
     \/ length # 0 /\ AllAcknowledged /\ Goto("eot", "send") /\ UNCHANGED to_prop
     \/ /\ ~AllAcknowledged
        /\ SendData(NextBlock)
        /\ Goto("xmodem", "receive")
  /\ UNCHANGED <<polls, length, propVars>>

(* kXmodemNAK: the block again. *)
ReceiveNak ==
  /\ At("xmodem", "receive")
  /\ ReceiveByte("nak")
  /\ Retry("receive")
  /\ IF retry_count' < XmodemRetries THEN SendFlushBlockData ELSE UNCHANGED to_prop
  /\ UNCHANGED <<polls, transferVars, propVars>>

ReceiveCan ==
  /\ At("xmodem", "receive")
  /\ ReceiveByte("can")
  /\ Exit("failure")
  /\ UNCHANGED <<retry_count, polls, transferVars, to_prop, propVars>>

(* A time-out or an unknown byte is only counted: nothing is sent again. *)
ReceiveNothing ==
  /\ At("xmodem", "receive")
  /\ ByteTimesOut \/ \E token \in Tokens \ {"ack", "nak", "can"} : ReceiveByte(token)
  /\ Retry("receive")
  /\ UNCHANGED <<polls, transferVars, to_prop, propVars>>

----------------------------------------------------------------------------
(* The boot loader and the line (external), as the comments of the class   *)
(* describe their dialogue. A frame may be lost or garbled on its way, and *)
(* so may what the boot loader says.                                       *)
Say(tokens) ==
  \/ Len(to_host) + Len(tokens) <= HostLine /\ to_host' = to_host \o tokens
  \/ Len(to_host) < HostLine /\ to_host' = Append(to_host, "other")
  \/ UNCHANGED to_host

PropBoots ==
  /\ mode = "off" /\ mode' = "boot"
  /\ UNCHANGED <<hostVars, to_prop, to_host, erased, flashed>>

Hears(m, code) == mode = m /\ to_prop # <<>> /\ Head(to_prop).code = code
Expected == (Len(flashed) + 1) % BlockNumbers
Previous == Len(flashed) % BlockNumbers

PropMenu ==
  \/ Hears("boot", "id") /\ mode' = "menu" /\ Say(<<"boot">>)
  \/ Hears("menu", "e") /\ mode' = "erase?" /\ Say(<<"erase_check", "other">>)
  \/ Hears("menu", "w") /\ mode' = "upload?" /\ Say(<<"flush_check", "other">>)
  \/ Hears("menu", "g") /\ mode' = "run" /\ Say(<<"go">>)

PropCancels ==
  /\ mode \in {"erase?", "upload?"} /\ ~Hears(mode, "y")
  /\ mode' = "menu" /\ Say(<<"other">>)

PropErases ==
  /\ Hears("erase?", "y")
  /\ mode' = "menu" /\ erased' = TRUE /\ flashed' = <<>> /\ Say(<<"other", "completed">>)

PropUploads ==
  /\ Hears("upload?", "y")
  /\ mode' = "upload" /\ flashed' = <<>> /\ Say(<<"other">>)
  /\ UNCHANGED erased

(* A block is written when it is the expected one, acknowledged again when *)
(* it is a repetition, refused when it is garbled, and the transfer is     *)
(* cancelled when its number is out of order or it cannot be written.      *)
PropWrites ==
  /\ Hears("upload", "soh") /\ Head(to_prop).number = Expected
  /\ flashed' = Append(flashed, Head(to_prop).pos) /\ Say(<<"ack">>)
  /\ UNCHANGED <<mode, erased>>

PropHearsBlock ==
  /\ Hears("upload", "soh")
  /\ \/ Head(to_prop).number = Previous /\ mode' = mode /\ Say(<<"ack">>)
     \/ mode' = mode /\ Say(<<"nak">>)
     \/ mode' = "menu" /\ Say(<<"can">>)

PropEnds == Hears("upload", "eot") /\ mode' = "menu" /\ Say(<<"success">>)

(* The frame at the head of the line: heard, or lost, garbled or ignored. *)
PropHears ==
  /\ to_prop # <<>>
  /\ to_prop' = Tail(to_prop)
  /\ \/ (PropMenu \/ PropCancels \/ PropHearsBlock \/ PropEnds) /\ UNCHANGED <<erased, flashed>>
     \/ PropErases
     \/ PropUploads
     \/ PropWrites
     \/ UNCHANGED <<propVars, to_host>>
  /\ UNCHANGED hostVars

(* The receiver asks (again) when it has heard nothing for a long time,    *)
(* while the host listens: its period is far longer than the host's 10 ms. *)
Listening == point \in {"nak", "receive", "check"}

PropAsks ==
  /\ mode = "upload" /\ Listening
  /\ to_prop = <<>> /\ to_host = <<>>
  /\ to_host' = <<"nak">>
  /\ UNCHANGED <<hostVars, to_prop, propVars>>

Noise ==
  /\ stage # "exit" /\ to_host = <<>>
  /\ to_host' = <<"other">>
  /\ UNCHANGED <<hostVars, to_prop, propVars>>

----------------------------------------------------------------------------
Host ==
  \/ BootSend \/ BootOtherLine \/ BootSilence \/ BootMessage
  \/ DiscardByte \/ DiscardEnds
  \/ SendCommand \/ CommandAnswered \/ CommandRetried
  \/ Confirm \/ EraseFinished \/ EraseAwaited
  \/ AwaitNak \/ SendFirstBlock \/ ReceiveAck \/ ReceiveNak \/ ReceiveCan \/ ReceiveNothing

Prop == PropBoots \/ PropHears \/ PropAsks

Terminated == stage = "exit" /\ UNCHANGED vars

Next == Host \/ IoFails \/ Prop \/ Noise \/ Terminated

Spec == Init /\ [][Next]_vars

(***************************************************************************)
(* Fairness: the program runs on, the line drains, and a wait for silence  *)
(* that is tried again and again meets a silence: the loops that discard   *)
(* input and WaitBoot's inner loop have no timer of their own.             *)
(***************************************************************************)
FairSpec == Spec /\ WF_vars(Host) /\ WF_vars(PropHears)
                 /\ SF_vars(DiscardEnds) /\ SF_vars(BootSilence)

----------------------------------------------------------------------------
(* Properties *)

TypeOK ==
  /\ stage \in Stages /\ point \in Points
  /\ retry_count \in 0..(CommandRetries + XmodemRetries)
  /\ polls \in 0..Polls
  /\ length \in Lengths /\ send_pos \in Nat /\ block_number \in 0..(BlockNumbers - 1)
  /\ to_prop \in Seq([code : {"id", "e", "y", "w", "soh", "eot", "g"},
                      number : 0..(BlockNumbers - 1), pos : Nat])
  /\ Len(to_prop) <= PropLine
  /\ to_host \in Seq(Tokens) /\ Len(to_host) <= HostLine
  /\ mode \in Modes /\ erased \in BOOLEAN /\ flashed \in Seq(Nat)

(***************************************************************************)
(* What the boot loader has written is the image from its beginning: no    *)
(* block is left out, written twice or cut from the wrong place, whatever  *)
(* is lost or garbled, though the only thing the two sides share is a      *)
(* block number that wraps (FlushXmodem, SendFlushBlockData).              *)
(***************************************************************************)
FlashedIsImage ==
  /\ \A i \in DOMAIN flashed : flashed[i] = (i - 1) * DataSize
  /\ flashed # <<>> => erased
  /\ Len(flashed) <= Blocks

Whole == erased /\ Len(flashed) = Blocks

(***************************************************************************)
(* The end of the transfer is announced, and the firmware started, only    *)
(* when the whole image is written: an attempt that fails leaves the       *)
(* amplifier in its boot loader, never running half an image (FlushXmodem, *)
(* Run, main).                                                             *)
(***************************************************************************)
OnlyWholeImageRuns == stage \in {"eot", "run"} \/ mode = "run" => Whole

(***************************************************************************)
(* "Success Flush" (main): the amplifier runs the whole new image.         *)
(***************************************************************************)
SuccessMeansRunning == At("exit", "success") => mode = "run" /\ Whole

(***************************************************************************)
(* The return values FlushXmodem documents are all it can end with: it     *)
(* does not divide by zero. Not so for an empty .bin file: see the run.    *)
(***************************************************************************)
FlushReturns == ~At("exit", "crash")

(***************************************************************************)
(* The program ends, with success or failure, whatever the amplifier says  *)
(* or does not say: every loop that sends or asks again is counted or      *)
(* timed (WaitBoot, Erase, FlushXmodem, SendCommand).                      *)
(***************************************************************************)
FlushEnds == <>(stage = "exit")
=============================================================================
