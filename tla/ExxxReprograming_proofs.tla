----------------------- MODULE ExxxReprograming_proofs -----------------------
(***************************************************************************)
(* Proofs about ExxxReprograming, for every length of image, size of block,*)
(* range of block numbers, number of attempts and length of line.          *)
(***************************************************************************)
EXTENDS ExxxReprograming, SequenceTheorems, TLAPS

USE DEF At, Goto, Exit

(* The commands and blocks on their way, and what the host may still read. *)
Codes == {to_prop[i].code : i \in DOMAIN to_prop}
Said == {to_host[i] : i \in DOMAIN to_host}

(* Where the counters of attempts and turns stand in each call. *)
CountsOK ==
  /\ stage # "exit" => polls < Polls
  /\ stage = "boot" \/ point \in {"discard", "confirm", "await"} => retry_count = 0
  /\ stage \in DOMAIN CommandOf => retry_count < CommandRetries
  /\ stage = "xmodem" => retry_count < XmodemRetries

(* A confirmation is the last frame its stage sends. *)
LastIsYes == \A i \in DOMAIN to_prop : to_prop[i].code = "y" => i = Len(to_prop)
AtStart == send_pos = 0 /\ block_number = 1 /\ flashed = <<>>

(* The first n blocks are written, each cut from its place. *)
Written(n) == erased /\ Len(flashed) = n /\ \A i \in 1..n : flashed[i] = (i - 1) * DataSize

(* What holds from one stage to the next, whether the program still runs    *)
(* there or has ended there: the frames it leaves behind are still heard.   *)
BeforeFlush ==
  /\ stage \in {"boot", "erase", "exit"} /\ point # "success"
  /\ AtStart
  /\ mode \in {"off", "boot", "menu", "erase?"}
  /\ Codes \subseteq {"id", "e", "y"} /\ LastIsYes
  /\ Said \cap {"ack", "nak", "go"} = {}
  /\ "y" \in Codes \/ "completed" \in Said => stage = "exit" \/ At("erase", "await")
  /\ "completed" \in Said => erased /\ mode = "menu" /\ to_prop = <<>>

Asking ==
  /\ stage \in {"flush", "exit"} \/ At("xmodem", "nak")
  /\ point # "success"
  /\ AtStart /\ erased
  /\ mode \in {"menu", "upload?", "upload"}
  /\ Codes \subseteq {"w", "y"} /\ LastIsYes
  /\ Said \cap {"ack", "go"} = {}
  /\ "y" \in Codes \/ mode = "upload" => stage \in {"xmodem", "exit"}
  /\ mode = "upload" => to_prop = <<>>
  /\ "nak" \in Said => mode = "upload" /\ to_host = <<"nak">>

(* The sender is at block k, counted from 0; the receiver has written all   *)
(* before it, and perhaps the block itself.  One block, acknowledgement or  *)
(* refusal is under way at a time.                                          *)
AtBlock(k) ==
  /\ send_pos = k * DataSize
  /\ block_number = (k + 1) % BlockNumbers
  /\ Written(k) \/ Written(k + 1)
  /\ "ack" \in Said => Written(k + 1)

OneUnderWay ==
  /\ to_prop \in {<<>>, <<Block(block_number, send_pos)>>}
  /\ \A i, j \in DOMAIN to_host : {to_host[i], to_host[j]} \subseteq {"ack", "nak"} => i = j
  /\ to_prop # <<>> \/ point = "first" => Said \cap {"ack", "nak"} = {}
  /\ point = "first" => to_prop = <<>>

Transferring ==
  /\ stage \in {"xmodem", "exit"} /\ point \notin {"success", "nak"}
  /\ mode \in {"upload", "menu"}
  /\ \E k \in 0..(Blocks - 1) : AtBlock(k)
  /\ OneUnderWay
  /\ "go" \notin Said

Transferred ==
  /\ stage \in {"eot", "run", "exit"}
  /\ Written(Blocks)
  /\ mode \in {"upload", "menu", "run"}
  /\ Codes \subseteq {"eot", "g"}
  /\ "go" \in Said \/ point = "success" => mode = "run"

Phase == BeforeFlush \/ Asking \/ Transferring \/ Transferred

Inv == TypeOK /\ CountsOK /\ Phase

----------------------------------------------------------------------------
(* Block numbers and positions *)

LEMMA DivMod ==
  ASSUME NEW b \in Nat, b > 0, NEW n \in Nat
  PROVE  n \div b \in Nat /\ n % b \in 0..(b - 1) /\ n = b * (n \div b) + (n % b)
OBVIOUS

LEMMA FartherBlock ==
  ASSUME NEW b \in Nat, b > 0, NEW p \in Nat, NEW q \in Nat, p < q
  PROVE  b * p + b <= b * q
<1>1. PICK d \in Nat : q = p + 1 + d
  <2>1. q - p - 1 \in Nat
    OBVIOUS
  <2> QED
    BY <2>1
<1>2. b * (p + 1 + d) = b * p + b + b * d
  OBVIOUS
<1>3. b * p \in Nat /\ b * d \in Nat
  OBVIOUS
<1> QED
  BY <1>1, <1>2, <1>3

LEMMA RemainderIs ==
  ASSUME NEW b \in Nat, b > 0, NEW n \in Nat, NEW q \in Nat, NEW r \in 0..(b - 1), n = b * q + r
  PROVE  n % b = r
<1> DEFINE p == n \div b
           s == n % b
<1>1. p \in Nat /\ s \in 0..(b - 1) /\ n = b * p + s
  BY DivMod
<1> HIDE DEF p, s
<1>2. b * p \in Nat /\ b * q \in Nat
  BY <1>1
<1>3. CASE p < q
  BY <1>1, <1>2, <1>3, FartherBlock
<1>4. CASE q < p
  BY <1>1, <1>2, <1>4, FartherBlock
<1>5. CASE p = q
  BY <1>1, <1>2, <1>5 DEF s
<1> QED
  BY <1>1, <1>3, <1>4, <1>5

(* A block number goes up by one, or from the last one back to 0. *)
LEMMA NextNumber ==
  ASSUME NEW b \in Nat, b > 1, NEW n \in Nat
  PROVE  /\ n % b \in 0..(b - 1)
         /\ (n + 1) % b = IF n % b = b - 1 THEN 0 ELSE (n % b) + 1
<1> DEFINE p == n \div b
           s == n % b
<1>1. p \in Nat /\ s \in 0..(b - 1) /\ n = b * p + s
  BY DivMod
<1> HIDE DEF p, s
<1>2. CASE s = b - 1
  <2>1. n + 1 = b * (p + 1) + 0
    BY <1>1, <1>2
  <2>2. (n + 1) % b = 0
    BY <1>1, <2>1, RemainderIs
  <2> QED
    BY <1>1, <1>2, <2>2 DEF s
<1>3. CASE s # b - 1
  <2>1. n + 1 = b * p + (s + 1) /\ s + 1 \in 0..(b - 1)
    BY <1>1, <1>3
  <2>2. (n + 1) % b = s + 1
    BY <1>1, <2>1, RemainderIs
  <2> QED
    BY <1>1, <1>3, <2>2 DEF s
<1> QED
  BY <1>2, <1>3

(* What the receiver tells apart: the number of block k is neither that of  *)
(* the block before it nor that of the one after it.                        *)
LEMMA NumbersDiffer ==
  ASSUME NEW k \in Nat
  PROVE  /\ (k + 1) % BlockNumbers \in 0..(BlockNumbers - 1)
         /\ (k + 1) % BlockNumbers # k % BlockNumbers
         /\ (k + 2) % BlockNumbers # (k + 1) % BlockNumbers
         /\ (k + 2) % BlockNumbers = (((k + 1) % BlockNumbers) + 1) % BlockNumbers
<1> DEFINE B == BlockNumbers
           r == k % B
           s == (k + 1) % B
           t == (k + 2) % B
<1>0. B \in Nat /\ B > 1
  BY BlockNumbersAssumption
<1>1. r \in 0..(B - 1) /\ s = IF r = B - 1 THEN 0 ELSE r + 1
  BY <1>0, NextNumber
<1>2. s \in 0..(B - 1) /\ t = IF s = B - 1 THEN 0 ELSE s + 1
  <2>1. k + 1 \in Nat /\ (k + 1) + 1 = k + 2
    OBVIOUS
  <2> QED
    BY <1>0, <2>1, NextNumber
<1> HIDE DEF r, s, t
<1>3. (s + 1) % B = t
  <2>1. CASE s = B - 1
    <3>1. B = B * 1 + 0 /\ s + 1 = B
      BY <1>0, <2>1
    <3> QED
      BY <1>0, <1>2, <2>1, <3>1, RemainderIs
  <2>2. CASE s # B - 1
    <3>1. s + 1 = B * 0 + (s + 1) /\ s + 1 \in 0..(B - 1)
      BY <1>0, <1>2, <2>2
    <3> QED
      BY <1>0, <1>2, <2>2, <3>1, RemainderIs
  <2> QED
    BY <2>1, <2>2
<1> QED
  BY <1>0, <1>1, <1>2, <1>3 DEF r, s, t

LEMMA FirstNumber == 1 % BlockNumbers = 1
<1>1. 1 = BlockNumbers * 0 + 1 /\ 1 \in 0..(BlockNumbers - 1)
  BY BlockNumbersAssumption
<1> QED
  BY <1>1, BlockNumbersAssumption, RemainderIs

LEMMA BlocksType ==
  ASSUME length \in Nat
  PROVE  Blocks \in Nat \ {0}
<1>1. CASE length = 0
  BY <1>1 DEF Blocks
<1>2. CASE length # 0
  <2> DEFINE n == length + DataSize - 1
             q == n \div DataSize
  <2>1. n \in Nat /\ n >= DataSize
    BY <1>2, ImageAssumption
  <2>2. q \in Nat /\ n % DataSize \in 0..(DataSize - 1) /\ n = DataSize * q + (n % DataSize)
    BY <2>1, DivMod, ImageAssumption
  <2> HIDE DEF n
  <2>3. q # 0
    <3>1. DataSize * 0 = 0
      BY ImageAssumption
    <3> QED
      BY <2>1, <2>2, <3>1, ImageAssumption
  <2> QED
    BY <1>2, <2>2, <2>3 DEF Blocks, n
<1> QED
  BY <1>1, <1>2

(* The block after block k is one of the image exactly if the image goes on *)
(* beyond block k.                                                          *)
LEMMA LastBlock ==
  ASSUME length \in Nat, NEW k \in 0..(Blocks - 1)
  PROVE  /\ (k + 1) * DataSize >= length => k + 1 = Blocks
         /\ (k + 1) * DataSize < length => k + 1 < Blocks
<1>1. CASE length = 0
  <2>1. Blocks = 1 /\ k = 0
    BY <1>1 DEF Blocks
  <2>2. (k + 1) * DataSize = DataSize
    BY <2>1, ImageAssumption
  <2> QED
    BY <1>1, <2>1, <2>2, ImageAssumption
<1>2. CASE length # 0
  <2> DEFINE n == length + DataSize - 1
             q == n \div DataSize
             r == n % DataSize
  <2>1. n \in Nat
    BY <1>2, ImageAssumption
  <2>2. q \in Nat /\ r \in 0..(DataSize - 1) /\ n = DataSize * q + r
    BY <2>1, DivMod, ImageAssumption
  <2>3. q = Blocks
    BY <1>2 DEF Blocks
  <2>4. n = length + DataSize - 1
    OBVIOUS
  <2> HIDE DEF n, q, r
  <2>5. k + 1 \in Nat /\ (k + 1) * DataSize = DataSize * (k + 1) /\ DataSize * (k + 1) \in Nat
        /\ DataSize * q \in Nat
    BY <2>2, <2>3, ImageAssumption
  <2>6. CASE k + 1 < q
    <3>1. DataSize * (k + 1) + DataSize <= DataSize * q
      BY <2>2, <2>5, <2>6, FartherBlock, ImageAssumption
    <3> QED
      BY <2>2, <2>3, <2>4, <2>5, <2>6, <3>1, ImageAssumption
  <2>7. CASE k + 1 = q
    BY <2>2, <2>3, <2>4, <2>5, <2>7, ImageAssumption
  <2> QED
    BY <2>2, <2>3, <2>5, <2>6, <2>7
<1> QED
  BY <1>1, <1>2

----------------------------------------------------------------------------
(* The two directions of the line *)

FrameType == [code : {"id", "e", "y", "w", "soh", "eot", "g"},
              number : 0..(BlockNumbers - 1), pos : Nat]

LineOK ==
  /\ to_prop \in Seq(FrameType) /\ Len(to_prop) <= PropLine
  /\ to_host \in Seq(Tokens) /\ Len(to_host) <= HostLine

LEMMA FrameIsOK ==
  ASSUME NEW code \in {"id", "e", "y", "w", "eot", "g"}
  PROVE  Frame(code) \in FrameType /\ Frame(code).code = code
BY BlockNumbersAssumption DEF Frame, FrameType

(* A frame that is sent is the last one under way. *)
LEMMA SendIsLast ==
  ASSUME LineOK, NEW frame \in FrameType, SendData(frame)
  PROVE  /\ to_prop' \in Seq(FrameType) /\ Len(to_prop') <= PropLine
         /\ Len(to_prop') = Len(to_prop) + 1
         /\ to_prop'[Len(to_prop) + 1] = frame
         /\ \A i \in 1..Len(to_prop) : to_prop'[i] = to_prop[i]
         /\ Codes' = Codes \cup {frame.code}
         /\ to_prop = <<>> => to_prop' = <<frame>>
<1>1. /\ to_prop' \in Seq(FrameType) /\ Len(to_prop') <= PropLine
      /\ Len(to_prop') = Len(to_prop) + 1
      /\ to_prop'[Len(to_prop) + 1] = frame
      /\ \A i \in 1..Len(to_prop) : to_prop'[i] = to_prop[i]
  BY LineAssumption DEF SendData, LineOK
<1>2. DOMAIN to_prop = 1..Len(to_prop) /\ DOMAIN to_prop' = 1..(Len(to_prop) + 1)
  BY <1>1 DEF LineOK
<1>3. Codes' = Codes \cup {frame.code}
  BY <1>1, <1>2 DEF Codes, LineOK
<1>4. to_prop = <<>> => to_prop' = <<frame>>
  BY DEF SendData
<1> QED
  BY <1>1, <1>3, <1>4

(* The boot loader takes the first frame. *)
LEMMA HearIsFirst ==
  ASSUME LineOK, to_prop # <<>>, to_prop' = Tail(to_prop)
  PROVE  /\ to_prop' \in Seq(FrameType) /\ Len(to_prop') <= PropLine
         /\ Len(to_prop') = Len(to_prop) - 1
         /\ \A i \in 1..Len(to_prop') : to_prop'[i] = to_prop[i + 1]
         /\ Codes' \subseteq Codes
         /\ Head(to_prop) = to_prop[1] /\ Head(to_prop) \in FrameType
         /\ Head(to_prop).code \in Codes
<1>1. /\ to_prop' \in Seq(FrameType) /\ Len(to_prop') = Len(to_prop) - 1
      /\ Len(to_prop) \in Nat \ {0}
      /\ \A i \in 1..Len(to_prop') : to_prop'[i] = to_prop[i + 1]
  BY HeadTailProperties, EmptySeq DEF LineOK
<1>2. DOMAIN to_prop = 1..Len(to_prop) /\ DOMAIN to_prop' = 1..(Len(to_prop) - 1)
  BY <1>1 DEF LineOK
<1>3. Codes' \subseteq Codes
  BY <1>1, <1>2 DEF Codes
<1>4. Head(to_prop) = to_prop[1] /\ Head(to_prop) \in FrameType /\ 1 \in DOMAIN to_prop
  BY <1>1, <1>2 DEF LineOK
<1>5. Head(to_prop).code \in Codes
  BY <1>4 DEF Codes
<1> QED
  BY <1>1, <1>3, <1>4, <1>5, LineAssumption DEF LineOK

(* What the host reads is the beginning of what was said; the rest stays.   *)
Rests(m) == m \in 0..Len(to_host) /\ to_host' = SubSeq(to_host, m + 1, Len(to_host))

LEMMA RestIsOK ==
  ASSUME LineOK, NEW m, Rests(m)
  PROVE  /\ to_host' \in Seq(Tokens) /\ Len(to_host') <= HostLine
         /\ Len(to_host') = Len(to_host) - m
         /\ \A i \in 1..Len(to_host') : to_host'[i] = to_host[i + m]
         /\ Said' \subseteq Said
<1>1. /\ to_host' \in Seq(Tokens)
      /\ Len(to_host') = Len(to_host) - m
      /\ \A i \in 1..Len(to_host') : to_host'[i] = to_host[i + m]
  BY DEF LineOK, Rests
<1>2. DOMAIN to_host = 1..Len(to_host) /\ DOMAIN to_host' = 1..(Len(to_host) - m)
  BY <1>1 DEF LineOK
<1>3. \A i \in DOMAIN to_host' : i + m \in DOMAIN to_host
  BY <1>2 DEF LineOK, Rests
<1>4. Said' \subseteq Said
  BY <1>1, <1>2, <1>3 DEF Said
<1> QED
  BY <1>1, <1>4, LineAssumption DEF LineOK, Rests

LEMMA ByteRests ==
  ASSUME LineOK, NEW token, ReceiveByte(token)
  PROVE  Rests(1) /\ Len(to_host) >= 1 /\ to_host[1] = token /\ token \in Said
<1>1. Len(to_host) \in Nat \ {0} /\ to_host[1] = token /\ to_host' = Tail(to_host)
  BY HeadTailProperties, EmptySeq DEF ReceiveByte, LineOK
<1>2. Tail(to_host) = SubSeq(to_host, 2, Len(to_host))
  BY <1>1, TailIsSubSeq DEF ReceiveByte, LineOK
<1>3. 1 \in DOMAIN to_host
  BY <1>1 DEF LineOK
<1> QED
  BY <1>1, <1>2, <1>3 DEF Rests, Said

LEMMA LineRests ==
  ASSUME LineOK, NEW line, ReceiveLine(line)
  PROVE  (\E m \in 1..Len(to_host) : Rests(m)) /\ line \in Said
<1>1. PICK n \in 1..Len(to_host) :
        line = to_host[n] /\ to_host' = SubSeq(to_host, n + 1, Len(to_host))
  BY DEF ReceiveLine
<1>2. n \in DOMAIN to_host /\ n \in 0..Len(to_host)
  BY DEF LineOK
<1>3. Rests(n)
  BY <1>1, <1>2 DEF Rests
<1> QED
  BY <1>1, <1>2, <1>3 DEF Said

LEMMA SilenceRests ==
  ASSUME LineOK, UNCHANGED to_host
  PROVE  Rests(0)
BY DEF Rests, LineOK

(* What the boot loader says, as far as it arrives, comes last. *)
LEMMA SayIsLast ==
  ASSUME LineOK, NEW tokens \in Seq(Tokens), Say(tokens)
  PROVE  /\ to_host' \in Seq(Tokens) /\ Len(to_host') <= HostLine
         /\ Len(to_host) <= Len(to_host')
         /\ \A i \in 1..Len(to_host) : to_host'[i] = to_host[i]
         /\ \A i \in (Len(to_host) + 1)..Len(to_host') :
              \/ to_host'[i] = "other"
              \/ i - Len(to_host) \in 1..Len(tokens) /\ to_host'[i] = tokens[i - Len(to_host)]
<1>1. CASE Len(to_host) + Len(tokens) <= HostLine /\ to_host' = to_host \o tokens
  <2>1. /\ to_host' \in Seq(Tokens) /\ Len(to_host') = Len(to_host) + Len(tokens)
        /\ \A i \in 1..Len(to_host') : to_host'[i] = IF i <= Len(to_host) THEN to_host[i]
                                                     ELSE tokens[i - Len(to_host)]
    BY <1>1, ConcatProperties DEF LineOK
  <2> QED
    BY <1>1, <2>1, LineAssumption DEF LineOK
<1>2. CASE Len(to_host) < HostLine /\ to_host' = Append(to_host, "other")
  <2>1. "other" \in Tokens
    BY DEF Tokens
  <2> QED
    BY <1>2, <2>1, LineAssumption DEF LineOK
<1>3. CASE UNCHANGED to_host
  BY <1>3, LineAssumption DEF LineOK
<1> QED
  BY <1>1, <1>2, <1>3 DEF Say

LEMMA SaidAfter ==
  ASSUME LineOK, NEW tokens \in Seq(Tokens), Say(tokens)
  PROVE  Said' \subseteq Said \cup {"other"} \cup {tokens[i] : i \in 1..Len(tokens)}
<1>1. DOMAIN to_host = 1..Len(to_host) /\ DOMAIN to_host' = 1..Len(to_host')
  BY SayIsLast DEF LineOK
<1>2. ASSUME NEW i \in 1..Len(to_host')
      PROVE  to_host'[i] \in Said \cup {"other"} \cup {tokens[j] : j \in 1..Len(tokens)}
  <2>1. CASE i \in 1..Len(to_host)
    BY <1>1, <2>1, SayIsLast DEF Said
  <2>2. CASE i \notin 1..Len(to_host)
    <3>1. i \in (Len(to_host) + 1)..Len(to_host')
      BY <2>2, SayIsLast DEF LineOK
    <3> QED
      BY <3>1, SayIsLast
  <2> QED
    BY <2>1, <2>2
<1> QED
  BY <1>1, <1>2 DEF Said

----------------------------------------------------------------------------
(* Types *)

HostOK ==
  /\ stage \in Stages /\ point \in Points
  /\ retry_count \in 0..(CommandRetries + XmodemRetries)
  /\ polls \in 0..Polls
  /\ length \in Lengths /\ send_pos \in Nat /\ block_number \in 0..(BlockNumbers - 1)

PropOK == mode \in Modes /\ erased \in BOOLEAN /\ flashed \in Seq(Nat)

LEMMA TypeParts == TypeOK <=> HostOK /\ LineOK /\ PropOK
BY DEF TypeOK, HostOK, LineOK, PropOK, FrameType

(* A step of the host takes from what was said, and no more. *)
LEMMA MissedRests ==
  ASSUME LineOK, NEW message, MessageMissed(message)
  PROVE  \E m \in 0..Len(to_host) : Rests(m)
<1>1. CASE ByteTimesOut
  BY <1>1, SilenceRests DEF ByteTimesOut, Rests
<1>2. ASSUME NEW line \in Tokens \ {message}, ReceiveLine(line)
      PROVE  \E m \in 0..Len(to_host) : Rests(m)
  BY <1>2, LineRests DEF Rests
<1> QED
  BY <1>1, <1>2 DEF MessageMissed

LEMMA HostRests ==
  ASSUME LineOK, Host
  PROVE  \E m \in 0..Len(to_host) : Rests(m)
<1> DEFINE Rest == \E m \in 0..Len(to_host) : Rests(m)
<1> SUFFICES Rest
  OBVIOUS
<1>1. UNCHANGED to_host => Rest
  BY SilenceRests DEF Rests
<1>2. ASSUME NEW token, ReceiveByte(token) PROVE Rest
  BY <1>2, ByteRests DEF Rests
<1>3. ASSUME NEW line, ReceiveLine(line) PROVE Rest
  BY <1>3, LineRests DEF Rests
<1>4. ASSUME NEW message, MessageMissed(message) PROVE Rest
  BY <1>4, MissedRests
<1> HIDE DEF Rest
<1>5. CASE BootSend \/ SendCommand \/ Confirm \/ SendFirstBlock
  BY <1>1, <1>5 DEF BootSend, SendCommand, Confirm, SendFirstBlock
<1>6. CASE BootSilence \/ DiscardEnds
  BY <1>1, <1>6 DEF BootSilence, DiscardEnds, ByteTimesOut
<1>7. CASE BootOtherLine \/ BootMessage \/ CommandAnswered \/ EraseFinished
  BY <1>3, <1>7 DEF BootOtherLine, BootMessage, CommandAnswered, EraseFinished, MessageReceived
<1>8. CASE CommandRetried \/ EraseAwaited
  BY <1>4, <1>8 DEF CommandRetried, EraseAwaited
<1>9. CASE DiscardByte \/ AwaitNak \/ ReceiveAck \/ ReceiveNak \/ ReceiveCan \/ ReceiveNothing
  BY <1>1, <1>2, <1>9
     DEF DiscardByte, AwaitNak, ReceiveAck, ReceiveNak, ReceiveCan, ReceiveNothing, ByteTimesOut
<1> QED
  BY <1>5, <1>6, <1>7, <1>8, <1>9 DEF Host

LEMMA CodesOK == CommandOf \in [{"erase", "flush", "eot", "run"} -> {"e", "w", "eot", "g"}]
BY DEF CommandOf

LEMMA ThisBlockOK == HostOK => Block(block_number, send_pos) \in FrameType
BY DEF HostOK, Block, FrameType

(* What the boot loader says is made of tokens. *)
LEMMA PropSays ==
  ASSUME LineOK, PropMenu \/ PropCancels \/ PropErases \/ PropUploads \/ PropWrites
                 \/ PropHearsBlock \/ PropEnds
  PROVE  \E tokens \in Seq(Tokens) : Say(tokens)
<1>1. /\ <<"boot">> \in Seq(Tokens) /\ <<"erase_check", "other">> \in Seq(Tokens)
      /\ <<"flush_check", "other">> \in Seq(Tokens) /\ <<"go">> \in Seq(Tokens)
      /\ <<"other">> \in Seq(Tokens) /\ <<"other", "completed">> \in Seq(Tokens)
      /\ <<"ack">> \in Seq(Tokens) /\ <<"nak">> \in Seq(Tokens) /\ <<"can">> \in Seq(Tokens)
      /\ <<"success">> \in Seq(Tokens)
  BY DEF Tokens, Lines
<1> QED
  BY <1>1 DEF PropMenu, PropCancels, PropErases, PropUploads, PropWrites, PropHearsBlock, PropEnds

LEMMA LineStep ==
  ASSUME HostOK, LineOK, [Next]_vars
  PROVE  LineOK'
<1> DEFINE PropLineOK == to_prop' \in Seq(FrameType) /\ Len(to_prop') <= PropLine
           HostLineOK == to_host' \in Seq(Tokens) /\ Len(to_host') <= HostLine
<1>1. UNCHANGED to_prop => PropLineOK
  BY DEF LineOK
<1>2. UNCHANGED to_host => HostLineOK
  BY DEF LineOK
<1>3. ASSUME Host PROVE HostLineOK
  BY <1>3, HostRests, RestIsOK
<1>4. ASSUME NEW frame \in FrameType, SendData(frame) PROVE PropLineOK
  BY <1>4, SendIsLast
<1> HIDE DEF PropLineOK, HostLineOK
<1>5. ASSUME ReceiveAck PROVE PropLineOK
  <2>1. block_number' \in 0..(BlockNumbers - 1) /\ send_pos' \in Nat
    <3>1. block_number + 1 \in Nat /\ BlockNumbers \in Nat /\ BlockNumbers > 0
      BY BlockNumbersAssumption DEF HostOK
    <3>2. (block_number + 1) % BlockNumbers \in 0..(BlockNumbers - 1)
      BY <3>1, DivMod
    <3> QED
      BY <1>5, <3>2, ImageAssumption DEF ReceiveAck, AdvanceBlock, HostOK
  <2>2. NextBlock \in FrameType
    BY <2>1 DEF NextBlock, Block, FrameType
  <2> QED
    BY <1>1, <1>4, <1>5, <2>2 DEF ReceiveAck
<1>6. ASSUME Host, ~ReceiveAck PROVE PropLineOK
  <2>1. CASE SendCommand
    <3>1. Frame(CommandOf[stage]) \in FrameType
      BY <2>1, CodesOK, FrameIsOK DEF SendCommand
    <3> QED
      BY <1>4, <2>1, <3>1 DEF SendCommand
  <2>2. CASE BootSend \/ Confirm
    BY <1>4, <2>2, FrameIsOK DEF BootSend, Confirm
  <2>3. CASE SendFirstBlock \/ ReceiveNak
    BY <1>1, <1>4, <2>3, ThisBlockOK DEF SendFirstBlock, ReceiveNak, SendFlushBlockData
  <2> QED
    BY <1>1, <1>6, <2>1, <2>2, <2>3
       DEF Host, BootOtherLine, BootSilence, BootMessage, DiscardByte, DiscardEnds,
           CommandAnswered, CommandRetried, EraseFinished, EraseAwaited, AwaitNak,
           ReceiveCan, ReceiveNothing
<1>7. ASSUME PropHears PROVE PropLineOK /\ HostLineOK
  <2>1. PropLineOK
    BY <1>7, HearIsFirst DEF PropHears, PropLineOK
  <2>2. HostLineOK
    <3>1. UNCHANGED to_host \/ \E tokens \in Seq(Tokens) : Say(tokens)
      BY <1>7, PropSays DEF PropHears
    <3>2. CASE UNCHANGED to_host
      BY <1>2, <3>2
    <3>3. CASE \E tokens \in Seq(Tokens) : Say(tokens)
      BY <3>3, SayIsLast DEF HostLineOK
    <3> QED
      BY <3>1, <3>2, <3>3
  <2> QED
    BY <2>1, <2>2
<1>8. ASSUME PropAsks \/ Noise PROVE PropLineOK /\ HostLineOK
  <2>1. to_host' \in {<<"nak">>, <<"other">>} /\ UNCHANGED to_prop
    BY <1>8 DEF PropAsks, Noise
  <2>2. HostLineOK
    BY <2>1, LineAssumption DEF HostLineOK, Tokens
  <2> QED
    BY <1>1, <2>1, <2>2
<1>9. CASE PropBoots \/ IoFails \/ UNCHANGED vars
  BY <1>1, <1>2, <1>9 DEF PropBoots, IoFails, vars, PropLineOK, HostLineOK, LineOK
<1> QED
  BY <1>3, <1>5, <1>6, <1>7, <1>8, <1>9
     DEF Next, Prop, Terminated, PropLineOK, HostLineOK, LineOK

(* Every attempt is counted, and a loop that is limited by a timer ends. *)
LEMMA PollCounts ==
  ASSUME HostOK, CountsOK, stage # "exit", NEW s \in Stages, NEW p \in Points, Poll(s, p)
  PROVE  /\ stage' \in Stages /\ point' \in Points /\ polls' \in 0..Polls
         /\ stage' # "exit" => stage' = s /\ point' = p /\ polls' < Polls
<1>1. polls + 1 \in 0..Polls
  BY RetryAssumption DEF HostOK, CountsOK
<1> QED
  BY <1>1 DEF Poll, Stages, Points

LEMMA RetryCounts ==
  ASSUME HostOK, CountsOK, stage = "xmodem", NEW p \in Points, Retry(p)
  PROVE  /\ stage' \in {"xmodem", "exit"} /\ point' \in Points
         /\ retry_count' \in 0..(CommandRetries + XmodemRetries)
         /\ stage' = "xmodem" => point' = p /\ retry_count' < XmodemRetries
         /\ stage' = "exit" => point' = "failure"
BY RetryAssumption DEF HostOK, CountsOK, Retry, Stages, Points

LEMMA CommandCounts ==
  ASSUME HostOK, CountsOK
  PROVE  /\ CommandAnswered \/ CommandRetried =>
              /\ stage' \in Stages /\ point' \in Points
              /\ retry_count' \in 0..(CommandRetries + XmodemRetries)
              /\ stage' \in DOMAIN CommandOf => retry_count' < CommandRetries
              /\ stage' \notin {"boot", "xmodem"} /\ point' # "await"
              /\ point' \in {"discard", "confirm"} => retry_count' = 0
<1>1. DOMAIN CommandOf = {"erase", "flush", "eot", "run"}
  BY DEF CommandOf
<1>2. CASE CommandAnswered
  <2>1. stage \in {"erase", "flush", "eot", "run"} /\ retry_count' = 0
    BY <1>1, <1>2 DEF CommandAnswered
  <2>2. \/ stage' = "erase" /\ point' = "confirm"
        \/ stage' = "flush" /\ point' = "discard"
        \/ stage' = "run" /\ point' = "send"
        \/ stage' = "exit" /\ point' = "success"
    BY <1>2, <2>1 DEF CommandAnswered
  <2> QED
    BY <1>1, <2>1, <2>2, RetryAssumption DEF Stages, Points
<1>3. CASE CommandRetried
  BY <1>1, <1>3, RetryAssumption DEF CommandRetried, CountsOK, HostOK, Stages, Points
<1> QED
  BY <1>2, <1>3

LEMMA CountsStep ==
  ASSUME HostOK, CountsOK, [Next]_vars
  PROVE  HostOK' /\ CountsOK'
<1>1. DOMAIN CommandOf = {"erase", "flush", "eot", "run"}
  BY DEF CommandOf
<1>2. CASE UNCHANGED hostVars
  BY <1>2 DEF hostVars, transferVars, HostOK, CountsOK
<1>3. CASE IoFails
  BY <1>1, <1>3 DEF IoFails, transferVars, HostOK, CountsOK, Stages, Points
<1>4. CASE CommandAnswered \/ CommandRetried
  <2>1. UNCHANGED <<polls, transferVars>>
    BY <1>4 DEF CommandAnswered, CommandRetried
  <2>2. stage # "exit"
    BY <1>1, <1>4 DEF CommandAnswered, CommandRetried
  <2> QED
    BY <1>1, <1>4, <2>1, <2>2, CommandCounts DEF HostOK, CountsOK, transferVars
<1>5. CASE BootSilence \/ EraseAwaited
  <2>1. /\ stage # "exit" /\ UNCHANGED <<retry_count, transferVars>>
        /\ \/ stage = "boot" /\ Poll("boot", "send")
           \/ stage = "erase" /\ point = "await" /\ Poll("erase", "await")
    BY <1>5 DEF BootSilence, EraseAwaited
  <2>2. {"boot", "erase"} \subseteq Stages /\ {"send", "await"} \subseteq Points
    BY DEF Stages, Points
  <2>3. /\ stage' \in Stages /\ point' \in Points /\ polls' \in 0..Polls
        /\ stage' # "exit" => polls' < Polls
    BY <2>1, <2>2, PollCounts
  <2>4. /\ retry_count = 0
        /\ stage' \in {"boot", "erase", "exit"} /\ point' \in {"send", "await", "failure"}
    BY <2>1 DEF CountsOK, Poll
  <2> QED
    BY <1>1, <2>1, <2>3, <2>4, RetryAssumption DEF HostOK, CountsOK, transferVars
<1>6. CASE AwaitNak \/ ReceiveNak \/ ReceiveNothing
  <2>1. stage = "xmodem" /\ UNCHANGED <<polls, transferVars>>
    BY <1>6 DEF AwaitNak, ReceiveNak, ReceiveNothing
  <2>2. \/ stage' = "xmodem" /\ point' = "first" /\ UNCHANGED retry_count
        \/ \E p \in {"nak", "receive"} : Retry(p)
    BY <1>6 DEF AwaitNak, ReceiveNak, ReceiveNothing
  <2>3. {"nak", "receive", "first", "failure"} \subseteq Points /\ {"xmodem", "exit"} \subseteq Stages
    BY DEF Points, Stages
  <2>4. CASE stage' = "xmodem" /\ point' = "first" /\ UNCHANGED retry_count
    BY <1>1, <2>1, <2>3, <2>4 DEF HostOK, CountsOK, transferVars
  <2>5. ASSUME NEW p \in {"nak", "receive"}, Retry(p)
        PROVE  HostOK' /\ CountsOK'
    BY <1>1, <2>1, <2>3, <2>5, RetryCounts DEF HostOK, CountsOK, transferVars
  <2> QED
    BY <2>2, <2>4, <2>5
<1>7. CASE ReceiveAck
  <2>1. block_number' \in 0..(BlockNumbers - 1) /\ send_pos' \in Nat
    <3>1. block_number + 1 \in Nat /\ BlockNumbers \in Nat /\ BlockNumbers > 0
      BY BlockNumbersAssumption DEF HostOK
    <3>2. (block_number + 1) % BlockNumbers \in 0..(BlockNumbers - 1)
      BY <3>1, DivMod
    <3> QED
      BY <1>7, <3>2, ImageAssumption DEF ReceiveAck, AdvanceBlock, HostOK
  <2>2. /\ stage' \in {"xmodem", "eot", "exit"} /\ point' \in {"receive", "send", "crash"}
        /\ stage = "xmodem" /\ retry_count' = 0 /\ UNCHANGED <<polls, length>>
    BY <1>7 DEF ReceiveAck
  <2> QED
    BY <1>1, <2>1, <2>2, RetryAssumption DEF HostOK, CountsOK, Stages, Points
<1>8. CASE SendFirstBlock \/ ReceiveCan
  BY <1>1, <1>8, RetryAssumption
     DEF SendFirstBlock, ReceiveCan, HostOK, CountsOK, transferVars, Stages, Points
<1>9. CASE Confirm
  BY <1>1, <1>9, RetryAssumption DEF Confirm, HostOK, CountsOK, transferVars, Stages, Points
<1>10. CASE BootSend \/ BootMessage \/ DiscardEnds
  BY <1>1, <1>10, RetryAssumption
     DEF BootSend, BootMessage, DiscardEnds, HostOK, CountsOK, transferVars, Stages, Points
<1>11. CASE SendCommand \/ EraseFinished
  BY <1>1, <1>11, RetryAssumption
     DEF SendCommand, EraseFinished, HostOK, CountsOK, transferVars, Stages, Points
<1> QED
  BY <1>2, <1>3, <1>4, <1>5, <1>6, <1>7, <1>8, <1>9, <1>10, <1>11
     DEF Next, Host, Prop, Terminated, vars, BootOtherLine, DiscardByte, PropBoots, PropHears,
         PropAsks, Noise, hostVars

LEMMA PropStep ==
  ASSUME LineOK, PropOK, [Next]_vars
  PROVE  PropOK'
<1>1. CASE UNCHANGED propVars
  BY <1>1 DEF propVars, PropOK
<1>2. CASE PropBoots
  BY <1>2 DEF PropBoots, PropOK, Modes
<1>3. CASE PropHears
  <2>1. Head(to_prop).pos \in Nat
    BY <1>3, HearIsFirst DEF PropHears, FrameType
  <2>2. mode' \in Modes
    BY <1>3 DEF PropHears, PropMenu, PropCancels, PropErases, PropUploads, PropWrites,
                PropHearsBlock, PropEnds, propVars, PropOK, Modes
  <2>3. erased' \in BOOLEAN
    BY <1>3 DEF PropHears, PropErases, PropUploads, PropWrites, propVars, PropOK
  <2>4. flashed' \in {flashed, <<>>, Append(flashed, Head(to_prop).pos)}
    BY <1>3 DEF PropHears, PropErases, PropUploads, PropWrites, propVars
  <2>5. <<>> \in Seq(Nat) /\ Append(flashed, Head(to_prop).pos) \in Seq(Nat)
    BY <2>1 DEF PropOK
  <2> QED
    BY <2>2, <2>3, <2>4, <2>5 DEF PropOK
<1> QED
  BY <1>1, <1>2, <1>3
     DEF Next, Host, Prop, Terminated, vars, IoFails, Noise, PropAsks,
         BootSend, BootOtherLine, BootSilence, BootMessage, DiscardByte, DiscardEnds,
         SendCommand, CommandAnswered, CommandRetried, Confirm, EraseFinished, EraseAwaited,
         AwaitNak, SendFirstBlock, ReceiveAck, ReceiveNak, ReceiveCan, ReceiveNothing

----------------------------------------------------------------------------
(* The phases, step by step.  First, a confirmation on the line. *)

TypesOK == HostOK /\ LineOK /\ PropOK /\ CountsOK

LEMMA YesHeard ==
  ASSUME LineOK, LastIsYes, to_prop # <<>>, to_prop' = Tail(to_prop)
  PROVE  LastIsYes' /\ (Head(to_prop).code = "y" => to_prop' = <<>>)
<1>1. /\ Len(to_prop') = Len(to_prop) - 1 /\ Head(to_prop) = to_prop[1]
      /\ \A i \in 1..Len(to_prop') : to_prop'[i] = to_prop[i + 1]
      /\ to_prop' \in Seq(FrameType)
  BY HearIsFirst
<1>2. Len(to_prop) \in Nat /\ DOMAIN to_prop = 1..Len(to_prop) /\ DOMAIN to_prop' = 1..Len(to_prop')
  BY <1>1 DEF LineOK
<1>3. LastIsYes'
  BY <1>1, <1>2 DEF LastIsYes
<1>4. Head(to_prop).code = "y" => to_prop' = <<>>
  <2>1. Len(to_prop) # 0
    BY EmptySeq DEF LineOK
  <2>2. Head(to_prop).code = "y" => Len(to_prop') = 0
    BY <1>1, <1>2, <2>1 DEF LastIsYes
  <2> QED
    BY <1>1, <2>2, EmptySeq
<1> QED
  BY <1>3, <1>4

LEMMA YesSent ==
  ASSUME LineOK, "y" \notin Codes, NEW frame \in FrameType, SendData(frame)
  PROVE  LastIsYes'
<1>1. /\ to_prop' \in Seq(FrameType) /\ Len(to_prop') = Len(to_prop) + 1
      /\ \A i \in 1..Len(to_prop) : to_prop'[i] = to_prop[i]
  BY SendIsLast
<1>2. Len(to_prop) \in Nat /\ DOMAIN to_prop = 1..Len(to_prop) /\ DOMAIN to_prop' = 1..Len(to_prop')
  BY <1>1 DEF LineOK
<1> QED
  BY <1>1, <1>2 DEF LastIsYes, Codes

LEMMA NothingSent == UNCHANGED to_prop => Codes' = Codes /\ LastIsYes' = LastIsYes
BY DEF Codes, LastIsYes

LEMMA HostHears == LineOK /\ Host => Said' \subseteq Said
BY HostRests, RestIsOK

LEMMA NobodySpeaks == UNCHANGED to_host => Said' = Said
BY DEF Said

LEMMA OnlyToken == ASSUME NEW token, to_host' = <<token>> PROVE Said' = {token}
BY DEF Said

(* The words of the boot loader add no more than themselves and noise. *)
LEMMA PropTokens ==
  ASSUME LineOK, NEW token \in Tokens
  PROVE  /\ Say(<<token>>) => Said' \subseteq Said \cup {"other", token}
         /\ Say(<<token, "other">>) => Said' \subseteq Said \cup {"other", token}
         /\ Say(<<"other", token>>) => Said' \subseteq Said \cup {"other", token}
<1>1. /\ <<token>> \in Seq(Tokens) /\ <<token, "other">> \in Seq(Tokens)
      /\ <<"other", token>> \in Seq(Tokens)
  BY DEF Tokens
<1>2. ASSUME Say(<<token>>) PROVE Said' \subseteq Said \cup {"other", token}
  <2>1. {(<<token>>)[i] : i \in 1..Len(<<token>>)} = {token}
    OBVIOUS
  <2> QED
    BY <1>1, <1>2, <2>1, SaidAfter
<1>3. ASSUME Say(<<token, "other">>) PROVE Said' \subseteq Said \cup {"other", token}
  <2>1. {(<<token, "other">>)[i] : i \in 1..Len(<<token, "other">>)} \subseteq {token, "other"}
    OBVIOUS
  <2> QED
    BY <1>1, <1>3, <2>1, SaidAfter
<1>4. ASSUME Say(<<"other", token>>) PROVE Said' \subseteq Said \cup {"other", token}
  <2>1. {(<<"other", token>>)[i] : i \in 1..Len(<<"other", token>>)} \subseteq {token, "other"}
    OBVIOUS
  <2> QED
    BY <1>1, <1>4, <2>1, SaidAfter
<1> QED
  BY <1>2, <1>3, <1>4

LEMMA Vocabulary ==
  {"boot", "erase_check", "completed", "flush_check", "success", "go",
   "ack", "nak", "can", "other"} \subseteq Tokens
BY DEF Tokens, Lines

(* Before the upload nothing is written. *)
LEMMA BeforeFlushStep ==
  ASSUME TypesOK, BeforeFlush, [Next]_vars
  PROVE  Phase'
<1> USE DEF TypesOK
<1>1. CASE UNCHANGED vars
  BY <1>1 DEF vars, hostVars, transferVars, propVars, Phase, BeforeFlush, AtStart, Codes, Said, LastIsYes
<1>2. CASE IoFails
  <2>1. BeforeFlush'
    BY <1>2, NothingSent, NobodySpeaks DEF IoFails, transferVars, propVars, BeforeFlush, AtStart
  <2> QED
    BY <2>1 DEF Phase
<1>3. CASE Host
  <2>1. Said' \subseteq Said
    BY <1>3, HostHears
  <2>2. CASE BootSend \/ SendCommand
    <3>1. PICK code \in {"id", "e"} : SendData(Frame(code))
      BY <2>2 DEF BootSend, SendCommand, BeforeFlush, CommandOf
    <3>2. Frame(code) \in FrameType /\ Frame(code).code = code
      BY FrameIsOK
    <3>3. /\ stage' = stage /\ stage \in {"boot", "erase"} /\ point' = "check" /\ point = "send"
          /\ UNCHANGED <<transferVars, propVars>>
      BY <2>2 DEF BootSend, SendCommand, BeforeFlush, CommandOf
    <3>4. "y" \notin Codes /\ "completed" \notin Said
      BY <3>3 DEF BeforeFlush
    <3>5. LastIsYes' /\ Codes' \subseteq {"id", "e", "y"} /\ "y" \notin Codes'
      <4>1. LastIsYes'
        BY <3>1, <3>2, <3>4, YesSent
      <4>2. Codes' = Codes \cup {Frame(code).code}
        BY <3>1, <3>2, SendIsLast
      <4> QED
        BY <3>2, <3>4, <4>1, <4>2 DEF BeforeFlush
    <3>6. BeforeFlush'
      BY <2>1, <3>3, <3>4, <3>5 DEF BeforeFlush, AtStart, transferVars, propVars
    <3> QED
      BY <3>6 DEF Phase
  <2>3. CASE Confirm
    <3>1. /\ SendData(Frame("y")) /\ stage = "erase" /\ point = "confirm"
          /\ stage' = "erase" /\ point' = "await"
          /\ UNCHANGED <<transferVars, propVars>>
      BY <2>3 DEF Confirm, BeforeFlush
    <3>2. Frame("y") \in FrameType /\ Frame("y").code = "y"
      BY FrameIsOK
    <3>3. "y" \notin Codes /\ "completed" \notin Said
      BY <3>1 DEF BeforeFlush
    <3>4. LastIsYes' /\ Codes' \subseteq {"id", "e", "y"}
      <4>1. LastIsYes'
        BY <3>1, <3>2, <3>3, YesSent
      <4>2. Codes' = Codes \cup {Frame("y").code}
        BY <3>1, <3>2, SendIsLast
      <4> QED
        BY <3>2, <4>1, <4>2 DEF BeforeFlush
    <3>5. BeforeFlush'
      BY <2>1, <3>1, <3>3, <3>4 DEF BeforeFlush, AtStart, transferVars, propVars
    <3> QED
      BY <3>5 DEF Phase
  <2>4. CASE EraseFinished
    <3>1. "completed" \in Said
      BY <2>4, LineRests DEF EraseFinished, MessageReceived
    <3>2. /\ stage' = "flush" /\ point' = "send" /\ UNCHANGED <<to_prop, transferVars, propVars>>
      BY <2>4 DEF EraseFinished
    <3>3. erased /\ mode = "menu" /\ to_prop = <<>>
      BY <3>1 DEF BeforeFlush
    <3>4. Codes' = {} /\ LastIsYes'
      BY <3>2, <3>3 DEF Codes, LastIsYes
    <3>5. Asking'
      BY <2>1, <3>2, <3>3, <3>4 DEF BeforeFlush, Asking, AtStart, transferVars, propVars
    <3> QED
      BY <3>5 DEF Phase
  <2>5. CASE \/ BootOtherLine \/ BootSilence \/ BootMessage \/ DiscardByte \/ DiscardEnds
             \/ CommandAnswered \/ CommandRetried \/ EraseAwaited
    <3>1. UNCHANGED <<to_prop, transferVars, propVars>>
      BY <2>5 DEF BootOtherLine, BootSilence, BootMessage, DiscardByte, DiscardEnds,
                  CommandAnswered, CommandRetried, EraseAwaited, hostVars
    <3>2. /\ stage' \in {"boot", "erase", "exit"} /\ point' # "success"
          /\ At("erase", "await") => stage' = "exit" \/ At("erase", "await")'
          /\ stage # "exit"
      BY <2>5 DEF BootOtherLine, BootSilence, BootMessage, DiscardByte, DiscardEnds,
                  CommandAnswered, CommandRetried, EraseAwaited, hostVars, Poll, CommandOf, BeforeFlush
    <3>3. BeforeFlush'
      BY <2>1, <3>1, <3>2, NothingSent DEF BeforeFlush, AtStart, transferVars, propVars
    <3> QED
      BY <3>3 DEF Phase
  <2> QED
    BY <1>3, <2>2, <2>3, <2>4, <2>5
       DEF Host, BeforeFlush, AwaitNak, SendFirstBlock, ReceiveAck, ReceiveNak, ReceiveCan,
           ReceiveNothing
<1>4. CASE PropBoots
  <2>1. "completed" \notin Said /\ mode' = "boot"
    BY <1>4 DEF PropBoots, BeforeFlush
  <2>2. BeforeFlush'
    BY <1>4, <2>1, NothingSent, NobodySpeaks
       DEF PropBoots, hostVars, transferVars, BeforeFlush, AtStart
  <2> QED
    BY <2>2 DEF Phase
<1>5. CASE PropHears
  <2>1. /\ to_prop # <<>> /\ to_prop' = Tail(to_prop) /\ UNCHANGED <<stage, point, transferVars>>
        /\ "completed" \notin Said
    BY <1>5 DEF PropHears, hostVars, BeforeFlush
  <2>2. /\ LastIsYes' /\ Codes' \subseteq Codes /\ Head(to_prop).code \in {"id", "e", "y"}
        /\ Head(to_prop).code = "y" => to_prop' = <<>> /\ "y" \in Codes
    BY <2>1, YesHeard, HearIsFirst DEF BeforeFlush
  <2>3. CASE UNCHANGED <<propVars, to_host>>
    <3>1. BeforeFlush'
      BY <2>1, <2>2, <2>3, NobodySpeaks DEF BeforeFlush, AtStart, propVars, transferVars
    <3> QED
      BY <3>1 DEF Phase
  <2>4. CASE (PropMenu \/ PropCancels \/ PropHearsBlock \/ PropEnds) /\ UNCHANGED <<erased, flashed>>
    <3>1. /\ mode' \in {"menu", "erase?"}
          /\ \E token \in {"boot", "erase_check", "other"} :
               Say(<<token>>) \/ Say(<<token, "other">>)
      BY <2>2, <2>4 DEF PropMenu, PropCancels, PropHearsBlock, PropEnds, Hears, BeforeFlush
    <3>2. Said' \subseteq Said \cup {"boot", "erase_check", "other"}
      BY <3>1, PropTokens, Vocabulary
    <3>3. BeforeFlush'
      BY <2>1, <2>2, <2>4, <3>1, <3>2 DEF BeforeFlush, AtStart, transferVars
    <3> QED
      BY <3>3 DEF Phase
  <2>5. CASE PropErases
    <3>1. /\ mode' = "menu" /\ erased' = TRUE /\ flashed' = <<>> /\ Say(<<"other", "completed">>)
          /\ to_prop' = <<>> /\ "y" \in Codes
      BY <2>2, <2>5 DEF PropErases, Hears
    <3>2. Said' \subseteq Said \cup {"completed", "other"}
      BY <3>1, PropTokens, Vocabulary
    <3>3. BeforeFlush'
      BY <2>1, <2>2, <3>1, <3>2 DEF BeforeFlush, AtStart, transferVars
    <3> QED
      BY <3>3 DEF Phase
  <2> QED
    BY <1>5, <2>3, <2>4, <2>5 DEF PropHears, PropUploads, PropWrites, Hears, BeforeFlush
<1>6. CASE PropAsks
  BY <1>6 DEF PropAsks, BeforeFlush
<1>7. CASE Noise
  <2>1. Said' = {"other"}
    BY <1>7, OnlyToken DEF Noise
  <2>2. BeforeFlush'
    BY <1>7, <2>1, NothingSent DEF Noise, hostVars, transferVars, propVars, BeforeFlush, AtStart
  <2> QED
    BY <2>2 DEF Phase
<1> QED
  BY <1>1, <1>2, <1>3, <1>4, <1>5, <1>6, <1>7 DEF Next, Prop, Terminated

(* The upload is asked for, and then begins with block 0. *)
LEMMA FirstAsked ==
  ASSUME TypesOK, Asking, AwaitNak, ReceiveByte("nak"), stage' = "xmodem", point' = "first"
  PROVE  Transferring'
<1>1. /\ Rests(1) /\ "nak" \in Said
      /\ mode = "upload" /\ to_host = <<"nak">> /\ to_prop = <<>>
  BY ByteRests DEF Asking, TypesOK
<1>2. Len(to_host) = 1
  BY <1>1
<1>3. Len(to_host') = 0 /\ to_host' \in Seq(Tokens)
  BY <1>1, <1>2, RestIsOK DEF TypesOK
<1>4. to_host' = <<>> /\ UNCHANGED <<to_prop, transferVars, propVars>>
  BY <1>3, EmptySeq DEF AwaitNak
<1>5. Said' = {} /\ DOMAIN to_host' = {}
  BY <1>4 DEF Said
<1>6. AtBlock(0)'
  <2>1. 0 * DataSize = 0
    BY ImageAssumption
  <2> QED
    BY <1>4, <1>5, <2>1, FirstNumber DEF AtBlock, Written, Asking, AtStart, transferVars, propVars
<1>7. 0 \in 0..(Blocks' - 1)
  <2>1. Blocks' = Blocks /\ length \in Nat
    BY <1>4, ImageAssumption DEF Blocks, transferVars, TypesOK, HostOK
  <2> QED
    BY <2>1, BlocksType
<1>8. OneUnderWay'
  BY <1>1, <1>4, <1>5 DEF OneUnderWay
<1>9. mode' = "upload"
  BY <1>1, <1>4 DEF propVars
<1> QED
  BY <1>5, <1>6, <1>7, <1>8, <1>9 DEF Transferring

LEMMA AskingStep ==
  ASSUME TypesOK, Asking, [Next]_vars
  PROVE  Phase'
<1> USE DEF TypesOK
<1>1. CASE UNCHANGED vars
  BY <1>1 DEF vars, hostVars, transferVars, propVars, Phase, Asking, AtStart, Codes, Said, LastIsYes
<1>2. CASE IoFails
  <2>1. Asking'
    BY <1>2, NothingSent, NobodySpeaks DEF IoFails, transferVars, propVars, Asking, AtStart
  <2> QED
    BY <2>1 DEF Phase
<1>3. CASE Host
  <2>1. Said' \subseteq Said
    BY <1>3, HostHears
  <2>2. ASSUME stage = "flush"
        PROVE  "nak" \notin Said /\ "y" \notin Codes /\ mode # "upload"
    BY <2>2 DEF Asking
  <2>3. CASE SendCommand
    <3>1. /\ SendData(Frame("w")) /\ stage = "flush" /\ point = "send" /\ stage' = "flush"
          /\ point' = "check" /\ UNCHANGED <<transferVars, propVars>>
      BY <2>3 DEF SendCommand, Asking, CommandOf
    <3>2. Frame("w") \in FrameType /\ Frame("w").code = "w"
      BY FrameIsOK
    <3>3. LastIsYes'
      BY <2>2, <3>1, <3>2, YesSent
    <3>4. Codes' = Codes \cup {"w"}
      BY <3>1, <3>2, SendIsLast
    <3>5. Asking'
      BY <2>1, <2>2, <3>1, <3>3, <3>4 DEF Asking, AtStart, transferVars, propVars
    <3> QED
      BY <3>5 DEF Phase
  <2>4. CASE Confirm
    <3>1. /\ SendData(Frame("y")) /\ stage = "flush" /\ stage' = "xmodem" /\ point' = "nak"
          /\ UNCHANGED <<transferVars, propVars>>
      BY <2>4 DEF Confirm, Asking
    <3>2. Frame("y") \in FrameType /\ Frame("y").code = "y"
      BY FrameIsOK
    <3>3. LastIsYes'
      BY <2>2, <3>1, <3>2, YesSent
    <3>4. Codes' = Codes \cup {"y"}
      BY <3>1, <3>2, SendIsLast
    <3>5. Asking'
      BY <2>1, <2>2, <3>1, <3>3, <3>4 DEF Asking, AtStart, transferVars, propVars
    <3> QED
      BY <3>5 DEF Phase
  <2>5. CASE CommandAnswered \/ CommandRetried \/ DiscardByte \/ DiscardEnds
    <3>1. UNCHANGED <<to_prop, transferVars, propVars>>
      BY <2>5 DEF CommandAnswered, CommandRetried, DiscardByte, DiscardEnds, hostVars
    <3>2. stage = "flush" /\ stage' \in {"flush", "exit"} /\ point' # "success"
      BY <2>5 DEF CommandAnswered, CommandRetried, DiscardByte, DiscardEnds, hostVars, CommandOf, Asking
    <3>3. Asking'
      BY <2>1, <2>2, <3>1, <3>2, NothingSent DEF Asking, AtStart, transferVars, propVars
    <3> QED
      BY <3>3 DEF Phase
  <2>6. CASE AwaitNak
    <3>1. CASE ReceiveByte("nak") /\ stage' = "xmodem" /\ point' = "first"
      BY <2>6, <3>1, FirstAsked DEF Phase
    <3>2. CASE /\ ByteTimesOut \/ \E token \in Tokens \ {"nak"} : ReceiveByte(token)
               /\ Retry("nak")
      <4>1. "nak" \notin Said
        <5>1. CASE ByteTimesOut
          BY <5>1 DEF ByteTimesOut, Said
        <5>2. ASSUME NEW token \in Tokens \ {"nak"}, ReceiveByte(token)
              PROVE  "nak" \notin Said
          BY <5>2, ByteRests DEF Asking
        <5> QED
          BY <3>2, <5>1, <5>2
      <4>2. "nak" \in Points /\ stage = "xmodem"
        BY <2>6 DEF Points, AwaitNak
      <4>3. stage' \in {"xmodem", "exit"} /\ point' \in {"nak", "failure"}
            /\ (stage' = "xmodem" => point' = "nak")
        BY <3>2, <4>2, RetryCounts
      <4>4. Asking'
        BY <2>1, <2>6, <4>1, <4>3, NothingSent
           DEF AwaitNak, Asking, AtStart, transferVars, propVars
      <4> QED
        BY <4>4 DEF Phase
    <3> QED
      BY <2>6, <3>1, <3>2 DEF AwaitNak
  <2> QED
    BY <1>3, <2>3, <2>4, <2>5, <2>6
       DEF Host, Asking, BootSend, BootOtherLine, BootSilence, BootMessage, EraseFinished,
           EraseAwaited, SendFirstBlock, ReceiveAck, ReceiveNak, ReceiveCan, ReceiveNothing
<1>4. CASE PropHears
  <2>1. /\ to_prop # <<>> /\ to_prop' = Tail(to_prop) /\ UNCHANGED <<stage, point, transferVars>>
        /\ "nak" \notin Said /\ mode \in {"menu", "upload?"}
    BY <1>4 DEF PropHears, hostVars, Asking
  <2>2. /\ LastIsYes' /\ Codes' \subseteq Codes /\ Head(to_prop).code \in {"w", "y"}
        /\ Head(to_prop).code = "y" => to_prop' = <<>> /\ "y" \in Codes
    BY <2>1, YesHeard, HearIsFirst DEF Asking
  <2>3. CASE UNCHANGED <<propVars, to_host>>
    <3>1. Asking'
      BY <2>1, <2>2, <2>3, NobodySpeaks DEF Asking, AtStart, propVars, transferVars
    <3> QED
      BY <3>1 DEF Phase
  <2>4. CASE (PropMenu \/ PropCancels \/ PropHearsBlock \/ PropEnds) /\ UNCHANGED <<erased, flashed>>
    <3>1. /\ mode' \in {"menu", "upload?"}
          /\ \E token \in {"flush_check", "other"} : Say(<<token>>) \/ Say(<<token, "other">>)
      BY <2>1, <2>2, <2>4 DEF PropMenu, PropCancels, PropHearsBlock, PropEnds, Hears
    <3>2. Said' \subseteq Said \cup {"flush_check", "other"}
      BY <3>1, PropTokens, Vocabulary
    <3>3. Asking'
      BY <2>1, <2>2, <2>4, <3>1, <3>2 DEF Asking, AtStart, transferVars
    <3> QED
      BY <3>3 DEF Phase
  <2>5. CASE PropUploads
    <3>1. /\ mode' = "upload" /\ UNCHANGED erased /\ flashed' = <<>> /\ Say(<<"other">>)
          /\ to_prop' = <<>> /\ "y" \in Codes
      BY <2>2, <2>5 DEF PropUploads, Hears
    <3>2. Said' \subseteq Said \cup {"other"}
      BY <3>1, PropTokens, Vocabulary
    <3>3. Asking'
      BY <2>1, <2>2, <3>1, <3>2 DEF Asking, AtStart, transferVars
    <3> QED
      BY <3>3 DEF Phase
  <2> QED
    BY <1>4, <2>1, <2>3, <2>4, <2>5 DEF PropHears, PropErases, PropWrites, Hears
<1>5. CASE PropAsks
  <2>1. Said' = {"nak"}
    BY <1>5, OnlyToken DEF PropAsks
  <2>2. Asking'
    BY <1>5, <2>1, NothingSent DEF PropAsks, Asking, AtStart, hostVars, transferVars, propVars
  <2> QED
    BY <2>2 DEF Phase
<1>6. CASE Noise
  <2>1. Said' = {"other"}
    BY <1>6, OnlyToken DEF Noise
  <2>2. Asking'
    BY <1>6, <2>1, NothingSent DEF Noise, hostVars, transferVars, propVars, Asking, AtStart
  <2> QED
    BY <2>2 DEF Phase
<1>7. ~PropBoots
  BY DEF PropBoots, Asking
<1> QED
  BY <1>1, <1>2, <1>3, <1>4, <1>5, <1>6, <1>7 DEF Next, Prop, Terminated

(* The transfer.  What the host reads keeps one answer under way at most,   *)
(* and an answer it takes was the only one.                                 *)
Answers == {"ack", "nak"}
OneAnswer == \A i, j \in DOMAIN to_host : {to_host[i], to_host[j]} \subseteq Answers => i = j

LEMMA RestKeepsOneAnswer ==
  ASSUME LineOK, OneAnswer, NEW m \in 0..Len(to_host), Rests(m)
  PROVE  OneAnswer'
<1>1. /\ to_host' \in Seq(Tokens) /\ Len(to_host') = Len(to_host) - m
      /\ \A i \in 1..Len(to_host') : to_host'[i] = to_host[i + m]
  BY RestIsOK
<1>2. Len(to_host) \in Nat /\ DOMAIN to_host = 1..Len(to_host) /\ DOMAIN to_host' = 1..Len(to_host')
  BY <1>1 DEF LineOK
<1>3. ASSUME NEW i \in DOMAIN to_host', NEW j \in DOMAIN to_host',
             {to_host'[i], to_host'[j]} \subseteq Answers
      PROVE  i = j
  <2>1. i + m \in DOMAIN to_host /\ j + m \in DOMAIN to_host
    BY <1>1, <1>2
  <2>2. to_host'[i] = to_host[i + m] /\ to_host'[j] = to_host[j + m]
    BY <1>1, <1>2
  <2>3. i + m = j + m
    BY <1>3, <2>1, <2>2 DEF OneAnswer
  <2> QED
    BY <1>2, <2>3
<1> QED
  BY <1>3 DEF OneAnswer

LEMMA AnswerTaken ==
  ASSUME LineOK, OneAnswer, NEW token \in Answers, ReceiveByte(token)
  PROVE  Said' \cap Answers = {}
<1>1. /\ Rests(1) /\ Len(to_host) >= 1 /\ to_host[1] = token
  BY ByteRests
<1>2. /\ to_host' \in Seq(Tokens) /\ Len(to_host') = Len(to_host) - 1
      /\ \A i \in 1..Len(to_host') : to_host'[i] = to_host[i + 1]
  BY <1>1, RestIsOK
<1>3. Len(to_host) \in Nat /\ DOMAIN to_host = 1..Len(to_host) /\ DOMAIN to_host' = 1..Len(to_host')
  BY <1>2 DEF LineOK
<1>4. ASSUME NEW i \in DOMAIN to_host', to_host'[i] \in Answers PROVE FALSE
  <2>1. i + 1 \in DOMAIN to_host /\ 1 \in DOMAIN to_host /\ to_host[i + 1] \in Answers
    BY <1>1, <1>2, <1>3, <1>4
  <2>2. {to_host[i + 1], to_host[1]} \subseteq Answers
    BY <1>1, <2>1
  <2>3. i + 1 = 1
    BY <2>1, <2>2 DEF OneAnswer
  <2> QED
    BY <1>3, <2>3
<1> QED
  BY <1>4 DEF Said

(* The boot loader says one thing at a time, or nothing arrives of it. *)
LEMMA SayKeepsOneAnswer ==
  ASSUME LineOK, Said \cap Answers = {}, NEW token \in Tokens, Say(<<token>>)
  PROVE  OneAnswer'
<1>1. /\ <<token>> \in Seq(Tokens) /\ Len(<<token>>) = 1
      /\ \A n \in 1..1 : (<<token>>)[n] = token
  OBVIOUS
<1>2. /\ to_host' \in Seq(Tokens) /\ Len(to_host) <= Len(to_host')
      /\ \A i \in 1..Len(to_host) : to_host'[i] = to_host[i]
      /\ \A i \in (Len(to_host) + 1)..Len(to_host') :
           \/ to_host'[i] = "other"
           \/ i - Len(to_host) \in 1..1 /\ to_host'[i] = token
  BY <1>1, SayIsLast
<1>3. Len(to_host) \in Nat /\ DOMAIN to_host = 1..Len(to_host) /\ DOMAIN to_host' = 1..Len(to_host')
  BY <1>2 DEF LineOK
<1>4. ASSUME NEW i \in DOMAIN to_host', to_host'[i] \in Answers
      PROVE  i = Len(to_host) + 1
  <2>1. CASE i \in 1..Len(to_host)
    BY <1>2, <1>3, <1>4, <2>1 DEF Said
  <2>2. CASE i \notin 1..Len(to_host)
    <3>1. i \in (Len(to_host) + 1)..Len(to_host')
      BY <1>2, <1>3, <2>2
    <3>2. i - Len(to_host) \in 1..1
      BY <1>2, <1>4, <3>1 DEF Answers
    <3> QED
      BY <1>3, <3>1, <3>2
  <2> QED
    BY <2>1, <2>2
<1> QED
  BY <1>4 DEF OneAnswer

LEMMA NoAnswer == Said \cap Answers = {} => OneAnswer
BY DEF Said, OneAnswer

LEMMA AtBlockUnchanged ==
  ASSUME NEW k, AtBlock(k), UNCHANGED <<transferVars, propVars>>, Said' \subseteq Said
  PROVE  AtBlock(k)'
BY DEF AtBlock, Written, transferVars, propVars

LEMMA BlocksUnchanged == UNCHANGED length => Blocks' = Blocks
BY DEF Blocks

(* The acknowledgement of a block takes the host to the next one, or to the *)
(* end when there is none.                                                  *)
LEMMA AckAdvances ==
  ASSUME TypesOK, Transferring, ReceiveAck
  PROVE  Phase'
<1> USE DEF TypesOK
<1>1. /\ UNCHANGED <<length, propVars>> /\ ReceiveByte("ack")
      /\ send_pos' = send_pos + DataSize /\ block_number' = (block_number + 1) % BlockNumbers
  BY DEF ReceiveAck, AdvanceBlock
<1>2. PICK k \in 0..(Blocks - 1) : AtBlock(k)
  BY DEF Transferring
<1>3. "ack" \in Said /\ Rests(1) /\ Len(to_host) >= 1
  BY <1>1, ByteRests
<1>4. Said' \subseteq Said /\ Said' \cap Answers = {}
  BY <1>1, <1>3, RestIsOK, AnswerTaken DEF Transferring, OneUnderWay, OneAnswer, Answers
<1>5. Written(k + 1) /\ to_prop = <<>>
  BY <1>2, <1>3 DEF AtBlock, Transferring, OneUnderWay
<1>6. length \in Nat /\ Blocks \in Nat /\ k \in Nat /\ Blocks' = Blocks
  BY <1>1, <1>2, BlocksType, BlocksUnchanged, ImageAssumption DEF HostOK
<1>7. send_pos' = (k + 1) * DataSize
  <2>1. (k + 1) * DataSize = k * DataSize + DataSize
    BY <1>6, ImageAssumption
  <2> QED
    BY <1>1, <1>2, <2>1 DEF AtBlock
<1>8. Written(k + 1)' /\ mode' = mode
  BY <1>1, <1>5 DEF Written, propVars
<1>9. CASE AllAcknowledged /\ stage' \in {"eot", "exit"} /\ point' # "success" /\ UNCHANGED to_prop
  <2>1. k + 1 = Blocks
    BY <1>6, <1>7, <1>9, LastBlock DEF AllAcknowledged
  <2>2. Codes' = {}
    BY <1>5, <1>9 DEF Codes
  <2>3. Transferred'
    BY <1>4, <1>6, <1>8, <1>9, <2>1, <2>2 DEF Transferred, Transferring
  <2> QED
    BY <2>3 DEF Phase
<1>10. CASE ~AllAcknowledged /\ SendData(NextBlock) /\ stage' = "xmodem" /\ point' = "receive"
  <2>1. k + 1 < Blocks
    <3>1. (k + 1) * DataSize \in Nat
      BY <1>6, ImageAssumption
    <3> QED
      BY <1>6, <1>7, <1>10, <3>1, LastBlock DEF AllAcknowledged
  <2>2. block_number' = ((k + 1) + 1) % BlockNumbers
    <3>1. (k + 1) + 1 = k + 2
      BY <1>6
    <3> QED
      BY <1>1, <1>2, <1>6, <3>1, NumbersDiffer DEF AtBlock
  <2>3. to_prop' = <<Block(block_number', send_pos')>>
    BY <1>5, <1>10 DEF SendData, NextBlock
  <2>4. AtBlock(k + 1)'
    BY <1>4, <1>7, <1>8, <2>2 DEF AtBlock, Answers
  <2>5. k + 1 \in 0..(Blocks' - 1)
    BY <1>6, <2>1
  <2>6. OneUnderWay'
    BY <1>4, <1>10, <2>3, NoAnswer DEF OneUnderWay, OneAnswer, Answers, Said, Block
  <2>7. Transferring'
    BY <1>4, <1>8, <1>10, <2>4, <2>5, <2>6 DEF Transferring
  <2> QED
    BY <2>7 DEF Phase
<1>11. length = 0 => AllAcknowledged
  <2>1. (k + 1) * DataSize \in Nat
    BY <1>6, ImageAssumption
  <2> QED
    BY <1>1, <1>7, <2>1 DEF AllAcknowledged
<1> QED
  BY <1>9, <1>10, <1>11 DEF ReceiveAck

(* The boot loader hears the block under way. *)
LEMMA BlockHeard ==
  ASSUME TypesOK, Transferring, PropHears
  PROVE  Phase'
<1> USE DEF TypesOK
<1>1. /\ to_prop = <<Block(block_number, send_pos)>> /\ to_prop' = Tail(to_prop)
      /\ UNCHANGED <<stage, point, transferVars>>
  BY DEF PropHears, hostVars, Transferring, OneUnderWay
<1>2. /\ to_prop # <<>> /\ to_prop' = <<>> /\ Head(to_prop) = Block(block_number, send_pos)
      /\ Said \cap Answers = {}
  BY <1>1 DEF Transferring, OneUnderWay, Answers
<1>3. /\ Head(to_prop).code = "soh" /\ Head(to_prop).number = block_number
      /\ Head(to_prop).pos = send_pos
  BY <1>2 DEF Block
<1>4. PICK k \in 0..(Blocks - 1) : AtBlock(k)
  BY DEF Transferring
<1>5. k \in Nat /\ Blocks' = Blocks /\ Blocks \in Nat
  BY <1>1, <1>4, BlocksType, BlocksUnchanged, ImageAssumption DEF HostOK, transferVars
<1>6. ASSUME mode' \in {"upload", "menu"}, AtBlock(k)', OneAnswer', "go" \notin Said'
      PROVE  Phase'
  <2>1. OneUnderWay'
    BY <1>1, <1>2, <1>6 DEF OneUnderWay, OneAnswer, Answers, Transferring
  <2>2. Transferring'
    BY <1>1, <1>4, <1>5, <1>6, <2>1 DEF Transferring
  <2> QED
    BY <2>2 DEF Phase
<1>7. CASE UNCHANGED <<propVars, to_host>>
  <2>1. Said' = Said /\ UNCHANGED transferVars
    BY <1>1, <1>7, NobodySpeaks
  <2> QED
    BY <1>2, <1>4, <1>6, <1>7, <2>1, AtBlockUnchanged, NoAnswer
       DEF Transferring, propVars, OneAnswer, Said, Answers
<1>8. CASE PropWrites
  <2>1. /\ block_number = Expected /\ flashed' = Append(flashed, send_pos) /\ Say(<<"ack">>)
        /\ UNCHANGED <<mode, erased>>
    BY <1>3, <1>8 DEF PropWrites
  <2>2. Len(flashed) = k
    <3>1. (k + 2) % BlockNumbers # (k + 1) % BlockNumbers
      BY <1>5, NumbersDiffer
    <3>2. CASE Len(flashed) = k + 1
      <4>1. (k + 1) + 1 = k + 2
        BY <1>5
      <4> QED
        BY <1>4, <2>1, <3>1, <3>2, <4>1 DEF Expected, AtBlock
    <3> QED
      BY <1>4, <3>2 DEF AtBlock, Written
  <2>3. Written(k)
    <3>1. k # k + 1
      BY <1>5
    <3> QED
      BY <1>4, <2>2, <3>1 DEF AtBlock, Written
  <2>4. Written(k + 1)'
    <3>1. /\ flashed' \in Seq(Nat) /\ Len(flashed') = k + 1 /\ flashed'[k + 1] = send_pos
          /\ \A i \in 1..k : flashed'[i] = flashed[i]
      BY <2>1, <2>2 DEF PropOK, HostOK
    <3>2. send_pos = ((k + 1) - 1) * DataSize
      BY <1>4, <1>5 DEF AtBlock
    <3>3. ASSUME NEW i \in 1..(k + 1) PROVE flashed'[i] = (i - 1) * DataSize
      BY <1>5, <2>3, <3>1, <3>2, <3>3 DEF Written
    <3> QED
      BY <2>1, <2>3, <3>1, <3>3 DEF Written
  <2>5. Said' \subseteq Said \cup {"other", "ack"} /\ OneAnswer'
    BY <1>2, <2>1, PropTokens, SayKeepsOneAnswer, Vocabulary
  <2> QED
    BY <1>1, <1>4, <1>6, <2>1, <2>4, <2>5 DEF AtBlock, transferVars, Transferring
<1>9. CASE PropHearsBlock /\ UNCHANGED <<erased, flashed>>
  <2>1. mode' \in {"upload", "menu"}
    BY <1>9 DEF PropHearsBlock, Hears
  <2>2. PICK token \in {"ack", "nak", "can"} :
          Say(<<token>>) /\ (token = "ack" => block_number = Previous)
    BY <1>3, <1>9 DEF PropHearsBlock
  <2>3. Said' \subseteq Said \cup {"other", token} /\ OneAnswer'
    BY <1>2, <2>2, PropTokens, SayKeepsOneAnswer, Vocabulary
  <2>4. "ack" \in Said' => Written(k + 1)
    <3>1. CASE token = "ack" /\ Len(flashed) = k
      BY <1>4, <1>5, <2>2, <3>1, NumbersDiffer DEF Previous, AtBlock
    <3>2. CASE token = "ack" /\ Len(flashed) # k
      BY <1>4, <3>2 DEF AtBlock, Written
    <3>3. CASE token # "ack"
      BY <1>2, <2>3, <3>3 DEF Answers
    <3> QED
      BY <3>1, <3>2, <3>3
  <2>5. AtBlock(k)'
    BY <1>1, <1>4, <1>9, <2>4 DEF AtBlock, Written, transferVars
  <2> QED
    BY <1>6, <2>1, <2>3, <2>5 DEF Transferring
<1> QED
  BY <1>3, <1>7, <1>8, <1>9
     DEF PropHears, PropMenu, PropCancels, PropEnds, PropErases, PropUploads, Hears, Transferring

LEMMA TransferringStep ==
  ASSUME TypesOK, Transferring, [Next]_vars
  PROVE  Phase'
<1> USE DEF TypesOK
<1>1. CASE UNCHANGED vars
  BY <1>1 DEF vars, hostVars, transferVars, propVars, Phase, Transferring, OneUnderWay, AtBlock,
              Written, Said, Blocks, Block
<1>2. PICK k \in 0..(Blocks - 1) : AtBlock(k)
  BY DEF Transferring
<1>3. ASSUME UNCHANGED <<transferVars, propVars>>, Said' \subseteq Said \/ Said' \cap {"ack", "go"} = {},
             stage' \in {"xmodem", "exit"}, point' \notin {"success", "nak"}, OneUnderWay'
      PROVE  Phase'
  <2>1. Blocks' = Blocks /\ AtBlock(k)'
    BY <1>2, <1>3, BlocksUnchanged DEF AtBlock, Written, transferVars, propVars
  <2>2. Transferring'
    BY <1>2, <1>3, <2>1 DEF Transferring, propVars
  <2> QED
    BY <2>2 DEF Phase
<1>4. OneAnswer
  BY DEF Transferring, OneUnderWay, OneAnswer, Answers
<1>5. CASE IoFails
  <2>1. /\ UNCHANGED <<transferVars, propVars, to_prop, to_host>>
        /\ stage' = "exit" /\ point' = "failure"
    BY <1>5 DEF IoFails
  <2>2. Said' = Said
    BY <2>1, NobodySpeaks
  <2>3. OneUnderWay'
    BY <2>1, <2>2 DEF Transferring, OneUnderWay, transferVars, Block
  <2> QED
    BY <1>3, <2>1, <2>2, <2>3
<1>6. CASE Host
  <2>1. Said' \subseteq Said /\ \E m \in 0..Len(to_host) : Rests(m)
    BY <1>6, HostHears, HostRests
  <2>2. OneAnswer'
    BY <1>4, <2>1, RestKeepsOneAnswer
  <2>3. stage = "xmodem"
    BY <1>6 DEF Host, Transferring, CommandOf, BootSend, BootOtherLine, BootSilence, BootMessage,
                DiscardByte, DiscardEnds, SendCommand, CommandAnswered, CommandRetried, Confirm,
                EraseFinished, EraseAwaited, AwaitNak, SendFirstBlock, ReceiveAck, ReceiveNak,
                ReceiveCan, ReceiveNothing
  <2>4. CASE SendFirstBlock
    <3>1. /\ point = "first" /\ to_prop = <<>> /\ Said \cap Answers = {}
          /\ stage' = "xmodem" /\ point' = "receive" /\ UNCHANGED <<transferVars, propVars>>
          /\ SendData(Block(block_number, send_pos))
      BY <2>4 DEF SendFirstBlock, SendFlushBlockData, Transferring, OneUnderWay, Answers
    <3>2. to_prop' = <<Block(block_number', send_pos')>>
      BY <3>1 DEF SendData, transferVars, Block
    <3>3. OneUnderWay'
      BY <2>1, <2>2, <3>1, <3>2 DEF OneUnderWay, OneAnswer, Answers
    <3> QED
      BY <1>3, <2>1, <3>1, <3>3
  <2>5. CASE ReceiveNak
    <3>1. /\ ReceiveByte("nak") /\ Retry("receive") /\ UNCHANGED <<transferVars, propVars>>
          /\ SendData(Block(block_number, send_pos)) \/ UNCHANGED to_prop
      BY <2>5 DEF ReceiveNak, SendFlushBlockData
    <3>2. "nak" \in Said /\ to_prop = <<>>
      BY <3>1, ByteRests DEF Transferring, OneUnderWay
    <3>3. Said' \cap Answers = {}
      BY <1>4, <3>1, AnswerTaken DEF Answers
    <3>4. to_prop' \in {<<>>, <<Block(block_number', send_pos')>>}
      BY <3>1, <3>2 DEF SendData, transferVars, Block
    <3>5. stage' \in {"xmodem", "exit"} /\ point' \in {"receive", "failure"}
      BY <3>1 DEF Retry
    <3>6. OneUnderWay'
      BY <2>2, <3>3, <3>4, <3>5 DEF OneUnderWay, OneAnswer, Answers
    <3> QED
      BY <1>3, <2>1, <3>1, <3>5, <3>6
  <2>6. CASE ReceiveCan \/ ReceiveNothing
    <3>1. UNCHANGED <<transferVars, propVars, to_prop>>
      BY <2>6 DEF ReceiveCan, ReceiveNothing
    <3>2. stage' \in {"xmodem", "exit"} /\ point' \in {"receive", "failure"}
      BY <2>6 DEF ReceiveCan, ReceiveNothing, Retry
    <3>3. OneUnderWay'
      BY <2>1, <2>2, <3>1, <3>2
         DEF Transferring, OneUnderWay, OneAnswer, Answers, transferVars, Block
    <3> QED
      BY <1>3, <2>1, <3>1, <3>2, <3>3
  <2>7. ~AwaitNak
    BY DEF AwaitNak, Transferring
  <2> QED
    BY <1>6, <2>3, <2>4, <2>5, <2>6, <2>7, AckAdvances
       DEF Host, CommandOf, BootSend, BootOtherLine, BootSilence, BootMessage,
           DiscardByte, DiscardEnds, SendCommand, CommandAnswered, CommandRetried, Confirm,
           EraseFinished, EraseAwaited
<1>7. CASE PropAsks \/ Noise
  <2>1. PICK token \in {"nak", "other"} : to_host = <<>> /\ to_host' = <<token>>
          /\ (token = "nak" => to_prop = <<>> /\ Listening)
    BY <1>7 DEF PropAsks, Noise
  <2>2. Said' = {token} /\ DOMAIN to_host' = 1..1
    BY <2>1, OnlyToken
  <2>3. UNCHANGED <<stage, point, transferVars, propVars, to_prop>>
    BY <1>7 DEF PropAsks, Noise, hostVars
  <2>4. token = "nak" => point # "first"
    BY <2>1 DEF Listening
  <2>5. OneUnderWay'
    BY <2>1, <2>2, <2>3, <2>4 DEF Transferring, OneUnderWay, transferVars, Block
  <2> QED
    BY <1>3, <2>2, <2>3, <2>5 DEF Transferring
<1>8. ~PropBoots
  BY DEF PropBoots, Transferring
<1> QED
  BY <1>1, <1>5, <1>6, <1>7, <1>8, BlockHeard DEF Next, Prop, Terminated
(* After the transfer only the end of it and the start are asked for. *)
LEMMA TransferredStep ==
  ASSUME TypesOK, Transferred, [Next]_vars
  PROVE  Phase'
<1> USE DEF TypesOK
<1>1. ASSUME UNCHANGED <<length, erased, flashed>> PROVE Written(Blocks)'
  <2>1. Blocks' = Blocks
    BY <1>1, BlocksUnchanged
  <2> QED
    BY <1>1, <2>1 DEF Transferred, Written
<1>2. ASSUME UNCHANGED <<length, erased, flashed>>, stage' \in {"eot", "run", "exit"},
             mode' \in {"upload", "menu", "run"}, Codes' \subseteq {"eot", "g"},
             "go" \in Said' \/ point' = "success" => mode' = "run"
      PROVE  Phase'
  <2>1. Transferred'
    BY <1>1, <1>2 DEF Transferred
  <2> QED
    BY <2>1 DEF Phase
<1>3. CASE UNCHANGED vars
  <2>1. Codes' = Codes /\ Said' = Said
    BY <1>3, NothingSent, NobodySpeaks DEF vars
  <2> QED
    BY <1>2, <1>3, <2>1 DEF vars, hostVars, transferVars, propVars, Transferred
<1>4. CASE IoFails
  <2>1. Codes' = Codes /\ Said' = Said
    BY <1>4, NothingSent, NobodySpeaks DEF IoFails
  <2> QED
    BY <1>2, <1>4, <2>1 DEF IoFails, transferVars, propVars, Transferred
<1>5. CASE Host
  <2>1. Said' \subseteq Said
    BY <1>5, HostHears
  <2>2. CASE SendCommand
    <3>1. PICK code \in {"eot", "g"} : SendData(Frame(code))
      BY <2>2 DEF SendCommand, Transferred, CommandOf
    <3>2. Frame(code) \in FrameType /\ Frame(code).code = code
      BY FrameIsOK
    <3>3. Codes' = Codes \cup {code}
      BY <3>1, <3>2, SendIsLast
    <3>4. /\ stage' \in {"eot", "run"} /\ point' = "check"
          /\ UNCHANGED <<transferVars, propVars>>
      BY <2>2 DEF SendCommand, Transferred, CommandOf
    <3> QED
      BY <1>2, <2>1, <3>3, <3>4 DEF transferVars, propVars, Transferred
  <2>3. CASE CommandAnswered
    <3>1. UNCHANGED <<to_prop, transferVars, propVars>>
      BY <2>3 DEF CommandAnswered
    <3>2. \/ stage = "eot" /\ stage' = "run" /\ point' = "send"
          \/ stage = "run" /\ stage' = "exit" /\ point' = "success" /\ ReceiveLine("go")
      <4>1. stage \in {"eot", "run"}
        BY <2>3 DEF CommandAnswered, Transferred, CommandOf
      <4>2. CASE stage = "eot"
        BY <2>3, <4>2 DEF CommandAnswered
      <4>3. CASE stage = "run"
        BY <2>3, <4>3 DEF CommandAnswered, CheckMessageOf, MessageReceived
      <4> QED
        BY <4>1, <4>2, <4>3
    <3>3. point' = "success" => "go" \in Said
      BY <3>2, LineRests
    <3>4. Codes' = Codes
      BY <3>1, NothingSent
    <3> QED
      BY <1>2, <2>1, <3>1, <3>2, <3>3, <3>4 DEF transferVars, propVars, Transferred
  <2>4. CASE CommandRetried
    <3>1. UNCHANGED <<to_prop, transferVars, propVars>>
      BY <2>4 DEF CommandRetried
    <3>2. stage' \in {"eot", "run", "exit"} /\ point' # "success"
      BY <2>4 DEF CommandRetried, Transferred
    <3>3. Codes' = Codes
      BY <3>1, NothingSent
    <3> QED
      BY <1>2, <2>1, <3>1, <3>2, <3>3 DEF transferVars, propVars, Transferred
  <2> QED
    BY <1>5, <2>2, <2>3, <2>4
       DEF Host, Transferred, BootSend, BootOtherLine, BootSilence, BootMessage, DiscardByte,
           DiscardEnds, Confirm, EraseFinished, EraseAwaited, AwaitNak, SendFirstBlock,
           ReceiveAck, ReceiveNak, ReceiveCan, ReceiveNothing
<1>6. CASE PropHears
  <2>1. /\ to_prop # <<>> /\ to_prop' = Tail(to_prop) /\ UNCHANGED <<stage, point, transferVars>>
    BY <1>6 DEF PropHears, hostVars
  <2>2. Codes' \subseteq Codes /\ Head(to_prop).code \in {"eot", "g"}
    BY <2>1, HearIsFirst DEF Transferred
  <2>3. CASE UNCHANGED <<propVars, to_host>>
    BY <1>2, <2>1, <2>2, <2>3, NobodySpeaks DEF Transferred, propVars, transferVars
  <2>4. CASE /\ PropMenu \/ PropCancels \/ PropHearsBlock \/ PropEnds
             /\ UNCHANGED <<erased, flashed>>
    <3>1. \/ mode' = "run" /\ Say(<<"go">>)
          \/ mode = "upload" /\ mode' = "menu" /\ Say(<<"success">>)
      BY <2>2, <2>4 DEF PropMenu, PropCancels, PropHearsBlock, PropEnds, Hears, Transferred
    <3>2. \/ mode' = "run"
          \/ mode' = "menu" /\ mode # "run" /\ Said' \subseteq Said \cup {"success", "other"}
      BY <3>1, PropTokens, Vocabulary
    <3> QED
      BY <1>2, <2>1, <2>2, <2>4, <3>2 DEF Transferred, transferVars
  <2> QED
    BY <1>6, <2>2, <2>3, <2>4
       DEF PropHears, PropErases, PropUploads, PropWrites, Hears, Transferred
<1>7. CASE PropAsks \/ Noise
  <2>1. Said' \subseteq {"nak", "other"}
    BY <1>7, OnlyToken DEF PropAsks, Noise
  <2>2. UNCHANGED <<hostVars, to_prop, propVars>>
    BY <1>7 DEF PropAsks, Noise
  <2>3. Codes' = Codes
    BY <2>2, NothingSent
  <2> QED
    BY <1>2, <2>1, <2>2, <2>3 DEF Transferred, hostVars, transferVars, propVars
<1>8. ~PropBoots
  BY DEF PropBoots, Transferred
<1> QED
  BY <1>3, <1>4, <1>5, <1>6, <1>7, <1>8 DEF Next, Prop, Terminated

----------------------------------------------------------------------------
(* The invariant and what follows from it *)

LEMMA InvInit == Init => Inv
<1> SUFFICES ASSUME Init PROVE Inv
  OBVIOUS
<1>1. DOMAIN CommandOf = {"erase", "flush", "eot", "run"}
  BY DEF CommandOf
<1>2. HostOK
  BY BlockNumbersAssumption, RetryAssumption DEF Init, HostOK, Stages, Points
<1>3. LineOK
  BY LineAssumption DEF Init, LineOK
<1>4. PropOK
  <2>1. mode \in Modes /\ erased \in BOOLEAN
    BY DEF Init, Modes
  <2>2. <<>> \in Seq(Nat)
    OBVIOUS
  <2> QED
    BY <2>1, <2>2 DEF Init, PropOK
<1>5. CountsOK
  BY <1>1, RetryAssumption DEF Init, CountsOK
<1>6. Codes = {} /\ Said = {} /\ LastIsYes
  BY DEF Init, Codes, Said, LastIsYes
<1>7. BeforeFlush
  BY <1>6 DEF Init, BeforeFlush, AtStart
<1> QED
  BY <1>2, <1>3, <1>4, <1>5, <1>7, TypeParts DEF Inv, Phase

LEMMA InvNext == Inv /\ [Next]_vars => Inv'
<1> SUFFICES ASSUME Inv, [Next]_vars PROVE Inv'
  OBVIOUS
<1>1. TypesOK
  BY TypeParts DEF Inv, TypesOK
<1>2. HostOK' /\ LineOK' /\ PropOK' /\ CountsOK'
  BY <1>1, CountsStep, LineStep, PropStep DEF TypesOK
<1>3. TypeOK'
  BY <1>2, TypeParts DEF TypeOK, HostOK, LineOK, PropOK, FrameType
<1>4. Phase'
  BY <1>1, BeforeFlushStep, AskingStep, TransferringStep, TransferredStep DEF Inv, Phase
<1> QED
  BY <1>2, <1>3, <1>4 DEF Inv

LEMMA InvHolds == Spec => []Inv
BY InvInit, InvNext, PTL DEF Spec

(***************************************************************************)
(* Type correctness, and with it the bounds on attempts, turns and tokens  *)
(* that every loop of exxx_flush keeps (WaitBoot, SendCommand, Erase,      *)
(* FlushXmodem).                                                           *)
(***************************************************************************)
THEOREM TypeCorrect == Spec => []TypeOK
<1>1. Inv => TypeOK
  BY DEF Inv
<1> QED
  BY <1>1, InvHolds, PTL

(* In the first two phases nothing is written, in the others an image is.   *)
LEMMA WrittenIsImage ==
  ASSUME NEW n \in Nat, Written(n), n <= Blocks
  PROVE  FlashedIsImage
BY DEF Written, FlashedIsImage

LEMMA InvImpliesImage == Inv => FlashedIsImage
<1> SUFFICES ASSUME Inv PROVE FlashedIsImage
  OBVIOUS
<1>1. TypesOK
  BY TypeParts DEF Inv, TypesOK
<1>2. Blocks \in Nat \ {0}
  BY <1>1, BlocksType, ImageAssumption DEF TypesOK, HostOK
<1>3. CASE flashed = <<>>
  BY <1>2, <1>3 DEF FlashedIsImage
<1>4. CASE Transferring
  <2>1. PICK k \in 0..(Blocks - 1) : Written(k) \/ Written(k + 1)
    BY <1>4 DEF Transferring, AtBlock
  <2> QED
    BY <1>2, <2>1, WrittenIsImage
<1>5. CASE Transferred
  BY <1>2, <1>5, WrittenIsImage DEF Transferred
<1> QED
  BY <1>3, <1>4, <1>5 DEF Inv, Phase, BeforeFlush, Asking, AtStart

(***************************************************************************)
(* The boot loader has written a beginning of the image, block by block    *)
(* from position 0, for every image and however small the range in which   *)
(* the block number wraps, as long as it tells a block from its neighbours *)
(* (FlushXmodem, SendFlushBlockData).                                      *)
(***************************************************************************)
THEOREM ImageIsFlashed == Spec => []FlashedIsImage
BY InvHolds, InvImpliesImage, PTL

LEMMA InvImpliesWhole == Inv => OnlyWholeImageRuns /\ SuccessMeansRunning
<1>1. Transferred => Whole
  BY DEF Transferred, Written, Whole
<1> QED
  BY <1>1 DEF Inv, Phase, BeforeFlush, Asking, Transferring, Transferred,
              OnlyWholeImageRuns, SuccessMeansRunning

(***************************************************************************)
(* An amplifier that is told that the transfer is over, or to start, holds *)
(* the whole image: whatever was lost, garbled or tried again before, and  *)
(* wherever the program has failed (FlushXmodem, Run, main).               *)
(***************************************************************************)
THEOREM RunsWholeImage == Spec => []OnlyWholeImageRuns
<1>1. Inv => OnlyWholeImageRuns
  BY InvImpliesWhole
<1> QED
  BY <1>1, InvHolds, PTL

(***************************************************************************)
(* "Success Flush" is never printed of an amplifier that does not run the  *)
(* whole new image (main).                                                 *)
(***************************************************************************)
THEOREM SuccessIsTrue == Spec => []SuccessMeansRunning
<1>1. Inv => SuccessMeansRunning
  BY InvImpliesWhole
<1> QED
  BY <1>1, InvHolds, PTL


=============================================================================
