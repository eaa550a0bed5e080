---------------------------- MODULE Mpu9150_proofs ----------------------------
(***************************************************************************)
(* Proofs about the node of the gyro sensor (Mpu9150), for every number of *)
(* samples, faults and requests, whatever a read returns, and for every    *)
(* length of the window of judged cycles.                                  *)
(***************************************************************************)
EXTENDS Mpu9150, DataInduction

Byte == 0..255

-----------------------------------------------------------------------------
(* The bytes on the line *)

(* A sum is made byte by byte. *)
LEMMA SumSteps ==
  ASSUME NEW bytes \in Seq(Int)
  PROVE  \E G \in [0..Len(bytes) -> Int] :
           /\ G[0] = 0
           /\ \A k \in 1..Len(bytes) : G[k] = G[k - 1] + bytes[k]
           /\ FoldLeft(+, 0, bytes) = G[Len(bytes)]
<1> DEFINE n == Len(bytes)
           D == 1..n
           iter == CHOOSE g : g = [s \in SUBSET D |->
                     IF s = {} THEN 0 ELSE g[s \ {Max(s)}] + bytes[Max(s)]]
<1>1. n \in Nat /\ DOMAIN bytes = D /\ \A i \in D : bytes[i] \in Int
  BY LenProperties, ElementOfSeq
<1>2. FoldLeft(+, 0, bytes) = iter[D]
  BY <1>1 DEF FoldLeft, MapThenFoldSet
<1>3. \E g : g = [s \in SUBSET D |-> IF s = {} THEN 0 ELSE g[s \ {Max(s)}] + bytes[Max(s)]]
  <2> DEFINE F == [p \in Int \X D |-> p[1] + bytes[p[2]]]
  <2>1. F \in [Int \X (1..n) -> Int] /\ 0 \in Int
    <3>1. ASSUME NEW p \in Int \X (1..n) PROVE p[1] + bytes[p[2]] \in Int
      <4>1. p[1] \in Int /\ p[2] \in 1..n
        OBVIOUS
      <4>2. bytes[p[2]] \in Int
        BY <1>1, <4>1
      <4> QED
        BY <4>1, <4>2
    <3> QED
      BY <3>1
  <2>2. PICK g : /\ IsFold(g, n, 0, F)
                 /\ \A s \in SUBSET D : g[s] \in Int /\ (s = {} \/ Max(s) \in s)
    <3> HIDE DEF F
    <3> QED
      BY <1>1, <2>1, FoldExists
  <2>3. ASSUME NEW s \in SUBSET D, s # {}
        PROVE  F[<<g[s \ {Max(s)}], Max(s)>>] = g[s \ {Max(s)}] + bytes[Max(s)]
    <3>1. s \ {Max(s)} \in SUBSET D /\ Max(s) \in D
      BY <2>2, <2>3
    <3>2. <<g[s \ {Max(s)}], Max(s)>> \in Int \X D
      BY <2>2, <3>1
    <3> QED
      BY <3>2
  <2> HIDE DEF F
  <2>4. g = [s \in SUBSET D |-> IF s = {} THEN 0 ELSE F[<<g[s \ {Max(s)}], Max(s)>>]]
    BY <2>2 DEF IsFold
  <2>5. g = [s \in SUBSET D |-> IF s = {} THEN 0 ELSE g[s \ {Max(s)}] + bytes[Max(s)]]
    BY <2>3, <2>4
  <2> QED
    BY <2>5
<1>4. iter = [s \in SUBSET D |-> IF s = {} THEN 0 ELSE iter[s \ {Max(s)}] + bytes[Max(s)]]
  BY <1>3
<1> HIDE DEF iter
<1> DEFINE G == [k \in 0..n |-> iter[1..k]]
<1>5. iter[{}] = 0 /\ 1..0 = {}
  BY <1>4
<1>6. ASSUME NEW k \in 1..n PROVE iter[1..k] = iter[1..k - 1] + bytes[k]
  <2>1. 1..k \in SUBSET D /\ 1..k # {} /\ Max(1..k) = k /\ (1..k) \ {k} = 1..k - 1
    BY <1>1, Prefix
  <2> QED
    BY <1>4, <2>1
<1>7. \A k \in Nat : k <= n => iter[1..k] \in Int
  <2> DEFINE I == {k \in Nat : k <= n => iter[1..k] \in Int}
  <2>1. 0 \in I
    BY <1>5
  <2>2. ASSUME NEW k \in Nat, k \in I PROVE k + 1 \in I
    <3>1. SUFFICES ASSUME k + 1 <= n PROVE iter[1..k + 1] \in Int
      OBVIOUS
    <3>2. k + 1 \in 1..n /\ (k + 1) - 1 = k /\ k <= n
      BY <1>1, <3>1
    <3>3. iter[1..k + 1] = iter[1..k] + bytes[k + 1]
      BY <1>6, <3>2
    <3>4. bytes[k + 1] \in Int /\ iter[1..k] \in Int
      BY <1>1, <2>2, <3>2
    <3> QED
      BY <3>3, <3>4
  <2> HIDE DEF I
  <2>3. Nat \subseteq I
    BY <2>1, <2>2, Induction
  <2> QED
    BY <2>3 DEF I
<1>8. /\ G \in [0..n -> Int] /\ G[0] = 0 /\ G[n] = iter[D]
      /\ \A k \in 1..n : G[k] = G[k - 1] + bytes[k]
  <2>1. 0 \in 0..n /\ n \in 0..n /\ \A k \in 1..n : k \in 0..n /\ k - 1 \in 0..n
    BY <1>1
  <2> QED
    BY <1>1, <1>5, <1>6, <1>7, <2>1
<1> QED
  BY <1>2, <1>8

LEMMA SumIsInt ==
  ASSUME NEW bytes \in Seq(Int)
  PROVE  FoldLeft(+, 0, bytes) \in Int
<1>1. Len(bytes) \in Nat /\ Len(bytes) \in 0..Len(bytes)
  BY LenProperties
<1>2. PICK G \in [0..Len(bytes) -> Int] : FoldLeft(+, 0, bytes) = G[Len(bytes)]
  BY SumSteps
<1> QED
  BY <1>1, <1>2

LEMMA ChecksumIsByte ==
  ASSUME NEW bytes \in Seq(Byte)
  PROVE  Checksum(bytes) \in Byte
<1>1. bytes \in Seq(Int)
  <2>1. \A i \in 1..Len(bytes) : bytes[i] \in Int
    <3>1. \A i \in 1..Len(bytes) : bytes[i] \in Byte
      BY ElementOfSeq
    <3>2. \A b \in Byte : b \in Int
      BY DEF Byte
    <3> QED
      BY <3>1, <3>2
  <2> QED
    BY <2>1, LenProperties, SeqDef
<1>2. FoldLeft(+, 0, bytes) \in Int
  BY <1>1, SumIsInt
<1>3. \A sum \in Int : 255 - (sum % 256) \in 0..255
  OBVIOUS
<1> QED
  BY <1>2, <1>3 DEF Checksum, Byte

LEMMA PacketIsBytes ==
  ASSUME NEW data \in Seq(Byte), Len(data) < 255
  PROVE  Packet(data) \in Seq(Byte) /\ Len(Packet(data)) = Len(data) + 4
<1> DEFINE start == <<kMPU9150Header1Command, kMPU9150Header2Command, Len(data) + 1>>
           frame == start \o data
<1>1. Len(data) \in Nat
  BY LenProperties
<1>2. start \in Seq(Byte) /\ Len(start) = 3
  <2>1. 64 \in Byte /\ 71 \in Byte /\ Len(data) + 1 \in Byte
    <3>1. 64 \in 0..255 /\ 71 \in 0..255 /\ Len(data) + 1 \in 0..255
      <4>1. \A l \in Nat : l < 255 => l + 1 \in 0..255
        OBVIOUS
      <4>2. Len(data) + 1 \in 0..255
        BY <1>1, <4>1
      <4> QED
        BY <4>2
    <3> QED
      BY <3>1 DEF Byte
  <2>2. \A a, b, c \in Byte : <<a, b, c>> \in Seq(Byte) /\ Len(<<a, b, c>>) = 3
    OBVIOUS
  <2> QED
    BY <2>1, <2>2 DEF kMPU9150Header1Command, kMPU9150Header2Command
<1> HIDE DEF start
<1>3. frame \in Seq(Byte) /\ Len(frame) = 3 + Len(data)
  <2>1. frame \in Seq(Byte) /\ Len(frame) = Len(start) + Len(data)
    BY <1>2, ConcatProperties
  <2> QED
    BY <1>2, <2>1
<1> HIDE DEF frame
<1>4. Checksum(frame) \in Byte
  BY <1>3, ChecksumIsByte
<1>5. Append(frame, Checksum(frame)) \in Seq(Byte) /\ Len(Append(frame, Checksum(frame))) = Len(frame) + 1
  BY <1>3, <1>4, AppendProperties
<1>6. Packet(data) = Append(frame, Checksum(frame))
  BY DEF Packet, frame, start
<1> QED
  BY <1>1, <1>3, <1>5, <1>6

LEMMA SampleIsBytes ==
  ASSUME NEW k \in Byte, NEW stamp \in Byte
  PROVE  Sample(k, stamp) \in Seq(Byte) /\ Len(Sample(k, stamp)) = 7
<1> DEFINE data == <<kMPU9150Header1Command, k, stamp>>
<1>1. data \in Seq(Byte) /\ Len(data) = 3
  BY DEF Byte, kMPU9150Header1Command
<1> HIDE DEF data
<1>2. Packet(data) \in Seq(Byte) /\ Len(Packet(data)) = Len(data) + 4
  <2>1. Len(data) < 255
    BY <1>1
  <2> QED
    BY <1>1, <2>1, PacketIsBytes
<1> QED
  BY <1>1, <1>2 DEF Sample, data

LEMMA PacketSize == kPacketSize = 7
<1>1. 0 \in Byte
  BY DEF Byte
<1> QED
  BY <1>1, SampleIsBytes DEF kPacketSize

LEMMA ReplyIsBytes == Reply \in Seq(Byte)
<1>1. <<>> \in Seq(Byte) /\ Len(<<>>) = 0
  OBVIOUS
<1>2. Len(<<>>) < 255
  BY <1>1
<1> QED
  BY <1>1, <1>2, PacketIsBytes DEF Reply

LEMMA DamagedIsBytes ==
  ASSUME NEW packet \in Seq(Byte), NEW d \in Damaged(packet)
  PROVE  d \in Seq(Byte)
<1>1. PICK i \in 1..Len(packet) :
        \/ d = [packet EXCEPT ![i] = (@ + 1) % 256]
        \/ d = SubSeq(packet, 1, i - 1) \o SubSeq(packet, i + 1, Len(packet))
  BY DEF Damaged
<1>2. Len(packet) \in Nat /\ \A j \in 1..Len(packet) : packet[j] \in Byte
  BY LenProperties, ElementOfSeq
<1>3. CASE d = [packet EXCEPT ![i] = (@ + 1) % 256]
  <2>1. (packet[i] + 1) % 256 \in Byte
    <3>1. packet[i] \in 0..255
      BY <1>2 DEF Byte
    <3>2. \A b \in 0..255 : (b + 1) % 256 \in 0..255
      OBVIOUS
    <3> QED
      BY <3>1, <3>2 DEF Byte
  <2> QED
    BY <1>2, <1>3, <2>1, ExceptSeq
<1>4. CASE d = SubSeq(packet, 1, i - 1) \o SubSeq(packet, i + 1, Len(packet))
  <2>1. SubSeq(packet, 1, i - 1) \in Seq(Byte) /\ SubSeq(packet, i + 1, Len(packet)) \in Seq(Byte)
    <3>1. /\ 1 \in Int /\ i - 1 \in Int /\ i + 1 \in Int /\ Len(packet) \in Int
          /\ \A j \in 1..i - 1 : packet[j] \in Byte
          /\ \A j \in i + 1..Len(packet) : packet[j] \in Byte
      BY <1>2
    <3> QED
      BY <3>1, SubSeqProperties
  <2> QED
    BY <1>4, <2>1, ConcatProperties
<1> QED
  BY <1>1, <1>3, <1>4

LEMMA PutBytes ==
  ASSUME line \in Seq(Byte), NEW packet \in Seq(Byte), Put(packet)
  PROVE  line' \in Seq(Byte)
<1>1. PICK d \in Damaged(packet) \cup {<<>>, packet} : line' = line \o d
  BY DEF Put
<1>2. d \in Seq(Byte)
  <2>1. <<>> \in Seq(Byte)
    OBVIOUS
  <2> QED
    BY <1>1, <2>1, DamagedIsBytes
<1> QED
  BY <1>1, <1>2, ConcatProperties
-----------------------------------------------------------------------------
(* What the parser makes of bytes *)

ParserStates ==
  [state : {"Header1", "Header2", "Length", "Data", "Checksum"},
   packet : Seq(Byte), packets : Seq(Byte), reply : BOOLEAN]

LEMMA TryParseType ==
  ASSUME NEW p \in ParserStates, NEW input \in Byte
  PROVE  TryParse(p, input) \in ParserStates
<1>1. <<>> \in Seq(Byte)
  OBVIOUS
<1>2. Restart(p) \in ParserStates
  BY <1>1 DEF Restart, ParserStates
<1>3. Append(p.packet, input) \in Seq(Byte) /\ p.packets \in Seq(Byte)
  BY AppendProperties DEF ParserStates
<1>4. ASSUME NEW state \in {"Header1", "Header2", "Length", "Data", "Checksum"}
      PROVE  Keep(p, input, state) \in ParserStates
  BY <1>3 DEF Keep, ParserStates
<1>5. Finish(p, input) \in ParserStates
  <2> DEFINE all == [Restart(p) EXCEPT !.packets = p.packets \o Append(p.packet, input)]
  <2>1. p.packets \o Append(p.packet, input) \in Seq(Byte)
    BY <1>3, ConcatProperties
  <2>2. all \in ParserStates
    BY <1>2, <2>1 DEF ParserStates
  <2> HIDE DEF all
  <2>3. [all EXCEPT !.reply = TRUE] \in ParserStates
    BY <2>2 DEF ParserStates
  <2>4. \/ Finish(p, input) = Restart(p)
        \/ Finish(p, input) = [all EXCEPT !.reply = TRUE]
        \/ Finish(p, input) = all
    BY DEF Finish, all
  <2> QED
    BY <1>2, <2>2, <2>3, <2>4
<1>6. p.state \in {"Header1", "Header2", "Length", "Data", "Checksum"}
  BY DEF ParserStates
<1>7. CASE p.state = "Header1"
  BY <1>4, <1>7 DEF TryParse
<1>8. CASE p.state = "Header2"
  BY <1>2, <1>4, <1>8 DEF TryParse
<1>9. CASE p.state = "Length"
  <2>1. TryParse(p, input) = IF input < 1 THEN Restart(p)
                             ELSE Keep(p, input, IF input = 1 THEN "Checksum" ELSE "Data")
    BY <1>9 DEF TryParse
  <2> QED
    BY <1>2, <1>4, <2>1
<1>10. CASE p.state = "Data"
  <2>1. \/ TryParse(p, input) = Keep(p, input, "Checksum")
        \/ TryParse(p, input) = Keep(p, input, "Data")
    BY <1>10 DEF TryParse
  <2> QED
    BY <1>4, <2>1
<1>11. CASE p.state = "Checksum"
  BY <1>5, <1>11 DEF TryParse
<1> QED
  BY <1>6, <1>7, <1>8, <1>9, <1>10, <1>11

LEMMA ParseNextType ==
  ASSUME NEW p \in ParserStates, NEW input \in Byte
  PROVE  ParseNext(p, input) \in ParserStates
<1> DEFINE q == IF p.reply THEN p ELSE TryParse(p, input)
<1>1. q \in ParserStates
  BY TryParseType
<1>2. ParseNext(p, input) = CHOOSE r \in {q} : TRUE
  <2>1. {IF x.reply THEN x ELSE TryParse(x, input) : x \in {p}} = {q}
    OBVIOUS
  <2> QED
    BY <2>1 DEF ParseNext
<1>3. (CHOOSE r \in {q} : TRUE) = q
  OBVIOUS
<1> QED
  BY <1>1, <1>2, <1>3

(* What is read is parsed byte by byte. *)
LEMMA ParseSteps ==
  ASSUME NEW bytes \in Seq(Byte)
  PROVE  \E G \in [0..Len(bytes) -> ParserStates] :
           /\ G[0] = Start
           /\ \A k \in 1..Len(bytes) : G[k] = ParseNext(G[k - 1], bytes[k])
           /\ ParseAll(bytes) = G[Len(bytes)]
<1> DEFINE n == Len(bytes)
           D == 1..n
           iter == CHOOSE g : g = [s \in SUBSET D |->
                     IF s = {} THEN Start ELSE ParseNext(g[s \ {Max(s)}], bytes[Max(s)])]
<1>1. n \in Nat /\ DOMAIN bytes = D /\ \A i \in D : bytes[i] \in Byte
  BY LenProperties, ElementOfSeq
<1>2. ParseAll(bytes) = iter[D]
  BY <1>1 DEF ParseAll, FoldLeft, MapThenFoldSet
<1>0. Start \in ParserStates
  <2>1. <<>> \in Seq(Byte)
    OBVIOUS
  <2> QED
    BY <2>1 DEF Start, ParserStates
<1>3. \E g : g = [s \in SUBSET D |->
                   IF s = {} THEN Start ELSE ParseNext(g[s \ {Max(s)}], bytes[Max(s)])]
  <2> DEFINE F == [p \in ParserStates \X D |-> ParseNext(p[1], bytes[p[2]])]
  <2>1. F \in [ParserStates \X (1..n) -> ParserStates]
    BY <1>1, ParseNextType
  <2>2. PICK g : /\ IsFold(g, n, Start, F)
                 /\ \A s \in SUBSET D : g[s] \in ParserStates /\ (s = {} \/ Max(s) \in s)
    <3> HIDE DEF F
    <3> QED
      BY <1>0, <1>1, <2>1, FoldExists
  <2>3. ASSUME NEW s \in SUBSET D, s # {}
        PROVE  F[<<g[s \ {Max(s)}], Max(s)>>] = ParseNext(g[s \ {Max(s)}], bytes[Max(s)])
    <3>1. s \ {Max(s)} \in SUBSET D /\ Max(s) \in D
      BY <2>2, <2>3
    <3>2. <<g[s \ {Max(s)}], Max(s)>> \in ParserStates \X D
      BY <2>2, <3>1
    <3> QED
      BY <3>2
  <2> HIDE DEF F
  <2>4. g = [s \in SUBSET D |-> IF s = {} THEN Start ELSE F[<<g[s \ {Max(s)}], Max(s)>>]]
    BY <2>2 DEF IsFold
  <2>5. g = [s \in SUBSET D |->
              IF s = {} THEN Start ELSE ParseNext(g[s \ {Max(s)}], bytes[Max(s)])]
    BY <2>3, <2>4
  <2> QED
    BY <2>5
<1>4. iter = [s \in SUBSET D |->
               IF s = {} THEN Start ELSE ParseNext(iter[s \ {Max(s)}], bytes[Max(s)])]
  BY <1>3
<1> HIDE DEF iter
<1> DEFINE G == [k \in 0..n |-> iter[1..k]]
<1>5. iter[{}] = Start /\ 1..0 = {}
  BY <1>4
<1>6. ASSUME NEW k \in 1..n PROVE iter[1..k] = ParseNext(iter[1..k - 1], bytes[k])
  <2>1. 1..k \in SUBSET D /\ 1..k # {} /\ Max(1..k) = k /\ (1..k) \ {k} = 1..k - 1
    BY <1>1, Prefix
  <2> QED
    BY <1>4, <2>1
<1>7. \A k \in Nat : k <= n => iter[1..k] \in ParserStates
  <2> DEFINE I == {k \in Nat : k <= n => iter[1..k] \in ParserStates}
  <2>1. 0 \in I
    BY <1>0, <1>5
  <2>2. ASSUME NEW k \in Nat, k \in I PROVE k + 1 \in I
    <3>1. SUFFICES ASSUME k + 1 <= n PROVE iter[1..k + 1] \in ParserStates
      OBVIOUS
    <3>2. k + 1 \in 1..n /\ (k + 1) - 1 = k /\ k <= n
      BY <1>1, <3>1
    <3>3. iter[1..k + 1] = ParseNext(iter[1..k], bytes[k + 1])
      BY <1>6, <3>2
    <3>4. bytes[k + 1] \in Byte /\ iter[1..k] \in ParserStates
      BY <1>1, <2>2, <3>2
    <3> QED
      BY <3>3, <3>4, ParseNextType
  <2> HIDE DEF I
  <2>3. Nat \subseteq I
    BY <2>1, <2>2, Induction
  <2> QED
    BY <2>3 DEF I
<1>8. /\ G \in [0..n -> ParserStates] /\ G[0] = Start /\ G[n] = iter[D]
      /\ \A k \in 1..n : G[k] = ParseNext(G[k - 1], bytes[k])
  <2>1. 0 \in 0..n /\ n \in 0..n /\ \A k \in 1..n : k \in 0..n /\ k - 1 \in 0..n
    BY <1>1
  <2>2. ASSUME NEW k \in 1..n PROVE G[k] = ParseNext(G[k - 1], bytes[k])
    <3>1. G[k] = iter[1..k] /\ G[k - 1] = iter[1..k - 1]
      BY <2>1
    <3> HIDE DEF G
    <3> QED
      BY <1>6, <3>1
  <2>3. \A k \in 0..n : iter[1..k] \in ParserStates
    BY <1>1, <1>7
  <2>4. G \in [0..n -> ParserStates]
    BY <2>3
  <2>5. G[0] = Start /\ G[n] = iter[D]
    BY <1>5, <2>1
  <2> QED
    BY <2>2, <2>4, <2>5
<1> HIDE DEF G
<1> QED
  BY <1>2, <1>8

LEMMA ParseAllType ==
  ASSUME NEW bytes \in Seq(Byte)
  PROVE  ParseAll(bytes) \in ParserStates
<1>1. Len(bytes) \in Nat /\ Len(bytes) \in 0..Len(bytes)
  BY LenProperties
<1>2. PICK G \in [0..Len(bytes) -> ParserStates] : ParseAll(bytes) = G[Len(bytes)]
  BY ParseSteps
<1> QED
  BY <1>1, <1>2

(* What one read comes to takes a beginning of the line, and returns bytes. *)
LEMMA ReceiptType ==
  ASSUME line \in Seq(Byte), NEW receipt \in Receipts
  PROVE  /\ receipt.n \in 0..Len(line)
         /\ receipt.packets \in Seq(Byte)
<1>1. Len(line) \in Nat /\ \A i \in 1..Len(line) : line[i] \in Byte
  BY LenProperties, ElementOfSeq
<1>2. CASE receipt = Failed
  <2>1. <<>> \in Seq(Byte)
    OBVIOUS
  <2> QED
    BY <1>1, <1>2, <2>1 DEF Failed
<1>3. CASE receipt # Failed
  <2>1. PICK n \in 1..Len(line) : receipt = ReadOf(n)
    BY <1>3 DEF Receipts
  <2> DEFINE p == ParseAll(SubSeq(line, 1, n))
             r == [n |-> n, error |-> p.packets = <<>>, packets |-> p.packets, reply |-> p.reply]
  <2>2. receipt = CHOOSE x \in {r} : TRUE
    <3>1. {[n |-> n, error |-> q.packets = <<>>, packets |-> q.packets, reply |-> q.reply] :
             q \in {p}} = {r}
      OBVIOUS
    <3> QED
      BY <2>1, <3>1 DEF ReadOf
  <2>3. receipt = r
    BY <2>2
  <2>4. SubSeq(line, 1, n) \in Seq(Byte)
    <3>1. 1 \in Int /\ n \in Int /\ \A i \in 1..n : line[i] \in Byte
      BY <1>1
    <3> QED
      BY <3>1, SubSeqProperties
  <2>5. p.packets \in Seq(Byte)
    BY <2>4, ParseAllType DEF ParserStates
  <2> QED
    BY <1>1, <2>3, <2>5
<1> QED
  BY <1>2, <1>3

LEMMA ConsumeBytes ==
  ASSUME line \in Seq(Byte), NEW receipt \in Receipts, Consume(receipt)
  PROVE  line' \in Seq(Byte)
<1>1. receipt.n \in 0..Len(line)
  BY ReceiptType
<1>2. Len(line) \in Nat /\ \A i \in 1..Len(line) : line[i] \in Byte
  BY LenProperties, ElementOfSeq
<1>3. /\ receipt.n + 1 \in Int /\ Len(line) \in Int
      /\ \A i \in receipt.n + 1..Len(line) : line[i] \in Byte
  BY <1>1, <1>2
<1>4. SubSeq(line, receipt.n + 1, Len(line)) \in Seq(Byte)
  BY <1>3, SubSeqProperties
<1> QED
  BY <1>4 DEF Consume

-----------------------------------------------------------------------------
(* The number of the latest packet *)

LEMMA LatestType ==
  ASSUME NEW packets \in Seq(Byte), NEW stamp, NEW num \in Nat
  PROVE  Latest(packets, [stamp |-> stamp, num |-> num]).num \in Nat
<1> DEFINE n == Count(packets)
           D == 1..n
           T == [stamp : {stamp} \cup {StampAt(packets, i - 1) : i \in D}, num : Nat]
           base == [stamp |-> stamp, num |-> num]
           index == [i \in D |-> i - 1]
           Next1(l, i) == IF l.stamp < StampAt(packets, i)
                          THEN [stamp |-> StampAt(packets, i), num |-> i] ELSE l
           iter == CHOOSE g : g = [s \in SUBSET D |->
                     IF s = {} THEN base ELSE Next1(g[s \ {Max(s)}], index[Max(s)])]
<1>1. n \in Nat /\ DOMAIN index = D
  <2>1. Len(packets) \in Nat
    BY LenProperties
  <2>2. \A l \in Nat : l \div 7 \in Nat
    OBVIOUS
  <2> QED
    BY <2>1, <2>2, PacketSize DEF Count
<1>2. Latest(packets, base) = iter[D]
  BY <1>1 DEF Latest, FoldLeft, MapThenFoldSet
<1>3. base \in T
  OBVIOUS
<1>4. ASSUME NEW l \in T, NEW i \in D PROVE Next1(l, index[i]) \in T
  <2>1. index[i] = i - 1 /\ i - 1 \in Nat
    BY <1>1
  <2>2. [stamp |-> StampAt(packets, i - 1), num |-> i - 1] \in T
    BY <2>1
  <2> QED
    BY <2>1, <2>2
<1> HIDE DEF base, index, T
<1>5. \E g : g = [s \in SUBSET D |->
                   IF s = {} THEN base ELSE Next1(g[s \ {Max(s)}], index[Max(s)])]
  <2> DEFINE F == [p \in T \X D |-> Next1(p[1], index[p[2]])]
  <2> HIDE DEF Next1
  <2>1. F \in [T \X (1..n) -> T]
    BY <1>4
  <2>2. PICK g : /\ IsFold(g, n, base, F)
                 /\ \A s \in SUBSET D : g[s] \in T /\ (s = {} \/ Max(s) \in s)
    <3>1. n \in Nat
      BY <1>1
    <3> HIDE DEF F, n, iter
    <3> QED
      BY <1>3, <2>1, <3>1, FoldExists
  <2>3. ASSUME NEW s \in SUBSET D, s # {}
        PROVE  F[<<g[s \ {Max(s)}], Max(s)>>] = Next1(g[s \ {Max(s)}], index[Max(s)])
    <3>1. s \ {Max(s)} \in SUBSET D /\ Max(s) \in D
      BY <2>2, <2>3
    <3>2. <<g[s \ {Max(s)}], Max(s)>> \in T \X D
      BY <2>2, <3>1
    <3> QED
      BY <3>2
  <2> HIDE DEF F
  <2>4. g = [s \in SUBSET D |-> IF s = {} THEN base ELSE F[<<g[s \ {Max(s)}], Max(s)>>]]
    BY <2>2 DEF IsFold
  <2>5. g = [s \in SUBSET D |-> IF s = {} THEN base ELSE Next1(g[s \ {Max(s)}], index[Max(s)])]
    BY <2>3, <2>4
  <2> QED
    BY <2>5
<1>6. iter = [s \in SUBSET D |->
               IF s = {} THEN base ELSE Next1(iter[s \ {Max(s)}], index[Max(s)])]
  BY <1>5
<1> HIDE DEF iter, Next1
<1>7. iter[{}] \in T
  BY <1>3, <1>6
<1>8. ASSUME NEW k \in 1..n, iter[1..k - 1] \in T PROVE iter[1..k] \in T
  <2>1. 1..k \in SUBSET D /\ 1..k # {} /\ Max(1..k) = k /\ (1..k) \ {k} = 1..k - 1
    BY <1>1, Prefix
  <2>2. iter[1..k] = Next1(iter[1..k - 1], index[k])
    BY <1>6, <2>1
  <2> QED
    BY <1>4, <1>8, <2>2
<1>9. iter[D] \in T
  BY <1>1, <1>7, <1>8, FoldKeeps
<1> QED
  BY <1>2, <1>9 DEF T, base

LEMMA SensorStateType ==
  ASSUME NEW packets \in Seq(Byte), last_packet_num_ \in Nat
  PROVE  ToSensorState(packets).num \in Nat
<1>1. Latest(packets, [stamp |-> last_timestamp_, num |-> last_packet_num_]).num \in Nat
  BY LatestType
<1> DEFINE latest == Latest(packets, [stamp |-> last_timestamp_, num |-> last_packet_num_])
<1>2. \/ ToSensorState(packets).num = last_packet_num_
      \/ ToSensorState(packets).num = latest.num
  BY DEF ToSensorState
<1> QED
  BY <1>1, <1>2

-----------------------------------------------------------------------------
(* The invariant: TypeOK, with what the bytes on the line are made of and   *)
(* the window of the judged cycles.                                         *)

NodeOK ==
  /\ pc \in {"init", "configure", "start", "read", "publish", "write", "check", "spin", "stopped"}
  /\ status_ \in {"Waiting", "WaitForReset", "ReceiveResetReturn"}
  /\ last_packet_num_ \in Nat
  /\ retry \in 0..kRetryCount

LineOK ==
  /\ line \in Seq(Byte)
  /\ sensor \in [samples : 0..MaxSamples, stamp : 0..StampModulus - 1,
                 commands : Nat, resets : Nat]

Window == 0..kCycleOverBufferNum - 1
Over == {i \in Window : cycle_over_buffer[i]}

CyclesOK ==
  /\ cycle_over_buffer \in [Window -> BOOLEAN]
  /\ buffer_position \in Window
  /\ cycle_count \in 0..255
  /\ cycle_over_count = Cardinality(Over)

Inv == NodeOK /\ LineOK /\ CyclesOK

LEMMA WindowIsSmall ==
  /\ \A S \in SUBSET Window : /\ IsFiniteSet(S)
                              /\ Cardinality(S) \in 0..255
  /\ 0 \in Window
  /\ \A i \in Window : (i + 1) % kCycleOverBufferNum \in Window
<1>1. kCycleOverBufferNum \in 1..255
  BY NatAssumption
<1>2. 0 \in Int /\ kCycleOverBufferNum - 1 \in Int
  BY <1>1
<1>3. /\ IsFiniteSet(Window)
      /\ Cardinality(Window) = IF 0 > kCycleOverBufferNum - 1 THEN 0
                               ELSE kCycleOverBufferNum - 1 - 0 + 1
  BY <1>2, FS_Interval DEF Window
<1>4. Cardinality(Window) <= 255
  BY <1>1, <1>3
<1>5. ASSUME NEW S \in SUBSET Window
      PROVE  IsFiniteSet(S) /\ Cardinality(S) \in 0..255
  <2>1. IsFiniteSet(S) /\ Cardinality(S) <= Cardinality(Window)
    BY <1>3, FS_Subset
  <2>2. Cardinality(S) \in Nat /\ Cardinality(Window) \in Nat
    BY <1>3, <2>1, FS_CardinalityType
  <2> QED
    BY <1>4, <2>1, <2>2
<1>6. \A i \in Window : (i + 1) % kCycleOverBufferNum \in Window
  BY <1>1 DEF Window
<1>7. 0 \in Window
  BY <1>1 DEF Window
<1> QED
  BY <1>5, <1>6, <1>7

(* A judged cycle replaces the oldest one in the count as in the buffer.    *)
LEMMA JudgeKeeps ==
  ASSUME CyclesOK, NEW over \in BOOLEAN, Judge(over)
  PROVE  CyclesOK' /\ pc' \in {"stopped", "spin"}
<1> DEFINE p == buffer_position
           was == cycle_over_buffer[p]
           n == Cardinality(Over)
<1>1. p \in Window /\ cycle_over_buffer \in [Window -> BOOLEAN] /\ was \in BOOLEAN
  BY DEF CyclesOK
<1>2. /\ cycle_over_buffer' = [cycle_over_buffer EXCEPT ![p] = over]
      /\ cycle_over_buffer' \in [Window -> BOOLEAN]
  BY <1>1 DEF Judge
<1>3. Over' = {i \in Window : IF i = p THEN over ELSE cycle_over_buffer[i]}
  BY <1>1, <1>2 DEF Over
<1>4. Over \in SUBSET Window /\ Over' \in SUBSET Window /\ (p \in Over <=> was)
  BY <1>1, <1>3 DEF Over
<1>5. IsFiniteSet(Over) /\ n \in 0..255 /\ Cardinality(Over') \in 0..255
  BY <1>4, WindowIsSmall
<1>6. Cardinality(Over') = n + Count1(over) - Count1(was)
  <2>1. CASE over
    <3>1. Over' = Over \cup {p}
      BY <1>1, <1>3, <2>1 DEF Over
    <3>2. Cardinality(Over \cup {p}) = IF p \in Over THEN n ELSE n + 1
      BY <1>5, FS_AddElement
    <3> QED
      BY <1>4, <1>5, <2>1, <3>1, <3>2 DEF Count1
  <2>2. CASE ~ over
    <3>1. Over' = Over \ {p}
      BY <1>1, <1>3, <2>2 DEF Over
    <3>2. Cardinality(Over \ {p}) = IF p \in Over THEN n - 1 ELSE n
      BY <1>5, FS_RemoveElement
    <3> QED
      BY <1>4, <1>5, <2>2, <3>1, <3>2 DEF Count1
  <2> QED
    BY <2>1, <2>2
<1>7. cycle_over_count' = Cardinality(Over')
  <2>1. cycle_over_count' = (n + Count1(over) - Count1(was)) % 256
    BY DEF Judge, CyclesOK
  <2>2. \A c \in 0..255 : c % 256 = c
    OBVIOUS
  <2> QED
    BY <1>5, <1>6, <2>1, <2>2
<1>8. buffer_position' \in Window
  BY <1>1, WindowIsSmall DEF Judge
<1>9. cycle_count' \in 0..255
  <2>1. \A c \in 0..255 : (c + 1) % 256 \in 0..255
    OBVIOUS
  <2> QED
    BY <2>1 DEF Judge, CyclesOK
<1>10. pc' \in {"stopped", "spin"}
  BY DEF Judge
<1> QED
  BY <1>2, <1>7, <1>8, <1>9, <1>10 DEF CyclesOK

-----------------------------------------------------------------------------
(* Each step keeps the invariant. *)

LEMMA InvInit == Init => Inv
<1> SUFFICES ASSUME Init PROVE Inv
  OBVIOUS
<1>1. NodeOK
  <2>1. 0 \in 0..kRetryCount
    BY NatAssumption
  <2> QED
    BY <2>1 DEF Init, NodeOK
<1>2. LineOK
  <2>1. <<>> \in Seq(Byte)
    OBVIOUS
  <2>2. 0 \in 0..MaxSamples /\ 0 \in 0..StampModulus - 1
    BY NatAssumption
  <2> QED
    BY <2>1, <2>2 DEF Init, LineOK
<1>3. CyclesOK
  <2>1. cycle_over_buffer = [i \in Window |-> FALSE]
    BY DEF Init, Window
  <2>2. Over = {}
    BY <2>1 DEF Over
  <2> QED
    BY <2>1, <2>2, WindowIsSmall, FS_EmptySet DEF Init, CyclesOK
<1> QED
  BY <1>1, <1>2, <1>3 DEF Inv

LEMMA CyclesRest == CyclesOK /\ UNCHANGED cycleVars => CyclesOK'
  BY DEF CyclesOK, cycleVars, Over

LEMMA TryResetKeeps ==
  ASSUME NodeOK, LineOK, NEW result, TryReset(result)
  PROVE  /\ status_' \in {"Waiting", "WaitForReset", "ReceiveResetReturn"}
         /\ last_packet_num_' = last_packet_num_
         /\ LineOK'
<1>1. last_packet_num_' = last_packet_num_
  BY DEF TryReset
<1>2. CASE TryResetSends(result)
  <2>1. status_' \in {"Waiting", "WaitForReset", "ReceiveResetReturn"} /\ line' = line
    BY <1>2 DEF TryResetSends, NodeOK
  <2>2. sensor' \in [samples : 0..MaxSamples, stamp : 0..StampModulus - 1,
                    commands : Nat, resets : Nat]
    BY <1>2 DEF TryResetSends, LineOK
  <2> QED
    BY <1>1, <2>1, <2>2 DEF LineOK
<1>3. CASE TryResetWaits(result)
  BY <1>1, <1>3 DEF TryResetWaits, NodeOK, LineOK
<1>4. CASE TryResetReceives(result)
  <2>1. PICK receipt \in Receipts : Consume(receipt)
    BY <1>4 DEF TryResetReceives
  <2>2. line' \in Seq(Byte)
    BY <2>1, ConsumeBytes DEF LineOK
  <2>3. status_' \in {"Waiting", "WaitForReset", "ReceiveResetReturn"} /\ sensor' = sensor
    BY <1>4 DEF TryResetReceives, NodeOK
  <2> QED
    BY <1>1, <2>2, <2>3 DEF LineOK
<1> QED
  BY <1>2, <1>3, <1>4 DEF TryReset

LEMMA NextAttemptKeeps ==
  ASSUME NodeOK, NextAttempt
  PROVE  /\ pc' = pc \/ pc' = "stopped"
         /\ retry' \in 0..kRetryCount
<1>1. kRetryCount \in Nat
  BY NatAssumption
<1> QED
  BY <1>1 DEF NodeOK, NextAttempt

LEMMA ConfigureKeeps == Inv /\ Configure => Inv'
<1> SUFFICES ASSUME Inv, Configure PROVE Inv'
  OBVIOUS
<1>1. CyclesOK'
  BY CyclesRest DEF Inv, Configure
<1>2. CASE tried < kImuResetTimeout
  <2>1. PICK result \in ResetResults :
          /\ TryReset(result)
          /\ CASE result = "kDone" -> pc' = "start" /\ UNCHANGED <<retry, tried>>
               [] result = "kError" -> NextAttempt
               [] result = "kContinue" -> UNCHANGED <<pc, retry, tried>>
    BY <1>2 DEF Configure
  <2>2. /\ status_' \in {"Waiting", "WaitForReset", "ReceiveResetReturn"}
        /\ last_packet_num_' = last_packet_num_ /\ LineOK'
    BY <2>1, TryResetKeeps DEF Inv
  <2>3. pc' \in {pc, "start", "stopped"} /\ retry' \in 0..kRetryCount
    <3>1. CASE result = "kError"
      <4>1. NextAttempt
        BY <2>1, <3>1
      <4> QED
        BY <4>1, NextAttemptKeeps DEF Inv
    <3>2. CASE result = "kDone"
      BY <2>1, <3>2 DEF Inv, NodeOK
    <3>3. CASE result = "kContinue"
      BY <2>1, <3>3 DEF Inv, NodeOK
    <3> QED
      BY <3>1, <3>2, <3>3 DEF ResetResults
  <2> QED
    BY <1>1, <2>2, <2>3 DEF Inv, NodeOK
<1>3. CASE ~ tried < kImuResetTimeout
  <2>1. NextAttempt /\ UNCHANGED <<protocolVars, line, sensor>>
    BY <1>3 DEF Configure
  <2>2. (pc' = pc \/ pc' = "stopped") /\ retry' \in 0..kRetryCount
    BY <2>1, NextAttemptKeeps DEF Inv
  <2> QED
    BY <1>1, <2>1, <2>2 DEF Inv, NodeOK, LineOK, protocolVars
<1> QED
  BY <1>2, <1>3

LEMMA ReadKeeps == Inv /\ Read => Inv'
<1> SUFFICES ASSUME Inv, Read PROVE Inv'
  OBVIOUS
<1>1. /\ CyclesOK' /\ sensor' = sensor /\ pc' = "publish"
      /\ retry' = retry /\ status_' = status_
  BY CyclesRest DEF Inv, Read
<1>2. CASE UNCHANGED <<last_packet_num_, line>>
  BY <1>1, <1>2 DEF Inv, NodeOK, LineOK
<1>3. CASE ~ UNCHANGED <<last_packet_num_, line>>
  <2>1. PICK receipt \in Receipts :
          /\ Consume(receipt)
          /\ \/ last_packet_num_' = last_packet_num_
             \/ \E converted \in {ToSensorState(receipt.packets)} :
                   last_packet_num_' = converted.num
    BY <1>3 DEF Read
  <2>2. line' \in Seq(Byte) /\ receipt.packets \in Seq(Byte)
    BY <2>1, ConsumeBytes, ReceiptType DEF Inv, LineOK
  <2>3. last_packet_num_' \in Nat
    BY <2>1, <2>2, SensorStateType DEF Inv, NodeOK
  <2> QED
    BY <1>1, <2>2, <2>3 DEF Inv, NodeOK, LineOK
<1> QED
  BY <1>2, <1>3

LEMMA SensorKeeps == Inv /\ Sensor => Inv'
<1> SUFFICES ASSUME Inv, Sensor PROVE Inv'
  OBVIOUS
<1>1. CyclesOK' /\ NodeOK'
  BY CyclesRest DEF Inv, Sensor, NodeOK, protocolVars
<1>2. /\ line \in Seq(Byte)
      /\ sensor \in [samples : 0..MaxSamples, stamp : 0..StampModulus - 1,
                     commands : Nat, resets : Nat]
  BY DEF Inv, LineOK
<1>3. MaxSamples \in 0..255 /\ StampModulus \in 1..256
  BY NatAssumption
<1>4. CASE SensorSamples
  <2>1. sensor.samples + 1 \in 0..MaxSamples /\ (sensor.stamp + 1) % StampModulus \in 0..StampModulus - 1
    <3>1. \A a, m \in Nat : a < m => a + 1 \in 0..m
      OBVIOUS
    <3>2. \A a \in Nat, m \in 1..256 : (a + 1) % m \in 0..m - 1
      OBVIOUS
    <3>3. sensor.samples \in Nat /\ sensor.stamp \in Nat /\ MaxSamples \in Nat
      BY <1>2, <1>3
    <3>4. sensor.samples < MaxSamples
      BY <1>4 DEF SensorSamples
    <3> QED
      BY <1>3, <3>1, <3>2, <3>3, <3>4
  <2>2. /\ sensor' \in [samples : 0..MaxSamples, stamp : 0..StampModulus - 1,
                        commands : Nat, resets : Nat]
        /\ Put(Sample(sensor'.samples, sensor'.stamp))
    BY <1>2, <1>4, <2>1 DEF SensorSamples
  <2>3. sensor'.samples \in Byte /\ sensor'.stamp \in Byte
    BY <1>3, <2>2 DEF Byte
  <2>4. Sample(sensor'.samples, sensor'.stamp) \in Seq(Byte)
    BY <2>3, SampleIsBytes
  <2>5. line' \in Seq(Byte)
    BY <1>2, <2>2, <2>4, PutBytes
  <2> QED
    BY <1>1, <2>2, <2>5 DEF Inv, LineOK
<1>5. CASE SensorResets
  <2>1. PICK stamp \in {0, sensor.stamp} :
          sensor' = [sensor EXCEPT !.resets = @ + 1, !.stamp = stamp]
    BY <1>5 DEF SensorResets
  <2>2. sensor' \in [samples : 0..MaxSamples, stamp : 0..StampModulus - 1,
                    commands : Nat, resets : Nat]
    <3>1. stamp \in 0..StampModulus - 1 /\ sensor.resets + 1 \in Nat
      BY <1>2, <1>3
    <3> QED
      BY <1>2, <2>1, <3>1
  <2>3. line' \in Seq(Byte)
    BY <1>2, <1>5, ReplyIsBytes, PutBytes DEF SensorResets
  <2> QED
    BY <1>1, <2>2, <2>3 DEF Inv, LineOK
<1> QED
  BY <1>4, <1>5 DEF Sensor

LEMMA InvNext == Inv /\ [Next]_vars => Inv'
<1> SUFFICES ASSUME Inv, [Next]_vars PROVE Inv'
  OBVIOUS
<1>1. CASE Configure
  BY <1>1, ConfigureKeeps
<1>2. CASE Read
  BY <1>2, ReadKeeps
<1>3. CASE Sensor
  BY <1>3, SensorKeeps
<1>4. CASE Check
  <2>1. NodeOK' /\ LineOK' /\ CyclesOK'
    <3>1. CASE UNCHANGED cycleVars /\ pc' = "spin"
      BY <1>4, <3>1, CyclesRest DEF Check, Inv, NodeOK, LineOK, protocolVars, sensorVars
    <3>2. CASE \E over \in BOOLEAN : Judge(over)
      BY <1>4, <3>2, JudgeKeeps DEF Check, Inv, NodeOK, LineOK, protocolVars, sensorVars
    <3> QED
      BY <1>4, <3>1, <3>2 DEF Check
  <2> QED
    BY <2>1 DEF Inv
<1>5. CASE Write
  <2>1. CASE UNCHANGED <<protocolVars, line, sensor>>
    BY <1>5, <2>1, CyclesRest DEF Write, Inv, NodeOK, LineOK, protocolVars
  <2>2. CASE \E result \in ResetResults : TryReset(result)
    BY <1>5, <2>2, CyclesRest, TryResetKeeps DEF Write, Inv, NodeOK
  <2> QED
    BY <1>5, <2>1, <2>2 DEF Write
<1>6. CASE Open
  BY <1>6, CyclesRest DEF Open, Inv, NodeOK, LineOK, protocolVars, sensorVars
<1>7. CASE Begin
  BY <1>7, CyclesRest DEF Begin, Inv, NodeOK, LineOK, protocolVars, sensorVars
<1>8. CASE Publish
  BY <1>8, CyclesRest DEF Publish, Inv, NodeOK, LineOK, protocolVars, sensorVars
<1>9. CASE Spin
  BY <1>9, CyclesRest DEF Spin, Inv, NodeOK, LineOK, protocolVars, sensorVars
<1>10. CASE Tick
  BY <1>10, CyclesRest DEF Tick, Inv, NodeOK, LineOK, sensorVars
<1>11. CASE Terminated \/ UNCHANGED vars
  BY <1>11, CyclesRest DEF Terminated, vars, Inv, NodeOK, LineOK, protocolVars, sensorVars
<1> QED
  BY <1>1, <1>2, <1>3, <1>4, <1>5, <1>6, <1>7, <1>8, <1>9, <1>10, <1>11 DEF Next, Node

LEMMA InvHolds == Spec => []Inv
<1>1. Spec => Init /\ [][Next]_vars
  BY PTL DEF Spec
<1> QED
  BY <1>1, InvInit, InvNext, PTL

(* Whatever the line does to the bytes, everything has its type, and the    *)
(* uint8_t that counts the cycles that took too long is always the number   *)
(* of such cycles in the buffer, so that it never wraps (mpu9150_node.cpp). *)
THEOREM TypeCorrect == Spec => []TypeOK
<1>1. Inv => TypeOK
  <2> SUFFICES ASSUME Inv PROVE TypeOK
    OBVIOUS
  <2>1. DOMAIN cycle_over_buffer = Window
    BY DEF Inv, CyclesOK
  <2>2. Range(line) \subseteq 0..255
    <3>1. \A i \in DOMAIN line : line[i] \in Byte
      BY ElementOfSeq, LenProperties DEF Inv, LineOK
    <3> QED
      BY <3>1 DEF Range, Byte
  <2> QED
    BY <2>1, <2>2 DEF Inv, NodeOK, CyclesOK, TypeOK, Over
<1> QED
  BY <1>1, InvHolds, PTL

(* After a cycle the node only stops when more than the tolerated number of *)
(* the cycles it judges, the last kCycleOverBufferNum, took too long.       *)
THEOREM StoppedWhenLate ==
  Spec => [][pc = "check" /\ pc' = "stopped" => Cardinality(Over') > CycleOverLimit]_vars
<1>1. Inv /\ [Next]_vars => [pc = "check" /\ pc' = "stopped" => Cardinality(Over') > CycleOverLimit]_vars
  <2> SUFFICES ASSUME Inv, Next, pc = "check", pc' = "stopped"
               PROVE  Cardinality(Over') > CycleOverLimit
    OBVIOUS
  <2>1. Check
    BY DEF Next, Node, Open, Configure, Begin, Read, Publish, Write, Spin, Sensor, Tick, Terminated, NextAttempt
  <2>2. PICK over \in BOOLEAN : Judge(over)
    BY <2>1 DEF Check
  <2>3. cycle_over_count' = Cardinality(Over')
    BY <2>2, JudgeKeeps DEF Inv, CyclesOK
  <2> QED
    BY <2>2, <2>3 DEF Judge
<1> QED
  BY <1>1, InvHolds, PTL DEF Spec

-----------------------------------------------------------------------------
(* The sensor's answer to a reset, which nothing else on the line looks     *)
(* like: the places where it stands among some bytes.                       *)

ReplyChecksum == 119

ReplyAt(bytes, i) ==
  /\ bytes[i] = kMPU9150Header1Command
  /\ bytes[i + 1] = kMPU9150Header2Command
  /\ bytes[i + 2] = 1
  /\ bytes[i + 3] = ReplyChecksum

Replies(bytes) == {i \in 1..Len(bytes) - 3 : ReplyAt(bytes, i)}

LEMMA ReplySum ==
  ASSUME NEW bytes \in Seq(Byte), Len(bytes) = 3,
         bytes[1] = kMPU9150Header1Command, bytes[2] = kMPU9150Header2Command, bytes[3] = 1
  PROVE  Checksum(bytes) = ReplyChecksum
<1>1. bytes \in Seq(Int) /\ Len(bytes) = 3 /\ bytes[1] = 64 /\ bytes[2] = 71 /\ bytes[3] = 1
  <2>1. Byte \subseteq Int
    BY DEF Byte
  <2> QED
    BY <2>1, SeqMonotonic DEF kMPU9150Header1Command, kMPU9150Header2Command
<1>2. PICK G \in [0..Len(bytes) -> Int] :
        /\ G[0] = 0
        /\ \A k \in 1..Len(bytes) : G[k] = G[k - 1] + bytes[k]
        /\ FoldLeft(+, 0, bytes) = G[Len(bytes)]
  BY <1>1, SumSteps
<1>3. G[1] = 64 /\ G[2] = 135 /\ G[3] = 136
  <2>1. 1 \in 1..Len(bytes) /\ 2 \in 1..Len(bytes) /\ 3 \in 1..Len(bytes)
    BY <1>1
  <2>2. G[1] = G[1 - 1] + bytes[1] /\ G[2] = G[2 - 1] + bytes[2] /\ G[3] = G[3 - 1] + bytes[3]
    BY <1>2, <2>1
  <2>3. G[1] = G[0] + 64 /\ G[2] = G[1] + 71 /\ G[3] = G[2] + 1
    BY <1>1, <2>2
  <2>4. G[0] = 0
    BY <1>2
  <2>5. G[1] = 64
    BY <2>3, <2>4
  <2>6. G[2] = 135
    BY <2>3, <2>5
  <2>7. G[3] = 136
    BY <2>3, <2>6
  <2> QED
    BY <2>5, <2>6, <2>7
<1>4. Checksum(bytes) = 119
  <2>1. FoldLeft(+, 0, bytes) = 136
    BY <1>1, <1>2, <1>3
  <2>2. 136 % 256 = 136 /\ 255 - 136 = 119
    OBVIOUS
  <2> QED
    BY <2>1, <2>2 DEF Checksum
<1> QED
  BY <1>4 DEF ReplyChecksum

LEMMA SampleSum ==
  ASSUME NEW bytes \in Seq(Byte), NEW k \in Byte, NEW stamp \in Byte, Len(bytes) = 6,
         bytes[1] = 64, bytes[2] = 71, bytes[3] = 4, bytes[4] = 64, bytes[5] = k, bytes[6] = stamp
  PROVE  Checksum(bytes) = 255 - ((203 + k + stamp) % 256)
<1>0. k \in Int /\ stamp \in Int
  BY DEF Byte
<1>1. bytes \in Seq(Int)
  <2>1. Byte \subseteq Int
    BY DEF Byte
  <2> QED
    BY <2>1, SeqMonotonic
<1>2. PICK G \in [0..Len(bytes) -> Int] :
        /\ G[0] = 0
        /\ \A i \in 1..Len(bytes) : G[i] = G[i - 1] + bytes[i]
        /\ FoldLeft(+, 0, bytes) = G[Len(bytes)]
  BY <1>1, SumSteps
<1>3. G[6] = 203 + k + stamp
  <2>1. /\ 1 \in 1..Len(bytes) /\ 2 \in 1..Len(bytes) /\ 3 \in 1..Len(bytes)
        /\ 4 \in 1..Len(bytes) /\ 5 \in 1..Len(bytes) /\ 6 \in 1..Len(bytes)
    OBVIOUS
  <2>2. /\ G[1] = G[1 - 1] + bytes[1] /\ G[2] = G[2 - 1] + bytes[2] /\ G[3] = G[3 - 1] + bytes[3]
        /\ G[4] = G[4 - 1] + bytes[4] /\ G[5] = G[5 - 1] + bytes[5] /\ G[6] = G[6 - 1] + bytes[6]
    BY <1>2, <2>1
  <2>3. /\ G[1] = G[0] + 64 /\ G[2] = G[1] + 71 /\ G[3] = G[2] + 4
        /\ G[4] = G[3] + 64 /\ G[5] = G[4] + k /\ G[6] = G[5] + stamp
    BY <2>2
  <2>4. G[0] = 0
    BY <1>2
  <2>5. G[6] = ((139 + 64) + k) + stamp
    BY <2>3, <2>4
  <2> QED
    BY <1>0, <2>5
<1>4. FoldLeft(+, 0, bytes) = 203 + k + stamp
  BY <1>2, <1>3
<1>5. Checksum(bytes) = 255 - ((203 + k + stamp) % 256)
  BY <1>4 DEF Checksum
<1> QED
  BY <1>5

LEMMA RepliesFinite ==
  ASSUME NEW bytes \in Seq(Byte)
  PROVE  IsFiniteSet(Replies(bytes)) /\ Cardinality(Replies(bytes)) \in Nat
<1>1. Len(bytes) \in Nat
  BY LenProperties
<1>2. 1 \in Int /\ Len(bytes) - 3 \in Int
  BY <1>1
<1>3. IsFiniteSet(1..Len(bytes) - 3) /\ Replies(bytes) \in SUBSET (1..Len(bytes) - 3)
  BY <1>2, FS_Interval DEF Replies
<1>4. IsFiniteSet(Replies(bytes))
  BY <1>3, FS_Subset
<1> QED
  BY <1>4, FS_CardinalityType

(* Where an answer may come to stand when something is put on the line.     *)
LEMMA RepliesAdded ==
  ASSUME NEW bytes \in Seq(Byte), NEW text \in Seq(Byte), NEW i \in Replies(bytes \o text)
  PROVE  \/ i \in Replies(bytes)
         \/ /\ i \in Len(bytes) - 2..Len(bytes) + Len(text) - 3
            /\ i <= Len(bytes) => text # <<>> /\ text[1] = (bytes \o text)[Len(bytes) + 1]
<1> DEFINE all == bytes \o text
<1>1. /\ Len(bytes) \in Nat /\ Len(text) \in Nat
      /\ all \in Seq(Byte) /\ Len(all) = Len(bytes) + Len(text)
      /\ \A j \in 1..Len(bytes) + Len(text) :
            all[j] = IF j <= Len(bytes) THEN bytes[j] ELSE text[j - Len(bytes)]
  BY LenProperties, ConcatProperties
<1> HIDE DEF all
<1>2. i \in 1..Len(all) - 3 /\ ReplyAt(all, i)
  BY DEF Replies, all
<1>3. CASE i <= Len(bytes) - 3
  <2>1. /\ all[i] = bytes[i] /\ all[i + 1] = bytes[i + 1] /\ all[i + 2] = bytes[i + 2]
        /\ all[i + 3] = bytes[i + 3]
    BY <1>1, <1>2, <1>3
  <2>2. ReplyAt(bytes, i) /\ i \in 1..Len(bytes) - 3
    BY <1>1, <1>2, <1>3, <2>1 DEF ReplyAt
  <2> QED
    BY <2>2 DEF Replies
<1>4. CASE i > Len(bytes) - 3
  <2>1. i \in Len(bytes) - 2..Len(bytes) + Len(text) - 3
    BY <1>1, <1>2, <1>4
  <2>2. i <= Len(bytes) => text # <<>> /\ text[1] = all[Len(bytes) + 1]
    <3>1. SUFFICES ASSUME i <= Len(bytes) PROVE text # <<>> /\ text[1] = all[Len(bytes) + 1]
      OBVIOUS
    <3>2. Len(text) >= 1 /\ Len(bytes) + 1 \in 1..Len(bytes) + Len(text)
          /\ (Len(bytes) + 1) - Len(bytes) = 1 /\ ~ Len(bytes) + 1 <= Len(bytes)
      BY <1>1, <1>2, <1>4
    <3>3. all[Len(bytes) + 1] = text[1]
      BY <1>1, <3>2
    <3> QED
      BY <3>2, <3>3
  <2> QED
    BY <2>1, <2>2 DEF all
<1>5. i > Len(bytes) - 3 \/ i <= Len(bytes) - 3
  BY <1>1, <1>2
<1> QED
  BY <1>3, <1>4, <1>5

(* Four bytes, the sensor's answer or what is left of it, make one answer   *)
(* at most, whatever precedes them.                                         *)
LEMMA OneReply ==
  ASSUME NEW bytes \in Seq(Byte), NEW text \in Seq(Byte), Len(text) <= 4
  PROVE  Cardinality(Replies(bytes \o text)) <= Cardinality(Replies(bytes)) + 1
<1> DEFINE all == bytes \o text
           l == Len(bytes)
           New == Replies(all) \ Replies(bytes)
<1>1. /\ l \in Nat /\ Len(text) \in Nat
      /\ all \in Seq(Byte) /\ Len(all) = l + Len(text)
  BY LenProperties, ConcatProperties
<1>2. \A i \in New : i \in l - 2..l + 1 /\ i \in Int /\ ReplyAt(all, i)
  <2>1. ASSUME NEW i \in New PROVE i \in l - 2..l + 1 /\ i \in Int /\ ReplyAt(all, i)
    <3>1. i \in l - 2..l + Len(text) - 3
      BY RepliesAdded
    <3> QED
      BY <1>1, <3>1 DEF Replies
  <2> QED
    BY <2>1
<1>3. ASSUME NEW i \in New, NEW j \in New PROVE i = j
  <2>1. i \in l - 2..l + 1 /\ ReplyAt(all, i) /\ j \in l - 2..l + 1 /\ ReplyAt(all, j)
    BY <1>2
  <2> DEFINE b == all[l + 1]
  <2>2. ASSUME NEW x \in l - 2..l + 1, ReplyAt(all, x)
        PROVE  \/ x = l + 1 /\ b = 64
               \/ x = l /\ b = 71
               \/ x = l - 1 /\ b = 1
               \/ x = l - 2 /\ b = 119
    <3>1. \/ x = l + 1
          \/ x = l /\ x + 1 = l + 1
          \/ x = l - 1 /\ x + 2 = l + 1
          \/ x = l - 2 /\ x + 3 = l + 1
      BY <1>1
    <3>2. all[x] = 64 /\ all[x + 1] = 71 /\ all[x + 2] = 1 /\ all[x + 3] = 119
      BY <2>2 DEF ReplyAt, kMPU9150Header1Command, kMPU9150Header2Command, ReplyChecksum
    <3> HIDE DEF all
    <3> QED
      BY <3>1, <3>2
  <2> HIDE DEF b, all, New, l
  <2> QED
    BY <2>1, <2>2
<1>4. PICK x : New \subseteq {x}
  BY <1>3
<1> HIDE DEF all
<1>5. Replies(all) \in SUBSET (Replies(bytes) \cup {x})
  BY <1>4
<1>6. /\ IsFiniteSet(Replies(bytes)) /\ Cardinality(Replies(bytes)) \in Nat
      /\ IsFiniteSet(Replies(all)) /\ Cardinality(Replies(all)) \in Nat
  BY <1>1, RepliesFinite
<1>7. /\ IsFiniteSet(Replies(bytes) \cup {x})
      /\ Cardinality(Replies(bytes) \cup {x}) <= Cardinality(Replies(bytes)) + 1
  <2>1. /\ IsFiniteSet(Replies(bytes) \cup {x})
        /\ Cardinality(Replies(bytes) \cup {x}) =
             IF x \in Replies(bytes) THEN Cardinality(Replies(bytes)) ELSE Cardinality(Replies(bytes)) + 1
    BY <1>6, FS_AddElement
  <2> QED
    BY <1>6, <2>1
<1>8. Cardinality(Replies(all)) <= Cardinality(Replies(bytes) \cup {x})
  BY <1>5, <1>7, FS_Subset
<1>9. Cardinality(Replies(bytes) \cup {x}) \in Nat
  BY <1>7, FS_CardinalityType
<1> QED
  BY <1>6, <1>7, <1>8, <1>9 DEF all

(* A longer text makes none, unless it holds one or begins as one ends.     *)
LEMMA NoReply ==
  ASSUME NEW bytes \in Seq(Byte), NEW text \in Seq(Byte), Len(text) >= 3,
         text[1] \notin {1, ReplyChecksum},
         text[1] = kMPU9150Header2Command => text[2] # 1,
         Replies(text) = {}
  PROVE  Cardinality(Replies(bytes \o text)) <= Cardinality(Replies(bytes))
<1> DEFINE all == bytes \o text
           l == Len(bytes)
<1>1. /\ l \in Nat /\ Len(text) \in Nat
      /\ all \in Seq(Byte) /\ Len(all) = l + Len(text)
      /\ \A j \in 1..l + Len(text) : all[j] = IF j <= l THEN bytes[j] ELSE text[j - l]
  BY LenProperties, ConcatProperties
<1>2. ASSUME NEW i \in Replies(all), i \notin Replies(bytes) PROVE FALSE
  <2>1. i \in l - 2..l + Len(text) - 3 /\ ReplyAt(all, i)
    BY <1>2, RepliesAdded DEF Replies
  <2> HIDE DEF all, l
  <2>2. CASE i > l
    <3>1. i - l \in 1..Len(text) - 3
      BY <1>1, <2>1, <2>2
    <3>2. /\ all[i] = text[i - l] /\ all[i + 1] = text[(i - l) + 1]
          /\ all[i + 2] = text[(i - l) + 2] /\ all[i + 3] = text[(i - l) + 3]
      <4>1. \A d \in 0..3 : all[i + d] = text[(i - l) + d]
        <5>1. ASSUME NEW d \in 0..3 PROVE all[i + d] = text[(i - l) + d]
          <6>1. /\ i + d \in 1..l + Len(text) /\ ~ i + d <= l
                /\ (i + d) - l = (i - l) + d
            BY <1>1, <2>1, <2>2
          <6> QED
            BY <1>1, <6>1
        <5> QED
          BY <5>1
      <4>2. i + 0 = i /\ (i - l) + 0 = i - l /\ 0 \in 0..3 /\ 1 \in 0..3 /\ 2 \in 0..3 /\ 3 \in 0..3
        BY <1>1, <2>1
      <4> QED
        BY <4>1, <4>2
    <3>3. ReplyAt(text, i - l)
      BY <2>1, <3>2 DEF ReplyAt
    <3> QED
      BY <3>1, <3>3 DEF Replies
  <2>3. CASE i <= l
    <3>1. /\ l + 1 \in 1..l + Len(text) /\ l + 2 \in 1..l + Len(text)
          /\ ~ l + 1 <= l /\ ~ l + 2 <= l /\ (l + 1) - l = 1 /\ (l + 2) - l = 2
      BY <1>1
    <3>2. all[l + 1] = text[1] /\ all[l + 2] = text[2]
      BY <1>1, <3>1
    <3>3. \/ i = l /\ i + 1 = l + 1 /\ i + 2 = l + 2
          \/ i = l - 1 /\ i + 2 = l + 1
          \/ i = l - 2 /\ i + 3 = l + 1
      BY <1>1, <2>1, <2>3
    <3> QED
      BY <2>1, <3>2, <3>3 DEF ReplyAt
  <2> QED
    BY <1>1, <2>1, <2>2, <2>3
<1>3. Replies(all) \in SUBSET Replies(bytes)
  BY <1>2
<1>4. IsFiniteSet(Replies(bytes))
  BY RepliesFinite
<1> QED
  BY <1>3, <1>4, FS_Subset

(* The bytes of a sample, its checksum c only where it matters.             *)
SampleBytes(text, k, stamp, c) ==
  /\ text \in Seq(Byte) /\ Len(text) = 7
  /\ text[1] = 64 /\ text[2] = 71 /\ text[3] = 4 /\ text[4] = 64
  /\ text[5] = k /\ text[6] = stamp /\ text[7] = c
  /\ k = 71 /\ stamp = 1 => c = 236
  /\ k = 70 /\ stamp = 1 => c = 237
  /\ k = 71 /\ stamp = 0 => c = 237

LEMMA SampleText ==
  ASSUME NEW k \in Byte, NEW stamp \in Byte
  PROVE  \E c \in Byte : SampleBytes(Sample(k, stamp), k, stamp, c)
<1> DEFINE c == 255 - ((203 + k + stamp) % 256)
           start == <<64, 71, 4>>
           data == <<64, k, stamp>>
           frame == start \o data
<1>1. k \in 0..255 /\ stamp \in 0..255
  BY DEF Byte
<1>2. c \in 0..255
  <2>1. \A n \in Nat : 255 - (n % 256) \in 0..255
    OBVIOUS
  <2>2. 203 + k + stamp \in Nat
    BY <1>1
  <2> QED
    BY <2>1, <2>2
<1>3. /\ k = 71 /\ stamp = 1 => c = 236
      /\ k = 70 /\ stamp = 1 => c = 237
      /\ k = 71 /\ stamp = 0 => c = 237
  BY <1>1
<1>4. /\ start \in Seq(Byte) /\ Len(start) = 3 /\ start[1] = 64 /\ start[2] = 71 /\ start[3] = 4
      /\ data \in Seq(Byte) /\ Len(data) = 3 /\ data[1] = 64 /\ data[2] = k /\ data[3] = stamp
  <2>1. 64 \in Byte /\ 71 \in Byte /\ 4 \in Byte
    BY DEF Byte
  <2> QED
    BY <2>1
<1>5. Sample(k, stamp) = Append(frame, Checksum(frame))
  <2>1. Len(<<64, k, stamp>>) + 1 = 4
    OBVIOUS
  <2> QED
    BY <2>1 DEF Sample, Packet, kMPU9150Header1Command, kMPU9150Header2Command
<1> HIDE DEF start, data, c
<1>6. /\ frame \in Seq(Byte) /\ Len(frame) = 6
      /\ frame[1] = 64 /\ frame[2] = 71 /\ frame[3] = 4
      /\ frame[4] = 64 /\ frame[5] = k /\ frame[6] = stamp
  <2>0. /\ frame \in Seq(Byte) /\ Len(frame) = Len(start) + Len(data)
        /\ \A i \in 1..Len(start) + Len(data) :
              frame[i] = IF i <= Len(start) THEN start[i] ELSE data[i - Len(start)]
    <3>1. start \in Seq(Byte) /\ data \in Seq(Byte)
      BY <1>4
    <3> QED
      BY <3>1, ConcatProperties
  <2> HIDE DEF frame
  <2>1. /\ frame \in Seq(Byte) /\ Len(frame) = 3 + 3
        /\ \A i \in 1..3 + 3 : frame[i] = IF i <= 3 THEN start[i] ELSE data[i - 3]
    BY <1>4, <2>0
  <2>2. /\ frame[1] = start[1] /\ frame[2] = start[2] /\ frame[3] = start[3]
        /\ frame[4] = data[4 - 3] /\ frame[5] = data[5 - 3] /\ frame[6] = data[6 - 3]
    BY <2>1
  <2> QED
    BY <1>4, <2>1, <2>2
<1> HIDE DEF frame
<1>7. Checksum(frame) = c
  BY <1>6, SampleSum DEF c
<1>8. /\ Append(frame, c) \in Seq(Byte) /\ Len(Append(frame, c)) = Len(frame) + 1
      /\ \A i \in 1..Len(frame) : Append(frame, c)[i] = frame[i]
      /\ Append(frame, c)[Len(frame) + 1] = c
  <2>1. c \in Byte
    BY <1>2 DEF Byte
  <2> QED
    <3>1. frame \in Seq(Byte)
      BY <1>6
    <3> QED
      BY <2>1, <3>1, AppendProperties
<1>9. c \in Byte
  BY <1>2 DEF Byte
<1>10. /\ Sample(k, stamp) \in Seq(Byte) /\ Len(Sample(k, stamp)) = 7
       /\ \A i \in 1..6 : Sample(k, stamp)[i] = frame[i]
       /\ Sample(k, stamp)[7] = c
  BY <1>5, <1>6, <1>7, <1>8
<1>11. SampleBytes(Sample(k, stamp), k, stamp, c)
  BY <1>3, <1>6, <1>10 DEF SampleBytes
<1> QED
  BY <1>9, <1>11

LEMMA WithoutOne ==
  ASSUME NEW packet \in Seq(Byte), NEW i \in 1..Len(packet), NEW text,
         text = SubSeq(packet, 1, i - 1) \o SubSeq(packet, i + 1, Len(packet))
  PROVE  /\ text \in Seq(Byte) /\ Len(text) = Len(packet) - 1
         /\ \A j \in 1..Len(packet) - 1 : text[j] = IF j < i THEN packet[j] ELSE packet[j + 1]
<1> DEFINE l == Len(packet)
           a == SubSeq(packet, 1, i - 1)
           b == SubSeq(packet, i + 1, l)
<1>1. l \in Nat /\ \A j \in 1..l : packet[j] \in Byte
  BY LenProperties, ElementOfSeq
<1>2. a \in Seq(Byte) /\ Len(a) = i - 1 /\ \A j \in 1..i - 1 : a[j] = packet[j]
  <2>1. 1 \in Int /\ i - 1 \in Int /\ \A j \in 1..i - 1 : packet[j] \in Byte
    BY <1>1
  <2>2. /\ a \in Seq(Byte) /\ Len(a) = IF 1 <= i - 1 THEN (i - 1) - 1 + 1 ELSE 0
        /\ \A j \in 1..(i - 1) - 1 + 1 : a[j] = packet[1 + j - 1]
    BY <2>1, SubSeqProperties
  <2> QED
    BY <1>1, <2>2
<1>3. b \in Seq(Byte) /\ Len(b) = l - i /\ \A j \in 1..l - i : b[j] = packet[i + j]
  <2>1. i + 1 \in Int /\ l \in Int /\ \A j \in i + 1..l : packet[j] \in Byte
    BY <1>1
  <2>2. /\ b \in Seq(Byte) /\ Len(b) = IF i + 1 <= l THEN l - (i + 1) + 1 ELSE 0
        /\ \A j \in 1..l - (i + 1) + 1 : b[j] = packet[(i + 1) + j - 1]
    BY <2>1, SubSeqProperties
  <2> HIDE DEF b
  <2>3. \A j \in 1..l - i : j \in 1..l - (i + 1) + 1 /\ (i + 1) + j - 1 = i + j
    BY <1>1
  <2> QED
    BY <1>1, <2>2, <2>3
<1> HIDE DEF a, b
<1>4. /\ a \o b \in Seq(Byte) /\ Len(a \o b) = Len(a) + Len(b)
      /\ \A j \in 1..Len(a) + Len(b) : (a \o b)[j] = IF j <= Len(a) THEN a[j] ELSE b[j - Len(a)]
  BY <1>2, <1>3, ConcatProperties
<1>5. text = a \o b
  BY DEF a, b, l
<1>6. Len(a) + Len(b) = l - 1
  BY <1>1, <1>2, <1>3
<1>7. ASSUME NEW j \in 1..l - 1
      PROVE  text[j] = IF j < i THEN packet[j] ELSE packet[j + 1]
  <2>1. CASE j < i
    <3>1. j <= Len(a) /\ j \in 1..i - 1
      BY <1>1, <1>2, <2>1
    <3> QED
      BY <1>2, <1>4, <1>5, <1>6, <2>1, <3>1
  <2>2. CASE ~ j < i
    <3>1. ~ j <= Len(a) /\ j - Len(a) \in 1..l - i /\ i + (j - Len(a)) = j + 1
      BY <1>1, <1>2, <2>2
    <3> QED
      BY <1>3, <1>4, <1>5, <1>6, <2>2, <3>1
  <2> QED
    BY <2>1, <2>2
<1> QED
  BY <1>4, <1>5, <1>6, <1>7

(* A sample is no answer and does not end one, damaged or not.              *)
LEMMA SampleIsNoReply ==
  ASSUME NEW k \in Byte, NEW stamp \in Byte,
         NEW text \in Damaged(Sample(k, stamp)) \cup {Sample(k, stamp)}
  PROVE  /\ text \in Seq(Byte) /\ Len(text) >= 3
         /\ text[1] \notin {1, ReplyChecksum}
         /\ text[1] = kMPU9150Header2Command => text[2] # 1
         /\ Replies(text) = {}
<1> DEFINE sample == Sample(k, stamp)
<1>0. PICK c \in Byte : SampleBytes(sample, k, stamp, c)
  BY SampleText
<1> HIDE DEF sample
<1>1. /\ sample \in Seq(Byte) /\ Len(sample) = 7
      /\ sample[1] = 64 /\ sample[2] = 71 /\ sample[3] = 4 /\ sample[4] = 64
      /\ sample[5] = k /\ sample[6] = stamp /\ sample[7] = c
      /\ k = 71 /\ stamp = 1 => c = 236
      /\ k = 70 /\ stamp = 1 => c = 237
      /\ k = 71 /\ stamp = 0 => c = 237
  BY <1>0 DEF SampleBytes
<1>2. /\ k \in 0..255 /\ stamp \in 0..255 /\ c \in 0..255
      /\ \A b \in 0..255 : \A v \in {1, 64, 71, 119} : (b + 1) % 256 = v <=> b = v - 1
  BY DEF Byte
<1>3. CASE text = sample
  <2>1. Replies(text) = {}
    <3>0. Len(text) - 3 = 4
      BY <1>1, <1>3
    <3>1. SUFFICES ASSUME NEW j \in 1..4, ReplyAt(text, j) PROVE FALSE
      BY <3>0 DEF Replies
    <3>2. j = 1 \/ j = 2 \/ j = 3 \/ j = 4
      OBVIOUS
    <3> QED
      BY <1>1, <1>3, <3>1, <3>2 DEF ReplyAt, kMPU9150Header1Command, kMPU9150Header2Command, ReplyChecksum
  <2>2. text[1] = 64 /\ 64 \notin {1, 119} /\ 64 # 71 /\ 7 >= 3
    BY <1>1, <1>3
  <2> QED
    BY <1>1, <1>3, <2>1, <2>2 DEF kMPU9150Header2Command, ReplyChecksum
<1>4. ASSUME NEW i \in 1..7, text = [sample EXCEPT ![i] = (@ + 1) % 256]
      PROVE  /\ text \in Seq(Byte) /\ Len(text) >= 3
             /\ text[1] \notin {1, ReplyChecksum}
             /\ text[1] = kMPU9150Header2Command => text[2] # 1
             /\ Replies(text) = {}
  <2>1. /\ text \in Seq(Byte) /\ Len(text) = 7
        /\ \A j \in 1..7 : text[j] = IF j = i THEN (sample[i] + 1) % 256 ELSE sample[j]
    <3>1. sample \in Seq(Byte) /\ Len(sample) = 7 /\ sample[i] \in Byte
      BY <1>1, ElementOfSeq
    <3>2. (sample[i] + 1) % 256 \in Byte
      <4>1. \A b \in 0..255 : (b + 1) % 256 \in 0..255
        OBVIOUS
      <4> QED
        BY <3>1, <4>1 DEF Byte
    <3> DEFINE e == (sample[i] + 1) % 256
    <3>3. i \in 1..Len(sample) /\ text = [sample EXCEPT ![i] = e]
      BY <1>4, <3>1
    <3> HIDE DEF e
    <3>4. e \in Byte
      BY <3>2 DEF e
    <3>5. /\ [sample EXCEPT ![i] = e] \in Seq(Byte) /\ Len([sample EXCEPT ![i] = e]) = Len(sample)
          /\ \A j \in 1..Len(sample) : [sample EXCEPT ![i] = e][j] = IF j = i THEN e ELSE sample[j]
      <4>1. sample \in Seq(Byte)
        BY <3>1
      <4> QED
        BY <3>3, <3>4, <4>1, ExceptSeq
    <3>6. \A j \in 1..Len(sample) : text[j] = IF j = i THEN e ELSE sample[j]
      BY <3>3, <3>5
    <3> QED
      BY <3>1, <3>3, <3>5, <3>6 DEF e
  <2>2. ASSUME NEW j \in 1..7
        PROVE  text[j] = sample[j] \/ (j = i /\ text[j] = (sample[j] + 1) % 256)
    <3>1. text[j] = IF j = i THEN (sample[i] + 1) % 256 ELSE sample[j]
      BY <2>1
    <3>2. CASE j = i
      BY <3>1, <3>2
    <3>3. CASE j # i
      BY <3>1, <3>3
    <3> QED
      BY <3>2, <3>3
  <2>3. /\ text[1] \in {64, 65} /\ text[2] \in {71, 72} /\ text[3] \in {4, 5}
    <3>1. /\ (64 + 1) % 256 = 65 /\ (71 + 1) % 256 = 72 /\ (4 + 1) % 256 = 5
          /\ 1 \in 1..7 /\ 2 \in 1..7 /\ 3 \in 1..7
      OBVIOUS
    <3> QED
      BY <1>1, <2>2, <3>1
  <2>4. ~ (text[4] = 64 /\ text[5] = 71 /\ text[6] = 1 /\ text[7] = 119)
    <3>1. SUFFICES ASSUME text[4] = 64, text[5] = 71, text[6] = 1, text[7] = 119 PROVE FALSE
      OBVIOUS
    <3>2. /\ k = 71 \/ (i = 5 /\ k = 70)
          /\ stamp = 1 \/ (i = 6 /\ stamp = 0)
          /\ c = 119 \/ (i = 7 /\ c = 118)
      <4>1. 5 \in 1..7 /\ 6 \in 1..7 /\ 7 \in 1..7
        OBVIOUS
      <4>2. /\ 71 = k \/ (i = 5 /\ 71 = (k + 1) % 256)
            /\ 1 = stamp \/ (i = 6 /\ 1 = (stamp + 1) % 256)
            /\ 119 = c \/ (i = 7 /\ 119 = (c + 1) % 256)
        BY <1>1, <2>2, <3>1, <4>1
      <4> QED
        BY <1>2, <4>2
    <3> QED
      BY <1>1, <3>2
  <2>5. Replies(text) = {}
    <3>1. SUFFICES ASSUME NEW j \in 1..4, ReplyAt(text, j) PROVE FALSE
      BY <2>1 DEF Replies
    <3>2. \/ j = 1 /\ text[1 + 2] = 1
          \/ j = 2 /\ text[2] = 64
          \/ j = 3 /\ text[3] = 64
          \/ j = 4 /\ text[4] = 64 /\ text[4 + 1] = 71 /\ text[4 + 2] = 1 /\ text[4 + 3] = 119
      BY <3>1 DEF ReplyAt, kMPU9150Header1Command, kMPU9150Header2Command, ReplyChecksum
    <3> QED
      BY <2>3, <2>4, <3>2
  <2> QED
    BY <2>1, <2>3, <2>5 DEF kMPU9150Header2Command, ReplyChecksum
<1>5. ASSUME NEW i \in 1..7, text = SubSeq(sample, 1, i - 1) \o SubSeq(sample, i + 1, 7)
      PROVE  /\ text \in Seq(Byte) /\ Len(text) >= 3
             /\ text[1] \notin {1, ReplyChecksum}
             /\ text[1] = kMPU9150Header2Command => text[2] # 1
             /\ Replies(text) = {}
  <2>1. /\ text \in Seq(Byte) /\ Len(text) = 6
        /\ \A j \in 1..6 : text[j] = IF j < i THEN sample[j] ELSE sample[j + 1]
    <3>1. sample \in Seq(Byte) /\ i \in 1..Len(sample) /\ Len(sample) = 7
      BY <1>1
    <3>2. text = SubSeq(sample, 1, i - 1) \o SubSeq(sample, i + 1, Len(sample))
      BY <1>5, <3>1
    <3>3. /\ text \in Seq(Byte) /\ Len(text) = Len(sample) - 1
          /\ \A j \in 1..Len(sample) - 1 : text[j] = IF j < i THEN sample[j] ELSE sample[j + 1]
      BY <3>1, <3>2, WithoutOne
    <3> QED
      BY <3>1, <3>3
  <2>2. /\ text[1] = IF 1 < i THEN sample[1] ELSE sample[1 + 1]
        /\ text[2] = IF 2 < i THEN sample[2] ELSE sample[2 + 1]
        /\ text[3] = IF 3 < i THEN sample[3] ELSE sample[3 + 1]
        /\ text[4] = IF 4 < i THEN sample[4] ELSE sample[4 + 1]
        /\ text[5] = IF 5 < i THEN sample[5] ELSE sample[5 + 1]
        /\ text[6] = IF 6 < i THEN sample[6] ELSE sample[6 + 1]
    BY <2>1
  <2>3. i = 1 \/ i = 2 \/ i = 3 \/ i > 3
    OBVIOUS
  <2>4. /\ text[1] = 64 \/ (text[1] = 71 /\ text[2] = 4)
        /\ text[1] = 64 => text[2] # 71 \/ text[3] # 1
        /\ text[2] = 64 => text[3] # 71
        /\ text[3] = 64 => text[4] # 71 \/ text[5] # 1 \/ text[6] # 119
    <3>0. ~ (k = 71 /\ stamp = 1 /\ c = 119)
      BY <1>1
    <3>1. CASE i = 1
      <4>1. /\ text[1] = 71 /\ text[2] = 4 /\ text[3] = 64
            /\ text[4] = k /\ text[5] = stamp /\ text[6] = c
        BY <1>1, <2>2, <3>1
      <4> QED
        BY <3>0, <4>1
    <3>2. CASE i = 2
      <4>1. /\ text[1] = 64 /\ text[2] = 4 /\ text[3] = 64
            /\ text[4] = k /\ text[5] = stamp /\ text[6] = c
        BY <1>1, <2>2, <3>2
      <4> QED
        BY <3>0, <4>1
    <3>3. CASE i = 3
      <4>1. /\ text[1] = 64 /\ text[2] = 71 /\ text[3] = 64
            /\ text[4] = k /\ text[5] = stamp /\ text[6] = c
        BY <1>1, <2>2, <3>3
      <4> QED
        BY <3>0, <4>1
    <3>4. CASE i > 3
      <4>1. text[1] = 64 /\ text[2] = 71 /\ text[3] = 4
        BY <1>1, <2>2, <3>4
      <4> QED
        BY <4>1
    <3> QED
      BY <2>3, <3>1, <3>2, <3>3, <3>4
  <2>5. Replies(text) = {}
    <3>1. SUFFICES ASSUME NEW j \in 1..3, ReplyAt(text, j) PROVE FALSE
      BY <2>1 DEF Replies
    <3>2. \/ j = 1 /\ text[1] = 64 /\ text[1 + 1] = 71 /\ text[1 + 2] = 1
          \/ j = 2 /\ text[2] = 64 /\ text[2 + 1] = 71
          \/ j = 3 /\ text[3] = 64 /\ text[3 + 1] = 71 /\ text[3 + 2] = 1 /\ text[3 + 3] = 119
      BY <3>1 DEF ReplyAt, kMPU9150Header1Command, kMPU9150Header2Command, ReplyChecksum
    <3> QED
      BY <2>4, <3>2
  <2> QED
    BY <2>1, <2>4, <2>5 DEF kMPU9150Header2Command, ReplyChecksum
<1>6. \/ text = sample
      \/ \E i \in 1..7 : text = [sample EXCEPT ![i] = (@ + 1) % 256]
      \/ \E i \in 1..7 : text = SubSeq(sample, 1, i - 1) \o SubSeq(sample, i + 1, 7)
  <2>1. \/ text = sample
        \/ \E i \in 1..Len(sample) :
              \/ text = [sample EXCEPT ![i] = (@ + 1) % 256]
              \/ text = SubSeq(sample, 1, i - 1) \o SubSeq(sample, i + 1, Len(sample))
    BY DEF Damaged, sample
  <2> QED
    BY <1>1, <2>1
<1> QED
  BY <1>1, <1>3, <1>4, <1>5, <1>6

(* What the sensor puts on the line: a sample adds no answer, an answer at  *)
(* most one.                                                                *)
LEMMA RepliesPut ==
  ASSUME line \in Seq(Byte)
  PROVE  /\ \A k, stamp \in Byte :
               Put(Sample(k, stamp)) => Cardinality(Replies(line')) <= Cardinality(Replies(line))
         /\ Put(Reply) => Cardinality(Replies(line')) <= Cardinality(Replies(line)) + 1
<1>0. Cardinality(Replies(line)) \in Nat /\ line \o <<>> = line
  BY RepliesFinite, ConcatEmptySeq
<1>1. ASSUME NEW k \in Byte, NEW stamp \in Byte, Put(Sample(k, stamp))
      PROVE  Cardinality(Replies(line')) <= Cardinality(Replies(line))
  <2>1. PICK text \in Damaged(Sample(k, stamp)) \cup {Sample(k, stamp), <<>>} : line' = line \o text
    BY <1>1 DEF Put
  <2>2. CASE text = <<>>
    BY <1>0, <2>1, <2>2
  <2>3. CASE text # <<>>
    <3>1. text \in Damaged(Sample(k, stamp)) \cup {Sample(k, stamp)}
      BY <2>1, <2>3
    <3>2. /\ text \in Seq(Byte) /\ Len(text) >= 3
          /\ text[1] \notin {1, ReplyChecksum}
          /\ text[1] = kMPU9150Header2Command => text[2] # 1
          /\ Replies(text) = {}
      BY <3>1, SampleIsNoReply
    <3> QED
      BY <2>1, <3>2, NoReply
  <2> QED
    BY <2>2, <2>3
<1>2. ASSUME Put(Reply)
      PROVE  Cardinality(Replies(line')) <= Cardinality(Replies(line)) + 1
  <2>1. PICK text \in Damaged(Reply) \cup {Reply, <<>>} : line' = line \o text
    BY <1>2 DEF Put
  <2>2. Reply \in Seq(Byte) /\ Len(Reply) = 4
    <3>1. <<>> \in Seq(Byte) /\ Len(<<>>) = 0
      OBVIOUS
    <3>2. Len(<<>>) < 255
      BY <3>1
    <3>3. Packet(<<>>) \in Seq(Byte) /\ Len(Packet(<<>>)) = Len(<<>>) + 4
      BY <3>1, <3>2, PacketIsBytes
    <3> QED
      BY <3>1, <3>3 DEF Reply
  <2>3. text \in Seq(Byte) /\ Len(text) <= 4
    <3>1. CASE text = <<>>
      BY <3>1
    <3>2. CASE text = Reply
      <4>1. Len(Reply) <= 4
        BY <2>2
      <4> QED
        BY <2>2, <3>2, <4>1
    <3>3. CASE \E i \in 1..Len(Reply) : text = [Reply EXCEPT ![i] = (@ + 1) % 256]
      <4>1. text \in Seq(Byte)
        <5>1. text \in Damaged(Reply)
          <6>1. PICK i \in 1..Len(Reply) : text = [Reply EXCEPT ![i] = (@ + 1) % 256]
            BY <3>3
          <6> DEFINE both == {[Reply EXCEPT ![i] = (@ + 1) % 256],
                              SubSeq(Reply, 1, i - 1) \o SubSeq(Reply, i + 1, Len(Reply))}
          <6>2. text \in both
            BY <6>1
          <6>3. both \in {{[Reply EXCEPT ![j] = (@ + 1) % 256],
                           SubSeq(Reply, 1, j - 1) \o SubSeq(Reply, j + 1, Len(Reply))} :
                           j \in 1..Len(Reply)}
            OBVIOUS
          <6> HIDE DEF both
          <6> QED
            BY <6>2, <6>3 DEF Damaged
        <5> QED
          BY <2>2, <5>1, DamagedIsBytes
      <4>2. DOMAIN text = DOMAIN Reply /\ DOMAIN Reply = 1..4 /\ DOMAIN text = 1..Len(text)
        BY <2>2, <3>3, <4>1, LenProperties
      <4>3. Len(text) \in Nat
        BY <4>1, LenProperties
      <4>4. Len(text) = 4
        <5>1. \A n \in Nat : 1..n = 1..4 => n = 4
          <6>1. ASSUME NEW n \in Nat, 1..n = 1..4 PROVE n = 4
            <7>1. 4 \in 1..4 /\ 5 \notin 1..4
              OBVIOUS
            <7>2. 4 \in 1..n /\ 5 \notin 1..n
              BY <6>1, <7>1
            <7> QED
              BY <7>2
          <6> QED
            BY <6>1
        <5> QED
          BY <4>2, <4>3, <5>1
      <4> QED
        BY <4>1, <4>4
    <3>4. CASE \E i \in 1..Len(Reply) : text = SubSeq(Reply, 1, i - 1) \o SubSeq(Reply, i + 1, Len(Reply))
      <4>1. PICK i \in 1..Len(Reply) : text = SubSeq(Reply, 1, i - 1) \o SubSeq(Reply, i + 1, Len(Reply))
        BY <3>4
      <4>2. text \in Seq(Byte) /\ Len(text) = Len(Reply) - 1
        BY <2>2, <4>1, WithoutOne
      <4> QED
        BY <2>2, <4>2
    <3> QED
      BY <2>1, <3>1, <3>2, <3>3, <3>4 DEF Damaged
  <2> QED
    BY <2>1, <2>3, OneReply
<1> QED
  BY <1>1, <1>2

(* What the parser has kept is what it was given last, and an answer is only *)
(* found where one stands.                                                  *)
Parsed(p, bytes, k) ==
  IF p.reply THEN \E i \in Replies(bytes) : i <= k - 3
  ELSE /\ Len(p.packet) <= k
       /\ \A j \in 1..Len(p.packet) : p.packet[j] = bytes[k - Len(p.packet) + j]
       /\ p.state = "Header1" => Len(p.packet) = 0
       /\ p.state = "Header2" => Len(p.packet) = 1
       /\ p.state = "Length" => Len(p.packet) = 2
       /\ p.state \in {"Data", "Checksum"} => Len(p.packet) >= 3
       /\ Len(p.packet) >= 1 => p.packet[1] = kMPU9150Header1Command
       /\ Len(p.packet) >= 2 => p.packet[2] = kMPU9150Header2Command
       /\ Len(p.packet) >= 3 /\ p.packet[3] = 1 => Len(p.packet) = 3 /\ p.state = "Checksum"

LEMMA ParsedNext ==
  ASSUME NEW bytes \in Seq(Byte), NEW k \in 1..Len(bytes), NEW p \in ParserStates,
         Parsed(p, bytes, k - 1)
  PROVE  Parsed(ParseNext(p, bytes[k]), bytes, k)
<1> DEFINE input == bytes[k]
           n == Len(p.packet)
           longer == Append(p.packet, input)
<1>1. Len(bytes) \in Nat /\ input \in Byte
  BY LenProperties, ElementOfSeq
<1>2. /\ p.packet \in Seq(Byte) /\ n \in Nat
      /\ p.state \in {"Header1", "Header2", "Length", "Data", "Checksum"}
      /\ p.reply \in BOOLEAN
  BY LenProperties DEF ParserStates
<1>3. ParseNext(p, input) = IF p.reply THEN p ELSE TryParse(p, input)
  <2>1. {IF x.reply THEN x ELSE TryParse(x, input) : x \in {p}} = {IF p.reply THEN p ELSE TryParse(p, input)}
    OBVIOUS
  <2>2. \A x : (CHOOSE y \in {x} : TRUE) = x
    OBVIOUS
  <2> QED
    BY <2>1, <2>2 DEF ParseNext
<1>4. CASE p.reply
  <2>1. PICK i \in Replies(bytes) : i <= (k - 1) - 3
    BY <1>4 DEF Parsed
  <2>2. i <= k - 3
    BY <2>1 DEF Replies
  <2> QED
    BY <1>3, <1>4, <2>2 DEF Parsed
<1>5. CASE ~ p.reply
  <2>1. /\ n <= k - 1
        /\ \A j \in 1..n : p.packet[j] = bytes[(k - 1) - n + j]
        /\ p.state = "Header1" => n = 0
        /\ p.state = "Header2" => n = 1
        /\ p.state = "Length" => n = 2
        /\ p.state \in {"Data", "Checksum"} => n >= 3
        /\ n >= 1 => p.packet[1] = kMPU9150Header1Command
        /\ n >= 2 => p.packet[2] = kMPU9150Header2Command
        /\ n >= 3 /\ p.packet[3] = 1 => n = 3 /\ p.state = "Checksum"
    BY <1>5 DEF Parsed
  <2>2. /\ longer \in Seq(Byte) /\ Len(longer) = n + 1
        /\ \A j \in 1..n : longer[j] = p.packet[j]
        /\ longer[n + 1] = input
    BY <1>1, <1>2, AppendProperties
  <2> HIDE DEF longer, input
  <2>3. \A j \in 1..n + 1 : longer[j] = bytes[k - (n + 1) + j]
    <3>1. ASSUME NEW j \in 1..n + 1 PROVE longer[j] = bytes[k - (n + 1) + j]
      <4>1. CASE j = n + 1
        <5>1. \A a \in Int, m \in Nat : a - (m + 1) + (m + 1) = a
          OBVIOUS
        <5>2. k \in Int /\ n \in Nat
          BY <1>2
        <5>3. k - (n + 1) + j = k
          BY <4>1, <5>1, <5>2
        <5> QED
          BY <2>2, <4>1, <5>3 DEF input
      <4>2. CASE j # n + 1
        <5>1. j \in 1..n /\ (k - 1) - n + j = k - (n + 1) + j
          BY <1>2, <4>2
        <5> QED
          BY <2>1, <2>2, <5>1
      <4> QED
        BY <4>1, <4>2
    <3> QED
      BY <3>1
  <2>4. Parsed(Restart(p), bytes, k)
    <3>1. /\ Restart(p).state = "Header1" /\ Restart(p).packet = <<>> /\ ~ Restart(p).reply
          /\ Len(<<>>) = 0
      BY <1>5 DEF Restart, ParserStates
    <3>2. 0 <= k /\ ~ 0 >= 1 /\ ~ 0 >= 2 /\ ~ 0 >= 3 /\ 1..0 = {}
      OBVIOUS
    <3> QED
      BY <3>1, <3>2 DEF Parsed
  <2>5. ASSUME NEW state \in {"Header1", "Header2", "Length", "Data", "Checksum"}
        PROVE  /\ Keep(p, input, state).state = state /\ Keep(p, input, state).packet = longer
               /\ ~ Keep(p, input, state).reply
    BY <1>5 DEF Keep, ParserStates, longer
  <2> HIDE DEF n
  <2>6. CASE p.state = "Header1"
    <3>1. CASE input = kMPU9150Header1Command
      <4>1. TryParse(p, input) = Keep(p, input, "Header2")
        BY <2>6, <3>1 DEF TryParse
      <4>2. n = 0 /\ Len(longer) = 1 /\ longer[1] = kMPU9150Header1Command
        BY <2>1, <2>2, <2>6, <3>1
      <4>3. Len(longer) <= k /\ \A j \in 1..Len(longer) : longer[j] = bytes[k - Len(longer) + j]
        BY <1>2, <2>1, <2>2, <2>3
      <4>4. Parsed(Keep(p, input, "Header2"), bytes, k)
        <5>1. ~ Len(longer) >= 2 /\ ~ Len(longer) >= 3
          BY <4>2
        <5> QED
          BY <2>5, <4>2, <4>3, <5>1 DEF Parsed
      <4> QED
        BY <1>3, <1>5, <4>1, <4>4 DEF input
    <3>2. CASE input # kMPU9150Header1Command
      <4>1. TryParse(p, input) = p
        BY <2>6, <3>2 DEF TryParse
      <4>2. n = 0
        BY <2>1, <2>6
      <4>3. Parsed(p, bytes, k)
        <5>1. 0 <= k /\ ~ 0 >= 1 /\ ~ 0 >= 2 /\ ~ 0 >= 3 /\ 1..0 = {}
          OBVIOUS
        <5> QED
          BY <1>5, <2>6, <4>2, <5>1 DEF Parsed, n
      <4> QED
        BY <1>3, <1>5, <4>1, <4>3 DEF input
    <3> QED
      BY <3>1, <3>2
  <2>7. CASE p.state = "Header2"
    <3>1. CASE input = kMPU9150Header2Command
      <4>1. TryParse(p, input) = Keep(p, input, "Length")
        BY <2>7, <3>1 DEF TryParse
      <4>2. /\ n = 1 /\ Len(longer) = 2
            /\ longer[1] = kMPU9150Header1Command /\ longer[2] = kMPU9150Header2Command
        BY <2>1, <2>2, <2>7, <3>1
      <4>3. Len(longer) <= k /\ \A j \in 1..Len(longer) : longer[j] = bytes[k - Len(longer) + j]
        BY <1>2, <2>1, <2>2, <2>3
      <4>4. Parsed(Keep(p, input, "Length"), bytes, k)
        <5>1. ~ Len(longer) >= 3
          BY <4>2
        <5> QED
          BY <2>5, <4>2, <4>3, <5>1 DEF Parsed
      <4> QED
        BY <1>3, <1>5, <4>1, <4>4 DEF input
    <3>2. CASE input # kMPU9150Header2Command
      <4>1. TryParse(p, input) = Restart(p)
        BY <2>7, <3>2 DEF TryParse
      <4> QED
        BY <1>3, <1>5, <2>4, <4>1 DEF input
    <3> QED
      BY <3>1, <3>2
  <2>8. CASE p.state = "Length"
    <3>1. CASE input < 1
      <4>1. TryParse(p, input) = Restart(p)
        BY <2>8, <3>1 DEF TryParse
      <4> QED
        BY <1>3, <1>5, <2>4, <4>1 DEF input
    <3>2. CASE ~ input < 1
      <4> DEFINE state == IF input = 1 THEN "Checksum" ELSE "Data"
      <4>1. TryParse(p, input) = Keep(p, input, state)
        BY <2>8, <3>2 DEF TryParse
      <4>2. /\ n = 2 /\ Len(longer) = 3 /\ longer[3] = input
            /\ longer[1] = kMPU9150Header1Command /\ longer[2] = kMPU9150Header2Command
        BY <2>1, <2>2, <2>8
      <4>3. Len(longer) <= k /\ \A j \in 1..Len(longer) : longer[j] = bytes[k - Len(longer) + j]
        BY <1>2, <2>1, <2>2, <2>3
      <4>4. Parsed(Keep(p, input, state), bytes, k)
        <5>1. state \in {"Data", "Checksum"} /\ (longer[3] = 1 => state = "Checksum")
          BY <4>2
        <5>2. Len(longer) >= 3
          BY <4>2
        <5> HIDE DEF state
        <5>3. CASE state = "Data"
          BY <2>5, <4>2, <4>3, <5>1, <5>2, <5>3 DEF Parsed
        <5>4. CASE state = "Checksum"
          BY <2>5, <4>2, <4>3, <5>1, <5>2, <5>4 DEF Parsed
        <5> QED
          BY <5>1, <5>3, <5>4
      <4> QED
        BY <1>3, <1>5, <4>1, <4>4 DEF input
    <3> QED
      BY <3>1, <3>2
  <2>9. CASE p.state = "Data"
    <3> DEFINE state == IF n + 1 = p.packet[3] + 2 THEN "Checksum" ELSE "Data"
    <3>1. TryParse(p, input) = Keep(p, input, state)
      BY <2>9 DEF TryParse, n
    <3>2. /\ n >= 3 /\ p.packet[3] # 1
          /\ p.packet[1] = kMPU9150Header1Command /\ p.packet[2] = kMPU9150Header2Command
      BY <1>2, <2>1, <2>9
    <3>3. Len(longer) <= k /\ \A j \in 1..Len(longer) : longer[j] = bytes[k - Len(longer) + j]
      BY <1>2, <2>1, <2>2, <2>3
    <3>4. /\ longer[1] = p.packet[1] /\ longer[2] = p.packet[2] /\ longer[3] = p.packet[3]
          /\ Len(longer) >= 3
      BY <1>2, <2>2, <3>2
    <3>5. state \in {"Data", "Checksum"}
      OBVIOUS
    <3> HIDE DEF state
    <3>6. Parsed(Keep(p, input, state), bytes, k)
      <4>1. CASE state = "Data"
        BY <2>5, <3>2, <3>3, <3>4, <4>1 DEF Parsed
      <4>2. CASE state = "Checksum"
        BY <2>5, <3>2, <3>3, <3>4, <4>2 DEF Parsed
      <4> QED
        BY <3>5, <4>1, <4>2
    <3> QED
      BY <1>3, <1>5, <3>1, <3>6 DEF input
  <2>10. CASE p.state = "Checksum"
    <3> DEFINE all == [Restart(p) EXCEPT !.packets = p.packets \o longer]
               found == [all EXCEPT !.reply = TRUE]
    <3>1. TryParse(p, input) = Finish(p, input)
      BY <2>10 DEF TryParse
    <3>2. /\ all.state = "Header1" /\ all.packet = <<>> /\ ~ all.reply /\ found.reply
          /\ Len(<<>>) = 0
      BY <1>5 DEF Restart, ParserStates
    <3>3. /\ input # Checksum(p.packet) => Finish(p, input) = Restart(p)
          /\ input = Checksum(p.packet) /\ p.packet[3] # 1 => Finish(p, input) = all
          /\ input = Checksum(p.packet) /\ p.packet[3] = 1 => Finish(p, input) = found
      BY DEF Finish, longer
    <3> HIDE DEF all, found
    <3>4. Parsed(all, bytes, k)
      <4>1. 0 <= k /\ ~ 0 >= 1 /\ ~ 0 >= 2 /\ ~ 0 >= 3 /\ 1..0 = {}
        OBVIOUS
      <4> QED
        BY <3>2, <4>1 DEF Parsed
    <3>5. ASSUME input = Checksum(p.packet), p.packet[3] = 1
          PROVE  Parsed(found, bytes, k)
      <4>1. /\ n = 3 /\ n <= k - 1
            /\ p.packet[1] = kMPU9150Header1Command /\ p.packet[2] = kMPU9150Header2Command
        BY <1>2, <2>1, <2>10, <3>5
      <4>2. input = ReplyChecksum
        BY <1>2, <3>5, <4>1, ReplySum DEF n
      <4>3. /\ bytes[k - 3] = p.packet[1] /\ bytes[k - 2] = p.packet[2] /\ bytes[k - 1] = p.packet[3]
        <5>1. /\ (k - 1) - 3 + 1 = k - 3 /\ (k - 1) - 3 + 2 = k - 2 /\ (k - 1) - 3 + 3 = k - 1
              /\ 1 \in 1..3 /\ 2 \in 1..3 /\ 3 \in 1..3
          OBVIOUS
        <5>2. \A j \in 1..3 : p.packet[j] = bytes[(k - 1) - 3 + j]
          BY <2>1, <4>1
        <5>3. /\ p.packet[1] = bytes[(k - 1) - 3 + 1] /\ p.packet[2] = bytes[(k - 1) - 3 + 2]
              /\ p.packet[3] = bytes[(k - 1) - 3 + 3]
          BY <5>1, <5>2
        <5> QED
          BY <5>1, <5>3
      <4>4. k - 3 \in 1..Len(bytes) - 3 /\ (k - 3) + 1 = k - 2 /\ (k - 3) + 2 = k - 1 /\ (k - 3) + 3 = k
        BY <1>1, <4>1
      <4>5. ReplyAt(bytes, k - 3)
        BY <3>5, <4>1, <4>2, <4>3, <4>4 DEF ReplyAt, input
      <4>6. k - 3 \in Replies(bytes) /\ k - 3 <= k - 3
        BY <4>4, <4>5 DEF Replies
      <4> QED
        BY <3>2, <4>6 DEF Parsed
    <3> QED
      BY <1>3, <1>5, <2>4, <3>1, <3>3, <3>4, <3>5 DEF input
  <2> QED
    BY <1>2, <2>6, <2>7, <2>8, <2>9, <2>10 DEF input
<1> QED
  BY <1>2, <1>4, <1>5

LEMMA ReplyFound ==
  ASSUME NEW bytes \in Seq(Byte), ParseAll(bytes).reply
  PROVE  Replies(bytes) # {}
<1> DEFINE n == Len(bytes)
<1>1. n \in Nat
  BY LenProperties
<1>2. PICK G \in [0..n -> ParserStates] :
        /\ G[0] = Start
        /\ \A k \in 1..n : G[k] = ParseNext(G[k - 1], bytes[k])
        /\ ParseAll(bytes) = G[n]
  BY ParseSteps
<1> DEFINE I == {k \in Nat : k <= n => Parsed(G[k], bytes, k)}
<1>3. 0 \in I
  <2>1. Start.state = "Header1" /\ Start.packet = <<>> /\ ~ Start.reply /\ Len(<<>>) = 0
    BY DEF Start
  <2>2. 0 <= 0 /\ ~ 0 >= 1 /\ ~ 0 >= 2 /\ ~ 0 >= 3 /\ 1..0 = {}
    OBVIOUS
  <2>3. Parsed(Start, bytes, 0)
    BY <2>1, <2>2 DEF Parsed
  <2> QED
    BY <1>2, <2>3
<1>4. ASSUME NEW k \in Nat, k \in I PROVE k + 1 \in I
  <2>1. SUFFICES ASSUME k + 1 <= n PROVE Parsed(G[k + 1], bytes, k + 1)
    OBVIOUS
  <2>2. k + 1 \in 1..n /\ (k + 1) - 1 = k /\ k <= n /\ k \in 0..n
    BY <1>1, <2>1
  <2>3. Parsed(G[k], bytes, (k + 1) - 1) /\ G[k] \in ParserStates
    BY <1>2, <1>4, <2>2
  <2>4. Parsed(ParseNext(G[k], bytes[k + 1]), bytes, k + 1)
    BY <2>2, <2>3, ParsedNext
  <2> QED
    BY <1>2, <2>2, <2>4
<1> HIDE DEF I
<1>5. n \in I
  BY <1>1, <1>3, <1>4, Induction
<1>6. Parsed(G[n], bytes, n)
  BY <1>1, <1>5 DEF I
<1> QED
  BY <1>2, <1>6 DEF Parsed

(* What is read is gone, an answer that was found with it.                  *)
LEMMA RepliesConsumed ==
  ASSUME line \in Seq(Byte), NEW receipt \in Receipts, Consume(receipt)
  PROVE  /\ Cardinality(Replies(line')) <= Cardinality(Replies(line))
         /\ IsReply(receipt) => Cardinality(Replies(line')) + 1 <= Cardinality(Replies(line))
<1> DEFINE n == receipt.n
           l == Len(line)
           rest == SubSeq(line, n + 1, l)
           Left == {i \in Replies(line) : i > n}
<1>1. n \in 0..l /\ l \in Nat /\ \A j \in 1..l : line[j] \in Byte
  BY ReceiptType, LenProperties, ElementOfSeq
<1>2. /\ rest \in Seq(Byte) /\ Len(rest) = l - n
      /\ \A j \in 1..l - n : rest[j] = line[n + j]
  <2>1. n + 1 \in Int /\ l \in Int /\ \A j \in n + 1..l : line[j] \in Byte
    BY <1>1
  <2>2. /\ rest \in Seq(Byte) /\ Len(rest) = IF n + 1 <= l THEN l - (n + 1) + 1 ELSE 0
        /\ \A j \in 1..l - (n + 1) + 1 : rest[j] = line[(n + 1) + j - 1]
    BY <2>1, SubSeqProperties
  <2> HIDE DEF rest, l, n
  <2>3. \A j \in 1..l - n : j \in 1..l - (n + 1) + 1 /\ (n + 1) + j - 1 = n + j
    BY <1>1
  <2>4. l - n = IF n + 1 <= l THEN l - (n + 1) + 1 ELSE 0
    BY <1>1
  <2> QED
    BY <2>2, <2>3, <2>4
<1>3. line' = rest
  BY DEF Consume
<1> HIDE DEF rest
<1>4. /\ IsFiniteSet(Replies(line)) /\ Cardinality(Replies(line)) \in Nat
      /\ IsFiniteSet(Replies(rest)) /\ Cardinality(Replies(rest)) \in Nat
  BY <1>2, RepliesFinite
<1>5. IsFiniteSet(Left) /\ Cardinality(Left) <= Cardinality(Replies(line)) /\ Cardinality(Left) \in Nat
  <2>1. Left \in SUBSET Replies(line)
    OBVIOUS
  <2> QED
    BY <1>4, <2>1, FS_Subset, FS_CardinalityType
<1>6. Cardinality(Replies(rest)) <= Cardinality(Left)
  <2> DEFINE f == [i \in Replies(rest) |-> n + i]
  <2>1. ASSUME NEW i \in Replies(rest) PROVE n + i \in Left
    <3>1. i \in 1..(l - n) - 3 /\ ReplyAt(rest, i)
      BY <1>2 DEF Replies
    <3>2. /\ rest[i] = line[n + i] /\ rest[i + 1] = line[(n + i) + 1]
          /\ rest[i + 2] = line[(n + i) + 2] /\ rest[i + 3] = line[(n + i) + 3]
      <4>1. ASSUME NEW d \in 0..3 PROVE rest[i + d] = line[(n + i) + d]
        <5>1. \A ll \in Nat : \A nn \in 0..ll : \A x \in 1..(ll - nn) - 3 : \A y \in 0..3 :
                 x + y \in 1..ll - nn /\ nn + (x + y) = (nn + x) + y
          OBVIOUS
        <5>2. i + d \in 1..l - n /\ n + (i + d) = (n + i) + d
          BY <1>1, <3>1, <5>1
        <5> QED
          BY <1>2, <5>2
      <4>2. /\ i + 0 = i /\ (n + i) + 0 = n + i
            /\ 0 \in 0..3 /\ 1 \in 0..3 /\ 2 \in 0..3 /\ 3 \in 0..3
        BY <1>1, <3>1
      <4> QED
        BY <4>1, <4>2
    <3>3. ReplyAt(line, n + i)
      BY <3>1, <3>2 DEF ReplyAt
    <3>4. n + i \in 1..l - 3 /\ n + i > n
      BY <1>1, <3>1
    <3> QED
      BY <3>3, <3>4 DEF Replies
  <2>2. ASSUME NEW i \in Replies(rest), NEW j \in Replies(rest), n + i = n + j PROVE i = j
    <3>1. i \in Int /\ j \in Int
      BY DEF Replies
    <3> QED
      BY <1>1, <2>2, <3>1
  <2>3. f \in Injection(Replies(rest), Left)
    <3> HIDE DEF Left, n
    <3> QED
      BY <2>1, <2>2 DEF Injection, IsInjective
  <2> QED
    BY <1>5, <2>3, FS_Injection
<1>7. ASSUME IsReply(receipt)
      PROVE  Cardinality(Left) + 1 <= Cardinality(Replies(line))
  <2> DEFINE bytes == SubSeq(line, 1, n)
  <2>1. n \in 1..l /\ receipt = ReadOf(n)
    <3>1. receipt # Failed
      BY <1>7 DEF IsReply, Failed
    <3>2. PICK m \in 1..l : receipt = ReadOf(m)
      BY <3>1 DEF Receipts
    <3> DEFINE r == [n |-> m, error |-> ParseAll(SubSeq(line, 1, m)).packets = <<>>,
                     packets |-> ParseAll(SubSeq(line, 1, m)).packets,
                     reply |-> ParseAll(SubSeq(line, 1, m)).reply]
    <3>3. receipt = r
      <4>1. {[n |-> m, error |-> p.packets = <<>>, packets |-> p.packets, reply |-> p.reply] :
               p \in {ParseAll(SubSeq(line, 1, m))}} = {r}
        OBVIOUS
      <4>2. \A x : (CHOOSE y \in {x} : TRUE) = x
        OBVIOUS
      <4> QED
        BY <3>2, <4>1, <4>2 DEF ReadOf
    <3>4. n = m
      BY <3>3
    <3> QED
      BY <3>2, <3>4
  <2>2. ParseAll(bytes).reply
    <3> DEFINE r == [n |-> n, error |-> ParseAll(bytes).packets = <<>>,
                     packets |-> ParseAll(bytes).packets, reply |-> ParseAll(bytes).reply]
    <3>1. {[n |-> n, error |-> p.packets = <<>>, packets |-> p.packets, reply |-> p.reply] :
               p \in {ParseAll(bytes)}} = {r}
      OBVIOUS
    <3>2. \A x : (CHOOSE y \in {x} : TRUE) = x
      OBVIOUS
    <3>3. ReadOf(n) = r
      BY <3>1, <3>2 DEF ReadOf
    <3>4. receipt.reply
      BY <1>7 DEF IsReply
    <3> QED
      BY <2>1, <3>3, <3>4
  <2>3. /\ bytes \in Seq(Byte) /\ Len(bytes) = n
        /\ \A j \in 1..n : bytes[j] = line[j]
    <3>1. 1 \in Int /\ n \in Int /\ \A j \in 1..n : line[j] \in Byte
      BY <1>1
    <3>2. /\ bytes \in Seq(Byte) /\ Len(bytes) = IF 1 <= n THEN n - 1 + 1 ELSE 0
          /\ \A j \in 1..n - 1 + 1 : bytes[j] = line[1 + j - 1]
      BY <3>1, SubSeqProperties
    <3> HIDE DEF bytes
    <3>3. 1 <= n /\ n - 1 + 1 = n /\ \A j \in 1..n : 1 + j - 1 = j
      BY <1>1, <2>1
    <3> QED
      BY <3>2, <3>3
  <2>4. PICK i : i \in Replies(bytes)
    BY <2>2, <2>3, ReplyFound
  <2> HIDE DEF bytes
  <2>5. i \in 1..n - 3 /\ ReplyAt(bytes, i)
    BY <2>3, <2>4 DEF Replies
  <2>6. i \in Replies(line) /\ i \notin Left
    <3>1. /\ bytes[i] = line[i] /\ bytes[i + 1] = line[i + 1]
          /\ bytes[i + 2] = line[i + 2] /\ bytes[i + 3] = line[i + 3]
      <4>1. i \in 1..n /\ i + 1 \in 1..n /\ i + 2 \in 1..n /\ i + 3 \in 1..n
        BY <1>1, <2>5
      <4> QED
        BY <2>3, <4>1
    <3>2. i \in 1..l - 3 /\ ~ i > n
      BY <1>1, <2>5
    <3> QED
      BY <2>5, <3>1, <3>2 DEF Replies, ReplyAt
  <2>7. Left \in SUBSET (Replies(line) \ {i})
    BY <2>6
  <2>8. /\ IsFiniteSet(Replies(line) \ {i})
        /\ Cardinality(Replies(line) \ {i}) = Cardinality(Replies(line)) - 1
    <3>1. /\ IsFiniteSet(Replies(line) \ {i})
          /\ Cardinality(Replies(line) \ {i}) =
               IF i \in Replies(line) THEN Cardinality(Replies(line)) - 1 ELSE Cardinality(Replies(line))
      BY <1>4, FS_RemoveElement
    <3> QED
      BY <2>6, <3>1
  <2>9. Cardinality(Left) <= Cardinality(Replies(line) \ {i})
    BY <2>7, <2>8, FS_Subset
  <2> HIDE DEF Left
  <2> QED
    BY <1>4, <1>5, <2>8, <2>9
<1> HIDE DEF Left
<1> QED
  BY <1>3, <1>4, <1>5, <1>6, <1>7

-----------------------------------------------------------------------------
(* Every command was answered or given up, but the one that runs, and each  *)
(* answer was the sensor's: those that were taken and those that are on the *)
(* line are no more than the resets it made.                                *)

Running == IF status_ = "Waiting" THEN 0 ELSE 1
Answered == sensor.commands - gaveup - Running

ResetInv ==
  /\ gaveup \in Nat
  /\ Answered + Cardinality(Replies(line)) <= sensor.resets

LEMMA ResetInit == Init => ResetInv
<1> SUFFICES ASSUME Init PROVE ResetInv
  OBVIOUS
<1>1. line = <<>> /\ gaveup = 0 /\ sensor.commands = 0 /\ sensor.resets = 0 /\ Running = 0
  BY DEF Init, Running
<1>2. Replies(<<>>) = {}
  <2>1. Len(<<>>) = 0 /\ 1..0 - 3 = {}
    OBVIOUS
  <2> QED
    BY <2>1 DEF Replies
<1>3. Cardinality(Replies(line)) = 0
  BY <1>1, <1>2, FS_EmptySet
<1> QED
  BY <1>1, <1>3 DEF ResetInv, Answered

LEMMA ResetRest ==
  ResetInv /\ UNCHANGED <<gaveup, sensor, status_, line>> => ResetInv'
BY DEF ResetInv, Answered, Running

(* What the steps do to the two sides of the inequality.                    *)
LEMMA NoMore ==
  /\ \A a, r, x, y \in Int : a + x <= r /\ y <= x => a + y <= r
  /\ \A a, r, x, y \in Int : a + x <= r /\ y + 1 <= x => (a + 1) + y <= r
  /\ \A a, r, x, y \in Int : a + x <= r /\ y <= x + 1 => a + y <= r + 1
OBVIOUS

LEMMA ResetTried ==
  ASSUME Inv, ResetInv, NEW result \in ResetResults, TryReset(result)
  PROVE  ResetInv'
<1>1. /\ line \in Seq(Byte) /\ sensor.commands \in Nat /\ sensor.resets \in Nat /\ gaveup \in Nat
      /\ Cardinality(Replies(line)) \in Nat /\ Running \in {0, 1}
      /\ Answered + Cardinality(Replies(line)) <= sensor.resets
      /\ Answered = sensor.commands - gaveup - Running
  BY RepliesFinite DEF Inv, LineOK, ResetInv, Running, Answered
<1>2. CASE TryResetSends(result)
  <2>1. CASE UNCHANGED <<status_, sensor>>
    BY <1>2, <2>1, ResetRest DEF TryResetSends
  <2>2. CASE ~ UNCHANGED <<status_, sensor>>
    <3>1. /\ status_ = "Waiting" /\ status_' = "WaitForReset" /\ line' = line /\ gaveup' = gaveup
          /\ sensor' = [sensor EXCEPT !.commands = @ + 1]
      BY <1>2, <2>2 DEF TryResetSends
    <3>2. sensor'.commands = sensor.commands + 1 /\ sensor'.resets = sensor.resets
      BY <3>1 DEF Inv, LineOK
    <3>3. Running = 0 /\ Running' = 1
      BY <3>1 DEF Running
    <3>4. Answered' = Answered
      BY <1>1, <3>1, <3>2, <3>3 DEF Answered
    <3> QED
      BY <1>1, <3>1, <3>2, <3>4 DEF ResetInv
  <2> QED
    BY <2>1, <2>2
<1>3. CASE TryResetWaits(result)
  <2>1. status_ # "Waiting" /\ status_' # "Waiting" /\ UNCHANGED <<sensor, line, gaveup>>
    BY <1>3 DEF TryResetWaits
  <2> QED
    BY <2>1 DEF ResetInv, Answered, Running
<1>4. CASE TryResetReceives(result)
  <2>1. PICK receipt \in Receipts :
          /\ Consume(receipt)
          /\ status_' = IF IsReply(receipt) \/ age > kMPU9150InstructionTimeout THEN "Waiting" ELSE status_
          /\ result = CASE IsReply(receipt) -> "kDone"
                        [] ~ IsReply(receipt) /\ age > kMPU9150InstructionTimeout -> "kError"
                        [] OTHER -> "kContinue"
    BY <1>4 DEF TryResetReceives
  <2>2. /\ status_ # "Waiting" /\ sensor' = sensor
        /\ gaveup' = IF result = "kError" THEN gaveup + 1 ELSE gaveup
    BY <1>4 DEF TryResetReceives
  <2>3. /\ Cardinality(Replies(line')) <= Cardinality(Replies(line))
        /\ IsReply(receipt) => Cardinality(Replies(line')) + 1 <= Cardinality(Replies(line))
        /\ Cardinality(Replies(line')) \in Nat
    BY <1>1, <2>1, RepliesConsumed, ConsumeBytes, RepliesFinite
  <2>4. Running = 1
    BY <2>2 DEF Running
  <2>5. CASE IsReply(receipt)
    <3>1. status_' = "Waiting" /\ gaveup' = gaveup
      BY <2>1, <2>2, <2>5
    <3>2. Answered' = Answered + 1
      BY <1>1, <2>2, <2>4, <3>1 DEF Answered, Running
    <3>3. Answered' + Cardinality(Replies(line')) <= sensor.resets
      <4>1. /\ Answered \in Int /\ sensor.resets \in Int
            /\ Cardinality(Replies(line)) \in Int /\ Cardinality(Replies(line')) \in Int
        BY <1>1, <2>3
      <4>2. /\ Answered + Cardinality(Replies(line)) <= sensor.resets
            /\ Cardinality(Replies(line')) + 1 <= Cardinality(Replies(line))
        BY <1>1, <2>3, <2>5
      <4> HIDE DEF Answered
      <4>3. (Answered + 1) + Cardinality(Replies(line')) <= sensor.resets
        BY <4>1, <4>2, NoMore
      <4> QED
        BY <3>2, <4>3
    <3> QED
      BY <1>1, <2>2, <3>1, <3>3 DEF ResetInv
  <2>6. CASE ~ IsReply(receipt) /\ age > kMPU9150InstructionTimeout
    <3>1. status_' = "Waiting" /\ gaveup' = gaveup + 1
      BY <2>1, <2>2, <2>6
    <3>2. Answered' = Answered /\ Answered \in Int
      BY <1>1, <2>2, <2>4, <3>1 DEF Answered, Running
    <3>3. Answered' + Cardinality(Replies(line')) <= sensor.resets
      <4>1. /\ Answered \in Int /\ sensor.resets \in Int
            /\ Cardinality(Replies(line)) \in Int /\ Cardinality(Replies(line')) \in Int
        BY <1>1, <2>3
      <4>2. /\ Answered + Cardinality(Replies(line)) <= sensor.resets
            /\ Cardinality(Replies(line')) <= Cardinality(Replies(line))
        BY <1>1, <2>3
      <4>3. Answered + Cardinality(Replies(line')) <= sensor.resets
        BY <4>1, <4>2, NoMore
      <4> QED
        BY <3>2, <4>3
    <3> QED
      BY <1>1, <2>2, <3>1, <3>3 DEF ResetInv
  <2>7. CASE ~ IsReply(receipt) /\ ~ age > kMPU9150InstructionTimeout
    <3>1. status_' = status_ /\ gaveup' = gaveup
      BY <2>1, <2>2, <2>7
    <3>2. Answered' = Answered /\ Answered \in Int
      BY <1>1, <2>2, <3>1 DEF Answered, Running
    <3>3. Answered' + Cardinality(Replies(line')) <= sensor.resets
      <4>1. /\ Answered \in Int /\ sensor.resets \in Int
            /\ Cardinality(Replies(line)) \in Int /\ Cardinality(Replies(line')) \in Int
        BY <1>1, <2>3
      <4>2. /\ Answered + Cardinality(Replies(line)) <= sensor.resets
            /\ Cardinality(Replies(line')) <= Cardinality(Replies(line))
        BY <1>1, <2>3
      <4>3. Answered + Cardinality(Replies(line')) <= sensor.resets
        BY <4>1, <4>2, NoMore
      <4> QED
        BY <3>2, <4>3
    <3> QED
      BY <1>1, <2>2, <3>1, <3>3 DEF ResetInv
  <2> QED
    BY <2>5, <2>6, <2>7
<1> QED
  BY <1>2, <1>3, <1>4 DEF TryReset

LEMMA ResetSensor ==
  ASSUME Inv, Inv', ResetInv, Sensor
  PROVE  ResetInv'
<1>1. /\ line \in Seq(Byte) /\ line' \in Seq(Byte)
      /\ sensor.commands \in Nat /\ sensor.resets \in Nat /\ gaveup \in Nat
      /\ Cardinality(Replies(line)) \in Nat /\ Cardinality(Replies(line')) \in Nat
      /\ Running \in {0, 1} /\ Answered = sensor.commands - gaveup - Running
      /\ Answered + Cardinality(Replies(line)) <= sensor.resets
  BY RepliesFinite DEF Inv, LineOK, ResetInv, Running, Answered
<1>2. gaveup' = gaveup /\ Running' = Running
  BY DEF Sensor, ghostVars, protocolVars, Running
<1>3. CASE SensorSamples
  <2>1. /\ sensor' = [sensor EXCEPT !.samples = @ + 1, !.stamp = (@ + 1) % StampModulus]
        /\ Put(Sample(sensor'.samples, sensor'.stamp))
    BY <1>3 DEF SensorSamples
  <2>2. sensor'.samples \in Byte /\ sensor'.stamp \in Byte
    <3>1. /\ sensor'.samples \in 0..MaxSamples /\ sensor'.stamp \in 0..StampModulus - 1
          /\ MaxSamples \in 0..255 /\ StampModulus \in 1..256
      BY NatAssumption DEF Inv, LineOK
    <3> QED
      BY <3>1 DEF Byte
  <2>3. Cardinality(Replies(line')) <= Cardinality(Replies(line))
    BY <1>1, <2>1, <2>2, RepliesPut
  <2>4. sensor'.commands = sensor.commands /\ sensor'.resets = sensor.resets
    BY <2>1 DEF Inv, LineOK
  <2>5. Answered' = Answered /\ Answered \in Int
    BY <1>1, <1>2, <2>4 DEF Answered
  <2>6. Answered' + Cardinality(Replies(line')) <= sensor'.resets
    <3>1. /\ Answered \in Int /\ sensor.resets \in Int
          /\ Cardinality(Replies(line)) \in Int /\ Cardinality(Replies(line')) \in Int
          /\ Answered + Cardinality(Replies(line)) <= sensor.resets
      BY <1>1, <2>5
    <3>2. Answered + Cardinality(Replies(line')) <= sensor.resets
      BY <2>3, <3>1, NoMore
    <3> QED
      BY <2>4, <2>5, <3>2
  <2> QED
    BY <1>1, <1>2, <2>6 DEF ResetInv
<1>4. CASE SensorResets
  <2>1. PICK stamp : sensor' = [sensor EXCEPT !.resets = @ + 1, !.stamp = stamp]
    BY <1>4 DEF SensorResets
  <2>2. Cardinality(Replies(line')) <= Cardinality(Replies(line)) + 1
    BY <1>1, <1>4, RepliesPut DEF SensorResets
  <2>3. sensor'.commands = sensor.commands /\ sensor'.resets = sensor.resets + 1
    BY <2>1 DEF Inv, LineOK
  <2>4. Answered' = Answered /\ Answered \in Int
    BY <1>1, <1>2, <2>3 DEF Answered
  <2>5. Answered' + Cardinality(Replies(line')) <= sensor'.resets
    <3>1. /\ Answered \in Int /\ sensor.resets \in Int
          /\ Cardinality(Replies(line)) \in Int /\ Cardinality(Replies(line')) \in Int
          /\ Answered + Cardinality(Replies(line)) <= sensor.resets
      BY <1>1, <2>4
    <3>2. Answered + Cardinality(Replies(line')) <= sensor.resets + 1
      BY <2>2, <3>1, NoMore
    <3> QED
      BY <2>3, <2>4, <3>2
  <2> QED
    BY <1>1, <1>2, <2>5 DEF ResetInv
<1> QED
  BY <1>3, <1>4 DEF Sensor

LEMMA ResetRead ==
  ASSUME Inv, Inv', ResetInv, Read
  PROVE  ResetInv'
<1>1. UNCHANGED <<gaveup, sensor, status_>>
  BY DEF Read
<1>2. CASE line' = line
  BY <1>1, <1>2, ResetRest
<1>3. CASE line' # line
  <2>1. PICK receipt \in Receipts : Consume(receipt)
    BY <1>3 DEF Read
  <2>2. /\ line \in Seq(Byte) /\ line' \in Seq(Byte) /\ sensor.commands \in Nat
        /\ sensor.resets \in Nat /\ gaveup \in Nat /\ Running \in {0, 1}
    BY DEF Inv, LineOK, ResetInv, Running
  <2>3. /\ Cardinality(Replies(line)) \in Nat /\ Cardinality(Replies(line')) \in Nat
        /\ Cardinality(Replies(line')) <= Cardinality(Replies(line))
    BY <2>1, <2>2, RepliesConsumed, RepliesFinite
  <2>4. Answered' = Answered /\ Answered \in Int
    BY <1>1, <2>2 DEF Answered, Running
  <2>5. Answered + Cardinality(Replies(line)) <= sensor.resets
    BY DEF ResetInv
  <2>6. Answered' + Cardinality(Replies(line')) <= sensor'.resets
    BY <1>1, <2>2, <2>3, <2>4, <2>5
  <2> QED
    BY <1>1, <2>2, <2>6 DEF ResetInv
<1> QED
  BY <1>2, <1>3

LEMMA ResetNext == Inv /\ Inv' /\ ResetInv /\ [Next]_vars => ResetInv'
<1> SUFFICES ASSUME Inv, Inv', ResetInv, [Next]_vars PROVE ResetInv'
  OBVIOUS
<1>1. CASE Configure
  <2>1. CASE \E result \in ResetResults : TryReset(result)
    BY <2>1, ResetTried
  <2>2. CASE UNCHANGED <<protocolVars, line, sensor, gaveup>>
    BY <2>2, ResetRest DEF protocolVars
  <2> QED
    BY <1>1, <2>1, <2>2 DEF Configure
<1>2. CASE Read
  BY <1>2, ResetRead
<1>3. CASE Sensor
  BY <1>3, ResetSensor
<1>4. CASE Write
  <2>1. CASE \E result \in ResetResults : TryReset(result)
    BY <2>1, ResetTried
  <2>2. CASE UNCHANGED <<protocolVars, line, sensor, gaveup>>
    BY <2>2, ResetRest DEF protocolVars
  <2> QED
    BY <1>4, <2>1, <2>2 DEF Write
<1>5. CASE Open
  BY <1>5, ResetRest DEF Open, protocolVars, sensorVars, ghostVars
<1>6. CASE Begin
  BY <1>6, ResetRest DEF Begin, protocolVars, sensorVars, ghostVars
<1>7. CASE Publish
  BY <1>7, ResetRest DEF Publish, protocolVars, sensorVars, ghostVars
<1>8. CASE Check
  BY <1>8, ResetRest DEF Check, protocolVars, sensorVars, ghostVars
<1>9. CASE Spin
  BY <1>9, ResetRest DEF Spin, protocolVars, sensorVars, ghostVars
<1>10. CASE Tick
  BY <1>10, ResetRest DEF Tick, sensorVars, ghostVars
<1>11. CASE Terminated \/ UNCHANGED vars
  BY <1>11, ResetRest DEF Terminated, vars, protocolVars, sensorVars, ghostVars
<1> QED
  BY <1>1, <1>2, <1>3, <1>4, <1>5, <1>6, <1>7, <1>8, <1>9, <1>10, <1>11 DEF Next, Node

(* The protocol only takes the sensor for reset when it was, or when it gave *)
(* up waiting, whatever the line damaged or dropped: no sample, no damaged  *)
(* packet and no piece of either reads as the sensor's answer               *)
(* (mpu9150_protocol.cpp, TryReset).                                        *)
THEOREM ResetAnswered == Spec => []ResetIsAnswered
<1>1. ResetInv /\ Inv => ResetIsAnswered
  <2> SUFFICES ASSUME ResetInv, Inv, status_ = "Waiting" PROVE sensor.commands <= sensor.resets + gaveup
    BY DEF ResetIsAnswered
  <2>1. /\ Answered + Cardinality(Replies(line)) <= sensor.resets
        /\ Answered = sensor.commands - gaveup
        /\ sensor.commands \in Nat /\ sensor.resets \in Nat /\ gaveup \in Nat
        /\ Cardinality(Replies(line)) \in Nat
    BY RepliesFinite DEF ResetInv, Inv, LineOK, Answered, Running
  <2> QED
    BY <2>1
<1> QED
  BY <1>1, InvHolds, ResetInit, ResetNext, PTL DEF Spec

=============================================================================
