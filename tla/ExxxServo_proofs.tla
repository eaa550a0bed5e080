-------------------------- MODULE ExxxServo_proofs --------------------------
(***************************************************************************)
(* Proofs about the servo motors' bus (ExxxServo and the modules it is     *)
(* made of): whatever the packets' contents, however reads cut the line    *)
(* and whenever calls give up, Receive accepts only whole packets, and a   *)
(* call on an idle bus tells the truth of its own request, and so does a   *)
(* command-line tool that exits with success.                              *)
(***************************************************************************)
EXTENDS ExxxServo, DataInduction

-----------------------------------------------------------------------------
(* The packets: their checksum, their fields, and what StatusPacket and     *)
(* Request build.                                                           *)

Byte == 0..255
Word == {n \in Nat : n <= 65535}

(* The sum that a checksum is made of, one byte after the other. *)
LEMMA SumSteps ==
  ASSUME NEW s \in Seq(Byte)
  PROVE  \E p \in [0..Len(s) -> Nat] :
           /\ p[0] = 0
           /\ \A k \in 1..Len(s) : p[k] = p[k - 1] + s[k]
           /\ FoldLeft(+, 0, s) = p[Len(s)]
<1> DEFINE n == Len(s)
           D == 1..n
           iter == CHOOSE g : g = [t \in SUBSET D |->
                     IF t = {} THEN 0 ELSE g[t \ {Max(t)}] + s[Max(t)]]
<1>0. \A x \in Nat, y \in Byte : x + y \in Nat
  BY DEF Byte
<1>1. n \in Nat /\ DOMAIN s = D /\ \A i \in D : s[i] \in Byte
  BY LenProperties, ElementOfSeq
<1>2. FoldLeft(+, 0, s) = iter[D]
  BY <1>1 DEF FoldLeft, MapThenFoldSet
<1>3. \E g : g = [t \in SUBSET D |->
                   IF t = {} THEN 0 ELSE g[t \ {Max(t)}] + s[Max(t)]]
  <2> DEFINE F == [p \in Nat \X D |-> p[1] + s[p[2]]]
  <2>1. F \in [Nat \X (1..n) -> Nat] /\ 0 \in Nat
    <3>1. ASSUME NEW p \in Nat \X D PROVE p[1] + s[p[2]] \in Nat
      <4>1. p[1] \in Nat /\ p[2] \in D
        OBVIOUS
      <4>2. s[p[2]] \in Byte
        BY <1>1, <4>1
      <4> QED
        BY <1>0, <4>1, <4>2
    <3> QED
      BY <3>1
  <2>2. PICK g : /\ IsFold(g, n, 0, F)
                 /\ \A t \in SUBSET (1..n) : g[t] \in Nat /\ (t = {} \/ Max(t) \in t)
    <3> DEFINE T == Nat
    <3> HIDE DEF F
    <3>1. n \in Nat /\ 0 \in T /\ F \in [T \X (1..n) -> T]
      BY <1>1, <2>1
    <3> HIDE DEF T
    <3>2. \E g : /\ IsFold(g, n, 0, F)
                 /\ \A t \in SUBSET (1..n) : g[t] \in T /\ (t = {} \/ Max(t) \in t)
      BY <3>1, FoldExists
    <3> QED
      BY <3>2 DEF T
  <2>3. ASSUME NEW t \in SUBSET D, t # {}
        PROVE  F[<<g[t \ {Max(t)}], Max(t)>>] = g[t \ {Max(t)}] + s[Max(t)]
    <3>1. t \ {Max(t)} \in SUBSET D /\ Max(t) \in D
      BY <2>2, <2>3
    <3>2. <<g[t \ {Max(t)}], Max(t)>> \in Nat \X D
      BY <2>2, <3>1
    <3> QED
      BY <3>2
  <2> HIDE DEF F
  <2>4. g = [t \in SUBSET D |-> IF t = {} THEN 0 ELSE F[<<g[t \ {Max(t)}], Max(t)>>]]
    BY <2>2 DEF IsFold
  <2>5. g = [t \in SUBSET D |-> IF t = {} THEN 0 ELSE g[t \ {Max(t)}] + s[Max(t)]]
    BY <2>3, <2>4
  <2> QED
    BY <2>5
<1>4. iter = [t \in SUBSET D |->
               IF t = {} THEN 0 ELSE iter[t \ {Max(t)}] + s[Max(t)]]
  BY <1>3
<1> HIDE DEF iter
<1>5. iter[{}] = 0
  BY <1>4
<1>6. ASSUME NEW k \in D PROVE iter[1..k] = iter[1..k - 1] + s[k]
  <2>1. 1..k \in SUBSET D /\ 1..k # {} /\ Max(1..k) = k /\ (1..k) \ {k} = 1..k - 1
    BY <1>1, Prefix
  <2> QED
    BY <1>4, <2>1
<1> DEFINE p == [k \in 0..n |-> iter[1..k]]
<1>7. p[0] = 0 /\ p[n] = iter[D]
  <2>1. 1..0 = {} /\ 0 \in 0..n /\ n \in 0..n
    BY <1>1
  <2> QED
    BY <1>5, <2>1
<1>8. ASSUME NEW k \in D PROVE p[k] = p[k - 1] + s[k]
  <2>1. k \in 0..n /\ k - 1 \in 0..n
    BY <1>1
  <2> QED
    BY <1>6, <2>1
<1>9. p \in [0..n -> Nat]
  <2> DEFINE I == {k \in Nat : k <= n => p[k] \in Nat}
  <2> HIDE DEF p
  <2>1. 0 \in I
    BY <1>7
  <2>2. ASSUME NEW k \in Nat, k \in I PROVE k + 1 \in I
    <3>1. SUFFICES ASSUME k + 1 <= n PROVE p[k + 1] \in Nat
      OBVIOUS
    <3>2. k + 1 \in D /\ (k + 1) - 1 = k /\ p[k] \in Nat
      BY <2>2, <3>1
    <3>3. p[k + 1] = p[k] + s[k + 1] /\ s[k + 1] \in Byte
      BY <1>1, <1>8, <3>2
    <3> QED
      BY <1>0, <3>2, <3>3
  <2>3. Nat \subseteq I
    <3> HIDE DEF I
    <3> QED
      BY <2>1, <2>2, Induction
  <2>4. \A k \in 0..n : k \in I
    BY <2>3
  <2>5. p = [k \in 0..n |-> p[k]]
    BY DEF p
  <2> QED
    BY <2>4, <2>5
<1> HIDE DEF p
<1> QED
  BY <1>2, <1>7, <1>8, <1>9

(* One byte changed changes the sum by as much. *)
LEMMA SumChanged ==
  ASSUME NEW s \in Seq(Byte), NEW i \in 1..Len(s), NEW b \in Byte
  PROVE  /\ FoldLeft(+, 0, s) \in Nat
         /\ FoldLeft(+, 0, [s EXCEPT ![i] = b]) = FoldLeft(+, 0, s) - s[i] + b
<1> DEFINE n == Len(s)
           t == [s EXCEPT ![i] = b]
<1>1. /\ n \in Nat /\ \A k \in 1..n : s[k] \in Byte /\ s[k] \in Int
      /\ b \in Int /\ s[i] \in Int
  <2>1. \A k \in 1..n : s[k] \in Byte
    BY ElementOfSeq
  <2>2. \A x \in Byte : x \in Int
    BY DEF Byte
  <2> QED
    BY <2>1, <2>2, LenProperties
<1>2. t \in Seq(Byte) /\ Len(t) = n /\ \A k \in 1..n : t[k] = IF k = i THEN b ELSE s[k]
  BY ExceptSeq
<1> HIDE DEF t
<1>3. PICK p \in [0..n -> Nat] :
        /\ p[0] = 0
        /\ \A k \in 1..n : p[k] = p[k - 1] + s[k]
        /\ FoldLeft(+, 0, s) = p[n]
  BY SumSteps
<1>4. PICK q \in [0..n -> Nat] :
        /\ q[0] = 0
        /\ \A k \in 1..n : q[k] = q[k - 1] + t[k]
        /\ FoldLeft(+, 0, t) = q[n]
  BY <1>2, SumSteps
<1> DEFINE shift(k) == IF k >= i THEN b - s[i] ELSE 0
           I == {k \in Nat : k <= n => q[k] = p[k] + shift(k)}
<1>s. /\ shift(0) = 0 /\ shift(n) = b - s[i]
      /\ \A k \in 0..n : shift(k) \in Int
      /\ \A k \in 0..n : shift(k + 1) = IF k + 1 = i THEN shift(k) + b - s[i] ELSE shift(k)
  BY <1>1
<1> HIDE DEF shift
<1>5. 0 \in I
  <2>1. q[0] = 0 /\ p[0] = 0 /\ shift(0) = 0
    BY <1>3, <1>4, <1>s
  <2> QED
    BY <2>1
<1>6. ASSUME NEW k \in Nat, k \in I PROVE k + 1 \in I
  <2>1. SUFFICES ASSUME k + 1 <= n
                 PROVE  q[k + 1] = p[k + 1] + shift(k + 1)
    OBVIOUS
  <2>2. k + 1 \in 1..n /\ (k + 1) - 1 = k /\ k \in 0..n
    BY <1>1, <2>1
  <2>3. q[k + 1] = q[k] + t[k + 1] /\ p[k + 1] = p[k] + s[k + 1]
    BY <1>3, <1>4, <2>2
  <2>4. q[k] = p[k] + shift(k) /\ p[k] \in Nat /\ shift(k) \in Int
    <3>1. k <= n
      BY <1>1, <2>2
    <3>2. p[k] \in Nat
      BY <1>3, <2>2
    <3> QED
      BY <1>6, <1>s, <2>2, <3>1, <3>2
  <2>5. t[k + 1] = (IF k + 1 = i THEN b ELSE s[k + 1]) /\ s[k + 1] \in Int
    BY <1>1, <1>2, <2>2
  <2>a. shift(k + 1) = IF k + 1 = i THEN shift(k) + b - s[i] ELSE shift(k)
    BY ONLY <1>s, <2>2
  <2>6. CASE k + 1 = i
    <3>1. t[k + 1] = b /\ s[k + 1] = s[i] /\ shift(k + 1) = shift(k) + b - s[i]
      BY <2>5, <2>6, <2>a
    <3>2. b \in Int /\ s[k + 1] \in Int
      BY <1>1, <2>5
    <3> QED
      BY ONLY <2>3, <2>4, <3>1, <3>2
  <2>7. CASE k + 1 # i
    <3>1. t[k + 1] = s[k + 1] /\ shift(k + 1) = shift(k)
      BY <2>5, <2>7, <2>a
    <3> QED
      BY ONLY <2>3, <2>4, <2>5, <3>1
  <2> QED
    BY <2>6, <2>7
<1>7. Nat \subseteq I
  <2> HIDE DEF I
  <2> QED
    BY <1>5, <1>6, Induction
<1>8. n \in I /\ n \in 0..n
  BY <1>1, <1>7
<1>9. q[n] = p[n] + (b - s[i]) /\ p[n] \in Nat
  <2>1. n <= n
    BY <1>1
  <2> QED
    BY <1>s, <1>8, <2>1
<1> DEFINE sum == FoldLeft(+, 0, s)
           other == FoldLeft(+, 0, t)
<1>10. sum = p[n] /\ other = q[n]
  BY <1>3, <1>4
<1> SUFFICES sum \in Nat /\ other = sum - s[i] + b
  BY DEF t
<1> HIDE DEF sum, other
<1> QED
  BY <1>1, <1>9, <1>10

(* A checksum is a byte, and one byte of what it is made of that is one     *)
(* more makes it another.                                                   *)
LEMMA ChecksumIsByte ==
  ASSUME NEW s \in Seq(Byte)
  PROVE  Checksum(s) \in Byte
<1>1. PICK p \in [0..Len(s) -> Nat] : FoldLeft(+, 0, s) = p[Len(s)]
  BY SumSteps
<1>2. FoldLeft(+, 0, s) \in Nat
  <2>1. Len(s) \in 0..Len(s)
    BY LenProperties
  <2> QED
    BY <1>1, <2>1
<1> DEFINE sum == FoldLeft(+, 0, s)
<1>3. sum \in Nat
  BY <1>2
<1> HIDE DEF sum
<1>4. 255 - (sum % 256) \in 0..255
  BY <1>3
<1> QED
  BY <1>4 DEF Checksum, Byte, sum

LEMMA ChecksumTells ==
  ASSUME NEW s \in Seq(Byte), NEW i \in 1..Len(s)
  PROVE  Checksum([s EXCEPT ![i] = (s[i] + 1) % 256]) # Checksum(s)
<1> DEFINE b == (s[i] + 1) % 256
           sum == FoldLeft(+, 0, s)
           other == FoldLeft(+, 0, [s EXCEPT ![i] = b])
<1>1. s[i] \in 0..255
  BY ElementOfSeq DEF Byte
<1>4. b = (IF s[i] = 255 THEN 0 ELSE s[i] + 1)
  <2> DEFINE x == s[i]
  <2> HIDE DEF x
  <2>1. ASSUME x \in 0..255 PROVE (x + 1) % 256 = IF x = 255 THEN 0 ELSE x + 1
    BY <2>1
  <2> QED
    BY <1>1, <2>1 DEF x
<1> DEFINE x == s[i]
<1>2. b \in Byte /\ x \in 0..255 /\ b \in Int /\ b = IF x = 255 THEN 0 ELSE x + 1
  <2> HIDE DEF b, x
  <2>1. x \in 0..255 /\ b = IF x = 255 THEN 0 ELSE x + 1
    BY <1>1, <1>4 DEF x
  <2> QED
    BY <2>1 DEF Byte
<1>3. sum \in Nat /\ other = sum - x + b
  <2> HIDE DEF b
  <2>1. b \in Byte
    BY <1>2
  <2> QED
    BY <2>1, SumChanged
<1>5. Checksum(s) = 255 - (sum % 256)
      /\ Checksum([s EXCEPT ![i] = b]) = 255 - (other % 256)
  BY DEF Checksum
<1> SUFFICES Checksum([s EXCEPT ![i] = b]) # Checksum(s)
  OBVIOUS
<1> HIDE DEF b, sum, other, x
<1>6. other = sum + 1 \/ other = sum - 255
  BY <1>2, <1>3
<1>7. (sum + 1) % 256 # sum % 256 /\ (sum - 255) % 256 # sum % 256
  BY <1>3
<1>8. sum % 256 \in Int /\ other % 256 \in Int
  BY <1>3, <1>6
<1>9. other % 256 # sum % 256
  BY <1>6, <1>7
<1> QED
  BY <1>5, <1>8, <1>9

(* What Enclose puts around a body. *)
IsEnclosed(e, body) ==
  /\ e \in Seq(Byte)
  /\ Len(e) = Len(body) + 3
  /\ e[1] = kHeader1 /\ e[2] = kHeader2
  /\ \A i \in 1..Len(body) : e[2 + i] = body[i]
  /\ e[Len(body) + 3] = Checksum(body)

LEMMA EncloseIs ==
  ASSUME NEW body \in Seq(Byte)
  PROVE  IsEnclosed(Enclose(body), body)
<1> DEFINE n == Len(body)
           head == <<kHeader1, kHeader2>>
           tail == <<Checksum(body)>>
           front == head \o body
           e == front \o tail
<1>1. n \in Nat /\ head \in Seq(Byte) /\ Len(head) = 2 /\ tail \in Seq(Byte) /\ Len(tail) = 1
  <2>1. kHeader1 \in Byte /\ kHeader2 \in Byte
    BY DEF kHeader1, kHeader2, Byte
  <2>2. Checksum(body) \in Byte
    BY ChecksumIsByte
  <2> QED
    BY <2>1, <2>2, LenProperties
<1>2. /\ head[1] = kHeader1 /\ head[2] = kHeader2 /\ tail[1] = Checksum(body)
  OBVIOUS
<1> HIDE DEF head, tail
<1>3. /\ front \in Seq(Byte) /\ Len(front) = 2 + n
      /\ \A i \in 1..2 + n : front[i] = IF i <= 2 THEN head[i] ELSE body[i - 2]
  <2>1. /\ front \in Seq(Byte) /\ Len(front) = Len(head) + Len(body)
        /\ \A i \in 1..Len(head) + Len(body) :
             front[i] = IF i <= Len(head) THEN head[i] ELSE body[i - Len(head)]
    BY <1>1, ConcatProperties
  <2> HIDE DEF front
  <2> QED
    BY <1>1, <2>1
<1> HIDE DEF front
<1>4. /\ e \in Seq(Byte) /\ Len(e) = 2 + n + 1
      /\ \A i \in 1..2 + n + 1 : e[i] = IF i <= 2 + n THEN front[i] ELSE tail[i - (2 + n)]
  <2>1. /\ e \in Seq(Byte) /\ Len(e) = Len(front) + Len(tail)
        /\ \A i \in 1..Len(front) + Len(tail) :
             e[i] = IF i <= Len(front) THEN front[i] ELSE tail[i - Len(front)]
    BY <1>1, <1>3, ConcatProperties
  <2> HIDE DEF e
  <2> QED
    BY <1>1, <1>3, <2>1
<1>5. Enclose(body) = e
  BY DEF Enclose, e, front, head, tail
<1> HIDE DEF e
<1>6. /\ 1 \in 1..2 + n + 1 /\ 2 \in 1..2 + n + 1 /\ 1 \in 1..2 + n /\ 2 \in 1..2 + n
      /\ n + 3 \in 1..2 + n + 1 /\ ~ (n + 3 <= 2 + n) /\ n + 3 - (2 + n) = 1
      /\ 1 <= 2 + n /\ 2 <= 2 + n /\ 2 + n + 1 = n + 3
  BY <1>1
<1>7. \A i \in 1..n : e[2 + i] = body[i]
  <2> TAKE i \in 1..n
  <2>1. /\ 2 + i \in 1..2 + n + 1 /\ 2 + i <= 2 + n /\ 2 + i \in 1..2 + n
        /\ ~ (2 + i <= 2) /\ (2 + i) - 2 = i
    BY <1>1
  <2> QED
    BY <1>3, <1>4, <2>1
<1>8. e[1] = front[1] /\ e[2] = front[2] /\ e[n + 3] = tail[1]
  BY <1>4, <1>6
<1>9. front[1] = head[1] /\ front[2] = head[2]
  BY <1>3, <1>6
<1>10. IsEnclosed(e, body)
  BY <1>2, <1>4, <1>6, <1>7, <1>8, <1>9 DEF IsEnclosed
<1> QED
  BY <1>5, <1>10

(* A 16-bit field and what is read from it. *)
Low(n) == n % 256
High(n) == n \div 256

IsLowHigh(field, n) ==
  /\ field \in Seq(Byte) /\ Len(field) = 2
  /\ field[1] = Low(n) /\ field[2] = High(n)

LEMMA LowHighBytes ==
  ASSUME NEW n \in Word
  PROVE  Low(n) \in Byte /\ High(n) \in Byte
<1>0. n \in Nat /\ n <= 65535
  BY DEF Word
<1>1. n % 256 \in 0..255
  BY <1>0
<1>2. n \div 256 \in 0..255
  <2>1. n \div 256 \in Int
    BY <1>0
  <2>2. n \div 256 >= 0
    BY <1>0
  <2>3. n \div 256 <= 255
    BY <1>0
  <2> QED
    BY <2>1, <2>2, <2>3
<1> QED
  BY <1>1, <1>2 DEF Low, High, Byte

LEMMA LowHighIs ==
  ASSUME NEW n \in Word
  PROVE  IsLowHigh(LowHigh(n), n)
<1>1. LowHigh(n) = <<Low(n), High(n)>>
  BY DEF LowHigh, Low, High
<1>2. Low(n) \in Byte /\ High(n) \in Byte
  BY LowHighBytes
<1> DEFINE x == Low(n)
           y == High(n)
<1> HIDE DEF x, y
<1>3. x \in Byte /\ y \in Byte /\ LowHigh(n) = <<x, y>>
  BY <1>1, <1>2 DEF x, y
<1>4. <<x, y>> \in Seq(Byte)
  BY <1>3
<1>5. Len(<<x, y>>) = 2
  OBVIOUS
<1>6. <<x, y>>[1] = x /\ <<x, y>>[2] = y
  OBVIOUS
<1> QED
  BY <1>3, <1>4, <1>5, <1>6 DEF IsLowHigh, x, y

LEMMA LowHighValue ==
  ASSUME NEW n \in Word
  PROVE  Low(n) + 256 * High(n) = n
<1>1. (n % 256) + 256 * (n \div 256) = n
  BY DEF Word
<1> QED
  BY <1>1 DEF Low, High

(* Two sequences of bytes, one after the other. *)
IsJoin(r, s, t) ==
  /\ r \in Seq(Byte)
  /\ Len(r) = Len(s) + Len(t)
  /\ \A i \in 1..Len(s) : r[i] = s[i]
  /\ \A i \in 1..Len(t) : r[Len(s) + i] = t[i]

LEMMA Joined ==
  ASSUME NEW s \in Seq(Byte), NEW t \in Seq(Byte)
  PROVE  IsJoin(s \o t, s, t)
<1> DEFINE r == s \o t
<1>1. /\ r \in Seq(Byte) /\ Len(r) = Len(s) + Len(t)
      /\ \A i \in 1..Len(s) + Len(t) : r[i] = IF i <= Len(s) THEN s[i] ELSE t[i - Len(s)]
  BY ConcatProperties
<1>2. Len(s) \in Nat /\ Len(t) \in Nat
  BY LenProperties
<1> HIDE DEF r
<1>3. \A i \in 1..Len(s) : r[i] = s[i]
  <2> TAKE i \in 1..Len(s)
  <2>1. i \in 1..Len(s) + Len(t) /\ i <= Len(s)
    BY <1>2
  <2> QED
    BY <1>1, <2>1
<1>4. \A i \in 1..Len(t) : r[Len(s) + i] = t[i]
  <2> TAKE i \in 1..Len(t)
  <2>1. /\ Len(s) + i \in 1..Len(s) + Len(t) /\ ~ (Len(s) + i <= Len(s))
        /\ (Len(s) + i) - Len(s) = i
    BY <1>2
  <2> QED
    BY <1>1, <2>1
<1> QED
  BY <1>1, <1>3, <1>4 DEF r, IsJoin

(* What the body of an answer is made of. *)
AnswerBody(id, length, status, data) == <<id>> \o LowHigh(length) \o LowHigh(status) \o data

IsBody(body, id, length, status, data) ==
  /\ body \in Seq(Byte)
  /\ Len(body) = 5 + Len(data)
  /\ body[1] = id
  /\ body[2] = Low(length) /\ body[3] = High(length)
  /\ body[4] = Low(status) /\ body[5] = High(status)
  /\ \A i \in 1..Len(data) : body[5 + i] = data[i]

LEMMA BodyIs ==
  ASSUME NEW id \in Byte, NEW length \in Word, NEW status \in Word, NEW data \in Seq(Byte)
  PROVE  IsBody(AnswerBody(id, length, status, data), id, length, status, data)
<1> DEFINE a == <<id>>
           b == LowHigh(length)
           c == LowHigh(status)
           ab == a \o b
           abc == ab \o c
           body == abc \o data
<1>1. a \in Seq(Byte) /\ Len(a) = 1 /\ a[1] = id
  OBVIOUS
<1>2. /\ b \in Seq(Byte) /\ Len(b) = 2 /\ b[1] = Low(length) /\ b[2] = High(length)
      /\ c \in Seq(Byte) /\ Len(c) = 2 /\ c[1] = Low(status) /\ c[2] = High(status)
  <2>1. IsLowHigh(LowHigh(length), length) /\ IsLowHigh(LowHigh(status), status)
    BY LowHighIs
  <2> QED
    BY <2>1 DEF IsLowHigh
<1> HIDE DEF a, b, c
<1>3. /\ ab \in Seq(Byte) /\ Len(ab) = 3 /\ ab[1] = id
      /\ ab[2] = Low(length) /\ ab[3] = High(length)
  <2>0. IsJoin(ab, a, b)
    BY <1>1, <1>2, Joined
  <2> HIDE DEF ab
  <2>1. /\ ab \in Seq(Byte) /\ Len(ab) = Len(a) + Len(b)
        /\ \A i \in 1..Len(a) : ab[i] = a[i]
        /\ \A i \in 1..Len(b) : ab[Len(a) + i] = b[i]
    BY <2>0 DEF IsJoin
  <2> HIDE DEF ab
  <2>2. ab[1] = a[1] /\ ab[1 + 1] = b[1] /\ ab[1 + 2] = b[2]
    BY <1>1, <1>2, <2>1
  <2> QED
    BY <1>1, <1>2, <2>1, <2>2
<1> HIDE DEF ab
<1>4. /\ abc \in Seq(Byte) /\ Len(abc) = 5 /\ abc[1] = id
      /\ abc[2] = Low(length) /\ abc[3] = High(length)
      /\ abc[4] = Low(status) /\ abc[5] = High(status)
  <2>0. IsJoin(abc, ab, c)
    BY <1>2, <1>3, Joined
  <2> HIDE DEF abc
  <2>1. /\ abc \in Seq(Byte) /\ Len(abc) = Len(ab) + Len(c)
        /\ \A i \in 1..Len(ab) : abc[i] = ab[i]
        /\ \A i \in 1..Len(c) : abc[Len(ab) + i] = c[i]
    BY <2>0 DEF IsJoin
  <2> HIDE DEF abc
  <2>2. abc[1] = ab[1] /\ abc[2] = ab[2] /\ abc[3] = ab[3] /\ abc[3 + 1] = c[1] /\ abc[3 + 2] = c[2]
    BY <1>2, <1>3, <2>1
  <2> QED
    BY <1>2, <1>3, <2>1, <2>2
<1> HIDE DEF abc
<1>5. /\ body \in Seq(Byte) /\ Len(body) = Len(abc) + Len(data)
      /\ \A i \in 1..Len(abc) : body[i] = abc[i]
      /\ \A i \in 1..Len(data) : body[Len(abc) + i] = data[i]
  <2>1. IsJoin(body, abc, data)
    BY <1>4, Joined
  <2> HIDE DEF body
  <2> QED
    BY <2>1 DEF IsJoin
<1> HIDE DEF body
<1>6. /\ body \in Seq(Byte) /\ Len(body) = 5 + Len(data)
      /\ \A i \in 1..Len(data) : body[5 + i] = data[i]
  BY <1>4, <1>5
<1>7. /\ body[1] = abc[1] /\ body[2] = abc[2] /\ body[3] = abc[3] /\ body[4] = abc[4]
      /\ body[5] = abc[5]
  BY <1>4, <1>5
<1>8. AnswerBody(id, length, status, data) = body
  BY DEF AnswerBody, body, abc, ab, a, b, c
<1>9. IsBody(body, id, length, status, data)
  BY <1>4, <1>6, <1>7 DEF IsBody
<1> QED
  BY <1>8, <1>9

(* A packet as a node with this number sends it, whatever is in it. *)
Whole(p, id) ==
  /\ p \in Seq(Byte)
  /\ Len(p) >= 8
  /\ p[1] = kHeader1 /\ p[2] = kHeader2 /\ p[3] = id
  /\ Uint16(p, 4) = Len(p) - 5
  /\ p[Len(p)] = Checksum(SubSeq(p, 3, Len(p) - 1))

IsAnswer(a, id, status, data) ==
  /\ Whole(a, id)
  /\ Len(a) = 8 + Len(data)
  /\ a[4] = Low(Len(data) + 3) /\ a[5] = High(Len(data) + 3)
  /\ a[6] = Low(status) /\ a[7] = High(status)
  /\ \A i \in 1..Len(data) : a[7 + i] = data[i]
  /\ PacketStatus(a) = status
  /\ PacketData(a) = data

LEMMA StatusPacketIs ==
  ASSUME NEW id \in Byte, NEW status \in Word, NEW data \in Seq(Byte), Len(data) + 3 <= 65535
  PROVE  IsAnswer(StatusPacket(id, status, data), id, status, data)
<1> DEFINE n == Len(data)
           length == n + 3
           body == AnswerBody(id, length, status, data)
           a == StatusPacket(id, status, data)
<1>1. n \in Nat /\ length \in Word
  BY LenProperties DEF Word
<1> HIDE DEF length
<1>2. /\ body \in Seq(Byte) /\ Len(body) = 5 + n
      /\ body[1] = id
      /\ body[2] = Low(length) /\ body[3] = High(length)
      /\ body[4] = Low(status) /\ body[5] = High(status)
      /\ \A i \in 1..n : body[5 + i] = data[i]
  <2>1. IsBody(body, id, length, status, data)
    BY <1>1, BodyIs
  <2> HIDE DEF body
  <2> QED
    BY <2>1 DEF IsBody
<1>3. a = Enclose(body)
  BY DEF StatusPacket, length, AnswerBody
<1> HIDE DEF body, a
<1>4. /\ a \in Seq(Byte) /\ Len(a) = 8 + n
      /\ a[1] = kHeader1 /\ a[2] = kHeader2
      /\ \A i \in 1..5 + n : a[2 + i] = body[i]
      /\ a[8 + n] = Checksum(body)
  <2>1. /\ a \in Seq(Byte) /\ Len(a) = Len(body) + 3
        /\ a[1] = kHeader1 /\ a[2] = kHeader2
        /\ \A i \in 1..Len(body) : a[2 + i] = body[i]
        /\ a[Len(body) + 3] = Checksum(body)
    <3>1. IsEnclosed(a, body)
      BY <1>2, <1>3, EncloseIs
    <3> QED
      BY <3>1 DEF IsEnclosed
  <2>2. Len(body) + 3 = 8 + n
    BY <1>1, <1>2
  <2> QED
    BY <1>2, <2>1, <2>2
<1>5. /\ a[3] = id /\ a[4] = Low(length) /\ a[5] = High(length)
      /\ a[6] = Low(status) /\ a[7] = High(status)
  <2>1. 1 \in 1..5 + n /\ 2 \in 1..5 + n /\ 3 \in 1..5 + n /\ 4 \in 1..5 + n /\ 5 \in 1..5 + n
    BY <1>1
  <2>2. a[2 + 1] = body[1] /\ a[2 + 2] = body[2] /\ a[2 + 3] = body[3] /\ a[2 + 4] = body[4]
        /\ a[2 + 5] = body[5]
    BY <1>4, <2>1
  <2> QED
    BY <1>2, <2>2
<1>6. \A i \in 1..n : a[7 + i] = data[i]
  <2> TAKE i \in 1..n
  <2>1. 5 + i \in 1..5 + n /\ 2 + (5 + i) = 7 + i
    BY <1>1
  <2> QED
    BY <1>2, <1>4, <2>1
<1>7. SubSeq(a, 3, Len(a) - 1) = body
  <2>1. 2 \in Nat /\ 7 + n \in Nat /\ 2 <= 7 + n /\ 7 + n <= Len(a) /\ Len(a) - 1 = 7 + n
        /\ 2 + 1 = 3 /\ (7 + n) - 2 = 5 + n
    BY <1>1, <1>4
  <2> DEFINE s == SubSeq(a, 2 + 1, 7 + n)
  <2>2. s \in Seq(Byte) /\ Len(s) = (7 + n) - 2 /\ \A i \in 1..(7 + n) - 2 : s[i] = a[2 + i]
    BY <1>4, <2>1, Slice
  <2> HIDE DEF s
  <2>3. Len(s) = Len(body) /\ \A i \in 1..Len(s) : s[i] = body[i]
    <3>1. Len(s) = 5 + n /\ Len(body) = 5 + n
      BY <1>2, <2>1, <2>2
    <3>2. \A i \in 1..5 + n : s[i] = a[2 + i]
      BY ONLY <2>1, <2>2
    <3>3. \A i \in 1..5 + n : a[2 + i] = body[i]
      BY <1>4
    <3> QED
      BY ONLY <3>1, <3>2, <3>3
  <2>4. s \in Seq(Byte) /\ body \in Seq(Byte)
    BY <1>2, <2>2
  <2>5. s = body
    BY <2>3, <2>4, SeqEqual
  <2> QED
    BY <2>1, <2>5 DEF s
<1>8. PacketData(a) = data
  <2>1. 7 \in Nat /\ 7 + n \in Nat /\ 7 <= 7 + n /\ 7 + n <= Len(a) /\ Len(a) - 1 = 7 + n
        /\ 7 + 1 = 8 /\ (7 + n) - 7 = n
    BY <1>1, <1>4
  <2> DEFINE s == SubSeq(a, 7 + 1, 7 + n)
  <2>2. s \in Seq(Byte) /\ Len(s) = (7 + n) - 7 /\ \A i \in 1..(7 + n) - 7 : s[i] = a[7 + i]
    BY <1>4, <2>1, Slice
  <2> HIDE DEF s
  <2>3. Len(s) = Len(data) /\ \A i \in 1..Len(s) : s[i] = data[i]
    BY <1>6, <2>1, <2>2
  <2>4. s = data
    BY <2>2, <2>3, SeqEqual
  <2> QED
    BY <2>1, <2>4 DEF s, PacketData
<1>9. PacketStatus(a) = status
  <2>1. Low(status) + 256 * High(status) = status
    BY LowHighValue
  <2> QED
    BY <1>5, <2>1 DEF PacketStatus, Uint16
<1>10. Uint16(a, 4) = Len(a) - 5
  <2>1. Low(length) + 256 * High(length) = length
    BY <1>1, LowHighValue
  <2>2. Uint16(a, 4) = length
    BY <1>5, <2>1 DEF Uint16
  <2> QED
    BY <1>1, <1>4, <2>2 DEF length
<1>11. Whole(a, id)
  <2>1. Len(a) >= 8 /\ a[Len(a)] = Checksum(body)
    BY <1>1, <1>4
  <2> QED
    <3> DEFINE t == SubSeq(a, 3, Len(a) - 1)
    <3>0. t = body
      BY <1>7
    <3> HIDE DEF t
    <3>1. Checksum(t) = Checksum(body)
      BY <3>0
    <3> DEFINE sum == Checksum(t)
    <3>2. a[Len(a)] = sum
      BY <2>1, <3>1
    <3>3. a \in Seq(Byte) /\ a[1] = kHeader1 /\ a[2] = kHeader2 /\ a[3] = id
      BY <1>4, <1>5
    <3> QED
      BY <1>10, <2>1, <3>2, <3>3 DEF Whole, t
<1>12. IsAnswer(a, id, status, data)
  BY <1>4, <1>5, <1>6, <1>8, <1>9, <1>11 DEF IsAnswer, length
<1> QED
  BY <1>12 DEF a

LEMMA WordOfBytes ==
  ASSUME NEW x \in Byte, NEW y \in Byte
  PROVE  /\ x + 256 * y \in Word
         /\ Low(x + 256 * y) = x /\ High(x + 256 * y) = y
<1>1. x \in Nat /\ y \in Nat /\ x <= 255 /\ y <= 255
  BY DEF Byte
<1>2. x + 256 * y \in Nat /\ x + 256 * y <= 65535
  BY <1>1
<1>3. (x + 256 * y) % 256 = x
  BY <1>1
<1>4. (x + 256 * y) \div 256 = y
  BY <1>1
<1> QED
  BY <1>2, <1>3, <1>4 DEF Word, Low, High

(* A whole packet is the one a node sends for what is read from it. *)
LEMMA WholeIsStatusPacket ==
  ASSUME NEW id \in Byte, NEW p, Whole(p, id)
  PROVE  /\ p = StatusPacket(id, PacketStatus(p), PacketData(p))
         /\ PacketStatus(p) \in Word
         /\ PacketData(p) \in Seq(Byte)
         /\ Len(PacketData(p)) = Len(p) - 8
<1> DEFINE n == Len(p)
           status == PacketStatus(p)
           data == PacketData(p)
           a == StatusPacket(id, status, data)
<1>1. /\ p \in Seq(Byte) /\ n \in Nat /\ n >= 8
      /\ p[1] = kHeader1 /\ p[2] = kHeader2 /\ p[3] = id
      /\ p[4] + 256 * p[5] = n - 5
      /\ p[n] = Checksum(SubSeq(p, 3, n - 1))
      /\ p[4] \in Byte /\ p[5] \in Byte /\ p[6] \in Byte /\ p[7] \in Byte
  <2>1. p \in Seq(Byte) /\ n \in Nat /\ n >= 8
    BY LenProperties DEF Whole
  <2>2. 4 \in 1..n /\ 5 \in 1..n /\ 6 \in 1..n /\ 7 \in 1..n
    BY <2>1
  <2>3. p[4] \in Byte /\ p[5] \in Byte /\ p[6] \in Byte /\ p[7] \in Byte
    BY <2>1, <2>2, ElementOfSeq
  <2> QED
    BY <2>1, <2>3 DEF Whole, Uint16
<1>2. status \in Word /\ Low(status) = p[6] /\ High(status) = p[7]
  BY <1>1, WordOfBytes DEF PacketStatus, Uint16
<1>3. n - 5 \in Word /\ Low(n - 5) = p[4] /\ High(n - 5) = p[5]
  BY <1>1, WordOfBytes
<1>4. /\ data \in Seq(Byte) /\ Len(data) = n - 8
      /\ \A i \in 1..n - 8 : data[i] = p[7 + i]
  <2>1. 7 \in Nat /\ n - 1 \in Nat /\ 7 <= n - 1 /\ n - 1 <= n /\ 7 + 1 = 8 /\ (n - 1) - 7 = n - 8
    BY <1>1
  <2> DEFINE s == SubSeq(p, 7 + 1, n - 1)
  <2>2. s \in Seq(Byte) /\ Len(s) = (n - 1) - 7 /\ \A i \in 1..(n - 1) - 7 : s[i] = p[7 + i]
    BY <1>1, <2>1, Slice
  <2>3. data = s
    BY <2>1 DEF PacketData
  <2> HIDE DEF s, data
  <2> QED
    BY <2>1, <2>2, <2>3
<1> HIDE DEF data, status
<1>5. IsAnswer(a, id, status, data)
  <2>1. Len(data) + 3 <= 65535
    BY <1>1, <1>3, <1>4 DEF Word
  <2> QED
    BY <1>2, <1>4, <2>1, StatusPacketIs
<1> HIDE DEF a
<1>6. /\ a \in Seq(Byte) /\ Len(a) = n
      /\ a[1] = p[1] /\ a[2] = p[2] /\ a[3] = p[3] /\ a[4] = p[4] /\ a[5] = p[5]
      /\ a[6] = p[6] /\ a[7] = p[7]
      /\ a[n] = Checksum(SubSeq(a, 3, n - 1))
      /\ \A i \in 1..n - 8 : a[7 + i] = data[i]
  <2>1. 8 + (n - 8) = n /\ (n - 8) + 3 = n - 5
    BY <1>1
  <2>2. Len(a) = n /\ a \in Seq(Byte)
    BY <1>4, <1>5, <2>1 DEF IsAnswer, Whole
  <2>3. a[1] = p[1] /\ a[2] = p[2] /\ a[3] = p[3]
    BY <1>1, <1>5 DEF IsAnswer, Whole
  <2>4. a[4] = p[4] /\ a[5] = p[5]
    BY <1>3, <1>4, <1>5, <2>1 DEF IsAnswer
  <2>5. a[6] = p[6] /\ a[7] = p[7]
    BY <1>2, <1>5 DEF IsAnswer
  <2>6. a[n] = Checksum(SubSeq(a, 3, n - 1))
    BY <1>5, <2>2 DEF IsAnswer, Whole
  <2>7. \A i \in 1..n - 8 : a[7 + i] = data[i]
    BY <1>4, <1>5 DEF IsAnswer
  <2> QED
    BY <2>2, <2>3, <2>4, <2>5, <2>6, <2>7
<1>7. \A i \in 1..n - 1 : a[i] = p[i]
  <2> TAKE i \in 1..n - 1
  <2>1. CASE i <= 7
    <3>1. i = 1 \/ i = 2 \/ i = 3 \/ i = 4 \/ i = 5 \/ i = 6 \/ i = 7
      BY ONLY <2>1, i \in 1..n - 1, n \in Nat
    <3>2. /\ a[1] = p[1] /\ a[2] = p[2] /\ a[3] = p[3] /\ a[4] = p[4] /\ a[5] = p[5]
          /\ a[6] = p[6] /\ a[7] = p[7]
      BY <1>6
    <3> QED
      BY ONLY <3>1, <3>2
  <2>2. CASE i > 7
    <3>1. i - 7 \in 1..n - 8 /\ 7 + (i - 7) = i
      BY <1>1, <2>2
    <3>2. a[7 + (i - 7)] = data[i - 7] /\ data[i - 7] = p[7 + (i - 7)]
      BY <1>4, <1>6, <3>1
    <3> QED
      BY <3>1, <3>2
  <2> QED
    BY <1>1, <2>1, <2>2
<1>8. SubSeq(a, 3, n - 1) = SubSeq(p, 3, n - 1)
  <2>1. 2 \in Nat /\ n - 1 \in Nat /\ 2 <= n - 1 /\ n - 1 <= n /\ 2 + 1 = 3 /\ Len(a) = n
    BY <1>1, <1>6
  <2> DEFINE s == SubSeq(a, 2 + 1, n - 1)
             t == SubSeq(p, 2 + 1, n - 1)
  <2>2. /\ s \in Seq(Byte) /\ Len(s) = (n - 1) - 2 /\ \A i \in 1..(n - 1) - 2 : s[i] = a[2 + i]
    BY <1>6, <2>1, Slice
  <2>3. /\ t \in Seq(Byte) /\ Len(t) = (n - 1) - 2 /\ \A i \in 1..(n - 1) - 2 : t[i] = p[2 + i]
    BY <1>1, <2>1, Slice
  <2> HIDE DEF s, t
  <2>4. \A i \in 1..(n - 1) - 2 : 2 + i \in 1..n - 1
    BY <1>1
  <2>5. Len(s) = Len(t) /\ \A i \in 1..Len(s) : s[i] = t[i]
    BY <1>7, <2>2, <2>3, <2>4
  <2>6. s \in Seq(Byte) /\ t \in Seq(Byte)
    BY <2>2, <2>3
  <2>7. s = t
    BY <2>5, <2>6, SeqEqual
  <2> QED
    BY <2>1, <2>7 DEF s, t
<1>9. a[n] = p[n]
  <2> DEFINE s == SubSeq(a, 3, n - 1)
             t == SubSeq(p, 3, n - 1)
  <2>1. s = t
    BY <1>8
  <2>2. a[n] = Checksum(s) /\ p[n] = Checksum(t)
    BY <1>1, <1>6
  <2> HIDE DEF s, t
  <2> QED
    BY <2>1, <2>2
<1>10. \A i \in 1..Len(a) : a[i] = p[i]
  <2>1. \A i \in 1..n : i = n \/ i \in 1..n - 1
    BY <1>1
  <2> QED
    BY <1>6, <1>7, <1>9, <2>1
<1>11. a = p
  <2>1. a \in Seq(Byte) /\ p \in Seq(Byte) /\ Len(a) = Len(p)
    BY <1>1, <1>6
  <2> QED
    BY <1>10, <2>1, SeqEqual
<1> QED
  BY <1>2, <1>4, <1>11 DEF a, data, status

(* What the servo reads from a request. *)
IsRequest(r, instruction, data) ==
  /\ r \in Seq(Byte)
  /\ Len(r) = 9 + Len(data)
  /\ r[6] = instruction
  /\ SubSeq(r, 7, Len(r) - 3) = data

LEMMA RequestIs ==
  ASSUME NEW id \in Byte, NEW instruction \in Byte, NEW data \in Seq(Byte), Len(data) + 2 <= 65535
  PROVE  IsRequest(Request(id, instruction, data), instruction, data)
<1> DEFINE n == Len(data)
           a == <<id>>
           b == LowHigh(n + 2)
           c == <<instruction>>
           zeros == <<0, 0>>
           ab == a \o b
           abc == ab \o c
           body == abc \o data
           e == Enclose(body)
           r == e \o zeros
<1>1. a \in Seq(Byte) /\ Len(a) = 1
  OBVIOUS
<1>2. b \in Seq(Byte) /\ Len(b) = 2
  <2>1. n + 2 \in Word
    BY LenProperties DEF Word
  <2>2. IsLowHigh(b, n + 2)
    BY <2>1, LowHighIs
  <2> QED
    BY <2>2 DEF IsLowHigh
<1>3. c \in Seq(Byte) /\ Len(c) = 1 /\ c[1] = instruction
  OBVIOUS
<1>4. zeros \in Seq(Byte) /\ Len(zeros) = 2
  <2>1. 0 \in Byte
    BY DEF Byte
  <2> QED
    BY <2>1
<1>5. n \in Nat
  BY LenProperties
<1>6. Request(id, instruction, data) = r
  BY DEF Request
<1> HIDE DEF a, b, c, zeros
<1>7. ab \in Seq(Byte) /\ Len(ab) = 3
  <2>0. IsJoin(ab, a, b)
    BY <1>1, <1>2, Joined
  <2> HIDE DEF ab
  <2>1. ab \in Seq(Byte) /\ Len(ab) = Len(a) + Len(b)
    BY <2>0 DEF IsJoin
  <2> QED
    BY <1>1, <1>2, <2>1
<1> HIDE DEF ab
<1>8. abc \in Seq(Byte) /\ Len(abc) = 4 /\ abc[4] = instruction
  <2>0. IsJoin(abc, ab, c)
    BY <1>3, <1>7, Joined
  <2> HIDE DEF abc
  <2>1. /\ abc \in Seq(Byte) /\ Len(abc) = Len(ab) + Len(c)
        /\ \A i \in 1..Len(c) : abc[Len(ab) + i] = c[i]
    BY <2>0 DEF IsJoin
  <2> HIDE DEF abc
  <2>2. abc[3 + 1] = c[1]
    BY <1>3, <1>7, <2>1
  <2> QED
    BY <1>3, <1>7, <2>1, <2>2
<1> HIDE DEF abc
<1>9. /\ body \in Seq(Byte) /\ Len(body) = 4 + n
      /\ body[4] = instruction
      /\ \A i \in 1..n : body[4 + i] = data[i]
  <2>0. IsJoin(body, abc, data)
    BY <1>8, Joined
  <2> HIDE DEF body
  <2>1. /\ body \in Seq(Byte) /\ Len(body) = Len(abc) + Len(data)
        /\ \A i \in 1..Len(abc) : body[i] = abc[i]
        /\ \A i \in 1..Len(data) : body[Len(abc) + i] = data[i]
    BY <2>0 DEF IsJoin
  <2> HIDE DEF body
  <2> QED
    BY <1>8, <2>1
<1> HIDE DEF body
<1>10. /\ e \in Seq(Byte) /\ Len(e) = 7 + n
       /\ \A i \in 1..4 + n : e[2 + i] = body[i]
  <2>1. IsEnclosed(e, body)
    BY <1>9, EncloseIs
  <2> HIDE DEF e
  <2>2. (4 + n) + 3 = 7 + n
    BY <1>5
  <2> QED
    BY <1>9, <2>1, <2>2 DEF IsEnclosed
<1> HIDE DEF e
<1>11. /\ r \in Seq(Byte) /\ Len(r) = 9 + n
       /\ \A i \in 1..7 + n : r[i] = e[i]
  <2>0. IsJoin(r, e, zeros)
    BY <1>4, <1>10, Joined
  <2> HIDE DEF r
  <2>1. /\ r \in Seq(Byte) /\ Len(r) = Len(e) + Len(zeros)
        /\ \A i \in 1..Len(e) : r[i] = e[i]
    BY <2>0 DEF IsJoin
  <2> HIDE DEF r
  <2>2. (7 + n) + 2 = 9 + n
    BY <1>5
  <2> QED
    BY <1>4, <1>10, <2>1, <2>2
<1> HIDE DEF r
<1>12. r[6] = instruction
  <2>1. 4 \in 1..4 + n /\ 6 \in 1..7 + n /\ 2 + 4 = 6
    BY <1>5
  <2>2. e[2 + 4] = body[4] /\ r[6] = e[6]
    BY <1>10, <1>11, <2>1
  <2> QED
    BY <1>9, <2>1, <2>2
<1>13. SubSeq(r, 7, Len(r) - 3) = data
  <2>1. 6 \in Nat /\ 6 + n \in Nat /\ 6 <= 6 + n /\ 6 + n <= Len(r) /\ Len(r) - 3 = 6 + n
        /\ 6 + 1 = 7 /\ (6 + n) - 6 = n
    BY <1>5, <1>11
  <2> DEFINE s == SubSeq(r, 6 + 1, 6 + n)
  <2>2. s \in Seq(Byte) /\ Len(s) = (6 + n) - 6 /\ \A i \in 1..(6 + n) - 6 : s[i] = r[6 + i]
    BY <1>11, <2>1, Slice
  <2> HIDE DEF s
  <2>3. ASSUME NEW i \in 1..n PROVE s[i] = data[i]
    <3>1. 4 + i \in 1..4 + n /\ 6 + i \in 1..7 + n /\ 2 + (4 + i) = 6 + i
      BY <1>5
    <3>2. r[6 + i] = e[6 + i] /\ e[2 + (4 + i)] = body[4 + i] /\ body[4 + i] = data[i]
      BY <1>9, <1>10, <1>11, <3>1
    <3> QED
      BY <2>1, <2>2, <3>1, <3>2
  <2>4. Len(s) = Len(data) /\ \A i \in 1..Len(s) : s[i] = data[i]
    BY <2>1, <2>2, <2>3
  <2>5. s \in Seq(Byte)
    BY <2>2
  <2>6. s = data
    BY <2>4, <2>5, SeqEqual
  <2> QED
    BY <2>1, <2>6 DEF s
<1>14. IsRequest(r, instruction, data)
  BY <1>11, <1>12, <1>13 DEF IsRequest
<1> QED
  BY <1>6, <1>14

-----------------------------------------------------------------------------
(* ExxxPacketParser: what it keeps is always the beginning of a packet of   *)
(* the node it is asked for, made of the last bytes it was given.           *)

States == {"Header1", "Header2", "NodeID", "Length1", "Length2", "ErrorStatus1",
           "ErrorStatus2", "Data", "Checksum", "ParserError"}

StateAfter(p) ==
  LET n == Len(p.packet)
  IN  IF n = 0 THEN "Header1"
      ELSE IF n = 1 THEN "Header2"
      ELSE IF n = 2 THEN "NodeID"
      ELSE IF n = 3 THEN "Length1"
      ELSE IF n = 4 THEN "Length2"
      ELSE IF n = 5 THEN "ErrorStatus1"
      ELSE IF n = 6 THEN "ErrorStatus2"
      ELSE IF n < PacketLength(p) + 4 THEN "Data" ELSE "Checksum"

Begun(packet, id) ==
  /\ packet \in Seq(Byte)
  /\ Len(packet) >= 1 => packet[1] = kHeader1
  /\ Len(packet) >= 2 => packet[2] = kHeader2
  /\ Len(packet) >= 3 => packet[3] = id
  /\ Len(packet) >= 5 => Uint16(packet, 4) >= 3

(* A parser that waits for more, at the end of what it has. *)
Waits(p, id) ==
  /\ p \in [state : States, packet : Seq(Byte), status : {"kContinue"}]
  /\ Begun(p.packet, id)
  /\ p.state = StateAfter(p)
  /\ Len(p.packet) >= 7 => Len(p.packet) <= PacketLength(p) + 4

LEMMA ResetWaits == \A id : Waits(Reset, id)
<1>1. <<>> \in Seq(Byte) /\ Len(<<>>) = 0
  OBVIOUS
<1>2. Reset.packet = <<>> /\ Reset.state = "Header1"
  BY DEF Reset
<1>3. StateAfter(Reset) = "Header1"
  BY <1>1, <1>2 DEF StateAfter
<1> QED
  BY <1>1, <1>2, <1>3 DEF Waits, Begun, Reset, States

(* One that refused a byte, and one that took it.                           *)
Refused(q) == q \in [state : States, packet : Seq(Byte), status : {"kError"}]
Done(q, id) ==
  /\ q \in [state : States, packet : Seq(Byte), status : {"kDone"}]
  /\ Whole(q.packet, id)
Taken(q, packet, id) == q.packet = packet /\ (Waits(q, id) \/ Done(q, id))

(* The bytes that are there stay, and their length with them. *)
IsLonger(packet, p, b) ==
  /\ packet \in Seq(Byte)
  /\ Len(packet) = Len(p.packet) + 1
  /\ \A i \in 1..Len(p.packet) : packet[i] = p.packet[i]
  /\ packet[Len(p.packet) + 1] = b

LEMMA AppendIsLonger ==
  ASSUME NEW p, p.packet \in Seq(Byte), NEW b \in Byte
  PROVE  IsLonger(Append(p.packet, b), p, b)
<1> DEFINE s == p.packet
           t == Append(s, b)
<1>1. s \in Seq(Byte)
  OBVIOUS
<1> HIDE DEF s
<1>2. /\ t \in Seq(Byte) /\ Len(t) = Len(s) + 1
      /\ \A i \in 1..Len(s) : t[i] = s[i]
      /\ t[Len(s) + 1] = b
  BY <1>1, AppendProperties
<1> HIDE DEF t
<1> QED
  BY <1>2 DEF IsLonger, s, t

(* What is begun stays begun as long as the byte is the one expected. *)
Expected(p, b, id) ==
  LET n == Len(p.packet)
  IN  /\ n = 0 => b = kHeader1
      /\ n = 1 => b = kHeader2
      /\ n = 2 => b = id
      /\ n = 4 => p.packet[4] + 256 * b >= 3

LEMMA LongerIsBegun ==
  ASSUME NEW id \in Byte, NEW p, Waits(p, id), NEW b \in Byte, NEW packet, IsLonger(packet, p, b),
         Expected(p, b, id)
  PROVE  Begun(packet, id)
<1> DEFINE s == p.packet
           n == Len(s)
<1>1. s \in Seq(Byte) /\ n \in Nat /\ Begun(s, id)
  <2>1. s \in Seq(Byte) /\ Begun(s, id)
    BY DEF Waits
  <2> HIDE DEF s
  <2> QED
    BY <2>1, LenProperties
<1>2. /\ packet \in Seq(Byte) /\ Len(packet) = n + 1
      /\ \A i \in 1..n : packet[i] = s[i]
      /\ packet[n + 1] = b
  BY DEF IsLonger
<1>3. /\ n = 0 => b = kHeader1
      /\ n = 1 => b = kHeader2
      /\ n = 2 => b = id
      /\ n = 4 => s[4] + 256 * b >= 3
  BY DEF Expected
<1> HIDE DEF s
<1>4. packet[1] = kHeader1
  <2>1. CASE n = 0
    BY <1>2, <1>3, <2>1
  <2>2. CASE n # 0
    <3>1. 1 \in 1..n
      BY <1>1, <2>2
    <3> QED
      BY <1>1, <1>2, <3>1 DEF Begun
  <2> QED
    BY <2>1, <2>2
<1>5. Len(packet) >= 2 => packet[2] = kHeader2
  <2>1. CASE n = 1
    BY <1>2, <1>3, <2>1
  <2>2. CASE n > 1
    <3>1. 2 \in 1..n /\ Len(s) >= 2
      BY <1>1, <2>2
    <3> QED
      BY <1>1, <1>2, <3>1 DEF Begun
  <2>3. Len(packet) >= 2 => n = 1 \/ n > 1
    <3>1. Len(packet) = n + 1 /\ n \in Nat
      BY <1>1, <1>2
    <3> HIDE DEF n
    <3> QED
      BY <3>1
  <2> QED
    BY <2>1, <2>2, <2>3
<1>6. Len(packet) >= 3 => packet[3] = id
  <2>1. CASE n = 2
    BY <1>2, <1>3, <2>1
  <2>2. CASE n > 2
    <3>1. 3 \in 1..n /\ Len(s) >= 3
      BY <1>1, <2>2
    <3> QED
      BY <1>1, <1>2, <3>1 DEF Begun
  <2>3. Len(packet) >= 3 => n = 2 \/ n > 2
    <3>1. Len(packet) = n + 1 /\ n \in Nat
      BY <1>1, <1>2
    <3> HIDE DEF n
    <3> QED
      BY <3>1
  <2> QED
    BY <2>1, <2>2, <2>3
<1>7. Len(packet) >= 5 => Uint16(packet, 4) >= 3
  <2>1. CASE n = 4
    <3>1. 4 \in 1..n /\ packet[4 + 1] = b
      BY <1>2, <2>1
    <3>2. packet[4] = s[4]
      BY <1>2, <3>1
    <3> QED
      BY <1>3, <2>1, <3>1, <3>2 DEF Uint16
  <2>2. CASE n > 4
    <3>1. 4 \in 1..n /\ 5 \in 1..n /\ Len(s) >= 5 /\ 4 + 1 = 5
      BY <1>1, <2>2
    <3>2. packet[4] = s[4] /\ packet[5] = s[5]
      BY <1>2, <3>1
    <3>3. Uint16(s, 4) >= 3
      BY <1>1, <3>1 DEF Begun
    <3> QED
      BY <3>1, <3>2, <3>3 DEF Uint16
  <2>3. Len(packet) >= 5 => n = 4 \/ n > 4
    <3>1. Len(packet) = n + 1 /\ n \in Nat
      BY <1>1, <1>2
    <3> HIDE DEF n
    <3> QED
      BY <3>1
  <2> QED
    BY <2>1, <2>2, <2>3
<1> QED
  BY <1>2, <1>4, <1>5, <1>6, <1>7 DEF Begun

(* Keep is right when its state is the one after the bytes it has. *)
LEMMA KeepWaits ==
  ASSUME NEW id \in Byte, NEW p, Waits(p, id), NEW b \in Byte, NEW state \in States,
         Expected(p, b, id),
         state = StateAfter(Keep(p, b, state)),
         Len(p.packet) >= 6 => Len(p.packet) + 1 <= PacketLength(Keep(p, b, state)) + 4
  PROVE  Taken(Keep(p, b, state), Append(p.packet, b), id)
<1> DEFINE q == Keep(p, b, state)
<1>1. p.packet \in Seq(Byte)
  BY DEF Waits
<1>2. IsLonger(Append(p.packet, b), p, b)
  BY <1>1, AppendIsLonger
<1>3. q.packet = Append(p.packet, b) /\ q.state = state /\ q.status = "kContinue"
  BY DEF Keep
<1>4. Append(p.packet, b) \in Seq(Byte) /\ Len(Append(p.packet, b)) = Len(p.packet) + 1
  BY <1>2 DEF IsLonger
<1>5. Begun(Append(p.packet, b), id)
  BY <1>2, LongerIsBegun
<1>6. q \in [state : States, packet : Seq(Byte), status : {"kContinue"}]
  BY <1>4 DEF Keep
<1>7. Len(q.packet) >= 7 => Len(q.packet) <= PacketLength(q) + 4
  <2>1. Len(p.packet) \in Nat
    BY <1>1, LenProperties
  <2>2. Len(q.packet) = Len(p.packet) + 1
    BY <1>3, <1>4
  <2> HIDE DEF q
  <2>3. Len(p.packet) >= 6 => Len(p.packet) + 1 <= PacketLength(q) + 4
    BY DEF q
  <2> QED
    BY <2>1, <2>2, <2>3
<1>8. q.state = StateAfter(q)
  BY <1>3
<1> HIDE DEF q
<1>9. Waits(q, id)
  BY <1>3, <1>5, <1>6, <1>7, <1>8 DEF Waits
<1> QED
  BY <1>3, <1>9 DEF Taken, q

Accepts(p, b, id) ==
  /\ Expected(p, b, id)
  /\ p.state = "Checksum" => b = Checksum(SubSeq(p.packet, 3, Len(p.packet)))

LEMMA RefuseRefuses ==
  ASSUME NEW p, NEW S, p \in [state : States, packet : Seq(Byte), status : S], NEW state \in States
  PROVE  Refused(Refuse(p, state))
  BY DEF Refuse, Refused

LEMMA Uint16IsNat ==
  ASSUME NEW s \in Seq(Byte), NEW i \in 1..Len(s), i + 1 \in 1..Len(s)
  PROVE  Uint16(s, i) \in Nat
<1> DEFINE x == s[i]
           y == s[i + 1]
<1>1. x \in Byte /\ y \in Byte
  BY ElementOfSeq
<1>2. Uint16(s, i) = x + 256 * y
  BY DEF Uint16
<1> HIDE DEF x, y
<1>3. x \in Nat /\ y \in Nat
  BY <1>1 DEF Byte
<1> QED
  BY <1>2, <1>3

LEMMA ChecksumByteIs ==
  ASSUME NEW id \in Byte, NEW p, Waits(p, id), NEW b \in Byte, p.state = "Checksum"
  PROVE  /\ Accepts(p, b, id) => /\ ChecksumByte(p, b).packet = Append(p.packet, b)
                                 /\ Done(ChecksumByte(p, b), id)
         /\ ~ Accepts(p, b, id) => Refused(ChecksumByte(p, b))
<1> DEFINE s == p.packet
           n == Len(s)
           t == Append(s, b)
           sum == Checksum(SubSeq(s, 3, n))
           q == ChecksumByte(p, b)
<1>1. s \in Seq(Byte) /\ n \in Nat /\ Begun(s, id)
  <2>1. s \in Seq(Byte) /\ Begun(s, id)
    BY DEF Waits
  <2> HIDE DEF s
  <2> QED
    BY <2>1, LenProperties
<1>2. n >= 7 /\ n = Uint16(s, 4) + 4
  <2>1. StateAfter(p) = "Checksum" /\ (n >= 7 => n <= PacketLength(p) + 4)
    BY DEF Waits
  <2>2. n \notin 0..6 /\ ~ (n < PacketLength(p) + 4)
    BY <1>1, <2>1 DEF StateAfter
  <2>3. PacketLength(p) \in Nat /\ PacketLength(p) = Uint16(s, 4)
    <3>1. 4 \in 1..n /\ 4 + 1 \in 1..n
      <4>1. n \in Nat
        BY <1>1
      <4> HIDE DEF n
      <4> QED
        BY <2>2, <4>1
    <3>2. Uint16(s, 4) \in Nat
      <4> HIDE DEF s
      <4> QED
        BY <1>1, <3>1, Uint16IsNat
    <3> QED
      BY <3>2 DEF PacketLength
  <2> HIDE DEF n
  <2>4. n \in Nat
    BY <1>1
  <2> QED
    BY <2>1, <2>2, <2>3, <2>4
<1>3. Accepts(p, b, id) <=> b = sum
  <2>1. Expected(p, b, id)
    BY <1>2 DEF Expected
  <2> QED
    BY <2>1 DEF Accepts
<1>4. p \in [state : States, packet : Seq(Byte), status : {"kContinue"}]
  BY DEF Waits
<1>5. ASSUME b # sum PROVE Refused(q)
  <2>1. q = Refuse(p, "Checksum")
    BY <1>5 DEF ChecksumByte
  <2>2. "Checksum" \in States
    BY DEF States
  <2> QED
    BY <1>4, <2>1, <2>2, RefuseRefuses
<1>6. ASSUME b = sum PROVE q.packet = t /\ Done(q, id)
  <2>1. q = [Keep(p, b, "Checksum") EXCEPT !.status = "kDone"]
    BY <1>6 DEF ChecksumByte
  <2>2. IsLonger(t, p, b)
    BY <1>1, AppendIsLonger
  <2>3. /\ t \in Seq(Byte) /\ Len(t) = n + 1
        /\ \A i \in 1..n : t[i] = s[i]
        /\ t[n + 1] = b
    BY <2>2 DEF IsLonger
  <2>4. q.packet = t /\ q \in [state : States, packet : Seq(Byte), status : {"kDone"}]
    BY <2>1, <2>3 DEF Keep, States
  <2> HIDE DEF q, t, s, sum
  <2>5. 1 \in 1..n /\ 2 \in 1..n /\ 3 \in 1..n /\ 4 \in 1..n /\ 5 \in 1..n
    BY <1>1, <1>2
  <2>6. t[1] = s[1] /\ t[2] = s[2] /\ t[3] = s[3] /\ t[4] = s[4] /\ t[5] = s[5]
    BY <2>3, <2>5
  <2>7. s[1] = kHeader1 /\ s[2] = kHeader2 /\ s[3] = id
    BY <1>1, <1>2 DEF Begun
  <2>8. Uint16(t, 4) = Len(t) - 5
    <3>1. Uint16(t, 4) = Uint16(s, 4)
      BY <2>6 DEF Uint16
    <3>2. Len(t) = n + 1 /\ n \in Nat /\ n = Uint16(s, 4) + 4
      BY <1>1, <1>2, <2>3
    <3>4. Uint16(s, 4) \in Int
      <4>1. 4 + 1 \in 1..n
        BY <2>5
      <4>2. Uint16(s, 4) \in Nat
        BY <1>1, <2>5, <4>1, Uint16IsNat
      <4> QED
        BY <4>2
    <3> HIDE DEF n
    <3> QED
      BY <3>1, <3>2, <3>4
  <2>9. SubSeq(t, 3, Len(t) - 1) = SubSeq(s, 3, n)
    <3>1. 2 \in Nat /\ n \in Nat /\ 2 <= n /\ n <= Len(s) /\ n <= Len(t) /\ 2 + 1 = 3 /\ Len(t) - 1 = n
      <4>1. n \in Nat /\ 2 <= n /\ Len(s) = n /\ Len(t) = n + 1
        BY <1>1, <1>2, <2>3
      <4> QED
        BY ONLY <4>1
    <3> DEFINE u == SubSeq(t, 2 + 1, n)
               v == SubSeq(s, 2 + 1, n)
    <3>a. s \in Seq(Byte) /\ t \in Seq(Byte)
      BY <1>1, <2>3
    <3>2. u \in Seq(Byte) /\ Len(u) = n - 2 /\ \A i \in 1..n - 2 : u[i] = t[2 + i]
      BY ONLY <3>a, <3>1, Slice
    <3>3. v \in Seq(Byte) /\ Len(v) = n - 2 /\ \A i \in 1..n - 2 : v[i] = s[2 + i]
      BY ONLY <3>a, <3>1, Slice
    <3> HIDE DEF u, v
    <3>4. \A i \in 1..n - 2 : 2 + i \in 1..n
      BY <1>1, <1>2
    <3>5. Len(u) = Len(v) /\ \A i \in 1..Len(u) : u[i] = v[i]
      BY <2>3, <3>2, <3>3, <3>4
    <3>6. u \in Seq(Byte) /\ v \in Seq(Byte)
      BY <3>2, <3>3
    <3>7. u = v
      BY <3>5, <3>6, SeqEqual
    <3> QED
      BY <3>1, <3>7 DEF u, v
  <2>10. t[Len(t)] = Checksum(SubSeq(t, 3, Len(t) - 1))
    <3> DEFINE u == SubSeq(t, 3, Len(t) - 1)
               v == SubSeq(s, 3, n)
    <3>1. u = v
      BY <2>9
    <3>2. sum = Checksum(v)
      BY DEF sum
    <3> HIDE DEF u, v
    <3>3. t[Len(t)] = Checksum(u)
      BY <1>6, <2>3, <3>1, <3>2
    <3> QED
      BY <3>3 DEF u
  <2>11. Len(t) >= 8
    BY <1>1, <1>2, <2>3
  <2>12. Whole(t, id)
    BY <2>3, <2>6, <2>7, <2>8, <2>10, <2>11 DEF Whole
  <2> QED
    BY <2>4, <2>12 DEF Done
<1> QED
  BY <1>3, <1>5, <1>6 DEF q, t

-----------------------------------------------------------------------------
(* The parser: what each byte makes of it.                                  *)

(* What a state says of the bytes there are. *)
LEMMA StateOf ==
  ASSUME NEW id \in Byte, NEW p, Waits(p, id)
  PROVE  /\ p.packet \in Seq(Byte) /\ Len(p.packet) \in Nat
         /\ p.state = "Header1" => Len(p.packet) = 0
         /\ p.state = "Header2" => Len(p.packet) = 1
         /\ p.state = "NodeID" => Len(p.packet) = 2
         /\ p.state = "Length1" => Len(p.packet) = 3
         /\ p.state = "Length2" => Len(p.packet) = 4
         /\ p.state = "ErrorStatus1" => Len(p.packet) = 5
         /\ p.state = "ErrorStatus2" => Len(p.packet) = 6
         /\ p.state \in {"Data", "Checksum"} => Len(p.packet) >= 7
         /\ p.state = "Data" => Len(p.packet) < PacketLength(p) + 4
         /\ p.state # "ParserError" /\ p.state \in States
<1> DEFINE n == Len(p.packet)
           m == PacketLength(p) + 4
<1>1. p.packet \in Seq(Byte) /\ p.state \in States
  BY DEF Waits
<1>2. n \in Nat
  BY <1>1, LenProperties
<1>3. p.state = IF n = 0 THEN "Header1"
                ELSE IF n = 1 THEN "Header2"
                ELSE IF n = 2 THEN "NodeID"
                ELSE IF n = 3 THEN "Length1"
                ELSE IF n = 4 THEN "Length2"
                ELSE IF n = 5 THEN "ErrorStatus1"
                ELSE IF n = 6 THEN "ErrorStatus2"
                ELSE IF n < m THEN "Data" ELSE "Checksum"
  BY DEF Waits, StateAfter
<1> HIDE DEF m
<1>4. /\ p.state = "Header1" => n = 0
      /\ p.state = "Header2" => n = 1
      /\ p.state = "NodeID" => n = 2
      /\ p.state = "Length1" => n = 3
      /\ p.state = "Length2" => n = 4
      /\ p.state = "ErrorStatus1" => n = 5
      /\ p.state = "ErrorStatus2" => n = 6
      /\ p.state \in {"Data", "Checksum"} => n \notin 0..6
      /\ p.state = "Data" => n < m
      /\ p.state # "ParserError"
  <2> HIDE DEF n
  <2> QED
    BY <1>2, <1>3
<1>5. n \notin 0..6 => n >= 7
  <2> HIDE DEF n
  <2> QED
    BY <1>2
<1> QED
  BY <1>1, <1>2, <1>4, <1>5 DEF m

(* What a byte that comes makes of a parser that waits. *)
Parsed(q, p, b, id) ==
  /\ Accepts(p, b, id) => Taken(q, Append(p.packet, b), id)
  /\ ~ Accepts(p, b, id) => Refused(q)

LEMMA StateAt ==
  ASSUME NEW q
  PROVE  /\ Len(q.packet) = 1 => StateAfter(q) = "Header2"
         /\ Len(q.packet) = 2 => StateAfter(q) = "NodeID"
         /\ Len(q.packet) = 3 => StateAfter(q) = "Length1"
         /\ Len(q.packet) = 4 => StateAfter(q) = "Length2"
         /\ Len(q.packet) = 5 => StateAfter(q) = "ErrorStatus1"
         /\ Len(q.packet) = 6 => StateAfter(q) = "ErrorStatus2"
<1> DEFINE n == Len(q.packet)
           m == PacketLength(q) + 4
<1>1. StateAfter(q) = IF n = 0 THEN "Header1"
                ELSE IF n = 1 THEN "Header2"
                ELSE IF n = 2 THEN "NodeID"
                ELSE IF n = 3 THEN "Length1"
                ELSE IF n = 4 THEN "Length2"
                ELSE IF n = 5 THEN "ErrorStatus1"
                ELSE IF n = 6 THEN "ErrorStatus2"
                ELSE IF n < m THEN "Data" ELSE "Checksum"
  BY DEF StateAfter
<1> HIDE DEF n, m
<1>2. /\ n = 1 => StateAfter(q) = "Header2"
      /\ n = 2 => StateAfter(q) = "NodeID"
      /\ n = 3 => StateAfter(q) = "Length1"
      /\ n = 4 => StateAfter(q) = "Length2"
      /\ n = 5 => StateAfter(q) = "ErrorStatus1"
      /\ n = 6 => StateAfter(q) = "ErrorStatus2"
  BY <1>1
<1> QED
  BY <1>2 DEF n

LEMMA ExpectParses ==
  ASSUME NEW id \in Byte, NEW p, Waits(p, id), NEW b \in Byte, NEW q,
         NEW state \in States, NEW otherwise \in States,
         Expected(p, b, id) => q = Keep(p, b, state),
         ~ Expected(p, b, id) => q = Refuse(p, otherwise),
         p.state # "Checksum",
         Len(p.packet) <= 5,
         state = StateAfter(Keep(p, b, state))
  PROVE  Parsed(q, p, b, id)
<1>1. Len(p.packet) \in Nat
  BY StateOf
<1>2. Accepts(p, b, id) <=> Expected(p, b, id)
  BY DEF Accepts
<1>3. CASE Expected(p, b, id)
  <2>1. ~ Len(p.packet) >= 6
    BY <1>1
  <2>2. Taken(Keep(p, b, state), Append(p.packet, b), id)
    BY <1>3, <2>1, KeepWaits
  <2> QED
    BY <1>2, <1>3, <2>2 DEF Parsed
<1>4. CASE ~ Expected(p, b, id)
  <2>1. p \in [state : States, packet : Seq(Byte), status : {"kContinue"}]
    BY DEF Waits
  <2>2. Refused(Refuse(p, otherwise))
    BY <2>1, RefuseRefuses
  <2> QED
    BY <1>2, <1>4, <2>2 DEF Parsed
<1> QED
  BY <1>3, <1>4

(* The first six bytes. *)
LEMMA BeginningParses ==
  ASSUME NEW id \in Byte, NEW p, Waits(p, id), NEW b \in Byte,
         p.state \notin {"ErrorStatus2", "Data", "Checksum"}
  PROVE  Parsed(TryParse(p, id, b), p, b, id)
<1> DEFINE n == Len(p.packet)
           q == TryParse(p, id, b)
<1>1. /\ p.packet \in Seq(Byte) /\ n \in Nat
      /\ p.state = "Header1" => n = 0
      /\ p.state = "Header2" => n = 1
      /\ p.state = "NodeID" => n = 2
      /\ p.state = "Length1" => n = 3
      /\ p.state = "Length2" => n = 4
      /\ p.state = "ErrorStatus1" => n = 5
      /\ p.state # "ParserError" /\ p.state \in States
  BY StateOf
<1>2. Len(Append(p.packet, b)) = n + 1
  BY <1>1, AppendIsLonger DEF IsLonger
<1>3. ASSUME NEW state \in States PROVE Len(Keep(p, b, state).packet) = n + 1
  BY <1>2 DEF Keep
<1>4. CASE p.state = "Header1"
  <2>0. Len(p.packet) = 0 /\ Len(p.packet) <= 5 /\ p.state # "Checksum"
    <3> HIDE DEF n
    <3>1. n = 0 /\ p.state # "Checksum"
      BY <1>1, <1>4
    <3>2. n <= 5
      BY <3>1
    <3> QED
      BY <3>1, <3>2 DEF n
  <2>1. q = IF b = kHeader1 THEN Keep(p, b, "Header2") ELSE Refuse(p, "Header1")
    BY <1>4 DEF TryParse, Expect
  <2>2. Expected(p, b, id) <=> (b = kHeader1)
    BY <2>0 DEF Expected
  <2>3. "Header2" \in States /\ "Header1" \in States
    BY DEF States
  <2>4. Len(Keep(p, b, "Header2").packet) = 1
    <3> HIDE DEF n
    <3>1. Len(Keep(p, b, "Header2").packet) = n + 1
      BY <1>3, <2>3
    <3>2. n = 0
      BY <2>0 DEF n
    <3> QED
      BY <3>1, <3>2
  <2>5. "Header2" = StateAfter(Keep(p, b, "Header2"))
    BY <2>4, StateAt
  <2>6. /\ Expected(p, b, id) => q = Keep(p, b, "Header2")
        /\ ~ Expected(p, b, id) => q = Refuse(p, "Header1")
    BY <2>1, <2>2
  <2> HIDE DEF q
  <2>7. Parsed(q, p, b, id)
    BY <2>0, <2>3, <2>5, <2>6, ExpectParses
  <2> QED
    BY <2>7 DEF q
<1>5. CASE p.state = "Header2"
  <2>0. Len(p.packet) = 1 /\ Len(p.packet) <= 5 /\ p.state # "Checksum"
    <3> HIDE DEF n
    <3>1. n = 1 /\ p.state # "Checksum"
      BY <1>1, <1>5
    <3>2. n <= 5
      BY <3>1
    <3> QED
      BY <3>1, <3>2 DEF n
  <2>1. q = IF b = kHeader2 THEN Keep(p, b, "NodeID") ELSE Refuse(p, "ParserError")
    BY <1>5 DEF TryParse, Expect
  <2>2. Expected(p, b, id) <=> (b = kHeader2)
    BY <2>0 DEF Expected
  <2>3. "NodeID" \in States /\ "ParserError" \in States
    BY DEF States
  <2>4. Len(Keep(p, b, "NodeID").packet) = 2
    <3> HIDE DEF n
    <3>1. Len(Keep(p, b, "NodeID").packet) = n + 1
      BY <1>3, <2>3
    <3>2. n = 1
      BY <2>0 DEF n
    <3> QED
      BY <3>1, <3>2
  <2>5. "NodeID" = StateAfter(Keep(p, b, "NodeID"))
    BY <2>4, StateAt
  <2>6. /\ Expected(p, b, id) => q = Keep(p, b, "NodeID")
        /\ ~ Expected(p, b, id) => q = Refuse(p, "ParserError")
    BY <2>1, <2>2
  <2> HIDE DEF q
  <2>7. Parsed(q, p, b, id)
    BY <2>0, <2>3, <2>5, <2>6, ExpectParses
  <2> QED
    BY <2>7 DEF q
<1>6. CASE p.state = "NodeID"
  <2>0. Len(p.packet) = 2 /\ Len(p.packet) <= 5 /\ p.state # "Checksum"
    <3> HIDE DEF n
    <3>1. n = 2 /\ p.state # "Checksum"
      BY <1>1, <1>6
    <3>2. n <= 5
      BY <3>1
    <3> QED
      BY <3>1, <3>2 DEF n
  <2>1. q = IF b = id THEN Keep(p, b, "Length1") ELSE Refuse(p, "ParserError")
    BY <1>6 DEF TryParse, Expect
  <2>2. Expected(p, b, id) <=> (b = id)
    BY <2>0 DEF Expected
  <2>3. "Length1" \in States /\ "ParserError" \in States
    BY DEF States
  <2>4. Len(Keep(p, b, "Length1").packet) = 3
    <3> HIDE DEF n
    <3>1. Len(Keep(p, b, "Length1").packet) = n + 1
      BY <1>3, <2>3
    <3>2. n = 2
      BY <2>0 DEF n
    <3> QED
      BY <3>1, <3>2
  <2>5. "Length1" = StateAfter(Keep(p, b, "Length1"))
    BY <2>4, StateAt
  <2>6. /\ Expected(p, b, id) => q = Keep(p, b, "Length1")
        /\ ~ Expected(p, b, id) => q = Refuse(p, "ParserError")
    BY <2>1, <2>2
  <2> HIDE DEF q
  <2>7. Parsed(q, p, b, id)
    BY <2>0, <2>3, <2>5, <2>6, ExpectParses
  <2> QED
    BY <2>7 DEF q
<1>7. CASE p.state = "Length1"
  <2>0. Len(p.packet) = 3 /\ Len(p.packet) <= 5 /\ p.state # "Checksum"
    <3> HIDE DEF n
    <3>1. n = 3 /\ p.state # "Checksum"
      BY <1>1, <1>7
    <3>2. n <= 5
      BY <3>1
    <3> QED
      BY <3>1, <3>2 DEF n
  <2>1. q = Keep(p, b, "Length2")
    BY <1>7 DEF TryParse, Expect
  <2>2. Expected(p, b, id) <=> TRUE
    BY <2>0 DEF Expected
  <2>3. "Length2" \in States /\ "ParserError" \in States
    BY DEF States
  <2>4. Len(Keep(p, b, "Length2").packet) = 4
    <3> HIDE DEF n
    <3>1. Len(Keep(p, b, "Length2").packet) = n + 1
      BY <1>3, <2>3
    <3>2. n = 3
      BY <2>0 DEF n
    <3> QED
      BY <3>1, <3>2
  <2>5. "Length2" = StateAfter(Keep(p, b, "Length2"))
    BY <2>4, StateAt
  <2>6. /\ Expected(p, b, id) => q = Keep(p, b, "Length2")
        /\ ~ Expected(p, b, id) => q = Refuse(p, "ParserError")
    BY <2>1, <2>2
  <2> HIDE DEF q
  <2>7. Parsed(q, p, b, id)
    BY <2>0, <2>3, <2>5, <2>6, ExpectParses
  <2> QED
    BY <2>7 DEF q
<1>8. CASE p.state = "Length2"
  <2>0. Len(p.packet) = 4 /\ Len(p.packet) <= 5 /\ p.state # "Checksum"
    <3> HIDE DEF n
    <3>1. n = 4 /\ p.state # "Checksum"
      BY <1>1, <1>8
    <3>2. n <= 5
      BY <3>1
    <3> QED
      BY <3>1, <3>2 DEF n
  <2>1. q = IF p.packet[4] + 256 * b >= 3 THEN Keep(p, b, "ErrorStatus1") ELSE Refuse(p, "ParserError")
    BY <1>8 DEF TryParse, Expect
  <2>2. Expected(p, b, id) <=> (p.packet[4] + 256 * b >= 3)
    BY <2>0 DEF Expected
  <2>3. "ErrorStatus1" \in States /\ "ParserError" \in States
    BY DEF States
  <2>4. Len(Keep(p, b, "ErrorStatus1").packet) = 5
    <3> HIDE DEF n
    <3>1. Len(Keep(p, b, "ErrorStatus1").packet) = n + 1
      BY <1>3, <2>3
    <3>2. n = 4
      BY <2>0 DEF n
    <3> QED
      BY <3>1, <3>2
  <2>5. "ErrorStatus1" = StateAfter(Keep(p, b, "ErrorStatus1"))
    BY <2>4, StateAt
  <2>6. /\ Expected(p, b, id) => q = Keep(p, b, "ErrorStatus1")
        /\ ~ Expected(p, b, id) => q = Refuse(p, "ParserError")
    BY <2>1, <2>2
  <2> HIDE DEF q
  <2>7. Parsed(q, p, b, id)
    BY <2>0, <2>3, <2>5, <2>6, ExpectParses
  <2> QED
    BY <2>7 DEF q
<1>9. CASE p.state = "ErrorStatus1"
  <2>0. Len(p.packet) = 5 /\ Len(p.packet) <= 5 /\ p.state # "Checksum"
    <3> HIDE DEF n
    <3>1. n = 5 /\ p.state # "Checksum"
      BY <1>1, <1>9
    <3>2. n <= 5
      BY <3>1
    <3> QED
      BY <3>1, <3>2 DEF n
  <2>1. q = Keep(p, b, "ErrorStatus2")
    BY <1>9 DEF TryParse, Expect
  <2>2. Expected(p, b, id) <=> TRUE
    BY <2>0 DEF Expected
  <2>3. "ErrorStatus2" \in States /\ "ParserError" \in States
    BY DEF States
  <2>4. Len(Keep(p, b, "ErrorStatus2").packet) = 6
    <3> HIDE DEF n
    <3>1. Len(Keep(p, b, "ErrorStatus2").packet) = n + 1
      BY <1>3, <2>3
    <3>2. n = 5
      BY <2>0 DEF n
    <3> QED
      BY <3>1, <3>2
  <2>5. "ErrorStatus2" = StateAfter(Keep(p, b, "ErrorStatus2"))
    BY <2>4, StateAt
  <2>6. /\ Expected(p, b, id) => q = Keep(p, b, "ErrorStatus2")
        /\ ~ Expected(p, b, id) => q = Refuse(p, "ParserError")
    BY <2>1, <2>2
  <2> HIDE DEF q
  <2>7. Parsed(q, p, b, id)
    BY <2>0, <2>3, <2>5, <2>6, ExpectParses
  <2> QED
    BY <2>7 DEF q
<1> QED
  BY <1>1, <1>4, <1>5, <1>6, <1>7, <1>8, <1>9 DEF States

LEMMA LengthIs ==
  ASSUME NEW id \in Byte, NEW p, Waits(p, id), Len(p.packet) >= 6
  PROVE  PacketLength(p) \in Nat /\ PacketLength(p) >= 3
<1> DEFINE s == p.packet
           n == Len(s)
<1>1. s \in Seq(Byte) /\ n \in Nat /\ n >= 6
  BY StateOf
<1>2. Begun(s, id)
  BY DEF Waits
<1>3. PacketLength(p) = Uint16(s, 4)
  BY DEF PacketLength
<1> HIDE DEF s
<1>4. 4 \in 1..n /\ 4 + 1 \in 1..n /\ n >= 5
  <2> HIDE DEF n
  <2> QED
    BY <1>1
<1>5. Uint16(s, 4) \in Nat
  BY <1>1, <1>4, Uint16IsNat
<1>6. Uint16(s, 4) >= 3
  BY <1>2, <1>4 DEF Begun
<1> QED
  BY <1>3, <1>5, <1>6

(* The bytes up to the checksum. *)
LEMMA KeepParses ==
  ASSUME NEW id \in Byte, NEW p, Waits(p, id), NEW b \in Byte, NEW state,
         p.state # "Checksum",
         Len(p.packet) >= 6, Len(p.packet) < PacketLength(p) + 4,
         state = IF Len(p.packet) + 1 >= PacketLength(p) + 4 THEN "Checksum" ELSE "Data"
  PROVE  Parsed(Keep(p, b, state), p, b, id)
<1> DEFINE s == p.packet
           n == Len(s)
           m == PacketLength(p)
           q == Keep(p, b, state)
<1>1. s \in Seq(Byte) /\ n \in Nat /\ n >= 6
  BY StateOf
<1>2. m \in Nat
  BY LengthIs
<1>3. q.packet = Append(s, b)
  BY DEF Keep
<1>4. IsLonger(q.packet, p, b)
  BY <1>1, <1>3, AppendIsLonger
<1>5. Len(q.packet) = n + 1
  BY <1>4 DEF IsLonger
<1>6. PacketLength(q) = m
  <2>1. 4 \in 1..n /\ 5 \in 1..n
    <3> HIDE DEF n
    <3> QED
      BY <1>1
  <2>2. q.packet[4] = s[4] /\ q.packet[5] = s[5]
    BY <1>4, <2>1 DEF IsLonger
  <2>3. PacketLength(q) = q.packet[4] + 256 * q.packet[4 + 1] /\ m = s[4] + 256 * s[4 + 1] /\ 4 + 1 = 5
    BY DEF PacketLength, Uint16
  <2> HIDE DEF q, s, m
  <2> QED
    BY <2>2, <2>3
<1>7. state \in States
  BY DEF States
<1>8. StateAfter(q) = state
  <2> DEFINE k == Len(q.packet)
             l == PacketLength(q) + 4
  <2>1. StateAfter(q) = IF k = 0 THEN "Header1"
                  ELSE IF k = 1 THEN "Header2"
                  ELSE IF k = 2 THEN "NodeID"
                  ELSE IF k = 3 THEN "Length1"
                  ELSE IF k = 4 THEN "Length2"
                  ELSE IF k = 5 THEN "ErrorStatus1"
                  ELSE IF k = 6 THEN "ErrorStatus2"
                  ELSE IF k < l THEN "Data" ELSE "Checksum"
    BY DEF StateAfter
  <2>2. k = n + 1 /\ l = m + 4
    BY <1>5, <1>6
  <2>3. state = IF n + 1 >= m + 4 THEN "Checksum" ELSE "Data"
    OBVIOUS
  <2> HIDE DEF k, l, n, m, q
  <2>4. k \notin 0..6 /\ (k < l <=> ~ (n + 1 >= m + 4))
    BY <1>1, <1>2, <2>2
  <2>5. k # 0 /\ k # 1 /\ k # 2 /\ k # 3 /\ k # 4 /\ k # 5 /\ k # 6
    BY <2>4
  <2>6. StateAfter(q) = IF k < l THEN "Data" ELSE "Checksum"
    BY <2>1, <2>5
  <2> QED
    BY <2>3, <2>4, <2>6
<1>9. n + 1 <= PacketLength(q) + 4
  <2>1. n < m + 4
    OBVIOUS
  <2> HIDE DEF n, m, q
  <2> QED
    BY <1>1, <1>2, <1>6, <2>1
<1>10. Expected(p, b, id)
  <2>1. n # 0 /\ n # 1 /\ n # 2 /\ n # 4
    <3> HIDE DEF n
    <3> QED
      BY <1>1
  <2> QED
    BY <2>1 DEF Expected
<1>11. Taken(q, Append(p.packet, b), id)
  BY <1>7, <1>8, <1>9, <1>10, KeepWaits
<1>12. Accepts(p, b, id)
  BY <1>10 DEF Accepts
<1> HIDE DEF q
<1>13. Parsed(q, p, b, id)
  BY <1>11, <1>12 DEF Parsed
<1> QED
  BY <1>13 DEF q

LEMMA TryParseIs ==
  ASSUME NEW id \in Byte, NEW p, Waits(p, id), NEW b \in Byte
  PROVE  Parsed(TryParse(p, id, b), p, b, id)
<1> DEFINE n == Len(p.packet)
           m == PacketLength(p)
<1>1. /\ n \in Nat
      /\ p.state = "ErrorStatus2" => n = 6
      /\ p.state \in {"Data", "Checksum"} => n >= 7
      /\ p.state = "Data" => n < m + 4
  BY StateOf
<1>2. n >= 6 => m \in Nat /\ m >= 3
  BY LengthIs
<1>3. CASE p.state \notin {"ErrorStatus2", "Data", "Checksum"}
  BY <1>3, BeginningParses
<1>4. CASE p.state = "ErrorStatus2"
  <2> DEFINE state == IF m = 3 THEN "Checksum" ELSE "Data"
  <2>1. TryParse(p, id, b) = Keep(p, b, state)
    BY <1>4 DEF TryParse
  <2>2. n >= 6 /\ n < m + 4 /\ (n + 1 >= m + 4 <=> m = 3)
    <3> HIDE DEF n, m
    <3>1. n = 6
      BY <1>1, <1>4
    <3> QED
      BY <1>2, <3>1
  <2>3. state = IF n + 1 >= m + 4 THEN "Checksum" ELSE "Data"
    BY <2>2
  <2> HIDE DEF state
  <2>4. Parsed(Keep(p, b, state), p, b, id)
    BY <1>4, <2>2, <2>3, KeepParses
  <2> QED
    BY <2>1, <2>4
<1>5. CASE p.state = "Data"
  <2> DEFINE state == IF n + 1 >= m + 4 THEN "Checksum" ELSE "Data"
  <2>1. TryParse(p, id, b) = Keep(p, b, state)
    BY <1>5 DEF TryParse
  <2>2. n >= 6 /\ n < m + 4
    <3> HIDE DEF n, m
    <3> QED
      BY <1>1, <1>5
  <2>3. state = IF n + 1 >= m + 4 THEN "Checksum" ELSE "Data"
    OBVIOUS
  <2> HIDE DEF state
  <2>4. Parsed(Keep(p, b, state), p, b, id)
    BY <1>5, <2>2, <2>3, KeepParses
  <2> QED
    BY <2>1, <2>4
<1>6. CASE p.state = "Checksum"
  <2>1. TryParse(p, id, b) = ChecksumByte(p, b)
    BY <1>6 DEF TryParse
  <2>2. /\ Accepts(p, b, id) => /\ ChecksumByte(p, b).packet = Append(p.packet, b)
                                /\ Done(ChecksumByte(p, b), id)
        /\ ~ Accepts(p, b, id) => Refused(ChecksumByte(p, b))
    BY <1>6, ChecksumByteIs
  <2> QED
    BY <2>1, <2>2 DEF Parsed, Taken
<1> QED
  BY <1>3, <1>4, <1>5, <1>6

-----------------------------------------------------------------------------
(* ExxxNetwork::Receive: what it makes of the bytes of a read, one by one. *)

Parses(p, id) == Waits(p, id) \/ Refused(p)
Parser == [state : States, packet : Seq(Byte), status : {"kContinue", "kError", "kDone"}]
Parsers(id) == {p \in Parser : Parses(p, id) \/ Done(p, id)}

(* The beginning of a packet it has. *)
Live(p) == IF p.status = "kContinue" THEN p.packet ELSE <<>>

LEMMA LiveIsBegun ==
  ASSUME NEW id \in Byte, NEW p, Parses(p, id)
  PROVE  /\ Live(p) \in Seq(Byte)
         /\ \E w : /\ Waits(w, id) /\ w.packet = Live(p)
                  /\ \A b : ParseNext(p, id, b) = TryParse(w, id, b)
<1>1. CASE Waits(p, id)
  <2>1. p.status = "kContinue" /\ p.packet \in Seq(Byte)
    BY <1>1 DEF Waits
  <2>2. \A b : ParseNext(p, id, b) = TryParse(p, id, b)
    BY <2>1 DEF ParseNext
  <2> QED
    BY <1>1, <2>1, <2>2 DEF Live
<1>2. CASE Refused(p)
  <2>1. p.status = "kError"
    BY <1>2 DEF Refused
  <2>2. \A b : ParseNext(p, id, b) = TryParse(Reset, id, b)
    BY <2>1 DEF ParseNext
  <2>3. Reset.packet = <<>> /\ <<>> \in Seq(Byte)
    BY DEF Reset
  <2>4. Live(p) = <<>>
    BY <2>1 DEF Live
  <2> QED
    BY <2>2, <2>3, <2>4, ResetWaits
<1> QED
  BY <1>1, <1>2 DEF Parses

LEMMA ParsersKept ==
  ASSUME NEW id \in Byte, NEW p \in Parsers(id), NEW b \in Byte
  PROVE  ParseNext(p, id, b) \in Parsers(id)
<1>1. CASE Done(p, id)
  <2>1. ParseNext(p, id, b) = p
    BY <1>1 DEF ParseNext, Done
  <2> QED
    BY <2>1
<1>2. CASE Parses(p, id)
  <2>1. PICK w : Waits(w, id) /\ ParseNext(p, id, b) = TryParse(w, id, b)
    BY <1>2, LiveIsBegun
  <2> DEFINE q == TryParse(w, id, b)
  <2>2. Parsed(q, w, b, id)
    BY <2>1, TryParseIs
  <2> HIDE DEF q
  <2>3. Waits(q, id) \/ Done(q, id) \/ Refused(q)
    BY <2>2 DEF Parsed, Taken
  <2>4. q \in Parser
    BY <2>3 DEF Waits, Done, Refused, Parser
  <2>5. q \in Parsers(id)
    BY <2>3, <2>4 DEF Parsers, Parses
  <2> QED
    BY <2>1, <2>5 DEF q
<1> QED
  BY <1>1, <1>2 DEF Parsers

LEMMA ParseSteps ==
  ASSUME NEW id \in Byte, NEW p \in Parsers(id), NEW s \in Seq(Byte)
  PROVE  \E q \in [0..Len(s) -> Parsers(id)] :
           /\ q[0] = p
           /\ \A k \in 1..Len(s) : q[k] = ParseNext(q[k - 1], id, s[k])
           /\ ParseAll(p, id, s) = q[Len(s)]
<1> DEFINE n == Len(s)
           D == 1..n
           T == Parsers(id)
           iter == CHOOSE g : g = [t \in SUBSET D |->
                     IF t = {} THEN p ELSE ParseNext(g[t \ {Max(t)}], id, s[Max(t)])]
<1>1. n \in Nat /\ DOMAIN s = D /\ \A i \in D : s[i] \in Byte
  BY LenProperties, ElementOfSeq
<1>2. ParseAll(p, id, s) = iter[D]
  BY <1>1 DEF ParseAll, FoldLeft, MapThenFoldSet
<1>a. \A x \in T, y \in Byte : ParseNext(x, id, y) \in T
  BY ParsersKept
<1>b. p \in T
  OBVIOUS
<1> HIDE DEF T
<1>3. \E g : g = [t \in SUBSET D |->
                   IF t = {} THEN p ELSE ParseNext(g[t \ {Max(t)}], id, s[Max(t)])]
  <2> DEFINE F == [x \in T \X D |-> ParseNext(x[1], id, s[x[2]])]
  <2>1. F \in [T \X (1..n) -> T]
    <3>1. ASSUME NEW x \in T \X D PROVE ParseNext(x[1], id, s[x[2]]) \in T
      <4>1. x[1] \in T /\ x[2] \in D
        OBVIOUS
      <4>2. s[x[2]] \in Byte
        BY <1>1, <4>1
      <4> QED
        BY <1>a, <4>1, <4>2
    <3> QED
      BY <3>1
  <2>2. PICK g : /\ IsFold(g, n, p, F)
                 /\ \A t \in SUBSET (1..n) : g[t] \in T /\ (t = {} \/ Max(t) \in t)
    <3> HIDE DEF F
    <3>1. n \in Nat /\ p \in T /\ F \in [T \X (1..n) -> T]
      BY <1>1, <1>b, <2>1
    <3>2. \E g : /\ IsFold(g, n, p, F)
                 /\ \A t \in SUBSET (1..n) : g[t] \in T /\ (t = {} \/ Max(t) \in t)
      BY <3>1, FoldExists
    <3> QED
      BY <3>2
  <2>3. ASSUME NEW t \in SUBSET D, t # {}
        PROVE  F[<<g[t \ {Max(t)}], Max(t)>>] = ParseNext(g[t \ {Max(t)}], id, s[Max(t)])
    <3>1. t \ {Max(t)} \in SUBSET D /\ Max(t) \in D
      BY <2>2, <2>3
    <3>2. <<g[t \ {Max(t)}], Max(t)>> \in T \X D
      BY <2>2, <3>1
    <3> QED
      BY <3>2
  <2> HIDE DEF F
  <2>4. g = [t \in SUBSET D |-> IF t = {} THEN p ELSE F[<<g[t \ {Max(t)}], Max(t)>>]]
    BY <2>2 DEF IsFold
  <2>5. g = [t \in SUBSET D |-> IF t = {} THEN p ELSE ParseNext(g[t \ {Max(t)}], id, s[Max(t)])]
    BY <2>3, <2>4
  <2> QED
    BY <2>5
<1>4. iter = [t \in SUBSET D |->
               IF t = {} THEN p ELSE ParseNext(iter[t \ {Max(t)}], id, s[Max(t)])]
  BY <1>3
<1> HIDE DEF iter
<1>5. iter[{}] = p
  BY <1>4
<1>6. ASSUME NEW k \in D PROVE iter[1..k] = ParseNext(iter[1..k - 1], id, s[k])
  <2>1. 1..k \in SUBSET D /\ 1..k # {} /\ Max(1..k) = k /\ (1..k) \ {k} = 1..k - 1
    BY <1>1, Prefix
  <2> QED
    BY <1>4, <2>1
<1> DEFINE q == [k \in 0..n |-> iter[1..k]]
<1>7. q[0] = p /\ q[n] = iter[D]
  <2>1. 1..0 = {} /\ 0 \in 0..n /\ n \in 0..n
    BY <1>1
  <2> QED
    BY <1>5, <2>1
<1>8. ASSUME NEW k \in D PROVE q[k] = ParseNext(q[k - 1], id, s[k])
  <2>1. k \in 0..n /\ k - 1 \in 0..n
    BY <1>1
  <2> QED
    BY <1>6, <2>1
<1>9. q \in [0..n -> T]
  <2> DEFINE I == {k \in Nat : k <= n => q[k] \in T}
  <2> HIDE DEF q
  <2>1. 0 \in I
    BY <1>7, <1>b
  <2>2. ASSUME NEW k \in Nat, k \in I PROVE k + 1 \in I
    <3>1. SUFFICES ASSUME k + 1 <= n PROVE q[k + 1] \in T
      OBVIOUS
    <3>2. k + 1 \in D /\ (k + 1) - 1 = k /\ q[k] \in T
      BY <2>2, <3>1
    <3>3. q[k + 1] = ParseNext(q[k], id, s[k + 1]) /\ s[k + 1] \in Byte
      BY <1>1, <1>8, <3>2
    <3> QED
      BY <1>a, <3>2, <3>3
  <2>3. Nat \subseteq I
    <3> HIDE DEF I
    <3> QED
      BY <2>1, <2>2, Induction
  <2>4. \A k \in 0..n : k \in I
    BY <2>3
  <2>5. q = [k \in 0..n |-> q[k]]
    BY DEF q
  <2> QED
    BY <2>4, <2>5
<1> HIDE DEF q
<1> QED
  BY <1>2, <1>7, <1>8, <1>9 DEF T

-----------------------------------------------------------------------------
(* The parser over a stream of bytes: what it accepts was a window of the   *)
(* stream, and a whole packet that is next in the stream is accepted.       *)

(* u are the last of the first c bytes of s. *)
Ends(u, s, c) ==
  /\ Len(u) <= c
  /\ \A j \in 1..Len(u) : u[j] = s[c - Len(u) + j]
Window(p, s) == \E c \in Nat : c <= Len(s) /\ Ends(p, s, c)
Suffix(u, s) == Ends(u, s, Len(s))

LEMMA EndsOneMore ==
  ASSUME NEW u \in Seq(Byte), NEW s \in Seq(Byte), NEW c \in Nat, c < Len(s), Ends(u, s, c)
  PROVE  Ends(Append(u, s[c + 1]), s, c + 1)
<1> DEFINE n == Len(u)
           b == s[c + 1]
           v == Append(u, b)
<1>1. n \in Nat /\ n <= c /\ b \in Byte
  <2>1. n \in Nat /\ Len(s) \in Nat
    BY LenProperties
  <2>2. c + 1 \in 1..Len(s)
    BY <2>1
  <2> QED
    BY <2>1, <2>2, ElementOfSeq DEF Ends
<1>2. \A j \in 1..n : u[j] = s[c - n + j]
  BY DEF Ends
<1> HIDE DEF b
<1>3. v \in Seq(Byte) /\ Len(v) = n + 1 /\ (\A j \in 1..n : v[j] = u[j]) /\ v[n + 1] = b
  BY <1>1, AppendProperties
<1> HIDE DEF v, n
<1>4. ASSUME NEW j \in 1..n + 1 PROVE v[j] = s[(c + 1) - (n + 1) + j]
  <2>1. (c + 1) - (n + 1) + j = c - n + j
    BY <1>1
  <2>2. CASE j = n + 1
    <3>1. c - n + j = c + 1
      BY <1>1, <2>2
    <3> QED
      BY <1>3, <2>1, <2>2, <3>1 DEF b
  <2>3. CASE j # n + 1
    <3>1. j \in 1..n
      BY <1>1, <2>3
    <3> QED
      BY <1>2, <1>3, <2>1, <3>1
  <2> QED
    BY <2>2, <2>3
<1>5. Ends(v, s, c + 1)
  BY <1>1, <1>3, <1>4 DEF Ends
<1> QED
  BY <1>5 DEF v, b

(* A byte more: what the parser has is what came last. *)
LEMMA NextEnds ==
  ASSUME NEW id \in Byte, NEW p, Parses(p, id), NEW s \in Seq(Byte), NEW c \in Nat, c < Len(s),
         Ends(Live(p), s, c), NEW q, q = ParseNext(p, id, s[c + 1])
  PROVE  \/ Parses(q, id) /\ Ends(Live(q), s, c + 1)
         \/ Done(q, id) /\ Ends(q.packet, s, c + 1)
<1> DEFINE b == s[c + 1]
           u == Live(p)
<1>1. b \in Byte /\ Len(s) \in Nat
  <2>1. Len(s) \in Nat
    BY LenProperties
  <2>2. c + 1 \in 1..Len(s)
    BY <2>1
  <2> QED
    BY <2>1, <2>2, ElementOfSeq
<1>2. u \in Seq(Byte)
  BY LiveIsBegun
<1>3. PICK w : Waits(w, id) /\ w.packet = u /\ q = TryParse(w, id, b)
  BY LiveIsBegun
<1>4. Ends(Append(u, b), s, c + 1)
  BY <1>2, EndsOneMore
<1> HIDE DEF u, b
<1>5. Parsed(q, w, b, id)
  BY <1>1, <1>3, TryParseIs
<1>6. CASE Accepts(w, b, id)
  <2>1. q.packet = Append(u, b) /\ (Waits(q, id) \/ Done(q, id))
    BY <1>3, <1>5, <1>6 DEF Parsed, Taken
  <2>2. CASE Waits(q, id)
    <3>1. q.status = "kContinue"
      BY <2>2 DEF Waits
    <3>2. Live(q) = Append(u, b)
      BY <2>1, <3>1 DEF Live
    <3> QED
      BY <1>4, <2>2, <3>2 DEF Parses
  <2>3. CASE Done(q, id)
    BY <1>4, <2>1, <2>3
  <2> QED
    BY <2>1, <2>2, <2>3
<1>7. CASE ~ Accepts(w, b, id)
  <2>1. Refused(q)
    BY <1>5, <1>7 DEF Parsed
  <2>2. q.status = "kError"
    BY <2>1 DEF Refused
  <2>3. Live(q) = <<>>
    BY <2>2 DEF Live
  <2>4. Len(<<>>) = 0
    OBVIOUS
  <2>5. Ends(<<>>, s, c + 1)
    BY <2>4 DEF Ends
  <2> QED
    BY <2>1, <2>3, <2>5 DEF Parses
<1> QED
  BY <1>6, <1>7

(* A read: either the parser waits for more with what came last, or it has  *)
(* a whole packet, byte for byte as it came.                                *)
LEMMA ReadIs ==
  ASSUME NEW id \in Byte, NEW p, Parses(p, id), NEW s \in Seq(Byte), NEW f, f = ParseAll(p, id, s)
  PROVE  \/ Parses(f, id) /\ Suffix(Live(f), Live(p) \o s)
         \/ Done(f, id) /\ Window(f.packet, Live(p) \o s)
<1> DEFINE u == Live(p)
           t == u \o s
           m == Len(u)
           n == Len(s)
<1>1. u \in Seq(Byte)
  BY LiveIsBegun
<1> HIDE DEF u
<1>2. m \in Nat /\ n \in Nat
  BY <1>1, LenProperties
<1>3. IsJoin(t, u, s)
  BY <1>1, Joined
<1>4. /\ t \in Seq(Byte) /\ Len(t) = m + n
      /\ \A i \in 1..m : t[i] = u[i]
      /\ \A i \in 1..n : t[m + i] = s[i]
  BY <1>3 DEF IsJoin
<1>5. p \in Parsers(id)
  BY DEF Parsers, Parses, Waits, Refused, Parser
<1>6. PICK q \in [0..n -> Parsers(id)] :
         /\ q[0] = p
         /\ \A k \in 1..n : q[k] = ParseNext(q[k - 1], id, s[k])
         /\ ParseAll(p, id, s) = q[n]
  BY <1>5, ParseSteps
<1> DEFINE Ok(k) == \/ Parses(q[k], id) /\ Ends(Live(q[k]), t, m + k)
                    \/ Done(q[k], id) /\ \E c \in Nat : c <= m + k /\ Ends(q[k].packet, t, c)
           I == {k \in Nat : k <= n => Ok(k)}
<1> HIDE DEF t, m, n
<1>7. 0 \in I
  <2>1. Live(q[0]) = u /\ m + 0 = m /\ Len(u) = m
    BY <1>2, <1>6 DEF u, m
  <2>2. ASSUME NEW j \in 1..m PROVE u[j] = t[m - m + j]
    <3>1. m - m + j = j
      BY <1>2
    <3> QED
      BY <1>4, <3>1
  <2>3. Ends(u, t, m)
    BY <1>2, <2>1, <2>2 DEF Ends
  <2> QED
    BY <1>6, <2>1, <2>3
<1>8. ASSUME NEW k \in Nat, k \in I PROVE k + 1 \in I
  <2>1. SUFFICES ASSUME k + 1 <= n PROVE Ok(k + 1)
    OBVIOUS
  <2>2. Ok(k) /\ k + 1 \in 1..n /\ (k + 1) - 1 = k
    BY <1>2, <1>8, <2>1
  <2>3. q[k + 1] = ParseNext(q[k], id, s[k + 1]) /\ s[k + 1] = t[m + (k + 1)]
    BY <1>4, <1>6, <2>2
  <2>4. CASE Parses(q[k], id) /\ Ends(Live(q[k]), t, m + k)
    <3> DEFINE c == m + k
    <3>1. c \in Nat /\ c < Len(t) /\ c + 1 = m + (k + 1)
      BY <1>2, <1>4, <2>1
    <3>2. q[k + 1] = ParseNext(q[k], id, t[c + 1]) /\ Ends(Live(q[k]), t, c)
      BY <2>3, <2>4, <3>1
    <3> HIDE DEF c
    <3>3. \/ Parses(q[k + 1], id) /\ Ends(Live(q[k + 1]), t, c + 1)
          \/ Done(q[k + 1], id) /\ Ends(q[k + 1].packet, t, c + 1)
      BY <1>4, <2>4, <3>1, <3>2, NextEnds
    <3>4. c + 1 \in Nat /\ c + 1 <= m + (k + 1)
      BY <3>1
    <3> QED
      BY <3>1, <3>3, <3>4
  <2>5. CASE Done(q[k], id) /\ \E c \in Nat : c <= m + k /\ Ends(q[k].packet, t, c)
    <3>1. PICK c \in Nat : c <= m + k /\ Ends(q[k].packet, t, c)
      BY <2>5
    <3>2. q[k + 1] = q[k]
      BY <2>3, <2>5 DEF ParseNext, Done
    <3>3. c <= m + (k + 1)
      BY <1>2, <3>1
    <3> QED
      BY <2>5, <3>1, <3>2, <3>3
  <2> QED
    BY <2>2, <2>4, <2>5
<1>9. Nat \subseteq I
  <2> HIDE DEF I
  <2> QED
    BY <1>7, <1>8, Induction
<1>10. Ok(n)
  <2>1. n \in I /\ n <= n
    BY <1>2, <1>9
  <2> QED
    BY <2>1
<1>11. f = q[n] /\ Len(t) = m + n
  BY <1>4, <1>6
<1>12. \/ Parses(f, id) /\ Suffix(Live(f), t)
       \/ Done(f, id) /\ Window(f.packet, t)
  BY <1>10, <1>11 DEF Suffix, Window
<1> QED
  BY <1>12 DEF t, u

(* u is the beginning of a. *)
Begins(u, a) == Len(u) <= Len(a) /\ \A j \in 1..Len(u) : u[j] = a[j]

LEMMA SameBeginning ==
  ASSUME NEW u \in Seq(Byte), NEW a \in Seq(Byte), Begins(u, a), Len(u) = Len(a)
  PROVE  u = a
<1>1. Len(u) = Len(a) /\ \A j \in 1..Len(u) : u[j] = a[j]
  BY DEF Begins
<1> QED
  BY <1>1, SeqEqual

LEMMA BeginsOneMore ==
  ASSUME NEW u \in Seq(Byte), NEW a \in Seq(Byte), Begins(u, a), Len(u) < Len(a)
  PROVE  /\ a[Len(u) + 1] \in Byte
         /\ Append(u, a[Len(u) + 1]) \in Seq(Byte)
         /\ Len(Append(u, a[Len(u) + 1])) = Len(u) + 1
         /\ Begins(Append(u, a[Len(u) + 1]), a)
<1> DEFINE n == Len(u)
           b == a[n + 1]
           v == Append(u, b)
<1>1. n \in Nat /\ Len(a) \in Nat /\ n < Len(a)
  BY LenProperties
<1>2. n + 1 \in 1..Len(a) /\ n + 1 <= Len(a)
  BY <1>1
<1>3. b \in Byte
  BY <1>2, ElementOfSeq
<1> HIDE DEF b
<1>4. v \in Seq(Byte) /\ Len(v) = n + 1 /\ (\A j \in 1..n : v[j] = u[j]) /\ v[n + 1] = b
  BY <1>3, AppendProperties
<1>5. \A j \in 1..n : u[j] = a[j]
  BY DEF Begins
<1> HIDE DEF v
<1>6. \A j \in 1..n + 1 : v[j] = a[j]
  <2>1. \A j \in 1..n + 1 : j \in 1..n \/ j = n + 1
    BY <1>1
  <2> QED
    BY <1>4, <1>5, <2>1 DEF b
<1>7. Begins(v, a)
  BY <1>2, <1>4, <1>6 DEF Begins
<1> QED
  BY <1>3, <1>4, <1>7 DEF v, b

(* The length field once it is there. *)
LEMMA SameLength ==
  ASSUME NEW u \in Seq(Byte), NEW a \in Seq(Byte), Begins(u, a), Len(u) >= 5
  PROVE  Uint16(u, 4) = Uint16(a, 4)
<1>1. Len(u) \in Nat
  BY LenProperties
<1>2. 4 \in 1..Len(u) /\ 5 \in 1..Len(u) /\ 4 + 1 = 5
  BY <1>1
<1>3. u[4] = a[4] /\ u[5] = a[5]
  BY <1>2 DEF Begins
<1> QED
  BY <1>2, <1>3 DEF Uint16

LEMMA SliceEqual ==
  ASSUME NEW u \in Seq(Byte), NEW a \in Seq(Byte), Begins(u, a), NEW n \in Nat,
         n = Len(u), n >= 3
  PROVE  SubSeq(u, 3, n) = SubSeq(a, 3, n)
<1>1. Len(a) \in Nat
  BY LenProperties
<1>2. 2 \in Nat /\ 2 <= n /\ n <= Len(u) /\ n <= Len(a) /\ 2 + 1 = 3
  BY <1>1 DEF Begins
<1> DEFINE x == SubSeq(u, 2 + 1, n)
           y == SubSeq(a, 2 + 1, n)
<1>3. x \in Seq(Byte) /\ Len(x) = n - 2 /\ \A i \in 1..n - 2 : x[i] = u[2 + i]
  BY <1>2, Slice
<1>4. y \in Seq(Byte) /\ Len(y) = n - 2 /\ \A i \in 1..n - 2 : y[i] = a[2 + i]
  BY <1>2, Slice
<1> HIDE DEF x, y
<1>5. \A i \in 1..n - 2 : 2 + i \in 1..n
  BY <1>2
<1>6. \A j \in 1..n : u[j] = a[j]
  BY DEF Begins
<1>7. Len(x) = Len(y) /\ \A i \in 1..Len(x) : x[i] = y[i]
  BY <1>3, <1>4, <1>5, <1>6
<1>8. x \in Seq(Byte) /\ y \in Seq(Byte)
  BY <1>3, <1>4
<1>9. x = y
  BY <1>7, <1>8, SeqEqual
<1> QED
  BY <1>2, <1>9 DEF x, y

(* The bytes of a whole packet are those that are expected. *)
LEMMA WholeIsAccepted ==
  ASSUME NEW id \in Byte, NEW a, Whole(a, id), NEW w, Waits(w, id),
         Begins(w.packet, a), Len(w.packet) < Len(a)
  PROVE  Accepts(w, a[Len(w.packet) + 1], id)
<1> DEFINE u == w.packet
           n == Len(u)
           b == a[n + 1]
<1>1. /\ a \in Seq(Byte) /\ Len(a) \in Nat /\ Len(a) >= 8
      /\ a[1] = kHeader1 /\ a[2] = kHeader2 /\ a[3] = id
      /\ Uint16(a, 4) = Len(a) - 5
      /\ a[Len(a)] = Checksum(SubSeq(a, 3, Len(a) - 1))
  BY LenProperties DEF Whole
<1>2. u \in Seq(Byte) /\ n \in Nat /\ n < Len(a)
  BY StateOf
<1>3. \A j \in 1..n : u[j] = a[j]
  BY DEF Begins
<1>4. Expected(w, b, id)
  <2>1. n = 0 => b = kHeader1
    BY <1>1
  <2>2. n = 1 => b = kHeader2
    BY <1>1
  <2>3. n = 2 => b = id
    BY <1>1
  <2>4. n = 4 => u[4] + 256 * b >= 3
    <3>1. SUFFICES ASSUME n = 4 PROVE u[4] + 256 * b >= 3
      OBVIOUS
    <3>2. 4 \in 1..n /\ n + 1 = 5 /\ 4 + 1 = 5
      BY <3>1
    <3>3. u[4] + 256 * b = Uint16(a, 4)
      BY <1>3, <3>2 DEF Uint16
    <3> HIDE DEF u, b
    <3>4. Len(a) - 5 >= 3
      BY <1>1
    <3> QED
      BY <1>1, <3>3, <3>4
  <2> QED
    BY <2>1, <2>2, <2>3, <2>4 DEF Expected
<1>5. ASSUME w.state = "Checksum" PROVE b = Checksum(SubSeq(u, 3, n))
  <2>1. n >= 7
    BY <1>5, StateOf
  <2>2. n = PacketLength(w) + 4
    <3>1. n <= PacketLength(w) + 4 /\ w.state = StateAfter(w)
      BY <2>1 DEF Waits
    <3>2. ~ (n < PacketLength(w) + 4)
      <4>1. n # 0 /\ n # 1 /\ n # 2 /\ n # 3 /\ n # 4 /\ n # 5 /\ n # 6
        <5> HIDE DEF n
        <5> QED
          BY <1>2, <2>1
      <4> QED
        BY <1>5, <3>1, <4>1 DEF StateAfter
    <3>3. n >= 6
      <4> HIDE DEF n
      <4> QED
        BY <1>2, <2>1
    <3>4. PacketLength(w) \in Nat
      BY <3>3, LengthIs
    <3> HIDE DEF n
    <3> QED
      BY <1>2, <3>1, <3>2, <3>4
  <2>3. Uint16(u, 4) = Uint16(a, 4)
    <3>1. n >= 5
      <4> HIDE DEF n
      <4> QED
        BY <1>2, <2>1
    <3> QED
      BY <1>1, <1>2, <3>1, SameLength
  <2>4. n + 1 = Len(a) /\ n = Len(a) - 1
    <3>1. PacketLength(w) = Len(a) - 5
      BY <1>1, <2>3 DEF PacketLength
    <3> HIDE DEF n
    <3> QED
      BY <1>1, <1>2, <2>2, <3>1
  <2>5. SubSeq(u, 3, n) = SubSeq(a, 3, n)
    <3>1. n >= 3
      <4> HIDE DEF n
      <4> QED
        BY <1>2, <2>1
    <3> HIDE DEF u
    <3> QED
      BY <1>1, <1>2, <3>1, SliceEqual DEF u
  <2> DEFINE x == SubSeq(u, 3, n)
             y == SubSeq(a, 3, n)
             z == SubSeq(a, 3, Len(a) - 1)
  <2>6. x = y /\ y = z /\ b = Checksum(z)
    BY <1>1, <2>4, <2>5
  <2> HIDE DEF x, y, z
  <2>7. b = Checksum(x)
    BY <2>6
  <2> QED
    BY <2>7 DEF x
<1> QED
  BY <1>4, <1>5 DEF Accepts

LEMMA TrackStep ==
  ASSUME NEW id \in Byte, NEW a, Whole(a, id), NEW p, Parses(p, id),
         Begins(Live(p), a), Len(Live(p)) < Len(a),
         NEW q, q = ParseNext(p, id, a[Len(Live(p)) + 1])
  PROVE  \/ Len(Live(p)) + 1 < Len(a) /\ Parses(q, id) /\ Live(q) = Append(Live(p), a[Len(Live(p)) + 1])
         \/ Len(Live(p)) + 1 = Len(a) /\ Done(q, id) /\ q.packet = a
<1> DEFINE u == Live(p)
           n == Len(u)
           b == a[n + 1]
           v == Append(u, b)
<1>1. /\ a \in Seq(Byte) /\ Len(a) \in Nat /\ Len(a) >= 8
      /\ Uint16(a, 4) = Len(a) - 5
  BY LenProperties DEF Whole
<1>2. u \in Seq(Byte)
  BY LiveIsBegun
<1>3. PICK w : Waits(w, id) /\ w.packet = u /\ q = TryParse(w, id, b)
  BY LiveIsBegun
<1> HIDE DEF u
<1>4. n \in Nat /\ n < Len(a) /\ Begins(u, a)
  BY <1>2, LenProperties DEF u
<1>5. Accepts(w, b, id)
  BY <1>3, <1>4, WholeIsAccepted
<1>6. b \in Byte /\ v \in Seq(Byte) /\ Len(v) = n + 1 /\ Begins(v, a)
  BY <1>1, <1>2, <1>4, BeginsOneMore
<1> HIDE DEF b
<1>7. Parsed(q, w, b, id)
  BY <1>3, <1>6, TryParseIs
<1>8. q.packet = v /\ (Waits(q, id) \/ Done(q, id))
  BY <1>3, <1>5, <1>7 DEF Parsed, Taken
<1> HIDE DEF v
<1>9. CASE Done(q, id)
  <2>1. Len(v) >= 8 /\ Uint16(v, 4) = Len(v) - 5
    BY <1>8, <1>9 DEF Done, Whole
  <2>2. Len(v) >= 5
    BY <1>4, <1>6, <2>1
  <2>3. Uint16(v, 4) = Uint16(a, 4)
    BY <1>1, <1>6, <2>2, SameLength
  <2>4. Len(v) = Len(a) /\ n + 1 = Len(a)
    <3> HIDE DEF n
    <3> QED
      BY <1>1, <1>4, <1>6, <2>1, <2>3
  <2>5. v = a
    BY <1>1, <1>6, <2>4, SameBeginning
  <2>6. n + 1 = Len(a) /\ Done(q, id) /\ q.packet = a
    BY <1>8, <1>9, <2>4, <2>5
  <2> QED
    BY <2>6 DEF u
<1>10. CASE Waits(q, id)
  <2>1. q.status = "kContinue"
    BY <1>10 DEF Waits
  <2>2. Live(q) = v
    BY <1>8, <2>1 DEF Live
  <2>3. n + 1 < Len(a)
    <3>1. Len(v) >= 7 => Len(v) <= Uint16(v, 4) + 4
      BY <1>8, <1>10 DEF Waits, PacketLength
    <3>2. Len(v) >= 5 => Uint16(v, 4) = Uint16(a, 4)
      BY <1>1, <1>6, SameLength
    <3> HIDE DEF n
    <3>3. CASE n + 1 >= 7
      <4>1. Len(v) >= 7 /\ Len(v) >= 5
        BY <1>4, <1>6, <3>3
      <4>2. n + 1 <= (Len(a) - 5) + 4
        BY <1>1, <1>6, <3>1, <3>2, <4>1
      <4> QED
        BY <1>1, <1>4, <4>2
    <3>4. CASE ~ n + 1 >= 7
      BY <1>1, <1>4, <3>4
    <3> QED
      BY <3>3, <3>4
  <2>4. n + 1 < Len(a) /\ Parses(q, id) /\ Live(q) = v
    BY <1>10, <2>2, <2>3 DEF Parses
  <2> QED
    BY <2>4 DEF u, v, b
<1> QED
  BY <1>8, <1>9, <1>10

(* A parser that has the beginning of a packet takes it when it is there.   *)
Agrees(t, a) == \A j \in 1..Len(t) : j <= Len(a) => t[j] = a[j]

LEMMA TrackIs ==
  ASSUME NEW id \in Byte, NEW a, Whole(a, id), NEW p, Parses(p, id), NEW s \in Seq(Byte),
         Len(Live(p)) < Len(a), Agrees(Live(p) \o s, a),
         NEW f, f = ParseAll(p, id, s)
  PROVE  \/ Len(Live(p) \o s) < Len(a) /\ Parses(f, id) /\ Live(f) = Live(p) \o s
         \/ Len(Live(p) \o s) >= Len(a) /\ Done(f, id) /\ f.packet = a
<1> DEFINE u == Live(p)
           t == u \o s
           m == Len(u)
           n == Len(s)
<1>0. a \in Seq(Byte) /\ Len(a) \in Nat
  BY LenProperties DEF Whole
<1>1. u \in Seq(Byte)
  BY LiveIsBegun
<1>a. Len(u) < Len(a) /\ Agrees(t, a)
  OBVIOUS
<1> HIDE DEF u
<1>2. m \in Nat /\ n \in Nat
  BY <1>1, LenProperties
<1>3. IsJoin(t, u, s)
  BY <1>1, Joined
<1>4. /\ t \in Seq(Byte) /\ Len(t) = m + n
      /\ \A i \in 1..m : t[i] = u[i]
      /\ \A i \in 1..n : t[m + i] = s[i]
  BY <1>3 DEF IsJoin
<1>5. p \in Parsers(id)
  BY DEF Parsers, Parses, Waits, Refused, Parser
<1>6. PICK q \in [0..n -> Parsers(id)] :
         /\ q[0] = p
         /\ \A k \in 1..n : q[k] = ParseNext(q[k - 1], id, s[k])
         /\ ParseAll(p, id, s) = q[n]
  BY <1>5, ParseSteps
<1> DEFINE Ok(k) == \/ /\ m + k < Len(a) /\ Parses(q[k], id)
                       /\ Len(Live(q[k])) = m + k /\ Begins(Live(q[k]), a)
                    \/ m + k >= Len(a) /\ Done(q[k], id) /\ q[k].packet = a
           I == {k \in Nat : k <= n => Ok(k)}
<1> HIDE DEF t, m, n
<1>7. 0 \in I
  <2>1. Live(q[0]) = u /\ m + 0 = m /\ Len(u) = m
    BY <1>2, <1>6 DEF u, m
  <2>2. ASSUME NEW j \in 1..m PROVE u[j] = a[j]
    <3>1. j \in 1..Len(t) /\ j <= Len(a)
      BY <1>0, <1>2, <1>4, <1>a, <2>1
    <3> QED
      BY <1>4, <1>a, <3>1 DEF Agrees
  <2>3. Begins(u, a)
    BY <1>0, <1>2, <1>a, <2>1, <2>2 DEF Begins
  <2>4. m + 0 < Len(a)
    BY <1>a, <2>1
  <2> QED
    BY <1>6, <2>1, <2>3, <2>4
<1>8. ASSUME NEW k \in Nat, k \in I PROVE k + 1 \in I
  <2>1. SUFFICES ASSUME k + 1 <= n PROVE Ok(k + 1)
    OBVIOUS
  <2>2. Ok(k) /\ k + 1 \in 1..n /\ (k + 1) - 1 = k
    BY <1>2, <1>8, <2>1
  <2>3. q[k + 1] = ParseNext(q[k], id, s[k + 1]) /\ s[k + 1] = t[m + (k + 1)]
    BY <1>4, <1>6, <2>2
  <2>4. CASE /\ m + k < Len(a) /\ Parses(q[k], id)
             /\ Len(Live(q[k])) = m + k /\ Begins(Live(q[k]), a)
    <3> DEFINE v == Live(q[k])
               b == a[Len(v) + 1]
    <3>1. Len(v) + 1 = m + (k + 1) /\ m + (k + 1) \in 1..Len(t) /\ m + (k + 1) <= Len(a)
      <4>1. Len(v) = m + k /\ m + k < Len(a)
        BY <2>4
      <4> HIDE DEF v
      <4>2. m \in Nat /\ k \in Nat /\ n \in Nat /\ k + 1 <= n /\ Len(t) = m + n /\ Len(a) \in Nat
        BY <1>0, <1>2, <1>4, <1>8, <2>1
      <4> QED
        BY ONLY <4>1, <4>2
    <3>2. q[k + 1] = ParseNext(q[k], id, b)
      BY <1>a, <2>3, <3>1 DEF Agrees
    <3>3. \/ Len(v) + 1 < Len(a) /\ Parses(q[k + 1], id) /\ Live(q[k + 1]) = Append(v, b)
          \/ Len(v) + 1 = Len(a) /\ Done(q[k + 1], id) /\ q[k + 1].packet = a
      BY <2>4, <3>2, TrackStep
    <3>4. Len(Append(v, b)) = Len(v) + 1 /\ Begins(Append(v, b), a)
      <4>1. v \in Seq(Byte)
        BY <2>4, LiveIsBegun
      <4>2. Len(v) < Len(a)
        BY <2>4
      <4> HIDE DEF v
      <4> QED
        BY <1>0, <2>4, <4>1, <4>2, BeginsOneMore DEF v
    <3> HIDE DEF v, b
    <3>5. CASE Len(v) + 1 < Len(a) /\ Parses(q[k + 1], id) /\ Live(q[k + 1]) = Append(v, b)
      BY <3>1, <3>4, <3>5
    <3>6. CASE Len(v) + 1 = Len(a) /\ Done(q[k + 1], id) /\ q[k + 1].packet = a
      <4>1. m + (k + 1) >= Len(a)
        BY <1>0, <3>1, <3>6
      <4> QED
        BY <3>6, <4>1
    <3> QED
      BY <3>3, <3>5, <3>6
  <2>5. CASE m + k >= Len(a) /\ Done(q[k], id) /\ q[k].packet = a
    <3>1. q[k + 1] = q[k]
      BY <2>3, <2>5 DEF ParseNext, Done
    <3>2. m + (k + 1) >= Len(a)
      BY <1>0, <1>2, <2>5
    <3> QED
      BY <2>5, <3>1, <3>2
  <2> QED
    BY <2>2, <2>4, <2>5
<1>9. Nat \subseteq I
  <2> HIDE DEF I
  <2> QED
    BY <1>7, <1>8, Induction
<1>10. Ok(n)
  <2>1. n \in I /\ n <= n
    BY <1>2, <1>9
  <2> QED
    BY <2>1
<1>11. f = q[n] /\ Len(t) = m + n
  BY <1>4, <1>6
<1>12. CASE m + n < Len(a) /\ Parses(f, id) /\ Len(Live(f)) = m + n /\ Begins(Live(f), a)
  <2> DEFINE v == Live(f)
  <2>1. v \in Seq(Byte)
    BY <1>12, LiveIsBegun
  <2>2. Len(v) = Len(t) /\ Begins(v, a) /\ Len(v) \in Nat /\ Len(v) < Len(a)
    BY <1>2, <1>11, <1>12
  <2> HIDE DEF v
  <2>3. ASSUME NEW j \in 1..Len(v) PROVE v[j] = t[j]
    <3>1. v[j] = a[j]
      BY <2>2 DEF Begins
    <3>2. j \in 1..Len(t) /\ j <= Len(a)
      BY <1>0, <2>2
    <3>3. t[j] = a[j]
      BY <1>a, <3>2 DEF Agrees
    <3> QED
      BY <3>1, <3>3
  <2>4. v \in Seq(Byte) /\ t \in Seq(Byte) /\ Len(v) = Len(t) /\ \A j \in 1..Len(v) : v[j] = t[j]
    BY <1>4, <2>1, <2>2, <2>3
  <2>5. v = t
    BY <2>4, SeqEqual
  <2>6. Len(t) < Len(a) /\ Parses(f, id) /\ v = t
    BY <1>11, <1>12, <2>5
  <2> QED
    BY <2>6 DEF t, u, v
<1>13. CASE m + n >= Len(a) /\ Done(f, id) /\ f.packet = a
  <2>1. Len(t) >= Len(a) /\ Done(f, id) /\ f.packet = a
    BY <1>11, <1>13
  <2> QED
    BY <2>1 DEF t, u
<1> QED
  BY <1>10, <1>11, <1>12, <1>13

-----------------------------------------------------------------------------
(* The faults of the line: no whole packet is found in a damaged one, nor  *)
(* another one with a byte or another node's packet before it.              *)

LEMMA WithoutIs ==
  ASSUME NEW s \in Seq(Byte), NEW k \in 1..Len(s)
  PROVE  /\ Without(s, k) \in Seq(Byte) /\ Len(Without(s, k)) = Len(s) - 1
         /\ \A j \in 1..Len(s) - 1 : Without(s, k)[j] = IF j < k THEN s[j] ELSE s[j + 1]
<1> DEFINE n == Len(s)
           x == SubSeq(s, 1, k - 1)
           y == SubSeq(s, k + 1, n)
           r == x \o y
<1>1. n \in Nat /\ 0 \in Nat /\ k \in Nat /\ k - 1 \in Nat /\ 0 <= k - 1 /\ k - 1 <= n /\ k <= n /\ n <= n
      /\ 0 + 1 = 1 /\ (k - 1) - 0 = k - 1
  BY LenProperties
<1>2. x \in Seq(Byte) /\ Len(x) = k - 1 /\ \A i \in 1..k - 1 : x[i] = s[i]
  <2> DEFINE m == k - 1
             z == SubSeq(s, 0 + 1, m)
  <2>1. m \in Nat /\ 0 <= m /\ m <= Len(s) /\ m - 0 = m
    BY <1>1
  <2> HIDE DEF m
  <2>2. z \in Seq(Byte) /\ Len(z) = m - 0 /\ \A i \in 1..m - 0 : z[i] = s[0 + i]
    BY <1>1, <2>1, Slice
  <2>3. z = x
    BY <1>1 DEF m
  <2> HIDE DEF z, x
  <2>4. \A i \in 1..m : 0 + i = i
    BY <2>1
  <2> QED
    BY <2>1, <2>2, <2>3, <2>4 DEF m
<1>3. y \in Seq(Byte) /\ Len(y) = n - k /\ \A i \in 1..n - k : y[i] = s[k + i]
  BY <1>1, Slice
<1> HIDE DEF x, y
<1>4. IsJoin(r, x, y)
  BY <1>2, <1>3, Joined
<1>5. /\ r \in Seq(Byte) /\ Len(r) = Len(x) + Len(y)
      /\ \A i \in 1..Len(x) : r[i] = x[i]
      /\ \A i \in 1..Len(y) : r[Len(x) + i] = y[i]
  BY <1>4 DEF IsJoin
<1> HIDE DEF r, n
<1>6. Len(r) = n - 1
  BY <1>1, <1>2, <1>3, <1>5
<1>7. ASSUME NEW j \in 1..n - 1 PROVE r[j] = IF j < k THEN s[j] ELSE s[j + 1]
  <2>1. CASE j < k
    <3>1. j \in 1..k - 1
      BY <1>1, <2>1
    <3> QED
      BY <1>2, <1>5, <2>1, <3>1
  <2>2. CASE ~ (j < k)
    <3> DEFINE i == j - (k - 1)
    <3>1. i \in 1..n - k /\ (k - 1) + i = j /\ k + i = j + 1
      BY <1>1, <2>2
    <3> HIDE DEF i
    <3>2. y[i] = s[k + i]
      BY ONLY <1>3, <3>1
    <3>3. r[Len(x) + i] = y[i]
      BY ONLY <1>3, <1>5, <3>1
    <3>4. Len(x) = k - 1
      BY <1>2
    <3>5. r[j] = s[j + 1]
      BY ONLY <3>1, <3>2, <3>3, <3>4
    <3> QED
      BY <2>2, <3>5
  <2> QED
    BY <2>1, <2>2
<1>8. Without(s, k) = r
  BY DEF Without, r, x, y, n
<1> QED
  BY <1>5, <1>6, <1>7, <1>8 DEF n

-----------------------------------------------------------------------------
(* What may be taken for a packet in the bytes t. *)

NoWindow(t) == \A p : Whole(p, Id) => ~ Window(p, t)
Harmless(t, a) == \A p : Whole(p, Id) /\ Window(p, t) => p = a
AtEnd(t, a) == \A p : \A c \in Nat :
                 Whole(p, Id) /\ c <= Len(t) /\ Ends(p, t, c) => p = a /\ c = Len(t)

LEMMA EndsOfSuffix ==
  ASSUME NEW p \in Seq(Byte), NEW u \in Seq(Byte), NEW t \in Seq(Byte), Suffix(u, t),
         NEW c \in Nat, c <= Len(u), Ends(p, u, c)
  PROVE  \E d \in Nat : d = Len(t) - Len(u) + c /\ d <= Len(t) /\ Ends(p, t, d)
<1>1. Len(p) \in Nat /\ Len(u) \in Nat /\ Len(t) \in Nat
  BY LenProperties
<1>3. Len(u) <= Len(t) /\ \A j \in 1..Len(u) : u[j] = t[Len(t) - Len(u) + j]
  BY DEF Suffix, Ends
<1>4. Len(p) <= c /\ \A j \in 1..Len(p) : p[j] = u[c - Len(p) + j]
  BY DEF Ends
<1> DEFINE d == Len(t) - Len(u) + c
<1>5. d \in Nat /\ d <= Len(t) /\ Len(p) <= d
  BY <1>1, <1>3, <1>4
<1>6. ASSUME NEW j \in 1..Len(p) PROVE p[j] = t[d - Len(p) + j]
  <2> DEFINE i == c - Len(p) + j
  <2>1. i \in 1..Len(u) /\ Len(t) - Len(u) + i = d - Len(p) + j
    BY <1>1, <1>3, <1>4
  <2> HIDE DEF i
  <2>2. p[j] = u[i]
    BY <1>4 DEF i
  <2> QED
    BY <1>3, <2>1, <2>2
<1>7. Ends(p, t, d)
  BY <1>5, <1>6 DEF Ends
<1> QED
  BY <1>5, <1>7

LEMMA HarmlessSuffix ==
  ASSUME NEW u \in Seq(Byte), NEW t \in Seq(Byte), Suffix(u, t)
  PROVE  /\ NoWindow(t) => NoWindow(u)
         /\ \A a : Harmless(t, a) => Harmless(u, a)
         /\ \A a : AtEnd(t, a) => AtEnd(u, a)
<1>1. ASSUME NEW p, Whole(p, Id), Window(p, u) PROVE Window(p, t)
  <2>1. p \in Seq(Byte)
    BY <1>1 DEF Whole
  <2>2. PICK c \in Nat : c <= Len(u) /\ Ends(p, u, c)
    BY <1>1 DEF Window
  <2>3. \E d \in Nat : d <= Len(t) /\ Ends(p, t, d)
    BY <2>1, <2>2, EndsOfSuffix
  <2> QED
    BY <2>3 DEF Window
<1>2. ASSUME NEW a, AtEnd(t, a), NEW p, NEW c \in Nat, Whole(p, Id), c <= Len(u), Ends(p, u, c)
      PROVE  p = a /\ c = Len(u)
  <2>1. p \in Seq(Byte)
    BY <1>2 DEF Whole
  <2>2. PICK d \in Nat : d = Len(t) - Len(u) + c /\ d <= Len(t) /\ Ends(p, t, d)
    BY <1>2, <2>1, EndsOfSuffix
  <2>3. p = a /\ d = Len(t)
    BY <1>2, <2>2 DEF AtEnd
  <2>4. Len(u) \in Nat /\ Len(t) \in Nat
    BY LenProperties
  <2> QED
    BY <2>2, <2>3, <2>4
<1>3. \A a : AtEnd(t, a) => AtEnd(u, a)
  BY <1>2 DEF AtEnd
<1> QED
  BY <1>1, <1>3 DEF NoWindow, Harmless

LEMMA WindowAt ==
  ASSUME NEW t \in Seq(Byte), NEW p, Whole(p, Id), NEW c \in Nat, c <= Len(t), Ends(p, t, c)
  PROVE  \E i \in Nat :
           /\ Len(p) \in Nat /\ Len(p) >= 8 /\ i + Len(p) = c
           /\ t[i + 1] = 170 /\ t[i + 2] = 85 /\ t[i + 3] = 11
           /\ t[i + 4] + 256 * t[i + 5] = Len(p) - 5
           /\ \A j \in 1..Len(p) : p[j] = t[i + j]
<1> DEFINE n == Len(p)
<1>1. /\ n \in Nat /\ n >= 8
      /\ p[1] = 170 /\ p[2] = 85 /\ p[3] = 11
      /\ Uint16(p, 4) = n - 5
  BY LenProperties DEF Whole, kHeader1, kHeader2, Id
<1>3. n <= c /\ \A j \in 1..n : p[j] = t[c - n + j]
  BY DEF Ends
<1> HIDE DEF n
<1> DEFINE i == c - n
<1>4. i \in Nat /\ i + n = c
  BY <1>1, <1>3
<1> HIDE DEF i
<1>5. \A j \in 1..n : p[j] = t[i + j]
  BY <1>3 DEF i
<1>6. 1 \in 1..n /\ 2 \in 1..n /\ 3 \in 1..n /\ 4 \in 1..n /\ 5 \in 1..n /\ 4 + 1 = 5
  BY <1>1
<1>7. t[i + 1] = 170 /\ t[i + 2] = 85 /\ t[i + 3] = 11 /\ t[i + 4] = p[4] /\ t[i + 5] = p[5]
  BY <1>1, <1>5, <1>6
<1>8. t[i + 4] + 256 * t[i + 5] = n - 5
  BY <1>1, <1>6, <1>7 DEF Uint16
<1> QED
  BY <1>1, <1>4, <1>5, <1>7, <1>8 DEF n

LEMMA WindowStart ==
  ASSUME NEW t \in Seq(Byte), NEW p, Whole(p, Id), Window(p, t)
  PROVE  \E i \in Nat :
           /\ Len(p) \in Nat /\ Len(p) >= 8 /\ i + Len(p) <= Len(t)
           /\ t[i + 1] = 170 /\ t[i + 2] = 85 /\ t[i + 3] = 11
           /\ t[i + 4] + 256 * t[i + 5] = Len(p) - 5
           /\ \A j \in 1..Len(p) : p[j] = t[i + j]
<1>1. PICK c \in Nat : c <= Len(t) /\ Ends(p, t, c)
  BY DEF Window
<1> QED
  BY <1>1, WindowAt

(* The answers of the servo. *)
Short(a) == Whole(a, Id) /\ Len(a) <= 11

LEMMA ShortIs ==
  ASSUME NEW a, Short(a)
  PROVE  /\ a \in Seq(Byte) /\ Len(a) \in Nat /\ Len(a) >= 8 /\ Len(a) <= 11
         /\ a[1] = 170 /\ a[2] = 85 /\ a[3] = 11 /\ a[4] = Len(a) - 5 /\ a[5] = 0
         /\ \A j \in 1..Len(a) : a[j] \in 0..255
<1> DEFINE n == Len(a)
           x == a[4]
           y == a[5]
<1>1. /\ a \in Seq(Byte) /\ n \in Nat /\ n >= 8 /\ n <= 11
      /\ a[1] = 170 /\ a[2] = 85 /\ a[3] = 11
      /\ Uint16(a, 4) = n - 5
  BY LenProperties DEF Short, Whole, kHeader1, kHeader2, Id
<1>2. \A j \in 1..n : a[j] \in 0..255
  <2>1. a \in Seq(Byte)
    BY <1>1
  <2> QED
    BY ONLY <2>1, ElementOfSeq DEF Byte
<1>3. 4 \in 1..n /\ 5 \in 1..n /\ 4 + 1 = 5
  <2> HIDE DEF n
  <2> QED
    BY <1>1
<1>4. x + 256 * y = n - 5 /\ x \in 0..255 /\ y \in 0..255
  BY <1>1, <1>2, <1>3 DEF Uint16
<1> HIDE DEF x, y, n
<1>5. y = 0 /\ x = n - 5
  BY <1>1, <1>4
<1> QED
  BY <1>1, <1>2, <1>5 DEF x, y, n

(* An answer with a byte changed.                                           *)
Changed(a, k) == [a EXCEPT ![k] = (a[k] + 1) % 256]

LEMMA ChangedChecksum ==
  ASSUME NEW a, Short(a), NEW k \in 6..Len(a)
  PROVE  Changed(a, k)[Len(a)] # Checksum(SubSeq(Changed(a, k), 3, Len(a) - 1))
<1> DEFINE n == Len(a)
           t == Changed(a, k)
           m == n - 1
           x == SubSeq(a, 2 + 1, m)
           y == SubSeq(t, 2 + 1, m)
           b == (a[k] + 1) % 256
<1>1. a \in Seq(Byte) /\ n \in Nat /\ n >= 8 /\ \A j \in 1..n : a[j] \in 0..255
  BY ShortIs
<1>2. b \in Byte /\ b # a[k] /\ a[k] \in 0..255 /\ k \in 1..n /\ k \in Nat /\ k >= 6
  <2>1. k \in 1..n /\ k \in Nat /\ k >= 6
    <3>1. k \in 6..n
      OBVIOUS
    <3> HIDE DEF n
    <3> QED
      BY <1>1, <3>1
  <2> DEFINE z == a[k]
  <2>2. z \in 0..255
    BY <1>1, <2>1
  <2> HIDE DEF z
  <2>3. (z + 1) % 256 \in 0..255 /\ (z + 1) % 256 # z
    BY <2>2
  <2> QED
    BY <2>1, <2>2, <2>3 DEF Byte, z
<1> HIDE DEF b
<1>3. t = [a EXCEPT ![k] = b]
  BY DEF b, Changed
<1>4. /\ t \in Seq(Byte) /\ Len(t) = n
      /\ \A j \in 1..n : t[j] = IF j = k THEN b ELSE a[j]
  BY <1>1, <1>2, <1>3, ExceptSeq
<1> HIDE DEF n
<1>5. 2 \in Nat /\ m \in Nat /\ 2 <= m /\ m <= n /\ 2 + 1 = 3 /\ m - 2 \in Nat /\ n \in 1..n /\ m < n
  BY <1>1
<1>6. m <= Len(a) /\ m <= Len(t)
  BY <1>4, <1>5 DEF n
<1> HIDE DEF m
<1>7. x \in Seq(Byte) /\ Len(x) = m - 2 /\ \A i \in 1..m - 2 : x[i] = a[2 + i]
  BY <1>1, <1>5, <1>6, Slice
<1>8. y \in Seq(Byte) /\ Len(y) = m - 2 /\ \A i \in 1..m - 2 : y[i] = t[2 + i]
  BY <1>4, <1>5, <1>6, Slice
<1>9. a[n] = Checksum(x)
  <2>1. a[Len(a)] = Checksum(SubSeq(a, 3, Len(a) - 1))
    BY DEF Short, Whole
  <2>2. SubSeq(a, 3, Len(a) - 1) = x
    BY <1>5 DEF m, n
  <2> HIDE DEF x
  <2> QED
    BY <2>1, <2>2 DEF n
<1> HIDE DEF t
<1> DEFINE z == SubSeq(t, 3, Len(a) - 1)
<1>10. y = z
  BY <1>5 DEF m, n
<1> HIDE DEF x, y, z
<1>11. t[n] # Checksum(y)
  <2>1. CASE k = n
    <3>1. t[n] = b /\ b # a[n]
      BY <1>2, <1>4, <1>5, <2>1
    <3>2. ASSUME NEW i \in 1..m - 2 PROVE y[i] = x[i]
      <4>1. 2 + i \in 1..n /\ 2 + i # n
        BY <1>5 DEF m
      <4> QED
        BY <1>4, <1>7, <1>8, <2>1, <4>1
    <3>3. y \in Seq(Byte) /\ x \in Seq(Byte) /\ Len(y) = Len(x) /\ \A i \in 1..Len(y) : y[i] = x[i]
      BY <1>7, <1>8, <3>2
    <3>4. y = x
      BY <3>3, SeqEqual
    <3> QED
      BY <1>9, <3>1, <3>4
  <2>2. CASE k # n
    <3> DEFINE i0 == k - 2
    <3>1. i0 \in 1..m - 2 /\ 2 + i0 = k
      BY <1>2, <1>5, <2>2 DEF m
    <3> HIDE DEF i0
    <3>2. x[i0] = a[k] /\ i0 \in 1..Len(x)
      BY <1>7, <3>1
    <3> DEFINE w == [x EXCEPT ![i0] = b]
    <3>3. w \in Seq(Byte) /\ Len(w) = Len(x) /\ \A i \in 1..Len(x) : w[i] = IF i = i0 THEN b ELSE x[i]
      BY <1>2, <1>7, <3>2, ExceptSeq
    <3>4. b = (x[i0] + 1) % 256
      BY <3>2 DEF b
    <3>5. Checksum(w) # Checksum(x)
      BY <1>7, <3>2, <3>4, ChecksumTells
    <3> HIDE DEF w
    <3>6. ASSUME NEW i \in 1..m - 2 PROVE y[i] = w[i]
      <4>1. 2 + i \in 1..n /\ (2 + i = k <=> i = i0)
        BY <1>5, <3>1 DEF m
      <4> QED
        BY <1>4, <1>7, <1>8, <3>3, <4>1
    <3>7. y \in Seq(Byte) /\ w \in Seq(Byte) /\ Len(y) = Len(w) /\ \A i \in 1..Len(y) : y[i] = w[i]
      BY <1>7, <1>8, <3>3, <3>6
    <3>8. y = w
      BY <3>7, SeqEqual
    <3>9. t[n] = a[n]
      BY <1>4, <1>5, <2>2
    <3> QED
      BY <1>9, <3>5, <3>8, <3>9
  <2> QED
    BY <2>1, <2>2
<1>12. t[n] # Checksum(z)
  BY <1>10, <1>11
<1> QED
  BY <1>12 DEF n, t, z

LEMMA ChangedIsLost ==
  ASSUME NEW a, Short(a), NEW k \in 1..Len(a)
  PROVE  Changed(a, k) \in Seq(Byte) /\ NoWindow(Changed(a, k))
<1> DEFINE n == Len(a)
           t == Changed(a, k)
           b == (a[k] + 1) % 256
<1>1. /\ a \in Seq(Byte) /\ n \in Nat /\ n >= 8 /\ n <= 11
      /\ a[1] = 170 /\ a[2] = 85 /\ a[3] = 11 /\ a[4] = n - 5 /\ a[5] = 0
      /\ \A j \in 1..n : a[j] \in 0..255
  BY ShortIs
<1>2. b \in Byte
  <2> DEFINE z == a[k]
  <2>1. z \in 0..255
    BY <1>1
  <2> HIDE DEF z
  <2>2. (z + 1) % 256 \in 0..255
    BY <2>1
  <2> QED
    BY <2>2 DEF Byte, z
<1>3. /\ t \in Seq(Byte) /\ Len(t) = n
      /\ \A j \in 1..n : t[j] = IF j = k THEN b ELSE a[j]
  <2> HIDE DEF b
  <2>1. t = [a EXCEPT ![k] = b]
    BY DEF b, Changed
  <2> QED
    BY <1>1, <1>2, <2>1, ExceptSeq
<1>4. b = (a[k] + 1) % 256
  OBVIOUS
<1>5. 1 \in 1..n /\ 2 \in 1..n /\ 3 \in 1..n /\ 4 \in 1..n /\ 5 \in 1..n /\ n \in 1..n
  <2> HIDE DEF n
  <2> QED
    BY <1>1
<1> HIDE DEF b, t
<1>6. /\ t[1] = IF k = 1 THEN 171 ELSE 170
      /\ t[2] = IF k = 2 THEN 86 ELSE 85
      /\ t[3] = IF k = 3 THEN 12 ELSE 11
  <2>1. (170 + 1) % 256 = 171 /\ (85 + 1) % 256 = 86 /\ (11 + 1) % 256 = 12
    OBVIOUS
  <2> QED
    BY <1>1, <1>3, <1>4, <1>5, <2>1
<1>7. /\ t[4] = IF k = 4 THEN n - 4 ELSE n - 5
      /\ t[5] = IF k = 5 THEN 1 ELSE 0
  <2> HIDE DEF n
  <2>1. (0 + 1) % 256 = 1 /\ ((n - 5) + 1) % 256 = n - 4
    <3>1. n = 8 \/ n = 9 \/ n = 10 \/ n = 11
      BY <1>1
    <3>2. 4 % 256 = 4 /\ 5 % 256 = 5 /\ 6 % 256 = 6 /\ 7 % 256 = 7 /\ 1 % 256 = 1
      OBVIOUS
    <3> QED
      BY <3>1, <3>2
  <2>2. t[4] = (IF 4 = k THEN b ELSE a[4]) /\ t[5] = (IF 5 = k THEN b ELSE a[5])
    BY ONLY <1>3, <1>5
  <2>3. a[4] = n - 5 /\ a[5] = 0
    BY <1>1
  <2>4. t[4] = IF k = 4 THEN n - 4 ELSE n - 5
    BY ONLY <1>4, <2>1, <2>2, <2>3
  <2>5. t[5] = IF k = 5 THEN 1 ELSE 0
    BY ONLY <1>4, <2>1, <2>2, <2>3
  <2> QED
    BY <2>4, <2>5
<1> SUFFICES ASSUME NEW p, Whole(p, Id), Window(p, t) PROVE FALSE
  BY <1>3 DEF NoWindow, t
<1> HIDE DEF n
<1>a. PICK i \in Nat : /\ Len(p) \in Nat /\ Len(p) >= 8 /\ i + Len(p) <= Len(t)
                       /\ t[i + 1] = 170 /\ t[i + 2] = 85 /\ t[i + 3] = 11
                       /\ t[i + 4] + 256 * t[i + 5] = Len(p) - 5
                       /\ \A j \in 1..Len(p) : p[j] = t[i + j]
  <2>1. t \in Seq(Byte)
    BY <1>3
  <2> QED
    BY <2>1, WindowStart
<1> DEFINE l == Len(p)
<1>8. /\ l \in Nat /\ l >= 8 /\ i + l <= Len(t)
      /\ t[i + 1] = 170 /\ t[i + 2] = 85 /\ t[i + 3] = 11
      /\ t[i + 4] + 256 * t[i + 5] = l - 5
      /\ \A j \in 1..l : p[j] = t[i + j]
  BY <1>a
<1> HIDE DEF l
<1>9. i = 0
  <2>1. i \in 0..3
    BY <1>1, <1>3, <1>8
  <2>2. i # 1
    <3>1. SUFFICES ASSUME i = 1 PROVE FALSE
      OBVIOUS
    <3>2. t[2] = 170
      BY <1>8, <3>1
    <3> QED
      BY <1>6, <3>2
  <2>3. i # 2
    <3>1. SUFFICES ASSUME i = 2 PROVE FALSE
      OBVIOUS
    <3>2. t[3] = 170
      BY <1>8, <3>1
    <3> QED
      BY <1>6, <3>2
  <2>4. i # 3
    <3>1. SUFFICES ASSUME i = 3 PROVE FALSE
      OBVIOUS
    <3>2. 3 + 1 = 4 /\ t[4] # 170
      BY <1>1, <1>7
    <3>3. t[i + 1] = 170
      BY <1>8
    <3> QED
      BY ONLY <3>1, <3>2, <3>3
  <2> QED
    BY <2>1, <2>2, <2>3, <2>4
<1>10. t[1] = 170 /\ t[2] = 85 /\ t[3] = 11 /\ t[4] + 256 * t[5] = l - 5 /\ \A j \in 1..l : p[j] = t[j]
  <2>1. 0 + 1 = 1 /\ 0 + 2 = 2 /\ 0 + 3 = 3 /\ 0 + 4 = 4 /\ 0 + 5 = 5 /\ \A j \in 1..l : 0 + j = j
    BY <1>8
  <2> QED
    BY <1>8, <1>9, <2>1
<1>11. k # 1 /\ k # 2 /\ k # 3
  BY <1>6, <1>10
<1>12. k # 4 /\ k # 5 /\ l = n
  <2>1. l <= n
    BY <1>3, <1>8, <1>9
  <2> DEFINE x == t[4]
             y == t[5]
  <2>2. /\ x = (IF k = 4 THEN n - 4 ELSE n - 5) /\ y = (IF k = 5 THEN 1 ELSE 0)
        /\ x + 256 * y = l - 5
    BY <1>7, <1>10
  <2> HIDE DEF x, y
  <2> QED
    BY <1>1, <1>8, <2>1, <2>2
<1>13. p = t
  <2>1. p \in Seq(Byte) /\ t \in Seq(Byte) /\ Len(p) = Len(t) /\ \A j \in 1..Len(p) : p[j] = t[j]
    BY <1>3, <1>10, <1>12 DEF Whole, l
  <2> QED
    BY <2>1, SeqEqual
<1>14. t[n] = Checksum(SubSeq(t, 3, n - 1))
  <2>1. Len(p) = n
    BY <1>12 DEF l
  <2> QED
    BY <1>13, <2>1 DEF Whole
<1>15. k \in 6..Len(a)
  BY <1>1, <1>11, <1>12 DEF n
<1>16. t[n] # Checksum(SubSeq(t, 3, n - 1))
  BY <1>15, ChangedChecksum DEF n, t
<1> QED
  BY <1>14, <1>16

(* An answer that lacks a byte.                                             *)
LEMMA ShortenedIsLost ==
  ASSUME NEW a, Short(a), NEW k \in 1..Len(a)
  PROVE  Without(a, k) \in Seq(Byte) /\ NoWindow(Without(a, k))
<1> DEFINE n == Len(a)
           t == Without(a, k)
<1>1. /\ a \in Seq(Byte) /\ n \in Nat /\ n >= 8 /\ n <= 11
      /\ a[1] = 170 /\ a[2] = 85 /\ a[3] = 11 /\ a[4] = n - 5 /\ a[5] = 0
      /\ \A j \in 1..n : a[j] \in 0..255
  BY ShortIs
<1>2. /\ t \in Seq(Byte) /\ Len(t) = n - 1
      /\ \A j \in 1..n - 1 : t[j] = IF j < k THEN a[j] ELSE a[j + 1]
  BY <1>1, WithoutIs
<1> HIDE DEF t, n
<1>3. 1 \in 1..n - 1 /\ 2 \in 1..n - 1 /\ 3 \in 1..n - 1 /\ 4 \in 1..n - 1 /\ 5 \in 1..n - 1 /\ 6 \in 1..n
      /\ 1 + 1 = 2 /\ 2 + 1 = 3 /\ 3 + 1 = 4 /\ 4 + 1 = 5 /\ 5 + 1 = 6
  BY <1>1
<1>4. k \in 1..n
  BY DEF n
<1>5. /\ t[1] = (IF k = 1 THEN 85 ELSE 170)
      /\ t[2] = (IF k <= 2 THEN 11 ELSE 85)
      /\ t[3] = (IF k <= 3 THEN n - 5 ELSE 11)
      /\ t[4] = (IF k <= 4 THEN 0 ELSE n - 5)
      /\ t[5] = (IF k <= 5 THEN a[6] ELSE 0)
  <2>1. 1 < k <=> k # 1
    BY <1>4
  <2>2. (2 < k <=> ~ (k <= 2)) /\ (3 < k <=> ~ (k <= 3)) /\ (4 < k <=> ~ (k <= 4)) /\ (5 < k <=> ~ (k <= 5))
    BY <1>4
  <2>3. t[1] = (IF 1 < k THEN a[1] ELSE a[2]) /\ t[2] = (IF 2 < k THEN a[2] ELSE a[3])
    BY <1>2, <1>3
  <2>4. t[3] = (IF 3 < k THEN a[3] ELSE a[4]) /\ t[4] = (IF 4 < k THEN a[4] ELSE a[5])
    BY <1>2, <1>3
  <2>5. t[5] = (IF 5 < k THEN a[5] ELSE a[6])
    BY <1>2, <1>3
  <2> QED
    BY <1>1, <2>1, <2>2, <2>3, <2>4, <2>5
<1> SUFFICES ASSUME NEW p, Whole(p, Id), Window(p, t) PROVE FALSE
  BY <1>2 DEF NoWindow, t
<1>a. PICK i \in Nat : /\ Len(p) \in Nat /\ Len(p) >= 8 /\ i + Len(p) <= Len(t)
                       /\ t[i + 1] = 170 /\ t[i + 2] = 85 /\ t[i + 3] = 11
                       /\ t[i + 4] + 256 * t[i + 5] = Len(p) - 5
                       /\ \A j \in 1..Len(p) : p[j] = t[i + j]
  <2>1. t \in Seq(Byte)
    BY <1>2
  <2> QED
    BY <2>1, WindowStart
<1> DEFINE l == Len(p)
<1>6. /\ l \in Nat /\ l >= 8 /\ i + l <= Len(t)
      /\ t[i + 1] = 170 /\ t[i + 2] = 85 /\ t[i + 3] = 11
      /\ t[i + 4] + 256 * t[i + 5] = l - 5
  BY <1>a
<1> HIDE DEF l
<1>7. i = 0
  <2>1. i \in 0..2
    BY <1>1, <1>2, <1>6
  <2>2. i # 1
    <3>1. SUFFICES ASSUME i = 1 PROVE FALSE
      OBVIOUS
    <3>2. t[1 + 1] = 170 /\ t[1 + 2] = 85
      BY <1>6, <3>1
    <3>3. t[2] = (IF k <= 2 THEN 11 ELSE 85)
      BY <1>5
    <3> QED
      BY ONLY <1>3, <3>2, <3>3
  <2>3. i # 2
    <3>1. t[3] # 170
      BY <1>1, <1>5
    <3> QED
      BY <1>3, <1>6, <3>1
  <2> QED
    BY <2>1, <2>2, <2>3
<1>8. t[1] = 170 /\ t[2] = 85 /\ t[3] = 11 /\ t[4] + 256 * t[5] = l - 5 /\ l <= n - 1
  <2>1. 0 + 1 = 1 /\ 0 + 2 = 2 /\ 0 + 3 = 3 /\ 0 + 4 = 4 /\ 0 + 5 = 5 /\ 0 + l = l
    BY <1>6
  <2> QED
    BY <1>2, <1>6, <1>7, <2>1
<1> DEFINE x == t[4]
           y == t[5]
           z == a[6]
<1>9. /\ x = (IF k <= 4 THEN 0 ELSE n - 5) /\ y = (IF k <= 5 THEN z ELSE 0)
      /\ z \in 0..255 /\ x + 256 * y = l - 5
  BY <1>1, <1>3, <1>5, <1>8
<1>10. k # 1 /\ ~ (k <= 2) /\ ~ (k <= 3)
  BY <1>1, <1>5, <1>8
<1> HIDE DEF x, y, z
<1>11. CASE k <= 4
  <2>1. 256 * z = l - 5
    BY <1>4, <1>9, <1>11
  <2> QED
    BY <1>1, <1>6, <1>8, <1>9, <2>1
<1>12. CASE ~ (k <= 4) /\ k <= 5
  <2>1. (n - 5) + 256 * z = l - 5 /\ z \in Nat
    BY <1>9, <1>12
  <2>2. n \in Nat /\ l \in Nat /\ l <= n - 1
    BY <1>1, <1>6, <1>8
  <2> QED
    BY <2>1, <2>2
<1>13. CASE ~ (k <= 5)
  <2>1. n - 5 = l - 5
    BY <1>1, <1>4, <1>9, <1>13
  <2> QED
    BY <1>1, <1>6, <1>8, <2>1
<1> QED
  BY <1>4, <1>11, <1>12, <1>13

(* A byte or a packet of another node in front of an answer.                *)
LEMMA HeaderBefore ==
  ASSUME NEW a, Short(a), NEW t \in Seq(Byte), IsJoin(t, <<kHeader1>>, a)
  PROVE  AtEnd(t, a)
<1> DEFINE n == Len(a)
<1>1. /\ a \in Seq(Byte) /\ n \in Nat /\ n >= 8 /\ n <= 11
      /\ a[1] = 170 /\ a[2] = 85 /\ a[3] = 11 /\ a[4] = n - 5 /\ a[5] = 0
  BY ShortIs
<1> HIDE DEF n
<1> DEFINE h == <<kHeader1>>
<1>2. Len(h) = 1 /\ h[1] = 170
  BY DEF kHeader1
<1> HIDE DEF h
<1>3. /\ Len(t) = Len(h) + n
      /\ \A i \in 1..Len(h) : t[i] = h[i]
      /\ \A i \in 1..n : t[Len(h) + i] = a[i]
  BY DEF IsJoin, h, n
<1>4. Len(t) = 1 + n /\ t[1] = 170 /\ \A i \in 1..n : t[1 + i] = a[i]
  <2>1. 1 \in 1..1
    OBVIOUS
  <2> QED
    BY <1>2, <1>3, <2>1
<1>5. t[2] = 170 /\ t[3] = 85 /\ t[4] = 11 /\ t[5] = n - 5 /\ t[6] = 0
  <2>1. /\ 1 \in 1..n /\ 2 \in 1..n /\ 3 \in 1..n /\ 4 \in 1..n /\ 5 \in 1..n
        /\ 1 + 1 = 2 /\ 1 + 2 = 3 /\ 1 + 3 = 4 /\ 1 + 4 = 5 /\ 1 + 5 = 6
    BY <1>1
  <2>2. t[1 + 1] = a[1] /\ t[1 + 2] = a[2] /\ t[1 + 3] = a[3] /\ t[1 + 4] = a[4] /\ t[1 + 5] = a[5]
    <3>1. \A i \in 1..n : t[1 + i] = a[i]
      BY <1>4
    <3> QED
      BY <2>1, <3>1
  <2>3. t[2] = a[1] /\ t[3] = a[2] /\ t[4] = a[3] /\ t[5] = a[4] /\ t[6] = a[5]
    BY <2>2
  <2> QED
    BY <1>1, <2>3
<1> SUFFICES ASSUME NEW p, NEW c \in Nat, Whole(p, Id), c <= Len(t), Ends(p, t, c)
             PROVE  p = a /\ c = Len(t)
  BY DEF AtEnd
<1>6. PICK i \in Nat : /\ Len(p) \in Nat /\ Len(p) >= 8 /\ i + Len(p) = c
                       /\ t[i + 1] = 170 /\ t[i + 2] = 85 /\ t[i + 3] = 11
                       /\ t[i + 4] + 256 * t[i + 5] = Len(p) - 5
                       /\ \A j \in 1..Len(p) : p[j] = t[i + j]
  BY WindowAt
<1> DEFINE l == Len(p)
<1>7. /\ l \in Nat /\ l >= 8 /\ i + l = c /\ c <= 1 + n
      /\ t[i + 1] = 170 /\ t[i + 2] = 85 /\ t[i + 3] = 11
      /\ t[i + 4] + 256 * t[i + 5] = l - 5
      /\ \A j \in 1..l : p[j] = t[i + j]
  BY <1>4, <1>6
<1> HIDE DEF l
<1>8. i = 1
  <2>1. i \in 0..4
    BY <1>1, <1>7
  <2>2. i # 0
    <3>1. SUFFICES ASSUME i = 0 PROVE FALSE
      OBVIOUS
    <3>2. t[2] = 85
      BY <1>7, <3>1
    <3> QED
      BY <1>5, <3>2
  <2>3. i # 2
    <3>1. SUFFICES ASSUME i = 2 PROVE FALSE
      OBVIOUS
    <3>2. t[3] = 170
      BY <1>7, <3>1
    <3> QED
      BY <1>5, <3>2
  <2>4. i # 3
    <3>1. SUFFICES ASSUME i = 3 PROVE FALSE
      OBVIOUS
    <3>2. t[4] = 170
      BY <1>7, <3>1
    <3> QED
      BY <1>5, <3>2
  <2>5. i # 4
    <3>1. SUFFICES ASSUME i = 4 PROVE FALSE
      OBVIOUS
    <3>2. t[5] = 170
      BY <1>7, <3>1
    <3> QED
      BY <1>1, <1>5, <3>2
  <2> QED
    BY <2>1, <2>2, <2>3, <2>4, <2>5
<1>9. l = n
  <2>1. t[5] + 256 * t[6] = l - 5
    BY <1>7, <1>8
  <2>2. (n - 5) + 256 * 0 = l - 5
    BY <1>5, <2>1
  <2> QED
    BY <1>1, <1>7, <2>2
<1>10. \A j \in 1..l : p[j] = a[j]
  BY <1>4, <1>7, <1>8, <1>9
<1>11. p \in Seq(Byte) /\ a \in Seq(Byte) /\ Len(p) = Len(a) /\ \A j \in 1..Len(p) : p[j] = a[j]
  BY <1>1, <1>9, <1>10 DEF Whole, l, n
<1>12. c = Len(t)
  BY <1>1, <1>4, <1>7, <1>8, <1>9
<1>13. p = a
  BY <1>11, SeqEqual
<1> QED
  BY <1>12, <1>13

Other == StatusPacket(OtherId, 0, <<>>)

LEMMA OtherIs ==
  /\ Other \in Seq(Byte) /\ Len(Other) = 8
  /\ Other[1] = 170 /\ Other[2] = 85 /\ Other[3] = 12 /\ Other[4] = 3
  /\ Other[5] = 0 /\ Other[6] = 0 /\ Other[7] = 0
<1>1. /\ OtherId \in Byte /\ 0 \in Word /\ <<>> \in Seq(Byte)
      /\ Len(<<>>) = 0 /\ Len(<<>>) + 3 <= 65535
  BY DEF OtherId, Byte, Word
<1> DEFINE a == Other
           none == <<>>
<1>2. IsAnswer(a, OtherId, 0, none)
  <2>1. OtherId \in Byte /\ 0 \in Word /\ none \in Seq(Byte) /\ Len(none) + 3 <= 65535
    BY <1>1
  <2>2. a = StatusPacket(OtherId, 0, none)
    BY DEF Other
  <2> HIDE DEF a, none
  <2>3. IsAnswer(StatusPacket(OtherId, 0, none), OtherId, 0, none)
    BY <2>1, StatusPacketIs
  <2> QED
    BY <2>2, <2>3
<1> HIDE DEF a, none
<1>3. /\ Whole(a, OtherId) /\ Len(a) = 8 + Len(none)
      /\ a[4] = Low(Len(none) + 3) /\ a[5] = High(Len(none) + 3)
      /\ a[6] = Low(0) /\ a[7] = High(0)
  BY <1>2 DEF IsAnswer
<1>4. Len(none) = 0 /\ Len(none) + 3 = 3 /\ 8 + Len(none) = 8
  BY <1>1 DEF none
<1>5. Low(3) = 3 /\ High(3) = 0 /\ Low(0) = 0 /\ High(0) = 0
  BY DEF Low, High
<1>6. a \in Seq(Byte) /\ a[1] = 170 /\ a[2] = 85 /\ a[3] = 12
  BY <1>3 DEF Whole, kHeader1, kHeader2, OtherId
<1> QED
  BY <1>3, <1>4, <1>5, <1>6 DEF a

LEMMA OtherBefore ==
  ASSUME NEW a, Short(a), NEW t \in Seq(Byte), IsJoin(t, Other, a)
  PROVE  AtEnd(t, a)
<1> DEFINE n == Len(a)
           h == Other
<1>1. /\ a \in Seq(Byte) /\ n \in Nat /\ n >= 8 /\ n <= 11
      /\ a[1] = 170 /\ a[2] = 85 /\ a[3] = 11 /\ a[4] = n - 5 /\ a[5] = 0
  BY ShortIs
<1> HIDE DEF n
<1>2. /\ Len(h) = 8 /\ h[1] = 170 /\ h[2] = 85 /\ h[3] = 12 /\ h[4] = 3
      /\ h[5] = 0 /\ h[6] = 0 /\ h[7] = 0
  BY OtherIs
<1> HIDE DEF h
<1>3. /\ Len(t) = Len(h) + n
      /\ \A i \in 1..Len(h) : t[i] = h[i]
      /\ \A i \in 1..n : t[Len(h) + i] = a[i]
  BY DEF IsJoin, h, n
<1>4. /\ Len(t) = 8 + n /\ \A i \in 1..n : t[8 + i] = a[i]
      /\ t[1] = 170 /\ t[2] = 85 /\ t[3] = 12 /\ t[4] = 3
      /\ t[5] = 0 /\ t[6] = 0 /\ t[7] = 0
  <2>1. 1 \in 1..8 /\ 2 \in 1..8 /\ 3 \in 1..8 /\ 4 \in 1..8 /\ 5 \in 1..8 /\ 6 \in 1..8 /\ 7 \in 1..8
    OBVIOUS
  <2> QED
    BY <1>2, <1>3, <2>1
<1>5. t[9] = 170 /\ t[10] = 85 /\ t[11] = 11 /\ t[12] = n - 5 /\ t[13] = 0
  <2>1. /\ 1 \in 1..n /\ 2 \in 1..n /\ 3 \in 1..n /\ 4 \in 1..n /\ 5 \in 1..n
        /\ 8 + 1 = 9 /\ 8 + 2 = 10 /\ 8 + 3 = 11 /\ 8 + 4 = 12 /\ 8 + 5 = 13
    BY <1>1
  <2>2. \A i \in 1..n : t[8 + i] = a[i]
    BY <1>4
  <2>3. /\ t[8 + 1] = a[1] /\ t[8 + 2] = a[2] /\ t[8 + 3] = a[3]
        /\ t[8 + 4] = a[4] /\ t[8 + 5] = a[5]
    BY ONLY <2>1, <2>2
  <2>4. a[1] = 170 /\ a[2] = 85 /\ a[3] = 11 /\ a[4] = n - 5 /\ a[5] = 0
    BY <1>1
  <2> QED
    BY ONLY <2>1, <2>3, <2>4
<1> SUFFICES ASSUME NEW p, NEW c \in Nat, Whole(p, Id), c <= Len(t), Ends(p, t, c)
             PROVE  p = a /\ c = Len(t)
  BY DEF AtEnd
<1>6. PICK i \in Nat : /\ Len(p) \in Nat /\ Len(p) >= 8 /\ i + Len(p) = c
                       /\ t[i + 1] = 170 /\ t[i + 2] = 85 /\ t[i + 3] = 11
                       /\ t[i + 4] + 256 * t[i + 5] = Len(p) - 5
                       /\ \A j \in 1..Len(p) : p[j] = t[i + j]
  BY WindowAt
<1> DEFINE l == Len(p)
<1>7. /\ l \in Nat /\ l >= 8 /\ i + l = c /\ c <= 8 + n
      /\ t[i + 1] = 170 /\ t[i + 2] = 85 /\ t[i + 3] = 11
      /\ t[i + 4] + 256 * t[i + 5] = l - 5
      /\ \A j \in 1..l : p[j] = t[i + j]
  BY <1>4, <1>6
<1> HIDE DEF l
<1>8. i = 8
  <2>1. i \in 0..11
    BY <1>1, <1>7
  <2>2. i # 0
    <3>1. SUFFICES ASSUME i = 0 PROVE FALSE
      OBVIOUS
    <3>2. t[3] = 11
      BY <1>7, <3>1
    <3> QED
      BY <1>4, <3>2
  <2>3. i \notin 1..6
    <3>1. SUFFICES ASSUME i \in 1..6 PROVE FALSE
      OBVIOUS
    <3>2. t[2] = 170 \/ t[3] = 170 \/ t[4] = 170 \/ t[5] = 170 \/ t[6] = 170 \/ t[7] = 170
      <4>1. i = 1 \/ i = 2 \/ i = 3 \/ i = 4 \/ i = 5 \/ i = 6
        BY <3>1
      <4>2. t[i + 1] = 170
        BY <1>7
      <4> QED
        BY <4>1, <4>2
    <3> QED
      BY <1>4, <3>2
  <2>4. i # 7
    <3>1. SUFFICES ASSUME i = 7 PROVE FALSE
      OBVIOUS
    <3>2. t[9] = 85
      BY <1>7, <3>1
    <3> QED
      BY <1>5, <3>2
  <2>5. i \notin 9..11
    <3>1. SUFFICES ASSUME i \in 9..11 PROVE FALSE
      OBVIOUS
    <3>2. t[10] = 170 \/ t[11] = 170 \/ t[12] = 170
      <4>1. i = 9 \/ i = 10 \/ i = 11
        BY <3>1
      <4>2. t[i + 1] = 170
        BY <1>7
      <4> QED
        BY <4>1, <4>2
    <3>3. n - 5 # 170
      BY <1>1
    <3> QED
      BY <1>5, <3>2, <3>3
  <2> QED
    BY <2>1, <2>2, <2>3, <2>4, <2>5
<1>9. l = n
  <2>1. t[12] + 256 * t[13] = l - 5
    BY <1>7, <1>8
  <2>2. (n - 5) + 256 * 0 = l - 5
    BY <1>5, <2>1
  <2> QED
    BY <1>1, <1>7, <2>2
<1>10. \A j \in 1..l : p[j] = a[j]
  BY <1>4, <1>7, <1>8, <1>9
<1>11. p \in Seq(Byte) /\ a \in Seq(Byte) /\ Len(p) = Len(a) /\ \A j \in 1..Len(p) : p[j] = a[j]
  BY <1>1, <1>9, <1>10 DEF Whole, l, n
<1>12. c = Len(t)
  BY <1>1, <1>4, <1>7, <1>8, <1>9
<1>13. p = a
  BY <1>11, SeqEqual
<1> QED
  BY <1>12, <1>13

(* Nothing but noise. *)
LEMMA OtherIsNone == NoWindow(Other)
<1> DEFINE t == Other
<1>1. t \in Seq(Byte) /\ Len(t) = 8 /\ t[3] = 12
  BY OtherIs
<1> HIDE DEF t
<1> SUFFICES ASSUME NEW p, Whole(p, Id), Window(p, t) PROVE FALSE
  BY DEF NoWindow, t
<1>2. PICK i \in Nat : /\ Len(p) \in Nat /\ Len(p) >= 8 /\ i + Len(p) <= Len(t)
                       /\ t[i + 1] = 170 /\ t[i + 2] = 85 /\ t[i + 3] = 11
                       /\ t[i + 4] + 256 * t[i + 5] = Len(p) - 5
                       /\ \A j \in 1..Len(p) : p[j] = t[i + j]
  <2>1. t \in Seq(Byte)
    BY <1>1
  <2> QED
    BY <2>1, WindowStart
<1>3. i = 0
  BY <1>1, <1>2
<1>4. t[3] = 11
  BY <1>2, <1>3
<1> QED
  BY <1>1, <1>4

LEMMA FewIsNone ==
  ASSUME NEW t \in Seq(Byte), Len(t) < 8
  PROVE  NoWindow(t)
<1> SUFFICES ASSUME NEW p, Whole(p, Id), Window(p, t) PROVE FALSE
  BY DEF NoWindow
<1>1. PICK i \in Nat : /\ Len(p) \in Nat /\ Len(p) >= 8 /\ i + Len(p) <= Len(t)
                       /\ t[i + 1] = 170 /\ t[i + 2] = 85 /\ t[i + 3] = 11
                       /\ t[i + 4] + 256 * t[i + 5] = Len(p) - 5
                       /\ \A j \in 1..Len(p) : p[j] = t[i + j]
  BY WindowStart
<1>2. Len(t) \in Nat
  BY LenProperties
<1> QED
  BY <1>1, <1>2

-----------------------------------------------------------------------------
(* The control table a tool loads, and what it writes.                      *)

Types == {"uint8_t", "int8_t", "int16_t"}
Items == {"temperature", "velocity"}
Lines == {l \in [columns : {12}, type : Types, name : Items, mks : {<<>>, <<10>>}] : TRUE}
Descriptors ==
  {d \in [type : Types, initial_address : Word, num_bytes : {1, 2}, coefficient_mks : {1, 10}] :
     d.num_bytes = NumBytes[d.type]}
Tables ==
  [error : {"kSuccess", "kAlreadyRecorded", "kFileOpenError"},
   descriptors : UNION {[N -> Descriptors] : N \in SUBSET Items},
   last_address : Word]

LEMMA NumBytesIs ==
  ASSUME NEW type \in Types
  PROVE  type \in DOMAIN NumBytes /\ NumBytes[type] = IF type = "int16_t" THEN 2 ELSE 1
BY DEF Types, NumBytes

LEMMA DescriptorIs ==
  ASSUME NEW l \in Lines, NEW address \in Word
  PROVE  Descriptor(l.type, address, l.mks) \in Descriptors
<1>1. l.type \in Types /\ l.mks \in {<<>>, <<10>>}
  BY DEF Lines
<1>2. NumBytes[l.type] \in {1, 2}
  BY <1>1, NumBytesIs
<1>3. Coefficient(l.mks) \in {1, 10}
  <2>1. CASE l.mks = <<>>
    BY <2>1 DEF Coefficient
  <2>2. CASE l.mks = <<10>>
    <3>1. <<10>> # <<>> /\ <<10>>[1] = 10
      OBVIOUS
    <3> QED
      BY <2>2, <3>1 DEF Coefficient
  <2> QED
    BY <1>1, <2>1, <2>2
<1> QED
  BY <1>1, <1>2, <1>3 DEF Descriptor, Descriptors

LEMMA ProcessLineIs ==
  ASSUME NEW table \in Tables, NEW l \in Lines
  PROVE  ProcessLine(table, l) \in Tables
<1>1. l.columns = 12 /\ l.type \in Types /\ l.name \in Items
  BY DEF Lines
<1>2. l.type \in DOMAIN NumBytes
  BY <1>1, NumBytesIs
<1>3. CASE l.name \in DOMAIN table.descriptors
  <2>1. ProcessLine(table, l) = [table EXCEPT !.error = "kAlreadyRecorded"]
    BY <1>1, <1>3 DEF ProcessLine
  <2> QED
    BY <2>1 DEF Tables
<1>4. CASE l.name \notin DOMAIN table.descriptors
  <2>1. ProcessLine(table, l) = AddItem(table, l)
    BY <1>1, <1>2, <1>4 DEF ProcessLine
  <2> DEFINE f == table.descriptors
             D == DOMAIN f \cup {l.name}
             d == Descriptor(l.type, table.last_address, l.mks)
             g == [name \in D |-> IF name = l.name THEN d ELSE f[name]]
             m == (table.last_address + NumBytes[l.type]) % 65536
  <2>2. PICK N \in SUBSET Items : f \in [N -> Descriptors]
    BY DEF Tables
  <2>3. d \in Descriptors
    <3>1. table.last_address \in Word
      BY DEF Tables
    <3> QED
      BY <3>1, DescriptorIs
  <2> HIDE DEF f, d
  <2>4. D \in SUBSET Items /\ g \in [D -> Descriptors]
    BY <1>1, <2>2, <2>3
  <2>5. m \in Word
    <3> DEFINE x == table.last_address
               y == NumBytes[l.type]
    <3>1. x \in Nat /\ y \in {1, 2}
      BY <1>1, NumBytesIs DEF Tables, Word
    <3> HIDE DEF x, y
    <3>2. (x + y) % 65536 \in Nat /\ (x + y) % 65536 <= 65535
      BY <3>1
    <3> QED
      BY <3>2 DEF Word, x, y
  <2>6. AddItem(table, l) = [error |-> table.error, descriptors |-> g, last_address |-> m]
    BY DEF AddItem, f, d
  <2>7. g \in UNION {[M -> Descriptors] : M \in SUBSET Items}
    BY <2>4
  <2> HIDE DEF g, m
  <2>8. table.error \in {"kSuccess", "kAlreadyRecorded", "kFileOpenError"}
    BY DEF Tables
  <2> QED
    BY <2>1, <2>5, <2>6, <2>7, <2>8 DEF Tables
<1> QED
  BY <1>3, <1>4

LEMMA LoadIs ==
  ASSUME NEW file, file = <<>> \/ Tail(file) \in Seq(Lines)
  PROVE  Load(file) \in Tables
<1> DEFINE s == Tail(file)
           n == Len(s)
           D == 1..n
           Step(table, l) == IF table.error = "kSuccess" THEN ProcessLine(table, l) ELSE table
           iter == CHOOSE g : g = [t \in SUBSET D |->
                     IF t = {} THEN EmptyTable ELSE Step(g[t \ {Max(t)}], s[Max(t)])]
<1>0. EmptyTable \in Tables /\ [EmptyTable EXCEPT !.error = "kFileOpenError"] \in Tables
  <2>1. <<>> \in [{} -> Descriptors] /\ {} \in SUBSET Items
    OBVIOUS
  <2>2. 0 \in Word
    BY DEF Word
  <2>3. EmptyTable \in Tables
    BY <2>1, <2>2 DEF EmptyTable, Tables
  <2> QED
    BY <2>3 DEF Tables
<1>1. CASE file = <<>>
  BY <1>0, <1>1 DEF Load
<1>2. CASE file # <<>>
  <2>1. s \in Seq(Lines)
    BY <1>2
  <2>2. n \in Nat /\ DOMAIN s = D /\ \A i \in D : s[i] \in Lines
    BY <2>1, LenProperties, ElementOfSeq
  <2>3. Load(file) = iter[D]
    BY <1>2, <2>2 DEF Load, FoldLeft, MapThenFoldSet
  <2> HIDE DEF s
  <2>4. \A table \in Tables, l \in Lines : Step(table, l) \in Tables
    BY ProcessLineIs
  <2> HIDE DEF Step
  <2> DEFINE F == [x \in Tables \X D |-> Step(x[1], s[x[2]])]
  <2>5. F \in [Tables \X (1..n) -> Tables]
    <3>1. ASSUME NEW x \in Tables \X D PROVE Step(x[1], s[x[2]]) \in Tables
      <4>1. x[1] \in Tables /\ x[2] \in D
        OBVIOUS
      <4>2. s[x[2]] \in Lines
        BY <2>2, <4>1
      <4> QED
        BY <2>4, <4>1, <4>2
    <3> QED
      BY <3>1
  <2>6. PICK g : /\ IsFold(g, n, EmptyTable, F)
                 /\ \A t \in SUBSET (1..n) : g[t] \in Tables /\ (t = {} \/ Max(t) \in t)
    <3> HIDE DEF F
    <3>1. n \in Nat /\ EmptyTable \in Tables /\ F \in [Tables \X (1..n) -> Tables]
      BY <1>0, <2>2, <2>5
    <3>2. \E g : /\ IsFold(g, n, EmptyTable, F)
                 /\ \A t \in SUBSET (1..n) : g[t] \in Tables /\ (t = {} \/ Max(t) \in t)
      BY <3>1, FoldExists
    <3> QED
      BY <3>2
  <2>7. ASSUME NEW t \in SUBSET D, t # {}
        PROVE  F[<<g[t \ {Max(t)}], Max(t)>>] = Step(g[t \ {Max(t)}], s[Max(t)])
    <3>1. t \ {Max(t)} \in SUBSET D /\ Max(t) \in D
      BY <2>6, <2>7
    <3>2. <<g[t \ {Max(t)}], Max(t)>> \in Tables \X D
      BY <2>6, <3>1
    <3> QED
      BY <3>2
  <2> HIDE DEF F
  <2>8. g = [t \in SUBSET D |-> IF t = {} THEN EmptyTable ELSE F[<<g[t \ {Max(t)}], Max(t)>>]]
    BY <2>6 DEF IsFold
  <2>9. g = [t \in SUBSET D |-> IF t = {} THEN EmptyTable ELSE Step(g[t \ {Max(t)}], s[Max(t)])]
    BY <2>7, <2>8
  <2>10. iter = [t \in SUBSET D |-> IF t = {} THEN EmptyTable ELSE Step(iter[t \ {Max(t)}], s[Max(t)])]
    BY <2>9
  <2> HIDE DEF iter
  <2>11. iter[1..0] \in Tables
    <3>1. 1..0 = {} /\ {} \in SUBSET D
      OBVIOUS
    <3> QED
      BY <1>0, <2>10, <3>1
  <2>12. iter[{}] \in Tables
    <3>1. 1..0 = {}
      OBVIOUS
    <3> QED
      BY <2>11, <3>1
  <2>13. ASSUME NEW k \in 1..n, iter[1..k - 1] \in Tables PROVE iter[1..k] \in Tables
    <3>1. 1..k \in SUBSET D /\ 1..k # {} /\ Max(1..k) = k /\ (1..k) \ {k} = 1..k - 1
      BY <2>2, Prefix
    <3>2. iter[1..k] = Step(iter[1..k - 1], s[k])
      BY <2>10, <3>1
    <3> QED
      BY <2>2, <2>4, <2>13, <3>2
  <2>14. iter[1..n] \in Tables
    <3> HIDE DEF n
    <3>1. n \in Nat
      BY <2>2
    <3> QED
      BY <2>12, <2>13, <3>1, FoldKeeps
  <2> QED
    BY <2>3, <2>14
<1> QED
  BY <1>1, <1>2

LEMMA TablesAre ==
  ASSUME NEW hash
  PROVE  HashedTable(hash) = <<>> \/ Tail(HashedTable(hash)) \in Seq(Lines)
<1>1. HashedTable(hash) \in {TableA, TableB, <<>>}
  <2> DEFINE v == CHOOSE v \in {"A", "B"} : HashOf[v] = hash
  <2>1. CASE \E w \in {"A", "B"} : HashOf[w] = hash
    <3>1. v \in {"A", "B"}
      BY <2>1
    <3>2. HashedTable(hash) = TableOf[v]
      BY <2>1 DEF HashedTable
    <3> HIDE DEF v
    <3> QED
      BY <3>1, <3>2 DEF TableOf
  <2>2. CASE ~ \E w \in {"A", "B"} : HashOf[w] = hash
    BY <2>2 DEF HashedTable
  <2> QED
    BY <2>1, <2>2
<1> DEFINE t == Line(12, "uint8_t", "temperature", <<>>)
           v == Line(12, "int16_t", "velocity", <<10>>)
<1>2. t \in Lines /\ v \in Lines
  BY DEF Lines, Line, Types, Items
<1>3. TableA = <<Heading, t, v>> /\ TableB = <<Heading, v, t>>
  BY DEF TableA, TableB
<1> HIDE DEF t, v
<1>4. Tail(<<Heading, t, v>>) = <<t, v>> /\ Tail(<<Heading, v, t>>) = <<v, t>>
  OBVIOUS
<1>5. <<t, v>> \in Seq(Lines) /\ <<v, t>> \in Seq(Lines)
  BY <1>2
<1> QED
  BY <1>1, <1>3, <1>4, <1>5

LEMMA ItemIs ==
  ASSUME ItemFound
  PROVE  Item \in Descriptors
<1> DEFINE hash == SubSeq(results[1].data, 1, kControlTableHashByte)
           file == HashedTable(hash)
<1> HIDE DEF hash
<1>1. Loaded = LoadControlTable(home, package, file)
  BY DEF Loaded, hash
<1>2. Loaded.ok /\ job.item \in DOMAIN Loaded.table.descriptors
  BY DEF ItemFound, HasItem
<1>3. Load(file) \in Tables
  BY TablesAre, LoadIs
<1> HIDE DEF file
<1>4. Loaded.table = Load(file)
  BY <1>1, <1>2 DEF LoadControlTable
<1> DEFINE f == Loaded.table.descriptors
<1>5. PICK N \in SUBSET Items : f \in [N -> Descriptors]
  BY <1>3, <1>4 DEF Tables
<1>6. Item = f[job.item]
  BY DEF Item, ReferItemDescriptor
<1>7. job.item \in N
  BY <1>2, <1>5
<1> HIDE DEF f
<1> QED
  BY <1>5, <1>6, <1>7

LEMMA BytesAre ==
  ASSUME NEW type \in Types, NEW n \in Int
  PROVE  /\ Bytes(type, n) \in Seq(Byte) /\ Len(Bytes(type, n)) <= 2
         /\ Len(Bytes(type, n)) = NumBytes[type]
<1>1. NumBytes[type] = IF type = "int16_t" THEN 2 ELSE 1
  BY NumBytesIs
<1>2. CASE type # "int16_t"
  <2> DEFINE u == n % 256
  <2>1. 256 ^ 1 = 256
    OBVIOUS
  <2>2. Bytes(type, n) = <<u>>
    BY <1>1, <1>2, <2>1 DEF Bytes, Modulus
  <2>3. u \in Byte
    BY DEF Byte
  <2> HIDE DEF u
  <2>4. <<u>> \in Seq(Byte) /\ Len(<<u>>) = 1
    BY <2>3
  <2> QED
    <3>1. NumBytes[type] = 1
      BY <1>1, <1>2
    <3> QED
      BY <2>2, <2>4, <3>1
<1>3. CASE type = "int16_t"
  <2> DEFINE u == n % 65536
             x == u % 256
             y == u \div 256
  <2>1. 256 ^ 2 = 65536
    OBVIOUS
  <2>2. Bytes(type, n) = <<x, y>>
    BY <1>1, <1>3, <2>1 DEF Bytes, Modulus
  <2>3. u \in Word
    BY DEF Word
  <2> HIDE DEF u
  <2>4. x \in Byte /\ y \in Byte
    BY <2>3, LowHighBytes DEF Low, High
  <2> HIDE DEF x, y
  <2>5. <<x, y>> \in Seq(Byte)
    BY <2>4
  <2>6. Len(<<x, y>>) = 2
    OBVIOUS
  <2> QED
    <3>1. NumBytes[type] = 2
      BY <1>1, <1>3
    <3> QED
      BY <2>2, <2>5, <2>6, <3>1
<1> QED
  BY <1>2, <1>3

LEMMA ConvertedIs ==
  ASSUME NEW item \in Descriptors, NEW tenths \in Int, NEW bytes \in ConvertToBytes(item, tenths)
  PROVE  bytes \in Seq(Byte) /\ Len(bytes) <= 2 /\ Len(bytes) = item.num_bytes
<1> DEFINE n == tenths * item.coefficient_mks
<1>1. n \in Int /\ item.type \in Types /\ item.num_bytes = NumBytes[item.type]
  BY DEF Descriptors
<1>2. bytes \in ByteCast(item.type, n)
  BY DEF ConvertToBytes
<1> HIDE DEF n
<1>3. Round(n) \in Int
  BY <1>1 DEF Round
<1>4. bytes = Bytes(item.type, Round(n)) \/ bytes = Bytes(item.type, 0)
  BY <1>2 DEF ByteCast
<1>5. 0 \in Int
  OBVIOUS
<1> QED
  BY <1>1, <1>3, <1>4, <1>5, BytesAre

JobTyped(j) ==
  /\ j.program \in {"library", "exxx_eeprom", "exxx_hash", "exxx_read_data", "exxx_write_data",
                    "exxx_read", "exxx_write"}
  /\ j.addr \in {0, 1, 2} /\ j.size \in {0, 1, 2, 3} /\ j.value \in Int
  /\ j.program = "exxx_write_data" => j.value = 515

LEMMA JobIs ==
  ASSUME NEW j \in Jobs
  PROVE  j.program \in Programs /\ JobTyped(j)
<1> DEFINE A1 == {Job(p, 0, 0, 0, "none", TRUE) : p \in {"library", "exxx_eeprom"}}
           A2 == {Job("exxx_hash", 0, 0, 0, "none", u) : u \in BOOLEAN}
           A3 == {Job("exxx_read_data", a, n, 0, "none", TRUE) : a \in {1, 2}, n \in {1, 2, 3}}
           A4 == {Job("exxx_write_data", 1, n, 515, "none", TRUE) : n \in {1, 2, 3}}
           A5 == {Job("exxx_read", 0, 0, 0, i, TRUE) : i \in {"temperature", "velocity", "torque"}}
           A6 == {Job("exxx_write", 0, 0, v, "temperature", TRUE) : v \in {-7, 25, 2554, 2555}}
           A7 == {Job("exxx_write", 0, 0, v, "velocity", TRUE) : v \in {-32768, -32767, -13, 32767, 32768}}
           All == A1 \cup A2 \cup A3 \cup A4 \cup A5 \cup A6 \cup A7
<1>1. Jobs = {x \in All : x.program \in Programs}
  BY DEF Jobs
<1>2. ASSUME j \in A1 PROVE JobTyped(j)
  BY <1>2 DEF Job, JobTyped
<1>3. ASSUME j \in A2 PROVE JobTyped(j)
  BY <1>3 DEF Job, JobTyped
<1>4. ASSUME j \in A3 PROVE JobTyped(j)
  BY <1>4 DEF Job, JobTyped
<1>5. ASSUME j \in A4 PROVE JobTyped(j)
  BY <1>5 DEF Job, JobTyped
<1>6. ASSUME j \in A5 PROVE JobTyped(j)
  BY <1>6 DEF Job, JobTyped
<1>7. ASSUME j \in A6 PROVE JobTyped(j)
  BY <1>7 DEF Job, JobTyped
<1>8. ASSUME j \in A7 PROVE JobTyped(j)
  BY <1>8 DEF Job, JobTyped
<1> HIDE DEF A1, A2, A3, A4, A5, A6, A7
<1> QED
  BY <1>1, <1>2, <1>3, <1>4, <1>5, <1>6, <1>7, <1>8

(* The value exxx_write_data is asked to write.                             *)
IsJobValue(n) == n = 515

LEMMA LowBytesAre ==
  ASSUME NEW n, IsJobValue(n), NEW size \in {1, 2}
  PROVE  LowBytes(n, size) \in Seq(Byte) /\ Len(LowBytes(n, size)) = size
<1> DEFINE f(i) == (515 \div 256 ^ (i - 1)) % 256
           s == LowBytes(n, size)
<1>1. s = [i \in 1..size |-> f(i)]
  BY DEF LowBytes, IsJobValue
<1>2. ASSUME NEW i \in 1..size PROVE f(i) \in Byte
  <2>1. i - 1 = 0 \/ i - 1 = 1
    OBVIOUS
  <2>2. 256 ^ 0 = 1 /\ 256 ^ 1 = 256
    OBVIOUS
  <2>3. 256 ^ (i - 1) = 1 \/ 256 ^ (i - 1) = 256
    BY <2>1, <2>2
  <2>4. (515 \div 1) % 256 = 3 /\ (515 \div 256) % 256 = 2
    OBVIOUS
  <2>5. f(i) = 3 \/ f(i) = 2
    BY <2>3, <2>4
  <2> HIDE DEF f
  <2> QED
    BY <2>5 DEF Byte
<1> HIDE DEF f
<1>3. s \in [1..size -> Byte] /\ size \in Nat
  BY <1>1, <1>2
<1> HIDE DEF s
<1>4. s \in Seq(Byte)
  BY <1>3, SeqDef
<1>5. Len(s) = size
  <2>1. DOMAIN s = 1..size
    BY <1>3
  <2> QED
    BY <1>3, <1>4, <2>1, LenProperties
<1> QED
  BY <1>4, <1>5 DEF s

-----------------------------------------------------------------------------
(* The calls there are, and what the servo reads from their requests.       *)

Names == {"Ping", "ReadData", "WriteData", "WriteEeprom", "AvagoAvePos", "ReadHash", "SyncParam", "Reset"}
Calls ==
  {c \in [name : Names, addr : Word, size : Word, data : Seq(Byte)] :
     /\ Len(c.data) <= 2
     /\ c.name = "ReadData" => c.size >= 1
     /\ c.name = "WriteData" => c.size = Len(c.data)}

LEMMA PlainIs ==
  ASSUME NEW name \in Names \ {"ReadData", "WriteData"}
  PROVE  Plain(name) \in Calls /\ Plain(name).name = name
<1>1. 0 \in Word /\ <<>> \in Seq(Byte) /\ Len(<<>>) <= 2
  BY DEF Word
<1> QED
  BY <1>1 DEF Plain, Call, Calls

LEMMA ReadCallIs ==
  ASSUME NEW addr \in Word, NEW size \in Word, size >= 1
  PROVE  Read(addr, size) \in Calls
<1>1. <<>> \in Seq(Byte) /\ Len(<<>>) <= 2
  OBVIOUS
<1> QED
  BY <1>1 DEF Read, Call, Calls, Names

LEMMA WriteCallIs ==
  ASSUME NEW addr \in Word, NEW data \in Seq(Byte), Len(data) <= 2
  PROVE  Write(addr, data) \in Calls
<1>1. Len(data) \in Word
  BY LenProperties DEF Word
<1> QED
  BY <1>1 DEF Write, Call, Calls, Names

LEMMA Two ==
  ASSUME NEW n \in Word, NEW rest \in Seq(Byte), NEW d, d = LowHigh(n) \o rest
  PROVE  /\ d \in Seq(Byte) /\ Len(d) = 2 + Len(rest)
         /\ Uint16(d, 1) = n
         /\ \A i \in 1..Len(rest) : d[2 + i] = rest[i]
<1> DEFINE h == LowHigh(n)
<1>1. h \in Seq(Byte) /\ Len(h) = 2 /\ h[1] = Low(n) /\ h[2] = High(n)
  BY LowHighIs DEF IsLowHigh
<1> HIDE DEF h
<1>2. IsJoin(d, h, rest)
  BY <1>1, Joined DEF h
<1>3. /\ d \in Seq(Byte) /\ Len(d) = 2 + Len(rest)
      /\ \A i \in 1..2 : d[i] = h[i]
      /\ \A i \in 1..Len(rest) : d[2 + i] = rest[i]
  BY <1>1, <1>2 DEF IsJoin
<1>4. d[1] = Low(n) /\ d[2] = High(n)
  <2>1. 1 \in 1..2 /\ 2 \in 1..2
    OBVIOUS
  <2> QED
    BY <1>1, <1>3, <2>1
<1>5. Uint16(d, 1) = n
  <2>1. 1 + 1 = 2
    OBVIOUS
  <2>2. Uint16(d, 1) = Low(n) + 256 * High(n)
    BY <1>4, <2>1 DEF Uint16
  <2> QED
    BY <2>2, LowHighValue
<1> QED
  BY <1>3, <1>5

LEMMA SendDataIs ==
  ASSUME NEW c \in Calls
  PROVE  /\ SendData(c) \in Seq(Byte) /\ Len(SendData(c)) <= 9
         /\ c.name = "ReadData" => Uint16(SendData(c), 1) = c.addr /\ Uint16(SendData(c), 3) = c.size
         /\ c.name = "WriteData" => /\ Uint16(SendData(c), 1) = c.addr
                                    /\ SubSeq(SendData(c), 3, Len(SendData(c))) = c.data
<1> DEFINE d == SendData(c)
<1>1. c.name \in Names /\ c.addr \in Word /\ c.size \in Word /\ c.data \in Seq(Byte) /\ Len(c.data) <= 2
  BY DEF Calls
<1>2. CASE c.name = "ReadData"
  <2> DEFINE e == LowHigh(c.size)
  <2>1. d = LowHigh(c.addr) \o e
    BY <1>2 DEF SendData
  <2>2. e \in Seq(Byte) /\ Len(e) = 2 /\ e[1] = Low(c.size) /\ e[2] = High(c.size)
    BY <1>1, LowHighIs DEF IsLowHigh
  <2> HIDE DEF d, e
  <2>3. /\ d \in Seq(Byte) /\ Len(d) = 4 /\ Uint16(d, 1) = c.addr
        /\ \A i \in 1..2 : d[2 + i] = e[i]
    <3>1. /\ d \in Seq(Byte) /\ Len(d) = 2 + Len(e) /\ Uint16(d, 1) = c.addr
          /\ \A i \in 1..Len(e) : d[2 + i] = e[i]
      <4>1. c.addr \in Word /\ e \in Seq(Byte)
        BY <1>1, <2>2
      <4> QED
        BY <4>1, <2>1, Two
    <3> QED
      BY <2>2, <3>1
  <2>4. Uint16(d, 3) = c.size
    <3>1. 1 \in 1..2 /\ 2 \in 1..2 /\ 2 + 1 = 3 /\ 2 + 2 = 4 /\ 3 + 1 = 4
      OBVIOUS
    <3>2. d[3] = Low(c.size) /\ d[4] = High(c.size)
      BY <2>2, <2>3, <3>1
    <3>3. Uint16(d, 3) = Low(c.size) + 256 * High(c.size)
      BY <3>1, <3>2 DEF Uint16
    <3> QED
      BY <1>1, <3>3, LowHighValue
  <2>5. Len(d) <= 9
    BY <2>3
  <2> QED
    BY <1>2, <2>3, <2>4, <2>5 DEF d
<1>3. CASE c.name = "WriteData"
  <2> DEFINE e == c.data
             n == Len(d)
             s == SubSeq(d, 2 + 1, n)
  <2>1. d = LowHigh(c.addr) \o e
    BY <1>3 DEF SendData
  <2>10. c.addr \in Word /\ e \in Seq(Byte)
    BY <1>1
  <2> HIDE DEF d, e
  <2>11. /\ d \in Seq(Byte) /\ Len(d) = 2 + Len(e) /\ Uint16(d, 1) = c.addr
         /\ \A i \in 1..Len(e) : d[2 + i] = e[i]
    BY <2>10, <2>1, Two
  <2>2. /\ d \in Seq(Byte) /\ n = 2 + Len(e) /\ Uint16(d, 1) = c.addr
        /\ \A i \in 1..Len(e) : d[2 + i] = e[i]
    BY <2>11
  <2>3. Len(e) \in Nat /\ Len(e) <= 2
    BY <1>1, LenProperties DEF e
  <2> HIDE DEF n
  <2>4. 2 \in Nat /\ n \in Nat /\ 2 <= n /\ n <= n /\ n - 2 = Len(e) /\ n <= 9 /\ 2 + 1 = 3
    BY <2>2, <2>3
  <2>5. n <= Len(d)
    BY <2>4 DEF n
  <2>6. s \in Seq(Byte) /\ Len(s) = n - 2 /\ \A i \in 1..n - 2 : s[i] = d[2 + i]
    BY <2>2, <2>4, <2>5, Slice
  <2> HIDE DEF s
  <2>7. s \in Seq(Byte) /\ e \in Seq(Byte) /\ Len(s) = Len(e) /\ \A i \in 1..Len(s) : s[i] = e[i]
    BY <2>10, <2>2, <2>4, <2>6
  <2>8. s = e
    BY <2>7, SeqEqual
  <2>9. SubSeq(d, 3, Len(d)) = c.data
    BY <2>4, <2>8 DEF s, n, e
  <2> QED
    BY <1>3, <2>2, <2>4, <2>9 DEF d, n
<1>4. CASE c.name = "Reset"
  <2>1. d = kResetData
    BY <1>4 DEF SendData
  <2>2. /\ 82 \in Byte /\ 69 \in Byte /\ 83 \in Byte /\ 84 \in Byte /\ 0 \in Byte
        /\ 255 \in Byte /\ 170 \in Byte /\ 85 \in Byte
    BY DEF Byte
  <2>3. kResetData \in Seq(Byte)
    BY <2>2 DEF kResetData
  <2>4. Len(kResetData) <= 9
    BY DEF kResetData
  <2> QED
    BY <1>4, <2>1, <2>3, <2>4
<1>5. CASE c.name \notin {"ReadData", "WriteData", "Reset"}
  <2>1. d = <<>>
    BY <1>5 DEF SendData
  <2>2. <<>> \in Seq(Byte) /\ Len(<<>>) <= 9
    OBVIOUS
  <2> QED
    BY <1>5, <2>1, <2>2
<1> QED
  BY <1>2, <1>3, <1>4, <1>5

LEMMA InstructionIs ==
  ASSUME NEW name \in Names
  PROVE  Instruction[name] \in Byte
BY DEF Names, Instruction, Byte

LEMMA RequestOfIs ==
  ASSUME NEW c \in Calls
  PROVE  IsRequest(RequestOf(c), Instruction[c.name], SendData(c))
<1> DEFINE d == SendData(c)
           i == Instruction[c.name]
<1>1. d \in Seq(Byte) /\ Len(d) <= 9
  BY SendDataIs
<1>2. i \in Byte /\ Id \in Byte
  <2>1. c.name \in Names
    BY DEF Calls
  <2> QED
    BY <2>1, InstructionIs DEF Id, Byte
<1>3. RequestOf(c) = Request(Id, i, d)
  BY DEF RequestOf
<1> HIDE DEF d, i
<1>4. Len(d) + 2 <= 65535
  BY <1>1, LenProperties
<1>5. IsRequest(Request(Id, i, d), i, d)
  BY <1>1, <1>2, <1>4, RequestIs
<1> QED
  BY <1>3, <1>5 DEF d, i

(* The request of a call at the head of those the servo has.                *)
LEMMA HeadIs ==
  ASSUME NEW c \in Calls, Head(requests) = RequestOf(c)
  PROVE  /\ Head_(6) = Instruction[c.name]
         /\ Arguments = SendData(c)
<1> DEFINE d == SendData(c)
           r == RequestOf(c)
           i == Instruction[c.name]
<1>1. IsRequest(r, i, d)
  BY RequestOfIs
<1>2. Head_(6) = r[6] /\ Arguments = SubSeq(r, 7, Len(r) - 3)
  BY DEF Head_, Arguments
<1> HIDE DEF r, d, i
<1>3. Head_(6) = i /\ Arguments = d
  BY <1>1, <1>2 DEF IsRequest
<1> QED
  BY <1>3 DEF d, i

-----------------------------------------------------------------------------
(* What is left of a stream of bytes once a part of it is read.              *)

LEMMA Split ==
  ASSUME NEW l \in Seq(Byte), NEW n \in Nat, n <= Len(l)
  PROVE  /\ SubSeq(l, 1, n) \in Seq(Byte) /\ SubSeq(l, n + 1, Len(l)) \in Seq(Byte)
         /\ IsJoin(l, SubSeq(l, 1, n), SubSeq(l, n + 1, Len(l)))
<1> DEFINE m == Len(l)
           s == SubSeq(l, 1, n)
           t == SubSeq(l, n + 1, m)
<1>1. m \in Nat /\ n <= m
  BY LenProperties
<1>2. s \in Seq(Byte) /\ Len(s) = n /\ \A i \in 1..n : s[i] = l[i]
  <2> DEFINE r == SubSeq(l, 0 + 1, n)
  <2>1. 0 \in Nat /\ 0 <= n /\ n <= Len(l)
    OBVIOUS
  <2>2. r \in Seq(Byte) /\ Len(r) = n - 0 /\ \A i \in 1..n - 0 : r[i] = l[0 + i]
    BY <2>1, Slice
  <2>3. s = r
    OBVIOUS
  <2> HIDE DEF r, s
  <2>4. n - 0 = n /\ \A i \in 1..n : 0 + i = i
    OBVIOUS
  <2> QED
    BY <2>2, <2>3, <2>4
<1>3. t \in Seq(Byte) /\ Len(t) = m - n /\ \A i \in 1..m - n : t[i] = l[n + i]
  <2>1. m <= Len(l)
    BY <1>1
  <2> QED
    BY <1>1, <2>1, Slice
<1> HIDE DEF m, s, t
<1>4. Len(l) = Len(s) + Len(t)
  <2>1. Len(l) = m
    BY DEF m
  <2> QED
    BY <1>1, <1>2, <1>3, <2>1
<1>5. IsJoin(l, s, t)
  BY <1>2, <1>3, <1>4 DEF IsJoin
<1> QED
  BY <1>2, <1>3, <1>5 DEF m, s, t

LEMMA JoinAgain ==
  ASSUME NEW u \in Seq(Byte), NEW s \in Seq(Byte), NEW t \in Seq(Byte),
         NEW l, IsJoin(l, s, t), NEW us, IsJoin(us, u, s), NEW r, IsJoin(r, u, l)
  PROVE  IsJoin(r, us, t)
<1> DEFINE a == Len(u)
           b == Len(s)
           c == Len(t)
<1>1. a \in Nat /\ b \in Nat /\ c \in Nat
  BY LenProperties
<1>2. /\ Len(l) = b + c /\ Len(us) = a + b /\ Len(r) = a + Len(l)
      /\ \A i \in 1..b : l[i] = s[i]
      /\ \A i \in 1..c : l[b + i] = t[i]
      /\ \A i \in 1..a : us[i] = u[i] /\ r[i] = u[i]
      /\ \A i \in 1..b : us[a + i] = s[i]
      /\ \A i \in 1..Len(l) : r[a + i] = l[i]
      /\ r \in Seq(Byte)
  BY DEF IsJoin
<1> HIDE DEF a, b, c
<1>3. \A i \in 1..a + b : r[i] = us[i]
  <2> TAKE i \in 1..a + b
  <2>1. CASE i <= a
    <3>1. i \in 1..a
      BY <1>1, <2>1
    <3> QED
      BY <1>2, <3>1
  <2>2. CASE i > a
    <3>1. i - a \in 1..b /\ i - a \in 1..b + c /\ a + (i - a) = i
      BY <1>1, <2>2
    <3> QED
      BY <1>2, <3>1
  <2> QED
    BY <1>1, <2>1, <2>2
<1>4. \A i \in 1..c : r[(a + b) + i] = t[i]
  <2> TAKE i \in 1..c
  <2>1. b + i \in 1..b + c /\ a + (b + i) = (a + b) + i
    BY <1>1
  <2> QED
    BY <1>2, <2>1
<1>5. Len(r) = (a + b) + c
  BY <1>1, <1>2
<1> QED
  BY <1>2, <1>3, <1>4, <1>5 DEF IsJoin, c

LEMMA SuffixIs ==
  ASSUME NEW u, NEW s, Suffix(u, s)
  PROVE  /\ Len(u) <= Len(s)
         /\ \A j \in 1..Len(u) : u[j] = s[Len(s) - Len(u) + j]
BY DEF Suffix, Ends

LEMMA SuffixOfSuffix ==
  ASSUME NEW u \in Seq(Byte), NEW v \in Seq(Byte), NEW w \in Seq(Byte), Suffix(u, v), Suffix(v, w)
  PROVE  Suffix(u, w)
<1> DEFINE a == Len(u)
           b == Len(v)
           c == Len(w)
<1>1. a \in Nat /\ b \in Nat /\ c \in Nat
  BY LenProperties
<1>2. /\ a <= b /\ b <= c
      /\ \A j \in 1..a : u[j] = v[b - a + j]
      /\ \A j \in 1..b : v[j] = w[c - b + j]
  BY SuffixIs
<1> HIDE DEF a, b, c
<1>3. \A j \in 1..a : u[j] = w[c - a + j]
  <2> TAKE j \in 1..a
  <2>1. b - a + j \in 1..b /\ c - b + (b - a + j) = c - a + j
    BY <1>1, <1>2
  <2> QED
    BY <1>2, <2>1
<1>4. a <= c
  BY <1>1, <1>2
<1> QED
  BY <1>3, <1>4 DEF Suffix, Ends, a, c

(* The same bytes after both.                                               *)
LEMMA SuffixJoined ==
  ASSUME NEW u \in Seq(Byte), NEW v \in Seq(Byte), NEW t \in Seq(Byte), Suffix(u, v),
         NEW ut, IsJoin(ut, u, t), NEW vt, IsJoin(vt, v, t)
  PROVE  Suffix(ut, vt)
<1> DEFINE a == Len(u)
           b == Len(v)
           c == Len(t)
<1>1. a \in Nat /\ b \in Nat /\ c \in Nat
  BY LenProperties
<1>2. /\ a <= b
      /\ \A j \in 1..a : u[j] = v[b - a + j]
      /\ Len(ut) = a + c /\ Len(vt) = b + c
      /\ \A j \in 1..a : ut[j] = u[j]
      /\ \A j \in 1..b : vt[j] = v[j]
      /\ \A j \in 1..c : ut[a + j] = t[j] /\ vt[b + j] = t[j]
  BY SuffixIs DEF IsJoin
<1> HIDE DEF a, b, c
<1>3. ASSUME NEW j \in 1..a + c PROVE ut[j] = vt[(b + c) - (a + c) + j]
  <2>1. CASE j <= a
    <3>1. a <= b
      BY <1>2
    <3>2. j \in 1..a /\ b - a + j \in 1..b /\ (b + c) - (a + c) + j = b - a + j
      BY <1>1, <2>1, <3>1
    <3>3. ut[j] = u[j] /\ u[j] = v[b - a + j] /\ vt[b - a + j] = v[b - a + j]
      BY <1>2, <3>2
    <3> QED
      BY <3>2, <3>3
  <2>2. CASE j > a
    <3>1. j - a \in 1..c /\ a + (j - a) = j /\ (b + c) - (a + c) + j = b + (j - a)
      BY <1>1, <2>2
    <3>2. ut[a + (j - a)] = t[j - a] /\ vt[b + (j - a)] = t[j - a]
      BY <1>2, <3>1
    <3> QED
      BY <3>1, <3>2
  <2> QED
    BY <1>1, <2>1, <2>2
<1>4. a + c <= b + c
  BY <1>1, <1>2
<1> QED
  BY <1>2, <1>3, <1>4 DEF Suffix, Ends

LEMMA EndsJoined ==
  ASSUME NEW p \in Seq(Byte), NEW v \in Seq(Byte), NEW t \in Seq(Byte), Window(p, v),
         NEW vt, IsJoin(vt, v, t)
  PROVE  \E c \in Nat : c + Len(t) <= Len(vt) /\ Ends(p, vt, c)
<1> DEFINE a == Len(p)
           b == Len(v)
           d == Len(vt)
           e == Len(t)
<1>1. a \in Nat /\ b \in Nat /\ e \in Nat
  BY LenProperties
<1>2. PICK c \in Nat : c <= b /\ a <= c /\ \A j \in 1..a : p[j] = v[c - a + j]
  BY DEF Window, Ends
<1>3. d = b + e /\ \A j \in 1..b : vt[j] = v[j]
  BY DEF IsJoin
<1> HIDE DEF a, b, d, e
<1>4. \A j \in 1..a : p[j] = vt[c - a + j]
  <2> TAKE j \in 1..a
  <2>1. c - a + j \in 1..b
    BY <1>1, <1>2
  <2> QED
    BY <1>2, <1>3, <2>1
<1>5. c + e <= d
  BY <1>1, <1>2, <1>3
<1>6. Ends(p, vt, c)
  BY <1>2, <1>4 DEF Ends, a
<1> QED
  BY <1>5, <1>6 DEF d, e

(* What follows in a stream is a suffix of it, and of two the shorter one of *)
(* the longer.                                                              *)
LEMMA AfterIsSuffix ==
  ASSUME NEW v \in Seq(Byte), NEW t \in Seq(Byte), NEW vt, IsJoin(vt, v, t)
  PROVE  Suffix(t, vt)
<1> DEFINE b == Len(v)
           e == Len(t)
           d == Len(vt)
<1>1. b \in Nat /\ e \in Nat
  BY LenProperties
<1>2. d = b + e /\ \A j \in 1..e : vt[b + j] = t[j]
  BY DEF IsJoin
<1> HIDE DEF b, e, d
<1>3. e <= d /\ d - e = b
  BY <1>1, <1>2
<1>4. \A j \in 1..e : t[j] = vt[d - e + j]
  BY <1>2, <1>3
<1> QED
  BY <1>3, <1>4 DEF Suffix, Ends, d, e

LEMMA ShorterSuffix ==
  ASSUME NEW u \in Seq(Byte), NEW v \in Seq(Byte), NEW w \in Seq(Byte), Suffix(u, w), Suffix(v, w),
         Len(u) <= Len(v)
  PROVE  Suffix(u, v)
<1> DEFINE a == Len(u)
           b == Len(v)
           c == Len(w)
<1>1. a \in Nat /\ b \in Nat /\ c \in Nat /\ a <= b
  BY LenProperties
<1>2. /\ a <= c /\ b <= c
      /\ \A j \in 1..a : u[j] = w[c - a + j]
      /\ \A j \in 1..b : v[j] = w[c - b + j]
  BY SuffixIs
<1> HIDE DEF a, b, c
<1>3. \A j \in 1..a : u[j] = v[b - a + j]
  <2> TAKE j \in 1..a
  <2>1. b - a + j \in 1..b /\ c - b + (b - a + j) = c - a + j
    BY <1>1, <1>2
  <2> QED
    BY <1>2, <2>1
<1> QED
  BY <1>1, <1>3 DEF Suffix, Ends, a, b

(* What the parser has of a packet, and what waits in the port.             *)
Rest(p, l) == Live(p) \o l

(* The parser and the port after a read, and where it was when it began.    *)
IsRead(p, l, f, m) ==
  \E n \in Nat : /\ n <= Len(l)
                 /\ f = ParseAll(p, Id, SubSeq(l, 1, n))
                 /\ m = SubSeq(l, n + 1, Len(l))

LEMMA ReadOf ==
  ASSUME NEW p, Parses(p, Id), NEW l \in Seq(Byte), NEW f, NEW m, IsRead(p, l, f, m)
  PROVE  /\ m \in Seq(Byte) /\ Rest(p, l) \in Seq(Byte)
         /\ Suffix(m, Rest(p, l))
         /\ \/ Parses(f, Id) /\ Suffix(Rest(f, m), Rest(p, l)) /\ Rest(f, m) \in Seq(Byte)
            \/ Done(f, Id) /\ \E c \in Nat : c + Len(m) <= Len(Rest(p, l)) /\ Ends(f.packet, Rest(p, l), c)
         /\ \A a : Whole(a, Id) /\ Len(Live(p)) < Len(a) /\ Agrees(Rest(p, l), a) =>
              \/ Parses(f, Id) /\ Rest(f, m) = Rest(p, l) /\ Len(Live(f)) < Len(a)
              \/ Done(f, Id) /\ f.packet = a /\ Len(a) + Len(m) <= Len(Rest(p, l))
<1>16. PICK n \in Nat : /\ n <= Len(l)
                        /\ f = ParseAll(p, Id, SubSeq(l, 1, n))
                        /\ m = SubSeq(l, n + 1, Len(l))
  BY DEF IsRead
<1> DEFINE s == SubSeq(l, 1, n)
           u == Live(p)
           us == u \o s
           r == Rest(p, l)
           r2 == Rest(f, m)
           v == Live(f)
<1>1. s \in Seq(Byte) /\ m \in Seq(Byte) /\ IsJoin(l, s, m)
  BY <1>16, Split
<1>2. Id \in Byte
  BY DEF Id, Byte
<1>3. u \in Seq(Byte)
  BY <1>2, LiveIsBegun
<1>4. f = ParseAll(p, Id, s)
  BY <1>16
<1> HIDE DEF s
<1>5. \/ Parses(f, Id) /\ Suffix(v, us)
      \/ Done(f, Id) /\ Window(f.packet, us)
  BY <1>1, <1>2, <1>4, ReadIs
<1>6. ASSUME NEW a, Whole(a, Id), Len(u) < Len(a), Agrees(us, a)
      PROVE  \/ Len(us) < Len(a) /\ Parses(f, Id) /\ v = us
             \/ Len(us) >= Len(a) /\ Done(f, Id) /\ f.packet = a
  BY <1>1, <1>2, <1>4, <1>6, TrackIs
<1>7. Parses(f, Id) => v \in Seq(Byte)
  BY <1>2, LiveIsBegun
<1>8. r = u \o l /\ r2 = v \o m
  BY DEF Rest
<1> HIDE DEF u, v, r, r2
<1>9. IsJoin(us, u, s) /\ IsJoin(r, u, l)
  BY <1>1, <1>3, <1>8, Joined
<1>10. us \in Seq(Byte) /\ r \in Seq(Byte)
  BY <1>9 DEF IsJoin
<1> HIDE DEF us
<1>11. IsJoin(r, us, m)
  <2>1. u \in Seq(Byte) /\ s \in Seq(Byte) /\ m \in Seq(Byte)
    BY <1>1, <1>3
  <2>2. IsJoin(l, s, m) /\ IsJoin(us, u, s) /\ IsJoin(r, u, l)
    BY <1>1, <1>9
  <2> QED
    BY ONLY <2>1, <2>2, JoinAgain
<1>12. ASSUME Parses(f, Id) PROVE v \in Seq(Byte) /\ r2 \in Seq(Byte) /\ IsJoin(r2, v, m)
  <2>1. v \in Seq(Byte)
    BY <1>7, <1>12
  <2>2. IsJoin(r2, v, m)
    BY <1>1, <1>8, <2>1, Joined
  <2> QED
    BY <2>1, <2>2 DEF IsJoin
<1>13. \/ Parses(f, Id) /\ Suffix(r2, r) /\ r2 \in Seq(Byte)
       \/ Done(f, Id) /\ \E c \in Nat : c + Len(m) <= Len(r) /\ Ends(f.packet, r, c)
  <2>1. CASE Parses(f, Id) /\ Suffix(v, us)
    <3>1. Suffix(r2, r)
      BY <1>1, <1>10, <1>11, <1>12, <2>1, SuffixJoined
    <3> QED
      BY <1>12, <2>1, <3>1
  <2>2. CASE Done(f, Id) /\ Window(f.packet, us)
    <3>1. f.packet \in Seq(Byte)
      BY <2>2 DEF Done
    <3>2. \E c \in Nat : c + Len(m) <= Len(r) /\ Ends(f.packet, r, c)
      BY <1>1, <1>10, <1>11, <2>2, <3>1, EndsJoined
    <3> QED
      BY <2>2, <3>2
  <2> QED
    BY <1>5, <2>1, <2>2
<1>14. ASSUME NEW a, Whole(a, Id), Len(u) < Len(a), Agrees(r, a)
       PROVE  \/ Parses(f, Id) /\ r2 = r /\ Len(v) < Len(a)
              \/ Done(f, Id) /\ f.packet = a /\ Len(a) + Len(m) <= Len(r)
  <2>1. Agrees(us, a)
    <3>1. Len(us) \in Nat /\ Len(m) \in Nat
      BY <1>1, <1>10, LenProperties
    <3>2. Len(r) = Len(us) + Len(m) /\ \A i \in 1..Len(us) : r[i] = us[i]
      BY <1>11 DEF IsJoin
    <3>3. \A j \in 1..Len(us) : j \in 1..Len(r)
      BY <3>1, <3>2
    <3>4. \A j \in 1..Len(r) : j <= Len(a) => r[j] = a[j]
      BY <1>14 DEF Agrees
    <3>5. \A j \in 1..Len(us) : j <= Len(a) => us[j] = a[j]
      BY <3>2, <3>3, <3>4
    <3> QED
      BY <3>5 DEF Agrees
  <2>2. \/ Len(us) < Len(a) /\ Parses(f, Id) /\ v = us
        \/ Len(us) >= Len(a) /\ Done(f, Id) /\ f.packet = a
    BY <1>6, <1>14, <2>1
  <2>3. CASE Len(us) < Len(a) /\ Parses(f, Id) /\ v = us
    <3>1. IsJoin(r2, us, m) /\ r2 \in Seq(Byte)
      BY <1>12, <2>3
    <3>2. r2 = r
      <4>1. Len(r) = Len(us) + Len(m) /\ Len(r2) = Len(us) + Len(m) /\ Len(us) \in Nat /\ Len(m) \in Nat
        BY <1>1, <1>10, <1>11, <3>1, LenProperties DEF IsJoin
      <4>2. \A i \in 1..Len(r2) : r2[i] = r[i]
        <5> TAKE i \in 1..Len(r2)
        <5>1. CASE i <= Len(us)
          <6>1. i \in 1..Len(us)
            BY <4>1, <5>1
          <6> QED
            BY <1>11, <3>1, <6>1 DEF IsJoin
        <5>2. CASE i > Len(us)
          <6>1. i - Len(us) \in 1..Len(m) /\ Len(us) + (i - Len(us)) = i
            BY <4>1, <5>2
          <6>2. r2[Len(us) + (i - Len(us))] = m[i - Len(us)] /\ r[Len(us) + (i - Len(us))] = m[i - Len(us)]
            BY <1>11, <3>1, <6>1 DEF IsJoin
          <6> QED
            BY <6>1, <6>2
        <5> QED
          BY <4>1, <5>1, <5>2
      <4>3. r2 \in Seq(Byte) /\ r \in Seq(Byte) /\ Len(r2) = Len(r)
        BY <1>10, <3>1, <4>1
      <4> QED
        BY <4>2, <4>3, SeqEqual
    <3> QED
      BY <2>3, <3>2
  <2>4. CASE Len(us) >= Len(a) /\ Done(f, Id) /\ f.packet = a
    <3>1. Len(us) \in Nat /\ Len(m) \in Nat /\ Len(a) \in Nat /\ Len(r) = Len(us) + Len(m)
      BY <1>1, <1>10, <1>11, <1>14, LenProperties DEF IsJoin, Whole
    <3>2. Len(a) + Len(m) <= Len(r)
      BY <2>4, <3>1
    <3> QED
      BY <2>4, <3>2
  <2> QED
    BY <2>2, <2>3, <2>4
<1>15. \A a : Whole(a, Id) /\ Len(u) < Len(a) /\ Agrees(r, a) =>
              \/ Parses(f, Id) /\ r2 = r /\ Len(v) < Len(a)
              \/ Done(f, Id) /\ f.packet = a /\ Len(a) + Len(m) <= Len(r)
  BY <1>14
<1>17. Suffix(m, r)
  BY <1>1, <1>10, <1>11, AfterIsSuffix
<1> QED
  BY <1>1, <1>10, <1>13, <1>15, <1>17 DEF u, v, r, r2

-----------------------------------------------------------------------------
(* What may be left of the stream while a request is out, with f faults in   *)
(* all and k of them before the call began.                                  *)

Unanswered(r, f, k) ==
  r = <<>> \/ (f = k + 1 /\ (Suffix(r, <<kHeader1>>) \/ Suffix(r, Other)))
Lost(r, f, k) == r = <<>> \/ (f = k + 1 /\ NoWindow(r))
Coming(r, u, f, k, a) ==
  \/ Len(u) < Len(a) /\ \E t \in Seq(Byte) : IsJoin(r, a, t) /\ Unanswered(t, f, k)
  \/ f = k + 1 /\ AtEnd(r, a)

LEMMA HeaderIs == <<kHeader1>> \in Seq(Byte) /\ Len(<<kHeader1>>) = 1
<1>1. kHeader1 \in Byte
  BY DEF kHeader1, Byte
<1> QED
  BY <1>1

LEMMA NoiseIsNone ==
  ASSUME NEW r \in Seq(Byte), Suffix(r, <<kHeader1>>) \/ Suffix(r, Other)
  PROVE  NoWindow(r)
<1>1. CASE Suffix(r, <<kHeader1>>)
  <2> DEFINE h == <<kHeader1>>
  <2>1. h \in Seq(Byte) /\ Len(h) = 1
    BY HeaderIs
  <2>2. Len(h) < 8
    BY <2>1
  <2> HIDE DEF h
  <2>3. NoWindow(h)
    BY <2>1, <2>2, FewIsNone
  <2>4. Suffix(r, h)
    BY <1>1 DEF h
  <2> QED
    BY <2>1, <2>3, <2>4, HarmlessSuffix
<1>2. CASE Suffix(r, Other)
  BY <1>2, OtherIs, OtherIsNone, HarmlessSuffix
<1> QED
  BY <1>1, <1>2

LEMMA EmptyIsNone == <<>> \in Seq(Byte) /\ Len(<<>>) = 0 /\ NoWindow(<<>>)
<1> DEFINE e == <<>>
<1>1. e \in Seq(Byte) /\ Len(e) = 0 /\ Len(e) < 8
  OBVIOUS
<1> HIDE DEF e
<1>2. NoWindow(e)
  BY <1>1, FewIsNone
<1> QED
  BY <1>1, <1>2 DEF e

LEMMA UnansweredIsLost ==
  ASSUME NEW r \in Seq(Byte), NEW f, NEW k, Unanswered(r, f, k)
  PROVE  Lost(r, f, k) /\ NoWindow(r)
BY NoiseIsNone, EmptyIsNone DEF Unanswered, Lost

LEMMA LostIsNone ==
  ASSUME NEW r, NEW f, NEW k, Lost(r, f, k)
  PROVE  NoWindow(r)
BY EmptyIsNone DEF Lost

(* A read does not change which of them it is.                              *)
LEMMA SuffixOfEmpty ==
  ASSUME NEW r \in Seq(Byte), Suffix(r, <<>>)
  PROVE  r = <<>>
<1>1. Len(r) <= Len(<<>>) /\ Len(r) \in Nat
  BY LenProperties DEF Suffix, Ends
<1>2. Len(r) = 0
  BY <1>1
<1> QED
  BY <1>2, EmptySeq

LEMMA SuffixIsUnanswered ==
  ASSUME NEW r \in Seq(Byte), NEW q \in Seq(Byte), Suffix(q, r), NEW f, NEW k, Unanswered(r, f, k)
  PROVE  Unanswered(q, f, k)
<1>1. CASE r = <<>>
  BY <1>1, SuffixOfEmpty DEF Unanswered
<1>2. CASE f = k + 1 /\ Suffix(r, <<kHeader1>>)
  <2> DEFINE h == <<kHeader1>>
  <2>1. h \in Seq(Byte)
    BY HeaderIs
  <2>2. Suffix(r, h)
    BY <1>2
  <2> HIDE DEF h
  <2>3. Suffix(q, h)
    BY <2>1, <2>2, SuffixOfSuffix
  <2> QED
    BY <1>2, <2>3 DEF Unanswered, h
<1>3. CASE f = k + 1 /\ Suffix(r, Other)
  <2>1. Suffix(q, Other)
    BY <1>3, OtherIs, SuffixOfSuffix
  <2> QED
    BY <1>3, <2>1 DEF Unanswered
<1> QED
  BY <1>1, <1>2, <1>3 DEF Unanswered

LEMMA SuffixIsLost ==
  ASSUME NEW r \in Seq(Byte), NEW q \in Seq(Byte), Suffix(q, r), NEW f, NEW k, Lost(r, f, k)
  PROVE  Lost(q, f, k)
<1>1. CASE r = <<>>
  BY <1>1, SuffixOfEmpty DEF Lost
<1>2. CASE f = k + 1 /\ NoWindow(r)
  BY <1>2, HarmlessSuffix DEF Lost
<1> QED
  BY <1>1, <1>2 DEF Lost

(* A byte or a packet that nobody sent for, on a line without a fault.       *)
Noise == {<<kHeader1>>, Other}

LEMMA NoiseIs ==
  ASSUME NEW noise \in Noise
  PROVE  noise \in Seq(Byte) /\ NoWindow(noise) /\ \A f, k : f = k + 1 => Unanswered(noise, f, k)
<1>1. noise \in Seq(Byte)
  BY HeaderIs, OtherIs DEF Noise
<1>2. Suffix(noise, noise)
  <2> DEFINE n == Len(noise)
  <2>1. n \in Nat
    BY <1>1, LenProperties
  <2> HIDE DEF n
  <2>2. n <= n /\ \A j \in 1..n : n - n + j = j
    BY <2>1
  <2>3. \A j \in 1..n : noise[j] = noise[n - n + j]
    BY <2>2
  <2> QED
    BY <2>2, <2>3 DEF Suffix, Ends, n
<1>3. Suffix(noise, <<kHeader1>>) \/ Suffix(noise, Other)
  BY <1>2 DEF Noise
<1> QED
  BY <1>1, <1>3, NoiseIsNone DEF Unanswered

(* Packets that come after all that was on the line.                        *)
LEMMA AnswerComes ==
  ASSUME NEW a, Short(a), NEW r \in Seq(Byte), NEW u, Len(u) <= Len(r), Len(u) \in Nat,
         NEW f, NEW k, Unanswered(r, f, k),
         NEW ra, IsJoin(ra, r, a)
  PROVE  Coming(ra, u, f, k, a)
<1>1. a \in Seq(Byte) /\ Len(a) \in Nat /\ Len(a) >= 8
  BY ShortIs
<1>2. CASE r = <<>>
  <2> DEFINE e == <<>>
             n == Len(a)
             l == Len(ra)
  <2>1. Len(r) = 0 /\ e \in Seq(Byte) /\ Len(e) = 0 /\ Unanswered(e, f, k)
    BY <1>2 DEF Unanswered
  <2>2. ra \in Seq(Byte) /\ l = 0 + n /\ \A i \in 1..n : ra[0 + i] = a[i]
    BY <2>1 DEF IsJoin
  <2>3. n \in Nat /\ n >= 8
    BY <1>1
  <2> HIDE DEF n, e, l
  <2>4. 0 + n = n /\ (\A i \in 1..n : 0 + i = i) /\ n + 0 = n
    BY <2>3
  <2>5. l = n + 0 /\ \A i \in 1..n : ra[i] = a[i]
    BY <2>2, <2>4
  <2>6. IsJoin(ra, a, e)
    BY <2>1, <2>2, <2>5 DEF IsJoin, n, l
  <2>7. Len(u) < Len(a)
    BY <2>1, <2>3 DEF n
  <2> QED
    BY <2>1, <2>6, <2>7 DEF Coming
<1>3. ASSUME NEW noise \in Noise, f = k + 1, Suffix(r, noise)
      PROVE  Coming(ra, u, f, k, a)
  <2> DEFINE t == noise \o a
  <2>1. noise \in Seq(Byte)
    BY NoiseIs
  <2>2. IsJoin(t, noise, a)
    BY <1>1, <2>1, Joined
  <2> HIDE DEF t
  <2>3. t \in Seq(Byte) /\ ra \in Seq(Byte)
    BY <2>2 DEF IsJoin
  <2>4. Suffix(ra, t)
    BY ONLY <1>1, <1>3, <2>1, <2>2, SuffixJoined, r \in Seq(Byte), IsJoin(ra, r, a)
  <2>5. AtEnd(t, a)
    <3>1. CASE noise = <<kHeader1>>
      <4>1. IsJoin(t, <<kHeader1>>, a)
        BY <2>2, <3>1
      <4> QED
        BY <2>3, <4>1, HeaderBefore
    <3>2. CASE noise = Other
      <4>1. IsJoin(t, Other, a)
        BY <2>2, <3>2
      <4> QED
        BY <2>3, <4>1, OtherBefore
    <3> QED
      BY <3>1, <3>2 DEF Noise
  <2>6. AtEnd(ra, a)
    BY <2>3, <2>4, <2>5, HarmlessSuffix
  <2> QED
    BY <1>3, <2>6 DEF Coming
<1> QED
  BY <1>2, <1>3 DEF Unanswered, Noise

(* Noise comes after an answer that is on its way.                          *)
LEMMA MoreComes ==
  ASSUME NEW a \in Seq(Byte), NEW r \in Seq(Byte), NEW t \in Seq(Byte), NEW u,
         NEW f, NEW k, f # k + 1, Coming(r, u, f, k, a),
         NEW g, Unanswered(t, g, k),
         NEW rt, IsJoin(rt, r, t)
  PROVE  Coming(rt, u, g, k, a)
<1>1. PICK e \in Seq(Byte) : Len(u) < Len(a) /\ IsJoin(r, a, e) /\ Unanswered(e, f, k)
  BY DEF Coming
<1>2. e = <<>>
  BY <1>1 DEF Unanswered
<1> DEFINE n == Len(a)
           m == Len(t)
<1>3. n \in Nat /\ m \in Nat /\ Len(e) = 0
  BY <1>2, LenProperties
<1>4. Len(r) = n + 0 /\ \A i \in 1..n : r[i] = a[i]
  BY <1>1, <1>3 DEF IsJoin
<1> HIDE DEF n, m
<1>5. Len(r) = n
  BY <1>3, <1>4
<1>6. /\ rt \in Seq(Byte) /\ Len(rt) = n + m
      /\ (\A i \in 1..n : rt[i] = r[i]) /\ \A i \in 1..m : rt[n + i] = t[i]
  BY <1>5 DEF IsJoin, m
<1>7. \A i \in 1..n : rt[i] = a[i]
  BY <1>4, <1>6
<1>8. IsJoin(rt, a, t)
  BY <1>6, <1>7 DEF IsJoin, n, m
<1> QED
  BY <1>1, <1>8 DEF Coming

LEMMA UnansweredRead ==
  ASSUME NEW p, Parses(p, Id), NEW l \in Seq(Byte), NEW g, NEW m, IsRead(p, l, g, m),
         NEW f, NEW k
  PROVE  /\ Unanswered(Rest(p, l), f, k) => Parses(g, Id) /\ Unanswered(Rest(g, m), f, k)
         /\ Lost(Rest(p, l), f, k) => Parses(g, Id) /\ Lost(Rest(g, m), f, k)
<1> DEFINE r == Rest(p, l)
           q == Rest(g, m)
<1>1. /\ m \in Seq(Byte) /\ r \in Seq(Byte)
      /\ \/ Parses(g, Id) /\ Suffix(q, r) /\ q \in Seq(Byte)
         \/ Done(g, Id) /\ \E c \in Nat : c + Len(m) <= Len(r) /\ Ends(g.packet, r, c)
  BY ReadOf
<1> HIDE DEF r, q
<1>2. ASSUME NoWindow(r) PROVE Parses(g, Id) /\ Suffix(q, r) /\ q \in Seq(Byte)
  <2>1. SUFFICES ASSUME Done(g, Id), NEW c \in Nat, c + Len(m) <= Len(r), Ends(g.packet, r, c)
                 PROVE  FALSE
    BY <1>1
  <2>2. Len(m) \in Nat /\ Len(r) \in Nat
    BY <1>1, LenProperties
  <2>3. c <= Len(r)
    BY <2>1, <2>2
  <2> QED
    BY <1>2, <2>1, <2>3 DEF NoWindow, Window, Done
<1>3. ASSUME Unanswered(r, f, k) PROVE Parses(g, Id) /\ Unanswered(q, f, k)
  <2>1. NoWindow(r)
    BY <1>1, <1>3, UnansweredIsLost
  <2> QED
    BY ONLY <1>1, <1>2, <1>3, <2>1, SuffixIsUnanswered
<1>4. ASSUME Lost(r, f, k) PROVE Parses(g, Id) /\ Lost(q, f, k)
  <2>1. NoWindow(r)
    BY <1>4, LostIsNone
  <2> QED
    BY ONLY <1>1, <1>2, <1>4, <2>1, SuffixIsLost
<1> QED
  BY <1>3, <1>4 DEF r, q

(* What is left in the port when the answer is taken would not disturb       *)
(* another call.                                                            *)
LEMMA ComingRead ==
  ASSUME NEW p, Parses(p, Id), NEW l \in Seq(Byte), NEW g, NEW m, IsRead(p, l, g, m),
         NEW f, NEW k,
         NEW a, Short(a), Coming(Rest(p, l), Live(p), f, k, a)
  PROVE  \/ Parses(g, Id) /\ Coming(Rest(g, m), Live(g), f, k, a)
         \/ Done(g, Id) /\ g.packet = a /\ Unanswered(m, f, k)
<1> DEFINE r == Rest(p, l)
           q == Rest(g, m)
           u == Live(p)
           v == Live(g)
<1>1. /\ m \in Seq(Byte) /\ r \in Seq(Byte) /\ Suffix(m, r)
      /\ \/ Parses(g, Id) /\ Suffix(q, r) /\ q \in Seq(Byte)
         \/ Done(g, Id) /\ \E c \in Nat : c + Len(m) <= Len(r) /\ Ends(g.packet, r, c)
      /\ \A b : Whole(b, Id) /\ Len(u) < Len(b) /\ Agrees(r, b) =>
           \/ Parses(g, Id) /\ q = r /\ Len(v) < Len(b)
           \/ Done(g, Id) /\ g.packet = b /\ Len(b) + Len(m) <= Len(r)
  BY ReadOf
<1>2. Coming(r, u, f, k, a)
  OBVIOUS
<1> HIDE DEF r, q, u, v
<1>3. Whole(a, Id) /\ a \in Seq(Byte) /\ Len(a) \in Nat /\ Len(m) \in Nat /\ Len(r) \in Nat
  BY <1>1, LenProperties DEF Short, Whole
<1>4. ASSUME NEW t \in Seq(Byte), IsJoin(r, a, t), Unanswered(t, f, k), Len(u) < Len(a)
      PROVE  \/ Parses(g, Id) /\ Coming(q, v, f, k, a)
             \/ Done(g, Id) /\ g.packet = a /\ Unanswered(m, f, k)
  <2>0. Len(t) \in Nat /\ Len(r) = Len(a) + Len(t) /\ \A i \in 1..Len(a) : r[i] = a[i]
    BY <1>4, LenProperties DEF IsJoin
  <2>1. Agrees(r, a)
    <3>1. ASSUME NEW j \in 1..Len(r), j <= Len(a) PROVE r[j] = a[j]
      <4>1. j \in 1..Len(a)
        BY <1>3, <3>1
      <4> QED
        BY <2>0, <4>1
    <3> QED
      BY <3>1 DEF Agrees
  <2>2. \/ Parses(g, Id) /\ q = r /\ Len(v) < Len(a)
        \/ Done(g, Id) /\ g.packet = a /\ Len(a) + Len(m) <= Len(r)
    BY <1>1, <1>3, <1>4, <2>1
  <2>3. CASE Parses(g, Id) /\ q = r /\ Len(v) < Len(a)
    BY <1>4, <2>3 DEF Coming
  <2>4. CASE Done(g, Id) /\ g.packet = a /\ Len(a) + Len(m) <= Len(r)
    <3>1. Len(m) <= Len(t)
      BY <1>3, <2>0, <2>4
    <3>2. Suffix(t, r)
      BY <1>3, <1>4, AfterIsSuffix
    <3>3. Suffix(m, t)
      BY ONLY <1>1, <3>1, <3>2, ShorterSuffix, t \in Seq(Byte)
    <3>4. Unanswered(m, f, k)
      BY ONLY <1>1, <1>4, <3>3, SuffixIsUnanswered
    <3> QED
      BY <2>4, <3>4
  <2> QED
    BY <2>2, <2>3, <2>4
<1>5. CASE f = k + 1 /\ AtEnd(r, a)
  <2>1. CASE Parses(g, Id) /\ Suffix(q, r) /\ q \in Seq(Byte)
    <3>1. AtEnd(q, a)
      BY ONLY <1>1, <1>5, <2>1, HarmlessSuffix
    <3>2. Coming(q, v, f, k, a)
      BY <1>5, <3>1 DEF Coming
    <3> QED
      BY <2>1, <3>2 DEF q, v
  <2>2. CASE Done(g, Id) /\ \E c \in Nat : c + Len(m) <= Len(r) /\ Ends(g.packet, r, c)
    <3>1. PICK c \in Nat : c + Len(m) <= Len(r) /\ Ends(g.packet, r, c)
      BY <2>2
    <3>2. c <= Len(r) /\ Whole(g.packet, Id)
      BY <1>3, <2>2, <3>1 DEF Done
    <3>3. g.packet = a /\ c = Len(r)
      BY <1>5, <3>1, <3>2 DEF AtEnd
    <3>4. Len(m) = 0
      BY <1>3, <3>1, <3>3
    <3>5. m = <<>>
      BY <1>1, <3>4, EmptySeq
    <3> QED
      BY <2>2, <3>3, <3>5 DEF Unanswered
  <2> QED
    BY <1>1, <2>1, <2>2
<1> QED
  BY <1>2, <1>4, <1>5 DEF Coming, q, v

-----------------------------------------------------------------------------
(* The type of every variable, with what the next step needs of it.         *)

Requests == {RequestOf(c) : c \in Calls}
CallStates == [c : Calls, clean : BOOLEAN, faults : Nat]
Errors == {e \in [category : {"system", "warning"}, value : Word] :
             e.category = "warning" => e.value # 0}
Accepted == {p \in Seq(Byte) : p = <<>> \/ Whole(p, Id)}
Outcomes == [error : Errors, data : Seq(Byte)]
Results == [call : CallStates, error : Errors, data : Seq(Byte), packet : Accepted]
Memories == [1..MemorySize -> Byte]
Servos == [version : {"A", "B"}, memory : Memories, synced : {<<>>} \cup Memories,
           eeprom : {<<>>} \cup Memories, running : BOOLEAN]

(* The calls of a tool; only exxx_write makes three.                        *)
MostCalls == IF job.program = "exxx_read" THEN 2 ELSE 3

LineTyped ==
  /\ line \in Seq(Byte)
  /\ requests \in Seq(Requests)
  /\ servo \in Servos
  /\ faults \in Nat /\ faults <= MaxFaults

HostTyped ==
  /\ job \in Jobs
  /\ pc \in {"open", "ready", "sending", "receiving", "exited"}
  /\ call \in CallStates /\ call.faults <= faults
  /\ num_done \in 0..Len(RequestOf(call.c))
  /\ polled \in BOOLEAN
  /\ parser_ \in Parsers(Id)
  /\ pc = "receiving" => Parses(parser_, Id) /\ call.c.name # "WriteEeprom"
  /\ results \in Seq(Results)
  /\ pc = "open" => results = <<>>
  /\ job.program # "library" => Len(results) <= MostCalls
  /\ job.program # "library" /\ pc \in {"sending", "receiving"} => Len(results) < MostCalls
  /\ exit_code \in {"none", "success", "failure"}

Typed == LineTyped /\ HostTyped

-----------------------------------------------------------------------------
(* What the calls make of an answer or an error.                            *)

LEMMA SystemErrors ==
  /\ Success \in Errors /\ timed_out \in Errors /\ SystemError(EIO) \in Errors
  /\ bad_message \in Errors /\ protocol_error \in Errors /\ message_size \in Errors
<1>1. \A n \in Word : SystemError(n) \in Errors
  BY DEF SystemError, Errors
<1>2. 0 \in Word /\ 110 \in Word /\ 5 \in Word /\ 74 \in Word /\ 71 \in Word /\ 90 \in Word
  BY DEF Word
<1> QED
  BY <1>1, <1>2 DEF Success, timed_out, EIO, bad_message, protocol_error, message_size

LEMMA ResultIs ==
  ASSUME NEW c \in Calls, c.name # "WriteEeprom", NEW error \in Errors, NEW data \in Seq(Byte)
  PROVE  Result(c, error, data) \in Outcomes
<1>0. c.name \in Names /\ <<>> \in Seq(Byte)
  BY DEF Calls
<1>1. CASE c.name = "ReadData"
  BY <1>0, <1>1, SystemErrors DEF Result, ReadBlockResult, Outcomes
<1>2. CASE c.name = "WriteData"
  BY <1>0, <1>2 DEF Result, WriteBlockResult, Outcomes
<1>3. CASE c.name = "ReadHash"
  BY <1>0, <1>3, SystemErrors DEF Result, ReadHashResult, Outcomes
<1>4. CASE c.name = "Ping"
  BY <1>0, <1>4, SystemErrors DEF Result, PingResult, Outcomes
<1>5. CASE c.name = "SyncParam"
  BY <1>0, <1>5, SystemErrors DEF Result, SyncParamResult, Outcomes
<1>6. CASE c.name = "AvagoAvePos"
  BY <1>0, <1>6, SystemErrors DEF Result, AvagoAvePosResult, Outcomes
<1>7. CASE c.name = "Reset"
  <2> DEFINE e == CASE error.value = timed_out.value -> Success
                    [] error.value # timed_out.value /\ IsSystemError(error) -> error
                    [] OTHER -> bad_message
  <2>1. e \in Errors
    BY SystemErrors
  <2>2. Result(c, error, data) = [error |-> e, data |-> <<>>]
    BY <1>7 DEF Result, ResetResult
  <2> HIDE DEF e
  <2> QED
    BY <1>0, <2>1, <2>2 DEF Outcomes
<1> QED
  BY <1>0, <1>1, <1>2, <1>3, <1>4, <1>5, <1>6, <1>7 DEF Names

LEMMA ReturnIs ==
  ASSUME HostTyped, NEW outcome \in Outcomes, NEW packet \in Accepted, Return(outcome, packet)
  PROVE  /\ results' \in Seq(Results) /\ Len(results') = Len(results) + 1
         /\ results'[Len(results')] = [call |-> call, error |-> outcome.error, data |-> outcome.data,
                                       packet |-> packet]
         /\ results' # <<>>
         /\ pc' = "ready" /\ UNCHANGED <<call, output, exit_code>>
<1> DEFINE r == [call |-> call, error |-> outcome.error, data |-> outcome.data, packet |-> packet]
<1>1. call \in CallStates /\ results \in Seq(Results)
  BY DEF HostTyped
<1>2. r \in Results
  BY <1>1 DEF Results, Outcomes
<1>3. results' = Append(results, r) /\ pc' = "ready" /\ UNCHANGED <<call, output, exit_code>>
  BY DEF Return
<1> HIDE DEF r
<1>4. /\ results' \in Seq(Results) /\ Len(results') = Len(results) + 1
      /\ results'[Len(results) + 1] = r
  BY <1>1, <1>2, <1>3, AppendProperties
<1>5. results' # <<>>
  <2>1. Len(results') # 0
    BY <1>1, <1>4, LenProperties
  <2> QED
    BY <2>1
<1> QED
  BY <1>3, <1>4, <1>5 DEF r

-----------------------------------------------------------------------------
(* What the servo does with a request, and what its answer says of it.      *)

StoredIn(s, addr, size) == [i \in 1..size |-> s.memory[addr + i]]

Truthful(a, c, s) ==
  /\ c.name = "ReadData" /\ Len(PacketData(a)) = c.size =>
       PacketData(a) = StoredIn(s, c.addr, c.size)
  /\ c.name = "WriteData" /\ PacketStatus(a) = 0 => StoredIn(s, c.addr, c.size) = c.data
  /\ c.name = "SyncParam" => s.synced = s.memory
  /\ c.name = "ReadHash" => PacketData(a) = HashOf[s.version] \o FirmwareHash
  /\ c.name = "Reset" => s.running

(* What is left of an answer that lost its first byte begins with the       *)
(* second of the header, and no other does.                                 *)
Piece(d, a) == d \in Seq(Byte) /\ NoWindow(d) /\ (d[1] # 85 \/ d = Without(a, 1))
Silent == UNCHANGED <<line, faults>>
Arrives(a) ==
  \/ line' = line \o a /\ UNCHANGED faults
  \/ /\ faults < MaxFaults /\ faults' = faults + 1
     /\ \/ line' = line
        \/ \E d : Piece(d, a) /\ line' = line \o d

LEMMA ChangedBegins ==
  ASSUME NEW a, Short(a), NEW i \in 1..Len(a)
  PROVE  Changed(a, i)[1] # 85
<1> DEFINE n == Len(a)
<1>1. a \in Seq(Byte) /\ n \in Nat /\ n >= 8 /\ a[1] = 170
  BY ShortIs
<1>2. DOMAIN a = 1..n
  BY <1>1, LenProperties
<1> HIDE DEF n
<1>3. 1 \in 1..n
  BY <1>1
<1>4. Changed(a, i)[1] = IF i = 1 THEN (a[i] + 1) % 256 ELSE a[1]
  BY <1>2, <1>3 DEF Changed
<1>5. (170 + 1) % 256 = 171
  OBVIOUS
<1> QED
  BY <1>1, <1>4, <1>5

LEMMA ShortenedBegins ==
  ASSUME NEW a, Short(a), NEW i \in 1..Len(a), i # 1
  PROVE  Without(a, i)[1] # 85
<1> DEFINE n == Len(a)
<1>1. a \in Seq(Byte) /\ n \in Nat /\ n >= 8 /\ a[1] = 170
  BY ShortIs
<1>2. \A j \in 1..n - 1 : Without(a, i)[j] = IF j < i THEN a[j] ELSE a[j + 1]
  BY <1>1, WithoutIs
<1> HIDE DEF n
<1>3. 1 \in 1..n - 1 /\ 1 < i
  BY <1>1 DEF n
<1> QED
  BY <1>1, <1>2, <1>3

LEMMA PutIs ==
  ASSUME NEW status \in Word, NEW data \in Seq(Byte), Len(data) <= 3, Put(status, data)
  PROVE  \E a : /\ Short(a) /\ Arrives(a)
               /\ PacketStatus(a) = status /\ PacketData(a) = data
<1> DEFINE a == StatusPacket(Id, status, data)
<1>1. /\ \/ line' = line \o a /\ UNCHANGED faults
         \/ /\ faults < MaxFaults
            /\ faults' = faults + 1
            /\ line' \in {line} \cup {line \o d : d \in UNION {Damaged(a, i) : i \in 1..Len(a)}}
  BY DEF Put
<1>2. Id \in Byte /\ Len(data) \in Nat /\ Len(data) + 3 <= 65535
  BY LenProperties DEF Id, Byte
<1>3. IsAnswer(a, Id, status, data)
  BY <1>2, StatusPacketIs
<1> HIDE DEF a
<1>4. Short(a) /\ PacketStatus(a) = status /\ PacketData(a) = data
  BY <1>2, <1>3 DEF IsAnswer, Short
<1>5. ASSUME NEW i \in 1..Len(a), NEW d \in Damaged(a, i)
      PROVE  Piece(d, a)
  <2>1. [a EXCEPT ![i] = (@ + 1) % 256] = Changed(a, i)
    BY DEF Changed
  <2>2. d = Changed(a, i) \/ d = Without(a, i)
    BY <1>5, <2>1 DEF Damaged
  <2>3. d \in Seq(Byte) /\ NoWindow(d)
    BY <1>4, <2>2, ChangedIsLost, ShortenedIsLost
  <2>4. d[1] # 85 \/ d = Without(a, 1)
    BY <1>4, <2>2, ChangedBegins, ShortenedBegins
  <2> QED
    BY <2>3, <2>4 DEF Piece
<1>6. Arrives(a)
  BY <1>1, <1>5 DEF Arrives
<1> QED
  BY <1>4, <1>6

LEMMA StatusIs ==
  ASSUME NEW s \in Statuses
  PROVE  s \in Word
BY StatusesAssumption DEF Word

LEMMA StoredIs ==
  ASSUME NEW s \in Servos, NEW addr \in Word, NEW size \in Word, InMemory(addr, size)
  PROVE  StoredIn(s, addr, size) \in Seq(Byte) /\ Len(StoredIn(s, addr, size)) = size /\ size <= 3
<1>1. addr \in Nat /\ size \in Nat /\ addr + size <= 3
  BY DEF Word, InMemory, MemorySize
<1>2. s.memory \in [1..3 -> Byte]
  BY DEF Servos, Memories, MemorySize
<1> DEFINE t == StoredIn(s, addr, size)
<1>3. t \in [1..size -> Byte]
  BY <1>1, <1>2 DEF StoredIn
<1> HIDE DEF t
<1>4. t \in Seq(Byte) /\ Len(t) = size
  <2>1. t \in Seq(Byte)
    BY <1>1, <1>3, SeqDef
  <2>2. DOMAIN t = 1..size
    BY <1>3
  <2> QED
    BY <1>1, <2>1, <2>2, LenProperties
<1> QED
  BY <1>1, <1>4 DEF t

LEMMA OverwrittenIs ==
  ASSUME servo \in Servos, NEW addr \in Word, NEW data \in Seq(Byte), InMemory(addr, Len(data)),
         NEW s, s = [servo EXCEPT !.memory = Overwritten(addr, data)]
  PROVE  s \in Servos /\ StoredIn(s, addr, Len(data)) = data
<1> DEFINE n == Len(data)
           m == Overwritten(addr, data)
<1>1. addr \in Nat /\ n \in Nat /\ addr + n <= 3
  BY LenProperties DEF Word, InMemory, MemorySize
<1>2. data \in [1..n -> Byte]
  BY LenProperties
<1>3. servo.memory \in [1..3 -> Byte]
  BY DEF Servos, Memories, MemorySize
<1>4. m = [i \in 1..3 |-> IF i \in addr + 1..addr + n THEN data[i - addr] ELSE servo.memory[i]]
  BY DEF Overwritten, MemorySize
<1> HIDE DEF n
<1>5. \A i \in 1..3 : i \in addr + 1..addr + n => i - addr \in 1..n
  BY <1>1
<1>6. m \in [1..3 -> Byte]
  <2> HIDE DEF m
  <2> QED
    BY <1>2, <1>3, <1>4, <1>5
<1>7. ASSUME NEW i \in 1..n PROVE m[addr + i] = data[i]
  <2>1. addr + i \in 1..3 /\ addr + i \in addr + 1..addr + n /\ (addr + i) - addr = i
    BY <1>1
  <2> HIDE DEF m
  <2> QED
    BY <1>4, <2>1
<1>8. s \in Servos /\ s.memory = m
  <2>1. m \in Memories
    BY <1>6 DEF Memories, MemorySize
  <2> HIDE DEF m
  <2>2. s = [servo EXCEPT !.memory = m]
    BY DEF m
  <2> QED
    BY <2>1, <2>2 DEF Servos
<1>9. StoredIn(s, addr, n) = data
  <2> HIDE DEF m
  <2>1. StoredIn(s, addr, n) = [i \in 1..n |-> data[i]]
    BY <1>7, <1>8 DEF StoredIn
  <2> QED
    BY <1>2, <2>1
<1> QED
  BY <1>8, <1>9 DEF n

LEMMA HashIs ==
  ASSUME NEW s \in Servos
  PROVE  /\ HashOf[s.version] \o FirmwareHash \in Seq(Byte)
         /\ Len(HashOf[s.version] \o FirmwareHash) = 3
<1> DEFINE h == HashOf[s.version]
<1>1. h \in Seq(Byte) /\ Len(h) = 2
  <2>1. 1 \in Byte /\ 2 \in Byte
    BY DEF Byte
  <2>2. <<1, 1>> \in Seq(Byte) /\ <<2, 2>> \in Seq(Byte) /\ Len(<<1, 1>>) = 2 /\ Len(<<2, 2>>) = 2
    BY <2>1
  <2>3. h = <<1, 1>> \/ h = <<2, 2>>
    BY DEF Servos, HashOf
  <2> QED
    BY <2>2, <2>3
<1>2. FirmwareHash \in Seq(Byte) /\ Len(FirmwareHash) = 1
  <2>1. 9 \in Byte
    BY DEF Byte
  <2> QED
    BY <2>1 DEF FirmwareHash
<1> HIDE DEF h
<1>3. h \o FirmwareHash \in Seq(Byte) /\ Len(h \o FirmwareHash) = 3
  <2>1. IsJoin(h \o FirmwareHash, h, FirmwareHash)
    BY <1>1, <1>2, Joined
  <2> QED
    BY <1>1, <1>2, <2>1 DEF IsJoin
<1> QED
  BY <1>3 DEF h

Answered(c) ==
  /\ servo' \in Servos /\ servo'.version = servo.version
  /\ c.name # "WriteData" => servo'.memory = servo.memory
  /\ \/ Silent
     \/ \E a : Short(a) /\ Arrives(a) /\ Truthful(a, c, servo')

LEMMA NameIs ==
  ASSUME NEW c \in Calls, Head(requests) = RequestOf(c)
  PROVE  /\ Head_(6) = Instruction.ReadData => c.name = "ReadData"
         /\ Head_(6) = Instruction.WriteData => c.name = "WriteData"
         /\ Head_(6) = Instruction.SyncParam => c.name = "SyncParam"
         /\ Head_(6) = Instruction.WriteEeprom => c.name = "WriteEeprom"
         /\ Head_(6) = Instruction.Reset => c.name = "Reset"
         /\ Head_(6) = Instruction.ReadHash => c.name = "ReadHash"
         /\ Head_(6) \in {Instruction.Ping, Instruction.AvagoAvePos} => c.name \in {"Ping", "AvagoAvePos"}
<1>1. c.name \in Names
  BY DEF Calls
<1>2. Head_(6) = Instruction[c.name]
  BY HeadIs
<1> QED
  BY <1>1, <1>2 DEF Names, Instruction

(* An answer without data, to a call that reads none.                       *)
LEMMA AckIs ==
  ASSUME NEW s \in Statuses, Put(s, <<>>)
  PROVE  \E a : Short(a) /\ Arrives(a) /\ PacketStatus(a) = s /\ PacketData(a) = <<>>
<1> DEFINE e == <<>>
<1>1. s \in Word /\ e \in Seq(Byte) /\ Len(e) <= 3 /\ Put(s, e)
  BY StatusIs
<1> HIDE DEF e
<1>2. \E a : Short(a) /\ Arrives(a) /\ PacketStatus(a) = s /\ PacketData(a) = e
  BY <1>1, PutIs
<1> QED
  BY <1>2 DEF e

LEMMA RefusalIs ==
  ASSUME Put(4096, <<>>)
  PROVE  \E a : Short(a) /\ Arrives(a) /\ PacketStatus(a) = 4096 /\ PacketData(a) = <<>>
<1> DEFINE e == <<>>
           n == 4096
<1>1. n \in Word /\ e \in Seq(Byte) /\ Len(e) <= 3 /\ Put(n, e)
  BY DEF Word
<1> HIDE DEF e, n
<1>2. \E a : Short(a) /\ Arrives(a) /\ PacketStatus(a) = n /\ PacketData(a) = e
  BY <1>1, PutIs
<1> QED
  BY <1>2 DEF e, n

LEMMA ReadsAnswer ==
  ASSUME NEW c \in Calls, servo \in Servos, Head(requests) = RequestOf(c), ServoReads
  PROVE  Answered(c)
<1> DEFINE addr == Uint16(Arguments, 1)
           size == Uint16(Arguments, 3)
           d == Stored(addr, size)
<1>1. /\ Head_(6) = Instruction.ReadData
      /\ IF InMemory(addr, size) THEN \E s \in Statuses : Put(s, d) ELSE Put(4096, <<>>)
      /\ servo' = servo
  BY DEF ServoReads
<1>2. c.name = "ReadData" /\ c.addr \in Word /\ c.size \in Word /\ c.size >= 1
  <2>1. c.name = "ReadData"
    BY <1>1, NameIs
  <2> QED
    BY <2>1 DEF Calls
<1>3. addr = c.addr /\ size = c.size
  BY <1>2, HeadIs, SendDataIs
<1>4. d = StoredIn(servo, c.addr, c.size)
  BY <1>3 DEF Stored, StoredIn
<1> HIDE DEF addr, size, d
<1>5. CASE InMemory(addr, size)
  <2>1. PICK s \in Statuses : Put(s, d)
    BY <1>1, <1>5
  <2>2. s \in Word /\ d \in Seq(Byte) /\ Len(d) <= 3
    <3>1. d \in Seq(Byte) /\ Len(d) = c.size /\ c.size <= 3
      BY <1>2, <1>3, <1>4, <1>5, StoredIs
    <3> QED
      BY <3>1, StatusIs
  <2>3. PICK a : Short(a) /\ Arrives(a) /\ PacketStatus(a) = s /\ PacketData(a) = d
    BY <2>1, <2>2, PutIs
  <2>4. Truthful(a, c, servo')
    BY <1>1, <1>2, <1>4, <2>3 DEF Truthful
  <2> QED
    BY <1>1, <2>3, <2>4 DEF Answered
<1>6. CASE ~ InMemory(addr, size)
  <2>1. PICK a : Short(a) /\ Arrives(a) /\ PacketStatus(a) = 4096 /\ PacketData(a) = <<>>
    BY <1>1, <1>6, RefusalIs
  <2>2. Len(PacketData(a)) # c.size
    BY <1>2, <2>1
  <2>3. Truthful(a, c, servo')
    BY <1>2, <2>2 DEF Truthful
  <2> QED
    BY <1>1, <2>1, <2>3 DEF Answered
<1> QED
  BY <1>5, <1>6

LEMMA WritesAnswer ==
  ASSUME NEW c \in Calls, servo \in Servos, Head(requests) = RequestOf(c), ServoWrites
  PROVE  Answered(c)
<1> DEFINE addr == Uint16(Arguments, 1)
           data == SubSeq(Arguments, 3, Len(Arguments))
<1>1. /\ Head_(6) = Instruction.WriteData
      /\ \/ /\ InMemory(addr, Len(data))
            /\ servo' = [servo EXCEPT !.memory = Overwritten(addr, data)]
            /\ \E s \in Statuses : Put(s, <<>>)
         \/ servo' = servo /\ Put(4096, <<>>)
  BY DEF ServoWrites
<1>2. c.name = "WriteData" /\ c.addr \in Word /\ c.data \in Seq(Byte) /\ c.size = Len(c.data)
  <2>1. c.name = "WriteData"
    BY <1>1, NameIs
  <2> QED
    BY <2>1 DEF Calls
<1>3. addr = c.addr /\ data = c.data
  BY <1>2, HeadIs, SendDataIs
<1> HIDE DEF addr, data
<1>4. CASE /\ InMemory(addr, Len(data))
           /\ servo' = [servo EXCEPT !.memory = Overwritten(addr, data)]
           /\ \E s \in Statuses : Put(s, <<>>)
  <2>1. servo' \in Servos /\ StoredIn(servo', c.addr, c.size) = c.data
    BY <1>2, <1>3, <1>4, OverwrittenIs
  <2>5. servo'.version = servo.version
    <3> DEFINE o == Overwritten(addr, data)
    <3>1. servo' = [servo EXCEPT !.memory = o]
      BY <1>4
    <3> HIDE DEF o
    <3> QED
      BY <3>1 DEF Servos
  <2>2. PICK s \in Statuses : Put(s, <<>>)
    BY <1>4
  <2>3. PICK a : Short(a) /\ Arrives(a)
    BY <2>2, AckIs
  <2>4. Truthful(a, c, servo')
    BY <1>2, <2>1 DEF Truthful
  <2> QED
    BY <1>2, <2>1, <2>3, <2>4, <2>5 DEF Answered
<1>5. CASE servo' = servo /\ Put(4096, <<>>)
  <2>1. PICK a : Short(a) /\ Arrives(a) /\ PacketStatus(a) = 4096
    BY <1>5, RefusalIs
  <2>2. Truthful(a, c, servo')
    BY <1>2, <2>1 DEF Truthful
  <2> QED
    BY <1>5, <2>1, <2>2 DEF Answered
<1> QED
  BY <1>1, <1>4, <1>5

LEMMA OthersAnswer ==
  ASSUME NEW c \in Calls, servo \in Servos, servo.running, Head(requests) = RequestOf(c),
         ServoSyncs \/ ServoSaves \/ ServoResets \/ ServoTells
  PROVE  Answered(c)
<1>1. CASE ServoSyncs
  <2>1. /\ servo' = [servo EXCEPT !.synced = servo.memory]
        /\ Head_(6) = Instruction.SyncParam
    BY <1>1 DEF ServoSyncs
  <2>2. PICK s \in Statuses : Put(s, <<>>)
    BY <1>1 DEF ServoSyncs
  <2>3. PICK a : Short(a) /\ Arrives(a)
    BY <2>2, AckIs
  <2>4. c.name = "SyncParam"
    BY <2>1, NameIs
  <2>5. servo' \in Servos /\ servo'.synced = servo'.memory /\ servo'.version = servo.version
        /\ servo'.memory = servo.memory
    BY <2>1 DEF Servos
  <2>6. Truthful(a, c, servo')
    BY <2>4, <2>5 DEF Truthful
  <2> QED
    BY <2>3, <2>5, <2>6 DEF Answered
<1>2. CASE ServoSaves
  <2>1. servo' = [servo EXCEPT !.eeprom = servo.memory] /\ UNCHANGED <<line, faults>>
    BY <1>2 DEF ServoSaves
  <2>2. servo' \in Servos /\ servo'.version = servo.version /\ servo'.memory = servo.memory
    BY <2>1 DEF Servos
  <2> QED
    BY <2>1, <2>2 DEF Answered, Silent
<1>3. CASE ServoResets
  <2>1. CASE servo' = [servo EXCEPT !.running = FALSE] /\ UNCHANGED <<line, answers, faults>>
    <3>1. servo' \in Servos /\ servo'.version = servo.version /\ servo'.memory = servo.memory
      BY <2>1 DEF Servos
    <3> QED
      BY <2>1, <3>1 DEF Answered, Silent
  <2>2. CASE UNCHANGED servo /\ \E s \in Statuses : Put(s, <<>>)
    <3>1. PICK s \in Statuses : Put(s, <<>>)
      BY <2>2
    <3>2. PICK a : Short(a) /\ Arrives(a)
      BY <3>1, AckIs
    <3>3. c.name = "Reset"
      BY <1>3, NameIs DEF ServoResets
    <3>4. servo' = servo /\ servo'.running
      BY <2>2
    <3> QED
      BY <2>2, <3>2, <3>3, <3>4 DEF Answered, Truthful
  <2> QED
    BY <1>3, <2>1, <2>2 DEF ServoResets
<1>4. CASE ServoTells
  <2>1. servo' = servo
    BY <1>4 DEF ServoTells
  <2>2. CASE Head_(6) \in {Instruction.Ping, Instruction.AvagoAvePos} /\ \E s \in Statuses : Put(s, <<>>)
    <3>1. PICK s \in Statuses : Put(s, <<>>)
      BY <2>2
    <3>2. PICK a : Short(a) /\ Arrives(a)
      BY <3>1, AckIs
    <3>3. c.name \in {"Ping", "AvagoAvePos"}
      BY <2>2, NameIs
    <3>4. Truthful(a, c, servo')
      BY <3>3 DEF Truthful
    <3> QED
      BY <2>1, <3>2, <3>4 DEF Answered
  <2>3. CASE /\ Head_(6) = Instruction.ReadHash
             /\ \E s \in Statuses : Put(s, HashOf[servo.version] \o FirmwareHash)
    <3> DEFINE d == HashOf[servo.version] \o FirmwareHash
    <3>1. PICK s \in Statuses : Put(s, d)
      BY <2>3
    <3>2. s \in Word /\ d \in Seq(Byte) /\ Len(d) <= 3
      <4>1. d \in Seq(Byte) /\ Len(d) = 3
        BY HashIs
      <4> QED
        BY <4>1, StatusIs
    <3>3. c.name = "ReadHash"
      BY <2>3, NameIs
    <3> HIDE DEF d
    <3>4. PICK a : Short(a) /\ Arrives(a) /\ PacketData(a) = d
      BY <3>1, <3>2, PutIs
    <3>5. Truthful(a, c, servo')
      BY <2>1, <3>3, <3>4 DEF Truthful, d
    <3> QED
      BY <2>1, <3>4, <3>5 DEF Answered
  <2> QED
    BY <1>4, <2>2, <2>3 DEF ServoTells
<1> QED
  BY <1>1, <1>2, <1>3, <1>4

LEMMA HeadOf ==
  ASSUME requests \in Seq(Requests), requests # <<>>
  PROVE  /\ Tail(requests) \in Seq(Requests)
         /\ \E c \in Calls : Head(requests) = RequestOf(c)
<1>1. Head(requests) \in Requests /\ Tail(requests) \in Seq(Requests)
  BY HeadTailProperties
<1> QED
  BY <1>1 DEF Requests

LEMMA ServoAnswersIs ==
  ASSUME NEW c \in Calls, servo \in Servos, Head(requests) = RequestOf(c), ServoAnswers
  PROVE  Answered(c)
<1>1. CASE /\ servo.running
           /\ ServoReads \/ ServoWrites \/ ServoSyncs \/ ServoSaves \/ ServoResets \/ ServoTells
  BY <1>1, ReadsAnswer, WritesAnswer, OthersAnswer
<1>2. CASE UNCHANGED <<line, servo, answers, faults>>
  BY <1>2 DEF Answered, Silent
<1> QED
  BY <1>1, <1>2 DEF ServoAnswers

-----------------------------------------------------------------------------
(* What the programs do: the next call, or the end.                         *)

Proceeds ==
  \E c \in Calls : Begin(c) /\ (job.program # "library" => Len(results) < MostCalls)
Exits == \E code \in {"success", "failure"} : \E text : Exit(code, text)

LEMMA FailExits == Fail => Exits
BY DEF Fail, Exits

LEMMA LibraryIs ==
  ASSUME Library
  PROVE  Proceeds \/ Exits
<1>1. job.program = "library"
  BY DEF Library
<1>2. CASE Len(results) < MaxCalls
  <2>1. PICK c \in LibraryCalls : Begin(c)
    BY <1>2 DEF Library
  <2>2. Read(1, 2) \in Calls
    <3>1. 1 \in Word /\ 2 \in Word /\ 2 >= 1
      BY DEF Word
    <3> QED
      BY <3>1, ReadCallIs
  <2>3. Write(0, <<kHeader1, kHeader2>>) \in Calls
    <3> DEFINE d == <<kHeader1, kHeader2>>
    <3>1. kHeader1 \in Byte /\ kHeader2 \in Byte /\ 0 \in Word
      BY DEF kHeader1, kHeader2, Byte, Word
    <3>2. d \in Seq(Byte) /\ Len(d) <= 2
      BY <3>1
    <3> HIDE DEF d
    <3>3. Write(0, d) \in Calls
      BY <3>1, <3>2, WriteCallIs
    <3> QED
      BY <3>3 DEF d
  <2>4. \A name \in {"Ping", "Reset", "SyncParam", "AvagoAvePos", "WriteEeprom", "ReadHash"} :
          Plain(name) \in Calls
    BY PlainIs DEF Names
  <2>5. c \in Calls
    BY <2>2, <2>3, <2>4 DEF LibraryCalls
  <2> QED
    BY <1>1, <2>1, <2>5 DEF Proceeds
<1>3. CASE ~ (Len(results) < MaxCalls)
  BY <1>3 DEF Library, Exits
<1> QED
  BY <1>2, <1>3

LEMMA PlainCalls ==
  /\ Plain("ReadHash") \in Calls /\ Plain("WriteEeprom") \in Calls /\ Plain("SyncParam") \in Calls
BY PlainIs DEF Names

LEMMA NoneIsFew == results = <<>> => Len(results) < MostCalls
BY DEF MostCalls

LEMMA ReadDataToolIs ==
  ASSUME HostTyped, ReadDataTool
  PROVE  Proceeds \/ Exits
<1>1. JobTyped(job)
  BY JobIs DEF HostTyped
<1>2. CASE job.size \notin {1, 2, 4, 8}
  BY <1>2, FailExits DEF ReadDataTool
<1>3. CASE job.size \in {1, 2, 4, 8} /\ results = <<>>
  <2>1. job.addr \in Word /\ job.size \in Word /\ job.size >= 1
    BY <1>1, <1>3 DEF JobTyped, Word
  <2>2. Read(job.addr, job.size) \in Calls
    BY <2>1, ReadCallIs
  <2>3. Begin(Read(job.addr, job.size))
    BY <1>3 DEF ReadDataTool
  <2> QED
    BY <1>3, <2>2, <2>3, NoneIsFew DEF Proceeds
<1>4. CASE job.size \in {1, 2, 4, 8} /\ results # <<>>
  <2>1. IF IsSystemError(LastResult.error) THEN Exit("failure", [i \in 1..job.size |-> 0])
        ELSE Exit("success", LastResult.data)
    BY <1>4 DEF ReadDataTool
  <2> QED
    BY <2>1 DEF Exits
<1> QED
  BY <1>2, <1>3, <1>4

LEMMA WriteDataToolIs ==
  ASSUME HostTyped, WriteDataTool
  PROVE  Proceeds \/ Exits
<1>1. JobTyped(job) /\ job.program = "exxx_write_data"
  BY JobIs DEF HostTyped, WriteDataTool
<1>2. CASE job.size \notin {1, 2, 4, 8}
  BY <1>2, FailExits DEF WriteDataTool
<1>3. CASE job.size \in {1, 2, 4, 8} /\ results = <<>>
  <2> DEFINE d == LowBytes(job.value, job.size)
  <2>1. job.addr \in Word /\ job.size \in {1, 2} /\ job.value = 515
    BY <1>1, <1>3 DEF JobTyped, Word
  <2>2. d \in Seq(Byte) /\ Len(d) <= 2
    <3> DEFINE z == job.size
               n == job.value
    <3>1. z \in {1, 2} /\ IsJobValue(n) /\ d = LowBytes(n, z)
      BY <2>1 DEF IsJobValue
    <3> HIDE DEF z, n, d
    <3>2. LowBytes(n, z) \in Seq(Byte) /\ Len(LowBytes(n, z)) = z
      BY ONLY <3>1, LowBytesAre
    <3>3. Len(d) = z /\ d \in Seq(Byte)
      BY <3>1, <3>2
    <3> QED
      BY <3>1, <3>3
  <2>3. Begin(Write(job.addr, d))
    BY <1>3 DEF WriteDataTool
  <2> HIDE DEF d
  <2>4. Write(job.addr, d) \in Calls
    BY <2>1, <2>2, WriteCallIs
  <2> QED
    BY <1>3, <2>3, <2>4, NoneIsFew DEF Proceeds
<1>4. CASE job.size \in {1, 2, 4, 8} /\ results # <<>>
  <2>1. IF IsSystemError(LastResult.error) THEN Fail ELSE Exit("success", <<>>)
    BY <1>4 DEF WriteDataTool
  <2> QED
    BY <2>1, FailExits DEF Exits
<1> QED
  BY <1>2, <1>3, <1>4

LEMMA HashToolIs ==
  ASSUME HashTool
  PROVE  Proceeds \/ Exits
<1>1. CASE results = <<>>
  BY <1>1, PlainCalls, NoneIsFew DEF HashTool, Proceeds
<1>2. CASE results # <<>>
  <2>1. IF IsError(LastResult.error) THEN Fail ELSE Exit("success", LastResult.data)
    BY <1>2 DEF HashTool
  <2> QED
    BY <2>1, FailExits DEF Exits
<1> QED
  BY <1>1, <1>2

LEMMA EepromToolIs ==
  ASSUME EepromTool
  PROVE  Proceeds \/ Exits
<1>1. CASE results = <<>>
  BY <1>1, PlainCalls, NoneIsFew DEF EepromTool, Proceeds
<1>2. CASE results # <<>>
  <2>1. IF IsError(LastResult.error) THEN Fail ELSE Exit("success", <<>>)
    BY <1>2 DEF EepromTool
  <2> QED
    BY <2>1, FailExits DEF Exits
<1> QED
  BY <1>1, <1>2

LEMMA ItemCalls ==
  ASSUME ItemFound
  PROVE  /\ Read(Item.initial_address, Item.num_bytes) \in Calls
         /\ \A n \in Int : \A bytes \in ConvertToBytes(Item, n) : Write(Item.initial_address, bytes) \in Calls
<1>1. Item \in Descriptors
  BY ItemIs
<1>2. Item.initial_address \in Word /\ Item.num_bytes \in Word /\ Item.num_bytes >= 1
  BY <1>1 DEF Descriptors, Word
<1>3. Read(Item.initial_address, Item.num_bytes) \in Calls
  BY <1>2, ReadCallIs
<1>4. ASSUME NEW n \in Int, NEW bytes \in ConvertToBytes(Item, n)
      PROVE  Write(Item.initial_address, bytes) \in Calls
  <2>1. bytes \in Seq(Byte) /\ Len(bytes) <= 2
    BY <1>1, <1>4, ConvertedIs
  <2> QED
    BY <1>2, <2>1, WriteCallIs
<1> QED
  BY <1>3, <1>4

LEMMA FewResults ==
  ASSUME HostTyped, pc = "ready", job.program # "library"
  PROVE  results = <<>> \/ Len(results) = 1 \/ Len(results) = 2 \/ Len(results) = 3
<1>1. results \in Seq(Results) /\ Len(results) <= 3
  BY DEF HostTyped, MostCalls
<1> DEFINE n == Len(results)
<1>2. n \in Nat /\ n <= 3 /\ (n = 0 => results = <<>>)
  BY <1>1, LenProperties, EmptySeq
<1> HIDE DEF n
<1>3. n = 0 \/ n = 1 \/ n = 2 \/ n = 3
  BY <1>2
<1> QED
  BY <1>2, <1>3 DEF n

LEMMA ReadTableToolIs ==
  ASSUME HostTyped, pc = "ready", ReadTableTool
  PROVE  Proceeds \/ Exits
<1>1. CASE results = <<>>
  BY <1>1, PlainCalls, NoneIsFew DEF ReadTableTool, Proceeds
<1>2. CASE results # <<>> /\ ~ ItemFound
  <2>1. Fail
    BY <1>2 DEF ReadTableTool
  <2> QED
    BY <2>1, FailExits
<1>3. CASE results # <<>> /\ Len(results) = 1 /\ ItemFound
  <2>1. Begin(Read(Item.initial_address, Item.num_bytes))
    BY <1>3 DEF ReadTableTool
  <2>2. Len(results) < MostCalls
    BY <1>3 DEF MostCalls
  <2>3. Read(Item.initial_address, Item.num_bytes) \in Calls
    BY <1>3, ItemCalls
  <2> QED
    BY <2>1, <2>2, <2>3 DEF Proceeds
<1>4. CASE results # <<>> /\ ItemFound /\ Len(results) = 2
  <2>1. IF IsSystemError(LastResult.error) THEN Fail
        ELSE Exit("success", ConvertToMKS(Item, LastResult.data))
    BY <1>4 DEF ReadTableTool
  <2> QED
    BY <2>1, FailExits DEF Exits
<1>5. job.program # "library"
  BY DEF ReadTableTool
<1>6. Len(results) # 3
  <2>1. job.program = "exxx_read"
    BY DEF ReadTableTool
  <2>2. MostCalls = 2
    BY <2>1 DEF MostCalls
  <2>3. Len(results) <= 2
    BY <1>5, <2>2 DEF HostTyped
  <2> QED
    BY <2>3
<1> QED
  BY <1>1, <1>2, <1>3, <1>4, <1>5, <1>6, FewResults

LEMMA WriteTableToolIs ==
  ASSUME HostTyped, pc = "ready", WriteTableTool
  PROVE  Proceeds \/ Exits
<1>1. CASE results = <<>>
  BY <1>1, PlainCalls, NoneIsFew DEF WriteTableTool, Proceeds
<1>2. CASE results # <<>> /\ ~ ItemFound
  <2>1. Fail
    BY <1>2 DEF WriteTableTool
  <2> QED
    BY <2>1, FailExits
<1>3. CASE results # <<>> /\ Len(results) = 1 /\ ItemFound
  <2>1. \/ Fail
        \/ \E bytes \in ConvertToBytes(Item, job.value) : Begin(Write(Item.initial_address, bytes))
    BY <1>3 DEF WriteTableTool
  <2>2. Len(results) < MostCalls
    BY <1>3 DEF MostCalls
  <2>3. job.value \in Int
    BY JobIs DEF HostTyped, JobTyped
  <2>4. \A bytes \in ConvertToBytes(Item, job.value) : Write(Item.initial_address, bytes) \in Calls
    BY <1>3, <2>3, ItemCalls
  <2> QED
    BY <2>1, <2>2, <2>4, FailExits DEF Proceeds
<1>4. CASE results # <<>> /\ ItemFound /\ Len(results) = 2
  <2>1. IF IsSystemError(LastResult.error) THEN Fail ELSE Begin(Plain("SyncParam"))
    BY <1>4 DEF WriteTableTool
  <2>2. Len(results) < MostCalls
    BY <1>4 DEF MostCalls, WriteTableTool
  <2> QED
    BY <2>1, <2>2, PlainCalls, FailExits DEF Proceeds
<1>5. CASE results # <<>> /\ ItemFound /\ Len(results) = 3
  <2>1. IF IsError(LastResult.error) THEN Fail ELSE Exit("success", <<>>)
    BY <1>5 DEF WriteTableTool
  <2> QED
    BY <2>1, FailExits DEF Exits
<1>6. job.program # "library"
  BY DEF WriteTableTool
<1> QED
  BY <1>1, <1>2, <1>3, <1>4, <1>5, <1>6, FewResults

LEMMA ProgramIs ==
  ASSUME HostTyped, Program
  PROVE  Proceeds \/ Exits
<1>1. pc = "ready"
  BY DEF Program
<1> QED
  BY <1>1, LibraryIs, ReadDataToolIs, WriteDataToolIs, HashToolIs, EepromToolIs, ReadTableToolIs,
     WriteTableToolIs DEF Program

LEMMA RequestLength ==
  ASSUME NEW c \in Calls
  PROVE  Len(RequestOf(c)) \in Nat /\ RequestOf(c) \in Requests
<1>1. RequestOf(c) \in Seq(Byte)
  BY RequestOfIs DEF IsRequest
<1> QED
  BY <1>1, LenProperties DEF Requests

LEMMA InitTyped == Init => Typed
<1> SUFFICES ASSUME Init PROVE Typed
  OBVIOUS
<1>1. line \in Seq(Byte)
  <2>1. line = <<>> \/ line = <<kHeader1>>
    BY DEF Init
  <2> QED
    BY <2>1, HeaderIs, EmptyIsNone
<1>2. requests \in Seq(Requests) /\ results \in Seq(Results) /\ results = <<>> /\ Len(results) = 0
  BY DEF Init
<1>3. servo \in Servos
  <2> DEFINE m == <<7, kHeader1, kHeader2>>
  <2>1. 7 \in Byte /\ kHeader1 \in Byte /\ kHeader2 \in Byte
    BY DEF kHeader1, kHeader2, Byte
  <2>2. m \in [1..3 -> Byte]
    BY <2>1
  <2>3. PICK version \in {"A", "B"} :
          servo = [version |-> version, memory |-> m, synced |-> <<>>, eeprom |-> <<>>, running |-> TRUE]
    <3> HIDE DEF m
    <3> QED
      BY DEF Init, m
  <2> HIDE DEF m
  <2> QED
    BY <2>2, <2>3 DEF Servos, Memories, MemorySize
<1>4. faults \in Nat /\ faults = 0 /\ faults <= MaxFaults
  BY BoundsAssumption DEF Init
<1>5. call \in CallStates /\ call.faults <= faults /\ call.c \in Calls
  <2>1. Plain("Ping") \in Calls
    BY PlainIs DEF Names
  <2>2. call = [c |-> Plain("Ping"), clean |-> FALSE, faults |-> 0]
    BY DEF Init
  <2> QED
    BY <1>4, <2>1, <2>2 DEF CallStates
<1>6. num_done \in 0..Len(RequestOf(call.c))
  BY <1>5, RequestLength DEF Init
<1>7. parser_ \in Parsers(Id)
  <2>1. Waits(Reset, Id)
    BY ResetWaits
  <2>2. Reset \in Parser
    BY <2>1 DEF Waits, Parser
  <2> QED
    BY <2>1, <2>2 DEF Init, Parsers, Parses
<1>8. LineTyped
  BY <1>1, <1>2, <1>3, <1>4 DEF LineTyped
<1>9. HostTyped
  <2>1. Len(results) <= MostCalls
    BY <1>2 DEF MostCalls
  <2>2. job \in Jobs /\ pc = "open" /\ polled \in BOOLEAN /\ exit_code = "none"
    BY DEF Init
  <2> QED
    BY <1>2, <1>5, <1>6, <1>7, <2>1, <2>2 DEF HostTyped
<1> QED
  BY <1>8, <1>9 DEF Typed

-----------------------------------------------------------------------------
(* The servo and the line.                                                  *)

LEMMA JoinTyped ==
  ASSUME NEW s \in Seq(Byte), NEW t \in Seq(Byte)
  PROVE  s \o t \in Seq(Byte)
BY Joined DEF IsJoin

LEMMA ServoAnswersTyped == Typed /\ ServoAnswers => Typed'
<1> SUFFICES ASSUME Typed, ServoAnswers PROVE Typed'
  OBVIOUS
<1>1. LineTyped /\ HostTyped
  BY DEF Typed
<1>2. requests # <<>> /\ requests' = Tail(requests) /\ UNCHANGED <<job, home, package, hostVars>>
  BY DEF ServoAnswers
<1>3. PICK c \in Calls : Head(requests) = RequestOf(c)
  BY <1>1, <1>2, HeadOf DEF LineTyped
<1>4. Answered(c)
  BY <1>1, <1>3, ServoAnswersIs DEF LineTyped
<1>5. requests' \in Seq(Requests)
  BY <1>1, <1>2, HeadOf DEF LineTyped
<1>6. line' \in Seq(Byte) /\ faults' \in Nat /\ faults <= faults' /\ faults' <= MaxFaults
  <2>1. line \in Seq(Byte) /\ faults \in Nat /\ faults <= MaxFaults /\ MaxFaults \in Nat
    BY <1>1, BoundsAssumption DEF LineTyped
  <2>2. CASE Silent
    BY <2>1, <2>2 DEF Silent
  <2>3. ASSUME NEW a, Short(a), Arrives(a)
        PROVE  line' \in Seq(Byte) /\ faults' \in Nat /\ faults <= faults' /\ faults' <= MaxFaults
    <3>1. line' \in Seq(Byte)
      <4>1. a \in Seq(Byte)
        BY <2>3, ShortIs
      <4> QED
        BY <2>1, <2>3, <4>1, JoinTyped DEF Arrives, Piece
    <3>2. faults' = faults \/ (faults < MaxFaults /\ faults' = faults + 1)
      BY <2>3 DEF Arrives
    <3> QED
      BY <2>1, <3>1, <3>2
  <2> QED
    BY <1>4, <2>2, <2>3 DEF Answered
<1>7. LineTyped'
  BY <1>4, <1>5, <1>6 DEF LineTyped, Answered
<1>8. HostTyped'
  <2>1. call' = call /\ call.faults <= faults /\ call.faults \in Nat /\ faults \in Nat
    BY <1>1, <1>2 DEF HostTyped, LineTyped, CallStates, hostVars
  <2>2. call'.faults <= faults'
    BY <1>6, <2>1
  <2> QED
    BY <1>1, <1>2, <2>2 DEF HostTyped, hostVars, MostCalls
<1> QED
  BY <1>7, <1>8 DEF Typed

LEMMA LineFaultIs ==
  ASSUME Typed, LineFault
  PROVE  /\ pc # "exited" /\ faults' = faults + 1 /\ faults < MaxFaults
         /\ UNCHANGED <<job, home, package, hostVars, servo, answers>>
         /\ \/ requests # <<>> /\ requests' = Tail(requests) /\ UNCHANGED line
            \/ (\E noise \in Noise : line' = line \o noise) /\ UNCHANGED requests
BY DEF LineFault, Noise, Other

LEMMA LineFaultTyped == Typed /\ LineFault => Typed'
<1> SUFFICES ASSUME Typed, LineFault PROVE Typed'
  OBVIOUS
<1>1. LineTyped /\ HostTyped
  BY DEF Typed
<1>2. faults' = faults + 1 /\ faults < MaxFaults /\ UNCHANGED <<job, home, package, hostVars, servo>>
  BY LineFaultIs
<1>3. line' \in Seq(Byte) /\ requests' \in Seq(Requests)
  <2>1. CASE requests # <<>> /\ requests' = Tail(requests) /\ UNCHANGED line
    BY <1>1, <2>1, HeadOf DEF LineTyped
  <2>2. CASE (\E noise \in Noise : line' = line \o noise) /\ UNCHANGED requests
    BY <1>1, <2>2, NoiseIs, JoinTyped DEF LineTyped
  <2> QED
    BY <2>1, <2>2, LineFaultIs
<1>4. faults \in Nat /\ MaxFaults \in Nat /\ faults' \in Nat /\ faults' <= MaxFaults /\ faults <= faults'
  BY <1>1, <1>2, BoundsAssumption DEF LineTyped
<1>5. LineTyped'
  BY <1>1, <1>2, <1>3, <1>4 DEF LineTyped
<1>6. HostTyped'
  <2>1. call' = call /\ call.faults <= faults /\ call.faults \in Nat
    BY <1>1, <1>2 DEF HostTyped, CallStates, hostVars
  <2>2. call'.faults <= faults'
    BY <1>4, <2>1
  <2> QED
    BY <1>1, <1>2, <2>2 DEF HostTyped, hostVars, MostCalls
<1> QED
  BY <1>5, <1>6 DEF Typed

-----------------------------------------------------------------------------
(* The program.                                                             *)

LEMMA OpenTyped == Typed /\ Open => Typed'
<1> SUFFICES ASSUME Typed, Open PROVE Typed'
  OBVIOUS
<1>1. LineTyped /\ HostTyped
  BY DEF Typed
<1>2. UNCHANGED <<job, home, package, call, num_done, polled, parser_, results, output,
                  requests, servo, answers, faults>> /\ pc = "open"
  BY DEF Open
<1>3. /\ line' = line \/ line' = <<>>
      /\ pc' \in {"ready", "exited"} /\ exit_code' \in {exit_code, "failure"}
  BY DEF Open
<1>4. LineTyped'
  BY <1>1, <1>2, <1>3, EmptyIsNone DEF LineTyped
<1>5. HostTyped'
  BY <1>1, <1>2, <1>3 DEF HostTyped, MostCalls
<1> QED
  BY <1>4, <1>5 DEF Typed

(* A step after which the program has a result more.                        *)
LEMMA ReturnTyped ==
  ASSUME Typed, pc \in {"sending", "receiving"}, NEW outcome \in Outcomes, NEW packet \in Accepted,
         Return(outcome, packet),
         UNCHANGED <<job, faults>>, polled' \in BOOLEAN, parser_' \in Parsers(Id),
         num_done' \in 0..Len(RequestOf(call.c))
  PROVE  HostTyped'
<1>1. HostTyped
  BY DEF Typed
<1>2. /\ results' \in Seq(Results) /\ Len(results') = Len(results) + 1 /\ results' # <<>>
      /\ pc' = "ready" /\ UNCHANGED <<call, output, exit_code>>
  BY <1>1, ReturnIs
<1>3. job.program # "library" => Len(results') <= MostCalls
  <2>1. job.program # "library" => Len(results) < MostCalls
    BY <1>1 DEF HostTyped
  <2>2. Len(results) \in Nat /\ MostCalls \in Nat
    BY <1>1, LenProperties DEF HostTyped, MostCalls
  <2> QED
    BY <1>2, <2>1, <2>2
<1>4. MostCalls' = MostCalls
  BY DEF MostCalls
<1> QED
  BY <1>1, <1>2, <1>3, <1>4 DEF HostTyped

LEMMA SendSomeTyped == Typed /\ SendSome => Typed'
<1> SUFFICES ASSUME Typed, SendSome PROVE Typed'
  OBVIOUS
<1>1. LineTyped /\ HostTyped
  BY DEF Typed
<1> DEFINE request == RequestOf(call.c)
<1>2. PICK n \in {4, Len(request) - num_done} :
        /\ num_done + n <= Len(request)
        /\ num_done' = num_done + n
        /\ IF num_done + n < Len(request)
           THEN UNCHANGED <<pc, call, polled, parser_, results, output, exit_code, requests>>
           ELSE /\ requests' = Append(requests, request)
                /\ IF call.c.name = "WriteEeprom"
                   THEN Return([error |-> Success, data |-> <<>>], <<>>) /\ UNCHANGED <<polled, parser_>>
                   ELSE /\ pc' = "receiving"
                        /\ polled' = FALSE
                        /\ parser_' = Reset
                        /\ UNCHANGED <<call, results, output, exit_code>>
  BY DEF SendSome
<1>3. pc = "sending" /\ UNCHANGED <<job, home, package, line, servo, answers, faults>>
  BY DEF SendSome
<1>4. call.c \in Calls /\ Len(request) \in Nat /\ request \in Requests
  <2>1. call.c \in Calls
    BY <1>1 DEF HostTyped, CallStates
  <2> QED
    BY <2>1, RequestLength
<1> HIDE DEF request
<1>5. num_done' \in 0..Len(request)
  <2>1. num_done \in 0..Len(request)
    BY <1>1 DEF HostTyped, request
  <2> QED
    BY <1>2, <1>4, <2>1
<1>6. CASE num_done + n < Len(request)
  <2>1. UNCHANGED <<pc, call, polled, parser_, results, output, exit_code, requests>>
    BY <1>2, <1>6
  <2>2. LineTyped'
    BY <1>1, <1>3, <2>1 DEF LineTyped
  <2>3. HostTyped'
    BY <1>1, <1>3, <1>5, <2>1 DEF HostTyped, MostCalls, request
  <2> QED
    BY <2>2, <2>3 DEF Typed
<1>7. CASE ~ (num_done + n < Len(request))
  <2>1. requests' = Append(requests, request)
    BY <1>2, <1>7
  <2>2. requests' \in Seq(Requests)
    BY <1>1, <1>4, <2>1, AppendProperties DEF LineTyped
  <2>3. LineTyped'
    BY <1>1, <1>3, <2>2 DEF LineTyped
  <2>4. CASE call.c.name = "WriteEeprom"
    <3> DEFINE o == [error |-> Success, data |-> <<>>]
    <3>1. Return(o, <<>>) /\ UNCHANGED <<polled, parser_>>
      BY <1>2, <1>7, <2>4
    <3>2. o \in Outcomes /\ <<>> \in Accepted
      BY SystemErrors, EmptyIsNone DEF Outcomes, Accepted
    <3> HIDE DEF o
    <3>3. polled' \in BOOLEAN /\ parser_' \in Parsers(Id)
      BY <1>1, <3>1 DEF HostTyped
    <3>4. num_done' \in 0..Len(RequestOf(call.c))
      BY <1>5 DEF request
    <3>5. HostTyped'
      BY <1>3, <3>1, <3>2, <3>3, <3>4, ReturnTyped
    <3> QED
      BY <2>3, <3>5 DEF Typed
  <2>5. CASE call.c.name # "WriteEeprom"
    <3>1. /\ pc' = "receiving" /\ polled' = FALSE /\ parser_' = Reset
          /\ UNCHANGED <<call, results, output, exit_code>>
      BY <1>2, <1>7, <2>5
    <3>2. Parses(Reset, Id) /\ Reset \in Parsers(Id)
      <4>1. Waits(Reset, Id)
        BY ResetWaits
      <4> QED
        BY <4>1 DEF Waits, Parser, Parses, Parsers
    <3>3. HostTyped'
      BY <1>1, <1>3, <1>5, <2>5, <3>1, <3>2 DEF HostTyped, MostCalls, request
    <3> QED
      BY <2>3, <3>3 DEF Typed
  <2> QED
    BY <2>4, <2>5
<1> QED
  BY <1>6, <1>7

LEMMA GaveUp ==
  ASSUME NEW error \in {timed_out, SystemError(EIO)}
  PROVE  error \in Errors /\ <<>> \in Accepted /\ <<>> \in Seq(Byte)
BY SystemErrors, EmptyIsNone DEF Accepted

LEMMA SendGivesUpTyped == Typed /\ SendGivesUp => Typed'
<1> SUFFICES ASSUME Typed, SendGivesUp PROVE Typed'
  OBVIOUS
<1>1. LineTyped /\ HostTyped
  BY DEF Typed
<1>2. PICK error \in {timed_out, SystemError(EIO)} : Return([error |-> error, data |-> <<>>], <<>>)
  BY DEF SendGivesUp
<1>3. pc = "sending" /\ UNCHANGED <<job, home, package, num_done, polled, parser_, lineVars>>
  BY DEF SendGivesUp
<1> DEFINE o == [error |-> error, data |-> <<>>]
<1>4. o \in Outcomes /\ <<>> \in Accepted
  BY GaveUp DEF Outcomes
<1>5. Return(o, <<>>)
  BY <1>2
<1> HIDE DEF o
<1>6. /\ UNCHANGED <<job, faults>> /\ polled' \in BOOLEAN /\ parser_' \in Parsers(Id)
      /\ num_done' \in 0..Len(RequestOf(call.c))
  BY <1>1, <1>3 DEF HostTyped, lineVars
<1>7. HostTyped'
  BY <1>3, <1>4, <1>5, <1>6, ReturnTyped
<1>8. LineTyped'
  BY <1>1, <1>3 DEF LineTyped, lineVars
<1> QED
  BY <1>7, <1>8 DEF Typed

LEMMA ReceiveGivesUpTyped == Typed /\ ReceiveGivesUp => Typed'
<1> SUFFICES ASSUME Typed, ReceiveGivesUp PROVE Typed'
  OBVIOUS
<1>1. LineTyped /\ HostTyped
  BY DEF Typed
<1>2. PICK error \in {timed_out, SystemError(EIO)} : Return(Result(call.c, error, <<>>), <<>>)
  BY DEF ReceiveGivesUp
<1>3. pc = "receiving" /\ UNCHANGED <<job, home, package, num_done, polled, parser_, lineVars>>
  BY DEF ReceiveGivesUp
<1> DEFINE o == Result(call.c, error, <<>>)
<1>4. o \in Outcomes /\ <<>> \in Accepted
  <2>1. call.c \in Calls /\ call.c.name # "WriteEeprom"
    BY <1>1, <1>3 DEF HostTyped, CallStates
  <2>2. error \in Errors /\ <<>> \in Accepted /\ <<>> \in Seq(Byte)
    BY GaveUp
  <2> QED
    BY <2>1, <2>2, ResultIs
<1>5. Return(o, <<>>)
  BY <1>2
<1> HIDE DEF o
<1>6. /\ UNCHANGED <<job, faults>> /\ polled' \in BOOLEAN /\ parser_' \in Parsers(Id)
      /\ num_done' \in 0..Len(RequestOf(call.c))
  BY <1>1, <1>3 DEF HostTyped, lineVars
<1>7. HostTyped'
  BY <1>3, <1>4, <1>5, <1>6, ReturnTyped
<1>8. LineTyped'
  BY <1>1, <1>3 DEF LineTyped, lineVars
<1> QED
  BY <1>7, <1>8 DEF Typed

AnswerError(packet) ==
  IF PacketStatus(packet) # 0 THEN [category |-> "warning", value |-> PacketStatus(packet)]
  ELSE Success
AnswerResult(c, packet) == Result(c, AnswerError(packet), PacketData(packet))

LEMMA ReceiveIs ==
  ASSUME Typed, Receive
  PROVE  /\ pc = "receiving" /\ line # <<>>
         /\ IsRead(parser_, line, parser_', line')
         /\ polled' = TRUE
         /\ UNCHANGED <<job, home, package, num_done, requests, servo, answers, faults>>
         /\ parser_'.status = "kDone" =>
              Return(AnswerResult(call.c, parser_'.packet), parser_'.packet)
         /\ parser_'.status # "kDone" => UNCHANGED <<pc, call, results, output, exit_code>>
<1>1. pc = "receiving" /\ line # <<>>
      /\ UNCHANGED <<job, home, package, num_done, requests, servo, answers, faults>>
  BY DEF Receive
<1>2. PICK n \in {m \in ReadSizes \cup {Len(line)} : m <= Len(line)} :
        /\ line' = SubSeq(line, n + 1, Len(line))
        /\ parser_' = ParseAll(parser_, Id, SubSeq(line, 1, n))
        /\ polled' = TRUE
        /\ IF parser_'.status = "kDone"
           THEN Return(Result(call.c,
                              IF PacketStatus(parser_'.packet) # 0
                              THEN [category |-> "warning", value |-> PacketStatus(parser_'.packet)]
                              ELSE Success,
                              PacketData(parser_'.packet)),
                       parser_'.packet)
           ELSE UNCHANGED <<pc, call, results, output, exit_code>>
  BY DEF Receive
<1>3. n \in Nat /\ n <= Len(line)
  <2>1. Len(line) \in Nat
    BY LenProperties DEF Typed, LineTyped
  <2> QED
    BY <1>2, <2>1, BoundsAssumption
<1>4. IsRead(parser_, line, parser_', line')
  BY <1>2, <1>3 DEF IsRead
<1>5. parser_'.status = "kDone" =>
        Return(AnswerResult(call.c, parser_'.packet), parser_'.packet)
  BY <1>2 DEF AnswerResult, AnswerError
<1>6. parser_'.status # "kDone" => UNCHANGED <<pc, call, results, output, exit_code>>
  BY <1>2
<1> QED
  BY <1>1, <1>2, <1>4, <1>5, <1>6

LEMMA AnswerResultIs ==
  ASSUME NEW c \in Calls, c.name # "WriteEeprom", NEW p, Whole(p, Id)
  PROVE  /\ AnswerError(p) \in Errors
         /\ AnswerResult(c, p) \in Outcomes /\ p \in Accepted
<1>1. PacketStatus(p) \in Word /\ PacketData(p) \in Seq(Byte)
  <2>1. Id \in Byte
    BY DEF Id, Byte
  <2> QED
    BY <2>1, WholeIsStatusPacket
<1>2. AnswerError(p) \in Errors
  BY <1>1, SystemErrors DEF AnswerError, Errors
<1>3. p \in Accepted
  BY DEF Accepted, Whole
<1> QED
  BY <1>1, <1>2, <1>3, ResultIs DEF AnswerResult

LEMMA ReceiveTyped == Typed /\ Receive => Typed'
<1> SUFFICES ASSUME Typed, Receive PROVE Typed'
  OBVIOUS
<1>1. LineTyped /\ HostTyped
  BY DEF Typed
<1>2. /\ pc = "receiving"
      /\ IsRead(parser_, line, parser_', line')
      /\ polled' = TRUE
      /\ UNCHANGED <<job, home, package, num_done, requests, servo, answers, faults>>
      /\ parser_'.status = "kDone" =>
           Return(AnswerResult(call.c, parser_'.packet), parser_'.packet)
      /\ parser_'.status # "kDone" => UNCHANGED <<pc, call, results, output, exit_code>>
  BY ReceiveIs
<1>3. line \in Seq(Byte) /\ Parses(parser_, Id) /\ call.c \in Calls /\ call.c.name # "WriteEeprom"
  BY <1>1, <1>2 DEF LineTyped, HostTyped, CallStates
<1>4. /\ line' \in Seq(Byte)
      /\ Parses(parser_', Id) \/ Done(parser_', Id)
  BY <1>2, <1>3, ReadOf
<1>5. parser_' \in Parsers(Id)
  BY <1>4 DEF Parsers, Parser, Parses, Waits, Refused, Done
<1>6. LineTyped'
  BY <1>1, <1>2, <1>4 DEF LineTyped
<1>7. CASE Done(parser_', Id)
  <2> DEFINE p == parser_'.packet
             o == AnswerResult(call.c, p)
  <2>1. Whole(p, Id) /\ parser_'.status = "kDone"
    BY <1>7 DEF Done
  <2>2. o \in Outcomes /\ p \in Accepted
    <3> HIDE DEF p
    <3> QED
      BY <1>3, <2>1, AnswerResultIs
  <2>3. Return(o, p)
    BY <1>2, <2>1
  <2> HIDE DEF o, p
  <2>4. /\ UNCHANGED <<job, faults>> /\ polled' \in BOOLEAN /\ parser_' \in Parsers(Id)
        /\ num_done' \in 0..Len(RequestOf(call.c))
    BY <1>1, <1>2, <1>5 DEF HostTyped
  <2>5. HostTyped'
    BY <1>2, <2>2, <2>3, <2>4, ReturnTyped
  <2> QED
    BY <1>6, <2>5 DEF Typed
<1>8. CASE Parses(parser_', Id)
  <2>1. parser_'.status # "kDone"
    BY <1>8 DEF Parses, Waits, Refused
  <2>2. HostTyped'
    BY <1>1, <1>2, <1>5, <1>8, <2>1 DEF HostTyped, MostCalls
  <2> QED
    BY <1>6, <2>2 DEF Typed
<1> QED
  BY <1>4, <1>7, <1>8

LEMMA ProgramTyped == Typed /\ Program => Typed'
<1> SUFFICES ASSUME Typed, Program PROVE Typed'
  OBVIOUS
<1>1. LineTyped /\ HostTyped
  BY DEF Typed
<1>2. pc = "ready" /\ UNCHANGED <<job, home, package, lineVars>>
  BY DEF Program
<1>3. LineTyped'
  BY <1>1, <1>2 DEF LineTyped, lineVars
<1>4. ASSUME NEW c \in Calls, Begin(c), job.program # "library" => Len(results) < MostCalls
      PROVE  HostTyped'
  <2>1. /\ pc' = "sending" /\ num_done' = 0
        /\ call' = [c |-> c, clean |-> requests = <<>> /\ line = <<>>, faults |-> faults]
        /\ UNCHANGED <<polled, parser_, results, output, exit_code>>
    BY <1>4 DEF Begin
  <2>2. Len(RequestOf(c)) \in Nat
    BY RequestLength
  <2>3. faults \in Nat /\ faults' = faults
    BY <1>1, <1>2 DEF LineTyped, lineVars
  <2>4. call' \in CallStates /\ call'.faults <= faults' /\ call'.c = c
    <3>1. (requests = <<>> /\ line = <<>>) \in BOOLEAN
      OBVIOUS
    <3> DEFINE clean == requests = <<>> /\ line = <<>>
    <3> HIDE DEF clean
    <3>2. call' = [c |-> c, clean |-> clean, faults |-> faults] /\ clean \in BOOLEAN
      BY <2>1, <3>1 DEF clean
    <3> QED
      BY <2>3, <3>2 DEF CallStates
  <2>5. num_done' \in 0..Len(RequestOf(call'.c))
    BY <2>1, <2>2, <2>4
  <2>6. job' = job /\ MostCalls' = MostCalls
    BY <1>2 DEF MostCalls
  <2> QED
    BY <1>1, <1>4, <2>1, <2>4, <2>5, <2>6 DEF HostTyped
<1>5. ASSUME NEW code \in {"success", "failure"}, NEW text, Exit(code, text)
      PROVE  HostTyped'
  BY <1>1, <1>2, <1>5 DEF HostTyped, Exit, MostCalls, lineVars
<1>6. Proceeds \/ Exits
  BY <1>1, ProgramIs
<1>7. HostTyped'
  BY <1>4, <1>5, <1>6 DEF Proceeds, Exits
<1> QED
  BY <1>3, <1>7 DEF Typed

LEMMA StutterTyped == Typed /\ UNCHANGED vars => Typed'
BY DEF Typed, LineTyped, HostTyped, MostCalls, vars, hostVars, lineVars

LEMMA NextTyped == Typed /\ [Next]_vars => Typed'
BY OpenTyped, SendSomeTyped, SendGivesUpTyped, ReceiveTyped, ReceiveGivesUpTyped, ProgramTyped,
   ServoAnswersTyped, LineFaultTyped, StutterTyped DEF Next, Terminated

(* Every variable has its type: the port's input, the servo, the parser and  *)
(* the results of the calls (ExxxNetwork and ExxxProtocol) in every state.   *)
THEOREM TypedAlways == Spec => []Typed
BY InitTyped, NextTyped, PTL DEF Spec

(* Receive returns success with a packet that is whole only: both header     *)
(* bytes, the servo's id, the length its header says and the right checksum, *)
(* whatever noise, other packets and pieces of packets come before it.       *)
AcceptedIsWhole ==
  \A i \in 1..Len(results) : results[i].packet # <<>> => Whole(results[i].packet, Id)

LEMMA TypedIsWhole == Typed => AcceptedIsWhole
<1> SUFFICES ASSUME Typed, NEW i \in 1..Len(results) PROVE results[i].packet \in Accepted
  BY DEF AcceptedIsWhole, Accepted
<1>1. results \in Seq(Results)
  BY DEF Typed, HostTyped
<1>2. results[i] \in Results
  BY ONLY <1>1, i \in 1..Len(results), ElementOfSeq
<1> QED
  BY <1>2 DEF Results

(* Whatever cuts, damages or delays the answers of the bus, only a whole     *)
(* packet of the addressed servo's id is ever taken for its answer.          *)
THEOREM OnlyWholeIsAccepted == Spec => []AcceptedIsWhole
BY TypedAlways, TypedIsWhole, PTL

-----------------------------------------------------------------------------
(* What a result says of the servo.                                         *)

ClaimOf(c, e, d, s) ==
  /\ c.name = "ReadData" /\ ~ IsSystemError(e) => d = StoredIn(s, c.addr, c.size)
  /\ c.name = "WriteData" /\ ~ IsError(e) => StoredIn(s, c.addr, c.size) = c.data
  /\ c.name = "SyncParam" /\ ~ IsError(e) => s.synced = s.memory
  /\ c.name = "ReadHash" /\ ~ IsSystemError(e) => d = HashOf[s.version] \o FirmwareHash
  /\ c.name = "Reset" /\ e = bad_message => s.running

(* One that says nothing.                                                   *)
Mute(c, e) ==
  /\ c.name \in {"ReadData", "WriteData", "SyncParam", "ReadHash"} => IsSystemError(e)
  /\ c.name = "Reset" => e # bad_message

LEMMA MuteClaims ==
  ASSUME NEW c, NEW e, Mute(c, e), NEW d, NEW s
  PROVE  ClaimOf(c, e, d, s)
BY DEF Mute, ClaimOf, IsSystemError

LEMMA ErrorsAre ==
  /\ IsSystemError(timed_out) /\ IsError(timed_out) /\ timed_out # bad_message
  /\ timed_out.value = 110
  /\ IsSystemError(SystemError(EIO)) /\ IsError(SystemError(EIO)) /\ SystemError(EIO) # bad_message
  /\ SystemError(EIO).value = 5
  /\ IsSystemError(protocol_error) /\ IsSystemError(message_size)
  /\ ~ IsError(Success) /\ ~ IsSystemError(Success) /\ Success # bad_message
BY DEF IsSystemError, IsError, timed_out, SystemError, bad_message, EIO, protocol_error, message_size,
       Success

LEMMA ErrorIsMute ==
  ASSUME NEW c \in Calls, NEW error \in {timed_out, SystemError(EIO)}
  PROVE  /\ Mute(c, error)
         /\ c.name # "WriteEeprom" => Mute(c, Result(c, error, <<>>).error)
<1>1. IsSystemError(error) /\ IsError(error) /\ error # bad_message
  BY ErrorsAre
<1>2. Mute(c, error)
  BY <1>1 DEF Mute
<1> DEFINE e == Result(c, error, <<>>).error
<1>3. ASSUME c.name # "WriteEeprom" PROVE Mute(c, e)
  <2>1. CASE c.name = "ReadData"
    <3>1. e = error
      BY <1>1, <2>1 DEF Result, ReadBlockResult
    <3> QED
      BY <1>1, <2>1, <3>1 DEF Mute
  <2>2. CASE c.name = "WriteData"
    <3>1. e = error
      BY <1>1, <2>2 DEF Result, WriteBlockResult
    <3> QED
      BY <1>1, <2>2, <3>1 DEF Mute
  <2>3. CASE c.name = "ReadHash"
    <3>1. e = error
      BY <1>1, <2>3 DEF Result, ReadHashResult
    <3> QED
      BY <1>1, <2>3, <3>1 DEF Mute
  <2>4. CASE c.name = "SyncParam"
    <3>1. e = error
      BY <1>1, <2>4 DEF Result, SyncParamResult
    <3> QED
      BY <1>1, <2>4, <3>1 DEF Mute
  <2>5. CASE c.name = "Reset"
    <3>1. CASE error = timed_out
      <4>1. e = Success
        BY <2>5, <3>1 DEF Result, ResetResult
      <4> QED
        BY <2>5, <4>1, ErrorsAre DEF Mute
    <3>2. CASE error = SystemError(EIO)
      <4>1. error.value # timed_out.value /\ IsSystemError(error)
        BY <3>2, ErrorsAre
      <4>2. e = error
        BY <2>5, <4>1 DEF Result, ResetResult
      <4> QED
        BY <1>1, <2>5, <4>2 DEF Mute
    <3> QED
      BY <3>1, <3>2
  <2>6. CASE c.name \in {"Ping", "AvagoAvePos"}
    BY <2>6 DEF Mute
  <2>7. c.name \in Names
    BY DEF Calls
  <2> QED
    BY <1>3, <2>1, <2>2, <2>3, <2>4, <2>5, <2>6, <2>7 DEF Names
<1> QED
  BY <1>2, <1>3

LEMMA AnswerClaims ==
  ASSUME NEW c \in Calls, c.name # "WriteEeprom", NEW a, NEW s, Truthful(a, c, s)
  PROVE  ClaimOf(c, AnswerResult(c, a).error, AnswerResult(c, a).data, s)
<1> DEFINE r == AnswerResult(c, a)
           e == AnswerError(a)
           d == PacketData(a)
<1>1. ~ IsSystemError(e)
  BY ErrorsAre DEF AnswerError, IsSystemError
<1>2. ~ IsError(e) => PacketStatus(a) = 0
  BY DEF AnswerError, IsError
<1>3. r = Result(c, e, d)
  BY DEF AnswerResult
<1> HIDE DEF r, e
<1>4. CASE c.name = "ReadData"
  <2>1. CASE Len(d) # c.size
    <3>1. r.error = protocol_error
      BY <1>1, <1>3, <1>4, <2>1 DEF Result, ReadBlockResult
    <3> QED
      BY <1>4, <3>1, ErrorsAre DEF ClaimOf, r
  <2>2. CASE Len(d) = c.size
    <3>1. r.data = d
      BY <1>1, <1>3, <1>4, <2>2 DEF Result, ReadBlockResult
    <3>2. d = StoredIn(s, c.addr, c.size)
      BY <1>4, <2>2 DEF Truthful
    <3> QED
      BY <1>4, <3>1, <3>2 DEF ClaimOf, r
  <2> QED
    BY <2>1, <2>2
<1>5. CASE c.name = "WriteData"
  <2>1. r.error = e
    BY <1>3, <1>5 DEF Result, WriteBlockResult
  <2> QED
    BY <1>2, <1>5, <2>1 DEF ClaimOf, Truthful, r
<1>6. CASE c.name = "SyncParam"
  BY <1>6 DEF ClaimOf, Truthful
<1>7. CASE c.name = "ReadHash"
  <2>1. CASE Len(d) # kControlTableHashByte + Len(FirmwareHash)
    <3>1. r.error = message_size
      BY <1>1, <1>3, <1>7, <2>1 DEF Result, ReadHashResult
    <3> QED
      BY <1>7, <3>1, ErrorsAre DEF ClaimOf, r
  <2>2. CASE Len(d) = kControlTableHashByte + Len(FirmwareHash)
    <3>1. r.data = d
      BY <1>1, <1>3, <1>7, <2>2 DEF Result, ReadHashResult
    <3> QED
      BY <1>7, <3>1 DEF ClaimOf, Truthful, r
  <2> QED
    BY <2>1, <2>2
<1>8. CASE c.name = "Reset"
  BY <1>8 DEF ClaimOf, Truthful
<1>9. CASE c.name \in {"Ping", "AvagoAvePos"}
  BY <1>9 DEF ClaimOf
<1>10. c.name \in Names
  BY DEF Calls
<1> QED
  BY <1>4, <1>5, <1>6, <1>7, <1>8, <1>9, <1>10 DEF Names

-----------------------------------------------------------------------------
(* What is on its way while a call runs that began, after k faults in all,  *)
(* with nothing but noise on the line, and met one fault at most: its        *)
(* request, nothing that the parser could take for an answer, or an answer  *)
(* that tells the truth.                                                    *)

RestNow == Rest(parser_, line)
Within(k) == k \in Nat /\ k <= faults /\ faults <= k + 1

OwnSending(k) == requests = <<>> /\ Unanswered(line, faults, k)
OwnAsked(k) == requests = <<RequestOf(call.c)>> /\ Unanswered(RestNow, faults, k)
OwnLost(k) == requests = <<>> /\ Lost(RestNow, faults, k)
OwnComing(k) ==
  /\ requests = <<>>
  /\ \E a : /\ Short(a) /\ Truthful(a, call.c, servo)
           /\ Coming(RestNow, Live(parser_), faults, k, a)
LastMute == Mute(call.c, LastResult.error)
LastClaims == ClaimOf(call.c, LastResult.error, LastResult.data, servo)
OwnReady(k) == LastMute \/ (requests = <<>> /\ LastClaims /\ Unanswered(line, faults, k))

UnderWay(k) ==
  /\ pc = "sending" => OwnSending(k)
  /\ pc = "receiving" => OwnAsked(k) \/ OwnLost(k) \/ OwnComing(k)
  /\ pc = "ready" /\ results # <<>> => OwnReady(k)

LEMMA ResultIsLast ==
  ASSUME Typed, NEW outcome \in Outcomes, NEW packet \in Accepted, Return(outcome, packet)
  PROVE  LastResult'.error = outcome.error /\ LastResult'.data = outcome.data /\ call' = call
<1>1. results'[Len(results')] = [call |-> call, error |-> outcome.error, data |-> outcome.data,
                                 packet |-> packet]
      /\ call' = call
  BY ReturnIs DEF Typed
<1> QED
  BY <1>1 DEF LastResult

(* Results that say nothing.                                                *)
LEMMA MuteUnderWay ==
  ASSUME Typed, NEW k, NEW outcome \in Outcomes, NEW packet \in Accepted, Return(outcome, packet),
         Mute(call.c, outcome.error)
  PROVE  UnderWay(k)'
<1>1. LastResult'.error = outcome.error /\ call' = call
  BY ResultIsLast
<1>2. LastMute'
  BY <1>1 DEF LastMute
<1>3. pc' = "ready"
  BY DEF Return
<1> QED
  BY <1>2, <1>3 DEF UnderWay, OwnReady

LEMMA SendGivesUpUnderWay ==
  ASSUME Typed, NEW k, Within(k), UnderWay(k), SendGivesUp, faults' <= k + 1
  PROVE  UnderWay(k)'
<1>1. PICK error \in {timed_out, SystemError(EIO)} : Return([error |-> error, data |-> <<>>], <<>>)
  BY DEF SendGivesUp
<1> DEFINE o == [error |-> error, data |-> <<>>]
<1>2. o \in Outcomes /\ <<>> \in Accepted /\ o.error = error
  BY GaveUp DEF Outcomes
<1>3. Return(o, <<>>)
  BY <1>1
<1> HIDE DEF o
<1>4. call.c \in Calls
  BY DEF Typed, HostTyped, CallStates
<1>5. Mute(call.c, o.error)
  BY <1>2, <1>4, ErrorIsMute
<1> QED
  BY <1>2, <1>3, <1>5, MuteUnderWay

LEMMA ReceiveGivesUpUnderWay ==
  ASSUME Typed, NEW k, Within(k), UnderWay(k), ReceiveGivesUp, faults' <= k + 1
  PROVE  UnderWay(k)'
<1>1. PICK error \in {timed_out, SystemError(EIO)} : Return(Result(call.c, error, <<>>), <<>>)
  BY DEF ReceiveGivesUp
<1> DEFINE o == Result(call.c, error, <<>>)
<1>2. call.c \in Calls /\ call.c.name # "WriteEeprom"
  BY DEF Typed, HostTyped, CallStates, ReceiveGivesUp
<1>3. o \in Outcomes /\ <<>> \in Accepted
  <2>1. error \in Errors /\ <<>> \in Accepted /\ <<>> \in Seq(Byte)
    BY GaveUp
  <2> QED
    BY <1>2, <2>1, ResultIs
<1>4. Mute(call.c, o.error)
  BY <1>2, ErrorIsMute
<1>5. Return(o, <<>>)
  BY <1>1
<1> HIDE DEF o
<1> QED
  BY <1>3, <1>4, <1>5, MuteUnderWay

LEMMA ResetRest ==
  ASSUME NEW l \in Seq(Byte)
  PROVE  Rest(Reset, l) = l
<1>1. Live(Reset) = <<>>
  BY DEF Live, Reset
<1>2. <<>> \o l = l
  BY ConcatEmptySeq
<1> QED
  BY <1>1, <1>2 DEF Rest

LEMMA SendSomeUnderWay ==
  ASSUME Typed, NEW k, Within(k), UnderWay(k), SendSome, faults' <= k + 1
  PROVE  UnderWay(k)'
<1>1. call.c \in Calls /\ requests \in Seq(Requests) /\ line \in Seq(Byte)
  BY DEF Typed, HostTyped, LineTyped, CallStates
<1> DEFINE request == RequestOf(call.c)
<1>2. PICK n \in {4, Len(request) - num_done} :
        IF num_done + n < Len(request)
           THEN UNCHANGED <<pc, call, polled, parser_, results, output, exit_code, requests>>
           ELSE /\ requests' = Append(requests, request)
                /\ IF call.c.name = "WriteEeprom"
                   THEN Return([error |-> Success, data |-> <<>>], <<>>) /\ UNCHANGED <<polled, parser_>>
                   ELSE /\ pc' = "receiving"
                        /\ polled' = FALSE
                        /\ parser_' = Reset
                        /\ UNCHANGED <<call, results, output, exit_code>>
  BY DEF SendSome
<1>3. pc = "sending" /\ UNCHANGED <<job, home, package, line, servo, answers, faults>>
  BY DEF SendSome
<1> HIDE DEF request
<1>4. CASE num_done + n < Len(request)
  <2>1. UNCHANGED <<pc, call, requests>>
    BY <1>2, <1>4
  <2> QED
    BY <1>3, <2>1 DEF UnderWay, OwnSending
<1>5. CASE ~ (num_done + n < Len(request)) /\ call.c.name = "WriteEeprom"
  <2> DEFINE o == [error |-> Success, data |-> <<>>]
  <2>1. Return(o, <<>>)
    BY <1>2, <1>5
  <2>2. o \in Outcomes /\ <<>> \in Accepted
    BY SystemErrors, EmptyIsNone DEF Outcomes, Accepted
  <2> HIDE DEF o
  <2>3. Mute(call.c, o.error)
    BY <1>5 DEF Mute
  <2> QED
    BY <2>1, <2>2, <2>3, MuteUnderWay
<1>6. CASE ~ (num_done + n < Len(request)) /\ call.c.name # "WriteEeprom"
  <2>1. /\ requests' = Append(requests, request) /\ pc' = "receiving" /\ parser_' = Reset
        /\ call' = call
    BY <1>2, <1>6
  <2>2. SUFFICES OwnAsked(k)'
    BY <2>1 DEF UnderWay
  <2>3. OwnSending(k)
    BY <1>3 DEF UnderWay
  <2>4. requests' = <<request>>
    BY <2>1, <2>3 DEF OwnSending
  <2>5. RestNow' = line
    BY <1>1, <1>3, <2>1, ResetRest DEF RestNow
  <2> QED
    BY <1>3, <2>1, <2>3, <2>4, <2>5 DEF OwnAsked, OwnSending, request
<1> QED
  BY <1>4, <1>5, <1>6

LEMMA ReceiveUnderWay ==
  ASSUME Typed, NEW k, Within(k), UnderWay(k), Receive, faults' <= k + 1
  PROVE  UnderWay(k)'
<1>1. /\ pc = "receiving"
      /\ IsRead(parser_, line, parser_', line')
      /\ UNCHANGED <<job, home, package, num_done, requests, servo, answers, faults>>
      /\ parser_'.status = "kDone" =>
           Return(AnswerResult(call.c, parser_'.packet), parser_'.packet)
      /\ parser_'.status # "kDone" => UNCHANGED <<pc, call, results, output, exit_code>>
  BY ReceiveIs
<1>2. line \in Seq(Byte) /\ Parses(parser_, Id) /\ call.c \in Calls /\ call.c.name # "WriteEeprom"
  BY <1>1 DEF Typed, LineTyped, HostTyped, CallStates
<1>3. /\ Parses(parser_', Id) => parser_'.status # "kDone"
      /\ Done(parser_', Id) => parser_'.status = "kDone" /\ Whole(parser_'.packet, Id)
  BY DEF Parses, Waits, Refused, Done
<1>4. call' = call /\ faults' = faults
  BY <1>1 DEF Return
<1> DEFINE f == faults
<1>6. /\ Unanswered(RestNow, f, k) => Parses(parser_', Id) /\ Unanswered(RestNow', f, k)
      /\ Lost(RestNow, f, k) => Parses(parser_', Id) /\ Lost(RestNow', f, k)
  <2> HIDE DEF f
  <2> QED
    BY <1>1, <1>2, UnansweredRead DEF RestNow
<1>7. CASE OwnAsked(k)
  <2>1. Parses(parser_', Id) /\ Unanswered(RestNow', f, k)
    BY <1>6, <1>7 DEF OwnAsked
  <2>2. pc' = "receiving" /\ OwnAsked(k)'
    BY <1>1, <1>3, <1>4, <1>7, <2>1 DEF OwnAsked
  <2> QED
    BY <2>2 DEF UnderWay
<1>8. CASE OwnLost(k)
  <2>1. Parses(parser_', Id) /\ Lost(RestNow', f, k)
    BY <1>6, <1>8 DEF OwnLost
  <2>2. pc' = "receiving" /\ OwnLost(k)'
    BY <1>1, <1>3, <1>4, <1>8, <2>1 DEF OwnLost
  <2> QED
    BY <2>2 DEF UnderWay
<1>9. CASE OwnComing(k)
  <2>1. PICK a : /\ Short(a) /\ Truthful(a, call.c, servo)
                 /\ Coming(RestNow, Live(parser_), f, k, a)
    BY <1>9 DEF OwnComing
  <2>2. \/ Parses(parser_', Id) /\ Coming(RestNow', Live(parser_'), f, k, a)
        \/ Done(parser_', Id) /\ parser_'.packet = a /\ Unanswered(line', f, k)
    <3> HIDE DEF f
    <3> QED
      BY <1>1, <1>2, <2>1, ComingRead DEF RestNow
  <2>3. CASE Parses(parser_', Id) /\ Coming(RestNow', Live(parser_'), f, k, a)
    <3>1. pc' = "receiving" /\ OwnComing(k)'
      BY <1>1, <1>3, <1>4, <1>9, <2>1, <2>3 DEF OwnComing
    <3> QED
      BY <3>1 DEF UnderWay
  <2>4. CASE Done(parser_', Id) /\ parser_'.packet = a /\ Unanswered(line', f, k)
    <3> DEFINE o == AnswerResult(call.c, a)
    <3>1. Return(o, a) /\ Whole(a, Id)
      BY <1>1, <1>3, <2>4
    <3>2. o \in Outcomes /\ a \in Accepted
      BY <1>2, <3>1, AnswerResultIs
    <3>3. ClaimOf(call.c, o.error, o.data, servo)
      BY <1>2, <2>1, AnswerClaims
    <3> HIDE DEF o
    <3>4. LastResult'.error = o.error /\ LastResult'.data = o.data /\ call' = call
      BY <3>1, <3>2, ResultIsLast
    <3>5. LastClaims'
      BY <1>1, <3>3, <3>4 DEF LastClaims
    <3>6. requests' = <<>> /\ pc' = "ready"
      BY <1>1, <1>9, <3>1 DEF OwnComing, Return
    <3>7. Unanswered(line', faults', k)
      BY <1>4, <2>4
    <3> QED
      BY <3>5, <3>6, <3>7 DEF UnderWay, OwnReady
  <2> QED
    BY <2>2, <2>3, <2>4
<1> QED
  BY <1>1, <1>7, <1>8, <1>9 DEF UnderWay

LEMMA RestIs ==
  ASSUME Typed, pc = "receiving"
  PROVE  /\ RestNow \in Seq(Byte) /\ Live(parser_) \in Seq(Byte)
         /\ Len(Live(parser_)) \in Nat /\ Len(Live(parser_)) <= Len(RestNow)
<1> DEFINE u == Live(parser_)
<1>1. Id \in Byte /\ Parses(parser_, Id) /\ line \in Seq(Byte)
  BY DEF Typed, LineTyped, HostTyped, Id, Byte
<1>2. u \in Seq(Byte)
  BY <1>1, LiveIsBegun
<1>3. RestNow = u \o line
  BY DEF RestNow, Rest
<1> HIDE DEF u
<1>4. IsJoin(RestNow, u, line)
  BY <1>1, <1>2, <1>3, Joined
<1>5. RestNow \in Seq(Byte) /\ Len(RestNow) = Len(u) + Len(line) /\ Len(u) \in Nat /\ Len(line) \in Nat
  BY <1>1, <1>2, <1>4, LenProperties DEF IsJoin
<1>6. Len(u) <= Len(RestNow)
  BY <1>5
<1> QED
  BY <1>2, <1>5, <1>6 DEF u

(* What comes after all that is there.                                      *)
LEMMA MoreRest ==
  ASSUME Typed, pc = "receiving", parser_' = parser_, NEW t \in Seq(Byte), line' = line \o t
  PROVE  IsJoin(RestNow', RestNow, t)
<1> DEFINE u == Live(parser_)
           r == RestNow
<1>1. u \in Seq(Byte) /\ line \in Seq(Byte) /\ r \in Seq(Byte) /\ r = u \o line
  BY RestIs DEF Typed, LineTyped, RestNow, Rest
<1>2. RestNow' = u \o (line \o t)
  BY DEF RestNow, Rest
<1> DEFINE m == line \o t
           q == u \o m
<1>3. IsJoin(m, line, t)
  BY <1>1, Joined
<1>4. m \in Seq(Byte)
  BY <1>3 DEF IsJoin
<1> HIDE DEF u, r, m
<1>5. IsJoin(q, u, m)
  BY <1>1, <1>4, Joined
<1>6. IsJoin(r, u, line)
  BY <1>1, Joined
<1> HIDE DEF q
<1>7. IsJoin(q, r, t)
  BY ONLY <1>1, <1>3, <1>5, <1>6, JoinAgain, t \in Seq(Byte)
<1>8. RestNow' = q
  BY <1>2 DEF q, m
<1> QED
  BY <1>7, <1>8 DEF r

LEMMA EmptyRest ==
  ASSUME Typed, pc = "receiving", RestNow = <<>>, parser_' = parser_, NEW t \in Seq(Byte),
         line' = line \o t
  PROVE  RestNow' = t
<1> DEFINE r == RestNow
           q == RestNow'
<1>1. IsJoin(q, r, t)
  BY MoreRest
<1>2. Len(r) = 0
  OBVIOUS
<1> HIDE DEF r, q
<1>3. q \in Seq(Byte) /\ Len(q) = 0 + Len(t) /\ \A i \in 1..Len(t) : q[0 + i] = t[i]
  BY <1>1, <1>2 DEF IsJoin
<1>4. Len(t) \in Nat
  BY LenProperties
<1>5. Len(q) = Len(t) /\ \A i \in 1..Len(t) : i = 0 + i
  BY <1>3, <1>4
<1>6. \A i \in 1..Len(q) : q[i] = t[i]
  BY <1>3, <1>5
<1>7. q = t
  BY <1>3, <1>5, <1>6, SeqEqual
<1> QED
  BY <1>7 DEF q

LEMMA NotYet ==
  ASSUME Typed, NEW k, Within(k), faults' = faults + 1, faults' <= k + 1
  PROVE  faults # k + 1 /\ faults' = k + 1
<1>1. faults \in Nat /\ k \in Nat /\ k <= faults /\ faults + 1 <= k + 1
  BY DEF Typed, LineTyped, Within
<1> QED
  BY <1>1

(* Noise on a line where there is none yet.                                 *)
LEMMA NoiseComes ==
  ASSUME Typed, NEW k, Within(k), LineFault, faults' <= k + 1,
         requests = <<>>, Unanswered(line, faults, k)
  PROVE  requests' = <<>> /\ Unanswered(line', faults', k)
<1>1. /\ faults' = faults + 1
      /\ \/ requests # <<>> /\ requests' = Tail(requests) /\ UNCHANGED line
         \/ (\E noise \in Noise : line' = line \o noise) /\ UNCHANGED requests
  BY LineFaultIs
<1>2. faults # k + 1 /\ faults' = k + 1
  BY <1>1, NotYet
<1>3. line = <<>>
  BY <1>2 DEF Unanswered
<1>4. PICK noise \in Noise : line' = line \o noise /\ requests' = requests
  BY <1>1
<1>5. noise \in Seq(Byte) /\ Unanswered(noise, faults', k)
  BY <1>2, NoiseIs
<1>6. line' = noise
  <2>1. <<>> \o noise = noise
    BY <1>5, ConcatEmptySeq
  <2> QED
    BY <1>3, <1>4, <2>1
<1> QED
  BY <1>4, <1>5, <1>6

LEMMA LineFaultUnderWay ==
  ASSUME Typed, NEW k, Within(k), UnderWay(k), LineFault, faults' <= k + 1
  PROVE  UnderWay(k)'
<1>1. /\ faults' = faults + 1
      /\ UNCHANGED <<job, home, package, hostVars, servo, answers>>
      /\ \/ requests # <<>> /\ requests' = Tail(requests) /\ UNCHANGED line
         \/ (\E noise \in Noise : line' = line \o noise) /\ UNCHANGED requests
  BY LineFaultIs
<1>2. pc' = pc /\ call' = call /\ results' = results /\ parser_' = parser_ /\ servo' = servo
  BY <1>1 DEF hostVars
<1>3. SUFFICES
             /\ pc = "sending" => OwnSending(k)'
             /\ pc = "receiving" => OwnAsked(k)' \/ OwnLost(k)' \/ OwnComing(k)'
             /\ pc = "ready" /\ results # <<>> => OwnReady(k)'
  BY <1>2 DEF UnderWay
<1>4. faults # k + 1 /\ faults' = k + 1
  BY <1>1, NotYet
<1>5. line \in Seq(Byte) /\ requests \in Seq(Requests)
  BY DEF Typed, LineTyped
<1>6. ASSUME pc = "sending" PROVE OwnSending(k)'
  <2>1. OwnSending(k)
    BY <1>6 DEF UnderWay
  <2> QED
    BY <2>1, NoiseComes DEF OwnSending
<1>7. ASSUME pc = "receiving" PROVE OwnAsked(k)' \/ OwnLost(k)' \/ OwnComing(k)'
  <2>1. OwnAsked(k) \/ OwnLost(k) \/ OwnComing(k)
    BY <1>4, <1>7 DEF UnderWay
  <2>2. ASSUME NEW noise \in Noise, line' = line \o noise, requests' = requests
        PROVE  OwnAsked(k)' \/ OwnLost(k)' \/ OwnComing(k)'
    <3>1. noise \in Seq(Byte) /\ NoWindow(noise) /\ Unanswered(noise, faults', k)
      BY <1>4, NoiseIs
    <3>2. RestNow = <<>> => RestNow' = noise
      BY <1>2, <1>7, <2>2, <3>1, EmptyRest
    <3>3. CASE OwnAsked(k)
      <4>1. RestNow = <<>>
        BY <1>4, <3>3 DEF OwnAsked, Unanswered
      <4> QED
        BY <1>2, <2>2, <3>1, <3>2, <3>3, <4>1 DEF OwnAsked
    <3>4. CASE OwnLost(k)
      <4>1. RestNow = <<>>
        BY <1>4, <3>4 DEF OwnLost, Lost
      <4>2. Lost(RestNow', faults', k)
        BY <1>4, <3>1, <3>2, <4>1 DEF Lost
      <4> QED
        BY <1>2, <2>2, <3>4, <4>2 DEF OwnLost
    <3>5. CASE OwnComing(k)
      <4>1. PICK a : /\ Short(a) /\ Truthful(a, call.c, servo)
                     /\ Coming(RestNow, Live(parser_), faults, k, a)
        BY <3>5 DEF OwnComing
      <4>3. IsJoin(RestNow', RestNow, noise)
        BY <1>2, <1>7, <2>2, <3>1, MoreRest
      <4> DEFINE q == RestNow'
                 r == RestNow
                 u == Live(parser_)
                 f == faults
                 g == faults'
      <4>4. a \in Seq(Byte) /\ r \in Seq(Byte)
        BY <1>7, <4>1, RestIs, ShortIs
      <4> HIDE DEF q, r, u, f, g
      <4>5. Coming(q, u, g, k, a)
        <5>1. Coming(r, u, f, k, a) /\ IsJoin(q, r, noise) /\ f # k + 1 /\ Unanswered(noise, g, k)
          BY <1>4, <3>1, <4>1, <4>3 DEF q, r, u, f, g
        <5> QED
          BY ONLY <3>1, <4>4, <5>1, MoreComes
      <4>6. requests' = <<>>
        BY <2>2, <3>5 DEF OwnComing
      <4>7. OwnComing(k)'
        <5>1. Coming(RestNow', Live(parser_)', faults', k, a)
          BY <1>2, <4>5 DEF q, u, g
        <5>2. Truthful(a, call'.c, servo')
          BY <1>2, <4>1
        <5> QED
          BY <4>1, <4>6, <5>1, <5>2 DEF OwnComing
      <4> QED
        BY <4>7
    <3> QED
      BY <2>1, <3>3, <3>4, <3>5
  <2>3. ASSUME requests # <<>>, requests' = Tail(requests), line' = line
        PROVE  OwnLost(k)'
    <3>1. OwnAsked(k)
      BY <2>1, <2>3 DEF OwnLost, OwnComing
    <3>2. RestNow = <<>> /\ RestNow' = RestNow
      BY <1>2, <1>4, <2>3, <3>1 DEF OwnAsked, Unanswered, RestNow
    <3>3. requests' = <<>>
      BY <2>3, <3>1 DEF OwnAsked
    <3> QED
      BY <3>2, <3>3 DEF OwnLost, Lost
  <2> QED
    BY <1>1, <2>2, <2>3
<1>8. ASSUME pc = "ready", results # <<>> PROVE OwnReady(k)'
  <2>1. OwnReady(k)
    BY <1>4, <1>8 DEF UnderWay
  <2>2. LastResult' = LastResult
    BY <1>2 DEF LastResult
  <2>3. requests = <<>> /\ Unanswered(line, faults, k) => requests' = <<>> /\ Unanswered(line', faults', k)
    BY NoiseComes
  <2> QED
    BY <1>2, <2>1, <2>2, <2>3 DEF OwnReady, LastMute, LastClaims
<1> QED
  BY <1>6, <1>7, <1>8

LEMMA OneRequest ==
  ASSUME NEW r
  PROVE  <<r>> # <<>> /\ Head(<<r>>) = r /\ Tail(<<r>>) = <<>>
OBVIOUS

LEMMA ServoAnswersUnderWay ==
  ASSUME Typed, NEW k, Within(k), UnderWay(k), ServoAnswers, faults' <= k + 1
  PROVE  UnderWay(k)'
<1>1. requests # <<>> /\ requests' = Tail(requests) /\ UNCHANGED <<job, home, package, hostVars>>
  BY DEF ServoAnswers
<1>2. pc' = pc /\ call' = call /\ results' = results /\ parser_' = parser_ /\ LastResult' = LastResult
  BY <1>1 DEF hostVars, LastResult
<1>3. /\ faults \in Nat /\ k \in Nat /\ k <= faults /\ call.c \in Calls
      /\ servo \in Servos /\ line \in Seq(Byte) /\ requests \in Seq(Requests)
  BY DEF Typed, LineTyped, HostTyped, CallStates, Within
<1>4. faults' = faults \/ faults' = faults + 1
  <2>1. PICK c \in Calls : Head(requests) = RequestOf(c)
    BY <1>1, <1>3, HeadOf
  <2>2. Answered(c)
    BY <1>3, <2>1, ServoAnswersIs
  <2> QED
    BY <2>2 DEF Answered, Silent, Arrives
<1>5. SUFFICES /\ pc = "sending" => OwnSending(k)'
               /\ pc = "receiving" => OwnAsked(k)' \/ OwnLost(k)' \/ OwnComing(k)'
               /\ pc = "ready" /\ results # <<>> => OwnReady(k)'
  BY <1>2 DEF UnderWay
<1>7. pc # "sending"
  BY <1>1 DEF UnderWay, OwnSending
<1>8. ASSUME pc = "receiving" PROVE OwnLost(k)' \/ OwnComing(k)'
  <2> DEFINE r == RestNow
             u == Live(parser_)
  <2>1. requests = <<RequestOf(call.c)>> /\ Unanswered(r, faults, k)
    BY <1>1, <1>8 DEF UnderWay, OwnAsked, OwnLost, OwnComing
  <2>2. Head(requests) = RequestOf(call.c) /\ requests' = <<>>
    BY <1>1, <2>1, OneRequest
  <2>3. Answered(call.c)
    BY <1>3, <2>2, ServoAnswersIs
  <2>4. r \in Seq(Byte) /\ u \in Seq(Byte) /\ Len(u) \in Nat /\ Len(u) <= Len(r)
    BY <1>8, RestIs
  <2>5. CASE Silent
    <3>1. RestNow' = r /\ faults' = faults
      BY <1>2, <2>5 DEF Silent, RestNow
    <3>2. Lost(r, faults, k)
      <4> HIDE DEF r
      <4> QED
        BY <2>1, <2>4, UnansweredIsLost
    <3> QED
      BY <1>2, <2>2, <3>1, <3>2 DEF OwnLost
  <2>6. ASSUME NEW a, Short(a), Arrives(a), Truthful(a, call.c, servo')
        PROVE  OwnLost(k)' \/ OwnComing(k)'
    <3>1. a \in Seq(Byte)
      BY <2>6, ShortIs
    <3>2. CASE line' = line \o a /\ UNCHANGED faults
      <4> DEFINE q == RestNow'
      <4>1. IsJoin(q, r, a)
        BY <1>2, <1>8, <3>1, <3>2, MoreRest
      <4> HIDE DEF q, r, u
      <4>2. Coming(q, u, faults, k, a)
        BY <2>1, <2>4, <2>6, <4>1, AnswerComes
      <4>3. Coming(RestNow', Live(parser_)', faults', k, a)
        BY <1>2, <3>2, <4>2 DEF q, u
      <4>4. Truthful(a, call'.c, servo')
        BY <1>2, <2>6
      <4> QED
        BY <2>2, <2>6, <4>3, <4>4 DEF OwnComing
    <3>3. CASE /\ faults' = faults + 1
               /\ \/ line' = line
                  \/ \E d : d \in Seq(Byte) /\ NoWindow(d) /\ line' = line \o d
      <4>1. faults # k + 1 /\ faults' = k + 1
        BY <3>3, NotYet
      <4>2. r = <<>>
        BY <2>1, <4>1 DEF Unanswered
      <4>3. CASE line' = line
        <5>1. RestNow' = <<>>
          BY <1>2, <4>2, <4>3 DEF RestNow
        <5> QED
          BY <2>2, <5>1 DEF OwnLost, Lost
      <4>4. ASSUME NEW d \in Seq(Byte), NoWindow(d), line' = line \o d PROVE OwnLost(k)'
        <5>1. RestNow' = d
          BY <1>2, <1>8, <4>2, <4>4, EmptyRest
        <5> QED
          BY <1>2, <2>2, <4>1, <4>4, <5>1 DEF OwnLost, Lost
      <4> QED
        BY <3>3, <4>3, <4>4
    <3> QED
      BY <2>6, <3>2, <3>3 DEF Arrives, Piece
  <2> QED
    BY <2>3, <2>5, <2>6 DEF Answered
<1>9. ASSUME pc = "ready", results # <<>> PROVE OwnReady(k)'
  <2>1. LastMute
    BY <1>1, <1>9 DEF UnderWay, OwnReady
  <2> QED
    BY <1>2, <2>1 DEF OwnReady, LastMute
<1> QED
  BY <1>7, <1>8, <1>9

LEMMA StutterUnderWay ==
  ASSUME NEW k, UnderWay(k), UNCHANGED vars
  PROVE  UnderWay(k)'
<1>1. /\ pc' = pc /\ call' = call /\ results' = results /\ parser_' = parser_ /\ servo' = servo
      /\ line' = line /\ requests' = requests /\ faults' = faults
  BY DEF vars, hostVars, lineVars
<1>2. LastResult' = LastResult /\ RestNow' = RestNow
  BY <1>1 DEF LastResult, RestNow
<1>3. /\ OwnSending(k)' = OwnSending(k) /\ OwnAsked(k)' = OwnAsked(k) /\ OwnLost(k)' = OwnLost(k)
      /\ OwnComing(k)' = OwnComing(k) /\ OwnReady(k)' = OwnReady(k)
  BY <1>1, <1>2 DEF OwnSending, OwnAsked, OwnLost, OwnComing, OwnReady, LastMute, LastClaims
<1> QED
  BY <1>1, <1>3 DEF UnderWay

LEMMA OpenUnderWay ==
  ASSUME Typed, NEW k, Open
  PROVE  UnderWay(k)'
<1>1. pc = "open" /\ pc' \in {"ready", "exited"} /\ results' = results
  BY DEF Open
<1>2. results = <<>>
  BY <1>1 DEF Typed, HostTyped
<1> QED
  BY <1>1, <1>2 DEF UnderWay

LEMMA BeginUnderWay ==
  ASSUME NEW k, NEW c, Begin(c), UNCHANGED lineVars, requests = <<>>, Unanswered(line, faults, k)
  PROVE  UnderWay(k)'
<1>1. pc' = "sending" /\ line' = line /\ requests' = requests /\ faults' = faults
  BY DEF Begin, lineVars
<1> QED
  BY <1>1 DEF UnderWay, OwnSending

LEMMA ExitUnderWay ==
  ASSUME NEW k, NEW code, NEW text, Exit(code, text)
  PROVE  UnderWay(k)'
BY DEF UnderWay, Exit

(* All that is not a step of the program's own.                             *)
LEMMA BusUnderWay ==
  ASSUME Typed, NEW k, Within(k), UnderWay(k), faults' <= k + 1,
         SendSome \/ SendGivesUp \/ Receive \/ ReceiveGivesUp \/ ServoAnswers \/ LineFault
  PROVE  UnderWay(k)'
BY SendSomeUnderWay, SendGivesUpUnderWay, ReceiveUnderWay, ReceiveGivesUpUnderWay,
   ServoAnswersUnderWay, LineFaultUnderWay

LEMMA BusKeepsCall ==
  ASSUME Typed,
         SendSome \/ SendGivesUp \/ Receive \/ ReceiveGivesUp \/ ServoAnswers \/ LineFault
  PROVE  call' = call /\ faults \in Nat /\ faults' \in Nat /\ faults <= faults'
<1>1. Typed /\ faults \in Nat
  BY DEF Typed, LineTyped
<1>2. CASE SendSome
  <2>1. \E outcome, packet : UNCHANGED <<pc, call>> \/ Return(outcome, packet) \/ UNCHANGED <<call, results>>
    BY <1>2 DEF SendSome
  <2>2. call' = call
    BY <2>1 DEF Return
  <2>3. faults' = faults
    BY <1>2 DEF SendSome
  <2> QED
    BY <1>1, <2>2, <2>3
<1>3. CASE SendGivesUp \/ ReceiveGivesUp
  <2>1. UNCHANGED lineVars /\ \E outcome, packet : Return(outcome, packet)
    BY <1>3 DEF SendGivesUp, ReceiveGivesUp
  <2> QED
    BY <1>1, <2>1 DEF Return, lineVars
<1>6. CASE Receive
  <2>1. /\ UNCHANGED <<requests, servo, answers, faults>>
        /\ parser_'.status = "kDone" => Return(AnswerResult(call.c, parser_'.packet), parser_'.packet)
        /\ parser_'.status # "kDone" => UNCHANGED <<pc, call>>
    BY <1>6, ReceiveIs
  <2> QED
    BY <1>1, <2>1 DEF Return
<1>4. CASE ServoAnswers
  <2>0. requests # <<>> /\ hostVars' = hostVars
    BY <1>4 DEF ServoAnswers
  <2>1. requests # <<>> /\ call' = call
    BY <2>0 DEF hostVars
  <2>2. requests \in Seq(Requests)
    BY <1>1 DEF Typed, LineTyped
  <2>3. PICK c \in Calls : Head(requests) = RequestOf(c)
    BY <2>1, <2>2, HeadOf
  <2>4. Answered(c)
    BY <1>1, <1>4, <2>3, ServoAnswersIs DEF Typed, LineTyped
  <2>5. faults' = faults \/ faults' = faults + 1
    BY <2>4 DEF Answered, Silent, Arrives
  <2> QED
    BY <1>1, <2>1, <2>5
<1>5. CASE LineFault
  <2>1. faults' = faults + 1 /\ call' = call
    BY <1>5 DEF LineFault, hostVars
  <2> QED
    BY <1>1, <2>1
<1> QED
  BY <1>2, <1>3, <1>4, <1>5, <1>6

-----------------------------------------------------------------------------
(* A call by itself: it counts from the faults there were when it began.    *)

Exchange == \A k \in Nat : call.clean /\ call.faults = k /\ faults <= k + 1 => UnderWay(k)

LEMMA InitExchange == Init => Exchange
<1> SUFFICES ASSUME Init PROVE ~ call.clean
  BY DEF Exchange
<1>1. call.clean = FALSE
  BY DEF Init
<1> QED
  BY <1>1

LEMMA NextExchange ==
  ASSUME Typed, Exchange, [Next]_vars
  PROVE  Exchange'
<1> SUFFICES ASSUME NEW k \in Nat, call'.clean, call'.faults = k, faults' <= k + 1
             PROVE  UnderWay(k)'
  BY DEF Exchange
<1>1. CASE Open
  BY <1>1, OpenUnderWay
<1>2. CASE SendSome \/ SendGivesUp \/ Receive \/ ReceiveGivesUp \/ ServoAnswers \/ LineFault
  <2>1. call' = call /\ faults \in Nat /\ faults' \in Nat /\ faults <= faults'
    BY <1>2, BusKeepsCall
  <2>2. call.faults \in Nat /\ call.faults <= faults
    BY DEF Typed, HostTyped, CallStates
  <2>3. Within(k)
    BY <2>1, <2>2 DEF Within
  <2>4. UnderWay(k)
    BY <2>1, <2>3 DEF Exchange, Within
  <2> QED
    BY <1>2, <2>3, <2>4, BusUnderWay
<1>3. CASE Program
  <2>1. UNCHANGED lineVars
    BY <1>3 DEF Program
  <2>2. ASSUME NEW c, Begin(c) PROVE UnderWay(k)'
    <3>1. call' = [c |-> c, clean |-> requests = <<>> /\ line = <<>>, faults |-> faults]
      BY <2>2 DEF Begin
    <3>2. call'.clean = (requests = <<>> /\ line = <<>>)
      BY <3>1
    <3>3. requests = <<>> /\ Unanswered(line, faults, k)
      BY <3>2 DEF Unanswered
    <3> QED
      BY <2>1, <2>2, <3>3, BeginUnderWay
  <2>3. ASSUME NEW code, NEW text, Exit(code, text) PROVE UnderWay(k)'
    BY <2>3, ExitUnderWay
  <2>4. Proceeds \/ Exits
    BY <1>3, ProgramIs DEF Typed
  <2> QED
    BY <2>2, <2>3, <2>4 DEF Proceeds, Exits
<1>4. CASE UNCHANGED vars
  <2>1. call' = call /\ faults' = faults
    BY <1>4 DEF vars, hostVars, lineVars
  <2>2. UnderWay(k)
    BY <2>1 DEF Exchange
  <2> QED
    BY <1>4, <2>2, StutterUnderWay
<1> QED
  BY <1>1, <1>2, <1>3, <1>4 DEF Next, Terminated

LEMMA ExchangeIsOwn ==
  ASSUME Typed, Exchange
  PROVE  SuccessIsOwn
<1> SUFFICES ASSUME results # <<>>, pc = "ready", call.clean, faults <= call.faults + 1
             PROVE  LastClaims
  BY DEF SuccessIsOwn, LastClaims, ClaimOf, Stored, StoredIn, IsSystemError
<1>1. PICK k \in Nat : k = call.faults
  BY DEF Typed, HostTyped, CallStates
<1>2. OwnReady(k)
  BY <1>1 DEF Exchange, UnderWay
<1> QED
  BY <1>2, MuteClaims DEF OwnReady, LastMute, LastClaims

(* A call of ExxxProtocol on an idle bus that meets one fault at most tells  *)
(* the truth of its own request: Exchange says what is on its way meanwhile. *)
THEOREM AnswersAreOwn == Spec => []SuccessIsOwn
<1>1. Init => Typed /\ Exchange
  BY InitTyped, InitExchange
<1>2. Typed /\ Exchange /\ [Next]_vars => (Typed /\ Exchange)'
  BY NextTyped, NextExchange
<1>3. Typed /\ Exchange => SuccessIsOwn
  BY ExchangeIsOwn
<1> QED
  BY <1>1, <1>2, <1>3, PTL DEF Spec

-----------------------------------------------------------------------------
(* What exxx_write makes of a value, and what it reads back as.             *)

LEMMA RoundIs ==
  ASSUME NEW n \in Int
  PROVE  /\ Round(n) \in Int /\ Magnitude(n - 10 * Round(n)) <= 5
         /\ n >= 0 => Round(n) >= 0
<1>1. CASE n >= 0
  <2> DEFINE r == (n + 5) \div 10
  <2>1. r \in Int /\ 10 * r <= n + 5 /\ n + 5 < 10 * r + 10 /\ r >= 0
    BY <1>1
  <2>2. Round(n) = r
    BY <1>1 DEF Round
  <2> HIDE DEF r
  <2>3. n - 10 * r <= 5 /\ -(n - 10 * r) <= 5
    BY <2>1
  <2> QED
    BY <2>1, <2>2, <2>3 DEF Magnitude
<1>2. CASE ~ (n >= 0)
  <2> DEFINE q == (5 - n) \div 10
  <2>1. q \in Int /\ 10 * q <= 5 - n /\ 5 - n < 10 * q + 10
    BY <1>2
  <2>2. Round(n) = -q
    BY <1>2 DEF Round
  <2> HIDE DEF q
  <2>3. -q \in Int /\ n - 10 * (-q) <= 5 /\ -(n - 10 * (-q)) <= 5
    BY <2>1
  <2> QED
    BY <1>2, <2>2, <2>3 DEF Magnitude
<1> QED
  BY <1>1, <1>2

LEMMA GreatestIs ==
  /\ Modulus("uint8_t") = 256 /\ Greatest("uint8_t") = 255
  /\ Modulus("int8_t") = 256 /\ Greatest("int8_t") = 127
  /\ Modulus("int16_t") = 65536 /\ Greatest("int16_t") = 32767
<1>1. 256 ^ 1 = 256 /\ 256 ^ 2 = 65536
  OBVIOUS
<1>2. NumBytes["uint8_t"] = 1 /\ NumBytes["int8_t"] = 1 /\ NumBytes["int16_t"] = 2
  BY DEF NumBytes
<1>3. Modulus("uint8_t") = 256 /\ Modulus("int8_t") = 256 /\ Modulus("int16_t") = 65536
  BY <1>1, <1>2 DEF Modulus
<1>4. 256 \div 2 = 128 /\ 65536 \div 2 = 32768
  OBVIOUS
<1> QED
  BY <1>3, <1>4 DEF Greatest, Signed

LEMMA BytesReadBack ==
  ASSUME NEW type \in Types, NEW n \in Int, n <= Greatest(type), - Greatest(type) <= n,
         type \in Signed \/ n >= 0
  PROVE  DoubleCast(type, Bytes(type, n)) = n
<1>1. CASE type # "int16_t"
  <2> DEFINE u == n % 256
             b == <<u>>
  <2>1. Modulus(type) = 256 /\ NumBytes[type] = 1
    BY <1>1, GreatestIs, NumBytesIs DEF Types
  <2>2. Bytes(type, n) = b
    BY <2>1 DEF Bytes
  <2>3. b[1] = u /\ Len(b) = 1
    OBVIOUS
  <2>4. DoubleCast(type, b) = IF type \in Signed /\ u > Greatest(type) THEN u - 256 ELSE u
    <3> DEFINE w == b[1] + (IF Len(b) > 1 THEN 256 * b[2] ELSE 0)
    <3>1. w = u
      <4>1. u \in Int /\ ~ (Len(b) > 1)
        OBVIOUS
      <4> HIDE DEF u
      <4>2. b[1] = u
        OBVIOUS
      <4> HIDE DEF b
      <4> QED
        BY <4>1, <4>2
    <3>2. DoubleCast(type, b) = IF type \in Signed /\ w > Greatest(type) THEN w - Modulus(type) ELSE w
      BY DEF DoubleCast
    <3> HIDE DEF w, u, b
    <3> QED
      BY <2>1, <3>1, <3>2
  <2>5. u \in 0..255 /\ (0 <= n /\ n <= 255 => u = n) /\ (-256 <= n /\ n < 0 => u = n + 256)
    OBVIOUS
  <2> HIDE DEF u
  <2>6. CASE type = "uint8_t"
    <3>1. Greatest(type) = 255 /\ type \notin Signed
      BY <2>6, GreatestIs DEF Signed
    <3> QED
      BY <2>2, <2>4, <2>5, <3>1
  <2>7. CASE type = "int8_t"
    <3>1. Greatest(type) = 127 /\ type \in Signed
      BY <2>7, GreatestIs DEF Signed
    <3> QED
      BY <2>2, <2>4, <2>5, <3>1
  <2> QED
    BY <1>1, <2>6, <2>7 DEF Types
<1>2. CASE type = "int16_t"
  <2> DEFINE u == n % 65536
             x == u % 256
             y == u \div 256
             b == <<x, y>>
  <2>1. Modulus(type) = 65536 /\ NumBytes[type] = 2 /\ Greatest(type) = 32767 /\ type \in Signed
    BY <1>2, GreatestIs, NumBytesIs DEF Signed
  <2>2. Bytes(type, n) = b
    BY <2>1 DEF Bytes
  <2>3. u \in Int /\ u >= 0 /\ (0 <= n /\ n <= 32767 => u = n) /\ (-32767 <= n /\ n < 0 => u = n + 65536)
    OBVIOUS
  <2> HIDE DEF u
  <2>4. x + 256 * y = u
    BY <2>3
  <2> HIDE DEF x, y
  <2>5. b[1] = x /\ b[2] = y /\ Len(b) > 1
    OBVIOUS
  <2> HIDE DEF b
  <2>6. DoubleCast(type, b) = IF u > 32767 THEN u - 65536 ELSE u
    BY <2>1, <2>4, <2>5 DEF DoubleCast
  <2> QED
    BY <2>1, <2>2, <2>3, <2>6
<1> QED
  BY <1>1, <1>2

LEMMA WrittenIsNear ==
  ASSUME NEW item \in Descriptors, NEW v \in Int, NEW bytes \in ConvertToBytes(item, v),
         item.type \in Signed \/ v >= 0
  PROVE  Magnitude(v * item.coefficient_mks - 10 * DoubleCast(item.type, bytes)) <= 5
<1> DEFINE n == v * item.coefficient_mks
           type == item.type
           r == Round(n)
<1>1. n \in Int /\ type \in Types /\ (v >= 0 => n >= 0)
  BY DEF Descriptors
<1>2. bytes \in ByteCast(type, n)
  BY DEF ConvertToBytes
<1>3. type \in Signed \/ n >= 0
  BY <1>1
<1> HIDE DEF n, type
<1>4. r \in Int /\ Magnitude(n - 10 * r) <= 5 /\ (n >= 0 => r >= 0)
  BY <1>1, RoundIs
<1>5. Greatest(type) \in Int
  BY <1>1, GreatestIs DEF Types
<1>6. r <= Greatest(type) /\ - Greatest(type) <= r /\ bytes = Bytes(type, r)
  <2>1. ~ (r > Greatest(type) \/ r < - Greatest(type))
    <3>1. SUFFICES ASSUME Round(n) > Greatest(type) \/ Round(n) < - Greatest(type) PROVE FALSE
      OBVIOUS
    <3>2. ByteCast(type, n) = {}
      <4> DEFINE G == Greatest(type)
                 B == type \notin Signed
                 two == {Bytes(type, r), Bytes(type, 0)}
                 one == {Bytes(type, r)}
      <4>1. ByteCast(type, n) = CASE r > G \/ r < - G -> {}
                                  [] r \in - G..-1 /\ B -> two
                                  [] OTHER -> one
        BY DEF ByteCast
      <4>2. r \in Int /\ G \in Int /\ (r > G \/ r < - G)
        BY <1>4, <1>5, <3>1
      <4>3. B \in BOOLEAN
        OBVIOUS
      <4> HIDE DEF r, G, B, one, two
      <4>4. ~ (r \in - G..-1 /\ r > G) /\ ~ (r \in - G..-1 /\ r < - G)
        BY <4>2
      <4> QED
        BY <4>1, <4>2, <4>4
    <3> QED
      BY <1>2, <3>2
  <2>2. ~ (r < 0 /\ type \notin Signed)
    BY <1>3, <1>4
  <2> HIDE DEF r
  <2>3. bytes = Bytes(type, r)
    BY <1>2, <2>1, <2>2 DEF ByteCast, r
  <2> QED
    BY <1>4, <1>5, <2>1, <2>3
<1>7. DoubleCast(type, bytes) = r
  <2>1. type \in Signed \/ r >= 0
    BY <1>3, <1>4
  <2> HIDE DEF r
  <2> QED
    BY <1>1, <1>4, <1>6, <2>1, BytesReadBack
<1> QED
  BY <1>4, <1>7 DEF n, type

-----------------------------------------------------------------------------
(* The calls of the tools, and what they need of the last one.              *)

TableTools == {"exxx_read", "exxx_write"}
DataTools == {"exxx_read_data", "exxx_write_data"}
Tools == TableTools \cup DataTools \cup {"exxx_hash"}

(* The call a tool makes after n others.                                    *)
IsCall(c, n) ==
  \/ /\ n = 0 /\ job.program \in DataTools /\ job.size \in {1, 2}
     /\ c = IF job.program = "exxx_read_data" THEN Read(job.addr, job.size)
            ELSE Write(job.addr, LowBytes(job.value, job.size))
  \/ n = 0 /\ job.program \in TableTools \cup {"exxx_hash"} /\ c = Plain("ReadHash")
  \/ /\ n = 1 /\ job.program = "exxx_read" /\ ItemFound
     /\ c = Read(Item.initial_address, Item.num_bytes)
  \/ /\ n = 1 /\ job.program = "exxx_write" /\ ItemFound
     /\ \E bytes \in ConvertToBytes(Item, job.value) : c = Write(Item.initial_address, bytes)
  \/ /\ n = 2 /\ job.program = "exxx_write" /\ ItemFound /\ ~ IsSystemError(results[2].error)
     /\ c = Plain("SyncParam")

Goes == \E c : Begin(c) /\ IsCall(c, Len(results)) /\ (results = <<>> \/ ~ IsSystemError(LastResult.error))

Succeeds(text) ==
  /\ results # <<>> /\ ~ IsSystemError(LastResult.error)
  /\ job.program \in {"exxx_read_data", "exxx_hash"} => text = LastResult.data
  /\ job.program = "exxx_hash" => ~ IsError(LastResult.error)
  /\ job.program = "exxx_read" =>
       Len(results) = 2 /\ ItemFound /\ text = ConvertToMKS(Item, LastResult.data)
  /\ job.program = "exxx_write" => Len(results) = 3 /\ ItemFound /\ ~ IsError(LastResult.error)

Stops == \E text : Exit("failure", text) \/ (Exit("success", text) /\ Succeeds(text))

LEMMA FailStops == Fail => Stops
BY DEF Fail, Stops

LEMMA NoneYet == results = <<>> => Len(results) = 0
OBVIOUS

LEMMA NoErrorIsNone ==
  ASSUME NEW e, ~ IsError(e)
  PROVE  ~ IsSystemError(e)
BY DEF IsSystemError

LEMMA DataToolDoes ==
  ASSUME Typed, ReadDataTool \/ WriteDataTool
  PROVE  Goes \/ Stops
<1>1. JobTyped(job)
  BY JobIs DEF Typed, HostTyped
<1>2. job.size \in {1, 2, 4, 8} => job.size \in {1, 2}
  BY <1>1 DEF JobTyped
<1>3. CASE ReadDataTool
  <2>1. job.program = "exxx_read_data" /\ job.program \in DataTools
    BY <1>3 DEF ReadDataTool, DataTools
  <2>2. CASE job.size \notin {1, 2, 4, 8}
    BY <1>3, <2>2, FailStops DEF ReadDataTool
  <2>3. CASE job.size \in {1, 2, 4, 8} /\ results = <<>>
    <3>1. Begin(Read(job.addr, job.size))
      BY <1>3, <2>3 DEF ReadDataTool
    <3>2. IsCall(Read(job.addr, job.size), Len(results))
      BY <1>2, <2>1, <2>3, NoneYet DEF IsCall
    <3> QED
      BY <2>3, <3>1, <3>2 DEF Goes
  <2>4. CASE job.size \in {1, 2, 4, 8} /\ results # <<>>
    <3>1. IF IsSystemError(LastResult.error) THEN Exit("failure", [i \in 1..job.size |-> 0])
          ELSE Exit("success", LastResult.data)
      BY <1>3, <2>4 DEF ReadDataTool
    <3> QED
      BY <2>1, <2>4, <3>1 DEF Stops, Succeeds
  <2> QED
    BY <2>2, <2>3, <2>4
<1>4. CASE WriteDataTool
  <2>1. job.program = "exxx_write_data" /\ job.program \in DataTools
    BY <1>4 DEF WriteDataTool, DataTools
  <2>2. CASE job.size \notin {1, 2, 4, 8}
    BY <1>4, <2>2, FailStops DEF WriteDataTool
  <2>3. CASE job.size \in {1, 2, 4, 8} /\ results = <<>>
    <3> DEFINE c == Write(job.addr, LowBytes(job.value, job.size))
    <3>1. Begin(c)
      BY <1>4, <2>3 DEF WriteDataTool
    <3>2. IsCall(c, Len(results))
      BY <1>2, <2>1, <2>3, NoneYet DEF IsCall
    <3> HIDE DEF c
    <3> QED
      BY <2>3, <3>1, <3>2 DEF Goes
  <2>4. CASE job.size \in {1, 2, 4, 8} /\ results # <<>>
    <3>1. IF IsSystemError(LastResult.error) THEN Fail ELSE Exit("success", <<>>)
      BY <1>4, <2>4 DEF WriteDataTool
    <3> QED
      BY <2>1, <2>4, <3>1, FailStops DEF Stops, Succeeds
  <2> QED
    BY <2>2, <2>3, <2>4
<1> QED
  BY <1>3, <1>4

LEMMA HashCall ==
  ASSUME job.program \in TableTools \cup {"exxx_hash"}, results = <<>>, Begin(Plain("ReadHash"))
  PROVE  Goes
<1>1. IsCall(Plain("ReadHash"), Len(results))
  BY NoneYet DEF IsCall
<1> QED
  BY <1>1 DEF Goes

LEMMA HashToolDoes ==
  ASSUME HashTool
  PROVE  Goes \/ Stops
<1>1. job.program = "exxx_hash"
  BY DEF HashTool
<1>2. CASE results = <<>>
  BY <1>1, <1>2, HashCall DEF HashTool
<1>3. CASE results # <<>>
  <2>1. IF IsError(LastResult.error) THEN Fail ELSE Exit("success", LastResult.data)
    BY <1>3 DEF HashTool
  <2> QED
    BY <1>1, <1>3, <2>1, FailStops, NoErrorIsNone DEF Stops, Succeeds
<1> QED
  BY <1>2, <1>3

LEMMA LastIs ==
  ASSUME Len(results) = 1 \/ Len(results) = 2 \/ Len(results) = 3
  PROVE  /\ results # <<>>
         /\ Len(results) = 1 => LastResult = results[1]
         /\ Len(results) = 2 => LastResult = results[2]
BY DEF LastResult

LEMMA ReadTableToolDoes ==
  ASSUME Typed, pc = "ready", ReadTableTool
  PROVE  Goes \/ Stops
<1>1. job.program = "exxx_read" /\ job.program \in TableTools /\ job.program # "library"
  BY DEF ReadTableTool, TableTools
<1>2. CASE results = <<>>
  BY <1>1, <1>2, HashCall DEF ReadTableTool
<1>3. CASE results # <<>> /\ ~ ItemFound
  BY <1>3, FailStops DEF ReadTableTool
<1>4. CASE results # <<>> /\ Len(results) = 1 /\ ItemFound
  <2> DEFINE c == Read(Item.initial_address, Item.num_bytes)
  <2>1. Begin(c)
    BY <1>4 DEF ReadTableTool
  <2>2. IsCall(c, Len(results))
    BY <1>1, <1>4 DEF IsCall
  <2>3. ~ IsSystemError(LastResult.error)
    BY <1>4, LastIs DEF ItemFound
  <2> HIDE DEF c
  <2> QED
    BY <2>1, <2>2, <2>3 DEF Goes
<1>5. CASE results # <<>> /\ ItemFound /\ Len(results) = 2
  <2>1. IF IsSystemError(LastResult.error) THEN Fail
        ELSE Exit("success", ConvertToMKS(Item, LastResult.data))
    BY <1>5 DEF ReadTableTool
  <2> QED
    BY <1>1, <1>5, <2>1, FailStops DEF Stops, Succeeds
<1>6. Len(results) # 3
  <2>1. MostCalls = 2
    BY <1>1 DEF MostCalls
  <2>2. Len(results) <= 2
    BY <1>1, <2>1 DEF Typed, HostTyped
  <2> QED
    BY <2>2
<1>7. results = <<>> \/ Len(results) = 1 \/ Len(results) = 2 \/ Len(results) = 3
  BY <1>1, FewResults DEF Typed
<1> QED
  BY <1>2, <1>3, <1>4, <1>5, <1>6, <1>7

LEMMA WriteTableToolDoes ==
  ASSUME Typed, pc = "ready", WriteTableTool
  PROVE  Goes \/ Stops
<1>1. job.program = "exxx_write" /\ job.program \in TableTools /\ job.program # "library"
  BY DEF WriteTableTool, TableTools
<1>2. CASE results = <<>>
  BY <1>1, <1>2, HashCall DEF WriteTableTool
<1>3. CASE results # <<>> /\ ~ ItemFound
  BY <1>3, FailStops DEF WriteTableTool
<1>4. CASE results # <<>> /\ Len(results) = 1 /\ ItemFound
  <2>1. \/ Fail
        \/ \E bytes \in ConvertToBytes(Item, job.value) : Begin(Write(Item.initial_address, bytes))
    BY <1>4 DEF WriteTableTool
  <2>2. ASSUME NEW bytes \in ConvertToBytes(Item, job.value), Begin(Write(Item.initial_address, bytes))
        PROVE  Goes
    <3> DEFINE c == Write(Item.initial_address, bytes)
    <3>1. IsCall(c, Len(results))
      BY <1>1, <1>4, <2>2 DEF IsCall
    <3>2. ~ IsSystemError(LastResult.error)
      BY <1>4, LastIs DEF ItemFound
    <3>3. Begin(c)
      BY <2>2
    <3> HIDE DEF c
    <3> QED
      BY <3>1, <3>2, <3>3 DEF Goes
  <2> QED
    BY <2>1, <2>2, FailStops
<1>5. CASE results # <<>> /\ ItemFound /\ Len(results) = 2
  <2>1. IF IsSystemError(LastResult.error) THEN Fail ELSE Begin(Plain("SyncParam"))
    BY <1>5 DEF WriteTableTool
  <2>2. ~ IsSystemError(LastResult.error) => IsCall(Plain("SyncParam"), Len(results))
    BY <1>1, <1>5, LastIs DEF IsCall
  <2> QED
    BY <2>1, <2>2, FailStops DEF Goes
<1>6. CASE results # <<>> /\ ItemFound /\ Len(results) = 3
  <2>1. IF IsError(LastResult.error) THEN Fail ELSE Exit("success", <<>>)
    BY <1>6 DEF WriteTableTool
  <2> QED
    BY <1>1, <1>6, <2>1, FailStops, NoErrorIsNone DEF Stops, Succeeds
<1>7. results = <<>> \/ Len(results) = 1 \/ Len(results) = 2 \/ Len(results) = 3
  BY <1>1, FewResults DEF Typed
<1> QED
  BY <1>2, <1>3, <1>4, <1>5, <1>6, <1>7

LEMMA ProgramDoes ==
  ASSUME Typed, Program, job.program \in Tools
  PROVE  Goes \/ Stops
<1>1. pc = "ready"
  BY DEF Program
<1>2. ~ Library /\ ~ EepromTool
  BY DEF Library, EepromTool, Tools, TableTools, DataTools
<1> QED
  BY <1>1, <1>2, DataToolDoes, HashToolDoes, ReadTableToolDoes, WriteTableToolDoes DEF Program

-----------------------------------------------------------------------------
(* What the steps leave alone.                                              *)

(* A step of the bus: the call goes on, or it returns.                      *)
Bus == SendSome \/ SendGivesUp \/ Receive \/ ReceiveGivesUp \/ ServoAnswers \/ LineFault
GoesOn ==
  /\ pc' = pc \/ (pc = "sending" /\ pc' = "receiving")
  /\ results' = results
Returns ==
  /\ pc \in {"sending", "receiving"} /\ pc' = "ready"
  /\ UNCHANGED servo
  /\ results' # <<>> /\ Len(results') = Len(results) + 1
  /\ \A i \in 1..Len(results) : results'[i] = results[i]

LEMMA ReturnReturns ==
  ASSUME Typed, pc \in {"sending", "receiving"}, UNCHANGED servo,
         NEW outcome, NEW packet, Return(outcome, packet)
  PROVE  Returns /\ UNCHANGED <<call, output, exit_code>>
<1> DEFINE r == [call |-> call, error |-> outcome.error, data |-> outcome.data, packet |-> packet]
           n == Len(results)
           s == Append(results, r)
<1>1. results \in Seq(Results) /\ n \in Nat
  BY LenProperties DEF Typed, HostTyped
<1>2. results' = s /\ pc' = "ready" /\ UNCHANGED <<call, output, exit_code>>
  BY DEF Return
<1> HIDE DEF r, n
<1>3. Len(s) = n + 1 /\ \A i \in 1..n : s[i] = results[i]
  BY <1>1 DEF n
<1> HIDE DEF s
<1>4. Len(s) # 0
  BY <1>1, <1>3
<1>5. results' # <<>>
  BY <1>2, <1>4
<1> QED
  BY <1>2, <1>3, <1>5 DEF Returns, n

LEMMA SendSomeIs ==
  ASSUME Typed, SendSome
  PROVE  GoesOn \/ Returns
<1>1. pc = "sending" /\ servo' = servo
  BY DEF SendSome
<1>2. \/ UNCHANGED <<pc, call, polled, parser_, results, output, exit_code, requests>>
      \/ \E outcome, packet : Return(outcome, packet)
      \/ pc' = "receiving" /\ UNCHANGED <<call, results, output, exit_code>>
  BY DEF SendSome
<1> QED
  BY <1>1, <1>2, ReturnReturns DEF GoesOn

LEMMA SendSomeKeeps ==
  ASSUME Typed, SendSome
  PROVE  UNCHANGED <<call, output, exit_code>>
<1>1. \/ UNCHANGED <<pc, call, polled, parser_, results, output, exit_code, requests>>
      \/ \E outcome, packet : Return(outcome, packet)
      \/ pc' = "receiving" /\ UNCHANGED <<call, results, output, exit_code>>
  BY DEF SendSome
<1> QED
  BY <1>1 DEF Return

LEMMA BusIs ==
  ASSUME Typed, Bus
  PROVE  /\ UNCHANGED <<job, home, package, call, output, exit_code>>
         /\ pc # "exited"
         /\ GoesOn \/ Returns
<1>1. CASE SendSome
  <2>1. UNCHANGED <<job, home, package>> /\ pc = "sending"
    BY <1>1 DEF SendSome
  <2> QED
    BY <1>1, <2>1, SendSomeIs, SendSomeKeeps
<1>2. CASE SendGivesUp \/ ReceiveGivesUp
  <2>1. /\ pc \in {"sending", "receiving"} /\ UNCHANGED <<job, home, package, lineVars>>
        /\ \E outcome, packet : Return(outcome, packet)
    BY <1>2 DEF SendGivesUp, ReceiveGivesUp
  <2> QED
    BY <2>1, ReturnReturns DEF lineVars
<1>3. CASE Receive
  <2>1. /\ pc = "receiving"
        /\ UNCHANGED <<job, home, package, num_done, requests, servo, answers, faults>>
        /\ parser_'.status = "kDone" =>
             Return(AnswerResult(call.c, parser_'.packet), parser_'.packet)
        /\ parser_'.status # "kDone" => UNCHANGED <<pc, call, results, output, exit_code>>
    BY <1>3, ReceiveIs
  <2> QED
    BY <2>1, ReturnReturns DEF GoesOn
<1>4. CASE ServoAnswers
  <2>1. pc # "exited" /\ UNCHANGED <<job, home, package, hostVars>>
    BY <1>4 DEF ServoAnswers
  <2> QED
    BY <2>1 DEF hostVars, GoesOn
<1>5. CASE LineFault
  <2>1. pc # "exited" /\ UNCHANGED <<job, home, package, hostVars, servo, answers>>
    BY <1>5 DEF LineFault
  <2> QED
    BY <2>1 DEF hostVars, GoesOn
<1> QED
  BY <1>1, <1>2, <1>3, <1>4, <1>5 DEF Bus

(* What the servo does to itself.                                           *)
LEMMA BusServo ==
  ASSUME Typed, Bus
  PROVE  /\ servo'.version = servo.version
         /\ requests = <<>> => servo' = servo
         /\ Returns => servo' = servo
         /\ \A c \in Calls : requests = <<RequestOf(c)>> /\ c.name # "WriteData" =>
              servo'.memory = servo.memory
<1>0. Returns => servo' = servo
  BY DEF Returns
<1>1. CASE ServoAnswers
  <2>1. requests # <<>> /\ servo \in Servos /\ requests \in Seq(Requests)
    BY <1>1 DEF ServoAnswers, Typed, LineTyped
  <2>2. PICK c \in Calls : Head(requests) = RequestOf(c)
    BY <2>1, HeadOf
  <2>3. Answered(c)
    BY <1>1, <2>1, <2>2, ServoAnswersIs
  <2>4. ASSUME NEW d \in Calls, requests = <<RequestOf(d)>>, d.name # "WriteData"
        PROVE  servo'.memory = servo.memory
    <3>1. Head(requests) = RequestOf(d)
      BY <2>4, OneRequest
    <3>2. Answered(d)
      BY <1>1, <2>1, <3>1, ServoAnswersIs
    <3> QED
      BY <2>4, <3>2 DEF Answered
  <2> QED
    BY <1>0, <2>1, <2>3, <2>4 DEF Answered
<1>2. CASE SendSome \/ SendGivesUp \/ Receive \/ ReceiveGivesUp \/ LineFault
  <2>1. servo' = servo
    BY <1>2 DEF SendSome, SendGivesUp, Receive, ReceiveGivesUp, LineFault, lineVars
  <2> QED
    BY <2>1
<1> QED
  BY <1>1, <1>2 DEF Bus

LEMMA ItemKept ==
  ASSUME UNCHANGED <<job, home, package>>, results'[1] = results[1]
  PROVE  /\ Loaded' = Loaded /\ ItemFound' = ItemFound /\ Item' = Item
<1>1. job' = job /\ home' = home /\ package' = package
  OBVIOUS
<1>2. Loaded' = Loaded
  BY <1>1 DEF Loaded
<1> QED
  BY <1>1, <1>2 DEF ItemFound, Item

LEMMA CallKept ==
  ASSUME UNCHANGED <<job, home, package>>, NEW c, NEW n, IsCall(c, n),
         n \in {1, 2} => results'[1] = results[1],
         n = 2 => results'[2] = results[2]
  PROVE  IsCall(c, n)'
<1>1. job' = job
  OBVIOUS
<1>2. n \in {1, 2} => ItemFound' = ItemFound /\ Item' = Item
  BY ItemKept
<1>3. n = 0 \/ n = 1 \/ n = 2
  BY DEF IsCall
<1>4. CASE n = 0
  BY <1>1, <1>4 DEF IsCall
<1>5. CASE n = 1
  BY <1>1, <1>2, <1>5 DEF IsCall
<1>6. CASE n = 2
  BY <1>1, <1>2, <1>6 DEF IsCall
<1> QED
  BY <1>3, <1>4, <1>5, <1>6

-----------------------------------------------------------------------------
(* A tool makes the calls it should, in their order.                        *)

ToolCalls ==
  job.program \in Tools =>
    /\ pc \in {"sending", "receiving"} => IsCall(call.c, Len(results))
    /\ pc = "ready" /\ results # <<>> => IsCall(call.c, Len(results) - 1)

LEMMA CallsAre ==
  ASSUME NEW c, NEW n, IsCall(c, n)
  PROVE  n = 0 \/ n = 1 \/ n = 2
BY DEF IsCall

LEMMA BusToolCalls ==
  ASSUME Typed, ToolCalls, Bus
  PROVE  ToolCalls'
<1>1. UNCHANGED <<job, home, package, call>> /\ (GoesOn \/ Returns)
  BY BusIs
<1>2. SUFFICES ASSUME job.program \in Tools PROVE ToolCalls'
  BY <1>1 DEF ToolCalls
<1>3. Len(results) \in Nat
  BY LenProperties DEF Typed, HostTyped
<1>4. CASE GoesOn
  <2>1. results' = results /\ (pc' = pc \/ (pc = "sending" /\ pc' = "receiving"))
    BY <1>4 DEF GoesOn
  <2>2. ASSUME NEW n, IsCall(call.c, n) PROVE IsCall(call.c, n)'
    <3>1. PICK c : c = call.c
      OBVIOUS
    <3>2. PICK m : m = n
      OBVIOUS
    <3>3. IsCall(c, m)'
      BY <1>1, <2>1, <2>2, <3>1, <3>2, CallKept
    <3> QED
      BY <1>1, <3>1, <3>2, <3>3
  <2>3. PICK l : l = Len(results)
    OBVIOUS
  <2>4. /\ pc \in {"sending", "receiving"} => IsCall(call.c, l)
        /\ pc = "ready" /\ results # <<>> => IsCall(call.c, l - 1)
    BY <1>2, <2>3 DEF ToolCalls
  <2>5. /\ pc' \in {"sending", "receiving"} => IsCall(call.c, l)'
        /\ pc' = "ready" /\ results' # <<>> => IsCall(call.c, l - 1)'
    BY <2>1, <2>2, <2>4
  <2> QED
    BY <2>1, <2>3, <2>5 DEF ToolCalls
<1>5. CASE Returns
  <2>1. PICK n : n = Len(results)
    OBVIOUS
  <2>2. PICK c : c = call.c
    OBVIOUS
  <2>3. /\ pc \in {"sending", "receiving"} /\ pc' = "ready" /\ Len(results') = n + 1
        /\ \A i \in 1..n : results'[i] = results[i]
    BY <1>5, <2>1 DEF Returns
  <2>4. IsCall(c, n)
    BY <1>2, <2>1, <2>2, <2>3 DEF ToolCalls
  <2>5. n \in {1, 2} => 1 \in 1..n
    OBVIOUS
  <2>6. n = 2 => 2 \in 1..n
    OBVIOUS
  <2>7. IsCall(c, n)'
    BY <1>1, <2>3, <2>4, <2>5, <2>6, CallKept
  <2>8. Len(results') - 1 = n
    BY <1>3, <2>1, <2>3
  <2> QED
    BY <1>1, <2>2, <2>3, <2>7, <2>8 DEF ToolCalls
<1> QED
  BY <1>1, <1>4, <1>5

LEMMA ProgramToolCalls ==
  ASSUME Typed, ToolCalls, Program
  PROVE  ToolCalls'
<1>1. UNCHANGED <<job, home, package>>
  BY DEF Program
<1>2. SUFFICES ASSUME job.program \in Tools PROVE ToolCalls'
  BY <1>1 DEF ToolCalls
<1>3. CASE Stops
  BY <1>3 DEF Stops, Exit, ToolCalls
<1>4. CASE Goes
  <2>1. PICK c : Begin(c) /\ IsCall(c, Len(results))
    BY <1>4 DEF Goes
  <2>2. PICK n : n = Len(results)
    OBVIOUS
  <2>3. pc' = "sending" /\ results' = results
        /\ call' = [c |-> c, clean |-> requests = <<>> /\ line = <<>>, faults |-> faults]
    BY <2>1 DEF Begin
  <2>4. call'.c = c
    BY <2>3
  <2>5. IsCall(c, n)'
    BY <1>1, <2>1, <2>2, <2>3, CallKept
  <2> QED
    BY <2>2, <2>3, <2>4, <2>5 DEF ToolCalls
<1> QED
  BY <1>2, <1>3, <1>4, ProgramDoes

LEMMA OpenToolCalls ==
  ASSUME Typed, Open
  PROVE  ToolCalls'
<1>1. pc = "open" /\ pc' \in {"ready", "exited"} /\ results' = results
  BY DEF Open
<1>2. results = <<>>
  BY <1>1 DEF Typed, HostTyped
<1> QED
  BY <1>1, <1>2 DEF ToolCalls

LEMMA StutterToolCalls ==
  ASSUME ToolCalls, UNCHANGED vars
  PROVE  ToolCalls'
BY DEF ToolCalls, IsCall, ItemFound, Item, Loaded, vars, hostVars, lineVars

LEMMA NextToolCalls ==
  ASSUME Typed, ToolCalls, [Next]_vars
  PROVE  ToolCalls'
BY BusToolCalls, ProgramToolCalls, OpenToolCalls, StutterToolCalls DEF Next, Bus, Terminated

-----------------------------------------------------------------------------
(* What the last result of a tool says, while the bus met one fault at most. *)

CallTools == TableTools \cup DataTools

LEMMA LastIsOwn ==
  ASSUME job.program \in Tools, ToolCalls, OwnReady(0), pc = "ready", results # <<>>,
         ~ IsSystemError(LastResult.error)
  PROVE  LastClaims /\ requests = <<>> /\ Unanswered(line, faults, 0)
<1>1. PICK n : IsCall(call.c, n)
  BY DEF ToolCalls
<1>2. call.c.name \in {"ReadData", "WriteData", "ReadHash", "SyncParam"}
  <2>1. /\ \A addr, size : Read(addr, size).name = "ReadData"
        /\ \A addr, data : Write(addr, data).name = "WriteData"
        /\ \A name : Plain(name).name = name
    BY DEF Read, Write, Plain, Call
  <2>2. \/ \E addr, size : call.c = Read(addr, size)
        \/ \E addr, data : call.c = Write(addr, data)
        \/ call.c = Plain("ReadHash") \/ call.c = Plain("SyncParam")
    BY <1>1 DEF IsCall
  <2> QED
    BY <2>1, <2>2
<1>3. ~ LastMute
  BY <1>2 DEF LastMute, Mute
<1> QED
  BY <1>3 DEF OwnReady

HashHeld ==
  job.program \in TableTools /\ results # <<>> =>
    \/ IsSystemError(results[1].error)
    \/ results[1].data = HashOf[servo.version] \o FirmwareHash

ItemWritten ==
  \E bytes \in ConvertToBytes(Item, job.value) :
    StoredIn(servo, Item.initial_address, Len(bytes)) = bytes

WriteHeld ==
  job.program = "exxx_write" /\ Len(results) \in {2, 3} =>
    \/ IsSystemError(results[2].error) \/ IsError(results[2].error)
    \/ pc = "ready" /\ IsSystemError(LastResult.error)
    \/ ItemWritten

LEMMA FirstHeld ==
  ASSUME Typed, ToolCalls, OwnReady(0), pc = "ready", Len(results) = 1
  PROVE  HashHeld
<1> SUFFICES ASSUME job.program \in TableTools, ~ IsSystemError(results[1].error)
             PROVE  results[1].data = HashOf[servo.version] \o FirmwareHash
  BY DEF HashHeld
<1>1. LastResult = results[1] /\ results # <<>> /\ Len(results) - 1 = 0 /\ job.program \in Tools
  BY LastIs DEF Tools
<1>2. LastClaims
  BY <1>1, LastIsOwn
<1>3. call.c = Plain("ReadHash")
  <2>1. IsCall(call.c, 0)
    BY <1>1 DEF ToolCalls
  <2> QED
    BY <2>1 DEF IsCall, TableTools, DataTools
<1>4. call.c.name = "ReadHash"
  BY <1>3 DEF Plain, Call
<1> QED
  BY <1>1, <1>2, <1>4 DEF LastClaims, ClaimOf

LEMMA SecondHeld ==
  ASSUME Typed, ToolCalls, OwnReady(0), pc = "ready", Len(results) = 2
  PROVE  WriteHeld
<1> SUFFICES ASSUME job.program = "exxx_write", ~ IsSystemError(results[2].error),
                    ~ IsError(results[2].error)
             PROVE  ItemWritten
  BY DEF WriteHeld
<1>1. LastResult = results[2] /\ results # <<>> /\ Len(results) - 1 = 1 /\ job.program \in Tools
  BY LastIs DEF Tools, TableTools
<1>2. LastClaims
  BY <1>1, LastIsOwn
<1>3. IsCall(call.c, 1)
  BY <1>1 DEF ToolCalls
<1>4. PICK bytes \in ConvertToBytes(Item, job.value) : call.c = Write(Item.initial_address, bytes)
  BY <1>3 DEF IsCall
<1>5. /\ call.c.name = "WriteData" /\ call.c.addr = Item.initial_address
      /\ call.c.size = Len(bytes) /\ call.c.data = bytes
  BY <1>4 DEF Write, Call
<1>6. StoredIn(servo, call.c.addr, call.c.size) = call.c.data
  BY <1>1, <1>2, <1>5 DEF LastClaims, ClaimOf
<1> QED
  BY <1>5, <1>6 DEF ItemWritten

(* All of it, for a tool other than exxx_hash.                              *)
Fresh ==
  pc = "open" \/ (pc = "ready" /\ results = <<>>) => requests = <<>> /\ Unanswered(line, faults, 0)
Held == Fresh /\ UnderWay(0) /\ HashHeld /\ WriteHeld
HeldAlways == job.program \in CallTools /\ faults <= 1 /\ pc # "exited" => Held

LEMMA FirstIsHeld == Typed /\ ToolCalls /\ OwnReady(0) /\ pc = "ready" /\ Len(results) = 1 => HashHeld
BY FirstHeld

LEMMA SecondIsHeld == Typed /\ ToolCalls /\ OwnReady(0) /\ pc = "ready" /\ Len(results) = 2 => WriteHeld
BY SecondHeld

LEMMA FirstIsHeldNext ==
  (Typed /\ ToolCalls /\ OwnReady(0) /\ pc = "ready" /\ Len(results) = 1)' => HashHeld'
BY FirstIsHeld, PTL

LEMMA SecondIsHeldNext ==
  (Typed /\ ToolCalls /\ OwnReady(0) /\ pc = "ready" /\ Len(results) = 2)' => WriteHeld'
BY SecondIsHeld, PTL

LEMMA BusFresh ==
  ASSUME Typed, Fresh, Bus, Within(0), faults' <= 0 + 1
  PROVE  Fresh'
<1>1. GoesOn \/ Returns
  BY BusIs
<1>2. SUFFICES ASSUME pc' = "open" \/ (pc' = "ready" /\ results' = <<>>)
               PROVE  requests' = <<>> /\ Unanswered(line', faults', 0)
  BY DEF Fresh
<1>3. pc' = pc /\ results' = results
  BY <1>1, <1>2 DEF GoesOn, Returns
<1>4. requests = <<>> /\ Unanswered(line, faults, 0)
  BY <1>2, <1>3 DEF Fresh
<1>5. ~ SendSome /\ ~ SendGivesUp /\ ~ Receive /\ ~ ReceiveGivesUp
  BY <1>2, <1>3 DEF SendSome, SendGivesUp, Receive, ReceiveGivesUp
<1>6. ~ ServoAnswers
  BY <1>4 DEF ServoAnswers
<1>7. LineFault
  BY <1>5, <1>6 DEF Bus
<1> QED
  BY <1>4, <1>7, NoiseComes

LEMMA BusHashHeld ==
  ASSUME Typed, ToolCalls, HashHeld, Bus, Typed', ToolCalls', UnderWay(0)'
  PROVE  HashHeld'
<1>1. UNCHANGED <<job, home, package, call, output, exit_code>> /\ (GoesOn \/ Returns)
  BY BusIs
<1>2. servo'.version = servo.version
  BY BusServo
<1>3. Len(results) \in Nat /\ (Len(results) = 0 => results = <<>>)
  BY LenProperties, EmptySeq DEF Typed, HostTyped
<1>4. CASE GoesOn
  BY <1>1, <1>2, <1>4 DEF GoesOn, HashHeld
<1>5. CASE Returns /\ Len(results) = 0
  <2>1. pc' = "ready" /\ Len(results') = 1 /\ results' # <<>>
    BY <1>5 DEF Returns
  <2>2. OwnReady(0)'
    BY <2>1 DEF UnderWay
  <2> QED
    BY <2>1, <2>2, FirstIsHeldNext
<1>6. CASE Returns /\ Len(results) # 0
  <2> DEFINE n == Len(results)
  <2>1. n \in Nat /\ n # 0
    BY <1>3, <1>6
  <2>2. \A i \in 1..n : results'[i] = results[i]
    BY <1>6 DEF Returns
  <2>3. results # <<>>
    BY <1>6
  <2> HIDE DEF n
  <2>4. 1 \in 1..n
    BY <2>1
  <2>5. results'[1] = results[1]
    BY <2>2, <2>4
  <2> QED
    BY <1>1, <1>2, <2>3, <2>5 DEF HashHeld
<1> QED
  BY <1>1, <1>4, <1>5, <1>6

LEMMA ItemWrittenKept ==
  ASSUME UNCHANGED <<job, home, package>>, results'[1] = results[1],
         servo'.memory = servo.memory, ItemWritten
  PROVE  ItemWritten'
<1>1. Item' = Item /\ job' = job
  BY ItemKept
<1>2. PICK bytes \in ConvertToBytes(Item, job.value) :
        StoredIn(servo, Item.initial_address, Len(bytes)) = bytes
  BY DEF ItemWritten
<1>3. StoredIn(servo', Item.initial_address, Len(bytes)) = bytes
  BY <1>2 DEF StoredIn
<1> QED
  BY <1>1, <1>2, <1>3 DEF ItemWritten

LEMMA BusWriteHeld ==
  ASSUME Typed, ToolCalls, Fresh, UnderWay(0), WriteHeld, Bus, Typed', ToolCalls', UnderWay(0)'
  PROVE  WriteHeld'
<1>1. UNCHANGED <<job, home, package, call, output, exit_code>> /\ (GoesOn \/ Returns)
  BY BusIs
<1>2. SUFFICES ASSUME job.program = "exxx_write", Len(results') \in {2, 3},
                      ~ IsSystemError(results'[2].error), ~ IsError(results'[2].error),
                      ~ (pc' = "ready" /\ IsSystemError(LastResult'.error))
               PROVE  ItemWritten'
  BY <1>1 DEF WriteHeld
<1>3. Len(results) \in Nat
  BY LenProperties DEF Typed, HostTyped
<1>4. job.program \in Tools /\ job.program # "library"
  BY <1>2 DEF Tools, TableTools
<1>5. CASE GoesOn
  <2>1. results' = results /\ LastResult' = LastResult
        /\ (pc' = pc \/ (pc = "sending" /\ pc' = "receiving"))
    BY <1>5 DEF GoesOn, LastResult
  <2>2. ItemWritten
    BY <1>2, <2>1 DEF WriteHeld
  <2>3. servo'.memory = servo.memory
    <3>1. results # <<>> /\ pc # "open"
      BY <1>2, <2>1 DEF Typed, HostTyped
    <3>2. CASE pc = "ready"
      <4>1. ~ IsSystemError(LastResult.error)
        BY <1>2, <2>1, <3>2
      <4>2. requests = <<>>
        BY <1>4, <3>1, <3>2, <4>1, LastIsOwn DEF UnderWay
      <4> QED
        BY <4>2, BusServo
    <3>3. CASE pc = "sending"
      <4>1. requests = <<>>
        BY <3>3 DEF UnderWay, OwnSending
      <4> QED
        BY <4>1, BusServo
    <3>4. CASE pc = "receiving"
      <4>1. requests = <<>> \/ requests = <<RequestOf(call.c)>>
        BY <3>4 DEF UnderWay, OwnAsked, OwnLost, OwnComing
      <4>2. Len(results) = 2
        <5>1. Len(results) < 3
          <6>1. MostCalls = 3
            BY <1>2 DEF MostCalls
          <6> QED
            BY <1>4, <3>4, <6>1 DEF Typed, HostTyped
        <5> QED
          BY <1>2, <2>1, <5>1
      <4>3. call.c = Plain("SyncParam")
        <5>1. IsCall(call.c, 2)
          BY <1>4, <3>4, <4>2 DEF ToolCalls
        <5> QED
          BY <5>1 DEF IsCall
      <4>4. call.c.name # "WriteData" /\ call.c \in Calls
        BY <4>3 DEF Plain, Call, Typed, HostTyped, CallStates
      <4> QED
        BY <4>1, <4>4, BusServo
    <3>5. pc # "exited" /\ pc \in {"open", "ready", "sending", "receiving", "exited"}
      BY BusIs DEF Typed, HostTyped
    <3> QED
      BY <3>1, <3>2, <3>3, <3>4, <3>5
  <2> QED
    BY <1>1, <2>1, <2>2, <2>3, ItemWrittenKept
<1>6. CASE Returns /\ Len(results) = 1
  <2>1. pc' = "ready" /\ Len(results') = 2 /\ results' # <<>>
    BY <1>6 DEF Returns
  <2>2. OwnReady(0)'
    BY <2>1 DEF UnderWay
  <2>3. WriteHeld'
    BY <2>1, <2>2, SecondIsHeldNext
  <2> QED
    BY <1>1, <1>2, <2>3 DEF WriteHeld
<1>7. CASE Returns /\ Len(results) # 1
  <2>1. Len(results') = Len(results) + 1 /\ servo' = servo /\ pc \in {"sending", "receiving"}
        /\ \A i \in 1..Len(results) : results'[i] = results[i]
    BY <1>7 DEF Returns
  <2>2. Len(results) = 2
    <3> DEFINE n == Len(results)
               m == Len(results')
    <3>1. n \in Nat /\ n # 1 /\ m = n + 1 /\ (m = 2 \/ m = 3)
      BY <1>2, <1>3, <1>7, <2>1
    <3> HIDE DEF n, m
    <3>2. n = 2
      BY <3>1
    <3> QED
      BY <3>2 DEF n
  <2>3. results'[1] = results[1] /\ results'[2] = results[2]
    BY <2>1, <2>2
  <2>4. ItemWritten
    BY <1>2, <2>1, <2>2, <2>3 DEF WriteHeld
  <2> QED
    BY <1>1, <2>1, <2>3, <2>4, ItemWrittenKept
<1> QED
  BY <1>1, <1>5, <1>6, <1>7

-----------------------------------------------------------------------------
(* What a tool that succeeds says.                                          *)

Told ==
  /\ job.program = "exxx_read_data" => output = Stored(job.addr, job.size)
  /\ job.program = "exxx_hash" => output = HashOf[servo.version] \o FirmwareHash
  /\ job.program = "exxx_read" =>
       output = [units |-> DoubleCast(Own(job.item).type, OwnBytes(job.item)),
                 per |-> Own(job.item).coefficient_mks]
  /\ job.program = "exxx_write_data" =>
       LastResult.error.value # 0 \/ Stored(job.addr, job.size) = LowBytes(job.value, job.size)
  /\ job.program = "exxx_write" =>
       \/ results[2].error.value # 0
       \/ Own(job.item).type \notin Signed /\ job.value < 0
       \/ /\ Magnitude(job.value * Own(job.item).coefficient_mks
                       - 10 * DoubleCast(Own(job.item).type, OwnBytes(job.item))) <= 5
          /\ servo.synced = servo.memory

LEMMA VersionIs ==
  ASSUME NEW v \in {"A", "B"}
  PROVE  HashedTable(SubSeq(HashOf[v] \o FirmwareHash, 1, kControlTableHashByte)) = TableOf[v]
<1> DEFINE h == HashOf[v]
           s == SubSeq(h \o FirmwareHash, 1, kControlTableHashByte)
<1>1. HashOf["A"] = <<1, 1>> /\ HashOf["B"] = <<2, 2>>
  BY DEF HashOf
<1>2. s = h
  <2>0. PICK m, n : m = 0 /\ n = 2
    OBVIOUS
  <2> DEFINE j == h \o FirmwareHash
             x == SubSeq(j, m + 1, n)
  <2>1. 1 \in Byte /\ 2 \in Byte /\ 9 \in Byte
    BY DEF Byte
  <2>2. h \in Seq(Byte) /\ Len(h) = 2 /\ FirmwareHash \in Seq(Byte) /\ Len(FirmwareHash) = 1
    <3>1. h = <<1, 1>> \/ h = <<2, 2>>
      BY <1>1
    <3>2. <<1, 1>> \in Seq(Byte) /\ <<2, 2>> \in Seq(Byte) /\ <<9>> \in Seq(Byte)
      BY <2>1
    <3>3. Len(<<1, 1>>) = 2 /\ Len(<<2, 2>>) = 2 /\ Len(<<9>>) = 1
      OBVIOUS
    <3> HIDE DEF h
    <3> QED
      BY <3>1, <3>2, <3>3 DEF FirmwareHash
  <2> HIDE DEF h
  <2>3. IsJoin(j, h, FirmwareHash)
    BY <2>2, Joined
  <2>4. j \in Seq(Byte) /\ Len(j) = 3 /\ \A i \in 1..2 : j[i] = h[i]
    BY <2>2, <2>3 DEF IsJoin
  <2> HIDE DEF j
  <2>5. x \in Seq(Byte) /\ Len(x) = n - m /\ \A i \in 1..n - m : x[i] = j[m + i]
    <3>1. m \in Nat /\ n \in Nat /\ m <= n /\ n <= Len(j) /\ j \in Seq(Byte)
      BY <2>0, <2>4
    <3> QED
      BY ONLY <3>1, Slice
  <2>6. Len(x) = 2 /\ \A i \in 1..2 : x[i] = j[i]
    BY <2>0, <2>5
  <2> HIDE DEF x
  <2>7. Len(x) = Len(h) /\ \A i \in 1..Len(x) : x[i] = h[i]
    BY <2>2, <2>4, <2>6
  <2>8. x = h
    BY <2>2, <2>5, <2>7, SeqEqual
  <2>9. m + 1 = 1 /\ n = 2
    BY <2>0
  <2>10. x = SubSeq(j, 1, 2)
    BY <2>9 DEF x
  <2> QED
    BY <2>8, <2>10 DEF j, kControlTableHashByte
<1>3. <<1, 1>> # <<2, 2>>
  OBVIOUS
<1>4. \A w \in {"A", "B"} : HashOf[w] = h => w = v
  BY <1>1, <1>3
<1> HIDE DEF s
<1> DEFINE w == CHOOSE w \in {"A", "B"} : HashOf[w] = h
<1>5. HashedTable(h) = TableOf[w]
  BY DEF HashedTable
<1>6. w \in {"A", "B"} /\ HashOf[w] = h
  OBVIOUS
<1> HIDE DEF w
<1>7. w = v
  BY <1>4, <1>6
<1>8. HashedTable(s) = TableOf[v]
  <2> HIDE DEF h
  <2> QED
    BY <1>2, <1>5, <1>7
<1> QED
  BY <1>8 DEF s, h

LEMMA ItemIsOwn ==
  ASSUME Typed, HashHeld, job.program \in TableTools, results # <<>>, ItemFound
  PROVE  Item = Own(job.item)
<1> DEFINE hash == SubSeq(results[1].data, 1, kControlTableHashByte)
           file == HashedTable(hash)
<1>1. ~ IsSystemError(results[1].error) /\ Loaded.ok
  BY DEF ItemFound
<1>2. results[1].data = HashOf[servo.version] \o FirmwareHash
  BY <1>1 DEF HashHeld
<1>3. servo.version \in {"A", "B"}
  BY DEF Typed, LineTyped, Servos
<1>4. file = TableOf[servo.version]
  BY <1>2, <1>3, VersionIs
<1>5. Loaded = LoadControlTable(home, package, file)
  BY DEF Loaded
<1> HIDE DEF hash, file
<1>6. Loaded.table = Load(file)
  BY <1>1, <1>5 DEF LoadControlTable
<1> QED
  BY <1>4, <1>6 DEF Item, Own

LEMMA OneCall ==
  ASSUME Typed, ToolCalls, pc = "ready", results # <<>>, job.program \in CallTools
  PROVE  /\ IsCall(call.c, Len(results) - 1)
         /\ job.program \in Tools /\ job.program # "library"
         /\ Len(results) \in Nat
<1>1. job.program \in Tools /\ job.program # "library"
  BY DEF CallTools, Tools, TableTools, DataTools
<1>2. Len(results) \in Nat
  BY LenProperties DEF Typed, HostTyped
<1> QED
  BY <1>1, <1>2 DEF ToolCalls

LEMMA DataCall ==
  ASSUME Typed, ToolCalls, pc = "ready", results # <<>>, job.program \in DataTools
  PROVE  /\ job.size \in {1, 2}
         /\ call.c = IF job.program = "exxx_read_data" THEN Read(job.addr, job.size)
                     ELSE Write(job.addr, LowBytes(job.value, job.size))
<1>1. job.program \in CallTools
  BY DEF CallTools
<1>2. IsCall(call.c, Len(results) - 1)
  BY <1>1, OneCall
<1>3. job.program \notin TableTools \cup {"exxx_hash"} /\ job.program # "exxx_read" /\ job.program # "exxx_write"
  BY DEF DataTools, TableTools
<1> QED
  BY <1>2, <1>3 DEF IsCall

LEMMA ReadDataTold ==
  ASSUME Typed, ToolCalls, Held, pc = "ready", job.program = "exxx_read_data",
         NEW text, Succeeds(text)
  PROVE  text = Stored(job.addr, job.size)
<1>1. job.program \in DataTools /\ job.program \in Tools /\ results # <<>>
      /\ ~ IsSystemError(LastResult.error) /\ text = LastResult.data
  BY DEF DataTools, Tools, Succeeds
<1>2. call.c = Read(job.addr, job.size)
  BY <1>1, DataCall
<1>3. LastClaims
  BY <1>1, LastIsOwn DEF Held, UnderWay
<1>4. call.c.name = "ReadData" /\ call.c.addr = job.addr /\ call.c.size = job.size
  BY <1>2 DEF Read, Call
<1>5. LastResult.data = StoredIn(servo, job.addr, job.size)
  BY <1>1, <1>3, <1>4 DEF LastClaims, ClaimOf
<1> QED
  BY <1>1, <1>5 DEF Stored, StoredIn

LEMMA WriteDataTold ==
  ASSUME Typed, ToolCalls, Held, pc = "ready", job.program = "exxx_write_data",
         NEW text, Succeeds(text)
  PROVE  LastResult.error.value # 0 \/ Stored(job.addr, job.size) = LowBytes(job.value, job.size)
<1>1. job.program \in DataTools /\ job.program \in Tools /\ results # <<>>
      /\ ~ IsSystemError(LastResult.error) /\ job.program # "exxx_read_data"
  BY DEF DataTools, Tools, Succeeds
<1> DEFINE d == LowBytes(job.value, job.size)
<1>2. call.c = Write(job.addr, d) /\ job.size \in {1, 2}
  BY <1>1, DataCall
<1>3. LastClaims
  BY <1>1, LastIsOwn DEF Held, UnderWay
<1>4. Len(d) = job.size
  <2>1. IsJobValue(job.value)
    BY JobIs DEF Typed, HostTyped, JobTyped, IsJobValue
  <2> QED
    BY <1>2, <2>1, LowBytesAre
<1> HIDE DEF d
<1>5. /\ call.c.name = "WriteData" /\ call.c.addr = job.addr /\ call.c.size = job.size
      /\ call.c.data = d
  BY <1>2, <1>4 DEF Write, Call
<1>6. SUFFICES ASSUME ~ IsError(LastResult.error) PROVE Stored(job.addr, job.size) = d
  BY DEF IsError, d
<1>7. StoredIn(servo, job.addr, job.size) = d
  BY <1>3, <1>5, <1>6 DEF LastClaims, ClaimOf
<1> QED
  BY <1>7 DEF Stored, StoredIn

LEMMA ReadTold ==
  ASSUME Typed, ToolCalls, Held, pc = "ready", job.program = "exxx_read",
         NEW text, Succeeds(text)
  PROVE  text = [units |-> DoubleCast(Own(job.item).type, OwnBytes(job.item)),
                 per |-> Own(job.item).coefficient_mks]
<1>1. /\ job.program \in CallTools /\ job.program \in TableTools /\ job.program \in Tools
      /\ results # <<>>
      /\ ~ IsSystemError(LastResult.error) /\ text = ConvertToMKS(Item, LastResult.data)
      /\ Len(results) = 2 /\ ItemFound
  BY DEF CallTools, TableTools, Tools, Succeeds
<1>2. call.c = Read(Item.initial_address, Item.num_bytes)
  <2>1. IsCall(call.c, 1)
    <3>1. Len(results) - 1 = 1
      BY <1>1
    <3> QED
      BY <1>1, <3>1, OneCall
  <2> QED
    BY <2>1 DEF IsCall
<1>3. LastClaims
  BY <1>1, LastIsOwn DEF Held, UnderWay
<1>4. call.c.name = "ReadData" /\ call.c.addr = Item.initial_address /\ call.c.size = Item.num_bytes
  BY <1>2 DEF Read, Call
<1>5. LastResult.data = StoredIn(servo, Item.initial_address, Item.num_bytes)
  BY <1>1, <1>3, <1>4 DEF LastClaims, ClaimOf
<1>6. Item = Own(job.item)
  BY <1>1, ItemIsOwn DEF Held
<1>7. LastResult.data = OwnBytes(job.item)
  BY <1>5, <1>6 DEF OwnBytes, Stored, StoredIn
<1> QED
  BY <1>1, <1>6, <1>7 DEF ConvertToMKS

LEMMA WriteTold ==
  ASSUME Typed, ToolCalls, Held, pc = "ready", job.program = "exxx_write",
         NEW text, Succeeds(text)
  PROVE  \/ results[2].error.value # 0
         \/ Own(job.item).type \notin Signed /\ job.value < 0
         \/ /\ Magnitude(job.value * Own(job.item).coefficient_mks
                         - 10 * DoubleCast(Own(job.item).type, OwnBytes(job.item))) <= 5
            /\ servo.synced = servo.memory
<1>1. /\ job.program \in CallTools /\ job.program \in TableTools /\ job.program \in Tools
      /\ results # <<>> /\ ~ IsError(LastResult.error)
      /\ ~ IsSystemError(LastResult.error)
      /\ Len(results) = 3 /\ ItemFound
  BY DEF CallTools, TableTools, Tools, Succeeds
<1>2. call.c = Plain("SyncParam") /\ ~ IsSystemError(results[2].error)
  <2>1. IsCall(call.c, 2)
    <3>1. Len(results) - 1 = 2
      BY <1>1
    <3> QED
      BY <1>1, <3>1, OneCall
  <2> QED
    BY <2>1 DEF IsCall
<1>3. LastClaims
  BY <1>1, LastIsOwn DEF Held, UnderWay
<1>4. call.c.name = "SyncParam"
  BY <1>2 DEF Plain, Call
<1>5. servo.synced = servo.memory
  BY <1>1, <1>3, <1>4 DEF LastClaims, ClaimOf
<1>6. Item = Own(job.item) /\ Item \in Descriptors
  BY <1>1, ItemIsOwn, ItemIs DEF Held
<1>7. job.value \in Int
  BY JobIs DEF Typed, HostTyped, JobTyped
<1> DEFINE near == Magnitude(job.value * Item.coefficient_mks
                             - 10 * DoubleCast(Item.type, OwnBytes(job.item))) <= 5
<1>8. SUFFICES ASSUME ~ IsError(results[2].error), Item.type \in Signed \/ ~ (job.value < 0)
               PROVE  near
  BY <1>5, <1>6 DEF IsError
<1>9. ItemWritten
  BY <1>1, <1>2, <1>8 DEF Held, WriteHeld
<1>10. PICK bytes \in ConvertToBytes(Item, job.value) :
         StoredIn(servo, Item.initial_address, Len(bytes)) = bytes
  BY <1>9 DEF ItemWritten
<1>11. Len(bytes) = Item.num_bytes
  BY <1>6, <1>7, <1>10, ConvertedIs
<1>12. OwnBytes(job.item) = bytes
  BY <1>6, <1>10, <1>11 DEF OwnBytes, Stored, StoredIn
<1>13. Item.type \in Signed \/ job.value >= 0
  BY <1>7, <1>8
<1>14. Magnitude(job.value * Item.coefficient_mks - 10 * DoubleCast(Item.type, bytes)) <= 5
  BY <1>6, <1>7, <1>10, <1>13, WrittenIsNear
<1> QED
  BY <1>12, <1>14

LEMMA ExitTold ==
  ASSUME Typed, ToolCalls, Held, pc = "ready", job.program \in CallTools,
         NEW text, Exit("success", text), Succeeds(text),
         UNCHANGED <<job, home, package, lineVars>>
  PROVE  Told'
<1>1. job' = job /\ servo' = servo /\ results' = results /\ output' = text /\ LastResult' = LastResult
  BY DEF Exit, lineVars, LastResult
<1>2. /\ \A a, n : Stored(a, n)' = Stored(a, n)
      /\ \A i : Own(i)' = Own(i) /\ OwnBytes(i)' = OwnBytes(i)
  BY <1>1 DEF Stored, Own, OwnBytes
<1>3. job.program # "exxx_hash"
  BY DEF CallTools, TableTools, DataTools
<1>4. CASE job.program = "exxx_read_data"
  <2>1. text = Stored(job.addr, job.size)
    BY <1>4, ReadDataTold
  <2>2. output' = Stored(job.addr, job.size)'
    BY <1>1, <2>1 DEF Stored
  <2> QED
    BY <1>1, <1>4, <2>2 DEF Told
<1>5. CASE job.program = "exxx_write_data"
  <2>1. LastResult.error.value # 0 \/ Stored(job.addr, job.size) = LowBytes(job.value, job.size)
    BY <1>5, WriteDataTold
  <2>2. Stored(job.addr, job.size)' = Stored(job.addr, job.size)
    BY <1>1 DEF Stored
  <2> QED
    BY <1>1, <1>5, <2>1, <2>2 DEF Told
<1>6. Own(job.item)' = Own(job.item) /\ OwnBytes(job.item)' = OwnBytes(job.item)
  BY <1>1 DEF Own, OwnBytes, Stored
<1>7. CASE job.program = "exxx_read"
  BY <1>1, <1>6, <1>7, ReadTold DEF Told
<1>8. CASE job.program = "exxx_write"
  <2>1. \/ results[2].error.value # 0
        \/ Own(job.item).type \notin Signed /\ job.value < 0
        \/ /\ Magnitude(job.value * Own(job.item).coefficient_mks
                        - 10 * DoubleCast(Own(job.item).type, OwnBytes(job.item))) <= 5
           /\ servo.synced = servo.memory
    BY <1>8, WriteTold
  <2> QED
    BY <1>1, <1>6, <1>8, <2>1 DEF Told
<1> QED
  BY <1>4, <1>5, <1>7, <1>8 DEF CallTools, TableTools, DataTools

LEMMA ToldTellsTruth ==
  ASSUME Told
  PROVE  CASE job.program = "exxx_read_data" -> output = Stored(job.addr, job.size)
      [] job.program = "exxx_hash" -> output = HashOf[servo.version] \o FirmwareHash
      [] job.program = "exxx_read" ->
           output = [units |-> DoubleCast(Own(job.item).type, OwnBytes(job.item)),
                     per |-> Own(job.item).coefficient_mks]
      [] job.program = "exxx_write_data" ->
           LastResult.error.value # 0 \/ Stored(job.addr, job.size) = LowBytes(job.value, job.size)
      [] job.program = "exxx_write" ->
           \/ results[2].error.value # 0
           \/ Own(job.item).type \notin Signed /\ job.value < 0
           \/ /\ Magnitude(job.value * Own(job.item).coefficient_mks
                           - 10 * DoubleCast(Own(job.item).type, OwnBytes(job.item))) <= 5
              /\ servo.synced = servo.memory
      [] OTHER -> TRUE
BY DEF Told

-----------------------------------------------------------------------------
(* exxx_hash may find a first header byte in the port that was there before  *)
(* it: what the parser can make of the bytes after it.                      *)

Headed(x) == <<kHeader1>> \o x

LEMMA HeadedIs ==
  ASSUME NEW x \in Seq(Byte)
  PROVE  /\ IsJoin(Headed(x), <<kHeader1>>, x)
         /\ Headed(x) \in Seq(Byte) /\ Len(Headed(x)) = 1 + Len(x)
         /\ Headed(x)[1] = 170
         /\ \A i \in 1..Len(x) : Headed(x)[1 + i] = x[i]
<1> DEFINE h == <<kHeader1>>
           r == Headed(x)
<1>1. h \in Seq(Byte) /\ Len(h) = 1 /\ h[1] = 170
  BY HeaderIs DEF kHeader1
<1>2. r = h \o x
  BY DEF Headed
<1> HIDE DEF h, r
<1>3. IsJoin(r, h, x)
  BY <1>1, <1>2, Joined
<1>4. 1 \in 1..Len(h)
  BY <1>1
<1>5. r \in Seq(Byte) /\ Len(r) = 1 + Len(x) /\ r[1] = 170 /\ \A i \in 1..Len(x) : r[1 + i] = x[i]
  BY <1>1, <1>3, <1>4 DEF IsJoin
<1> QED
  BY <1>3, <1>5 DEF r, h

LEMMA HeadedWindow ==
  ASSUME NEW x \in Seq(Byte), x = <<>> \/ x[1] # 85,
         NEW p, Whole(p, Id), NEW c \in Nat, c <= Len(Headed(x)), Ends(p, Headed(x), c)
  PROVE  \E e \in Nat : c = 1 + e /\ e <= Len(x) /\ Ends(p, x, e)
<1> DEFINE t == Headed(x)
           n == Len(p)
           m == Len(x)
<1>1. t \in Seq(Byte) /\ Len(t) = 1 + m /\ m \in Nat /\ \A i \in 1..m : t[1 + i] = x[i]
  BY HeadedIs, LenProperties
<1> HIDE DEF t
<1>2. PICK i \in Nat : /\ n \in Nat /\ n >= 8 /\ i + n = c /\ t[i + 2] = 85
                       /\ \A j \in 1..n : p[j] = t[i + j]
  <2>1. c <= Len(t) /\ Ends(p, t, c)
    BY DEF t
  <2>2. PICK i \in Nat :
          /\ Len(p) \in Nat /\ Len(p) >= 8 /\ i + Len(p) = c
          /\ t[i + 1] = 170 /\ t[i + 2] = 85 /\ t[i + 3] = 11
          /\ t[i + 4] + 256 * t[i + 5] = Len(p) - 5
          /\ \A j \in 1..Len(p) : p[j] = t[i + j]
    <3>1. t \in Seq(Byte) /\ Whole(p, Id)
      BY <1>1
    <3> QED
      BY ONLY <2>1, <3>1, WindowAt, c \in Nat
  <2> QED
    BY <2>2
<1>3. m = 0 <=> x = <<>>
  BY EmptySeq
<1>4. c <= 1 + m
  BY <1>1 DEF t
<1> HIDE DEF n, m
<1>5. i # 0
  <2> SUFFICES ASSUME i = 0 PROVE FALSE
    OBVIOUS
  <2>1. m >= 7 /\ 1 \in 1..m /\ 1 + 1 = i + 2
    BY <1>1, <1>2, <1>4
  <2>2. t[1 + 1] = x[1]
    BY <1>1, <2>1
  <2>3. x[1] = 85
    BY <1>2, <2>1, <2>2
  <2> QED
    BY <1>3, <2>1, <2>3
<1>6. PICK e \in Nat : c = 1 + e /\ e <= m /\ n <= e /\ i = 1 + (e - n)
  <2>1. c - 1 \in Nat /\ c = 1 + (c - 1) /\ c - 1 <= m /\ n <= c - 1 /\ i = 1 + ((c - 1) - n)
    BY <1>1, <1>2, <1>4, <1>5
  <2> QED
    BY <2>1
<1>7. \A j \in 1..n : p[j] = x[e - n + j]
  <2> TAKE j \in 1..n
  <2>1. e - n + j \in 1..m /\ i + j = 1 + (e - n + j)
    BY <1>1, <1>2, <1>6
  <2> QED
    BY <1>1, <1>2, <2>1
<1>8. Ends(p, x, e)
  BY <1>6, <1>7 DEF Ends, n
<1> QED
  BY <1>6, <1>8 DEF m

LEMMA HeadedIsNone ==
  ASSUME NEW x \in Seq(Byte), x = <<>> \/ x[1] # 85, NoWindow(x)
  PROVE  NoWindow(Headed(x))
<1> SUFFICES ASSUME NEW p, Whole(p, Id), NEW c \in Nat, c <= Len(Headed(x)), Ends(p, Headed(x), c)
             PROVE  FALSE
  BY DEF NoWindow, Window
<1>1. PICK e \in Nat : e <= Len(x) /\ Ends(p, x, e)
  BY HeadedWindow
<1> QED
  BY <1>1 DEF NoWindow, Window

LEMMA HeadedHarmless ==
  ASSUME NEW x \in Seq(Byte), x = <<>> \/ x[1] # 85, NEW a, Harmless(x, a)
  PROVE  Harmless(Headed(x), a)
<1> SUFFICES ASSUME NEW p, Whole(p, Id), NEW c \in Nat, c <= Len(Headed(x)), Ends(p, Headed(x), c)
             PROVE  p = a
  BY DEF Harmless, Window
<1>1. PICK e \in Nat : e <= Len(x) /\ Ends(p, x, e)
  BY HeadedWindow
<1> QED
  BY <1>1 DEF Harmless, Window

LEMMA HeadedPiece ==
  ASSUME NEW a, Short(a)
  PROVE  Headed(Without(a, 1)) = a
<1> DEFINE d == Without(a, 1)
           t == Headed(d)
           n == Len(a)
<1>1. a \in Seq(Byte) /\ n \in Nat /\ n >= 8 /\ a[1] = 170
  BY ShortIs
<1>2. 1 \in 1..Len(a)
  BY <1>1
<1>3. d \in Seq(Byte) /\ Len(d) = n - 1 /\ \A j \in 1..n - 1 : d[j] = IF j < 1 THEN a[j] ELSE a[j + 1]
  BY <1>1, <1>2, WithoutIs
<1> HIDE DEF d
<1>4. t \in Seq(Byte) /\ Len(t) = 1 + Len(d) /\ t[1] = 170 /\ \A i \in 1..Len(d) : t[1 + i] = d[i]
  BY <1>3, HeadedIs
<1> HIDE DEF t, n
<1>5. Len(t) = n /\ \A i \in 1..n - 1 : t[1 + i] = a[i + 1]
  <2>1. \A j \in 1..n - 1 : ~ (j < 1)
    BY <1>1
  <2>2. \A j \in 1..n - 1 : d[j] = a[j + 1]
    BY <1>3, <2>1
  <2>3. Len(t) = n
    BY <1>1, <1>3, <1>4
  <2>4. \A i \in 1..n - 1 : t[1 + i] = d[i]
    BY <1>3, <1>4
  <2> QED
    BY <2>2, <2>3, <2>4
<1>6. \A i \in 1..n : t[i] = a[i]
  <2> TAKE i \in 1..n
  <2>1. CASE i = 1
    BY <1>1, <1>4, <2>1
  <2>2. CASE i # 1
    <3>1. i - 1 \in 1..n - 1 /\ 1 + (i - 1) = i /\ (i - 1) + 1 = i
      BY <1>1, <2>2
    <3>2. t[1 + (i - 1)] = a[(i - 1) + 1]
      BY <1>5, <3>1
    <3> QED
      BY <3>1, <3>2
  <2> QED
    BY <2>1, <2>2
<1>7. t = a
  <2>1. Len(t) = Len(a) /\ \A i \in 1..Len(t) : t[i] = a[i]
    BY <1>5, <1>6 DEF n
  <2> QED
    BY <1>1, <1>4, <2>1, SeqEqual
<1> QED
  BY <1>7 DEF t, d

LEMMA AtEndIsHarmless ==
  ASSUME NEW t, NEW a, AtEnd(t, a)
  PROVE  Harmless(t, a)
BY DEF AtEnd, Harmless, Window

(* The answer with the servo's hash, and what comes before or after it.      *)
HashAnswer(a) == Short(a) /\ PacketData(a) = HashOf[servo.version] \o FirmwareHash

LEMMA HashAnswerIs ==
  ASSUME servo \in Servos, NEW a, HashAnswer(a)
  PROVE  /\ Len(a) = 11
         /\ a[8] \in {1, 2} /\ a[9] = a[8] /\ a[10] = 9
<1> DEFINE d == HashOf[servo.version] \o FirmwareHash
<1>1. PICK v : v = HashOf[servo.version] /\ (v = <<1, 1>> \/ v = <<2, 2>>)
  <2>1. servo.version \in {"A", "B"}
    BY DEF Servos
  <2> QED
    BY <2>1 DEF HashOf
<1>2. Len(d) = 3 /\ d[1] \in {1, 2} /\ d[2] = d[1] /\ d[3] = 9
  <2>1. d = v \o <<9>>
    BY <1>1 DEF FirmwareHash
  <2>2. CASE v = <<1, 1>>
    BY <2>1, <2>2
  <2>3. CASE v = <<2, 2>>
    BY <2>1, <2>3
  <2> QED
    BY <1>1, <2>2, <2>3
<1>3. d \in Seq(Byte)
  BY HashIs
<1>4. PacketData(a) = d /\ Whole(a, Id) /\ Id \in Byte
  BY DEF HashAnswer, Short, Id, Byte
<1>5. a = StatusPacket(Id, PacketStatus(a), d) /\ PacketStatus(a) \in Word
  BY <1>4, WholeIsStatusPacket
<1> HIDE DEF d
<1>6. IsAnswer(a, Id, PacketStatus(a), d)
  <2> DEFINE s == PacketStatus(a)
  <2>1. s \in Word /\ Len(d) + 3 <= 65535
    BY <1>2, <1>5
  <2> HIDE DEF s
  <2>2. IsAnswer(StatusPacket(Id, s, d), Id, s, d)
    BY <1>3, <1>4, <2>1, StatusPacketIs
  <2> QED
    BY <1>5, <2>2 DEF s
<1>7. Len(a) = 8 + Len(d) /\ \A i \in 1..Len(d) : a[7 + i] = d[i]
  BY <1>6 DEF IsAnswer
<1>8. a[7 + 1] = d[1] /\ a[7 + 2] = d[2] /\ a[7 + 3] = d[3]
  BY <1>2, <1>7
<1> QED
  BY <1>2, <1>7, <1>8

(* Where a packet may begin in the answer and the noise after it: at its     *)
(* first byte only.                                                         *)
LEMMA AfterHash ==
  ASSUME servo \in Servos, NEW a, HashAnswer(a), NEW noise \in Noise,
         NEW z, IsJoin(z, a, noise), NEW i \in Nat,
         i + 8 <= Len(z), z[i + 1] = 170, z[i + 2] = 85, z[i + 3] = 11
  PROVE  i = 0
<1>1. /\ Len(a) = 11
      /\ a[2] = 85 /\ a[3] = 11 /\ a[4] = 6 /\ a[5] = 0
      /\ a[8] \in {1, 2} /\ a[9] = a[8] /\ a[10] = 9
  <2>1. Short(a) /\ Len(a) = 11 /\ a[8] \in {1, 2} /\ a[9] = a[8] /\ a[10] = 9
    BY HashAnswerIs DEF HashAnswer
  <2>2. a[2] = 85 /\ a[3] = 11 /\ a[4] = Len(a) - 5 /\ a[5] = 0
    BY <2>1, ShortIs
  <2> QED
    BY <2>1, <2>2
<1>2. \A j \in 1..11 : z[j] = a[j]
  BY <1>1 DEF IsJoin
<1>3. /\ z[2] = 85 /\ z[3] = 11 /\ z[4] = 6 /\ z[5] = 0
      /\ z[8] \in {1, 2} /\ z[9] \in {1, 2} /\ z[10] = 9
  BY <1>1, <1>2
<1>4. CASE noise = <<kHeader1>>
  <2>1. Len(noise) = 1
    BY <1>4, HeaderIs
  <2>2. Len(z) = 12
    BY <1>1, <2>1 DEF IsJoin
  <2>3. i \in {0, 1, 2, 3, 4}
    BY <2>2
  <2> QED
    BY <1>3, <2>3
<1>5. CASE noise = Other
  <2>1. Len(noise) = 8 /\ noise[1] = 170 /\ noise[2] = 85 /\ noise[3] = 12
    BY <1>5, OtherIs
  <2>2. Len(z) = 19 /\ \A j \in 1..8 : z[11 + j] = noise[j]
    BY <1>1, <2>1 DEF IsJoin
  <2>3. z[12] = 170 /\ z[13] = 85 /\ z[14] = 12
    <3>1. z[11 + 1] = noise[1] /\ z[11 + 2] = noise[2] /\ z[11 + 3] = noise[3]
      BY <2>2
    <3> QED
      BY <2>1, <3>1
  <2>4. i \in {0, 1, 2, 3, 4, 5, 6, 7, 8, 9, 10, 11}
    BY <2>2
  <2>5. i # 1 /\ i # 2 /\ i # 3 /\ i # 4
    <3>1. i = 1 => z[i + 1] = z[2]
      OBVIOUS
    <3>2. i = 2 => z[i + 1] = z[3]
      OBVIOUS
    <3>3. i = 3 => z[i + 1] = z[4]
      OBVIOUS
    <3>4. i = 4 => z[i + 1] = z[5]
      OBVIOUS
    <3> QED
      BY <1>3, <3>1, <3>2, <3>3, <3>4
  <2>6. i \notin {5, 6, 7}
    BY <1>3
  <2>7. i # 8 /\ i # 9 /\ i # 10 /\ i # 11
    <3>1. i = 8 => z[i + 1] = z[9]
      OBVIOUS
    <3>2. i = 9 => z[i + 1] = z[10]
      OBVIOUS
    <3>3. i = 10 => z[i + 2] = z[12]
      OBVIOUS
    <3>4. i = 11 => z[i + 3] = z[14]
      OBVIOUS
    <3>5. 1 # 170 /\ 2 # 170 /\ 9 # 170 /\ 170 # 85 /\ 12 # 11
      OBVIOUS
    <3> QED
      BY <1>3, <2>3, <3>1, <3>2, <3>3, <3>4, <3>5
  <2> QED
    BY ONLY <2>4, <2>5, <2>6, <2>7
<1> QED
  BY <1>4, <1>5 DEF Noise

LEMMA HashThenNoise ==
  ASSUME servo \in Servos, NEW a, HashAnswer(a), NEW noise \in Noise,
         NEW z, IsJoin(z, a, noise)
  PROVE  Harmless(z, a)
<1> SUFFICES ASSUME NEW p, Whole(p, Id), Window(p, z) PROVE p = a
  BY DEF Harmless
<1> DEFINE n == Len(p)
<1>1. z \in Seq(Byte)
  BY DEF IsJoin
<1>2. PICK i \in Nat :
           /\ n \in Nat /\ n >= 8 /\ i + n <= Len(z)
           /\ z[i + 1] = 170 /\ z[i + 2] = 85 /\ z[i + 3] = 11
           /\ z[i + 4] + 256 * z[i + 5] = n - 5
           /\ \A j \in 1..n : p[j] = z[i + j]
  BY <1>1, WindowStart
<1>3. p \in Seq(Byte) /\ a \in Seq(Byte) /\ Len(a) = 11 /\ a[4] = 6 /\ a[5] = 0
  <2>1. Short(a) /\ Len(a) = 11 /\ p \in Seq(Byte)
    BY HashAnswerIs DEF HashAnswer, Whole
  <2>2. a \in Seq(Byte) /\ a[4] = Len(a) - 5 /\ a[5] = 0
    BY <2>1, ShortIs
  <2> QED
    BY <2>1, <2>2
<1>4. \A j \in 1..11 : z[j] = a[j]
  BY <1>3 DEF IsJoin
<1> HIDE DEF n
<1>5. i = 0
  <2>1. Len(z) \in Nat
    BY <1>1, LenProperties
  <2>2. i + 8 <= Len(z)
    BY <1>2, <2>1
  <2> QED
    BY <1>2, <2>2, AfterHash
<1>6. n = 11
  <2>1. z[i + 4] = 6 /\ z[i + 5] = 0
    BY <1>3, <1>4, <1>5
  <2> QED
    BY <1>2, <2>1
<1>7. \A j \in 1..Len(p) : p[j] = a[j]
  <2>1. Len(p) = 11
    BY <1>6 DEF n
  <2>2. \A j \in 1..11 : p[j] = z[i + j]
    BY <1>2, <1>6
  <2>3. \A j \in 1..11 : i + j = j
    BY <1>5
  <2>4. \A j \in 1..11 : p[j] = a[j]
    BY ONLY <1>4, <2>2, <2>3
  <2> QED
    BY ONLY <2>1, <2>4
<1>8. Len(p) = Len(a)
  BY <1>3, <1>6 DEF n
<1> QED
  BY <1>3, <1>7, <1>8, SeqEqual

(* What may be left of the stream while exxx_hash runs, with f faults, one   *)
(* at most: nothing but stray bytes; nothing that could be taken for an      *)
(* answer; or nothing that could be taken for another answer than a.         *)
Stray(r, f) ==
  \/ f = 0 /\ Suffix(r, <<kHeader1>>)
  \/ f = 1 /\ \E noise \in Noise : Suffix(r, Headed(noise))
StrayLost(r, f) == Stray(r, f) \/ (f = 1 /\ NoWindow(r))
StrayComing(r, f, a) ==
  \/ f = 0 /\ Suffix(r, Headed(a))
  \/ f = 1 /\ Harmless(r, a)

LEMMA NoiseBegins ==
  ASSUME NEW noise \in Noise
  PROVE  noise \in Seq(Byte) /\ Len(noise) \in Nat /\ Len(noise) >= 1 /\ noise[1] = 170
<1>1. CASE noise = <<kHeader1>>
  BY <1>1, HeaderIs DEF kHeader1
<1>2. CASE noise = Other
  BY <1>2, OtherIs
<1> QED
  BY <1>1, <1>2 DEF Noise

LEMMA JoinBegins ==
  ASSUME NEW s \in Seq(Byte), NEW t, NEW r, IsJoin(r, s, t), Len(s) >= 1
  PROVE  r[1] = s[1]
<1>1. Len(s) \in Nat
  BY LenProperties
<1>2. 1 \in 1..Len(s)
  BY <1>1
<1> QED
  BY <1>2 DEF IsJoin

LEMMA HeadedJoin ==
  ASSUME NEW s \in Seq(Byte), NEW t \in Seq(Byte), NEW l, IsJoin(l, s, t)
  PROVE  IsJoin(Headed(l), Headed(s), t)
<1> DEFINE h == <<kHeader1>>
           us == Headed(s)
           r == Headed(l)
<1>1. h \in Seq(Byte) /\ l \in Seq(Byte)
  BY HeaderIs DEF IsJoin
<1>2. IsJoin(us, h, s)
  BY HeadedIs
<1>3. IsJoin(r, h, l)
  BY <1>1, HeadedIs
<1> HIDE DEF h, us, r
<1>4. IsJoin(r, us, t)
  BY ONLY <1>1, <1>2, <1>3, JoinAgain, s \in Seq(Byte), t \in Seq(Byte), IsJoin(l, s, t)
<1> QED
  BY <1>4 DEF r, us

(* The answer after the byte that was there.                                *)
LEMMA HeadedAnswer ==
  ASSUME NEW a, Short(a)
  PROVE  Headed(a) \in Seq(Byte) /\ AtEnd(Headed(a), a) /\ Harmless(Headed(a), a) /\ Harmless(a, a)
<1> DEFINE h == <<kHeader1>>
           t == Headed(a)
<1>1. a \in Seq(Byte) /\ h \in Seq(Byte)
  BY ShortIs, HeaderIs
<1>2. IsJoin(t, <<kHeader1>>, a) /\ t \in Seq(Byte)
  BY <1>1, HeadedIs
<1> HIDE DEF t
<1>3. AtEnd(t, a)
  BY <1>2, HeaderBefore
<1>4. Harmless(t, a)
  BY <1>3, AtEndIsHarmless
<1>5. IsJoin(t, h, a)
  BY <1>2
<1> HIDE DEF h
<1>6. Suffix(a, t)
  BY <1>1, <1>5, AfterIsSuffix
<1>7. Harmless(a, a)
  BY ONLY <1>1, <1>2, <1>4, <1>6, HarmlessSuffix
<1> QED
  BY <1>2, <1>3, <1>4, <1>7 DEF t

LEMMA HeadedNoise ==
  ASSUME NEW noise \in Noise
  PROVE  Headed(noise) \in Seq(Byte) /\ NoWindow(Headed(noise))
<1>1. noise \in Seq(Byte) /\ noise[1] # 85 /\ NoWindow(noise)
  BY NoiseBegins, NoiseIs
<1> QED
  BY <1>1, HeadedIs, HeadedIsNone

LEMMA FirstIsNone == <<kHeader1>> \in Seq(Byte) /\ NoWindow(<<kHeader1>>)
<1> DEFINE h == <<kHeader1>>
<1>1. h \in Seq(Byte) /\ Len(h) < 8
  BY HeaderIs
<1> HIDE DEF h
<1>2. NoWindow(h)
  BY <1>1, FewIsNone
<1> QED
  BY <1>1, <1>2 DEF h

LEMMA StrayIsNone ==
  ASSUME NEW r \in Seq(Byte), NEW f, Stray(r, f)
  PROVE  NoWindow(r)
<1> DEFINE h == <<kHeader1>>
<1>1. h \in Seq(Byte) /\ NoWindow(h)
  BY FirstIsNone
<1>2. CASE f = 0 /\ Suffix(r, <<kHeader1>>)
  <2>1. Suffix(r, h)
    BY <1>2
  <2> HIDE DEF h
  <2> QED
    BY <1>1, <2>1, HarmlessSuffix
<1>3. ASSUME NEW noise \in Noise, Suffix(r, Headed(noise)) PROVE NoWindow(r)
  <2> DEFINE t == Headed(noise)
  <2>1. t \in Seq(Byte) /\ NoWindow(t) /\ Suffix(r, t)
    BY <1>3, HeadedNoise
  <2> HIDE DEF t
  <2> QED
    BY <2>1, HarmlessSuffix
<1> QED
  BY <1>2, <1>3 DEF Stray

LEMMA StraySuffix ==
  ASSUME NEW r \in Seq(Byte), NEW q \in Seq(Byte), Suffix(q, r), NEW f
  PROVE  /\ Stray(r, f) => Stray(q, f)
         /\ StrayLost(r, f) => StrayLost(q, f)
         /\ \A a : Short(a) /\ StrayComing(r, f, a) => StrayComing(q, f, a)
<1>1. ASSUME NEW t \in Seq(Byte), Suffix(r, t) PROVE Suffix(q, t)
  BY <1>1, SuffixOfSuffix
<1>2. ASSUME Stray(r, f) PROVE Stray(q, f)
  <2>1. CASE f = 0 /\ Suffix(r, <<kHeader1>>)
    BY <1>1, <2>1, HeaderIs DEF Stray
  <2>2. ASSUME NEW noise \in Noise, Suffix(r, Headed(noise)) PROVE Suffix(q, Headed(noise))
    BY <1>1, <2>2, HeadedNoise
  <2> QED
    BY <1>2, <2>1, <2>2 DEF Stray
<1>3. StrayLost(r, f) => StrayLost(q, f)
  BY <1>2, HarmlessSuffix DEF StrayLost
<1>4. ASSUME NEW a, Short(a), StrayComing(r, f, a) PROVE StrayComing(q, f, a)
  <2>1. Headed(a) \in Seq(Byte)
    BY <1>4, HeadedAnswer
  <2>2. Suffix(r, Headed(a)) => Suffix(q, Headed(a))
    BY <1>1, <2>1
  <2>3. Harmless(r, a) => Harmless(q, a)
    BY HarmlessSuffix
  <2> QED
    BY <1>4, <2>2, <2>3 DEF StrayComing
<1> QED
  BY <1>2, <1>3, <1>4

LEMMA StrayComingIsHarmless ==
  ASSUME NEW r \in Seq(Byte), NEW f, NEW a, Short(a), StrayComing(r, f, a)
  PROVE  Harmless(r, a)
<1>1. Headed(a) \in Seq(Byte) /\ Harmless(Headed(a), a)
  BY HeadedAnswer
<1> DEFINE t == Headed(a)
<1> HIDE DEF t
<1>2. Suffix(r, t) => Harmless(r, a)
  BY <1>1, HarmlessSuffix DEF t
<1> QED
  BY <1>2 DEF StrayComing, t

(* What comes next: noise, the answer, what is left of it, and noise after   *)
(* the answer.                                                              *)
LEMMA StrayNoise ==
  ASSUME NEW r \in Seq(Byte), NEW f, f = 0, Stray(r, f), NEW g, g = 1, NEW noise \in Noise,
         NEW rn, IsJoin(rn, r, noise)
  PROVE  Stray(rn, g)
<1> DEFINE h == <<kHeader1>>
           t == Headed(noise)
<1>1. h \in Seq(Byte) /\ noise \in Seq(Byte) /\ Suffix(r, h)
  BY HeaderIs, NoiseBegins DEF Stray
<1>2. IsJoin(t, h, noise)
  BY <1>1, HeadedIs
<1> HIDE DEF h, t
<1>3. Suffix(rn, t)
  BY ONLY <1>1, <1>2, SuffixJoined, r \in Seq(Byte), IsJoin(rn, r, noise)
<1> QED
  BY <1>3 DEF Stray, t

LEMMA StrayAnswer ==
  ASSUME NEW r \in Seq(Byte), NEW f, Stray(r, f), NEW a, Short(a), NEW ra, IsJoin(ra, r, a)
  PROVE  StrayComing(ra, f, a)
<1> DEFINE h == <<kHeader1>>
<1>1. h \in Seq(Byte) /\ a \in Seq(Byte) /\ ra \in Seq(Byte)
  BY HeaderIs, ShortIs DEF IsJoin
<1>2. CASE f = 0 /\ Suffix(r, <<kHeader1>>)
  <2> DEFINE t == Headed(a)
  <2>1. IsJoin(t, h, a) /\ Suffix(r, h)
    BY <1>1, <1>2, HeadedIs
  <2> HIDE DEF h, t
  <2>2. Suffix(ra, t)
    BY ONLY <1>1, <2>1, SuffixJoined, r \in Seq(Byte), IsJoin(ra, r, a)
  <2> QED
    BY <1>2, <2>2 DEF StrayComing, t
<1>3. ASSUME NEW noise \in Noise, Suffix(r, Headed(noise)) PROVE Harmless(ra, a)
  <2> DEFINE v == noise \o a
             u == Headed(noise)
             w == Headed(v)
  <2>1. noise \in Seq(Byte) /\ Len(noise) >= 1 /\ noise[1] = 170
    BY <1>3, NoiseBegins
  <2>2. IsJoin(v, noise, a)
    BY <1>1, <2>1, Joined
  <2> HIDE DEF v
  <2>3. v \in Seq(Byte) /\ v[1] # 85
    BY <2>1, <2>2, JoinBegins DEF IsJoin
  <2>4. AtEnd(v, a)
    <3>1. noise = <<kHeader1>> => AtEnd(v, a)
      BY <2>2, <2>3, HeaderBefore
    <3>2. noise = Other => AtEnd(v, a)
      BY <2>2, <2>3, OtherBefore
    <3> QED
      BY <3>1, <3>2 DEF Noise
  <2>5. Harmless(v, a)
    BY <2>4, AtEndIsHarmless
  <2>6. Harmless(w, a) /\ w \in Seq(Byte)
    BY <2>3, <2>5, HeadedHarmless, HeadedIs
  <2>7. IsJoin(w, u, a)
    BY <1>1, <2>1, <2>2, HeadedJoin
  <2>8. u \in Seq(Byte) /\ Suffix(r, u)
    BY <1>3, HeadedNoise
  <2> HIDE DEF w, u
  <2>9. Suffix(ra, w)
    BY ONLY <1>1, <2>7, <2>8, SuffixJoined, r \in Seq(Byte), IsJoin(ra, r, a)
  <2> QED
    BY ONLY <1>1, <2>6, <2>9, HarmlessSuffix
<1> QED
  BY <1>2, <1>3 DEF Stray, StrayComing

LEMMA StrayPiece ==
  ASSUME NEW r \in Seq(Byte), NEW f, f = 0, Stray(r, f), NEW g, g = 1, NEW a, Short(a),
         NEW d, Piece(d, a), NEW rd, IsJoin(rd, r, d)
  PROVE  StrayLost(rd, g) \/ StrayComing(rd, g, a)
<1> DEFINE h == <<kHeader1>>
           t == Headed(d)
<1>1. h \in Seq(Byte) /\ d \in Seq(Byte) /\ rd \in Seq(Byte) /\ Suffix(r, h)
  BY HeaderIs DEF Piece, IsJoin, Stray
<1>2. IsJoin(t, h, d) /\ t \in Seq(Byte)
  BY <1>1, HeadedIs
<1>3. d[1] # 85 => NoWindow(t)
  BY <1>1, HeadedIsNone DEF Piece
<1>4. d = Without(a, 1) => Harmless(t, a)
  <2>1. d = Without(a, 1) => t = a
    BY HeadedPiece
  <2> QED
    BY <2>1, HeadedAnswer
<1> HIDE DEF h, t
<1>5. Suffix(rd, t)
  BY ONLY <1>1, <1>2, SuffixJoined, r \in Seq(Byte), IsJoin(rd, r, d)
<1>6. NoWindow(rd) \/ Harmless(rd, a)
  <2>1. NoWindow(t) \/ Harmless(t, a)
    BY <1>3, <1>4 DEF Piece
  <2> QED
    BY ONLY <1>1, <1>2, <1>5, <2>1, HarmlessSuffix
<1> QED
  BY <1>6 DEF StrayLost, StrayComing

LEMMA StrayAfter ==
  ASSUME servo \in Servos, NEW r \in Seq(Byte), NEW f, f = 0, NEW a, HashAnswer(a),
         StrayComing(r, f, a), NEW g, g = 1, NEW noise \in Noise, NEW rn, IsJoin(rn, r, noise)
  PROVE  StrayComing(rn, g, a)
<1> DEFINE z == a \o noise
           u == Headed(a)
           w == Headed(z)
<1>1. /\ a \in Seq(Byte) /\ Len(a) >= 1 /\ a[1] = 170 /\ noise \in Seq(Byte) /\ rn \in Seq(Byte)
      /\ u \in Seq(Byte) /\ Suffix(r, u)
  <2>1. Short(a)
    BY DEF HashAnswer
  <2>2. a \in Seq(Byte) /\ Len(a) \in Nat /\ Len(a) >= 8 /\ a[1] = 170
    BY <2>1, ShortIs
  <2>3. Len(a) >= 1
    BY <2>2
  <2>4. noise \in Seq(Byte) /\ u \in Seq(Byte) /\ rn \in Seq(Byte)
    BY <2>1, NoiseBegins, HeadedAnswer DEF IsJoin
  <2> QED
    BY <2>2, <2>3, <2>4 DEF StrayComing
<1>2. IsJoin(z, a, noise)
  BY <1>1, Joined
<1> HIDE DEF z
<1>3. z \in Seq(Byte) /\ z[1] # 85 /\ Harmless(z, a)
  <2>1. z \in Seq(Byte)
    BY <1>2 DEF IsJoin
  <2>2. z[1] = a[1]
    BY <1>1, <1>2, JoinBegins
  <2>3. Harmless(z, a)
    BY <1>2, HashThenNoise
  <2> QED
    BY <1>1, <2>1, <2>2, <2>3
<1>4. Harmless(w, a) /\ w \in Seq(Byte) /\ IsJoin(w, u, noise)
  <2>1. Harmless(w, a)
    BY <1>3, HeadedHarmless
  <2>2. w \in Seq(Byte)
    BY <1>3, HeadedIs
  <2>3. IsJoin(w, u, noise)
    BY <1>1, <1>2, HeadedJoin
  <2> QED
    BY <2>1, <2>2, <2>3
<1> HIDE DEF w, u
<1>5. Suffix(rn, w)
  BY ONLY <1>1, <1>4, SuffixJoined, r \in Seq(Byte), IsJoin(rn, r, noise)
<1>6. Harmless(rn, a)
  BY ONLY <1>1, <1>4, <1>5, HarmlessSuffix
<1> QED
  BY <1>6 DEF StrayComing

(* What is on its way while exxx_hash runs and the bus met one fault at most. *)
HashSaid ==
  IsError(LastResult.error) \/ LastResult.data = HashOf[servo.version] \o FirmwareHash
HashAsked == requests = <<RequestOf(call.c)>> /\ Stray(RestNow, faults)
HashLost == requests = <<>> /\ StrayLost(RestNow, faults)
HashComing == requests = <<>> /\ \E a : HashAnswer(a) /\ StrayComing(RestNow, faults, a)
NotYetSent == pc \in {"open", "sending"} \/ (pc = "ready" /\ results = <<>>)
HashLine ==
  /\ NotYetSent => requests = <<>> /\ Stray(line, faults)
  /\ pc = "receiving" => HashAsked \/ HashLost \/ HashComing
  /\ pc = "ready" /\ results # <<>> => HashSaid

Hashing == Typed /\ ToolCalls /\ job.program = "exxx_hash" /\ HashLine

LEMMA OnlyHash ==
  ASSUME Typed, ToolCalls, job.program = "exxx_hash", pc \in {"sending", "receiving"}
  PROVE  call.c \in Calls /\ call.c.name = "ReadHash"
<1>1. job.program \in Tools
  BY DEF Tools
<1>2. IsCall(call.c, Len(results))
  BY <1>1 DEF ToolCalls
<1>3. call.c = Plain("ReadHash")
  BY <1>2 DEF IsCall, DataTools, TableTools
<1> QED
  BY <1>3 DEF Plain, Call, Typed, HostTyped, CallStates

LEMMA SaidLine ==
  ASSUME pc' = "ready", results' # <<>>, HashSaid'
  PROVE  HashLine'
BY DEF HashLine, NotYetSent

LEMMA ReturnedLine ==
  ASSUME Typed, pc \in {"sending", "receiving"}, UNCHANGED servo,
         NEW outcome \in Outcomes, NEW packet \in Accepted, Return(outcome, packet),
         IsError(outcome.error) \/ outcome.data = HashOf[servo.version] \o FirmwareHash
  PROVE  HashLine'
<1>1. LastResult'.error = outcome.error /\ LastResult'.data = outcome.data
  BY ResultIsLast
<1>2. pc' = "ready" /\ results' # <<>>
  BY ReturnReturns DEF Returns
<1>3. HashSaid'
  BY <1>1 DEF HashSaid
<1> QED
  BY <1>2, <1>3, SaidLine

LEMMA OpenHashLine ==
  ASSUME Hashing, Open
  PROVE  HashLine'
<1>1. /\ pc = "open" /\ pc' \in {"ready", "exited"}
      /\ (line' = line \/ line' = <<>>)
      /\ UNCHANGED <<results, requests, faults>>
  BY DEF Open
<1>2. results = <<>> /\ line \in Seq(Byte)
  BY <1>1 DEF Hashing, Typed, HostTyped, LineTyped
<1>3. requests = <<>> /\ Stray(line, faults)
  BY <1>1 DEF Hashing, HashLine, NotYetSent
<1>4. Stray(<<>>, faults)
  <2> DEFINE e == <<>>
             n == Len(line)
  <2>1. e \in Seq(Byte) /\ Len(e) = 0 /\ n \in Nat
    BY <1>2, LenProperties
  <2> HIDE DEF e, n
  <2>2. Len(e) <= n /\ \A j \in 1..Len(e) : e[j] = line[n - Len(e) + j]
    BY <2>1
  <2>3. Suffix(e, line)
    BY <2>2 DEF Suffix, Ends, n
  <2>4. Stray(e, faults)
    BY <1>2, <1>3, <2>1, <2>3, StraySuffix
  <2> QED
    BY <2>4 DEF e
<1> QED
  BY <1>1, <1>2, <1>3, <1>4 DEF HashLine, NotYetSent

LEMMA SendSomeHashLine ==
  ASSUME Hashing, SendSome
  PROVE  HashLine'
<1> DEFINE request == RequestOf(call.c)
<1>1. pc = "sending" /\ UNCHANGED <<job, home, package, line, servo, answers, faults>>
  BY DEF SendSome
<1>2. line \in Seq(Byte) /\ call.c.name = "ReadHash"
  BY <1>1, OnlyHash DEF Hashing, Typed, LineTyped
<1>3. requests = <<>> /\ Stray(line, faults)
  BY <1>1 DEF Hashing, HashLine, NotYetSent
<1>4. PICK n \in {4, Len(request) - num_done} :
        IF num_done + n < Len(request)
           THEN UNCHANGED <<pc, call, polled, parser_, results, output, exit_code, requests>>
           ELSE /\ requests' = Append(requests, request)
                /\ IF call.c.name = "WriteEeprom"
                   THEN Return([error |-> Success, data |-> <<>>], <<>>) /\ UNCHANGED <<polled, parser_>>
                   ELSE /\ pc' = "receiving"
                        /\ polled' = FALSE
                        /\ parser_' = Reset
                        /\ UNCHANGED <<call, results, output, exit_code>>
  BY DEF SendSome
<1> HIDE DEF request
<1>5. CASE num_done + n < Len(request)
  <2>1. UNCHANGED <<pc, requests>>
    BY <1>4, <1>5
  <2> QED
    BY <1>1, <1>3, <2>1 DEF HashLine, NotYetSent
<1>6. CASE ~ (num_done + n < Len(request))
  <2>1. /\ requests' = Append(requests, request) /\ pc' = "receiving" /\ parser_' = Reset
        /\ call' = call
    BY <1>2, <1>4, <1>6
  <2>2. requests' = <<request>>
    BY <1>3, <2>1
  <2>3. RestNow' = line
    BY <1>1, <1>2, <2>1, ResetRest DEF RestNow
  <2>4. HashAsked'
    BY <1>1, <1>3, <2>1, <2>2, <2>3 DEF HashAsked, request
  <2> QED
    BY <2>1, <2>4 DEF HashLine, NotYetSent
<1> QED
  BY <1>5, <1>6

LEMMA GivesUpHashLine ==
  ASSUME Hashing, SendGivesUp \/ ReceiveGivesUp
  PROVE  HashLine'
<1>1. pc \in {"sending", "receiving"} /\ UNCHANGED servo
  BY DEF SendGivesUp, ReceiveGivesUp, lineVars
<1>2. call.c \in Calls /\ call.c.name = "ReadHash"
  BY <1>1, OnlyHash DEF Hashing
<1>3. CASE SendGivesUp
  <2>1. PICK error \in {timed_out, SystemError(EIO)} : Return([error |-> error, data |-> <<>>], <<>>)
    BY <1>3 DEF SendGivesUp
  <2> DEFINE o == [error |-> error, data |-> <<>>]
  <2>2. o \in Outcomes /\ <<>> \in Accepted /\ IsError(o.error)
    BY GaveUp, ErrorsAre DEF Outcomes
  <2>3. Return(o, <<>>)
    BY <2>1
  <2> HIDE DEF o
  <2> QED
    BY <1>1, <2>2, <2>3, ReturnedLine DEF Hashing
<1>4. CASE ReceiveGivesUp
  <2>1. PICK error \in {timed_out, SystemError(EIO)} : Return(Result(call.c, error, <<>>), <<>>)
    BY <1>4 DEF ReceiveGivesUp
  <2> DEFINE o == Result(call.c, error, <<>>)
  <2>2. error \in Errors /\ <<>> \in Accepted /\ <<>> \in Seq(Byte)
    BY GaveUp
  <2>3. o \in Outcomes
    BY <1>2, <2>2, ResultIs
  <2>4. Mute(call.c, o.error)
    BY <1>2, ErrorIsMute
  <2>5. Return(o, <<>>)
    BY <2>1
  <2> HIDE DEF o
  <2>6. IsError(o.error)
    BY <1>2, <2>4 DEF Mute, IsSystemError
  <2> QED
    BY <1>1, <2>2, <2>3, <2>5, <2>6, ReturnedLine DEF Hashing
<1> QED
  BY <1>3, <1>4

LEMMA StrayRead ==
  ASSUME NEW p, Parses(p, Id), NEW l \in Seq(Byte), NEW g, NEW m, IsRead(p, l, g, m)
  PROVE  /\ NoWindow(Rest(p, l)) => Parses(g, Id) /\ Suffix(Rest(g, m), Rest(p, l))
         /\ \A a : Harmless(Rest(p, l), a) =>
              \/ Parses(g, Id) /\ Suffix(Rest(g, m), Rest(p, l))
              \/ Done(g, Id) /\ g.packet = a
         /\ Rest(p, l) \in Seq(Byte) /\ (Parses(g, Id) => Rest(g, m) \in Seq(Byte))
<1> DEFINE r == Rest(p, l)
           q == Rest(g, m)
<1>1. /\ m \in Seq(Byte) /\ r \in Seq(Byte)
      /\ \/ Parses(g, Id) /\ Suffix(q, r) /\ q \in Seq(Byte)
         \/ Done(g, Id) /\ \E c \in Nat : c + Len(m) <= Len(r) /\ Ends(g.packet, r, c)
  BY ReadOf
<1> HIDE DEF r, q
<1>2. ASSUME Done(g, Id), NEW c \in Nat, c + Len(m) <= Len(r), Ends(g.packet, r, c)
      PROVE  Whole(g.packet, Id) /\ Window(g.packet, r) /\ ~ Parses(g, Id)
  <2>1. Len(m) \in Nat /\ Len(r) \in Nat
    BY <1>1, LenProperties
  <2>2. c <= Len(r)
    BY <1>2, <2>1
  <2>3. g.status = "kDone" /\ (Parses(g, Id) => g.status # "kDone")
    BY <1>2 DEF Done, Parses, Waits, Refused
  <2> QED
    BY <1>2, <2>2, <2>3 DEF Window, Done
<1>3. NoWindow(r) => Parses(g, Id) /\ Suffix(q, r)
  BY <1>1, <1>2 DEF NoWindow
<1>4. \A a : Harmless(r, a) => (Parses(g, Id) /\ Suffix(q, r)) \/ (Done(g, Id) /\ g.packet = a)
  <2> TAKE a
  <2> HAVE Harmless(r, a)
  <2>1. CASE Done(g, Id) /\ \E c \in Nat : c + Len(m) <= Len(r) /\ Ends(g.packet, r, c)
    <3>1. Whole(g.packet, Id) /\ Window(g.packet, r)
      BY <1>2, <2>1
    <3> QED
      BY <2>1, <3>1 DEF Harmless
  <2>2. CASE Parses(g, Id) /\ Suffix(q, r)
    BY <2>2
  <2> QED
    BY <1>1, <2>1, <2>2
<1>5. Parses(g, Id) => q \in Seq(Byte)
  BY <1>1, <1>2
<1> QED
  BY <1>1, <1>3, <1>4, <1>5 DEF r, q

LEMMA HashAnswerTrue ==
  ASSUME NEW c, c.name = "ReadHash", NEW a, HashAnswer(a)
  PROVE  Truthful(a, c, servo)
BY DEF Truthful, HashAnswer

LEMMA ReceiveHashLine ==
  ASSUME Hashing, Receive
  PROVE  HashLine'
<1>1. /\ pc = "receiving"
      /\ IsRead(parser_, line, parser_', line')
      /\ UNCHANGED <<job, home, package, num_done, requests, servo, answers, faults>>
      /\ parser_'.status = "kDone" =>
           Return(AnswerResult(call.c, parser_'.packet), parser_'.packet)
      /\ parser_'.status # "kDone" => UNCHANGED <<pc, call, results, output, exit_code>>
  BY ReceiveIs DEF Hashing
<1>2. line \in Seq(Byte) /\ Parses(parser_, Id) /\ call.c \in Calls /\ call.c.name = "ReadHash"
  BY <1>1, OnlyHash DEF Hashing, Typed, LineTyped, HostTyped
<1>3. /\ Parses(parser_', Id) => parser_'.status # "kDone"
      /\ Done(parser_', Id) => parser_'.status = "kDone" /\ Whole(parser_'.packet, Id)
  BY DEF Parses, Waits, Refused, Done
<1> DEFINE r == RestNow
           q == RestNow'
<1>4. /\ NoWindow(r) => Parses(parser_', Id) /\ Suffix(q, r)
      /\ \A a : Harmless(r, a) =>
              \/ Parses(parser_', Id) /\ Suffix(q, r)
              \/ Done(parser_', Id) /\ parser_'.packet = a
      /\ r \in Seq(Byte) /\ (Parses(parser_', Id) => q \in Seq(Byte))
  BY <1>1, <1>2, StrayRead DEF RestNow
<1>5. PICK f : f = faults
  OBVIOUS
<1>6. ASSUME Parses(parser_', Id), Suffix(q, r)
      PROVE  /\ pc' = "receiving" /\ call' = call /\ faults' = f
             /\ Stray(r, f) => Stray(q, f)
             /\ StrayLost(r, f) => StrayLost(q, f)
             /\ \A a : Short(a) /\ StrayComing(r, f, a) => StrayComing(q, f, a)
  <2>1. pc' = "receiving" /\ call' = call /\ faults' = f
    BY <1>1, <1>3, <1>5, <1>6
  <2>2. r \in Seq(Byte) /\ q \in Seq(Byte)
    BY <1>4, <1>6
  <2> HIDE DEF r, q
  <2> QED
    BY <1>6, <2>1, <2>2, StraySuffix
<1>7. CASE HashAsked
  <2>1. Stray(r, f)
    BY <1>5, <1>7 DEF HashAsked
  <2>2. NoWindow(r)
    <3> HIDE DEF r
    <3> QED
      BY <1>4, <2>1, StrayIsNone
  <2>3. pc' = "receiving" /\ call' = call /\ faults' = f /\ Stray(q, f)
    BY <1>4, <1>6, <2>1, <2>2
  <2>4. HashAsked'
    BY <1>1, <1>7, <2>3 DEF HashAsked
  <2> QED
    BY <2>3, <2>4 DEF HashLine, NotYetSent
<1>8. CASE HashLost
  <2>1. StrayLost(r, f)
    BY <1>5, <1>8 DEF HashLost
  <2>2. NoWindow(r)
    <3> HIDE DEF r
    <3> QED
      BY <1>4, <2>1, StrayIsNone DEF StrayLost
  <2>3. pc' = "receiving" /\ call' = call /\ faults' = f /\ StrayLost(q, f)
    BY <1>4, <1>6, <2>1, <2>2
  <2>4. HashLost'
    BY <1>1, <1>8, <2>3 DEF HashLost
  <2> QED
    BY <2>3, <2>4 DEF HashLine, NotYetSent
<1>9. CASE HashComing
  <2>1. PICK a : HashAnswer(a) /\ StrayComing(r, f, a)
    BY <1>5, <1>9 DEF HashComing
  <2>2. Short(a)
    BY <2>1 DEF HashAnswer
  <2>3. Harmless(r, a)
    <3> HIDE DEF r
    <3> QED
      BY <1>4, <2>1, <2>2, StrayComingIsHarmless
  <2>4. CASE Parses(parser_', Id) /\ Suffix(q, r)
    <3>1. pc' = "receiving" /\ call' = call /\ faults' = f /\ StrayComing(q, f, a)
      BY <1>6, <2>1, <2>2, <2>4
    <3>2. HashAnswer(a)'
      BY <1>1, <2>1 DEF HashAnswer
    <3>3. HashComing'
      BY <1>1, <1>9, <3>1, <3>2 DEF HashComing
    <3> QED
      BY <3>1, <3>3 DEF HashLine, NotYetSent
  <2>5. CASE Done(parser_', Id) /\ parser_'.packet = a
    <3> DEFINE o == AnswerResult(call.c, a)
    <3>1. Return(o, a) /\ Whole(a, Id)
      BY <1>1, <1>3, <2>5
    <3>2. o \in Outcomes /\ a \in Accepted
      BY <1>2, <3>1, AnswerResultIs
    <3>3. ClaimOf(call.c, o.error, o.data, servo)
      BY <1>2, <2>1, HashAnswerTrue, AnswerClaims
    <3> HIDE DEF o
    <3>4. IsError(o.error) \/ o.data = HashOf[servo.version] \o FirmwareHash
      BY <1>2, <3>3 DEF ClaimOf, IsSystemError
    <3>5. pc \in {"sending", "receiving"} /\ UNCHANGED servo /\ Typed
      BY <1>1 DEF Hashing
    <3> QED
      BY ONLY <3>1, <3>2, <3>4, <3>5, ReturnedLine
  <2> QED
    BY <1>4, <2>3, <2>4, <2>5
<1> QED
  BY <1>1, <1>7, <1>8, <1>9 DEF Hashing, HashLine

(* Without a fault, or with one more.                                       *)
LEMMA FaultsAre ==
  ASSUME Typed, faults' <= 1, faults' = faults \/ faults' = faults + 1
  PROVE  faults' = faults \/ (faults = 0 /\ faults' = 1)
<1>1. faults \in Nat
  BY DEF Typed, LineTyped
<1> QED
  BY <1>1

LEMMA ServoAnswersHashLine ==
  ASSUME Hashing, ServoAnswers, faults' <= 1
  PROVE  HashLine'
<1>1. requests # <<>> /\ requests' = Tail(requests) /\ UNCHANGED <<job, home, package, hostVars>>
  BY DEF ServoAnswers
<1>2. pc' = pc /\ call' = call /\ results' = results /\ parser_' = parser_ /\ LastResult' = LastResult
  BY <1>1 DEF hostVars, LastResult
<1>3. servo \in Servos /\ line \in Seq(Byte) /\ requests \in Seq(Requests) /\ Typed
  BY DEF Hashing, Typed, LineTyped
<1>4. servo'.version = servo.version
  BY <1>3, BusServo DEF Bus
<1>5. ~ NotYetSent
  BY <1>1 DEF Hashing, HashLine
<1>6. CASE pc = "ready" /\ results # <<>>
  <2>1. HashSaid
    BY <1>6 DEF Hashing, HashLine
  <2>2. HashSaid'
    BY <1>2, <1>4, <2>1 DEF HashSaid
  <2> QED
    BY <1>2, <1>6, <2>2 DEF HashLine, NotYetSent
<1>7. CASE pc = "receiving"
  <2>1. SUFFICES HashLost' \/ HashComing'
    BY <1>2, <1>7 DEF HashLine, NotYetSent
  <2>2. requests = <<RequestOf(call.c)>> /\ Stray(RestNow, faults)
    BY <1>1, <1>7 DEF Hashing, HashLine, HashAsked, HashLost, HashComing
  <2>3. Head(requests) = RequestOf(call.c) /\ requests' = <<>>
    BY <1>1, <2>2, OneRequest
  <2>4. call.c \in Calls /\ call.c.name = "ReadHash"
    BY <1>7, OnlyHash DEF Hashing
  <2>5. Answered(call.c)
    BY <1>3, <2>3, <2>4, ServoAnswersIs
  <2>6. RestNow \in Seq(Byte)
    BY <1>3, <1>7, RestIs
  <2>7. PICK f, g : f = faults /\ g = faults'
    OBVIOUS
  <2> DEFINE r == RestNow
             q == RestNow'
  <2>8. r \in Seq(Byte) /\ Stray(r, f)
    BY <2>2, <2>6, <2>7
  <2>9. CASE Silent
    <3>1. q = r /\ g = f
      BY <1>2, <2>7, <2>9 DEF Silent, RestNow
    <3> QED
      BY <2>3, <2>7, <2>8, <3>1 DEF HashLost, StrayLost
  <2>10. ASSUME NEW a, Short(a), Arrives(a), Truthful(a, call.c, servo')
         PROVE  HashLost' \/ HashComing'
    <3>1. a \in Seq(Byte)
      BY <2>10, ShortIs
    <3>2. HashAnswer(a)'
      BY <2>4, <2>10 DEF HashAnswer, Truthful
    <3>3. SUFFICES StrayLost(q, g) \/ StrayComing(q, g, a)
      BY <2>3, <2>7, <3>2 DEF HashLost, HashComing
    <3>4. CASE line' = line \o a /\ UNCHANGED faults
      <4>1. IsJoin(q, r, a)
        BY <1>2, <1>3, <1>7, <3>1, <3>4, MoreRest
      <4>2. g = f
        BY <2>7, <3>4
      <4> HIDE DEF q, r
      <4> QED
        BY <2>8, <2>10, <4>1, <4>2, StrayAnswer
    <3>5. CASE /\ faults' = faults + 1
               /\ \/ line' = line
                  \/ \E d : Piece(d, a) /\ line' = line \o d
      <4>1. f = 0 /\ g = 1
        BY <1>3, <2>7, <3>5, FaultsAre DEF Typed, LineTyped
      <4>2. CASE line' = line
        <5>1. q = r
          BY <1>2, <4>2 DEF RestNow
        <5> HIDE DEF q, r
        <5> QED
          BY <2>8, <4>1, <5>1, StrayIsNone DEF StrayLost
      <4>3. ASSUME NEW d, Piece(d, a), line' = line \o d
            PROVE  StrayLost(q, g) \/ StrayComing(q, g, a)
        <5>1. d \in Seq(Byte)
          BY <4>3 DEF Piece
        <5>2. IsJoin(q, r, d)
          BY <1>2, <1>3, <1>7, <4>3, <5>1, MoreRest
        <5> HIDE DEF q, r
        <5> QED
          BY <2>8, <2>10, <4>1, <4>3, <5>2, StrayPiece
      <4> QED
        BY <3>5, <4>2, <4>3
    <3> QED
      BY <2>10, <3>4, <3>5 DEF Arrives
  <2> QED
    BY <2>5, <2>9, <2>10 DEF Answered
<1>8. pc # "exited" /\ pc \in {"open", "ready", "sending", "receiving", "exited"}
  BY <1>3, BusIs DEF Bus, Typed, HostTyped
<1> QED
  BY <1>5, <1>6, <1>7, <1>8 DEF NotYetSent

LEMMA NoiseHashLine ==
  ASSUME Hashing, NEW f, f = faults, f = 0, NEW g, g = faults', g = 1,
         NEW noise \in Noise, line' = line \o noise,
         UNCHANGED <<job, home, package, hostVars, servo, answers, requests>>
  PROVE  HashLine'
<1>1. /\ pc' = pc /\ call' = call /\ results' = results /\ parser_' = parser_
      /\ LastResult' = LastResult /\ servo' = servo /\ requests' = requests
  BY DEF hostVars, LastResult
<1>2. noise \in Seq(Byte) /\ line \in Seq(Byte) /\ servo \in Servos /\ Typed
  BY NoiseIs DEF Hashing, Typed, LineTyped
<1>3. CASE NotYetSent
  <2> DEFINE l == line'
  <2>1. requests = <<>> /\ Stray(line, f)
    BY <1>3 DEF Hashing, HashLine
  <2>2. IsJoin(l, line, noise)
    BY <1>2, Joined
  <2> HIDE DEF l
  <2>3. Stray(l, g)
    BY <1>2, <2>1, <2>2, StrayNoise
  <2>4. Stray(line', faults')
    BY <2>3 DEF l
  <2> QED
    BY <1>1, <1>3, <2>1, <2>4 DEF HashLine, NotYetSent
<1>4. CASE pc = "receiving"
  <2> DEFINE r == RestNow
             q == RestNow'
  <2>1. IsJoin(q, r, noise) /\ r \in Seq(Byte)
    BY <1>1, <1>2, <1>4, MoreRest, RestIs
  <2>2. Stray(r, f) => Stray(q, g)
    <3> HIDE DEF r, q
    <3> QED
      BY <2>1, StrayNoise
  <2>3. SUFFICES HashAsked' \/ HashLost' \/ HashComing'
    BY <1>1, <1>4 DEF HashLine, NotYetSent
  <2>4. CASE HashAsked
    BY <1>1, <2>2, <2>4 DEF HashAsked
  <2>5. CASE HashLost
    <3>1. Stray(r, f)
      BY <2>5 DEF HashLost, StrayLost
    <3> QED
      BY <1>1, <2>2, <2>5, <3>1 DEF HashLost, StrayLost
  <2>6. CASE HashComing
    <3>1. PICK a : HashAnswer(a) /\ StrayComing(r, f, a)
      BY <2>6 DEF HashComing
    <3>2. StrayComing(q, g, a)
      <4> HIDE DEF r, q
      <4> QED
        BY <1>2, <2>1, <3>1, StrayAfter
    <3>3. HashAnswer(a)'
      BY <1>1, <3>1 DEF HashAnswer
    <3> QED
      BY <1>1, <2>6, <3>2, <3>3 DEF HashComing
  <2> QED
    BY <1>4, <2>4, <2>5, <2>6 DEF Hashing, HashLine
<1>5. CASE pc = "ready" /\ results # <<>>
  BY <1>1, <1>5 DEF Hashing, HashLine, NotYetSent, HashSaid
<1>6. CASE pc = "exited"
  BY <1>1, <1>6 DEF HashLine, NotYetSent
<1>7. pc \in {"open", "ready", "sending", "receiving", "exited"}
  BY <1>2 DEF Typed, HostTyped
<1> QED
  BY <1>3, <1>4, <1>5, <1>6, <1>7 DEF NotYetSent

LEMMA LineFaultHashLine ==
  ASSUME Hashing, LineFault, faults' <= 1
  PROVE  HashLine'
<1>1. /\ faults' = faults + 1
      /\ UNCHANGED <<job, home, package, hostVars, servo, answers>>
      /\ \/ requests # <<>> /\ requests' = Tail(requests) /\ UNCHANGED line
         \/ (\E noise \in Noise : line' = line \o noise) /\ UNCHANGED requests
  BY LineFaultIs DEF Hashing
<1>2. PICK f, g : f = faults /\ g = faults'
  OBVIOUS
<1>3. f = 0 /\ g = 1
  BY <1>1, <1>2, FaultsAre DEF Hashing, Typed, LineTyped
<1>4. CASE \E noise \in Noise : line' = line \o noise /\ UNCHANGED requests
  <2>1. PICK noise \in Noise : line' = line \o noise /\ UNCHANGED requests
    BY <1>4
  <2>2. UNCHANGED <<job, home, package, hostVars, servo, answers, requests>>
    BY <1>1, <2>1
  <2> QED
    BY <1>2, <1>3, <2>1, <2>2, NoiseHashLine
<1>5. CASE requests # <<>> /\ requests' = Tail(requests) /\ UNCHANGED line
  <2>1. pc' = pc /\ results' = results /\ LastResult' = LastResult /\ servo' = servo /\ RestNow' = RestNow
    BY <1>1, <1>5 DEF hostVars, LastResult, RestNow
  <2>2. ~ NotYetSent
    BY <1>5 DEF Hashing, HashLine
  <2>3. CASE pc = "receiving"
    <3>1. requests = <<RequestOf(call.c)>> /\ Stray(RestNow, f)
      BY <1>2, <1>5, <2>3 DEF Hashing, HashLine, HashAsked, HashLost, HashComing
    <3>2. requests' = <<>>
      BY <1>5, <3>1, OneRequest
    <3>3. RestNow \in Seq(Byte)
      BY <2>3, RestIs DEF Hashing
    <3>4. NoWindow(RestNow)
      BY <3>1, <3>3, StrayIsNone
    <3>5. HashLost'
      BY <1>2, <1>3, <2>1, <3>2, <3>4 DEF HashLost, StrayLost
    <3> QED
      BY <2>1, <2>3, <3>5 DEF HashLine, NotYetSent
  <2>4. CASE pc = "ready" /\ results # <<>>
    BY <2>1, <2>4 DEF Hashing, HashLine, NotYetSent, HashSaid
  <2>5. CASE pc = "exited"
    BY <2>1, <2>5 DEF HashLine, NotYetSent
  <2>6. pc \in {"open", "ready", "sending", "receiving", "exited"}
    BY DEF Hashing, Typed, HostTyped
  <2> QED
    BY <2>2, <2>3, <2>4, <2>5, <2>6 DEF NotYetSent
<1> QED
  BY <1>1, <1>4, <1>5

LEMMA BusHashLine ==
  ASSUME Hashing, Bus, faults' <= 1
  PROVE  HashLine'
BY SendSomeHashLine, GivesUpHashLine, ReceiveHashLine, ServoAnswersHashLine, LineFaultHashLine DEF Bus

LEMMA ProgramHashLine ==
  ASSUME Hashing, Program
  PROVE  HashLine'
<1>1. pc = "ready" /\ UNCHANGED lineVars /\ job.program \in Tools /\ Typed
  BY DEF Program, Hashing, Tools
<1>2. CASE Stops
  BY <1>2 DEF Stops, Exit, HashLine, NotYetSent
<1>3. CASE Goes
  <2>1. PICK c : Begin(c) /\ IsCall(c, Len(results))
    BY <1>3 DEF Goes
  <2>2. Len(results) = 0
    BY <2>1 DEF IsCall, Hashing, TableTools, DataTools
  <2>3. results = <<>>
    BY <1>1, <2>2, EmptySeq DEF Typed, HostTyped
  <2>4. requests = <<>> /\ Stray(line, faults)
    BY <1>1, <2>3 DEF Hashing, HashLine, NotYetSent
  <2>5. pc' = "sending" /\ requests' = requests /\ line' = line /\ faults' = faults
    BY <1>1, <2>1 DEF Begin, lineVars
  <2> QED
    BY <2>4, <2>5 DEF HashLine, NotYetSent
<1> QED
  BY <1>1, <1>2, <1>3, ProgramDoes

LEMMA StutterHashLine ==
  ASSUME HashLine, UNCHANGED vars
  PROVE  HashLine'
<1>1. /\ pc' = pc /\ call' = call /\ results' = results /\ parser_' = parser_ /\ servo' = servo
      /\ line' = line /\ requests' = requests /\ faults' = faults
  BY DEF vars, hostVars, lineVars
<1>2. LastResult' = LastResult /\ RestNow' = RestNow /\ \A a : HashAnswer(a)' <=> HashAnswer(a)
  BY <1>1 DEF LastResult, RestNow, HashAnswer
<1> QED
  BY <1>1, <1>2 DEF HashLine, NotYetSent, HashAsked, HashLost, HashComing, HashSaid

(* The same with a hypothesis more: the tool is exxx_hash and the bus met    *)
(* one fault at most.                                                       *)
HashLineAlways == job.program = "exxx_hash" /\ faults <= 1 => HashLine

LEMMA StrayFirst ==
  ASSUME NEW l, l \in {<<>>, <<kHeader1>>}, NEW f, f = 0
  PROVE  Stray(l, f)
<1> DEFINE h == <<kHeader1>>
           e == <<>>
<1>1. h \in Seq(Byte) /\ e \in Seq(Byte) /\ Len(e) = 0 /\ Len(h) = 1
  BY HeaderIs
<1>2. l = e \/ l = h
  OBVIOUS
<1> HIDE DEF h, e
<1>3. Suffix(e, h)
  <2>1. Len(e) <= Len(h) /\ \A j \in 1..Len(e) : FALSE
    BY <1>1
  <2> QED
    BY <2>1 DEF Suffix, Ends
<1>4. Suffix(h, h)
  <2>1. \A j \in 1..Len(h) : Len(h) - Len(h) + j = j
    BY <1>1
  <2>2. Len(h) <= Len(h)
    BY <1>1
  <2> QED
    BY <2>1, <2>2 DEF Suffix, Ends
<1>5. Suffix(l, h)
  BY <1>2, <1>3, <1>4
<1> QED
  BY <1>5 DEF Stray, h

LEMMA InitHashLine == Init => HashLineAlways
<1> SUFFICES ASSUME Init, job.program = "exxx_hash" PROVE HashLine
  BY DEF HashLineAlways
<1>1. pc = "open" /\ requests = <<>> /\ faults = 0
  BY DEF Init
<1>2. line \in {<<>>, <<kHeader1>>}
  BY DEF Init
<1>3. Stray(line, faults)
  BY <1>1, <1>2, StrayFirst
<1> QED
  BY <1>1, <1>3 DEF HashLine, NotYetSent

LEMMA NextHashLine ==
  ASSUME Typed, ToolCalls, HashLineAlways, [Next]_vars
  PROVE  HashLineAlways'
<1> SUFFICES ASSUME (job.program = "exxx_hash")', faults' <= 1 PROVE HashLine'
  BY DEF HashLineAlways
<1>1. faults \in Nat
  BY DEF Typed, LineTyped
<1>2. ASSUME job' = job, faults <= faults', faults' \in Nat PROVE Hashing
  <2>1. faults <= 1
    BY <1>1, <1>2
  <2> QED
    BY <1>2, <2>1 DEF Hashing, HashLineAlways
<1>3. CASE Open
  <2>1. job' = job /\ faults' = faults
    BY <1>3 DEF Open
  <2> QED
    BY <1>1, <1>2, <1>3, <2>1, OpenHashLine
<1>4. CASE Bus
  <2>1. job' = job
    BY <1>4, BusIs
  <2>2. faults' \in Nat /\ faults <= faults'
    BY <1>4, BusKeepsCall DEF Bus
  <2> QED
    BY <1>2, <1>4, <2>1, <2>2, BusHashLine
<1>5. CASE Program
  <2>1. job' = job /\ faults' = faults
    BY <1>5 DEF Program, lineVars
  <2> QED
    BY <1>1, <1>2, <1>5, <2>1, ProgramHashLine
<1>6. CASE UNCHANGED vars
  <2>1. job' = job /\ faults' = faults
    BY <1>6 DEF vars, lineVars
  <2> QED
    BY <1>1, <1>2, <1>6, <2>1, StutterHashLine DEF Hashing
<1> QED
  BY <1>3, <1>4, <1>5, <1>6 DEF Next, Bus, Terminated

-----------------------------------------------------------------------------
(* The tools, with all of it.                                               *)

LEMMA InitHeld == Init => ToolCalls /\ HeldAlways
<1> SUFFICES ASSUME Init PROVE ToolCalls /\ (job.program \in CallTools => Held)
  BY DEF HeldAlways
<1>1. pc = "open" /\ requests = <<>> /\ results = <<>> /\ Len(results) = 0
  BY DEF Init
<1>2. job.program \in CallTools => line = <<>>
  <2>1. job.program \in CallTools => job.program # "exxx_hash"
    BY DEF CallTools, TableTools, DataTools
  <2> QED
    BY <2>1 DEF Init
<1>3. job.program \in CallTools => Fresh
  BY <1>1, <1>2 DEF Fresh, Unanswered
<1>4. UnderWay(0) /\ HashHeld /\ WriteHeld /\ ToolCalls
  BY <1>1 DEF UnderWay, HashHeld, WriteHeld, ToolCalls
<1> QED
  BY <1>3, <1>4 DEF Held

LEMMA OpenHeld ==
  ASSUME Typed, Held, Open
  PROVE  Held'
<1>1. /\ pc = "open" /\ (line' = line \/ line' = <<>>)
      /\ UNCHANGED <<results, requests, faults>>
  BY DEF Open
<1>2. results' = <<>> /\ Len(results') = 0
  BY <1>1 DEF Typed, HostTyped
<1>3. Fresh'
  <2>1. requests = <<>> /\ Unanswered(line, faults, 0)
    BY <1>1 DEF Held, Fresh
  <2> QED
    BY <1>1, <2>1 DEF Fresh, Unanswered
<1>4. UnderWay(0)'
  <2>1. PICK k : k = 0
    OBVIOUS
  <2>2. UnderWay(k)'
    BY OpenUnderWay
  <2> QED
    BY <2>1, <2>2
<1>5. HashHeld' /\ WriteHeld'
  BY <1>2 DEF HashHeld, WriteHeld
<1> QED
  BY <1>3, <1>4, <1>5 DEF Held

LEMMA BusHeld ==
  ASSUME Typed, ToolCalls, Held, Bus, faults' <= 1, Typed', ToolCalls'
  PROVE  Held'
<1>1. faults \in Nat /\ faults' \in Nat /\ faults <= faults'
  BY BusKeepsCall DEF Bus
<1>2. PICK k : k = 0
  OBVIOUS
<1>3. Within(k) /\ faults' <= k + 1
  BY <1>1, <1>2 DEF Within
<1>4. UnderWay(k)'
  BY <1>2, <1>3, BusUnderWay DEF Held, Bus
<1>5. UnderWay(0)' /\ Within(0) /\ faults' <= 0 + 1
  BY <1>2, <1>3, <1>4
<1>6. Fresh'
  BY <1>5, BusFresh DEF Held
<1>7. HashHeld'
  BY <1>5, BusHashHeld DEF Held
<1>8. WriteHeld'
  BY <1>5, BusWriteHeld DEF Held
<1> QED
  BY <1>5, <1>6, <1>7, <1>8 DEF Held

LEMMA BeginHeld ==
  ASSUME Typed, ToolCalls, Held, Program, Goes, job.program \in CallTools
  PROVE  Held'
<1>1. pc = "ready" /\ UNCHANGED <<job, home, package, lineVars>> /\ job.program \in Tools
  BY DEF Program, CallTools, Tools
<1>2. PICK c : Begin(c) /\ (results = <<>> \/ ~ IsSystemError(LastResult.error))
  BY DEF Goes
<1>3. pc' = "sending" /\ results' = results
  BY <1>2 DEF Begin
<1>4. requests = <<>> /\ Unanswered(line, faults, 0)
  <2>1. CASE results = <<>>
    BY <1>1, <2>1 DEF Held, Fresh
  <2>2. CASE results # <<>>
    BY <1>1, <1>2, <2>2, LastIsOwn DEF Held, UnderWay
  <2> QED
    BY <2>1, <2>2
<1>5. UnderWay(0)'
  <2>1. PICK k : k = 0
    OBVIOUS
  <2>2. Unanswered(line, faults, k)
    BY <1>4, <2>1
  <2>3. UnderWay(k)'
    BY <1>1, <1>2, <1>4, <2>2, BeginUnderWay
  <2> QED
    BY <2>1, <2>3
<1>6. servo' = servo /\ job' = job
  BY <1>1 DEF lineVars
<1>7. HashHeld'
  BY <1>3, <1>6 DEF Held, HashHeld
<1>8. WriteHeld'
  <2>1. SUFFICES ASSUME job.program = "exxx_write", Len(results) \in {2, 3},
                        ~ IsSystemError(results[2].error), ~ IsError(results[2].error)
                 PROVE  ItemWritten'
    BY <1>3, <1>6 DEF WriteHeld
  <2>2. results # <<>>
    BY <2>1, LastIs
  <2>3. ItemWritten
    BY <1>2, <2>1, <2>2 DEF Held, WriteHeld
  <2>4. results'[1] = results[1] /\ servo'.memory = servo.memory
    BY <1>3, <1>6
  <2> QED
    BY <1>1, <2>3, <2>4, ItemWrittenKept
<1>9. Fresh'
  BY <1>3 DEF Fresh
<1> QED
  BY <1>5, <1>7, <1>8, <1>9 DEF Held

LEMMA StutterHeld ==
  ASSUME Held, UNCHANGED vars
  PROVE  Held'
<1>1. /\ pc' = pc /\ results' = results /\ servo' = servo /\ line' = line /\ requests' = requests
      /\ faults' = faults /\ UNCHANGED <<job, home, package>>
  BY DEF vars, hostVars, lineVars
<1>2. UnderWay(0)'
  <2>1. PICK k : k = 0
    OBVIOUS
  <2>2. UnderWay(k)'
    BY <2>1, StutterUnderWay DEF Held
  <2> QED
    BY <2>1, <2>2
<1>3. Fresh' /\ HashHeld'
  BY <1>1 DEF Held, Fresh, HashHeld
<1>4. ItemWritten => ItemWritten'
  BY <1>1, ItemWrittenKept
<1>5. LastResult' = LastResult
  BY <1>1 DEF LastResult
<1>6. WriteHeld'
  BY <1>1, <1>4, <1>5 DEF Held, WriteHeld
<1> QED
  BY <1>2, <1>3, <1>6 DEF Held

LEMMA NextHeld ==
  ASSUME Typed, ToolCalls, HeldAlways, [Next]_vars, Typed', ToolCalls'
  PROVE  HeldAlways'
<1> SUFFICES ASSUME (job.program \in CallTools)', faults' <= 1, pc' # "exited" PROVE Held'
  BY DEF HeldAlways
<1>1. faults \in Nat
  BY DEF Typed, LineTyped
<1>2. ASSUME job' = job, faults <= faults', faults' \in Nat, pc # "exited" PROVE Held
  <2>1. faults <= 1
    BY <1>1, <1>2
  <2> QED
    BY <1>2, <2>1 DEF HeldAlways
<1>3. CASE Open
  <2>1. job' = job /\ faults' = faults /\ pc = "open"
    BY <1>3 DEF Open
  <2> QED
    BY <1>1, <1>2, <1>3, <2>1, OpenHeld
<1>4. CASE Bus
  <2>1. job' = job /\ pc # "exited"
    BY <1>4, BusIs
  <2>2. faults' \in Nat /\ faults <= faults'
    BY <1>4, BusKeepsCall DEF Bus
  <2> QED
    BY <1>2, <1>4, <2>1, <2>2, BusHeld
<1>5. CASE Program
  <2>1. job' = job /\ faults' = faults /\ pc = "ready"
    BY <1>5 DEF Program, lineVars
  <2>2. job.program \in Tools /\ job.program \in CallTools
    BY <2>1 DEF CallTools, Tools
  <2>3. Goes
    <3>1. ~ Stops
      BY DEF Stops, Exit
    <3> QED
      BY <1>5, <2>2, <3>1, ProgramDoes
  <2> QED
    BY <1>1, <1>2, <1>5, <2>1, <2>2, <2>3, BeginHeld
<1>6. CASE UNCHANGED vars
  <2>1. job' = job /\ faults' = faults /\ pc' = pc
    BY <1>6 DEF vars, hostVars, lineVars
  <2> QED
    BY <1>1, <1>2, <1>6, <2>1, StutterHeld
<1> QED
  BY <1>3, <1>4, <1>5, <1>6 DEF Next, Bus, Terminated

-----------------------------------------------------------------------------
(* What a tool said when it exited, it keeps saying.                        *)

Ended ==
  /\ exit_code = "success" => pc = "exited"
  /\ faults <= 1 /\ exit_code = "success" => Told

LEMMA InitEnded == Init => Ended
<1> SUFFICES ASSUME Init PROVE exit_code # "success"
  BY DEF Ended
<1>1. exit_code = "none"
  BY DEF Init
<1> QED
  BY <1>1

LEMMA ExitEnded ==
  ASSUME Typed, ToolCalls, HeldAlways, HashLineAlways, Program, faults <= 1,
         NEW text, Exit("success", text)
  PROVE  Told'
<1>1. pc = "ready" /\ UNCHANGED <<job, home, package, lineVars>>
  BY DEF Program
<1>2. job' = job /\ servo' = servo /\ results' = results /\ output' = text /\ LastResult' = LastResult
  BY <1>1 DEF Exit, lineVars, LastResult
<1>3. CASE job.program \notin Tools
  BY <1>2, <1>3 DEF Told, Tools, TableTools, DataTools
<1>4. CASE job.program \in Tools
  <2>1. Succeeds(text)
    <3>1. Stops
      <4>1. ~ Goes
        BY DEF Goes, Begin, Exit
      <4> QED
        BY <1>4, <4>1, ProgramDoes
    <3>2. PICK other : Exit("failure", other) \/ (Exit("success", other) /\ Succeeds(other))
      BY <3>1 DEF Stops
    <3>3. Exit("success", other) /\ Succeeds(other) /\ other = text
      BY <3>2 DEF Exit
    <3> QED
      BY <3>3
  <2>2. CASE job.program \in CallTools
    <3>1. Held
      BY <1>1, <2>2 DEF HeldAlways
    <3> QED
      BY <1>1, <2>1, <2>2, <3>1, ExitTold
  <2>3. CASE job.program = "exxx_hash"
    <3>1. HashLine
      BY <2>3 DEF HashLineAlways
    <3>2. results # <<>> /\ ~ IsError(LastResult.error) /\ text = LastResult.data
      BY <2>1, <2>3 DEF Succeeds
    <3>3. text = HashOf[servo.version] \o FirmwareHash
      BY <1>1, <3>1, <3>2 DEF HashLine, HashSaid
    <3> QED
      BY <1>2, <2>3, <3>3 DEF Told
  <2> QED
    BY <1>4, <2>2, <2>3 DEF Tools, CallTools
<1> QED
  BY <1>3, <1>4

LEMMA StutterEnded ==
  ASSUME Ended, UNCHANGED vars
  PROVE  Ended'
<1>1. /\ job' = job /\ servo' = servo /\ results' = results /\ output' = output
      /\ pc' = pc /\ exit_code' = exit_code /\ faults' = faults
  BY DEF vars, hostVars, lineVars
<1>2. Told => Told'
  <2>1. LastResult' = LastResult /\ Stored(job.addr, job.size)' = Stored(job.addr, job.size)
        /\ Own(job.item)' = Own(job.item) /\ OwnBytes(job.item)' = OwnBytes(job.item)
    BY <1>1 DEF LastResult, Stored, Own, OwnBytes
  <2> QED
    BY <1>1, <2>1 DEF Told
<1> QED
  BY <1>1, <1>2 DEF Ended

LEMMA NextEnded ==
  ASSUME Typed, ToolCalls, HeldAlways, HashLineAlways, Ended, [Next]_vars
  PROVE  Ended'
<1>1. CASE Open
  <2>1. pc = "open"
        /\ (exit_code' = exit_code \/ (pc' = "exited" /\ exit_code' = "failure"))
    BY <1>1 DEF Open
  <2> QED
    BY <2>1 DEF Ended
<1>2. CASE Bus
  <2>1. exit_code' = exit_code /\ pc # "exited"
    BY <1>2, BusIs
  <2> QED
    BY <2>1 DEF Ended
<1>3. CASE Program
  <2>1. pc = "ready" /\ faults' = faults /\ exit_code # "success"
    BY <1>3 DEF Program, lineVars, Ended
  <2>2. CASE Proceeds
    BY <2>1, <2>2 DEF Proceeds, Begin, Ended
  <2>3. CASE Exits
    <3>1. PICK code \in {"success", "failure"} : \E text : Exit(code, text)
      BY <2>3 DEF Exits
    <3>2. pc' = "exited" /\ exit_code' = code
      BY <3>1 DEF Exit
    <3>3. faults <= 1 /\ code = "success" => Told'
      BY <1>3, <3>1, ExitEnded
    <3> QED
      BY <2>1, <3>2, <3>3 DEF Ended
  <2> QED
    BY <1>3, <2>2, <2>3, ProgramIs DEF Typed
<1>4. CASE UNCHANGED vars
  BY <1>4, StutterEnded
<1> QED
  BY <1>1, <1>2, <1>3, <1>4 DEF Next, Bus, Terminated

Telling == Typed /\ ToolCalls /\ HeldAlways /\ HashLineAlways /\ Ended

(* A command-line tool that exits with success told or did what it was       *)
(* asked to, whatever one fault of the bus, late answers and the byte that    *)
(* may have waited in the port of exxx_hash did to its calls.               *)
THEOREM ToolsTellTruth == Spec => []ToolTellsTruth
<1>1. Init => Telling
  BY InitTyped, InitHeld, InitHashLine, InitEnded DEF Telling
<1>2. Telling /\ [Next]_vars => Telling'
  <2> SUFFICES ASSUME Telling, [Next]_vars PROVE Telling'
    OBVIOUS
  <2>1. Typed /\ ToolCalls /\ HeldAlways /\ HashLineAlways /\ Ended
    BY DEF Telling
  <2>2. Typed'
    BY <2>1, NextTyped
  <2>3. ToolCalls'
    BY <2>1, NextToolCalls
  <2>4. HeldAlways'
    BY <2>1, <2>2, <2>3, NextHeld
  <2>5. HashLineAlways'
    BY <2>1, NextHashLine
  <2>6. Ended'
    BY <2>1, NextEnded
  <2> QED
    BY <2>2, <2>3, <2>4, <2>5, <2>6 DEF Telling
<1>3. Telling => ToolTellsTruth
  BY ToldTellsTruth DEF Telling, Ended, ToolTellsTruth
<1> QED
  BY <1>1, <1>2, <1>3, PTL DEF Spec
=============================================================================
