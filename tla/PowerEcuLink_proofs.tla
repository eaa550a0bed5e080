------------------------- MODULE PowerEcuLink_proofs -------------------------
(***************************************************************************)
(* Proofs about the serial link (PowerEcuLink): of SerialNetwork::Send, for*)
(* commands of any length and number, buffers of any capacity, and a port   *)
(* that takes each of them in any pieces; and of ReceiveAll, for reads that *)
(* cut the line anywhere and any number of damaged frames.                  *)
(***************************************************************************)
EXTENDS PowerEcuLink, DataInduction

-----------------------------------------------------------------------------
(* The sending half *)

(* The characters of command k.                                             *)
Frames(k, length) == [i \in 1..length |-> <<k, i>>]

(* The wire ends with the first m characters of command k, and nothing else *)
(* on it is of this command or of a later one.                              *)
Ends(wire, k, m) ==
  /\ m \in 0..Len(wire)
  /\ \A i \in 1..m : wire[Len(wire) - m + i] = <<k, i>>
  /\ \A i \in 1..Len(wire) - m : wire[i][1] < k

(* Between two calls of Send the last command has left the part of it that  *)
(* its outcome tells.                                                       *)
Between ==
  /\ send_buffer_ = <<>>
  /\ \/ outcomes = <<>> /\ on_wire = <<>>
     \/ /\ outcomes # <<>>
        /\ LET last == outcomes[Len(outcomes)]
           IN  \E m \in 0..last.length :
                 /\ Ends(on_wire, Len(outcomes), m)
                 /\ last.outcome = "success" <=> m = last.length

(* In a call of Send the wire ends with what was written of the command.    *)
Within ==
  /\ \E length \in Nat \ {0} : /\ send_buffer_ = Frames(Len(outcomes) + 1, length)
                               /\ send_size \in 0..length - 1
  /\ Ends(on_wire, Len(outcomes) + 1, send_size)

Outcomes == {"success", "invalid_argument", "timed_out", "write_error", "interrupted"}

SendInv ==
  /\ outcomes \in Seq([length : Nat, outcome : Outcomes])
  /\ on_wire \in Seq(Nat \X Nat)
  /\ Between \/ Within

-----------------------------------------------------------------------------
(* What a write adds to the wire *)

LEMMA FramesAreSequences ==
  ASSUME NEW k \in Nat, NEW length \in Nat
  PROVE  /\ Frames(k, length) \in Seq(Nat \X Nat)
         /\ Len(Frames(k, length)) = length
         /\ \A i \in 1..length : Frames(k, length)[i] = <<k, i>>
<1>1. Frames(k, length) \in [1..length -> Nat \X Nat]
  BY DEF Frames
<1>2. Frames(k, length) \in Seq(Nat \X Nat)
  BY <1>1, SeqDef
<1>3. DOMAIN Frames(k, length) = 1..length
  BY <1>1
<1>4. Len(Frames(k, length)) = length
  BY <1>2, <1>3, LenProperties
<1> QED
  BY <1>2, <1>4 DEF Frames

(* The characters that follow those written extend the beginning on the     *)
(* wire, however many the port takes.                                       *)
LEMMA WriteExtends ==
  ASSUME NEW wire \in Seq(Nat \X Nat), NEW k \in Nat, NEW length \in Nat,
         NEW m \in 0..length, NEW n \in 0..length - m, Ends(wire, k, m)
  PROVE  LET piece == SubSeq(SubSeq(Frames(k, length), m + 1, length), 1, n)
         IN  /\ wire \o piece \in Seq(Nat \X Nat)
             /\ Ends(wire \o piece, k, m + n)
<1> DEFINE frame == Frames(k, length)
           rest == SubSeq(frame, m + 1, length)
           piece == SubSeq(rest, 1, n)
<1>1. /\ frame \in Seq(Nat \X Nat) /\ Len(frame) = length
      /\ \A i \in 1..length : frame[i] = <<k, i>>
  BY FramesAreSequences
<1> HIDE DEF frame
<1>2. /\ rest \in Seq(Nat \X Nat)
      /\ Len(rest) = length - m
      /\ \A i \in 1..length - m : rest[i] = frame[m + i]
  <2>1. m \in Nat /\ m <= length /\ length <= Len(frame)
    BY <1>1
  <2> QED
    BY <1>1, <2>1, Slice
<1> HIDE DEF rest
<1>3. /\ piece \in Seq(Nat \X Nat)
      /\ Len(piece) = n
      /\ \A i \in 1..n : piece[i] = rest[i]
  <2>1. 0 + 1 = 1 /\ n - 0 = n /\ \A i \in 1..n : 0 + i = i
    OBVIOUS
  <2> QED
    BY <1>2, <2>1, Slice
<1> HIDE DEF piece
<1>4. \A i \in 1..n : piece[i] = <<k, m + i>>
  <2> TAKE i \in 1..n
  <2>1. i \in 1..length - m /\ m + i \in 1..length
    OBVIOUS
  <2> QED
    BY <1>1, <1>2, <1>3, <2>1
<1> DEFINE both == wire \o piece
<1>5. /\ both \in Seq(Nat \X Nat)
      /\ Len(both) = Len(wire) + Len(piece)
      /\ \A i \in 1..Len(wire) + Len(piece) :
           both[i] = IF i <= Len(wire) THEN wire[i] ELSE piece[i - Len(wire)]
  BY <1>3, ConcatProperties
<1> HIDE DEF both
<1>6. Len(wire) \in Nat
  BY LenProperties
<1>7. Ends(both, k, m + n)
  <2>1. m + n \in 0..Len(both)
    BY <1>3, <1>5, <1>6 DEF Ends
  <2>2. ASSUME NEW i \in 1..m + n PROVE both[Len(both) - (m + n) + i] = <<k, i>>
    <3>1. m \in 0..Len(wire) /\ \A j \in 1..m : wire[Len(wire) - m + j] = <<k, j>>
      BY DEF Ends
    <3>2. Len(both) - (m + n) + i = Len(wire) - m + i
      BY <1>3, <1>5, <1>6
    <3>3. CASE i <= m
      <4>1. /\ Len(wire) - m + i \in 1..Len(wire) + Len(piece)
            /\ Len(wire) - m + i <= Len(wire)
            /\ i \in 1..m
        BY <1>3, <1>6, <3>1, <3>3
      <4>2. both[Len(wire) - m + i] = wire[Len(wire) - m + i]
        BY <1>5, <4>1
      <4> QED
        BY <3>1, <3>2, <4>1, <4>2
    <3>4. CASE i > m
      <4>1. /\ i - m \in 1..n /\ m + (i - m) = i
            /\ Len(wire) - m + i \in 1..Len(wire) + Len(piece)
            /\ ~ (Len(wire) - m + i <= Len(wire))
            /\ (Len(wire) - m + i) - Len(wire) = i - m
        BY <1>3, <1>6, <3>1, <3>4
      <4>2. both[Len(wire) - m + i] = piece[i - m]
        BY <1>5, <4>1
      <4> QED
        BY <1>4, <3>2, <4>1, <4>2
    <3> QED
      BY <3>3, <3>4
  <2>3. ASSUME NEW i \in 1..Len(both) - (m + n) PROVE both[i][1] < k
    <3>1. m \in 0..Len(wire) /\ \A j \in 1..Len(wire) - m : wire[j][1] < k
      BY DEF Ends
    <3>2. /\ i \in 1..Len(wire) - m
          /\ i \in 1..Len(wire) + Len(piece)
          /\ i <= Len(wire)
      <4>1. Len(both) - (m + n) = Len(wire) - m
        BY <1>3, <1>5, <1>6
      <4>2. i \in 1..Len(wire) - m
        BY <4>1
      <4> QED
        BY <1>3, <1>6, <3>1, <4>2
    <3>3. both[i] = wire[i]
      BY <1>5, <3>2
    <3> QED
      BY <3>1, <3>2, <3>3
  <2> QED
    BY <2>1, <2>2, <2>3 DEF Ends
<1> QED
  BY <1>5, <1>7 DEF both, piece, rest, frame
-----------------------------------------------------------------------------
(* Each step keeps SendInv. *)

LEMMA SendInvInit == Init => SendInv
<1>1. \A S : <<>> \in Seq(S)
  OBVIOUS
<1> QED
  BY <1>1 DEF Init, SendInv, Between

LEMMA Returned ==
  ASSUME SendInv, NEW length \in Nat, NEW outcome \in Outcomes, Return(length, outcome),
         on_wire' \in Seq(Nat \X Nat),
         NEW m \in 0..length, Ends(on_wire', Len(outcomes) + 1, m),
         outcome = "success" <=> m = length
  PROVE  SendInv'
<1> DEFINE n == Len(outcomes)
           last == [length |-> length, outcome |-> outcome]
<1>1. outcomes \in Seq([length : Nat, outcome : Outcomes]) /\ last \in [length : Nat, outcome : Outcomes]
  BY DEF SendInv
<1>2. /\ outcomes' \in Seq([length : Nat, outcome : Outcomes])
      /\ Len(outcomes') = n + 1
      /\ outcomes'[n + 1] = last
  BY <1>1, AppendProperties DEF Return
<1>3. outcomes' # <<>>
  BY <1>1, <1>2, LenProperties
<1>4. send_buffer_' = <<>>
  BY DEF Return
<1>5. last.length = length /\ last.outcome = outcome
  OBVIOUS
<1> HIDE DEF last
<1>6. Between'
  BY <1>2, <1>3, <1>4, <1>5 DEF Between
<1> QED
  BY <1>2, <1>6 DEF SendInv

(* The next command has left nothing on the wire yet. *)
LEMMA NothingOfNext ==
  ASSUME SendInv, ~ Sending
  PROVE  Ends(on_wire, Len(outcomes) + 1, 0)
<1>1. Between
  BY FramesAreSequences DEF SendInv, Within, Sending
<1>2. /\ on_wire \in Seq(Nat \X Nat) /\ Len(on_wire) \in Nat
      /\ Len(outcomes) \in Nat
      /\ \A i \in 1..Len(on_wire) : on_wire[i] \in Nat \X Nat
  BY LenProperties, ElementOfSeq DEF SendInv
<1>3. CASE outcomes = <<>> /\ on_wire = <<>>
  BY <1>2, <1>3 DEF Ends
<1>4. CASE outcomes # <<>>
  <2>1. PICK m \in Nat : Ends(on_wire, Len(outcomes), m)
    <3>1. PICK m : Ends(on_wire, Len(outcomes), m)
      BY <1>1, <1>4 DEF Between
    <3>2. m \in Nat
      BY <1>2, <3>1 DEF Ends
    <3> QED
      BY <3>1, <3>2
  <2>2. ASSUME NEW i \in 1..Len(on_wire) PROVE on_wire[i][1] < Len(outcomes) + 1
    <3>1. CASE i <= Len(on_wire) - m
      <4>1. m \in 0..Len(on_wire) /\ \A j \in 1..Len(on_wire) - m : on_wire[j][1] < Len(outcomes)
        BY <2>1 DEF Ends
      <4>2. i \in 1..Len(on_wire) - m /\ on_wire[i] \in Nat \X Nat
        BY <1>2, <3>1, <4>1
      <4>3. on_wire[i][1] < Len(outcomes) /\ on_wire[i][1] \in Nat
        BY <4>1, <4>2
      <4> QED
        BY <1>2, <4>3
    <3>2. CASE i > Len(on_wire) - m
      <4>1. /\ i - (Len(on_wire) - m) \in 1..m
            /\ Len(on_wire) - m + (i - (Len(on_wire) - m)) = i
        BY <1>2, <2>1, <3>2 DEF Ends
      <4>2. on_wire[i] = <<Len(outcomes), i - (Len(on_wire) - m)>>
        BY <2>1, <4>1 DEF Ends
      <4> QED
        BY <1>2, <4>2
    <3> QED
      BY <1>2, <2>1, <3>1, <3>2
  <2> QED
    BY <1>2, <2>2 DEF Ends
<1> QED
  BY <1>1, <1>3, <1>4 DEF Between

LEMMA SendKeeps == SendInv /\ Send => SendInv'
<1> SUFFICES ASSUME SendInv, Send PROVE SendInv'
  OBVIOUS
<1>1. PICK length \in Commands :
        IF length > kBufferSize THEN Return(length, "invalid_argument")
        ELSE IF timeout_ns_ = "none" THEN Return(length, "timed_out")
        ELSE /\ send_buffer_' = [i \in 1..length |-> <<Len(outcomes) + 1, i>>]
             /\ send_size' = 0
             /\ UNCHANGED outcomes
  BY DEF Send
<1>2. length \in Nat /\ length # 0
  BY CommandsAssumption
<1>3. /\ on_wire' = on_wire /\ on_wire \in Seq(Nat \X Nat)
      /\ Ends(on_wire', Len(outcomes) + 1, 0)
  BY NothingOfNext DEF Send, SendInv
<1>4. CASE Return(length, "invalid_argument") \/ Return(length, "timed_out")
  <2>1. 0 \in 0..length
    BY <1>2
  <2> QED
    BY <1>2, <1>3, <1>4, <2>1, Returned DEF Outcomes
<1>5. CASE /\ send_buffer_' = [i \in 1..length |-> <<Len(outcomes) + 1, i>>]
           /\ send_size' = 0
           /\ UNCHANGED outcomes
  <2>1. send_size' \in 0..length - 1
    BY <1>2, <1>5
  <2>2. Within'
    BY <1>2, <1>3, <1>5, <2>1 DEF Within, Frames
  <2> QED
    BY <1>3, <1>5, <2>2 DEF SendInv
<1> QED
  BY <1>1, <1>4, <1>5

LEMMA WriteKeeps == SendInv /\ Write => SendInv'
<1> SUFFICES ASSUME SendInv, Write PROVE SendInv'
  OBVIOUS
<1>1. Within /\ Len(outcomes) \in Nat /\ on_wire \in Seq(Nat \X Nat)
  BY LenProperties DEF Write, Sending, SendInv, Between
<1>2. PICK length \in Nat \ {0} : /\ send_buffer_ = Frames(Len(outcomes) + 1, length)
                                  /\ send_size \in 0..length - 1
  BY <1>1 DEF Within
<1>3. Len(send_buffer_) = length
  BY <1>1, <1>2, FramesAreSequences
<1>4. PICK n \in 0..length - send_size :
        /\ on_wire' = on_wire \o SubSeq(Remaining, 1, n)
        /\ IF send_size + n = length THEN Return(send_size + n, "success")
           ELSE send_size' = send_size + n /\ UNCHANGED <<send_buffer_, outcomes>>
  BY <1>3 DEF Write
<1>5. /\ on_wire' \in Seq(Nat \X Nat)
      /\ Ends(on_wire', Len(outcomes) + 1, send_size + n)
  <2>1. Len(outcomes) + 1 \in Nat /\ length \in Nat /\ send_size \in 0..length
    BY <1>1, <1>2
  <2>2. Ends(on_wire, Len(outcomes) + 1, send_size)
    BY <1>1 DEF Within
  <2> QED
    BY <1>1, <1>2, <1>3, <1>4, <2>1, <2>2, WriteExtends DEF Remaining
<1>6. CASE send_size + n = length
  <2>1. length \in 0..length /\ length \in Nat
    BY <1>2
  <2> QED
    BY <1>4, <1>5, <1>6, <2>1, Returned DEF Outcomes
<1>7. CASE send_size + n # length
  <2>1. send_size' = send_size + n /\ UNCHANGED <<send_buffer_, outcomes>>
    BY <1>4, <1>7
  <2>2. send_size' \in 0..length - 1
    BY <1>2, <1>7, <2>1
  <2>3. Within'
    BY <1>2, <1>5, <2>1, <2>2 DEF Within
  <2> QED
    BY <1>5, <2>1, <2>3 DEF SendInv
<1> QED
  BY <1>6, <1>7

LEMMA SendGivesUpKeeps == SendInv /\ SendGivesUp => SendInv'
<1> SUFFICES ASSUME SendInv, SendGivesUp PROVE SendInv'
  OBVIOUS
<1>1. Within /\ Len(outcomes) \in Nat /\ on_wire \in Seq(Nat \X Nat)
  BY LenProperties DEF SendGivesUp, Sending, SendInv, Between
<1>2. PICK length \in Nat \ {0} : /\ send_buffer_ = Frames(Len(outcomes) + 1, length)
                                  /\ send_size \in 0..length - 1
  BY <1>1 DEF Within
<1>3. Len(send_buffer_) = length
  BY <1>1, <1>2, FramesAreSequences
<1>4. PICK outcome \in {"timed_out", "write_error", "interrupted"} : Return(length, outcome)
  BY <1>3 DEF SendGivesUp
<1>5. on_wire' = on_wire /\ Ends(on_wire', Len(outcomes) + 1, send_size)
  BY <1>1 DEF Within, SendGivesUp
<1>6. send_size \in 0..length /\ send_size # length /\ length \in Nat
  BY <1>2
<1>7. outcome \in Outcomes /\ outcome # "success"
  BY DEF Outcomes
<1> QED
  BY <1>1, <1>4, <1>5, <1>6, <1>7, Returned

(* The receiving half and the port leave what was sent alone.               *)
LEMMA OthersKeep == SendInv /\ UNCHANGED sendVars => SendInv'
  BY DEF SendInv, sendVars, Between, Within

LEMMA SendInvNext == SendInv /\ [Next]_vars => SendInv'
<1> SUFFICES ASSUME SendInv, [Next]_vars PROVE SendInv'
  OBVIOUS
<1>1. CASE Send
  BY <1>1, SendKeeps
<1>2. CASE Write
  BY <1>2, WriteKeeps
<1>3. CASE SendGivesUp
  BY <1>3, SendGivesUpKeeps
<1>4. CASE Configure \/ Open \/ Close \/ Terminated
  BY <1>4, OthersKeep DEF Configure, Open, Close, Terminated, vars
<1>5. CASE EcuSends \/ ReceiveAll \/ ReceiveFails
  BY <1>5, OthersKeep DEF EcuSends, ReceiveAll, ReceiveFails
<1>6. CASE UNCHANGED vars
  BY <1>6, OthersKeep DEF vars
<1> QED
  BY <1>1, <1>2, <1>3, <1>4, <1>5, <1>6 DEF Next

LEMMA SendInvImplies == SendInv => SentIsWhole
<1> SUFFICES ASSUME SendInv, ~ Sending, Len(outcomes) > 0
             PROVE  \E m \in 0..Len(on_wire) :
                      /\ \A i \in 1..m : on_wire[Len(on_wire) - m + i] = <<Len(outcomes), i>>
                      /\ \A i \in 1..Len(on_wire) - m : on_wire[i][1] # Len(outcomes)
                      /\ m <= outcomes[Len(outcomes)].length
                      /\ outcomes[Len(outcomes)].outcome = "success"
                         <=> m = outcomes[Len(outcomes)].length
  BY DEF SentIsWhole
<1>1. Between
  BY FramesAreSequences DEF SendInv, Within, Sending
<1>2. outcomes # <<>> /\ outcomes[Len(outcomes)] \in [length : Nat, outcome : Outcomes]
  <2>1. outcomes \in Seq([length : Nat, outcome : Outcomes])
    BY DEF SendInv
  <2>2. Len(outcomes) \in 1..Len(outcomes)
    BY <2>1, LenProperties
  <2>3. outcomes # <<>>
    OBVIOUS
  <2> QED
    BY <2>1, <2>2, <2>3, ElementOfSeq
<1>3. PICK m \in 0..outcomes[Len(outcomes)].length :
        /\ Ends(on_wire, Len(outcomes), m)
        /\ outcomes[Len(outcomes)].outcome = "success"
           <=> m = outcomes[Len(outcomes)].length
  BY <1>1, <1>2 DEF Between
<1>4. on_wire \in Seq(Nat \X Nat) /\ Len(on_wire) \in Nat /\ Len(outcomes) \in Nat
  BY LenProperties DEF SendInv
<1>5. \A i \in 1..Len(on_wire) : on_wire[i][1] \in Nat
  BY <1>4, ElementOfSeq
<1>6. ASSUME NEW i \in 1..Len(on_wire) - m PROVE on_wire[i][1] # Len(outcomes)
  <2>1. m \in 0..Len(on_wire) /\ on_wire[i][1] < Len(outcomes)
    BY <1>3 DEF Ends
  <2>2. i \in 1..Len(on_wire)
    BY <1>4, <2>1
  <2>3. on_wire[i][1] \in Nat
    BY <1>5, <2>2
  <2> QED
    BY <1>4, <2>1, <2>3
<1>7. m \in 0..Len(on_wire) /\ m <= outcomes[Len(outcomes)].length
  BY <1>2, <1>3 DEF Ends
<1>8. \A i \in 1..m : on_wire[Len(on_wire) - m + i] = <<Len(outcomes), i>>
  BY <1>3 DEF Ends
<1> QED
  BY <1>3, <1>6, <1>7, <1>8

(* SerialNetwork::Send reports success exactly when the whole command is at *)
(* the end of what the port took, and after a failure at most a beginning   *)
(* of it is there, whatever its length and in whatever pieces write takes   *)
(* it; no character of it lies before.                                      *)
THEOREM SentWhole == Spec => []SentIsWhole
<1>1. Init => SendInv
  BY SendInvInit
<1>2. SendInv /\ [Next]_vars => SendInv'
  BY SendInvNext
<1>3. SendInv => SentIsWhole
  BY SendInvImplies
<1> QED
  BY <1>1, <1>2, <1>3, PTL DEF Spec

-----------------------------------------------------------------------------
(* The frames of the ECU *)

(* The sequences of n elements of S.                                        *)
OfLength(S, n) == {s \in Seq(S) : Len(s) = n}

(* Short tuples, and functions on 1..n, are such sequences.                 *)
LEMMA Tuples ==
  ASSUME NEW S, NEW x \in S, NEW y \in S, NEW z \in S, NEW u \in S
  PROVE  /\ <<x>> \in OfLength(S, 1) /\ <<x, y>> \in OfLength(S, 2)
         /\ <<x, y, z>> \in OfLength(S, 3) /\ <<x, y, z, u>> \in OfLength(S, 4)
  BY DEF OfLength

LEMMA Listed ==
  ASSUME NEW S, NEW n \in Nat, NEW f \in [1..n -> S]
  PROVE  f \in OfLength(S, n)
<1>1. f \in Seq(S)
  BY SeqDef
<1>2. DOMAIN f = 1..n
  OBVIOUS
<1> QED
  BY <1>1, <1>2, LenProperties DEF OfLength

(* r is s, which has m elements, followed by t, which has n. *)
Joins(S, r, s, m, t, n) ==
  /\ r \in OfLength(S, m + n)
  /\ \A i \in 1..m : r[i] = s[i]
  /\ \A i \in 1..n : r[m + i] = t[i]

(* A concatenation, element by element.                                     *)
LEMMA Joined ==
  \A S : \A m, n \in Nat : \A s \in OfLength(S, m), t \in OfLength(S, n) :
    Joins(S, s \o t, s, m, t, n)
<1> SUFFICES ASSUME NEW S, NEW m \in Nat, NEW n \in Nat,
                    NEW s \in OfLength(S, m), NEW t \in OfLength(S, n)
             PROVE  Joins(S, s \o t, s, m, t, n)
  OBVIOUS
<1> DEFINE r == s \o t
<1>1. s \in Seq(S) /\ Len(s) = m /\ t \in Seq(S) /\ Len(t) = n
  BY DEF OfLength
<1>2. /\ r \in Seq(S) /\ Len(r) = m + n
      /\ \A i \in 1..m + n : r[i] = IF i <= m THEN s[i] ELSE t[i - m]
  BY <1>1, ConcatProperties
<1> HIDE DEF r
<1>3. ASSUME NEW i \in 1..m PROVE r[i] = s[i]
  <2>1. i \in 1..m + n /\ i <= m
    OBVIOUS
  <2> QED
    BY <1>2, <2>1
<1>4. ASSUME NEW i \in 1..n PROVE r[m + i] = t[i]
  <2>1. m + i \in 1..m + n /\ ~ (m + i <= m) /\ (m + i) - m = i
    OBVIOUS
  <2> QED
    BY <1>2, <2>1
<1>5. Joins(S, r, s, m, t, n)
  BY <1>2, <1>3, <1>4 DEF OfLength, Joins
<1> QED
  BY <1>5 DEF r

(* A sequence of four, put together. *)
LEMMA Pasted ==
  ASSUME NEW S, NEW x \in S, NEW y \in S, NEW z \in S, NEW u \in S
  PROVE  /\ ((<<x>> \o <<y>>) \o <<z>>) \o <<u>> = <<x, y, z, u>>
         /\ <<x>> \o <<y, z, u>> = <<x, y, z, u>>
<1> DEFINE r == <<x>>
           a == r \o <<y>>
           b == a \o <<z>>
           c == b \o <<u>>
           t == <<y, z, u>>
           d == r \o t
<1>0. 1 \in Nat /\ 2 \in Nat /\ 3 \in Nat /\ 1 + 1 = 2 /\ 2 + 1 = 3 /\ 3 + 1 = 4 /\ 1 + 3 = 4
  OBVIOUS
<1>1. /\ r \in OfLength(S, 1) /\ r[1] = x
      /\ t \in OfLength(S, 3) /\ t[1] = y /\ t[2] = z /\ t[3] = u
  BY DEF OfLength
<1>a. /\ <<y>> \in OfLength(S, 1) /\ <<y>>[1] = y
      /\ <<z>> \in OfLength(S, 1) /\ <<z>>[1] = z
      /\ <<u>> \in OfLength(S, 1) /\ <<u>>[1] = u
  BY DEF OfLength
<1> HIDE DEF r, t
<1>2. Joins(S, a, r, 1, <<y>>, 1)
  BY <1>0, <1>1, <1>a, Joined
<1> HIDE DEF a
<1>3. a \in OfLength(S, 2) /\ a[1] = x /\ a[2] = y
  <2>1. a \in OfLength(S, 1 + 1) /\ a[1] = r[1] /\ a[1 + 1] = <<y>>[1]
    BY <1>2 DEF Joins
  <2> QED
    BY <1>0, <1>1, <1>a, <2>1
<1>4. Joins(S, b, a, 2, <<z>>, 1)
  BY <1>0, <1>3, <1>a, Joined
<1> HIDE DEF b
<1>5. b \in OfLength(S, 3) /\ b[1] = x /\ b[2] = y /\ b[3] = z
  <2>1. b \in OfLength(S, 2 + 1) /\ b[1] = a[1] /\ b[2] = a[2] /\ b[2 + 1] = <<z>>[1]
    BY <1>4 DEF Joins
  <2> QED
    BY <1>0, <1>3, <1>a, <2>1
<1>6. Joins(S, c, b, 3, <<u>>, 1)
  BY <1>0, <1>5, <1>a, Joined
<1> HIDE DEF c
<1>7. c \in OfLength(S, 4) /\ c[1] = x /\ c[2] = y /\ c[3] = z /\ c[4] = u
  <2>1. c \in OfLength(S, 3 + 1) /\ c[1] = b[1] /\ c[2] = b[2] /\ c[3] = b[3] /\ c[3 + 1] = <<u>>[1]
    BY <1>6 DEF Joins
  <2> QED
    BY <1>0, <1>5, <1>a, <2>1
<1>8. Joins(S, d, r, 1, t, 3)
  BY <1>0, <1>1, Joined
<1> HIDE DEF d
<1>9. d \in OfLength(S, 4) /\ d[1] = x /\ d[2] = y /\ d[3] = z /\ d[4] = u
  <2>1. d \in OfLength(S, 1 + 3) /\ d[1] = r[1] /\ d[1 + 1] = t[1] /\ d[1 + 2] = t[2] /\ d[1 + 3] = t[3]
    BY <1>8 DEF Joins
  <2> QED
    BY <1>0, <1>1, <2>1
<1>10. c = <<x, y, z, u>>
  BY <1>7 DEF OfLength
<1>11. d = <<x, y, z, u>>
  BY <1>9 DEF OfLength
<1> QED
  BY <1>10, <1>11 DEF d, c, b, a, r, t

-----------------------------------------------------------------------------
(* The characters the ECU's frames consist of: those it spells out, and     *)
(* those of the checksums, which hold the characters they were made from.   *)
HexLetters == {"0", "1", "2", "3", "4", "5", "6", "7", "8", "9", "A", "B", "C", "D", "E", "F"}
Letters == HexLetters \cup {"h", "x", ",", "\n"}
PacketNames == {"ecu1_", "info1"}
Plain == {Char(c) : c \in Letters} \cup {<<name, i>> : name \in PacketNames, i \in 1..NameLength}

(* The body whose second element is no number, and the spans of frame k:    *)
(* what its checksum can be made from.                                      *)
OddBody(k) == Digits(k, 10, 1) \o <<Comma, Char("x"), Comma>>
Spans(k) ==
  {Header("E", name, 15) \o body : name \in PacketNames, body \in {Body(k), OddBody(k)}}
Checks == {<<"crc", i, span>> : i \in 1..ChecksumLength, span \in UNION {Spans(k) : k \in 1..9}}
Chars == Plain \cup Checks

(* The first character of the checksum of frame k. *)
Marks(c, k) == \E span \in Spans(k) : c = <<"crc", 1, span>>

LEMMA PlainChars ==
  /\ \A c \in Letters : Char(c) \in Plain
  /\ Comma \in Plain
  /\ {Char("h"), Char("x"), Char("E"), Char("3"), Char("\n")} \subseteq Plain
<1>1. ASSUME NEW c \in Letters PROVE Char(c) \in Plain
  BY DEF Plain
<1>2. {"h", "x", ",", "\n", "E", "3"} \subseteq Letters
  BY DEF Letters, HexLetters
<1> QED
  BY <1>1, <1>2 DEF Comma

(* The digits are told apart, and none is a comma.                          *)
LEMMA DigitIs ==
  ASSUME NEW k \in 0..15
  PROVE  /\ Digit(k) \in Plain /\ DigitValue(Digit(k)) = k
         /\ Digit(k) # Comma
<1>1. ASSUME NEW i \in 1..16, NEW j \in 1..16, Hexadecimal[i] = Hexadecimal[j]
      PROVE  i = j
  BY <1>1 DEF Hexadecimal
<1>2. ASSUME NEW i \in 1..16 PROVE Hexadecimal[i] \in Letters /\ Hexadecimal[i] # ","
  <2>1. \A h \in 1..16 : Hexadecimal[h] \in HexLetters
    BY DEF Hexadecimal, HexLetters
  <2>2. \A c \in HexLetters : c # ","
    BY DEF HexLetters
  <2> QED
    BY <2>1, <2>2 DEF Letters
<1>3. k + 1 \in 1..16
  OBVIOUS
<1>4. \A x, y : <<x>> = <<y>> <=> x = y
  OBVIOUS
<1>5. \A d \in 0..15 : Digit(k) = Digit(d) <=> d = k
  <2> TAKE d \in 0..15
  <2>1. d + 1 \in 1..16 /\ (d + 1 = k + 1 <=> d = k)
    OBVIOUS
  <2> QED
    BY <1>1, <1>3, <1>4, <2>1 DEF Digit, Char
<1>6. DigitValue(Digit(k)) = k
  BY <1>5 DEF DigitValue
<1>7. Digit(k) = Char(Hexadecimal[k + 1]) /\ Digit(k) # Comma
  BY <1>2, <1>3, <1>4 DEF Digit, Char, Comma
<1>8. Digit(k) \in Plain
  BY <1>2, <1>3, <1>7, PlainChars
<1> QED
  BY <1>6, <1>7, <1>8

(* What is left of a number once some of its digits are taken.              *)
LEMMA RestIs ==
  ASSUME NEW v \in Nat, NEW n \in Nat
  PROVE  Rest(v, 10, n) \in Nat /\ (n = 0 => Rest(v, 10, n) = v)
<1> DEFINE F == [p \in Nat \X (1..n) |-> p[1] \div 10]
           rest == CHOOSE g : g = [i \in 0..n |-> IF i = 0 THEN v ELSE g[i - 1] \div 10]
<1>1. PICK g \in [0..n -> Nat] : IsRecursion(g, n, v, F)
  <2>1. F \in [Nat \X (1..n) -> Nat]
    <3>1. \A p \in Nat \X (1..n) : p[1] \div 10 \in Nat
      OBVIOUS
    <3> QED
      BY <3>1
  <2> HIDE DEF F
  <2> QED
    BY <2>1, RecursionExists
<1>2. ASSUME NEW i \in 0..n, i # 0 PROVE F[<<g[i - 1], i>>] = g[i - 1] \div 10
  <2>1. i - 1 \in 0..n /\ i \in 1..n
    BY <1>2
  <2>2. g[i - 1] \in Nat
    BY <2>1
  <2>3. <<g[i - 1], i>> \in Nat \X (1..n)
    BY <2>1, <2>2
  <2> QED
    BY <2>3
<1> HIDE DEF F
<1>3. g = [i \in 0..n |-> IF i = 0 THEN v ELSE g[i - 1] \div 10]
  BY <1>1, <1>2 DEF IsRecursion
<1>4. rest = [i \in 0..n |-> IF i = 0 THEN v ELSE rest[i - 1] \div 10]
  BY <1>3
<1>5. Rest(v, 10, n) = rest[n]
  BY DEF Rest
<1> HIDE DEF rest
<1> DEFINE I == {i \in Nat : i <= n => rest[i] \in Nat}
<1>6. 0 \in I /\ rest[0] = v
  <2>1. 0 \in 0..n
    OBVIOUS
  <2> QED
    BY <1>4, <2>1
<1>7. ASSUME NEW i \in Nat, i \in I PROVE i + 1 \in I
  <2>1. SUFFICES ASSUME i + 1 <= n PROVE rest[i + 1] \in Nat
    OBVIOUS
  <2>2. i + 1 \in 0..n /\ i + 1 # 0 /\ (i + 1) - 1 = i /\ i <= n
    BY <2>1
  <2>3. rest[i + 1] = rest[i] \div 10 /\ rest[i] \in Nat
    BY <1>4, <1>7, <2>2
  <2> QED
    BY <2>3
<1>8. Nat \subseteq I
  <2> HIDE DEF I
  <2> QED
    BY <1>6, <1>7, Induction
<1>9. rest[n] \in Nat
  BY <1>8
<1> QED
  BY <1>5, <1>6, <1>9

(* The digits of a number, of one digit its own. *)
LEMMA DigitsAre ==
  ASSUME NEW v \in Nat, NEW n \in Nat
  PROVE  Digits(v, 10, n) \in OfLength(Plain, n)
<1>1. ASSUME NEW i \in 1..n PROVE Digit(Rest(v, 10, n - i) % 10) \in Plain
  <2>1. n - i \in Nat
    OBVIOUS
  <2>2. Rest(v, 10, n - i) \in Nat
    BY <2>1, RestIs
  <2>3. Rest(v, 10, n - i) % 10 \in 0..15
    BY <2>2
  <2> QED
    BY <2>3, DigitIs
<1>2. Digits(v, 10, n) \in [1..n -> Plain]
  BY <1>1 DEF Digits
<1> QED
  BY <1>2, Listed

LEMMA OneDigit ==
  ASSUME NEW k \in 1..9
  PROVE  Digits(k, 10, 1) = <<Digit(k)>>
<1> DEFINE s == Digits(k, 10, 1)
<1>1. s \in OfLength(Plain, 1)
  BY DigitsAre
<1>2. s[1] = Digit(Rest(k, 10, 0) % 10)
  <2>1. 1 \in 1..1 /\ 1 - 1 = 0
    OBVIOUS
  <2> QED
    BY <2>1 DEF Digits
<1>3. Rest(k, 10, 0) = k
  <2>1. 0 \in Nat /\ k \in Nat /\ 0 = 0
    OBVIOUS
  <2> QED
    BY <2>1, RestIs
<1>4. k % 10 = k
  OBVIOUS
<1> HIDE DEF s
<1>5. s = <<Digit(k)>>
  BY <1>1, <1>2, <1>3, <1>4 DEF OfLength
<1> QED
  BY <1>5 DEF s

(* A header of twelve characters, of a frame with the size 15.              *)
LEMMA HeaderIs ==
  ASSUME NEW mark \in Letters, NEW name \in PacketNames
  PROVE  Header(mark, name, 15) \in OfLength(Plain, 12)
<1> DEFINE size == SizeText(15)
           h1 == <<Char(mark), Comma>> \o NameText(name)
           h2 == h1 \o <<Comma>>
           h3 == h2 \o size
           h4 == h3 \o <<Comma>>
<1>1. <<Char(mark), Comma>> \in OfLength(Plain, 2) /\ <<Comma>> \in OfLength(Plain, 1)
  BY PlainChars, Tuples
<1>2. NameText(name) \in OfLength(Plain, 5)
  <2>1. NameText(name) \in [1..5 -> Plain]
    BY DEF NameText, Plain, NameLength
  <2> QED
    BY <2>1, Listed
<1>3. size \in OfLength(Plain, 3)
  <2>1. size = Digits(15, 10, 3)
    BY DEF SizeText
  <2>2. 15 \in Nat /\ 3 \in Nat
    OBVIOUS
  <2> HIDE DEF size
  <2> QED
    BY <2>1, <2>2, DigitsAre
<1>4. Header(mark, name, 15) = h4
  BY DEF Header
<1> HIDE DEF size
<1>5. /\ 1 \in Nat /\ 2 \in Nat /\ 3 \in Nat /\ 5 \in Nat /\ 7 \in Nat /\ 8 \in Nat /\ 11 \in Nat
      /\ 2 + 5 = 7 /\ 7 + 1 = 8 /\ 8 + 3 = 11 /\ 11 + 1 = 12
  OBVIOUS
<1>6. Joins(Plain, h1, <<Char(mark), Comma>>, 2, NameText(name), 5)
  BY <1>1, <1>2, <1>5, Joined
<1> HIDE DEF h1
<1>7. Joins(Plain, h2, h1, 7, <<Comma>>, 1)
  <2>1. h1 \in OfLength(Plain, 7)
    BY <1>5, <1>6 DEF Joins
  <2> QED
    BY <1>1, <1>5, <2>1, Joined
<1> HIDE DEF h2
<1>8. Joins(Plain, h3, h2, 8, size, 3)
  <2>1. h2 \in OfLength(Plain, 8)
    BY <1>5, <1>7 DEF Joins
  <2> QED
    BY <1>3, <1>5, <2>1, Joined
<1> HIDE DEF h3
<1>9. Joins(Plain, h4, h3, 11, <<Comma>>, 1)
  <2>1. h3 \in OfLength(Plain, 11)
    BY <1>5, <1>8 DEF Joins
  <2> QED
    BY <1>1, <1>5, <2>1, Joined
<1> HIDE DEF h4
<1> QED
  BY <1>4, <1>5, <1>9 DEF Joins

(* The four characters of a body. *)
LEMMA BodyIs ==
  ASSUME NEW k \in 1..9
  PROVE  /\ Body(k) = <<Digit(k), Comma, Digit(k), Comma>>
         /\ OddBody(k) = <<Digit(k), Comma, Char("x"), Comma>>
<1> DEFINE d == Digit(k)
           x == Char("x")
<1>1. d \in Plain /\ Comma \in Plain /\ x \in Plain
  <2>1. k \in 0..15
    OBVIOUS
  <2> QED
    BY <2>1, DigitIs, PlainChars
<1>2. Digits(k, 10, 1) = <<d>>
  BY OneDigit
<1>3. /\ Body(k) = ((<<d>> \o <<Comma>>) \o <<d>>) \o <<Comma>>
      /\ OddBody(k) = <<d>> \o <<Comma, x, Comma>>
  BY <1>2 DEF Body, OddBody
<1> HIDE DEF d, x
<1>4. ((<<d>> \o <<Comma>>) \o <<d>>) \o <<Comma>> = <<d, Comma, d, Comma>>
  BY <1>1, Pasted
<1>5. <<d>> \o <<Comma, x, Comma>> = <<d, Comma, x, Comma>>
  BY <1>1, Pasted
<1> QED
  BY <1>3, <1>4, <1>5 DEF d, x

(* What is common to the spans of frame k. *)
LEMMA SpanIs ==
  ASSUME NEW k \in 1..9, NEW span \in Spans(k)
  PROVE  /\ span \in OfLength(Plain, 16)
         /\ span[13] = Digit(k) /\ span[14] = Comma
         /\ span[15] \in {Digit(k), Char("x")} /\ span[16] = Comma
<1>1. Digit(k) \in Plain /\ Comma \in Plain /\ Char("x") \in Plain
  BY DigitIs, PlainChars
<1>2. /\ Body(k) = <<Digit(k), Comma, Digit(k), Comma>>
      /\ OddBody(k) = <<Digit(k), Comma, Char("x"), Comma>>
  BY BodyIs
<1>3. PICK name \in PacketNames, body \in {Body(k), OddBody(k)} :
        span = Header("E", name, 15) \o body
  BY DEF Spans
<1> DEFINE head == Header("E", name, 15)
<1>4. body \in OfLength(Plain, 4)
  BY <1>1, <1>2, Tuples
<1>5. body[1] = Digit(k) /\ body[2] = Comma /\ body[3] \in {Digit(k), Char("x")} /\ body[4] = Comma
  BY <1>2
<1>6. head \in OfLength(Plain, 12)
  <2>1. "E" \in Letters
    BY DEF Letters, HexLetters
  <2> QED
    BY <2>1, HeaderIs
<1> HIDE DEF head
<1>7. 12 \in Nat /\ 4 \in Nat /\ 12 + 4 = 16
  OBVIOUS
<1>8. Joins(Plain, head \o body, head, 12, body, 4)
  BY <1>4, <1>6, <1>7, Joined
<1>9. span = head \o body
  BY <1>3 DEF head
<1>10. /\ span \in OfLength(Plain, 12 + 4)
       /\ span[12 + 1] = body[1] /\ span[12 + 2] = body[2]
       /\ span[12 + 3] = body[3] /\ span[12 + 4] = body[4]
  <2>1. Joins(Plain, span, head, 12, body, 4)
    BY <1>8, <1>9
  <2>2. 1 \in 1..4 /\ 2 \in 1..4 /\ 3 \in 1..4 /\ 4 \in 1..4
    OBVIOUS
  <2>3. span \in OfLength(Plain, 12 + 4) /\ \A i \in 1..4 : span[12 + i] = body[i]
    BY <2>1 DEF Joins
  <2> QED
    BY <2>2, <2>3
<1>11. 12 + 1 = 13 /\ 12 + 2 = 14 /\ 12 + 3 = 15
  OBVIOUS
<1> QED
  BY <1>5, <1>7, <1>10, <1>11

-----------------------------------------------------------------------------
(* Marks *)

(* Only the first character of a checksum marks a frame, and but one frame. *)
LEMMA PlainIsNoMark ==
  ASSUME NEW c \in Plain, NEW l
  PROVE  ~ Marks(c, l)
<1>1. ASSUME NEW x, NEW span PROVE Char(x) # <<"crc", 1, span>>
  BY DEF Char
<1>2. ASSUME NEW x, NEW i, NEW span PROVE <<x, i>> # <<"crc", 1, span>>
  OBVIOUS
<1>3. (\E x \in Letters : c = Char(x)) \/ (\E name \in PacketNames, i \in 1..NameLength : c = <<name, i>>)
  BY DEF Plain
<1> QED
  BY <1>1, <1>2, <1>3 DEF Marks

LEMMA CheckIsMark ==
  ASSUME NEW k \in 1..9, NEW l \in 1..9, NEW span \in Spans(k), NEW i, Marks(<<"crc", i, span>>, l)
  PROVE  i = 1 /\ l = k
<1>1. PICK other \in Spans(l) : <<"crc", i, span>> = <<"crc", 1, other>>
  BY DEF Marks
<1>2. i = 1 /\ span = other
  BY <1>1
<1>3. Digit(k) = Digit(l)
  <2>1. span[13] = Digit(k) /\ other[13] = Digit(l)
    BY SpanIs
  <2> QED
    BY <1>2, <2>1
<1>4. k \in 0..15 /\ l \in 0..15
  OBVIOUS
<1>5. DigitValue(Digit(k)) = k /\ DigitValue(Digit(l)) = l
  BY <1>4, DigitIs
<1> QED
  BY <1>2, <1>3, <1>5

(* The text the line carries of frame k: at most one character of it marks  *)
(* a frame, and that frame is k.                                            *)
Once(text, k) ==
  /\ text \in Seq(Chars)
  /\ \A i \in 1..Len(text), l \in 1..9 : Marks(text[i], l) => l = k
  /\ \A i, j \in 1..Len(text) : Marks(text[i], k) /\ Marks(text[j], k) => i = j

(* A frame: its span and, in 18 to 25, the checksum of it.                  *)
LEMMA FooterIs ==
  ASSUME NEW k \in 1..9, NEW span \in Spans(k)
  PROVE  /\ WithFooter(span) \in OfLength(Chars, 27)
         /\ \A i \in 1..27 : \/ WithFooter(span)[i] \in Plain
                             \/ i \in 18..25 /\ WithFooter(span)[i] = <<"crc", i - 17, span>>
<1> DEFINE h == <<Char("h")>>
           crc == CalculateCrc32(span)
           end == <<Comma, Char("\n")>>
           a == span \o h
           b == a \o crc
           c == b \o end
<1>0. /\ 16 \in Nat /\ 1 \in Nat /\ 17 \in Nat /\ 8 \in Nat /\ 25 \in Nat /\ 2 \in Nat
      /\ 16 + 1 = 17 /\ 17 + 8 = 25 /\ 25 + 2 = 27
  OBVIOUS
<1>1. Plain \subseteq Chars
  BY DEF Chars
<1>2. /\ span \in OfLength(Plain, 16) /\ span \in OfLength(Chars, 16)
      /\ \A i \in 1..16 : span[i] \in Plain
  <2>1. span \in OfLength(Plain, 16)
    BY SpanIs
  <2>2. span \in Seq(Plain) /\ Len(span) = 16
    BY <2>1 DEF OfLength
  <2>3. span \in Seq(Chars) /\ \A i \in 1..Len(span) : span[i] \in Plain
    BY <1>1, <2>2, SeqMonotonic, ElementOfSeq
  <2> QED
    BY <2>1, <2>2, <2>3 DEF OfLength
<1>3. /\ h \in OfLength(Chars, 1) /\ h[1] \in Plain
      /\ end \in OfLength(Chars, 2) /\ end[1] \in Plain /\ end[2] \in Plain
  <2>1. Char("h") \in Plain /\ Comma \in Plain /\ Char("\n") \in Plain
    BY PlainChars
  <2>2. Char("h") \in Chars /\ Comma \in Chars /\ Char("\n") \in Chars
    BY <1>1, <2>1
  <2> QED
    BY <2>1, <2>2, Tuples
<1>4. /\ crc \in OfLength(Chars, 8)
      /\ \A i \in 1..8 : crc[i] = <<"crc", i, span>>
  <2>1. ASSUME NEW i \in 1..8 PROVE <<"crc", i, span>> \in Chars
    <3>1. span \in UNION {Spans(n) : n \in 1..9}
      OBVIOUS
    <3> QED
      BY <3>1 DEF Chars, Checks, ChecksumLength
  <2>2. crc = [i \in 1..8 |-> <<"crc", i, span>>]
    BY DEF CalculateCrc32, ChecksumLength
  <2>3. crc \in [1..8 -> Chars]
    BY <2>1, <2>2
  <2> HIDE DEF crc
  <2> QED
    BY <1>0, <2>2, <2>3, Listed
<1>5. WithFooter(span) = c
  BY DEF WithFooter
<1> HIDE DEF h, crc, end
<1>6. Joins(Chars, a, span, 16, h, 1)
  BY <1>0, <1>2, <1>3, Joined
<1> HIDE DEF a
<1>7. Joins(Chars, b, a, 17, crc, 8)
  <2>1. a \in OfLength(Chars, 17)
    BY <1>0, <1>6 DEF Joins
  <2> QED
    BY <1>0, <1>4, <2>1, Joined
<1> HIDE DEF b
<1>8. Joins(Chars, c, b, 25, end, 2)
  <2>1. b \in OfLength(Chars, 25)
    BY <1>0, <1>7 DEF Joins
  <2> QED
    BY <1>0, <1>3, <2>1, Joined
<1> HIDE DEF c
<1>9. c \in OfLength(Chars, 27)
  BY <1>0, <1>8 DEF Joins
<1>10. ASSUME NEW i \in 1..27
       PROVE  c[i] \in Plain \/ (i \in 18..25 /\ c[i] = <<"crc", i - 17, span>>)
  <2>1. CASE i \in 1..16
    <3>1. i \in 1..17 /\ i \in 1..25
      BY <2>1
    <3>2. c[i] = b[i] /\ b[i] = a[i] /\ a[i] = span[i]
      BY <1>6, <1>7, <1>8, <2>1, <3>1 DEF Joins
    <3> QED
      BY <1>2, <2>1, <3>2
  <2>2. CASE i = 17
    <3>1. 17 \in 1..17 /\ 17 \in 1..25 /\ 1 \in 1..1 /\ 16 + 1 = 17
      OBVIOUS
    <3>2. c[17] = b[17] /\ b[17] = a[17] /\ a[17] = h[1]
      BY <1>6, <1>7, <1>8, <3>1 DEF Joins
    <3> QED
      BY <1>3, <2>2, <3>2
  <2>3. CASE i \in 18..25
    <3>1. i \in 1..25 /\ i - 17 \in 1..8 /\ 17 + (i - 17) = i
      BY <2>3
    <3>2. c[i] = b[i] /\ b[17 + (i - 17)] = crc[i - 17]
      BY <1>7, <1>8, <3>1 DEF Joins
    <3> QED
      BY <1>4, <2>3, <3>1, <3>2
  <2>4. CASE i \in {26, 27}
    <3>1. 1 \in 1..2 /\ 2 \in 1..2 /\ 25 + 1 = 26 /\ 25 + 2 = 27
      OBVIOUS
    <3>2. c[26] = end[1] /\ c[27] = end[2]
      BY <1>8, <3>1 DEF Joins
    <3> QED
      BY <1>3, <2>4, <3>2
  <2> QED
    BY <2>1, <2>2, <2>3, <2>4
<1> QED
  BY <1>5, <1>9, <1>10

LEMMA FrameIsOnce ==
  ASSUME NEW k \in 1..9, NEW span \in Spans(k)
  PROVE  Once(WithFooter(span), k)
<1> DEFINE text == WithFooter(span)
<1>1. /\ text \in Seq(Chars) /\ Len(text) = 27
      /\ \A i \in 1..27 : text[i] \in Plain \/ (i \in 18..25 /\ text[i] = <<"crc", i - 17, span>>)
  BY FooterIs DEF OfLength
<1> HIDE DEF text
<1>2. ASSUME NEW i \in 1..27, NEW l \in 1..9, Marks(text[i], l)
      PROVE  l = k /\ i = 18
  <2>1. i \in 18..25 /\ text[i] = <<"crc", i - 17, span>>
    BY <1>1, <1>2, PlainIsNoMark
  <2>2. i - 17 = 1 /\ l = k
    BY <1>2, <2>1, CheckIsMark
  <2> QED
    BY <2>1, <2>2
<1>3. \A i, j \in 1..27 : Marks(text[i], k) /\ Marks(text[j], k) => i = j
  <2>1. \A i \in 1..27 : Marks(text[i], k) => i = 18
    BY <1>2
  <2> QED
    BY <2>1
<1>4. Once(text, k)
  BY <1>1, <1>2, <1>3 DEF Once
<1> QED
  BY <1>4 DEF text

(* Without its i-th element. *)
Without(s, i) == SubSeq(s, 1, i - 1) \o SubSeq(s, i + 1, Len(s))

(* A sequence without one of its elements, element by element.              *)
LEMMA WithoutIs ==
  ASSUME NEW S, NEW s \in Seq(S), NEW i \in 1..Len(s)
  PROVE  /\ Without(s, i) \in Seq(S)
         /\ Len(Without(s, i)) = Len(s) - 1
         /\ \A j \in 1..Len(s) - 1 : Without(s, i)[j] = IF j < i THEN s[j] ELSE s[j + 1]
<1> DEFINE n == Len(s)
           a == SubSeq(s, 1, i - 1)
           b == SubSeq(s, i + 1, n)
           r == a \o b
<1>1. n \in Nat /\ i - 1 \in Nat /\ n - i \in Nat /\ (i - 1) + (n - i) = n - 1
  BY LenProperties
<1>2. /\ a \in Seq(S) /\ Len(a) = i - 1
      /\ \A j \in 1..i - 1 : a[j] = s[j]
  <2>1. 0 \in Nat /\ 0 <= i - 1 /\ i - 1 <= n /\ 0 + 1 = 1 /\ (i - 1) - 0 = i - 1
        /\ \A j \in 1..i - 1 : 0 + j = j
    BY <1>1
  <2> QED
    BY <1>1, <2>1, Slice
<1>3. /\ b \in Seq(S) /\ Len(b) = n - i
      /\ \A j \in 1..n - i : b[j] = s[i + j]
  <2>1. i \in Nat /\ Len(s) \in Nat /\ i <= Len(s) /\ Len(s) <= Len(s)
    BY <1>1
  <2> QED
    BY <2>1, Slice
<1> HIDE DEF a, b
<1>4. Joins(S, r, a, i - 1, b, n - i)
  <2>1. a \in OfLength(S, i - 1) /\ b \in OfLength(S, n - i)
    BY <1>2, <1>3 DEF OfLength
  <2> QED
    BY <1>1, <2>1, Joined
<1> HIDE DEF r
<1>5. r \in Seq(S) /\ Len(r) = n - 1
  BY <1>1, <1>4 DEF Joins, OfLength
<1>6. ASSUME NEW j \in 1..n - 1 PROVE r[j] = IF j < i THEN s[j] ELSE s[j + 1]
  <2>1. CASE j < i
    <3>1. j \in 1..i - 1
      BY <1>1, <2>1
    <3> QED
      BY <1>2, <1>4, <2>1, <3>1 DEF Joins
  <2>2. CASE ~ (j < i)
    <3>1. j - (i - 1) \in 1..n - i /\ (i - 1) + (j - (i - 1)) = j /\ i + (j - (i - 1)) = j + 1
      BY <1>1, <2>2
    <3>2. r[(i - 1) + (j - (i - 1))] = b[j - (i - 1)]
      BY <1>4, <3>1 DEF Joins
    <3>3. b[j - (i - 1)] = s[i + (j - (i - 1))]
      BY <1>3, <3>1
    <3> QED
      BY <2>2, <3>1, <3>2, <3>3
  <2> QED
    BY <2>1, <2>2
<1>7. Without(s, i) = r
  BY DEF Without, r, a, b
<1> QED
  BY <1>5, <1>6, <1>7

(* Whatever the line makes of one character of a frame. *)
LEMMA PutIsOnce ==
  ASSUME NEW k \in 1..9, NEW text, Once(text, k), NEW i \in 1..Len(text), NEW c \in Plain
  PROVE  Once([text EXCEPT ![i] = c], k)
<1> DEFINE put == [text EXCEPT ![i] = c]
<1>1. text \in Seq(Chars)
  BY DEF Once
<1>2. c \in Chars
  BY DEF Chars
<1>3. /\ put \in Seq(Chars) /\ Len(put) = Len(text)
      /\ \A j \in 1..Len(text) : put[j] = IF j = i THEN c ELSE text[j]
  BY <1>1, <1>2, ExceptSeq
<1> HIDE DEF put
<1>4. ASSUME NEW j \in 1..Len(text), NEW l \in 1..9, Marks(put[j], l)
      PROVE  Marks(text[j], l)
  <2>1. put[j] # c
    BY <1>4, PlainIsNoMark
  <2> QED
    BY <1>3, <1>4, <2>1
<1>5. Once(put, k)
  <2>1. \A j \in 1..Len(text), l \in 1..9 : Marks(put[j], l) => l = k
    BY <1>4 DEF Once
  <2>2. \A h, j \in 1..Len(text) : Marks(put[h], k) /\ Marks(put[j], k) => h = j
    <3>1. \A j \in 1..Len(text) : Marks(put[j], k) => Marks(text[j], k)
      BY <1>4
    <3> QED
      BY <3>1 DEF Once
  <2> QED
    BY <1>3, <2>1, <2>2 DEF Once
<1> QED
  BY <1>5 DEF put

LEMMA LessIsOnce ==
  ASSUME NEW k \in 1..9, NEW text, Once(text, k), NEW i \in 1..Len(text)
  PROVE  Once(Without(text, i), k)
<1> DEFINE less == Without(text, i)
           n == Len(text)
           at(j) == IF j < i THEN j ELSE j + 1
<1>1. text \in Seq(Chars) /\ n \in Nat
  BY LenProperties DEF Once
<1>2. /\ less \in Seq(Chars) /\ Len(less) = n - 1
      /\ \A j \in 1..n - 1 : less[j] = IF j < i THEN text[j] ELSE text[j + 1]
  BY <1>1, WithoutIs
<1> HIDE DEF less
<1>3. \A j \in 1..n - 1 : at(j) \in 1..n /\ less[j] = text[at(j)]
  BY <1>1, <1>2
<1>4. \A h, j \in 1..n - 1 : at(h) = at(j) => h = j
  BY <1>1
<1> HIDE DEF at
<1>5. /\ \A j \in 1..n - 1, l \in 1..9 : Marks(less[j], l) => l = k
      /\ \A h, j \in 1..n - 1 : Marks(less[h], k) /\ Marks(less[j], k) => h = j
  <2>1. \A j \in 1..n - 1, l \in 1..9 : Marks(less[j], l) => l = k
    BY <1>3 DEF Once
  <2>2. \A h, j \in 1..n - 1 : Marks(less[h], k) /\ Marks(less[j], k) => at(h) = at(j)
    BY <1>3 DEF Once
  <2> QED
    BY <1>4, <2>1, <2>2
<1>6. Once(less, k)
  BY <1>2, <1>5 DEF Once
<1> QED
  BY <1>6 DEF less

(* What EcuSends may put on the line for frame k. *)
Texts(k) ==
  LET frame == Frame("ecu1_", Body(k))
  IN  {frame} \cup OddFrames(k) \cup UNION {Spoiled(frame, i) : i \in 1..Len(frame)}

LEMMA TextIsOnce ==
  ASSUME NEW k \in 1..9, NEW text \in Texts(k)
  PROVE  Once(text, k)
<1> DEFINE frame == Frame("ecu1_", Body(k))
<1>1. /\ Len(Body(k)) = 4 /\ Len(OddBody(k)) = 4
  <2>1. \A c : Len(<<Digit(k), Comma, c, Comma>>) = 4
    OBVIOUS
  <2> QED
    BY <2>1, BodyIs
<1>2. ASSUME NEW name \in PacketNames, NEW body \in {Body(k), OddBody(k)}
      PROVE  Once(Frame(name, body), k)
  <2>1. Len(body) + kPacketFooterLength = 15
    <3>1. Len(body) = 4
      BY <1>1
    <3> QED
      BY <3>1 DEF kPacketFooterLength
  <2>2. Header("E", name, 15) \o body \in Spans(k)
    <3> DEFINE head(n) == Header("E", n, 15)
               bodies == {Body(k), OddBody(k)}
    <3>1. Spans(k) = {head(n) \o b : n \in PacketNames, b \in bodies}
      BY DEF Spans
    <3>2. body \in bodies
      OBVIOUS
    <3> HIDE DEF head, bodies
    <3>3. head(name) \o body \in Spans(k)
      BY <3>1, <3>2
    <3> QED
      BY <3>3 DEF head
  <2>3. Frame(name, body) = WithFooter(Header("E", name, 15) \o body)
    BY <2>1 DEF Frame
  <2> QED
    BY <2>2, <2>3, FrameIsOnce
<1>3. Once(frame, k)
  BY <1>2 DEF PacketNames
<1>4. CASE text \in OddFrames(k)
  BY <1>2, <1>4 DEF OddFrames, OddBody, PacketNames
<1>5. ASSUME NEW i \in 1..Len(frame), text \in Spoiled(frame, i)
      PROVE  Once(text, k)
  <2> HIDE DEF frame
  <2>1. \/ text \in {[frame EXCEPT ![i] = Char("x")], [frame EXCEPT ![i] = Char("E")],
                     [frame EXCEPT ![i] = Char("3")]}
        \/ text = Without(frame, i)
    BY <1>5 DEF Spoiled, Without
  <2>2. {Char("x"), Char("E"), Char("3")} \subseteq Plain
    BY PlainChars
  <2> QED
    BY <1>3, <2>1, <2>2, PutIsOnce, LessIsOnce
<1> QED
  BY <1>3, <1>4, <1>5 DEF Texts

-----------------------------------------------------------------------------
(* The stream: what is in the receive buffer and, after it, on the line.    *)
(* Its marks are those of frames after lo up to hi, in their order.         *)
Stream(text, lo, hi) ==
  /\ text \in Seq(Chars)
  /\ \A i \in 1..Len(text), k \in 1..9 : Marks(text[i], k) => lo < k /\ k <= hi
  /\ \A i, j \in 1..Len(text), k, l \in 1..9 :
       i < j /\ Marks(text[i], k) /\ Marks(text[j], l) => k < l

LEMMA StreamGrows ==
  ASSUME NEW lo \in Nat, NEW hi \in Nat, lo <= hi, hi + 1 \in 1..9,
         NEW s, Stream(s, lo, hi), NEW t, Once(t, hi + 1)
  PROVE  Stream(s \o t, lo, hi + 1)
<1> DEFINE m == Len(s)
           n == Len(t)
           r == s \o t
<1>1. s \in Seq(Chars) /\ t \in Seq(Chars) /\ m \in Nat /\ n \in Nat
  BY LenProperties DEF Stream, Once
<1>2. /\ r \in Seq(Chars) /\ Len(r) = m + n
      /\ \A i \in 1..m + n : r[i] = IF i <= m THEN s[i] ELSE t[i - m]
  BY <1>1, ConcatProperties
<1> HIDE DEF r
<1>3. ASSUME NEW i \in 1..m + n, NEW k \in 1..9, Marks(r[i], k)
      PROVE  \/ i \in 1..m /\ Marks(s[i], k)
             \/ i - m \in 1..n /\ Marks(t[i - m], k)
  <2>1. CASE i <= m
    <3>1. i \in 1..m /\ r[i] = s[i]
      BY <1>1, <1>2, <2>1
    <3> QED
      BY <1>3, <3>1
  <2>2. CASE ~ (i <= m)
    <3>1. i - m \in 1..n /\ r[i] = t[i - m]
      BY <1>1, <1>2, <2>2
    <3> QED
      BY <1>3, <3>1
  <2> QED
    BY <2>1, <2>2
<1>4. \A i \in 1..m, k \in 1..9 : Marks(s[i], k) => lo < k /\ k <= hi
  BY DEF Stream
<1>5. \A i \in 1..n, k \in 1..9 : Marks(t[i], k) => k = hi + 1
  BY DEF Once
<1>6. ASSUME NEW i \in 1..m + n, NEW k \in 1..9, Marks(r[i], k)
      PROVE  lo < k /\ k <= hi + 1
  <2>1. k <= hi \/ k = hi + 1
    BY <1>3, <1>4, <1>5, <1>6
  <2>2. lo < k \/ k = hi + 1
    BY <1>3, <1>4, <1>5, <1>6
  <2> QED
    BY <2>1, <2>2
<1>7. ASSUME NEW i \in 1..m + n, NEW j \in 1..m + n, NEW k \in 1..9, NEW l \in 1..9,
             i < j, Marks(r[i], k), Marks(r[j], l)
      PROVE  k < l
  <2>1. CASE i \in 1..m /\ Marks(s[i], k) /\ j \in 1..m /\ Marks(s[j], l)
    BY <1>7, <2>1 DEF Stream
  <2>2. CASE i \in 1..m /\ Marks(s[i], k) /\ j - m \in 1..n /\ Marks(t[j - m], l)
    <3>1. k <= hi /\ l = hi + 1
      BY <1>4, <1>5, <2>2
    <3> QED
      BY <3>1
  <2>3. CASE i - m \in 1..n /\ j \in 1..m
    BY <1>1, <1>7, <2>3
  <2>4. CASE i - m \in 1..n /\ Marks(t[i - m], k) /\ j - m \in 1..n /\ Marks(t[j - m], l)
    <3>1. k = hi + 1 /\ l = hi + 1
      BY <1>5, <2>4
    <3>2. i - m = j - m
      BY <2>4, <3>1 DEF Once
    <3> QED
      BY <1>1, <1>7, <3>2
  <2> QED
    BY <1>3, <1>7, <2>1, <2>2, <2>3, <2>4
<1>8. Stream(r, lo, hi + 1)
  BY <1>2, <1>6, <1>7 DEF Stream
<1> QED
  BY <1>8 DEF r

(* What the decoder is done with leaves the buffer; when it held the mark   *)
(* of frame k, only later ones are left.                                    *)
LEMMA StreamMoves ==
  ASSUME NEW lo \in Nat, NEW hi, NEW s \in Seq(Chars), NEW t \in Seq(Chars), Stream(s \o t, lo, hi),
         NEW m \in 0..Len(s), NEW new,
         new = lo \/ (new \in 1..9 /\ \E p \in 1..m : Marks(s[p], new))
  PROVE  /\ Stream(SubSeq(s, m + 1, Len(s)) \o t, new, hi)
         /\ new # lo => lo < new /\ new <= hi
<1> DEFINE n == Len(s)
           all == s \o t
           rest == SubSeq(s, m + 1, n)
           r == rest \o t
<1>1. /\ n \in Nat /\ Len(t) \in Nat /\ m \in Nat /\ m <= n /\ n <= Len(s)
      /\ \A i \in Nat : m + i \in Nat
  BY LenProperties
<1>2. /\ rest \in Seq(Chars) /\ Len(rest) = n - m
      /\ \A i \in 1..n - m : rest[i] = s[m + i]
  BY <1>1, Slice
<1> HIDE DEF rest
<1>3. /\ all \in Seq(Chars) /\ Len(all) = n + Len(t)
      /\ \A i \in 1..n + Len(t) : all[i] = IF i <= n THEN s[i] ELSE t[i - n]
  BY ConcatProperties
<1>4. /\ r \in Seq(Chars) /\ Len(r) = (n - m) + Len(t)
      /\ \A i \in 1..(n - m) + Len(t) : r[i] = IF i <= n - m THEN rest[i] ELSE t[i - (n - m)]
  <2>1. /\ r \in Seq(Chars) /\ Len(r) = Len(rest) + Len(t)
        /\ \A i \in 1..Len(rest) + Len(t) :
             r[i] = IF i <= Len(rest) THEN rest[i] ELSE t[i - Len(rest)]
    BY <1>2, ConcatProperties
  <2> QED
    BY <1>2, <2>1
<1>5. Stream(all, lo, hi)
  OBVIOUS
<1> HIDE DEF r, all
<1>6. ASSUME NEW i \in 1..Len(r) PROVE m + i \in 1..Len(all) /\ r[i] = all[m + i]
  <2>1. i \in 1..(n - m) + Len(t) /\ m + i \in 1..n + Len(t)
    BY <1>1, <1>4
  <2>2. CASE i <= n - m
    <3>1. i \in 1..n - m /\ m + i <= n
      BY <1>1, <2>1, <2>2
    <3> QED
      BY <1>2, <1>3, <1>4, <2>1, <2>2, <3>1
  <2>3. CASE ~ (i <= n - m)
    <3>1. ~ (m + i <= n) /\ i - (n - m) = (m + i) - n
      BY <1>1, <2>1, <2>3
    <3>2. r[i] = t[i - (n - m)] /\ all[m + i] = t[(m + i) - n]
      BY <1>3, <1>4, <2>1, <2>3, <3>1
    <3> QED
      BY <1>3, <2>1, <3>1, <3>2
  <2> QED
    BY <2>2, <2>3
<1>a. /\ \A i \in 1..Len(r) : i \in Nat /\ i >= 1
      /\ \A i, j \in Nat : i < j => m + i < m + j
      /\ \A p \in 1..m, i \in Nat : i >= 1 => p < m + i
  <2>1. Len(r) \in Nat
    BY <1>1, <1>4
  <2> QED
    BY <1>1, <2>1
<1>7. CASE new = lo
  <2>1. \A i \in 1..Len(r), k \in 1..9 : Marks(r[i], k) => lo < k /\ k <= hi
    BY <1>5, <1>6 DEF Stream
  <2>2. ASSUME NEW i \in 1..Len(r), NEW j \in 1..Len(r), NEW k \in 1..9, NEW l \in 1..9,
               i < j, Marks(r[i], k), Marks(r[j], l)
        PROVE  k < l
    <3>1. m + i \in 1..Len(all) /\ m + j \in 1..Len(all) /\ m + i < m + j
      BY <1>a, <1>6, <2>2
    <3>2. Marks(all[m + i], k) /\ Marks(all[m + j], l)
      BY <1>6, <2>2
    <3> QED
      BY <1>5, <3>1, <3>2 DEF Stream
  <2>3. Stream(r, lo, hi)
    BY <1>4, <2>1, <2>2 DEF Stream
  <2> QED
    BY <1>7, <2>3 DEF r, rest
<1>8. CASE new \in 1..9 /\ \E p \in 1..m : Marks(s[p], new)
  <2>1. PICK p \in 1..m : Marks(s[p], new)
    BY <1>8
  <2>2. p \in 1..Len(all) /\ all[p] = s[p]
    BY <1>1, <1>3
  <2>3. Marks(all[p], new)
    BY <2>1, <2>2
  <2>4. lo < new /\ new <= hi
    BY <1>5, <1>8, <2>2, <2>3 DEF Stream
  <2>5. ASSUME NEW i \in 1..Len(r), NEW k \in 1..9, Marks(r[i], k)
        PROVE  new < k /\ k <= hi
    <3>1. m + i \in 1..Len(all) /\ p < m + i /\ Marks(all[m + i], k)
      BY <1>a, <1>6, <2>5
    <3> QED
      BY <1>5, <1>8, <2>2, <2>3, <3>1 DEF Stream
  <2>6. ASSUME NEW i \in 1..Len(r), NEW j \in 1..Len(r), NEW k \in 1..9, NEW l \in 1..9,
               i < j, Marks(r[i], k), Marks(r[j], l)
        PROVE  k < l
    <3>1. m + i \in 1..Len(all) /\ m + j \in 1..Len(all) /\ m + i < m + j
      BY <1>a, <1>6, <2>6
    <3>2. Marks(all[m + i], k) /\ Marks(all[m + j], l)
      BY <1>6, <2>6
    <3> QED
      BY <1>5, <3>1, <3>2 DEF Stream
  <2>7. Stream(r, new, hi)
    BY <1>4, <2>5, <2>6 DEF Stream
  <2> QED
    BY <2>4, <2>7 DEF r, rest
<1> QED
  BY <1>7, <1>8

-----------------------------------------------------------------------------
(* Numbers *)

(* A sequence of digits is read as a number.                                *)
LEMMA NumberIs ==
  ASSUME NEW text \in Seq(Chars), \A i \in 1..Len(text) : IsDigit(text[i], 10)
  PROVE  /\ Number(text, 10) \in Nat
         /\ Len(text) = 1 => Number(text, 10) = DigitValue(text[1])
<1> DEFINE n == Len(text)
           D == 1..n
           iter == CHOOSE g : g = [s \in SUBSET D |->
                     IF s = {} THEN 0 ELSE g[s \ {Max(s)}] * 10 + DigitValue(text[Max(s)])]
<1>1. n \in Nat /\ DOMAIN text = D
  BY LenProperties
<1>2. ASSUME NEW i \in D PROVE DigitValue(text[i]) \in Nat
  <2>1. PICK d \in 0..10 - 1 : text[i] = Digit(d)
    BY DEF IsDigit
  <2>2. d \in 0..15 /\ d \in Nat
    OBVIOUS
  <2>3. DigitValue(Digit(d)) = d
    BY <2>2, DigitIs
  <2> QED
    BY <2>1, <2>2, <2>3
<1>3. Number(text, 10) = iter[D]
  BY <1>1 DEF Number, FoldLeft, MapThenFoldSet
<1>4. \E g : g = [s \in SUBSET D |->
                   IF s = {} THEN 0 ELSE g[s \ {Max(s)}] * 10 + DigitValue(text[Max(s)])]
  <2> DEFINE F == [p \in Nat \X D |-> p[1] * 10 + DigitValue(text[p[2]])]
  <2>1. F \in [Nat \X (1..n) -> Nat] /\ 0 \in Nat
    <3>1. ASSUME NEW x \in Nat, NEW i \in D PROVE x * 10 + DigitValue(text[i]) \in Nat
      BY <1>2
    <3>2. \A p \in Nat \X D : p[1] \in Nat /\ p[2] \in D
      OBVIOUS
    <3>3. \A p \in Nat \X D : p[1] * 10 + DigitValue(text[p[2]]) \in Nat
      BY <3>1, <3>2
    <3> QED
      BY <3>3
  <2>2. PICK g : /\ IsFold(g, n, 0, F)
                 /\ \A s \in SUBSET (1..n) : g[s] \in Nat /\ (s = {} \/ Max(s) \in s)
    <3> DEFINE T == Nat
    <3> HIDE DEF F
    <3>1. n \in Nat /\ 0 \in T /\ F \in [T \X (1..n) -> T]
      BY <1>1, <2>1
    <3> HIDE DEF T
    <3>2. \E g : /\ IsFold(g, n, 0, F)
                 /\ \A s \in SUBSET (1..n) : g[s] \in T /\ (s = {} \/ Max(s) \in s)
      BY <3>1, FoldExists
    <3> QED
      BY <3>2 DEF T
  <2>3. ASSUME NEW s \in SUBSET D, s # {}
        PROVE  F[<<g[s \ {Max(s)}], Max(s)>>] = g[s \ {Max(s)}] * 10 + DigitValue(text[Max(s)])
    <3>1. s \ {Max(s)} \in SUBSET D /\ Max(s) \in D
      BY <2>2, <2>3
    <3>2. <<g[s \ {Max(s)}], Max(s)>> \in Nat \X D
      BY <2>2, <3>1
    <3> QED
      BY <3>2
  <2> HIDE DEF F
  <2>4. g = [s \in SUBSET D |-> IF s = {} THEN 0 ELSE F[<<g[s \ {Max(s)}], Max(s)>>]]
    BY <2>2 DEF IsFold
  <2>5. g = [s \in SUBSET D |->
              IF s = {} THEN 0 ELSE g[s \ {Max(s)}] * 10 + DigitValue(text[Max(s)])]
    BY <2>3, <2>4
  <2> QED
    BY <2>5
<1>5. iter = [s \in SUBSET D |->
               IF s = {} THEN 0 ELSE iter[s \ {Max(s)}] * 10 + DigitValue(text[Max(s)])]
  BY <1>4
<1> HIDE DEF iter
<1>6. iter[{}] = 0
  BY <1>5
<1>7. ASSUME NEW k \in D PROVE iter[1..k] = iter[1..k - 1] * 10 + DigitValue(text[k])
  <2>1. 1..k \in SUBSET D /\ 1..k # {} /\ Max(1..k) = k /\ (1..k) \ {k} = 1..k - 1
    BY <1>1, Prefix
  <2> QED
    BY <1>5, <2>1
<1>8. iter[1..n] \in Nat
  <2>1. \A k \in 1..n : iter[1..k - 1] \in Nat => iter[1..k] \in Nat
    <3>1. \A x, y \in Nat : x * 10 + y \in Nat
      OBVIOUS
    <3> QED
      BY <1>2, <1>7, <3>1
  <2> DEFINE T == Nat
  <2>2. iter[{}] \in T /\ \A k \in 1..n : iter[1..k - 1] \in T => iter[1..k] \in T
    BY <1>6, <2>1
  <2> HIDE DEF T
  <2>3. iter[1..n] \in T
    BY <1>1, <2>2, FoldKeeps
  <2> QED
    BY <2>3 DEF T
<1>9. n = 1 => iter[D] = DigitValue(text[1])
  <2>1. SUFFICES ASSUME n = 1 PROVE iter[1..1] = DigitValue(text[1])
    OBVIOUS
  <2>2. 1 \in D /\ 1..1 - 1 = {}
    BY <2>1
  <2>3. iter[1..1] = iter[1..1 - 1] * 10 + DigitValue(text[1])
    BY <1>7, <2>2
  <2>4. iter[1..1 - 1] = 0 /\ DigitValue(text[1]) \in Nat
    BY <1>2, <1>6, <2>2
  <2> QED
    BY <2>3, <2>4
<1> QED
  BY <1>3, <1>8, <1>9

(* Whatever the characters are, atoi reads an integer.                      *)
LEMMA AtoiIsInt ==
  ASSUME NEW text \in Seq(Chars), text # <<>>
  PROVE  Atoi(text) \in Int
<1> DEFINE signed == Head(text) \in {Char("-"), Char("+"), Char(" ")}
           body == IF signed THEN Tail(text) ELSE text
           P(n) == /\ \A i \in 1..n : IsDigit(body[i], 10)
                   /\ n < Len(body) => ~ IsDigit(body[n + 1], 10)
           length == CHOOSE n \in 0..Len(body) : P(n)
           value == Number(SubSeq(body, 1, length), 10)
<1>1. body \in Seq(Chars) /\ Len(body) \in Nat
  <2>1. Tail(text) \in Seq(Chars)
    BY HeadTailProperties
  <2>2. body \in Seq(Chars)
    BY <2>1
  <2> HIDE DEF body
  <2> QED
    BY <2>2, LenProperties
<1>2. Atoi(text) = IF Head(text) = Char("-") THEN - value ELSE value
  BY DEF Atoi
<1> HIDE DEF body
<1>3. \E n \in 0..Len(body) : P(n)
  <2> DEFINE T == {n \in 0..Len(body) : n = Len(body) \/ ~ IsDigit(body[n + 1], 10)}
  <2>1. T \subseteq Nat /\ Len(body) \in T
    BY <1>1
  <2>2. PICK x \in T : \A y \in T : x <= y
    <3> HIDE DEF T
    <3> QED
      BY <2>1, Smallest
  <2>3. ASSUME NEW i \in 1..x PROVE IsDigit(body[i], 10)
    <3>1. i - 1 \in 0..Len(body) /\ i - 1 # Len(body) /\ (i - 1) + 1 = i /\ ~ (x <= i - 1)
      BY <1>1, <2>1
    <3> QED
      BY <2>2, <3>1
  <2>4. x < Len(body) => ~ IsDigit(body[x + 1], 10)
    BY <1>1
  <2> QED
    BY <2>3, <2>4
<1>4. length \in 0..Len(body) /\ P(length)
  BY <1>3
<1> HIDE DEF length
<1>5. value \in Nat
  <2> DEFINE digits == SubSeq(body, 1, length)
  <2>1. /\ digits \in Seq(Chars) /\ Len(digits) = length
        /\ \A i \in 1..length : digits[i] = body[i]
    <3>1. 0 \in Nat /\ length \in Nat /\ 0 <= length /\ length <= Len(body)
          /\ 0 + 1 = 1 /\ length - 0 = length /\ \A i \in 1..length : 0 + i = i
      BY <1>1, <1>4
    <3> QED
      BY <1>1, <3>1, Slice
  <2>2. \A i \in 1..Len(digits) : IsDigit(digits[i], 10)
    BY <1>4, <2>1
  <2> HIDE DEF digits
  <2>3. Number(digits, 10) \in Nat
    BY <2>1, <2>2, NumberIs
  <2> QED
    BY <2>3 DEF digits
<1> HIDE DEF value
<1> QED
  BY <1>2, <1>5

-----------------------------------------------------------------------------
(* What the frame decoder is done with lies in the buffer; and the data of  *)
(* a frame are those its checksum was made from, in front of the mark.      *)
LEMMA SpanFound ==
  ASSUME NEW buffer \in Seq(Chars), NEW n \in Nat, n + 27 <= Len(buffer),
         CalculateCrc32(SubSeq(buffer, n + 1, n + 16)) = SubSeq(buffer, n + 18, n + 25)
  PROVE  \E k \in 1..9 : \E c \in {Digit(k), Char("x")} :
           /\ SubSeq(buffer, n + 13, n + 16) = <<Digit(k), Comma, c, Comma>>
           /\ Marks(buffer[n + 18], k)
<1> DEFINE span == SubSeq(buffer, n + 1, n + 16)
           checksum == SubSeq(buffer, n + 18, n + 25)
           data == SubSeq(buffer, n + 13, n + 16)
<1>1. /\ Len(buffer) \in Nat
      /\ n + 12 \in Nat /\ n + 16 \in Nat /\ n + 17 \in Nat /\ n + 25 \in Nat
      /\ n <= n + 16 /\ n + 12 <= n + 16 /\ n + 17 <= n + 25
      /\ n + 16 <= Len(buffer) /\ n + 25 <= Len(buffer)
      /\ (n + 16) - n = 16 /\ (n + 16) - (n + 12) = 4 /\ (n + 25) - (n + 17) = 8
      /\ n + 12 + 1 = n + 13 /\ n + 17 + 1 = n + 18
  BY LenProperties
<1>2. /\ span \in Seq(Chars) /\ Len(span) = 16
      /\ \A i \in 1..16 : span[i] = buffer[n + i]
  BY <1>1, Slice
<1>3. /\ data \in Seq(Chars) /\ Len(data) = 4
      /\ \A i \in 1..4 : data[i] = buffer[n + 12 + i]
  BY <1>1, Slice
<1>4. checksum[1] = buffer[n + 18]
  <2>1. \A i \in 1..8 : checksum[i] = buffer[n + 17 + i]
    BY <1>1, Slice
  <2> HIDE DEF checksum
  <2> QED
    BY <1>1, <2>1
<1> HIDE DEF span, checksum, data
<1>5. CalculateCrc32(span) = checksum
  BY DEF span, checksum
<1>6. buffer[n + 18] = <<"crc", 1, span>>
  <2>1. CalculateCrc32(span)[1] = <<"crc", 1, span>>
    BY DEF CalculateCrc32, ChecksumLength
  <2> QED
    BY <1>4, <1>5, <2>1
<1>7. PICK k \in 1..9 : span \in Spans(k)
  <2>1. <<"crc", 1, span>> \in Chars
    <3>1. n + 18 \in 1..Len(buffer)
      BY <1>1
    <3> QED
      BY <1>6, <3>1, ElementOfSeq
  <2>2. <<"crc", 1, span>> \notin Plain
    <3>1. \A x : Char(x) # <<"crc", 1, span>>
      BY DEF Char
    <3>2. \A x, i : <<x, i>> # <<"crc", 1, span>>
      OBVIOUS
    <3> QED
      BY <3>1, <3>2 DEF Plain
  <2>3. <<"crc", 1, span>> \in Checks
    BY <2>1, <2>2 DEF Chars
  <2>4. PICK i \in 1..ChecksumLength, other \in UNION {Spans(k) : k \in 1..9} :
          <<"crc", 1, span>> = <<"crc", i, other>>
    BY <2>3 DEF Checks
  <2>5. span = other
    BY <2>4
  <2> QED
    BY <2>4, <2>5
<1>8. Marks(buffer[n + 18], k)
  BY <1>6, <1>7 DEF Marks
<1>9. /\ span[13] = Digit(k) /\ span[14] = Comma
      /\ span[15] \in {Digit(k), Char("x")} /\ span[16] = Comma
  BY <1>7, SpanIs
<1>10. /\ data[1] = span[13] /\ data[2] = span[14] /\ data[3] = span[15] /\ data[4] = span[16]
  <2>1. /\ n + 12 + 1 = n + 13 /\ n + 12 + 2 = n + 14 /\ n + 12 + 3 = n + 15 /\ n + 12 + 4 = n + 16
    OBVIOUS
  <2>2. /\ span[13] = buffer[n + 13] /\ span[14] = buffer[n + 14]
        /\ span[15] = buffer[n + 15] /\ span[16] = buffer[n + 16]
    BY <1>2
  <2>3. /\ data[1] = buffer[n + 12 + 1] /\ data[2] = buffer[n + 12 + 2]
        /\ data[3] = buffer[n + 12 + 3] /\ data[4] = buffer[n + 12 + 4]
    BY <1>3
  <2> QED
    BY <2>1, <2>2, <2>3
<1>11. data = <<Digit(k), Comma, span[15], Comma>>
  BY <1>3, <1>9, <1>10
<1> QED
  BY <1>7, <1>8, <1>9, <1>11 DEF data

(* What FrameDecode returns for any buffer: it is done with no more than the *)
(* buffer holds, and a framed packet is one whose mark it passes over.      *)
LEMMA FrameDecoded ==
  ASSUME NEW buffer \in Seq(Chars)
  PROVE  LET f == FrameDecode(buffer, PacketSizes)
         IN  /\ f.result \in {"result_out_of_range", "protocol_error", "framed"}
             /\ f.used \in 0..Len(buffer)
             /\ f.result = "framed" =>
                  \E k \in 1..9 : \E c \in {Digit(k), Char("x")} :
                    /\ f.data = <<Digit(k), Comma, c, Comma>>
                    /\ \E p \in 1..f.used : Marks(buffer[p], k)
<1> DEFINE f == FrameDecode(buffer, PacketSizes)
           Good(r) ==
             /\ r.result \in {"result_out_of_range", "protocol_error", "framed"}
             /\ r.used \in 0..Len(buffer)
             /\ r.result = "framed" =>
                  \E k \in 1..9 : \E c \in {Digit(k), Char("x")} :
                    /\ r.data = <<Digit(k), Comma, c, Comma>>
                    /\ \E p \in 1..r.used : Marks(buffer[p], k)
<1> SUFFICES Good(f)
  OBVIOUS
<1> DEFINE starts == {i \in 1..Len(buffer) : buffer[i] = Char("E")}
           first == CHOOSE i \in starts : \A j \in starts : i <= j
           skipped == first - 1
           left == Len(buffer) - skipped
           size == PacketSize(SubSeq(buffer, skipped + 9, skipped + 11))
           frame == kPacketHeaderLength + size
           span == SubSeq(buffer, first, skipped + frame - kPacketFooterLength)
           checksum == SubSeq(buffer, skipped + frame - kPacketFooterLength + 2, skipped + frame - 2)
           names == {n \in DOMAIN PacketSizes : SubSeq(buffer, skipped + 3, skipped + 7) = NameText(n)}
           name == CHOOSE n \in names : TRUE
           data == SubSeq(buffer, skipped + kPacketHeaderLength + 1,
                          skipped + frame - kPacketFooterLength)
<1>1. Len(buffer) \in Nat /\ \A i \in 1..Len(buffer) : buffer[i] \in Chars
  BY LenProperties, ElementOfSeq
<1>2. \A u \in 0..Len(buffer) : Good(OutOfRange(u)) /\ Good(ProtocolError(u))
  BY DEF OutOfRange, ProtocolError
<1>3. f = IF starts = {} THEN OutOfRange(Len(buffer))
          ELSE IF left < kPacketHeaderLength THEN OutOfRange(skipped)
          ELSE IF buffer[skipped + 2] # Comma THEN ProtocolError(skipped + 2)
          ELSE IF buffer[skipped + 8] # Comma THEN ProtocolError(skipped + 8)
          ELSE IF size < 11 THEN ProtocolError(skipped + 11)
          ELSE IF buffer[skipped + 12] # Comma THEN ProtocolError(skipped + 12)
          ELSE IF left - kPacketHeaderLength < size THEN OutOfRange(skipped)
          ELSE IF CalculateCrc32(span) # checksum THEN ProtocolError(skipped + frame)
          ELSE IF names = {} THEN ProtocolError(skipped + frame)
          ELSE IF PacketSizes[name] # size THEN ProtocolError(skipped + frame)
          ELSE Framed(skipped + frame, name, data)
  BY DEF FrameDecode
<1>4. CASE starts = {}
  <2>1. Len(buffer) \in 0..Len(buffer)
    BY <1>1
  <2> QED
    BY <1>2, <1>3, <1>4, <2>1
<1>5. CASE starts # {}
  <2>1. first \in 1..Len(buffer)
    <3>1. \E x \in starts : \A y \in starts : x <= y
      <4>1. starts \subseteq Nat
        OBVIOUS
      <4> HIDE DEF starts
      <4> QED
        BY <1>5, <4>1, Smallest
    <3> QED
      BY <3>1
  <2> HIDE DEF starts, first
  <2>2. skipped \in 0..Len(buffer) /\ left \in Nat /\ skipped + left = Len(buffer)
    BY <1>1, <2>1
  <2>3. kPacketHeaderLength = 12 /\ kPacketFooterLength = 11
    BY DEF kPacketHeaderLength, kPacketFooterLength
  <2> HIDE DEF names, name, f, Good
  <2>4. CASE left < 12
    BY <1>2, <1>3, <1>5, <2>2, <2>3, <2>4
  <2>5. CASE ~ (left < 12)
    <3>1. size \in Int
      <4> DEFINE text == SubSeq(buffer, skipped + 9, skipped + 11)
      <4>1. text \in Seq(Chars) /\ Len(text) = 3
        <5>1. /\ skipped + 8 \in Nat /\ skipped + 11 \in Nat /\ skipped + 8 <= skipped + 11
              /\ skipped + 11 <= Len(buffer)
              /\ skipped + 8 + 1 = skipped + 9 /\ (skipped + 11) - (skipped + 8) = 3
          BY <2>2, <2>5
        <5> HIDE DEF skipped
        <5> QED
          BY <5>1, Slice
      <4> HIDE DEF text
      <4>2. text # <<>>
        <5>1. Len(<<>>) = 0
          OBVIOUS
        <5> QED
          BY <4>1, <5>1
      <4>3. Atoi(text) \in Int
        BY <4>1, <4>2, AtoiIsInt
      <4> QED
        BY <4>3 DEF PacketSize, Huge, text
    <3> HIDE DEF size
    <3>2. CASE left - 12 < size
      <4>1. /\ skipped + 2 \in 0..Len(buffer) /\ skipped + 8 \in 0..Len(buffer)
            /\ skipped + 11 \in 0..Len(buffer) /\ skipped + 12 \in 0..Len(buffer)
        BY <2>2, <2>5
      <4> HIDE DEF skipped, left, span, checksum, frame, data
      <4> QED
        BY <1>2, <1>3, <1>5, <2>2, <2>3, <2>5, <3>2, <4>1
    <3>3. CASE ~ (left - 12 < size)
      <4>1. /\ skipped + 2 \in 0..Len(buffer) /\ skipped + 8 \in 0..Len(buffer)
            /\ skipped + 11 \in 0..Len(buffer) /\ skipped + 12 \in 0..Len(buffer)
        BY <2>2, <2>5
      <4>2. CASE size < 11
        <5> HIDE DEF skipped, left, span, checksum, frame, data
        <5> QED
          BY <1>2, <1>3, <1>5, <2>2, <2>3, <2>5, <4>1, <4>2
      <4>3. CASE ~ (size < 11)
        <5>1. skipped + frame \in 0..Len(buffer)
          BY <2>2, <2>3, <3>1, <3>3, <4>3
        <5> DEFINE commas == /\ buffer[skipped + 2] = Comma /\ buffer[skipped + 8] = Comma
                             /\ buffer[skipped + 12] = Comma
        <5>2. CASE /\ commas /\ CalculateCrc32(span) = checksum
                   /\ names # {} /\ PacketSizes[name] = size
          <6>1. size = 15 /\ name = "ecu1_"
            <7>1. name \in DOMAIN PacketSizes
              BY <5>2 DEF name, names
            <7>2. DOMAIN PacketSizes = {"ecu1_"} /\ PacketSizes["ecu1_"] = 15
              BY DEF PacketSizes
            <7> QED
              BY <5>2, <7>1, <7>2
          <6>2. f = Framed(skipped + frame, name, data)
            <7> HIDE DEF skipped, left, span, checksum, frame, data
            <7> QED
              BY <1>3, <1>5, <2>2, <2>3, <2>5, <3>3, <4>1, <4>3, <5>2
          <6>3. /\ frame = 27 /\ skipped + frame = skipped + 27
                /\ skipped + frame - kPacketFooterLength = skipped + 16
                /\ skipped + frame - kPacketFooterLength + 2 = skipped + 18
                /\ skipped + frame - 2 = skipped + 25
                /\ skipped + kPacketHeaderLength + 1 = skipped + 13
                /\ first = skipped + 1
            BY <2>1, <2>2, <2>3, <6>1
          <6>4. /\ span = SubSeq(buffer, skipped + 1, skipped + 16)
                /\ checksum = SubSeq(buffer, skipped + 18, skipped + 25)
                /\ data = SubSeq(buffer, skipped + 13, skipped + 16)
            BY <6>3
          <6>5. skipped \in Nat /\ skipped + 27 <= Len(buffer)
            BY <2>2, <3>3, <6>1
          <6> HIDE DEF skipped, left, span, checksum, frame, data, names, name
          <6>6. PICK k \in 1..9 : \E c \in {Digit(k), Char("x")} :
                  /\ data = <<Digit(k), Comma, c, Comma>>
                  /\ Marks(buffer[skipped + 18], k)
            <7>1. CalculateCrc32(span) = checksum
              BY <5>2
            <7> QED
              BY <6>4, <6>5, <7>1, SpanFound
          <6>7. f.result = "framed" /\ f.used = skipped + 27 /\ f.data = data
            BY <6>2, <6>3 DEF Framed
          <6>8. skipped + 18 \in 1..skipped + 27 /\ skipped + 27 \in 0..Len(buffer)
            BY <6>5, <1>1
          <6> QED
            BY <6>6, <6>7, <6>8 DEF Good
        <5>3. CASE ~ (/\ commas /\ CalculateCrc32(span) = checksum
                      /\ names # {} /\ PacketSizes[name] = size)
          <6> HIDE DEF skipped, left, span, checksum, frame, data
          <6> QED
            BY <1>2, <1>3, <1>5, <2>2, <2>3, <2>5, <3>3, <4>1, <4>3, <5>1, <5>3
        <5> QED
          BY <5>2, <5>3
      <4> QED
        BY <4>2, <4>3
    <3> QED
      BY <3>2, <3>3
  <2> QED
    BY <2>4, <2>5
<1> QED
  BY <1>4, <1>5

-----------------------------------------------------------------------------
(* The data of a frame *)

LEMMA XIsNoDigit == ~ IsDigit(Char("x"), 10)
<1>1. ASSUME NEW d \in 0..10 - 1 PROVE Char("x") # Digit(d)
  <2>1. \A i \in 1..16 : Hexadecimal[i] # "x"
    BY DEF Hexadecimal
  <2>2. d + 1 \in 1..16
    OBVIOUS
  <2>3. \A x, y : <<x>> = <<y>> <=> x = y
    OBVIOUS
  <2> QED
    BY <2>1, <2>2, <2>3 DEF Digit, Char
<1> QED
  BY <1>1 DEF IsDigit

(* What an element of the packet reads. *)
LEMMA ElementRead ==
  ASSUME NEW k \in 1..9, NEW c \in {Digit(k), Char("x")}, NEW e \in {PacketElements[1], PacketElements[2]}
  PROVE  DecodeElement(e, <<c>>) = IF c = Digit(k) THEN Read(k) ELSE Refused
<1>1. e.kind = "uint" /\ e.type = uint8 /\ e.length = 1
  BY DEF PacketElements, UintElement
<1>2. DecodeElement(e, <<c>>) = ElementUintDecoder(uint8, 1, <<c>>)
  BY <1>1 DEF DecodeElement
<1>3. Len(<<c>>) = 1 /\ <<c>>[1] = c
  OBVIOUS
<1>4. CASE c = Digit(k)
  <2>1. k \in 0..15 /\ k \in 0..10 - 1
    OBVIOUS
  <2>2. c \in Plain /\ DigitValue(c) = k /\ IsDigit(c, 10)
    BY <1>4, <2>1, DigitIs DEF IsDigit
  <2> DEFINE text == <<c>>
  <2>3. text \in Seq(Chars) /\ Len(text) = 1 /\ text[1] = c
    BY <2>2 DEF Chars
  <2> HIDE DEF text
  <2>4. \A i \in 1..Len(text) : IsDigit(text[i], 10)
    BY <2>2, <2>3
  <2>5. Number(text, 10) = k
    BY <2>2, <2>3, <2>4, NumberIs
  <2>6. Cast(uint8, k) = k
    BY DEF Cast, uint8
  <2>7. ElementUintDecoder(uint8, 1, text) = Read(k)
    BY <2>3, <2>4, <2>5, <2>6 DEF ElementUintDecoder, AllDigits
  <2> QED
    BY <1>2, <1>4, <2>7 DEF text
<1>5. CASE c # Digit(k)
  <2>1. ~ AllDigits(<<c>>, 10)
    BY <1>3, <1>5, XIsNoDigit DEF AllDigits
  <2> QED
    BY <1>2, <1>5, <2>1 DEF ElementUintDecoder
<1> QED
  BY <1>4, <1>5

(* Up to the next comma. *)
LEMMA Pieces ==
  ASSUME NEW x \in Chars, NEW y \in Chars, x # Comma, y # Comma
  PROVE  /\ SubSeq(<<x, Comma, y, Comma>>, 1, 1) = <<x>>
         /\ SubSeq(<<x, Comma, y, Comma>>, 3, 4) = <<y, Comma>>
         /\ SubSeq(<<y, Comma>>, 1, 1) = <<y>>
<1>0. Comma \in Chars
  BY PlainChars DEF Chars
<1> DEFINE s == <<x, Comma, y, Comma>>
           t == <<y, Comma>>
<1>1. /\ s \in Seq(Chars) /\ Len(s) = 4 /\ s[1] = x /\ s[2] = Comma /\ s[3] = y /\ s[4] = Comma
      /\ t \in Seq(Chars) /\ Len(t) = 2 /\ t[1] = y /\ t[2] = Comma
  BY <1>0
<1> HIDE DEF s, t
<1>2. SubSeq(s, 1, 1) = <<x>>
  <2>1. SubSeq(s, 0 + 1, 1) \in Seq(Chars) /\ Len(SubSeq(s, 0 + 1, 1)) = 1 - 0
        /\ \A i \in 1..1 - 0 : SubSeq(s, 0 + 1, 1)[i] = s[0 + i]
    BY <1>1, Slice
  <2>2. 0 + 1 = 1 /\ 1 - 0 = 1 /\ 1 \in 1..1
    OBVIOUS
  <2> DEFINE r == SubSeq(s, 1, 1)
  <2>3. r \in Seq(Chars) /\ Len(r) = 1 /\ r[1] = s[1]
    BY <2>1, <2>2
  <2> HIDE DEF r
  <2>4. r = <<s[1]>>
    BY <2>3
  <2> QED
    BY <1>1, <2>4 DEF r
<1>3. SubSeq(s, 3, 4) = <<y, Comma>>
  <2>1. SubSeq(s, 2 + 1, 4) \in Seq(Chars) /\ Len(SubSeq(s, 2 + 1, 4)) = 4 - 2
        /\ \A i \in 1..4 - 2 : SubSeq(s, 2 + 1, 4)[i] = s[2 + i]
    BY <1>1, Slice
  <2>2. SubSeq(s, 3, 4) \in Seq(Chars) /\ Len(SubSeq(s, 3, 4)) = 2
        /\ SubSeq(s, 3, 4)[1] = s[3] /\ SubSeq(s, 3, 4)[2] = s[4]
    <3>1. 2 + 1 = 3 /\ 4 - 2 = 2 /\ 2 + 2 = 4 /\ 1 \in 1..4 - 2 /\ 2 \in 1..4 - 2
      OBVIOUS
    <3> QED
      BY <2>1, <3>1
  <2> DEFINE r == SubSeq(s, 3, 4)
  <2>3. r \in Seq(Chars) /\ Len(r) = 2 /\ r[1] = y /\ r[2] = Comma
    BY <1>1, <2>2
  <2> HIDE DEF r
  <2>4. r = <<y, Comma>>
    BY <2>3
  <2> QED
    BY <2>4 DEF r
<1>4. SubSeq(t, 1, 1) = <<y>>
  <2>1. SubSeq(t, 0 + 1, 1) \in Seq(Chars) /\ Len(SubSeq(t, 0 + 1, 1)) = 1 - 0
        /\ \A i \in 1..1 - 0 : SubSeq(t, 0 + 1, 1)[i] = t[0 + i]
    BY <1>1, Slice
  <2>2. 0 + 1 = 1 /\ 1 - 0 = 1 /\ 1 \in 1..1
    OBVIOUS
  <2> DEFINE r == SubSeq(t, 1, 1)
  <2>3. r \in Seq(Chars) /\ Len(r) = 1 /\ r[1] = t[1]
    BY <2>1, <2>2
  <2> HIDE DEF r
  <2>4. r = <<t[1]>>
    BY <2>3
  <2> QED
    BY <1>1, <2>4 DEF r
<1> QED
  BY <1>2, <1>3, <1>4 DEF s, t

(* One step of a data decoder. *)
DataStep(state, e) ==
  LET commas == {i \in 1..Len(state.rest) : state.rest[i] = Comma}
      comma == CHOOSE i \in commas : \A j \in commas : i <= j
      result == DecodeElement(e, SubSeq(state.rest, 1, comma - 1))
  IN  IF ~ state.ok THEN state
      ELSE IF commas = {} THEN [state EXCEPT !.ok = FALSE]
      ELSE IF ~ result.ok THEN [state EXCEPT !.ok = FALSE]
      ELSE [ok |-> TRUE,
            raw |-> Stored(state.raw, e.name, result.value),
            rest |-> SubSeq(state.rest, comma + 1, Len(state.rest))]

(* The data decoder reads the two elements of the packet in their order.    *)
LEMMA TwoSteps ==
  ASSUME NEW text, NEW values
  PROVE  DataDecode(PacketElements, text, values)
           = DataStep(DataStep([ok |-> TRUE, raw |-> values, rest |-> text],
                               PacketElements[1]), PacketElements[2])
<1> DEFINE base == [ok |-> TRUE, raw |-> values, rest |-> text]
           P == PacketElements
           v1 == DataStep(base, P[1])
           w2 == DataStep(base, P[2])
           v2 == DataStep(v1, P[2])
           D == 1..2
           iter == CHOOSE g : g = [s \in SUBSET D |->
                     IF s = {} THEN base ELSE DataStep(g[s \ {Max(s)}], P[Max(s)])]
           h == [s \in SUBSET D |-> IF s = {} THEN base ELSE IF s = {1} THEN v1
                                    ELSE IF s = {2} THEN w2 ELSE v2]
<1>1. DOMAIN P = D
  BY DEF PacketElements
<1>2. DataDecode(P, text, values) = iter[D]
  BY <1>1 DEF DataDecode, FoldLeft, MapThenFoldSet, DataStep
<1> HIDE DEF base, P, v1, w2, v2
<1>3. ASSUME NEW s \in SUBSET D
      PROVE  h[s] = IF s = {} THEN base ELSE DataStep(h[s \ {Max(s)}], P[Max(s)])
  <2>0. s = {} \/ s = {1} \/ s = {2} \/ s = {1, 2}
    <3>1. \A x \in s : x = 1 \/ x = 2
      OBVIOUS
    <3> QED
      BY <3>1
  <2>1. CASE 2 \in s
    <3>1. Max(s) = 2
      <4>1. 1 \in Nat /\ 1 + 1 = 2 /\ s \in SUBSET (1..1 + 1) /\ 1 + 1 \in s
        BY <2>1
      <4> QED
        BY <4>1, LargestAdded
    <3>3. s = {2} \/ s = {1, 2}
      BY <2>0, <2>1
    <3>2. s \ {2} = {} \/ s \ {2} = {1}
      BY <3>3
    <3>4. s # {} /\ s # {1} /\ (s = {2} <=> s \ {2} = {}) /\ {1} # {}
      BY <2>1, <3>3
    <3>5. {1} \in SUBSET D /\ {} \in SUBSET D
      OBVIOUS
    <3>6. h[{}] = base /\ h[{1}] = v1
      BY <3>4, <3>5
    <3>7. h[s] = IF s = {2} THEN w2 ELSE v2
      BY <3>4
    <3> HIDE DEF h
    <3>8. CASE s = {2}
      BY <3>1, <3>4, <3>6, <3>7, <3>8 DEF w2
    <3>9. CASE s # {2}
      BY <3>1, <3>2, <3>4, <3>6, <3>7, <3>9 DEF v2
    <3> QED
      BY <3>8, <3>9
  <2>2. CASE s = {1}
    <3>1. Max(s) = 1
      <4>1. 0 \in Nat /\ 0 + 1 = 1 /\ s \in SUBSET (1..0 + 1) /\ 0 + 1 \in s
        BY <2>2
      <4> QED
        BY <4>1, LargestAdded
    <3>2. s # {} /\ s \ {1} = {} /\ {} \in SUBSET D
      BY <2>2
    <3>3. h[{}] = base /\ h[s] = v1
      BY <2>2, <3>2
    <3> HIDE DEF h
    <3> QED
      BY <3>1, <3>2, <3>3 DEF v1
  <2>3. CASE s = {}
    BY <2>3
  <2> QED
    BY <2>0, <2>1, <2>2, <2>3
<1>4. h = [s \in SUBSET D |-> IF s = {} THEN base ELSE DataStep(h[s \ {Max(s)}], P[Max(s)])]
  <2>1. h = [s \in SUBSET D |-> h[s]]
    OBVIOUS
  <2> HIDE DEF h
  <2> QED
    BY <1>3, <2>1
<1>5. iter = [s \in SUBSET D |->
               IF s = {} THEN base ELSE DataStep(iter[s \ {Max(s)}], P[Max(s)])]
  <2> HIDE DEF h
  <2> QED
    BY <1>4
<1> HIDE DEF iter
<1>6. iter[{}] = base
  BY <1>5
<1>7. ASSUME NEW k \in D PROVE iter[1..k] = DataStep(iter[1..k - 1], P[k])
  <2>1. 2 \in Nat /\ k \in 1..2
    OBVIOUS
  <2>2. 1..k \in SUBSET D /\ 1..k # {} /\ Max(1..k) = k /\ (1..k) \ {k} = 1..k - 1
    BY <2>1, Prefix
  <2> QED
    BY <1>5, <2>2
<1>8. iter[1..1] = v1
  <2>1. 1 \in D /\ 1..1 - 1 = {}
    OBVIOUS
  <2> QED
    BY <1>6, <1>7, <2>1 DEF v1
<1>9. iter[D] = v2
  <2>1. 2 \in D /\ 2 - 1 = 1
    OBVIOUS
  <2>2. iter[1..2] = DataStep(iter[1..2 - 1], P[2])
    BY <1>7, <2>1
  <2> QED
    BY <1>8, <2>1, <2>2 DEF v2
<1> QED
  BY <1>2, <1>9 DEF v2, v1, base, P

(* What raw may hold, and the two equal values that frame k carries.        *)
Kept == [time_stamp : 0..9, electric_current : 0..9]
Pair(k) == [time_stamp |-> k, electric_current |-> k]

(* The values of a frame that is read whole; of one that fails at its second *)
(* element, the first stays in raw.                                         *)
LEMMA DataDecoded ==
  ASSUME NEW k \in 1..9, NEW c \in {Digit(k), Char("x")}, NEW values \in Kept
  PROVE  LET decoded == DataDecode(PacketElements, <<Digit(k), Comma, c, Comma>>, values)
         IN  /\ decoded.ok \in BOOLEAN
             /\ decoded.ok => decoded.raw = Pair(k)
             /\ decoded.raw = [values EXCEPT !.time_stamp = k] \/ decoded.raw = Pair(k)
<1> DEFINE d == Digit(k)
           t == <<c, Comma>>
           s == <<d, Comma, c, Comma>>
           base == [ok |-> TRUE, raw |-> values, rest |-> s]
           E1 == PacketElements[1]
           E2 == PacketElements[2]
           one == [ok |-> TRUE, raw |-> Stored(values, "time_stamp", k), rest |-> t]
<1>1. /\ d \in Chars /\ d # Comma /\ c \in Chars /\ c # Comma
  <2>1. k \in 0..15
    OBVIOUS
  <2>2. Char("x") \in Plain /\ Char("x") # Comma
    <3>1. \A x, y : <<x>> = <<y>> <=> x = y
      OBVIOUS
    <3> QED
      BY <3>1, PlainChars DEF Char, Comma
  <2> QED
    BY <2>1, <2>2, DigitIs DEF Chars
<1>2. E1.name = "time_stamp" /\ E2.name = "electric_current"
  BY DEF PacketElements, UintElement
<1>3. /\ DecodeElement(E1, <<d>>) = Read(k)
      /\ DecodeElement(E2, <<c>>) = IF c = d THEN Read(k) ELSE Refused
  BY ElementRead
<1>4. /\ SubSeq(s, 1, 1) = <<d>> /\ SubSeq(s, 3, 4) = t /\ SubSeq(t, 1, 1) = <<c>>
  BY <1>1, Pieces
<1>5. /\ Len(s) = 4 /\ s[1] = d /\ s[2] = Comma /\ s[3] = c /\ s[4] = Comma
      /\ Len(t) = 2 /\ t[1] = c /\ t[2] = Comma
  OBVIOUS
<1>6. DataDecode(PacketElements, s, values) = DataStep(DataStep(base, E1), E2)
  BY TwoSteps
<1> HIDE DEF s, t, E1, E2, d
<1>7. DataStep(base, E1) = one
  <2> DEFINE commas == {i \in 1..Len(s) : s[i] = Comma}
             comma == CHOOSE i \in commas : \A j \in commas : i <= j
  <2>1. commas = {2, 4}
    BY <1>1, <1>5
  <2>2. comma = 2 /\ commas # {} /\ comma - 1 = 1 /\ comma + 1 = 3
    <3> HIDE DEF commas
    <3>1. 2 \in commas /\ \A j \in commas : 2 <= j
      BY <2>1
    <3>2. \A i \in commas : (\A j \in commas : i <= j) => i = 2
      BY <2>1
    <3>3. comma = 2
      BY <3>1, <3>2
    <3> QED
      BY <2>1, <3>3
  <2>3. DataStep(base, E1) =
          LET result == DecodeElement(E1, SubSeq(s, 1, comma - 1))
          IN  IF commas = {} THEN [base EXCEPT !.ok = FALSE]
              ELSE IF ~ result.ok THEN [base EXCEPT !.ok = FALSE]
              ELSE [ok |-> TRUE, raw |-> Stored(values, E1.name, result.value),
                    rest |-> SubSeq(s, comma + 1, Len(s))]
    BY DEF DataStep
  <2> HIDE DEF commas, comma, base
  <2>4. Read(k).ok = TRUE /\ Read(k).value = k
    BY DEF Read
  <2> QED
    BY <1>2, <1>3, <1>4, <1>5, <2>2, <2>3, <2>4
<1>8. DataStep(one, E2) =
        IF c = d THEN [ok |-> TRUE, raw |-> Stored(one.raw, "electric_current", k),
                       rest |-> SubSeq(t, 3, 2)]
        ELSE [one EXCEPT !.ok = FALSE]
  <2> DEFINE commas == {i \in 1..Len(t) : t[i] = Comma}
             comma == CHOOSE i \in commas : \A j \in commas : i <= j
  <2>1. commas = {2}
    BY <1>1, <1>5
  <2>2. comma = 2 /\ commas # {} /\ comma - 1 = 1 /\ comma + 1 = 3
    <3> HIDE DEF commas
    <3>1. comma = 2
      BY <2>1
    <3> QED
      BY <2>1, <3>1
  <2>3. DataStep(one, E2) =
          LET result == DecodeElement(E2, SubSeq(t, 1, comma - 1))
          IN  IF commas = {} THEN [one EXCEPT !.ok = FALSE]
              ELSE IF ~ result.ok THEN [one EXCEPT !.ok = FALSE]
              ELSE [ok |-> TRUE, raw |-> Stored(one.raw, E2.name, result.value),
                    rest |-> SubSeq(t, comma + 1, Len(t))]
    BY DEF DataStep
  <2> HIDE DEF commas, comma, one
  <2>4. Read(k).ok = TRUE /\ Read(k).value = k /\ Refused.ok = FALSE
    BY DEF Read, Refused
  <2>5. DecodeElement(E2, SubSeq(t, 1, comma - 1)) = IF c = d THEN Read(k) ELSE Refused
    BY <1>3, <1>4, <2>2
  <2>6. CASE c = d
    BY <1>2, <1>5, <2>2, <2>3, <2>4, <2>5, <2>6
  <2>7. CASE c # d
    BY <2>2, <2>3, <2>4, <2>5, <2>7
  <2> QED
    BY <2>6, <2>7
<1>9. /\ one.raw = [values EXCEPT !.time_stamp = k]
      /\ Stored(one.raw, "electric_current", k) = Pair(k)
  <2> DEFINE first == Stored(values, "time_stamp", k)
             second == Stored(first, "electric_current", k)
             fields == {"time_stamp", "electric_current"}
  <2>1. DOMAIN values = fields /\ values = [n \in fields |-> values[n]]
    BY DEF Kept
  <2>2. first = [n \in fields |-> IF n = "time_stamp" THEN k ELSE values[n]]
    BY <2>1 DEF Stored
  <2>3. second = [n \in fields |-> IF n = "electric_current" THEN k ELSE first[n]]
    <3>1. DOMAIN first \cup {"electric_current"} = fields
      BY <2>2
    <3> HIDE DEF first
    <3> QED
      BY <3>1 DEF Stored
  <2>4. first = [values EXCEPT !.time_stamp = k]
    BY <2>1, <2>2
  <2>5. second = Pair(k)
    <3>1. second = [n \in fields |-> k]
      <4> HIDE DEF second, first
      <4> QED
        BY <2>2, <2>3
    <3> QED
      BY <3>1 DEF Pair
  <2> QED
    BY <2>4, <2>5
<1> HIDE DEF base, one
<1>10. DataDecode(PacketElements, s, values) = DataStep(one, E2)
  BY <1>6, <1>7
<1> DEFINE decoded == DataDecode(PacketElements, s, values)
<1>11. ASSUME c = d PROVE decoded.ok = TRUE /\ decoded.raw = Pair(k)
  <2>1. decoded = [ok |-> TRUE, raw |-> Pair(k), rest |-> SubSeq(t, 3, 2)]
    BY <1>8, <1>9, <1>10, <1>11
  <2> HIDE DEF decoded
  <2> QED
    BY <2>1
<1>12. ASSUME c # d
       PROVE  decoded.ok = FALSE /\ decoded.raw = [values EXCEPT !.time_stamp = k]
  <2>1. decoded = [one EXCEPT !.ok = FALSE]
    BY <1>8, <1>10, <1>12
  <2>2. one.raw = [values EXCEPT !.time_stamp = k]
    BY <1>9
  <2>3. [one EXCEPT !.ok = FALSE].ok = FALSE /\ [one EXCEPT !.ok = FALSE].raw = one.raw
    BY DEF one
  <2> HIDE DEF decoded
  <2> QED
    BY <2>1, <2>2, <2>3
<1>13. /\ decoded.ok \in BOOLEAN
       /\ decoded.ok => decoded.raw = Pair(k)
       /\ decoded.raw = [values EXCEPT !.time_stamp = k] \/ decoded.raw = Pair(k)
  <2>1. \/ decoded.ok = TRUE /\ decoded.raw = Pair(k)
        \/ decoded.ok = FALSE /\ decoded.raw = [values EXCEPT !.time_stamp = k]
    BY <1>11, <1>12
  <2> HIDE DEF decoded
  <2> QED
    BY <2>1
<1> QED
  BY <1>13 DEF decoded, s, d

-----------------------------------------------------------------------------
(* The values the decoder takes *)

(* The values of the frames, and what raw may hold besides.                 *)
Pairs == {Pair(k) : k \in 1..MaxFrames}
Raws == [time_stamp : 0..MaxFrames, electric_current : 0..MaxFrames]

(* The number of the frame taken last.                                      *)
Newest(taken) == IF taken = <<>> THEN 0 ELSE taken[Len(taken)].time_stamp

(* taken are the values of frames in their order, and newest the last.      *)
InOrder(taken, newest) ==
  /\ taken \in Seq(Pairs)
  /\ \A i \in 1..Len(taken) : \A j \in 1..i - 1 : taken[j].time_stamp < taken[i].time_stamp
  /\ taken # <<>> => newest = taken[Len(taken)]

(* No frame taken is newer than the last.                                   *)
LEMMA NewestIs ==
  ASSUME NEW taken, NEW newest, InOrder(taken, newest)
  PROVE  /\ Newest(taken) \in Nat
         /\ \A i \in 1..Len(taken) : taken[i].time_stamp <= Newest(taken)
<1> DEFINE n == Len(taken)
<1>1. /\ n \in Nat /\ taken \in Seq(Pairs) /\ \A i \in 1..n : taken[i] \in Pairs
  BY LenProperties, ElementOfSeq DEF InOrder
<1>2. ASSUME NEW i \in 1..n PROVE taken[i].time_stamp \in Nat
  <2>1. PICK k \in 1..MaxFrames : taken[i] = Pair(k)
    BY <1>1 DEF Pairs
  <2> QED
    BY <2>1, BoundsAssumption DEF Pair
<1>3. CASE taken = <<>>
  <2>1. n = 0 /\ 1..n = {}
    BY <1>3
  <2> QED
    BY <1>3, <2>1 DEF Newest
<1>4. CASE taken # <<>>
  <2>1. n \in 1..n /\ Newest(taken) = taken[n].time_stamp
    BY <1>1, <1>4, EmptySeq DEF Newest
  <2>2. ASSUME NEW i \in 1..n PROVE taken[i].time_stamp <= taken[n].time_stamp
    <3>1. CASE i = n
      BY <1>2, <3>1
    <3>2. CASE i # n
      <4>1. i \in 1..n - 1
        BY <1>1, <3>2
      <4>2. taken[i].time_stamp < taken[n].time_stamp
        BY <2>1, <4>1 DEF InOrder
      <4> QED
        BY <1>2, <2>1, <4>2
    <3> QED
      BY <3>1, <3>2
  <2> QED
    BY <1>2, <2>1, <2>2
<1> QED
  BY <1>3, <1>4

(* A newer frame can be taken after those taken.                            *)
LEMMA TakenOneMore ==
  ASSUME NEW taken, NEW newest, InOrder(taken, newest), NEW k \in 1..MaxFrames, Newest(taken) < k
  PROVE  /\ InOrder(Append(taken, Pair(k)), Pair(k))
         /\ Newest(Append(taken, Pair(k))) = k
<1> DEFINE n == Len(taken)
           more == Append(taken, Pair(k))
<1>1. /\ n \in Nat /\ taken \in Seq(Pairs) /\ Pair(k) \in Pairs /\ Pair(k).time_stamp = k
      /\ k \in Nat
  BY LenProperties, BoundsAssumption DEF InOrder, Pairs, Pair
<1>2. /\ more \in Seq(Pairs) /\ more # <<>> /\ Len(more) = n + 1
      /\ \A i \in 1..n : more[i] = taken[i]
      /\ more[n + 1] = Pair(k)
  BY <1>1, AppendProperties
<1> HIDE DEF more
<1>3. Newest(more) = k
  BY <1>1, <1>2 DEF Newest
<1>4. ASSUME NEW i \in 1..n + 1, NEW j \in 1..i - 1 PROVE more[j].time_stamp < more[i].time_stamp
  <2>1. j \in 1..n /\ more[j] = taken[j]
    BY <1>1, <1>2
  <2>2. CASE i = n + 1
    <3>1. taken[j].time_stamp <= Newest(taken) /\ Newest(taken) \in Nat
      BY <2>1, NewestIs
    <3>2. taken[j].time_stamp \in Int
      <4>1. taken[j] \in Pairs
        BY <1>1, <2>1, ElementOfSeq
      <4> QED
        BY <4>1, BoundsAssumption DEF Pairs, Pair
    <3>3. \A a, b \in Int : a <= b /\ b < k => a < k
      BY <1>1
    <3>4. taken[j].time_stamp < k
      BY <3>1, <3>2, <3>3
    <3> QED
      BY <1>1, <1>2, <2>1, <2>2, <3>4
  <2>3. CASE i # n + 1
    <3>1. i \in 1..n /\ more[i] = taken[i]
      BY <1>1, <1>2, <2>3
    <3>2. taken[j].time_stamp < taken[i].time_stamp
      BY <3>1 DEF InOrder
    <3> QED
      BY <2>1, <3>1, <3>2
  <2> QED
    BY <2>2, <2>3
<1>5. InOrder(more, Pair(k))
  BY <1>2, <1>4 DEF InOrder
<1> QED
  BY <1>3, <1>5 DEF more

-----------------------------------------------------------------------------
(* The decode loop, with taken what was taken before it, right what is on   *)
(* the line after the buffer, hi the last frame sent and room the length of *)
(* the buffer it starts with.                                               *)
Sound(taken, right, hi, room) ==
  {state \in [rest : Seq(Chars), raw : Raws, out : Pairs \cup {<<>>}, updates : Seq(Pairs),
              error : BOOLEAN, done : BOOLEAN] :
     /\ Len(state.rest) <= room
     /\ InOrder(taken \o state.updates, state.out)
     /\ Newest(taken \o state.updates) <= hi
     /\ Stream(state.rest \o right, Newest(taken \o state.updates), hi)}

(* Whatever the buffer holds, a step of the loop keeps this.                *)
LEMMA StepIsSound ==
  ASSUME NEW taken \in Seq(Pairs), NEW right \in Seq(Chars), NEW hi \in 0..MaxFrames,
         NEW room \in Nat, NEW state \in Sound(taken, right, hi, room)
  PROVE  DecodeStep(state) \in Sound(taken, right, hi, room)
<1> DEFINE f == FrameDecode(state.rest, PacketSizes)
           moved == [state EXCEPT !.rest = SubSeq(@, f.used + 1, Len(@))]
           lo == Newest(taken \o state.updates)
           rest == SubSeq(state.rest, f.used + 1, Len(state.rest))
           States == [rest : Seq(Chars), raw : Raws, out : Pairs \cup {<<>>},
                      updates : Seq(Pairs), error : BOOLEAN, done : BOOLEAN]
<1>1. /\ state \in States
      /\ Len(state.rest) <= room
      /\ InOrder(taken \o state.updates, state.out)
      /\ lo <= hi
      /\ Stream(state.rest \o right, lo, hi)
  BY DEF Sound
<1>2. /\ state.rest \in Seq(Chars) /\ state.raw \in Raws /\ state.updates \in Seq(Pairs)
      /\ state.out \in Pairs \cup {<<>>} /\ state.error \in BOOLEAN /\ state.done \in BOOLEAN
  BY <1>1
<1>3. lo \in Nat
  BY <1>1, NewestIs
<1>4. CASE state.done
  BY <1>4 DEF DecodeStep
<1>5. CASE ~ state.done
  <2>1. /\ f.result \in {"result_out_of_range", "protocol_error", "framed"}
        /\ f.used \in 0..Len(state.rest)
        /\ f.result = "framed" =>
             \E k \in 1..9 : \E c \in {Digit(k), Char("x")} :
               /\ f.data = <<Digit(k), Comma, c, Comma>>
               /\ \E p \in 1..f.used : Marks(state.rest[p], k)
    BY <1>2, FrameDecoded
  <2>2. DecodeStep(state) =
          CASE f.result = "result_out_of_range" -> [moved EXCEPT !.done = TRUE]
            [] f.result = "protocol_error" -> [moved EXCEPT !.error = TRUE]
            [] f.result = "framed" ->
                 Store(moved, DataDecode(PacketElements, f.data, state.raw))
    BY <1>5 DEF DecodeStep, Advance
  <2> HIDE DEF f
  <2>3. rest \in Seq(Chars) /\ Len(rest) <= room
    <3>1. /\ Len(state.rest) \in Nat /\ f.used \in Nat /\ f.used <= Len(state.rest)
          /\ Len(state.rest) <= Len(state.rest)
      BY <1>2, <2>1, LenProperties
    <3> DEFINE s == state.rest
               u == f.used
    <3>2. s \in Seq(Chars) /\ u \in Nat /\ Len(s) \in Nat /\ u <= Len(s) /\ Len(s) <= room
      BY <1>1, <1>2, <3>1
    <3>3. rest = SubSeq(s, u + 1, Len(s))
      OBVIOUS
    <3> HIDE DEF s, u, rest
    <3>4. SubSeq(s, u + 1, Len(s)) \in Seq(Chars) /\ Len(SubSeq(s, u + 1, Len(s))) = Len(s) - u
      BY <3>2, Slice
    <3> QED
      BY <3>2, <3>3, <3>4
  <2>4. moved = [state EXCEPT !.rest = rest]
    OBVIOUS
  <2> HIDE DEF rest, moved
  <2>5. /\ moved \in States /\ moved.rest = rest /\ moved.raw = state.raw /\ moved.out = state.out
        /\ moved.updates = state.updates
    BY <1>1, <2>3, <2>4
  <2>6. Stream(rest \o right, lo, hi)
    <3>1. Stream(SubSeq(state.rest, f.used + 1, Len(state.rest)) \o right, lo, hi)
      BY <1>1, <1>2, <1>3, <2>1, StreamMoves
    <3> QED
      BY <3>1 DEF rest
  <2>7. CASE f.result \in {"result_out_of_range", "protocol_error"}
    <3>1. PICK new \in {[moved EXCEPT !.done = TRUE], [moved EXCEPT !.error = TRUE]} :
            DecodeStep(state) = new
      BY <2>2, <2>7
    <3>2. /\ new \in States /\ new.rest = rest /\ new.out = state.out
          /\ new.updates = state.updates
      BY <2>5
    <3>3. new \in Sound(taken, right, hi, room)
      BY <1>1, <2>3, <2>6, <3>2 DEF Sound
    <3> QED
      BY <3>1, <3>3
  <2>8. CASE f.result = "framed"
    <3>1. PICK k \in 1..9 : \E c \in {Digit(k), Char("x")} :
               /\ f.data = <<Digit(k), Comma, c, Comma>>
               /\ \E p \in 1..f.used : Marks(state.rest[p], k)
      BY <2>1, <2>8
    <3>2. PICK c \in {Digit(k), Char("x")} : f.data = <<Digit(k), Comma, c, Comma>>
      BY <3>1
    <3> DEFINE decoded == DataDecode(PacketElements, f.data, state.raw)
               new == Store(moved, decoded)
    <3>3. /\ Stream(SubSeq(state.rest, f.used + 1, Len(state.rest)) \o right, k, hi)
          /\ k # lo => lo < k /\ k <= hi
      BY <1>1, <1>2, <1>3, <2>1, <3>1, StreamMoves
    <3>4. Stream(rest \o right, k, hi)
      BY <3>3 DEF rest
    <3>5. lo < k /\ k <= hi /\ k \in 1..MaxFrames
      <4>1. PICK p \in 1..f.used : Marks(state.rest[p], k)
        BY <3>1
      <4> DEFINE all == state.rest \o right
      <4>2. /\ all \in Seq(Chars) /\ Len(all) = Len(state.rest) + Len(right)
            /\ \A i \in 1..Len(state.rest) + Len(right) :
                 all[i] = IF i <= Len(state.rest) THEN state.rest[i] ELSE right[i - Len(state.rest)]
        <5> DEFINE s == state.rest
        <5>1. s \in Seq(Chars)
          BY <1>2
        <5> HIDE DEF s
        <5>2. /\ s \o right \in Seq(Chars) /\ Len(s \o right) = Len(s) + Len(right)
              /\ \A i \in 1..Len(s) + Len(right) :
                   (s \o right)[i] = IF i <= Len(s) THEN s[i] ELSE right[i - Len(s)]
          BY <5>1, ConcatProperties
        <5> QED
          BY <5>2 DEF s
      <4>3. p \in 1..Len(all) /\ all[p] = state.rest[p]
        <5>1. Len(state.rest) \in Nat /\ Len(right) \in Nat
          BY <1>2, LenProperties
        <5>2. p \in 1..Len(state.rest) + Len(right) /\ p <= Len(state.rest)
          BY <2>1, <5>1
        <5> HIDE DEF all
        <5> QED
          BY <4>2, <5>2
      <4>4. Stream(all, lo, hi)
        BY <1>1
      <4> HIDE DEF all
      <4>5. lo < k /\ k <= hi
        BY <4>1, <4>3, <4>4 DEF Stream
      <4> QED
        BY <4>5, BoundsAssumption
    <3>6. /\ decoded.ok \in BOOLEAN
          /\ decoded.ok => decoded.raw = Pair(k)
          /\ decoded.raw = [state.raw EXCEPT !.time_stamp = k] \/ decoded.raw = Pair(k)
      <4> DEFINE v == state.raw
      <4>1. v \in Kept
        <5>1. 0..MaxFrames \subseteq 0..9
          BY BoundsAssumption
        <5> QED
          BY <1>2, <5>1 DEF Kept, Raws
      <4>2. decoded = DataDecode(PacketElements, <<Digit(k), Comma, c, Comma>>, v)
        BY <3>2
      <4> HIDE DEF v, decoded
      <4>3. /\ decoded.ok \in BOOLEAN
            /\ decoded.ok => decoded.raw = Pair(k)
            /\ decoded.raw = [v EXCEPT !.time_stamp = k] \/ decoded.raw = Pair(k)
        BY <4>1, <4>2, DataDecoded
      <4> QED
        BY <4>3 DEF v
    <3>7. DecodeStep(state) = new
      BY <2>2, <2>8
    <3>8. decoded.raw \in Raws /\ Pair(k) \in Pairs
      <4>1. k \in 0..MaxFrames
        BY <3>5
      <4>2. Pair(k) \in Raws /\ [state.raw EXCEPT !.time_stamp = k] \in Raws
        BY <1>2, <4>1 DEF Raws, Pair
      <4> QED
        BY <3>5, <3>6, <4>2 DEF Pairs
    <3> HIDE DEF decoded, lo
    <3>9. CASE decoded.ok
      <4>1. new = [moved EXCEPT !.raw = decoded.raw, !.out = Pair(k),
                                !.updates = Append(moved.updates, Pair(k)),
                                !.error = moved.error \/ ~ decoded.ok]
        BY <3>6, <3>9 DEF Store
      <4>2. Append(state.updates, Pair(k)) \in Seq(Pairs)
        BY <1>2, <3>8, AppendProperties
      <4>3. /\ new \in States /\ new.rest = rest /\ new.out = Pair(k)
            /\ new.updates = Append(state.updates, Pair(k))
        <5>1. (moved.error \/ ~ decoded.ok) \in BOOLEAN
          OBVIOUS
        <5> HIDE DEF new
        <5> QED
          BY <2>5, <3>8, <4>1, <4>2, <5>1
      <4>4. taken \o Append(state.updates, Pair(k)) = Append(taken \o state.updates, Pair(k))
        <5> DEFINE u == state.updates
                   x == Pair(k)
                   one == <<x>>
        <5>1. u \in Seq(Pairs) /\ x \in Pairs /\ one \in Seq(Pairs) /\ taken \o u \in Seq(Pairs)
          BY <1>2, <3>8, ConcatProperties
        <5> HIDE DEF u, x
        <5>2. Append(u, x) = u \o one /\ Append(taken \o u, x) = (taken \o u) \o one
          BY <5>1, AppendIsConcat
        <5> HIDE DEF one
        <5>3. (taken \o u) \o one = taken \o (u \o one)
          BY <5>1, ConcatAssociative
        <5> QED
          BY <5>2, <5>3 DEF u, x
      <4>5. /\ InOrder(taken \o new.updates, new.out)
            /\ Newest(taken \o new.updates) = k
        <5> HIDE DEF new
        <5> QED
          BY <1>1, <3>5, <4>3, <4>4, TakenOneMore DEF lo
      <4> HIDE DEF new
      <4> QED
        BY <2>3, <3>4, <3>5, <3>7, <4>3, <4>5 DEF Sound
    <3>10. CASE ~ decoded.ok
      <4>1. new = [moved EXCEPT !.raw = decoded.raw, !.out = moved.out, !.updates = moved.updates,
                                !.error = moved.error \/ ~ decoded.ok]
        BY <3>10 DEF Store
      <4>2. /\ new \in States /\ new.rest = rest /\ new.out = state.out
            /\ new.updates = state.updates
        <5>1. (moved.error \/ ~ decoded.ok) \in BOOLEAN
          OBVIOUS
        <5> HIDE DEF new
        <5> QED
          BY <2>5, <3>8, <4>1, <5>1
      <4> HIDE DEF new
      <4> QED
        BY <1>1, <2>3, <2>6, <3>7, <4>2 DEF Sound, lo
    <3> QED
      BY <3>9, <3>10
  <2> QED
    BY <2>1, <2>7, <2>8
<1> QED
  BY <1>4, <1>5

(* And so does the whole loop.                                              *)
LEMMA AllIsSound ==
  ASSUME NEW taken \in Seq(Pairs), NEW right \in Seq(Chars), NEW hi \in 0..MaxFrames,
         NEW buffer \in Seq(Chars),
         raw \in Raws, out \in Pairs \cup {<<>>}, InOrder(taken, out), Newest(taken) <= hi,
         Stream(buffer \o right, Newest(taken), hi)
  PROVE  DecodeAll(buffer) \in Sound(taken, right, hi, Len(buffer))
<1> DEFINE S == Sound(taken, right, hi, Len(buffer))
           n == Len(buffer) \div 2 + 1
           D == 1..n
           base == Start(buffer)
           seq == [i \in D |-> i]
           iter == CHOOSE g : g = [s \in SUBSET D |->
                     IF s = {} THEN base ELSE DecodeStep(g[s \ {Max(s)}])]
<1>1. Len(buffer) \in Nat /\ n \in Nat /\ DOMAIN seq = D
  BY LenProperties
<1>2. DecodeAll(buffer) = iter[D]
  BY <1>1 DEF DecodeAll, FoldLeft, MapThenFoldSet
<1>3. base \in S
  <2>1. /\ base \in [rest : Seq(Chars), raw : Raws, out : Pairs \cup {<<>>}, updates : Seq(Pairs),
                     error : BOOLEAN, done : BOOLEAN]
        /\ base.rest = buffer /\ base.out = out /\ base.updates = <<>>
    BY DEF Start
  <2>2. taken \o base.updates = taken
    BY <2>1, ConcatEmptySeq
  <2> HIDE DEF base
  <2>3. Len(base.rest) <= Len(buffer)
    BY <1>1, <2>1
  <2> QED
    BY <2>1, <2>2, <2>3 DEF Sound
<1>4. ASSUME NEW state \in S PROVE DecodeStep(state) \in S
  BY <1>1, StepIsSound
<1> HIDE DEF S, n, base
<1>5. \E g : g = [s \in SUBSET D |-> IF s = {} THEN base ELSE DecodeStep(g[s \ {Max(s)}])]
  <2> DEFINE F == [p \in S \X D |-> DecodeStep(p[1])]
  <2>1. F \in [S \X (1..n) -> S]
    <3>1. \A p \in S \X D : p[1] \in S
      OBVIOUS
    <3> QED
      BY <1>4, <3>1
  <2>2. PICK g : /\ IsFold(g, n, base, F)
                 /\ \A s \in SUBSET (1..n) : g[s] \in S /\ (s = {} \/ Max(s) \in s)
    <3> HIDE DEF F
    <3>1. n \in Nat /\ base \in S /\ F \in [S \X (1..n) -> S]
      BY <1>1, <1>3, <2>1
    <3>2. \E g : /\ IsFold(g, n, base, F)
                 /\ \A s \in SUBSET (1..n) : g[s] \in S /\ (s = {} \/ Max(s) \in s)
      BY <3>1, FoldExists
    <3> QED
      BY <3>2
  <2>3. ASSUME NEW s \in SUBSET D, s # {}
        PROVE  F[<<g[s \ {Max(s)}], Max(s)>>] = DecodeStep(g[s \ {Max(s)}])
    <3>1. s \ {Max(s)} \in SUBSET D /\ Max(s) \in D
      BY <2>2, <2>3
    <3>2. <<g[s \ {Max(s)}], Max(s)>> \in S \X D
      BY <2>2, <3>1
    <3> QED
      BY <3>2
  <2> HIDE DEF F
  <2>4. g = [s \in SUBSET D |-> IF s = {} THEN base ELSE F[<<g[s \ {Max(s)}], Max(s)>>]]
    BY <2>2 DEF IsFold
  <2>5. g = [s \in SUBSET D |-> IF s = {} THEN base ELSE DecodeStep(g[s \ {Max(s)}])]
    BY <2>3, <2>4
  <2> QED
    BY <2>5
<1>6. iter = [s \in SUBSET D |-> IF s = {} THEN base ELSE DecodeStep(iter[s \ {Max(s)}])]
  BY <1>5
<1> HIDE DEF iter
<1>7. iter[{}] \in S
  BY <1>3, <1>6
<1>8. ASSUME NEW k \in 1..n, iter[1..k - 1] \in S PROVE iter[1..k] \in S
  <2>1. 1..k \in SUBSET D /\ 1..k # {} /\ Max(1..k) = k /\ (1..k) \ {k} = 1..k - 1
    BY <1>1, Prefix
  <2>2. iter[1..k] = DecodeStep(iter[1..k - 1])
    BY <1>6, <2>1
  <2> QED
    BY <1>4, <1>8, <2>2
<1>9. iter[1..n] \in S
  BY <1>1, <1>7, <1>8, FoldKeeps
<1> QED
  BY <1>2, <1>9 DEF S

-----------------------------------------------------------------------------
(* The receiving half *)

(* Beside the types: the values taken are those of frames in their order,   *)
(* and the frames whose marks are still to be read come after them.         *)
ReceiveInv ==
  /\ receive_buffer_ \in Seq(Chars) /\ Len(receive_buffer_) <= kBufferSize
  /\ line \in Seq(Chars)
  /\ raw \in Raws
  /\ out \in Pairs \cup {<<>>}
  /\ error \in BOOLEAN
  /\ sent \in Seq([whole : BOOLEAN, end : Nat, until : Nat]) /\ Len(sent) <= MaxFrames
  /\ InOrder(accepted, out)
  /\ Newest(accepted) <= Len(sent)
  /\ Stream(receive_buffer_ \o line, Newest(accepted), Len(sent))

LEMMA ReceiveInvInit == Init => ReceiveInv
<1> SUFFICES ASSUME Init PROVE ReceiveInv
  OBVIOUS
<1>1. /\ receive_buffer_ = <<>> /\ line = <<>> /\ raw = NotInitialised /\ out = <<>>
      /\ error = FALSE /\ sent = <<>> /\ accepted = <<>>
  BY DEF Init
<1>2. Len(<<>>) = 0 /\ \A S : <<>> \in Seq(S)
  OBVIOUS
<1>3. raw \in Raws
  BY <1>1, BoundsAssumption DEF NotInitialised, Raws
<1>4. InOrder(accepted, out) /\ Newest(accepted) = 0
  BY <1>1, <1>2 DEF InOrder, Newest
<1>5. <<>> \o <<>> = <<>>
  <2>1. <<>> \in Seq(Chars)
    BY <1>2
  <2> QED
    BY <2>1, ConcatEmptySeq
<1>6. Stream(receive_buffer_ \o line, 0, 0)
  BY <1>1, <1>2, <1>5 DEF Stream
<1>7. MaxFrames \in Nat /\ kBufferSize \in Nat /\ FALSE \in BOOLEAN
  BY BoundsAssumption
<1>8. /\ receive_buffer_ \in Seq(Chars) /\ line \in Seq(Chars)
      /\ sent \in Seq([whole : BOOLEAN, end : Nat, until : Nat])
      /\ Len(receive_buffer_) = 0 /\ Len(sent) = 0
  BY <1>1, <1>2
<1>9. Stream(receive_buffer_ \o line, Newest(accepted), Len(sent)) /\ Newest(accepted) <= Len(sent)
  BY <1>4, <1>6, <1>8
<1>10. out \in Pairs \cup {<<>>} /\ error \in BOOLEAN
  BY <1>1
<1>11. Len(receive_buffer_) <= kBufferSize /\ Len(sent) <= MaxFrames
  <2>1. 0 <= kBufferSize /\ 0 <= MaxFrames
    BY <1>7
  <2> QED
    BY <1>8, <2>1
<1> QED
  BY <1>3, <1>4, <1>8, <1>9, <1>10, <1>11 DEF ReceiveInv

LEMMA EcuSendsKeeps == ReceiveInv /\ EcuSends => ReceiveInv'
<1> SUFFICES ASSUME ReceiveInv, EcuSends PROVE ReceiveInv'
  OBVIOUS
<1> DEFINE k == Len(sent) + 1
           frame == Frame("ecu1_", Body(k))
<1>1. PICK text \in Texts(k) :
        /\ line' = line \o text
        /\ sent' = Append(sent, [whole |-> text = frame, end |-> SentSoFar + Len(text),
                                 until |-> SentSoFar + Len(text) + Reach(text)])
  BY DEF EcuSends, Texts
<1>2. /\ UNCHANGED <<receive_buffer_, raw, out, accepted, error>>
      /\ Len(sent) < MaxFrames
  BY DEF EcuSends
<1>3. Len(sent) \in Nat /\ k \in 1..9 /\ k <= MaxFrames
  <2>1. Len(sent) \in Nat
    BY LenProperties DEF ReceiveInv
  <2>2. MaxFrames \in 1..9
    BY BoundsAssumption
  <2> QED
    BY <1>2, <2>1, <2>2
<1>4. Once(text, k)
  BY <1>3, TextIsOnce
<1>5. text \in Seq(Chars) /\ Len(text) \in Nat
  BY <1>4, LenProperties DEF Once
<1>6. SentSoFar \in Nat
  <2>1. CASE sent = <<>>
    BY <2>1 DEF SentSoFar
  <2>2. CASE sent # <<>>
    <3>1. Len(sent) \in 1..Len(sent)
      BY <1>3, <2>2, EmptySeq DEF ReceiveInv
    <3>2. sent[Len(sent)] \in [whole : BOOLEAN, end : Nat, until : Nat]
      BY <3>1, ElementOfSeq DEF ReceiveInv
    <3> QED
      BY <2>2, <3>2 DEF SentSoFar
  <2> QED
    BY <2>1, <2>2
<1>7. sent' \in Seq([whole : BOOLEAN, end : Nat, until : Nat]) /\ Len(sent') = k
  <2> DEFINE record == [whole |-> text = frame, end |-> SentSoFar + Len(text),
                        until |-> SentSoFar + Len(text) + Reach(text)]
  <2>1. record \in [whole : BOOLEAN, end : Nat, until : Nat]
    <3>1. Reach(text) \in Nat
      BY DEF Reach, kPacketHeaderLength
    <3>2. /\ (text = frame) \in BOOLEAN
          /\ SentSoFar + Len(text) \in Nat /\ SentSoFar + Len(text) + Reach(text) \in Nat
      BY <1>5, <1>6, <3>1
    <3> QED
      BY <3>2
  <2>2. sent \in Seq([whole : BOOLEAN, end : Nat, until : Nat]) /\ sent' = Append(sent, record)
    BY <1>1 DEF ReceiveInv
  <2> HIDE DEF record
  <2> QED
    BY <2>1, <2>2, AppendProperties
<1>8. Newest(accepted) \in Nat
  BY NewestIs DEF ReceiveInv
<1>9. Stream((receive_buffer_ \o line) \o text, Newest(accepted), k)
  BY <1>3, <1>4, <1>8, StreamGrows DEF ReceiveInv
<1>10. (receive_buffer_ \o line) \o text = receive_buffer_ \o line'
  <2>1. receive_buffer_ \in Seq(Chars) /\ line \in Seq(Chars) /\ line' = line \o text
    BY <1>1 DEF ReceiveInv
  <2> QED
    BY <1>5, <2>1, ConcatAssociative
<1>11. line' \in Seq(Chars)
  BY <1>1, <1>5, ConcatProperties DEF ReceiveInv
<1> HIDE DEF k, frame
<1>12. Newest(accepted) <= k /\ k <= MaxFrames
  BY <1>3, <1>8 DEF ReceiveInv, k
<1> QED
  BY <1>2, <1>7, <1>9, <1>10, <1>11, <1>12 DEF ReceiveInv

LEMMA ReceiveAllKeeps == ReceiveInv /\ ReceiveAll => ReceiveInv'
<1> SUFFICES ASSUME ReceiveInv, ReceiveAll PROVE ReceiveInv'
  OBVIOUS
<1>1. PICK n \in {m \in ReadSizes \cup {Len(line), Space} : m <= Len(line) /\ m <= Space} :
        \E decoded \in {DecodeAll(receive_buffer_ \o SubSeq(line, 1, n))} :
          /\ line' = SubSeq(line, n + 1, Len(line))
          /\ receive_buffer_' = decoded.rest
          /\ raw' = decoded.raw
          /\ out' = decoded.out
          /\ accepted' = accepted \o decoded.updates
          /\ error' = decoded.error
  BY DEF ReceiveAll
<1> DEFINE read == SubSeq(line, 1, n)
           right == SubSeq(line, n + 1, Len(line))
           buffer == receive_buffer_ \o read
           decoded == DecodeAll(buffer)
           hi == Len(sent)
<1>2. /\ line' = right
      /\ receive_buffer_' = decoded.rest
      /\ raw' = decoded.raw
      /\ out' = decoded.out
      /\ accepted' = accepted \o decoded.updates
      /\ error' = decoded.error
      /\ sent' = sent
  BY <1>1 DEF ReceiveAll
<1>3. /\ receive_buffer_ \in Seq(Chars) /\ line \in Seq(Chars)
      /\ Len(receive_buffer_) \in Nat /\ Len(line) \in Nat
      /\ Len(receive_buffer_) <= kBufferSize /\ kBufferSize \in Nat
  BY LenProperties, BoundsAssumption DEF ReceiveInv
<1>4. n \in Nat /\ n <= Len(line) /\ n + Len(receive_buffer_) <= kBufferSize
  <2>1. Space \in Nat /\ Space = kBufferSize - Len(receive_buffer_)
    BY <1>3 DEF Space
  <2>2. n \in Nat
    BY <1>3, <2>1, BoundsAssumption
  <2> QED
    BY <1>1, <1>3, <2>1, <2>2
<1>5. /\ read \in Seq(Chars) /\ Len(read) = n
      /\ right \in Seq(Chars) /\ line = read \o right
  <2>1. SubSeq(line, 0 + 1, n) \in Seq(Chars) /\ Len(SubSeq(line, 0 + 1, n)) = n - 0
    BY <1>3, <1>4, Slice
  <2>2. 0 + 1 = 1 /\ n - 0 = n
    BY <1>4
  <2>3. right \in Seq(Chars)
    BY <1>3, <1>4, Slice
  <2>4. SubSeq(line, 1, n) \o SubSeq(line, n + 1, Len(line)) = SubSeq(line, 1, Len(line))
    <3>1. /\ 1 \in 1..Len(line) + 1 /\ n \in 1 - 1..Len(line) /\ Len(line) \in n..Len(line)
      BY <1>3, <1>4
    <3> QED
      BY <1>3, <3>1, ConcatAdjacentSubSeq
  <2>5. SubSeq(line, 1, Len(line)) = line
    BY <1>3, SubSeqFull
  <2> QED
    BY <2>1, <2>2, <2>3, <2>4, <2>5
<1> HIDE DEF read, right
<1>6. /\ buffer \in Seq(Chars) /\ Len(buffer) <= kBufferSize /\ Len(buffer) \in Nat
      /\ buffer \o right = receive_buffer_ \o line
  <2>1. buffer \in Seq(Chars) /\ Len(buffer) = Len(receive_buffer_) + Len(read)
    BY <1>3, <1>5, ConcatProperties
  <2>2. buffer \o right = receive_buffer_ \o (read \o right)
    <3>1. receive_buffer_ \in Seq(Chars) /\ read \in Seq(Chars) /\ right \in Seq(Chars)
      BY <1>3, <1>5
    <3> QED
      BY <3>1, ConcatAssociative
  <2> HIDE DEF buffer
  <2> QED
    BY <1>3, <1>4, <1>5, <2>1, <2>2
<1> HIDE DEF buffer
<1>7. /\ hi \in 0..MaxFrames /\ accepted \in Seq(Pairs)
      /\ raw \in Raws /\ out \in Pairs \cup {<<>>} /\ InOrder(accepted, out)
      /\ Newest(accepted) <= hi
      /\ Stream(buffer \o right, Newest(accepted), hi)
  <2>1. hi \in Nat /\ hi <= MaxFrames
    BY LenProperties DEF ReceiveInv
  <2>2. hi \in 0..MaxFrames
    BY <2>1, BoundsAssumption
  <2> QED
    BY <1>6, <2>2 DEF ReceiveInv, InOrder
<1> HIDE DEF hi
<1>8. decoded \in Sound(accepted, right, hi, Len(buffer))
  BY <1>5, <1>6, <1>7, AllIsSound
<1> HIDE DEF decoded
<1>9. /\ decoded.rest \in Seq(Chars) /\ decoded.raw \in Raws /\ decoded.out \in Pairs \cup {<<>>}
      /\ decoded.error \in BOOLEAN
      /\ Len(decoded.rest) <= Len(buffer)
      /\ InOrder(accepted \o decoded.updates, decoded.out)
      /\ Newest(accepted \o decoded.updates) <= hi
      /\ Stream(decoded.rest \o right, Newest(accepted \o decoded.updates), hi)
  BY <1>8 DEF Sound
<1>10. Len(decoded.rest) <= kBufferSize
  <2>1. Len(decoded.rest) \in Nat
    BY <1>9, LenProperties
  <2> QED
    BY <1>3, <1>6, <1>9, <2>1
<1>11. sent' \in Seq([whole : BOOLEAN, end : Nat, until : Nat]) /\ Len(sent') = hi /\ hi <= MaxFrames
  BY <1>2 DEF ReceiveInv, hi
<1> QED
  BY <1>2, <1>5, <1>9, <1>10, <1>11 DEF ReceiveInv

(* The sending half and the port leave what was received alone.             *)
LEMMA OthersKeepReceived ==
  ReceiveInv /\ UNCHANGED <<line, receive_buffer_, raw, out, accepted, sent>>
             /\ error' \in {error, FALSE} => ReceiveInv'
  BY DEF ReceiveInv

LEMMA ReceiveInvNext == ReceiveInv /\ [Next]_vars => ReceiveInv'
<1> SUFFICES ASSUME ReceiveInv, [Next]_vars PROVE ReceiveInv'
  OBVIOUS
<1>1. CASE EcuSends
  BY <1>1, EcuSendsKeeps
<1>2. CASE ReceiveAll
  BY <1>2, ReceiveAllKeeps
<1>3. CASE ReceiveFails
  BY <1>3, OthersKeepReceived DEF ReceiveFails
<1>4. CASE Send \/ Write \/ SendGivesUp
  BY <1>4, OthersKeepReceived DEF Send, Write, SendGivesUp, receiveVars
<1>5. CASE Configure \/ Open \/ Close \/ Terminated \/ UNCHANGED vars
  BY <1>5, OthersKeepReceived DEF Configure, Open, Close, Terminated, vars, receiveVars
<1> QED
  BY <1>1, <1>2, <1>3, <1>4, <1>5 DEF Next

LEMMA ReceiveInvImplies == ReceiveInv => AcceptedInOrder
<1> SUFFICES ASSUME ReceiveInv PROVE AcceptedInOrder
  OBVIOUS
<1>1. InOrder(accepted, out) /\ \A i \in 1..Len(accepted) : accepted[i] \in Pairs
  BY ElementOfSeq DEF ReceiveInv, InOrder
<1>2. \A p \in Pairs : p.time_stamp = p.electric_current
  BY DEF Pairs, Pair
<1> QED
  BY <1>1, <1>2 DEF AcceptedInOrder, InOrder

-----------------------------------------------------------------------------
(* The descriptor and the part of a command that is written *)

PortInv ==
  /\ direction \in {"in", "out"}
  /\ fd_ \in {0, 1}
  /\ port \in {"closed", "open", "failed", "gone"}
  /\ timeout_ns_ \in {"none", "some"}
  /\ fd_ = 0 <=> port \in {"closed", "gone"}
  /\ send_size \in 0..Len(send_buffer_)

LEMMA PortInvInit == Init => PortInv
<1> SUFFICES ASSUME Init PROVE PortInv
  OBVIOUS
<1>1. Len(<<>>) = 0
  OBVIOUS
<1> QED
  BY <1>1 DEF Init, PortInv

LEMMA PortInvNext == SendInv /\ PortInv /\ [Next]_vars => PortInv'
<1> SUFFICES ASSUME SendInv, PortInv, [Next]_vars PROVE PortInv'
  OBVIOUS
<1>0. \A length, outcome : Return(length, outcome) => send_size' \in 0..Len(send_buffer_')
  <2>1. Len(<<>>) = 0 /\ 0 \in 0..0
    OBVIOUS
  <2> QED
    BY <2>1 DEF Return
<1>1. CASE Send
  <2>1. send_size' \in 0..Len(send_buffer_')
    <3>1. PICK length \in Commands :
            IF length > kBufferSize THEN Return(length, "invalid_argument")
            ELSE IF timeout_ns_ = "none" THEN Return(length, "timed_out")
            ELSE /\ send_buffer_' = [i \in 1..length |-> <<Len(outcomes) + 1, i>>]
                 /\ send_size' = 0
                 /\ UNCHANGED outcomes
      BY <1>1 DEF Send
    <3>2. CASE Return(length, "invalid_argument") \/ Return(length, "timed_out")
      BY <1>0, <3>2
    <3>3. CASE send_buffer_' = [i \in 1..length |-> <<Len(outcomes) + 1, i>>] /\ send_size' = 0
      <4>1. length \in Nat /\ Len(outcomes) + 1 \in Nat
        BY LenProperties, CommandsAssumption DEF SendInv
      <4>2. send_buffer_' = Frames(Len(outcomes) + 1, length)
        BY <3>3 DEF Frames
      <4>3. Len(send_buffer_') = length
        BY <4>1, <4>2, FramesAreSequences
      <4> QED
        BY <3>3, <4>1, <4>3
    <3> QED
      BY <3>1, <3>2, <3>3
  <2> QED
    BY <1>1, <2>1 DEF Send, portVars, PortInv
<1>2. CASE Write
  <2>1. PICK n \in 0..Len(send_buffer_) - send_size :
          IF send_size + n = Len(send_buffer_) THEN Return(send_size + n, "success")
          ELSE send_size' = send_size + n /\ UNCHANGED <<send_buffer_, outcomes>>
    BY <1>2 DEF Write
  <2>2. Len(send_buffer_) \in Nat
    <3>1. \A j \in Nat, length \in Nat : Len(Frames(j, length)) \in Nat
      BY FramesAreSequences
    <3>2. Within /\ Len(outcomes) + 1 \in Nat
      BY <1>2, LenProperties DEF SendInv, Between, Write, Sending
    <3> QED
      BY <3>1, <3>2 DEF Within
  <2>3. send_size' \in 0..Len(send_buffer_')
    BY <1>0, <2>1, <2>2 DEF PortInv
  <2> QED
    BY <1>2, <2>3 DEF Write, portVars, PortInv
<1>3. CASE SendGivesUp
  BY <1>0, <1>3 DEF SendGivesUp, portVars, PortInv
<1>4. CASE EcuSends \/ ReceiveAll \/ ReceiveFails
  BY <1>4 DEF EcuSends, ReceiveAll, ReceiveFails, portVars, sendVars, PortInv
<1>5. CASE Configure
  BY <1>5 DEF Configure, sendVars, PortInv
<1>6. CASE Open
  BY <1>6 DEF Open, sendVars, PortInv
<1>7. CASE Close
  BY <1>7 DEF Close, sendVars, PortInv
<1>8. CASE Terminated \/ UNCHANGED vars
  BY <1>8 DEF Terminated, vars, portVars, sendVars, PortInv
<1> QED
  BY <1>1, <1>2, <1>3, <1>4, <1>5, <1>6, <1>7, <1>8 DEF Next

LEMMA TypesImplied == ReceiveInv /\ PortInv => TypeOK
<1> SUFFICES ASSUME ReceiveInv, PortInv PROVE TypeOK
  OBVIOUS
<1>1. Pairs \subseteq Values
  BY DEF Pairs, Pair, Values
<1>2. \A i \in 1..Len(accepted) : accepted[i] \in Values
  BY <1>1, ElementOfSeq DEF ReceiveInv, InOrder
<1> QED
  BY <1>1, <1>2 DEF ReceiveInv, PortInv, TypeOK, Raws

-----------------------------------------------------------------------------
(* Whatever the reads cut the line into, whatever was damaged on it and     *)
(* however large the buffer is, PowerEcuProtocol::ReceiveAll takes each     *)
(* frame at most once and in the order it was sent, and the published       *)
(* values are the two of one frame.                                         *)
THEOREM TakenInOrder == Spec => []AcceptedInOrder
<1>1. Init => ReceiveInv
  BY ReceiveInvInit
<1>2. ReceiveInv /\ [Next]_vars => ReceiveInv'
  BY ReceiveInvNext
<1>3. ReceiveInv => AcceptedInOrder
  BY ReceiveInvImplies
<1> QED
  BY <1>1, <1>2, <1>3, PTL DEF Spec

(* Every variable of the link keeps its type; neither half of it reads or   *)
(* writes beyond its buffer.                                                *)
THEOREM LinkTypeCorrect == Spec => []TypeOK
<1>1. Init => SendInv /\ ReceiveInv /\ PortInv
  BY SendInvInit, ReceiveInvInit, PortInvInit
<1>2. SendInv /\ ReceiveInv /\ PortInv /\ [Next]_vars => SendInv' /\ ReceiveInv' /\ PortInv'
  BY SendInvNext, ReceiveInvNext, PortInvNext
<1>3. ReceiveInv /\ PortInv => TypeOK
  BY TypesImplied
<1> QED
  BY <1>1, <1>2, <1>3, PTL DEF Spec

=============================================================================
