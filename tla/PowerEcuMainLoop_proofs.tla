---------------------- MODULE PowerEcuMainLoop_proofs -----------------------
(***************************************************************************)
(* Proofs about PowerEcuProtocol and PowerEcuMainLoop.  First, of the      *)
(* protocol alone, under Spec: any caller, for every queue, window,        *)
(* timeout and line length.  Then, under MainSpec: the node uses the       *)
(* protocol as that module allows, so what is proved of the protocol holds *)
(* of the node, and what a successful Start and a carried-out LED command  *)
(* mean.                                                                   *)
(***************************************************************************)
EXTENDS PowerEcuMainLoop, FiniteSetTheorems, SequenceTheorems, TLAPS


----------------------------------------------------------------------------
(* What Register and the constructor of ErrorCounter establish, for every  *)
(* window size: the incremental count is the number of failures in the     *)
(* window.                                                                 *)

(* The counters whose window has the given size and whose count is right.  *)
ExactCounters(size) ==
  {counter \in [buffer : Seq(BOOLEAN), error_count : Nat] :
     /\ Len(counter.buffer) = size
     /\ counter.error_count = Cardinality(Failures(counter.buffer))}

(* The failures of a window are finitely many. *)
LEMMA FailuresFinite ==
  ASSUME NEW buffer \in Seq(BOOLEAN)
  PROVE  /\ Failures(buffer) \subseteq 1..Len(buffer)
         /\ IsFiniteSet(Failures(buffer))
         /\ Cardinality(Failures(buffer)) \in Nat
<1>1. Failures(buffer) \subseteq 1..Len(buffer)
  BY DEF Failures
<1>2. IsFiniteSet(1..Len(buffer))
  BY FS_Interval
<1>3. IsFiniteSet(Failures(buffer))
  BY <1>1, <1>2, FS_Subset
<1> QED
  BY <1>1, <1>3, FS_CardinalityType

(* Moving a finite set of positions one place to the front keeps its size. *)
LEMMA ShiftKeepsSize ==
  ASSUME NEW S, S \subseteq Nat \ {0}, IsFiniteSet(S),
         NEW T, T = {i - 1 : i \in S}
  PROVE  IsFiniteSet(T) /\ Cardinality(T) = Cardinality(S)
<1> DEFINE f == [i \in S |-> i - 1]
<1>1. f \in Bijection(S, T)
  <2>1. f \in [S -> T]
    OBVIOUS
  <2>2. \A i, j \in S : f[i] = f[j] => i = j
    OBVIOUS
  <2>3. \A t \in T : \E i \in S : f[i] = t
    OBVIOUS
  <2> QED
    BY <2>1, <2>2, <2>3 DEF Bijection, Injection, Surjection, IsInjective
<1>2. ExistsBijection(S, T)
  BY <1>1 DEF ExistsBijection
<1> QED
  BY <1>2, FS_Bijection

(* ErrorCounter(size): no failure in the window and none counted. *)
LEMMA NewCounterExact ==
  ASSUME NEW size \in Nat \ {0}
  PROVE  NewErrorCounter(size) \in ExactCounters(size)
<1> DEFINE buffer == [i \in 1..size |-> TRUE]
<1>1. buffer \in Seq(BOOLEAN) /\ Len(buffer) = size
  OBVIOUS
<1>2. Failures(buffer) = {}
  BY DEF Failures
<1>3. Cardinality(Failures(buffer)) = 0
  BY <1>2, FS_EmptySet
<1> QED
  BY <1>1, <1>3 DEF NewErrorCounter, ExactCounters

(* Register: one result leaves the window, one enters, the count follows.  *)
LEMMA RegisterExact ==
  ASSUME NEW size \in Nat \ {0},
         NEW counter \in ExactCounters(size),
         NEW result \in BOOLEAN
  PROVE  Register(counter, result) \in ExactCounters(size)
<1> DEFINE old == counter.buffer
           new == Append(Tail(old), result)
           F == Failures(old)
           kept == F \ {1}
           moved == {i - 1 : i \in kept}
<1>1. /\ old \in Seq(BOOLEAN) /\ Len(old) = size /\ old # <<>>
      /\ counter.error_count = Cardinality(F)
  BY DEF ExactCounters
<1>2. /\ new \in Seq(BOOLEAN) /\ Len(new) = size
      /\ \A i \in 1..size : new[i] = IF i = size THEN result ELSE old[i + 1]
  <2>1. /\ Tail(old) \in Seq(BOOLEAN) /\ Len(Tail(old)) = size - 1
        /\ \A i \in 1..(size - 1) : Tail(old)[i] = old[i + 1]
    BY <1>1, HeadTailProperties
  <2> DEFINE rest == Tail(old)
  <2> HIDE DEF rest
  <2>2. /\ rest \in Seq(BOOLEAN) /\ Len(rest) = size - 1
        /\ \A i \in 1..(size - 1) : rest[i] = old[i + 1]
    BY <2>1 DEF rest
  <2>3. /\ Append(rest, result) \in Seq(BOOLEAN) /\ Len(Append(rest, result)) = size
        /\ \A i \in 1..size : Append(rest, result)[i] = IF i = size THEN result ELSE old[i + 1]
    BY <2>2
  <2> QED
    BY <2>3 DEF rest
<1>3. F \subseteq 1..size /\ IsFiniteSet(F) /\ Cardinality(F) \in Nat
  BY <1>1, FailuresFinite
<1>4. Failures(new) = IF result THEN moved ELSE moved \cup {size}
  <2>1. moved = {i \in 1..(size - 1) : ~old[i + 1]}
    <3>1. \A i \in moved : i \in 1..(size - 1) /\ ~old[i + 1]
      BY <1>1, <1>3 DEF Failures
    <3>2. \A i \in 1..(size - 1) : ~old[i + 1] => (i + 1 \in kept /\ i = (i + 1) - 1)
      BY <1>1 DEF Failures
    <3>3. \A i \in 1..(size - 1) : ~old[i + 1] => i \in moved
      BY <3>2
    <3> QED
      BY <3>1, <3>3
  <2>2. Failures(new) = {i \in 1..size : ~new[i]}
    BY <1>2 DEF Failures
  <2>3. \A i : i \in Failures(new) <=> (i \in moved \/ (i = size /\ ~result))
    <3> HIDE DEF new, moved
    <3> QED
      BY <1>2, <2>1, <2>2
  <2> HIDE DEF new, moved
  <2> QED
    BY <2>3
<1> DEFINE leaves == IF Head(old) THEN 0 ELSE 1
           enters == IF result THEN 0 ELSE 1
<1>5. IsFiniteSet(kept) /\ Cardinality(kept) = Cardinality(F) - leaves
  <2>1. 1 \in F <=> ~old[1]
    BY <1>1 DEF Failures
  <2>2. Head(old) = old[1]
    BY <1>1
  <2>3. leaves = IF 1 \in F THEN 1 ELSE 0
    BY <2>1, <2>2, Zenon
  <2>4. /\ IsFiniteSet(kept)
        /\ Cardinality(kept) = IF 1 \in F THEN Cardinality(F) - 1 ELSE Cardinality(F)
    BY <1>3, FS_RemoveElement
  <2> HIDE DEF F, kept, leaves
  <2> QED
    BY <1>3, <2>3, <2>4
<1>6. IsFiniteSet(moved) /\ Cardinality(moved) = Cardinality(kept)
  <2>1. kept \subseteq Nat \ {0}
    BY <1>3
  <2> HIDE DEF kept
  <2> QED
    BY <2>1, <1>5, ShiftKeepsSize
<1>7. size \notin moved
  BY <1>3
<1>8. Cardinality(Failures(new)) = Cardinality(kept) + enters
  <2> HIDE DEF moved, kept, new
  <2>1. Cardinality(kept) \in Nat
    BY <1>5, FS_CardinalityType
  <2>2. CASE result
    <3>1. Failures(new) = moved /\ enters = 0
      BY <1>4, <2>2, Zenon
    <3> HIDE DEF enters
    <3> QED
      BY <1>6, <2>1, <3>1
  <2>3. CASE ~result
    <3>1. Failures(new) = moved \cup {size} /\ enters = 1
      BY <1>4, <2>3, Zenon
    <3>2. Cardinality(moved \cup {size}) = Cardinality(moved) + 1
      BY <1>6, <1>7, FS_AddElement
    <3> HIDE DEF enters
    <3> QED
      BY <1>6, <3>1, <3>2
  <2> QED
    BY <2>2, <2>3
<1>9. Cardinality(Failures(new)) \in Nat
  BY <1>2, FailuresFinite
<1>10. Cardinality(Failures(new)) = (counter.error_count + enters) - leaves
  <2>1. leaves \in {0, 1} /\ enters \in {0, 1}
    BY Zenon
  <2> HIDE DEF leaves, enters, new, kept, F
  <2> QED
    BY <1>1, <1>3, <1>5, <1>8, <2>1
<1>11. Register(counter, result)
         = [buffer |-> new, error_count |-> Cardinality(Failures(new))]
  BY <1>10, Zenon DEF Register
<1> HIDE DEF new
<1> QED
  BY <1>2, <1>9, <1>11 DEF ExactCounters

----------------------------------------------------------------------------
(* The invariant *)

CountersInv ==
  /\ read_error_counter_ \in ExactCounters(ErrorWindow)
  /\ write_error_counter_ \in ExactCounters(ErrorWindow)

Inv ==
  /\ CommandTypeOK /\ AckTypeOK /\ LineTypeOK
  /\ CountersInv
  /\ QueueIsNewest
  /\ NoAckDiscarded
  /\ OneOutstanding

----------------------------------------------------------------------------
(* Facts about the data *)

LEMMA ConstantFacts ==
  /\ HeartbeatDuration \in Nat /\ HeartbeatDuration <= CommandTimeout
  /\ HEART \in Frames \ Commands /\ GETV \in Frames \ Commands
  /\ HEART # GETV
  /\ Commands \subseteq Frames
BY SizesAssumption, TimesAssumption
   DEF HeartbeatDuration, Commands, HEART, GETV, Frames

LEMMA ExactIsOK ==
  ASSUME NEW counter \in ExactCounters(ErrorWindow)
  PROVE  /\ CounterOK(counter)
         /\ counter.error_count = Cardinality(Failures(counter.buffer))
BY DEF ExactCounters, CounterOK

LEMMA RegisterOK ==
  ASSUME NEW counter \in ExactCounters(ErrorWindow), NEW result \in BOOLEAN
  PROVE  Register(counter, result) \in ExactCounters(ErrorWindow)
BY RegisterExact, SizesAssumption

(* A full circular buffer that takes a new element gives up its oldest.    *)
LEMMA PushOut ==
  ASSUME NEW S, NEW s \in Seq(S), s # <<>>, NEW e \in S,
         NEW t, t = Append(Tail(s), e)
  PROVE  /\ t \in Seq(S) /\ Len(t) = Len(s) /\ Len(s) >= 1
         /\ t[Len(s)] = e
         /\ \A i \in 1..(Len(s) - 1) : t[i] = s[i + 1]
<1> DEFINE rest == Tail(s)
<1>1. /\ rest \in Seq(S) /\ Len(rest) = Len(s) - 1 /\ Len(s) >= 1
      /\ \A i \in 1..Len(rest) : rest[i] = s[i + 1]
  BY HeadTailProperties, EmptySeq
<1>2. t = Append(rest, e)
  OBVIOUS
<1> HIDE DEF rest
<1> QED
  BY <1>1, <1>2

(* The value a decoder leaves behind is a value it had or one it was sent. *)
LEMMA ValueAfterType ==
  ASSUME NEW batch \in Seq(Replies), NEW kind, NEW old \in {0, 1, NoReply},
         NEW v \in ValueAfter(batch, kind, old)
  PROVE  v \in {0, 1, NoReply}
<1>1. LastOf(batch, kind) \subseteq DOMAIN batch
  BY DEF LastOf, RepliesOf
<1>2. ASSUME NEW i \in DOMAIN batch PROVE batch[i].value \in {0, 1}
  <2>1. batch[i] \in Replies
    BY ElementOfSeq
  <2> QED
    BY <2>1 DEF Replies
<1> QED
  BY <1>1, <1>2 DEF ValueAfter

----------------------------------------------------------------------------
(* The initial state *)

LEMMA InitInv == Init => Inv
<1> SUFFICES ASSUME Init PROVE Inv
  OBVIOUS
<1>1. CountersInv
  BY NewCounterExact, SizesAssumption DEF Init, CountersInv
<1>2. CommandTypeOK
  <2>1. /\ added \in Seq(Names) /\ Len(added) <= MaxCommands
        /\ command_queue_ \in Seq(Commands) /\ Len(command_queue_) <= QueueSize
    BY SizesAssumption DEF Init
  <2>2. fate \in [Commands -> Fates]
    BY DEF Init, Fates
  <2> QED
    BY <2>1, <2>2 DEF Init, CommandTypeOK
<1>3. AckTypeOK
  <2>1. since_send \in 0..(CommandTimeout + 1) /\ since_heartbeat \in 0..MaxDebt
    BY TimesAssumption DEF Init
  <2> QED
    BY <2>1, Zenon DEF Init, AckTypeOK
<1>4. LineTypeOK
  BY SizesAssumption DEF Init, LineTypeOK
<1>5. QueueIsNewest
  BY DEF Init, QueueIsNewest, Finished
<1>6. NoAckDiscarded
  BY DEF Init, NoAckDiscarded
<1>7. OneOutstanding
  BY DEF Init, OneOutstanding, Finished
<1> QED
  BY <1>1, <1>2, <1>3, <1>4, <1>5, <1>6, <1>7 DEF Inv

----------------------------------------------------------------------------
(* The steps. First, what a step that leaves the queue alone preserves.    *)

LEMMA BooksUnchanged ==
  ASSUME Inv, UNCHANGED <<added, command_queue_, fate, sent, is_waiting_ack_>>
  PROVE  QueueIsNewest' /\ OneOutstanding'
BY DEF Inv, QueueIsNewest, OneOutstanding, Finished

LEMMA AddPreservesInv ==
  ASSUME Inv, NEW name \in Names, AddCommandQueue(name)
  PROVE  Inv'
<1> DEFINE c == Len(added) + 1
           q == command_queue_
<1>1. /\ added \in Seq(Names) /\ Len(added) < MaxCommands
      /\ added' = Append(added, name)
      /\ c \in Commands
  BY SizesAssumption DEF Inv, CommandTypeOK, AddCommandQueue, CanAdd, Commands
<1>2. added' \in Seq(Names) /\ Len(added') = c /\ c <= MaxCommands
  BY <1>1, SizesAssumption
<1>3. /\ q \in Seq(Commands) /\ Len(q) <= QueueSize
      /\ Len(q) <= Len(added)
      /\ \A i \in 1..Len(q) : q[i] = Len(added) - Len(q) + i
  BY DEF Inv, CommandTypeOK, QueueIsNewest, Finished
<1>4. UNCHANGED <<callVars, lineVars, sent, executed>>
  BY DEF AddCommandQueue
<1>5. AckTypeOK' /\ LineTypeOK' /\ CountersInv'
  <2>1. alone' \in BOOLEAN
    BY DEF AddCommandQueue, Inv, AckTypeOK
  <2> QED
    BY <1>4, <2>1 DEF Inv, AckTypeOK, LineTypeOK, CountersInv, callVars, lineVars
<1>6. CASE Len(q) # QueueSize
  <2>1. command_queue_' = Append(q, c) /\ fate' = fate
    BY <1>6 DEF AddCommandQueue, QueueFull, PushBack
  <2>2. /\ command_queue_' \in Seq(Commands) /\ Len(command_queue_') = Len(q) + 1
        /\ \A i \in 1..Len(q) + 1 : command_queue_'[i] = IF i = Len(q) + 1 THEN c ELSE q[i]
    BY <1>1, <1>3, <2>1
  <2>3. CommandTypeOK'
    BY <1>2, <1>3, <1>4, <1>6, <2>1, <2>2, SizesAssumption DEF Inv, CommandTypeOK
  <2>4. Finished' = Finished
    BY <1>1, <1>2, <1>3, <2>2 DEF Finished
  <2>5. QueueIsNewest'
    <3>1. ASSUME NEW i \in 1..(Len(q) + 1)
          PROVE  command_queue_'[i] = Finished + i
      <4>1. CASE i = Len(q) + 1
        BY <1>1, <1>3, <2>2, <4>1 DEF Finished
      <4>2. CASE i # Len(q) + 1
        <5>1. i \in 1..Len(q) /\ command_queue_'[i] = q[i]
          BY <1>3, <2>2, <4>2
        <5> QED
          BY <1>1, <1>3, <5>1 DEF Finished
      <4> QED
        BY <4>1, <4>2
    <3> QED
      BY <1>1, <1>2, <1>3, <2>1, <2>2, <2>4, <3>1 DEF Inv, QueueIsNewest
  <2>6. NoAckDiscarded'
    BY <1>4, <2>2 DEF Inv, NoAckDiscarded, callVars
  <2>7. OneOutstanding'
    BY <1>1, <1>2, <1>3, <1>4, <2>1, <2>2, <2>4 DEF Inv, OneOutstanding, callVars
  <2> QED
    BY <1>5, <2>3, <2>5, <2>6, <2>7 DEF Inv
<1>7. CASE Len(q) = QueueSize
  <2>1. /\ command_queue_' = Append(Tail(q), c)
        /\ fate' = [fate EXCEPT ![Head(q)] = "overwritten"]
    BY <1>7 DEF AddCommandQueue, QueueFull, PushBack
  <2>2. q # <<>> /\ Head(q) = Len(added) - Len(q) + 1 /\ Head(q) \in Commands
    BY <1>3, <1>7, SizesAssumption
  <2>3. /\ command_queue_' \in Seq(Commands) /\ Len(command_queue_') = Len(q)
        /\ Len(q) >= 1
        /\ command_queue_'[Len(q)] = c
        /\ \A i \in 1..(Len(q) - 1) : command_queue_'[i] = q[i + 1]
    BY <1>1, <1>3, <2>1, <2>2, PushOut
  <2>4. fate' \in [Commands -> Fates]
    BY <2>1 DEF Inv, CommandTypeOK, Fates
  <2>5. CommandTypeOK'
    BY <1>2, <1>3, <1>4, <2>3, <2>4 DEF Inv, CommandTypeOK
  <2>6. Finished' = Finished + 1 /\ Head(q) = Finished'
    BY <1>1, <1>2, <1>3, <2>2, <2>3 DEF Finished
  <2>7. QueueIsNewest'
    <3>1. ASSUME NEW i \in 1..Len(q)
          PROVE  command_queue_'[i] = (Finished + 1) + i
      <4>1. CASE i = Len(q)
        BY <1>1, <1>3, <2>3, <4>1 DEF Finished
      <4>2. CASE i # Len(q)
        <5>1. i + 1 \in 1..Len(q) /\ command_queue_'[i] = q[i + 1]
          BY <1>3, <2>3, <4>2
        <5> QED
          BY <1>1, <1>3, <5>1 DEF Finished
      <4> QED
        BY <4>1, <4>2
    <3>2. \A d \in Commands : fate'[d] = IF d = Finished + 1 THEN "overwritten" ELSE fate[d]
      BY <2>1, <2>6 DEF Inv, CommandTypeOK
    <3>3. Finished \in Nat
      BY <1>1, <1>3 DEF Finished
    <3>4. \A d \in Commands : (fate'[d] = "pending") <=> (d > Finished + 1)
      BY <3>2, <3>3 DEF Inv, QueueIsNewest, Commands
    <3> QED
      BY <1>1, <1>2, <1>3, <2>3, <2>6, <3>1, <3>4 DEF QueueIsNewest
  <2>8. NoAckDiscarded'
    BY <1>3, <1>4, <1>7, <2>3, SizesAssumption DEF Inv, NoAckDiscarded, callVars
  <2>9. OneOutstanding'
    <3>1. fate'[Head(q)] = "overwritten"
      BY <2>1, <2>2 DEF Inv, CommandTypeOK
    <3>2. ASSUME NEW i \in 1..Len(q)
          PROVE  command_queue_'[i] \notin sent
      <4>1. CASE i = Len(q)
        BY <1>1, <1>3, <2>3, <4>1 DEF Inv, OneOutstanding
      <4>2. CASE i # Len(q)
        <5>1. i + 1 \in 2..Len(q) /\ command_queue_'[i] = q[i + 1]
          BY <1>3, <2>3, <4>2
        <5> QED
          BY <1>3, <5>1 DEF Inv, OneOutstanding
      <4> QED
        BY <4>1, <4>2
    <3> QED
      BY <1>1, <1>2, <1>4, <2>2, <2>3, <3>1, <3>2 DEF Inv, OneOutstanding
  <2> QED
    BY <1>5, <2>5, <2>7, <2>8, <2>9 DEF Inv
<1> QED
  BY <1>6, <1>7

(* SendCommand puts one frame at the end of the line. *)
LEMMA SendCommandType ==
  ASSUME Inv, NEW frame \in Frames, SendCommand(frame)
  PROVE  /\ to_ecu' \in Seq(Frames) /\ Len(to_ecu') = Len(to_ecu) + 1
         /\ Len(to_ecu') <= EcuLine
         /\ to_ecu'[Len(to_ecu')] = frame
         /\ ack_' = NoReply
BY SizesAssumption DEF Inv, LineTypeOK, SendCommand

LEMMA SendFrontPreservesInv ==
  ASSUME Inv, SendFront
  PROVE  Inv'
<1> DEFINE q == command_queue_
           front == Head(command_queue_)
<1>1. /\ q \in Seq(Commands) /\ Len(q) <= Len(added) /\ q # <<>> /\ ~is_waiting_ack_
      /\ added \in Seq(Names)
      /\ front \in Commands /\ front = Finished + 1 /\ Finished \in Nat
      /\ \A i \in 1..Len(q) : q[i] = Finished + i
  BY DEF Inv, CommandTypeOK, QueueIsNewest, SendFront, MaySendCommand, Finished
<1>2. /\ is_waiting_ack_' = TRUE /\ since_send' = 0 /\ sent' = sent \cup {front}
      /\ ack_' = NoReply /\ alone' \in BOOLEAN
      /\ UNCHANGED <<added, command_queue_, version_, since_heartbeat, to_pc, fate, executed,
                     read_error_counter_>>
  BY DEF SendFront, SendCommand
<1>3. LineTypeOK'
  BY <1>1, <1>2, SendCommandType, ConstantFacts DEF Inv, LineTypeOK, SendFront
<1>4. CommandTypeOK'
  BY <1>1, <1>2 DEF Inv, CommandTypeOK
<1>5. AckTypeOK'
  <2>1. since_send' \in 0..(CommandTimeout + 1)
    BY <1>2, TimesAssumption
  <2> QED
    BY <1>2, <2>1, Zenon DEF Inv, AckTypeOK
<1>6. CountersInv'
  BY <1>2, RegisterOK DEF Inv, CountersInv, SendFront
<1>7. QueueIsNewest'
  BY <1>2 DEF Inv, QueueIsNewest, Finished
<1>8. NoAckDiscarded'
  BY <1>1, <1>2 DEF NoAckDiscarded
<1>9. OneOutstanding'
  <2>1. Finished' = Finished
    BY <1>2 DEF Finished
  <2>2. sent' \subseteq 1..Len(added)
    <3>1. Len(q) >= 1 /\ Finished + 1 \in 1..Len(added)
      BY <1>1, EmptySeq DEF Finished
    <3> QED
      BY <1>1, <1>2, <3>1 DEF Inv, OneOutstanding
  <2>3. ASSUME NEW i \in 1..Len(q), q[i] \in sent' PROVE i = 1
    BY <1>1, <1>2, <2>3 DEF Inv, OneOutstanding
  <2>4. (\A c \in Commands : fate[c] # "overwritten") => sent' = 1..(Finished + 1)
    BY <1>1, <1>2 DEF Inv, OneOutstanding
  <2> QED
    BY <1>2, <2>1, <2>2, <2>3, <2>4 DEF OneOutstanding
<1> QED
  BY <1>3, <1>4, <1>5, <1>6, <1>7, <1>8, <1>9 DEF Inv

LEMMA SendHeartbeatPreservesInv ==
  ASSUME Inv, SendHeartbeat
  PROVE  Inv'
<1>1. /\ ack_' = NoReply /\ alone' = FALSE
      /\ since_heartbeat' = since_heartbeat - HeartbeatDuration
      /\ since_heartbeat > HeartbeatDuration
      /\ UNCHANGED <<added, command_queue_, is_waiting_ack_, version_, since_send,
                     read_error_counter_, to_pc, fate, sent, executed>>
  BY DEF SendHeartbeat, SendCommand, HeartbeatDue
<1>2. LineTypeOK'
  BY <1>1, SendCommandType, ConstantFacts DEF Inv, LineTypeOK, SendHeartbeat
<1>3. CommandTypeOK'
  BY <1>1 DEF Inv, CommandTypeOK
<1>4. AckTypeOK'
  <2>1. since_heartbeat' \in 0..MaxDebt
    BY <1>1, ConstantFacts, TimesAssumption DEF Inv, AckTypeOK
  <2> QED
    BY <1>1, <2>1, Zenon DEF Inv, AckTypeOK
<1>5. CountersInv'
  BY <1>1, RegisterOK DEF Inv, CountersInv, SendHeartbeat
<1>6. NoAckDiscarded'
  BY <1>1 DEF Inv, NoAckDiscarded
<1> QED
  BY <1>1, <1>2, <1>3, <1>4, <1>5, <1>6, BooksUnchanged DEF Inv

(* SendAll with nothing to send or a Send that fails, and a Receive that   *)
(* fails, change one error counter.                                        *)
LEMMA CounterPreservesInv ==
  ASSUME Inv, SendNothing \/ SendFails \/ ReceiveFails
  PROVE  Inv'
<1>1. UNCHANGED <<added, command_queue_, is_waiting_ack_, ack_, version_, since_send,
                  since_heartbeat, to_ecu, to_pc, fate, sent, executed, alone>>
  BY DEF SendNothing, SendFails, ReceiveFails, lineVars, historyVars
<1>2. CountersInv'
  BY RegisterOK DEF Inv, CountersInv, SendNothing, SendFails, ReceiveFails
<1>3. CommandTypeOK' /\ AckTypeOK' /\ LineTypeOK' /\ NoAckDiscarded'
  BY <1>1 DEF Inv, CommandTypeOK, AckTypeOK, LineTypeOK, NoAckDiscarded
<1> QED
  BY <1>1, <1>2, <1>3, BooksUnchanged DEF Inv

LEMMA GetVersionPreservesInv ==
  ASSUME Inv, SendGetVersion \/ SendGetVersionFails
  PROVE  Inv'
<1>1. /\ version_' = NoReply /\ ack_' \in {ack_, NoReply}
      /\ UNCHANGED <<added, command_queue_, is_waiting_ack_, since_send, since_heartbeat,
                     read_error_counter_, write_error_counter_, to_pc, fate, sent,
                     executed, alone>>
  BY DEF SendGetVersion, SendGetVersionFails, SendCommand, lineVars, historyVars
<1>2. LineTypeOK'
  <2>1. CASE SendGetVersion
    BY <1>1, <2>1, SendCommandType, ConstantFacts DEF Inv, LineTypeOK, SendGetVersion
  <2>2. CASE SendGetVersionFails
    BY <2>2 DEF Inv, LineTypeOK, SendGetVersionFails, lineVars
  <2> QED
    BY <2>1, <2>2
<1>3. CommandTypeOK' /\ CountersInv'
  BY <1>1 DEF Inv, CommandTypeOK, CountersInv
<1>4. AckTypeOK'
  BY <1>1 DEF Inv, AckTypeOK
<1>5. NoAckDiscarded'
  BY <1>1 DEF Inv, NoAckDiscarded
<1> QED
  BY <1>1, <1>2, <1>3, <1>4, <1>5, BooksUnchanged DEF Inv

LEMMA ElapsePreservesInv ==
  ASSUME Inv, NEW d \in 1..MaxSleep, Elapse(d)
  PROVE  Inv'
<1>1. UNCHANGED <<added, command_queue_, is_waiting_ack_, ack_, version_,
                  read_error_counter_, write_error_counter_, to_ecu, to_pc, fate, sent,
                  executed, alone>>
  BY DEF Elapse, lineVars, historyVars
<1>2. /\ since_send' \in 0..(CommandTimeout + 1)
      /\ since_heartbeat' \in 0..MaxDebt
  BY TimesAssumption DEF Inv, AckTypeOK, Elapse, AtMost
<1>3. AckTypeOK'
  BY <1>1, <1>2, Zenon DEF Inv, AckTypeOK
<1>4. CommandTypeOK' /\ LineTypeOK' /\ CountersInv' /\ NoAckDiscarded'
  BY <1>1 DEF Inv, CommandTypeOK, LineTypeOK, CountersInv, NoAckDiscarded
<1> QED
  BY <1>1, <1>3, <1>4, BooksUnchanged DEF Inv

LEMMA EcuPreservesInv ==
  ASSUME Inv, Ecu
  PROVE  Inv'
<1>1. /\ UNCHANGED <<added, command_queue_, is_waiting_ack_, ack_, version_, since_send,
                     since_heartbeat, read_error_counter_, write_error_counter_, fate,
                     sent, alone>>
      /\ to_ecu # <<>> /\ to_ecu' = Tail(to_ecu)
  BY DEF Ecu, EcuMissesFrame, EcuAnswers, EcuUnchanged, callVars
<1>2. to_ecu' \in Seq(Frames) /\ Len(to_ecu') <= EcuLine /\ Head(to_ecu) \in Frames
  BY <1>1, HeadTailProperties, SizesAssumption DEF Inv, LineTypeOK
<1>3. /\ to_pc' \in Seq(Replies) /\ Len(to_pc') <= PcLine
      /\ executed' \subseteq Commands
  <2>1. CASE EcuMissesFrame
    BY <2>1 DEF Inv, LineTypeOK, CommandTypeOK, EcuMissesFrame
  <2>2. CASE \E value \in {0, 1}, lost \in BOOLEAN : EcuAnswers(value, lost)
    <3>1. PICK value \in {0, 1}, lost \in BOOLEAN : EcuAnswers(value, lost)
      BY <2>2
    <3>2. executed' \subseteq Commands
      BY <3>1 DEF EcuAnswers, Inv, CommandTypeOK
    <3>3. Answer(Head(to_ecu), value) \in Replies
      BY <1>2 DEF Answer, Replies
    <3>4. \/ to_pc' = to_pc
          \/ Len(to_pc) < PcLine /\ to_pc' = Append(to_pc, Answer(Head(to_ecu), value))
      BY <3>1, Zenon DEF EcuAnswers
    <3>5. to_pc' \in Seq(Replies) /\ Len(to_pc') <= PcLine
      BY <3>3, <3>4, SizesAssumption DEF Inv, LineTypeOK
    <3> QED
      BY <3>2, <3>5
  <2> QED
    BY <2>1, <2>2 DEF Ecu
<1>4. CommandTypeOK' /\ AckTypeOK' /\ LineTypeOK' /\ CountersInv' /\ NoAckDiscarded'
  BY <1>1, <1>2, <1>3 DEF Inv, CommandTypeOK, AckTypeOK, LineTypeOK, CountersInv, NoAckDiscarded
<1> QED
  BY <1>1, <1>4, BooksUnchanged DEF Inv

(* The decode loop takes the oldest replies and leaves values they had.    *)
LEMMA DecodeType ==
  ASSUME Inv, NEW n \in 0..Len(to_pc), Decode(n)
  PROVE  /\ to_pc' \in Seq(Replies) /\ Len(to_pc') <= PcLine
         /\ ack_' \in {0, 1, NoReply}
         /\ version_' \in {0, 1, NoReply}
<1> DEFINE batch == SubSeq(to_pc, 1, n)
<1>1. to_pc \in Seq(Replies) /\ Len(to_pc) <= PcLine /\ Len(to_pc) \in Nat
  BY DEF Inv, LineTypeOK
<1>2. batch \in Seq(Replies)
  BY <1>1, ElementOfSeq, SubSeqProperties
<1>3. to_pc' \in Seq(Replies) /\ Len(to_pc') <= PcLine
  <2>1. to_pc' = SubSeq(to_pc, n + 1, Len(to_pc))
    BY DEF Decode
  <2>2. \A i \in (n + 1)..Len(to_pc) : to_pc[i] \in Replies
    BY <1>1, ElementOfSeq
  <2> QED
    BY <1>1, <2>1, <2>2, SubSeqProperties, SizesAssumption
<1>4. ack_' \in ValueAfter(batch, "rxack", ack_) /\ version_' \in ValueAfter(batch, "ver__", version_)
  BY DEF Decode
<1> QED
  BY <1>2, <1>3, <1>4, ValueAfterType DEF Inv, AckTypeOK

(* The front command leaves the queue with its fate recorded.              *)
LEMMA ResolveStep ==
  ASSUME Inv, is_waiting_ack_, NEW f \in Fates \ {"pending", "overwritten"}, Resolve(f),
         UNCHANGED <<added, sent, executed>>
  PROVE  CommandTypeOK' /\ QueueIsNewest' /\ NoAckDiscarded' /\ OneOutstanding'
<1> DEFINE q == command_queue_
           front == Head(command_queue_)
<1>1. /\ q \in Seq(Commands) /\ q # <<>> /\ Len(q) >= 1
      /\ Len(q) <= Len(added) /\ Len(q) <= QueueSize
      /\ added \in Seq(Names)
      /\ Finished \in Nat
      /\ \A i \in 1..Len(q) : q[i] = Finished + i
  BY EmptySeq DEF Inv, CommandTypeOK, QueueIsNewest, NoAckDiscarded, Finished
<1>2. /\ is_waiting_ack_' = FALSE
      /\ command_queue_' = Tail(q)
      /\ fate' = [fate EXCEPT ![front] = f]
  BY DEF Resolve
<1>3. /\ command_queue_' \in Seq(Commands) /\ Len(command_queue_') = Len(q) - 1
      /\ \A i \in 1..(Len(q) - 1) : command_queue_'[i] = q[i + 1]
  BY <1>1, <1>2, HeadTailProperties
<1>4. front = Finished + 1 /\ front \in Commands
  BY <1>1
<1>5. Finished' = Finished + 1
  BY <1>1, <1>3 DEF Finished
<1>6. /\ fate' \in [Commands -> Fates]
      /\ \A c \in Commands : fate'[c] = IF c = Finished + 1 THEN f ELSE fate[c]
  BY <1>2, <1>4 DEF Inv, CommandTypeOK
<1>7. CommandTypeOK'
  BY <1>1, <1>3, <1>6, SizesAssumption DEF Inv, CommandTypeOK
<1>8. QueueIsNewest'
  <2>1. ASSUME NEW i \in 1..(Len(q) - 1)
        PROVE  command_queue_'[i] = (Finished + 1) + i
    <3>1. i + 1 \in 1..Len(q)
      BY <1>1
    <3> QED
      BY <1>1, <1>3, <3>1
  <2>2. \A c \in Commands : (fate'[c] = "pending") <=> (c > Finished + 1)
    BY <1>1, <1>6 DEF Inv, QueueIsNewest, Commands
  <2> QED
    BY <1>1, <1>3, <1>5, <2>1, <2>2 DEF QueueIsNewest
<1>9. NoAckDiscarded'
  BY <1>2 DEF NoAckDiscarded
<1>10. OneOutstanding'
  <2>1. ASSUME NEW i \in 1..(Len(q) - 1)
        PROVE  command_queue_'[i] \notin sent
    <3>1. i + 1 \in 2..Len(q)
      BY <1>1
    <3> QED
      BY <1>3, <3>1 DEF Inv, OneOutstanding
  <2>2. ASSUME \A c \in Commands : fate'[c] # "overwritten"
        PROVE  sent = 1..(Finished + 1)
    <3>1. fate[front] # "overwritten"
      BY <1>1, <1>4 DEF Inv, QueueIsNewest
    <3>2. \A c \in Commands : fate[c] # "overwritten"
      BY <1>4, <1>6, <2>2, <3>1
    <3> QED
      BY <3>2 DEF Inv, OneOutstanding
  <2> QED
    BY <1>2, <1>3, <1>5, <2>1, <2>2 DEF Inv, OneOutstanding
<1> QED
  BY <1>7, <1>8, <1>9, <1>10

LEMMA ReceivePreservesInv ==
  ASSUME Inv, NEW result, ReceiveSucceeds(result)
  PROVE  Inv'
<1>1. PICK n \in 0..Len(to_pc), garbled \in BOOLEAN :
        /\ Decode(n)
        /\ \/ NoAckHandling(result, garbled)
           \/ AckReceived(result, garbled)
           \/ RefusalReceived(result)
           \/ AckTimeout(result)
        /\ read_error_counter_' = Register(read_error_counter_, result = "success")
        /\ UNCHANGED <<since_heartbeat, write_error_counter_, to_ecu, added, sent, executed>>
  BY DEF ReceiveSucceeds
<1>2. LineTypeOK' /\ ack_' \in {0, 1, NoReply} /\ version_' \in {0, 1, NoReply}
  BY <1>1, DecodeType DEF Inv, LineTypeOK
<1>3. CountersInv'
  <2>1. (result = "success") \in BOOLEAN
    OBVIOUS
  <2> QED
    BY <1>1, <2>1, RegisterOK DEF Inv, CountersInv
<1>4. CASE NoAckHandling(result, garbled)
  <2>1. UNCHANGED <<is_waiting_ack_, since_send, command_queue_, fate, alone>>
    BY <1>4 DEF NoAckHandling
  <2>2. CommandTypeOK'
    BY <1>1, <2>1 DEF Inv, CommandTypeOK
  <2>3. AckTypeOK'
    BY <1>1, <1>2, <2>1, Zenon DEF Inv, AckTypeOK
  <2>4. NoAckDiscarded'
    BY <1>4, <2>1 DEF Inv, NoAckDiscarded, NoAckHandling
  <2> QED
    BY <1>1, <1>2, <1>3, <2>1, <2>2, <2>3, <2>4, BooksUnchanged DEF Inv
<1>5. CASE \E f \in Fates \ {"pending", "overwritten"} : is_waiting_ack_ /\ Resolve(f)
  <2>1. PICK f \in Fates \ {"pending", "overwritten"} : is_waiting_ack_ /\ Resolve(f)
    BY <1>5
  <2>2. CommandTypeOK' /\ QueueIsNewest' /\ NoAckDiscarded' /\ OneOutstanding'
    BY <1>1, <2>1, ResolveStep
  <2>3. AckTypeOK'
    <3>1. since_send' = 0 /\ is_waiting_ack_' = FALSE /\ alone' = FALSE
      BY <2>1 DEF Resolve
    <3>2. since_send' \in 0..(CommandTimeout + 1)
      BY <3>1, TimesAssumption
    <3> QED
      BY <1>1, <1>2, <3>1, <3>2, Zenon DEF Inv, AckTypeOK
  <2> QED
    BY <1>2, <1>3, <2>2, <2>3 DEF Inv
<1> QED
  BY <1>1, <1>4, <1>5 DEF AckReceived, RefusalReceived, AckTimeout, Fates

----------------------------------------------------------------------------
(* The invariant and what follows from it *)

LEMMA NextPreservesInv ==
  ASSUME Inv, [Next]_vars
  PROVE  Inv'
<1>1. ASSUME NEW name \in Names, AddCommandQueue(name) PROVE Inv'
  BY <1>1, AddPreservesInv
<1>2. ASSUME NEW result \in {"success", "network_down"}, SendAll(result) PROVE Inv'
  BY <1>2, SendFrontPreservesInv, SendHeartbeatPreservesInv, CounterPreservesInv DEF SendAll
<1>3. ASSUME NEW result \in ReceiveResults, ReceiveAll(result) PROVE Inv'
  BY <1>3, ReceivePreservesInv, CounterPreservesInv DEF ReceiveAll
<1>4. CASE SendGetVersion \/ SendGetVersionFails
  BY <1>4, GetVersionPreservesInv
<1>5. ASSUME NEW d \in 1..MaxSleep, Elapse(d) PROVE Inv'
  BY <1>5, ElapsePreservesInv
<1>6. CASE Ecu
  BY <1>6, EcuPreservesInv
<1>7. CASE UNCHANGED vars
  BY <1>7 DEF vars, callVars, lineVars, historyVars, Inv, CommandTypeOK, AckTypeOK, LineTypeOK,
     CountersInv, QueueIsNewest, NoAckDiscarded, OneOutstanding, Finished
<1> QED
  BY <1>1, <1>2, <1>3, <1>4, <1>5, <1>6, <1>7 DEF Next

THEOREM Invariance == Spec => []Inv
<1>1. Init => Inv
  BY InitInv
<1>2. Inv /\ [Next]_vars => Inv'
  BY NextPreservesInv
<1> QED
  BY <1>1, <1>2, PTL DEF Spec

(* Every variable keeps its type: in particular the queue stays within     *)
(* kCommandQueueSize and no pop_front is made on an empty queue.           *)
THEOREM TypeCorrect == Spec => []TypeOK
<1>1. Inv => TypeOK
  BY ExactIsOK DEF Inv, TypeOK, CountersInv
<1> QED
  BY <1>1, Invariance, PTL

(* The error counters never drift (ErrorCounter::Register).                *)
THEOREM CountersAreExact == Spec => []CountersExact
<1>1. Inv => CountersExact
  BY ExactIsOK DEF Inv, CountersInv, CountersExact
<1> QED
  BY <1>1, Invariance, PTL

(* The queue holds the newest commands, in order (AddCommandQueue and the  *)
(* pop_front calls of ReceiveAll).                                         *)
THEOREM NothingLost == Spec => []QueueIsNewest
<1>1. Inv => QueueIsNewest
  BY DEF Inv
<1> QED
  BY <1>1, Invariance, PTL

(* No decoded ack is discarded and none is kept for a later command.       *)
THEOREM NoAckIsDiscarded == Spec => []NoAckDiscarded
<1>1. Inv => NoAckDiscarded
  BY DEF Inv
<1> QED
  BY <1>1, Invariance, PTL

(* One command at a time is outstanding (SendAll, is_waiting_ack_).        *)
THEOREM OneIsOutstanding == Spec => []OneOutstanding
<1>1. Inv => OneOutstanding
  BY DEF Inv
<1> QED
  BY <1>1, Invariance, PTL

----------------------------------------------------------------------------
(* No retransmission *)

(* What was sent is older than the front of an idle queue.                 *)
LEMMA SentIsOlder ==
  ASSUME Inv, MaySendCommand, NEW c \in sent
  PROVE  c <= Finished /\ Head(command_queue_) = Finished + 1
<1>1. /\ added \in Seq(Names) /\ command_queue_ \in Seq(Commands)
      /\ command_queue_ # <<>> /\ ~is_waiting_ack_
      /\ Len(command_queue_) <= Len(added)
      /\ \A i \in 1..Len(command_queue_) : command_queue_[i] = Finished + i
      /\ \A i \in 1..Len(command_queue_) : command_queue_[i] \notin sent
      /\ c \in 1..Len(added)
  BY DEF Inv, CommandTypeOK, QueueIsNewest, OneOutstanding, MaySendCommand
<1>2. Head(command_queue_) = Finished + 1
  BY <1>1
<1>3. ASSUME c > Finished PROVE FALSE
  <2>1. c - Finished \in 1..Len(command_queue_)
    BY <1>1, <1>3 DEF Finished
  <2>2. command_queue_[c - Finished] = c
    BY <1>1, <2>1 DEF Finished
  <2> QED
    BY <1>1, <2>1, <2>2
<1> QED
  BY <1>1, <1>2, <1>3 DEF Finished

(* A step that puts a frame on the line is a transmission of the front     *)
(* command, a heartbeat or a version query.                                *)
LEMMA LineGrows ==
  ASSUME Inv, [Next]_vars, Len(to_ecu') > Len(to_ecu), NEW c \in Commands,
         to_ecu'[Len(to_ecu')] = c
  PROVE  SendFront /\ c = Head(command_queue_)
<1>1. ~(UNCHANGED to_ecu)
  BY DEF Inv, LineTypeOK
<1>2. ~ Ecu
  <2>1. Ecu => to_ecu # <<>> /\ to_ecu' = Tail(to_ecu)
    BY DEF Ecu, EcuMissesFrame, EcuAnswers
  <2>2. ASSUME to_ecu # <<>>, to_ecu' = Tail(to_ecu) PROVE FALSE
    BY <2>2, HeadTailProperties DEF Inv, LineTypeOK
  <2> QED
    BY <2>1, <2>2
<1>3. ~ SendHeartbeat
  BY SendCommandType, ConstantFacts DEF SendHeartbeat
<1>4. ~ SendGetVersion
  BY SendCommandType, ConstantFacts DEF SendGetVersion
<1>5. SendFront
  BY <1>1, <1>2, <1>3, <1>4
     DEF Next, AddCommandQueue, SendAll, SendNothing, SendFails, ReceiveAll, ReceiveFails,
         ReceiveSucceeds, SendGetVersionFails, Elapse, vars, lineVars
<1>6. Head(command_queue_) \in Frames
  BY <1>5, HeadTailProperties, ConstantFacts DEF SendFront, MaySendCommand, Inv, CommandTypeOK
<1> QED
  BY <1>5, <1>6, SendCommandType DEF SendFront

(* No command is transmitted after a later one, or again while its ack is  *)
(* awaited, over every overflow, refusal and time-out (SendAll,            *)
(* ReceiveAll).                                                            *)
THEOREM TransmittedInOrder == Spec => SentInOrder
<1> DEFINE InOrder == \A c \in Commands :
             Transmitted(c) => /\ \A other \in sent : other <= c
                               /\ is_waiting_ack_ => c \notin sent
<1>1. Inv /\ [Next]_vars => InOrder
  <2> SUFFICES ASSUME Inv, [Next]_vars, NEW c \in Commands, Transmitted(c)
               PROVE  /\ \A other \in sent : other <= c
                      /\ is_waiting_ack_ => c \notin sent
    OBVIOUS
  <2>1. SendFront /\ c = Head(command_queue_)
    BY LineGrows DEF Transmitted
  <2>2. c \in Nat /\ sent \subseteq Nat /\ Finished \in Int
    BY DEF Inv, CommandTypeOK, Commands, Finished
  <2>3. ASSUME NEW other \in sent PROVE other < c
    <3>1. other <= Finished /\ c = Finished + 1
      BY <2>1, SentIsOlder DEF SendFront
    <3> QED
      BY <3>1, <2>2
  <2> QED
    BY <2>2, <2>3
<1> QED
  BY <1>1, Invariance, PTL DEF Spec, SentInOrder

----------------------------------------------------------------------------
(* Refinement *)

LEMMA FinishedFacts ==
  ASSUME Inv
  PROVE  /\ Len(added) \in Nat /\ Len(command_queue_) \in Nat
         /\ Len(added) - Finished = Len(command_queue_)
         /\ (command_queue_ # <<>>) <=> (Finished < Len(added))
BY EmptySeq DEF Inv, CommandTypeOK, Finished

(* Accepting a command is Accept, or Accept over a full queue.             *)
LEMMA AddIsAccept ==
  ASSUME Inv, NEW name \in Names, AddCommandQueue(name)
  PROVE  Delivery!Accept
<1>1. Len(added') = Len(added) + 1
  BY DEF AddCommandQueue, Inv, CommandTypeOK
<1>2. /\ command_queue_ \in Seq(Commands) /\ Len(added) + 1 \in Commands
      /\ Len(command_queue_) <= QueueSize
  BY SizesAssumption DEF AddCommandQueue, CanAdd, Inv, CommandTypeOK, Commands
<1>3. Finished' = IF Len(command_queue_) < QueueSize THEN Finished ELSE Finished + 1
  <2>1. CASE Len(command_queue_) = QueueSize
    <3>1. command_queue_ # <<>>
      BY <2>1, SizesAssumption
    <3>2. command_queue_' = Append(Tail(command_queue_), Len(added) + 1)
      BY <2>1 DEF AddCommandQueue, QueueFull, PushBack
    <3>3. Len(command_queue_') = Len(command_queue_)
      BY <1>2, <3>1, <3>2, PushOut
    <3> QED
      BY <1>1, <2>1, <3>3, FinishedFacts, SizesAssumption DEF Finished
  <2>2. CASE Len(command_queue_) # QueueSize
    <3>1. command_queue_' = Append(command_queue_, Len(added) + 1)
      BY <2>2 DEF AddCommandQueue, QueueFull, PushBack
    <3>2. Len(command_queue_') = Len(command_queue_) + 1
      BY <1>2, <3>1
    <3> QED
      BY <1>1, <1>2, <2>2, <3>2, FinishedFacts, SizesAssumption DEF Finished
  <2> QED
    BY <2>1, <2>2
<1>4. is_waiting_ack_' = is_waiting_ack_ /\ sent' = sent
  BY DEF AddCommandQueue, callVars
<1> QED
  BY <1>1, <1>3, <1>4, FinishedFacts DEF Delivery!Accept

LEMMA SendIsTransmit ==
  ASSUME Inv, SendFront
  PROVE  Delivery!Transmit
<1>1. ~is_waiting_ack_ /\ is_waiting_ack_' = TRUE /\ Finished < Len(added)
  BY FinishedFacts DEF SendFront, MaySendCommand
<1>2. Head(command_queue_) = Finished + 1
  BY DEF Inv, CommandTypeOK, QueueIsNewest, SendFront, MaySendCommand
<1>3. Finished + 1 \notin sent
  BY SentIsOlder, FinishedFacts DEF SendFront, Finished
<1>4. /\ sent' = sent \cup {Finished + 1}
      /\ Finished' = Finished /\ UNCHANGED added
  BY <1>2 DEF SendFront, Finished
<1> QED
  BY <1>1, <1>3, <1>4 DEF Delivery!Transmit

LEMMA ResolveIsFinish ==
  ASSUME Inv, is_waiting_ack_, NEW f, Resolve(f), UNCHANGED <<added, sent>>
  PROVE  Delivery!Finish
<1>1. command_queue_ # <<>> /\ command_queue_ \in Seq(Commands)
  BY DEF Inv, CommandTypeOK, NoAckDiscarded
<1>2. Len(command_queue_') = Len(command_queue_) - 1
  BY <1>1, HeadTailProperties DEF Resolve
<1>3. Finished < Len(added) /\ Finished' = Finished + 1
  BY <1>1, <1>2, FinishedFacts DEF Finished
<1> QED
  BY <1>3 DEF Delivery!Finish, Resolve

(* The protocol implements the abstract command queue: every call is one   *)
(* of its steps or invisible to it.                                        *)
THEOREM Refinement == Spec => ImplementsDelivery
<1>1. Init => Delivery!Init
  BY DEF Init, Delivery!Init, Finished
<1>2. ASSUME Inv, [Next]_vars PROVE [Delivery!Next]_(Delivery!vars)
  <2> DEFINE Silent == UNCHANGED <<added, command_queue_, is_waiting_ack_, sent>>
  <2>1. Silent => UNCHANGED Delivery!vars
    BY DEF Delivery!vars, Finished
  <2>2. ASSUME NEW name \in Names, AddCommandQueue(name) PROVE Delivery!Next
    BY <1>2, <2>2, AddIsAccept DEF Delivery!Next
  <2>3. ASSUME NEW result \in {"success", "network_down"}, SendAll(result)
        PROVE  Delivery!Next \/ Silent
    <3>1. CASE SendFront
      BY <1>2, <3>1, SendIsTransmit DEF Delivery!Next
    <3>2. CASE SendHeartbeat \/ SendNothing \/ SendFails
      BY <3>2 DEF SendHeartbeat, SendNothing, SendFails, historyVars
    <3> QED
      BY <2>3, <3>1, <3>2 DEF SendAll
  <2>4. ASSUME NEW result \in ReceiveResults, ReceiveAll(result)
        PROVE  Delivery!Next \/ Silent
    <3>1. CASE ReceiveFails
      BY <3>1 DEF ReceiveFails, historyVars
    <3>2. CASE ReceiveSucceeds(result)
      <4>1. \/ UNCHANGED <<command_queue_, is_waiting_ack_>>
            \/ is_waiting_ack_ /\ \E f \in Fates : Resolve(f)
        BY <3>2 DEF ReceiveSucceeds, NoAckHandling, AckReceived, RefusalReceived, AckTimeout, Fates
      <4>2. UNCHANGED <<added, sent>>
        BY <3>2 DEF ReceiveSucceeds
      <4> QED
        BY <1>2, <4>1, <4>2, ResolveIsFinish DEF Delivery!Next
    <3> QED
      BY <2>4, <3>1, <3>2 DEF ReceiveAll
  <2>5. (SendGetVersion \/ SendGetVersionFails \/ Ecu) => Silent
    BY DEF SendGetVersion, SendGetVersionFails, Ecu, EcuMissesFrame, EcuAnswers,
       EcuUnchanged, callVars, historyVars
  <2>6. ASSUME NEW d \in 1..MaxSleep, Elapse(d) PROVE Silent
    BY <2>6 DEF Elapse, historyVars
  <2>7. UNCHANGED vars => Silent
    BY DEF vars, callVars, historyVars
  <2> HIDE DEF Silent
  <2>8. Delivery!Next \/ Silent
    BY <1>2, <2>2, <2>3, <2>4, <2>5, <2>6, <2>7 DEF Next
  <2> QED
    BY <2>1, <2>8
<1> QED
  BY <1>1, <1>2, Invariance, PTL DEF Spec, ImplementsDelivery, Delivery!Spec

----------------------------------------------------------------------------
(* The acknowledgement of a command sent alone *)

Awaited == Head(command_queue_)

(* Only commands that were sent are on their way to the ECU or executed.   *)
SentFirst ==
  /\ executed \subseteq sent
  /\ \A i \in 1..Len(to_ecu) : to_ecu[i] \in Commands => to_ecu[i] \in sent

(* While a command is alone the line holds it, or its answer, or nothing.  *)
OnItsWay == to_ecu = <<Awaited>> /\ to_pc = <<>> /\ Awaited \notin executed
Lost == to_ecu = <<>> /\ to_pc = <<>>
OnItsWayBack ==
  \E value \in {0, 1} :
    /\ to_ecu = <<>>
    /\ to_pc = <<Answer(Awaited, value)>>
    /\ (value = 0) <=> (Awaited \in executed)

Lone == alone => is_waiting_ack_ /\ (OnItsWay \/ Lost \/ OnItsWayBack)

LineInv == SentFirst /\ Lone

LEMMA InitLineInv == Init => LineInv
BY DEF Init, LineInv, SentFirst, Lone

LEMMA SentFirstStep ==
  ASSUME Inv, SentFirst, [Next]_vars
  PROVE  SentFirst'
<1> USE DEF SentFirst
<1>1. ASSUME UNCHANGED <<to_ecu, sent, executed>> PROVE SentFirst'
  BY <1>1
<1>2. ASSUME NEW frame \in Frames, SendCommand(frame), UNCHANGED executed,
             sent \subseteq sent', frame \in Commands => frame \in sent'
      PROVE  SentFirst'
  <2>1. to_ecu \in Seq(Frames)
    BY DEF Inv, LineTypeOK
  <2>2. \A i \in 1..Len(to_ecu') : to_ecu'[i] = frame \/ (i \in 1..Len(to_ecu) /\ to_ecu'[i] = to_ecu[i])
    BY <1>2, <2>1 DEF SendCommand
  <2> QED
    BY <1>2, <2>2
<1>3. CASE SendFront
  <2>1. Head(command_queue_) \in Commands
    BY <1>3, HeadTailProperties DEF SendFront, MaySendCommand, Inv, CommandTypeOK
  <2> QED
    BY <1>2, <1>3, <2>1, ConstantFacts DEF SendFront
<1>4. CASE SendHeartbeat
  BY <1>2, <1>4, ConstantFacts DEF SendHeartbeat
<1>5. CASE SendGetVersion
  BY <1>2, <1>5, ConstantFacts DEF SendGetVersion, historyVars
<1>6. CASE Ecu
  <2>1. /\ to_ecu \in Seq(Frames) /\ to_ecu # <<>> /\ to_ecu' = Tail(to_ecu) /\ sent' = sent
    BY <1>6 DEF Ecu, EcuMissesFrame, EcuAnswers, EcuUnchanged, Inv, LineTypeOK
  <2>2. \A i \in 1..Len(to_ecu') : i + 1 \in 1..Len(to_ecu) /\ to_ecu'[i] = to_ecu[i + 1]
    BY <2>1, HeadTailProperties
  <2>3. Head(to_ecu) \in Commands => Head(to_ecu) \in sent
    BY <2>1
  <2>4. executed' \subseteq executed \cup (Commands \cap {Head(to_ecu)})
    BY <1>6 DEF Ecu, EcuMissesFrame, EcuAnswers
  <2> QED
    BY <2>1, <2>2, <2>3, <2>4
<1> QED
  BY <1>1, <1>3, <1>4, <1>5, <1>6
     DEF Next, AddCommandQueue, SendAll, SendNothing, SendFails, ReceiveAll, ReceiveFails,
         ReceiveSucceeds, SendGetVersionFails, Elapse, vars, lineVars, historyVars

(* The ack flag after a batch that holds the one answer to the command     *)
(* awaited, or nothing.                                                    *)
LEMMA LoneDecode ==
  ASSUME Inv, Lone, alone, NEW n \in 0..Len(to_pc), Decode(n), ack_' # NoReply
  PROVE  /\ ack_' \in {0, 1}
         /\ (ack_' = 0) <=> (Awaited \in executed)
<1> DEFINE batch == SubSeq(to_pc, 1, n)
<1>1. ack_ = NoReply
  BY DEF Inv, NoAckDiscarded, Lone
<1>2. ack_' \in ValueAfter(batch, "rxack", ack_)
  BY DEF Decode
<1>3. LastOf(batch, "rxack") # {}
  BY <1>1, <1>2 DEF ValueAfter
<1>4. PICK i \in LastOf(batch, "rxack") : ack_' = batch[i].value
  BY <1>2, <1>3 DEF ValueAfter
<1>5. i \in DOMAIN batch
  BY DEF LastOf, RepliesOf
<1>6. to_pc \in Seq(Replies) /\ Len(to_pc) \in Nat
  BY DEF Inv, LineTypeOK
<1>7. i \in 1..Len(to_pc) /\ batch[i] = to_pc[i]
  <2>1. \A j \in 1..n : to_pc[j] \in Replies
    BY <1>6, ElementOfSeq
  <2>2. batch \in Seq(Replies) /\ Len(batch) = n /\ \A j \in 1..n : batch[j] = to_pc[j]
    BY <1>6, <2>1, SubSeqProperties
  <2> HIDE DEF batch
  <2> QED
    BY <1>5, <1>6, <2>2
<1>8. OnItsWayBack
  BY <1>7 DEF Lone, OnItsWay, Lost
<1>9. PICK value \in {0, 1} : /\ to_pc = <<Answer(Awaited, value)>>
                              /\ (value = 0) <=> (Awaited \in executed)
  BY <1>8 DEF OnItsWayBack
<1>10. ack_' = value
  <2>1. Len(to_pc) = 1 /\ to_pc[1] = Answer(Awaited, value)
    BY <1>9
  <2>2. i = 1
    BY <1>7, <2>1
  <2>3. ack_' = Answer(Awaited, value).value
    BY <1>4, <1>7, <2>1, <2>2
  <2> QED
    BY <2>3 DEF Answer
<1> QED
  BY <1>9, <1>10

LEMMA LoneStep ==
  ASSUME Inv, SentFirst, Lone, [Next]_vars
  PROVE  Lone'
<1>1. ASSUME UNCHANGED <<to_ecu, to_pc, executed, is_waiting_ack_, command_queue_, alone>>
      PROVE  Lone'
  BY <1>1 DEF Lone, OnItsWay, Lost, OnItsWayBack, Awaited
<1>2. ASSUME alone' = FALSE PROVE Lone'
  BY <1>2 DEF Lone
<1>3. ASSUME NEW name \in Names, AddCommandQueue(name) PROVE Lone'
  <2>1. CASE QueueFull
    BY <1>2, <1>3, <2>1 DEF AddCommandQueue
  <2>2. CASE ~QueueFull /\ alone
    <3>1. command_queue_' = Append(command_queue_, Len(added) + 1)
      BY <1>3, <2>2 DEF AddCommandQueue, PushBack
    <3>2. command_queue_ # <<>> /\ command_queue_ \in Seq(Commands)
      BY <2>2 DEF Lone, Inv, NoAckDiscarded, CommandTypeOK
    <3>3. Len(added) + 1 \in Commands
      BY <1>3, SizesAssumption DEF AddCommandQueue, CanAdd, Inv, CommandTypeOK, Commands
    <3>4. Awaited' = Awaited
      BY <3>1, <3>2, <3>3, EmptySeq DEF Awaited
    <3> QED
      BY <1>3, <2>2, <3>4
         DEF Lone, OnItsWay, Lost, OnItsWayBack, AddCommandQueue, callVars, lineVars
  <2>3. CASE ~QueueFull /\ ~alone
    BY <1>3, <2>3 DEF Lone, AddCommandQueue
  <2> QED
    BY <2>1, <2>2, <2>3
<1>4. CASE SendFront
  <2>1. SUFFICES ASSUME alone' PROVE Lone'
    BY DEF Lone
  <2>2. to_ecu = <<>> /\ to_pc = <<>>
    BY <1>4, <2>1 DEF SendFront
  <2>3. /\ is_waiting_ack_' = TRUE /\ UNCHANGED <<command_queue_, to_pc, executed>>
        /\ to_ecu' = Append(to_ecu, Awaited)
    BY <1>4 DEF SendFront, SendCommand, Awaited
  <2>4. Awaited \notin sent
    BY <1>4, SentIsOlder DEF SendFront, Awaited, Inv, CommandTypeOK, Finished
  <2>5. OnItsWay'
    BY <2>2, <2>3, <2>4 DEF OnItsWay, Awaited, SentFirst
  <2> QED
    BY <2>3, <2>5 DEF Lone
<1>5. CASE SendHeartbeat
  BY <1>2, <1>5 DEF SendHeartbeat
<1>6. CASE SendGetVersion
  BY <1>6 DEF SendGetVersion, historyVars, Lone, Inv, NoAckDiscarded
<1>7. ASSUME NEW result, ReceiveSucceeds(result) PROVE Lone'
  <2>1. PICK n \in 0..Len(to_pc), garbled \in BOOLEAN :
          /\ Decode(n)
          /\ \/ NoAckHandling(result, garbled)
             \/ AckReceived(result, garbled)
             \/ RefusalReceived(result)
             \/ AckTimeout(result)
          /\ UNCHANGED <<to_ecu, executed>>
    BY <1>7 DEF ReceiveSucceeds
  <2>2. CASE NoAckHandling(result, garbled) /\ alone
    <3>1. UNCHANGED <<is_waiting_ack_, command_queue_, alone>> /\ is_waiting_ack_
      BY <2>2 DEF NoAckHandling, Lone
    <3>2. CASE n = 0
      <4>1. to_pc' = to_pc
        BY <2>1, <3>2, SubSeqFull DEF Decode, Inv, LineTypeOK
      <4> QED
        BY <1>1, <2>1, <3>1, <4>1
    <3>3. CASE n # 0
      <4>1. Len(to_pc) = 1 => to_pc' = <<>>
        BY <2>1, <3>3, SubSeqEmpty DEF Decode
      <4>2. OnItsWayBack /\ Len(to_pc) = 1
        BY <2>2, <3>3 DEF Lone, OnItsWay, Lost, OnItsWayBack
      <4>3. Lost'
        BY <2>1, <4>1, <4>2 DEF Lost, OnItsWayBack
      <4> QED
        BY <3>1, <4>3 DEF Lone
    <3> QED
      BY <3>2, <3>3
  <2>3. CASE NoAckHandling(result, garbled) /\ ~alone
    BY <2>3 DEF NoAckHandling, Lone
  <2>4. CASE AckReceived(result, garbled) \/ RefusalReceived(result) \/ AckTimeout(result)
    BY <1>2, <2>4 DEF AckReceived, RefusalReceived, AckTimeout, Resolve
  <2> QED
    BY <2>1, <2>2, <2>3, <2>4
<1>8. CASE Ecu
  <2>1. /\ UNCHANGED <<is_waiting_ack_, command_queue_, alone>>
        /\ to_ecu # <<>> /\ to_ecu' = Tail(to_ecu)
    BY <1>8 DEF Ecu, EcuMissesFrame, EcuAnswers, EcuUnchanged, callVars
  <2>2. SUFFICES ASSUME alone PROVE is_waiting_ack_ /\ (Lost' \/ OnItsWayBack')
    BY <2>1 DEF Lone
  <2>3. to_ecu = <<Awaited>> /\ to_pc = <<>> /\ Awaited \notin executed /\ is_waiting_ack_
    BY <2>1, <2>2 DEF Lone, OnItsWay, Lost, OnItsWayBack
  <2>4. to_ecu' = <<>> /\ Head(to_ecu) = Awaited /\ Awaited' = Awaited
    BY <2>1, <2>3 DEF Awaited
  <2>5. CASE EcuMissesFrame
    BY <2>3, <2>4, <2>5 DEF EcuMissesFrame, Lost
  <2>6. ASSUME NEW value \in {0, 1}, NEW lost \in BOOLEAN, EcuAnswers(value, lost)
        PROVE  Lost' \/ OnItsWayBack'
    <3>1. \/ to_pc' = to_pc
          \/ to_pc' = Append(to_pc, Answer(Awaited, value))
      BY <2>4, <2>6, Zenon DEF EcuAnswers
    <3>2. Awaited \in Commands
      BY <2>3, HeadTailProperties DEF Awaited, Inv, CommandTypeOK, NoAckDiscarded
    <3>3. (value = 0) <=> (Awaited \in executed')
      BY <2>3, <2>4, <2>6, <3>2 DEF EcuAnswers
    <3>4. CASE to_pc' = to_pc
      BY <2>3, <2>4, <3>4 DEF Lost
    <3>5. CASE to_pc' = Append(to_pc, Answer(Awaited, value))
      <4>1. to_pc' = <<Answer(Awaited', value)>>
        BY <2>3, <2>4, <3>5
      <4> QED
        BY <2>4, <3>3, <4>1 DEF OnItsWayBack
    <3> QED
      BY <3>1, <3>4, <3>5
  <2> QED
    BY <1>8, <2>3, <2>5, <2>6 DEF Ecu
<1> QED
  BY <1>1, <1>3, <1>4, <1>5, <1>6, <1>7, <1>8
     DEF Next, SendAll, SendNothing, SendFails, ReceiveAll, ReceiveFails,
         SendGetVersionFails, Elapse, vars, callVars, lineVars, historyVars

(* A command sent on an idle line with nothing after it is completed by    *)
(* the ECU's answer to it (SendAll, SendCommand, ReceiveAll).              *)
THEOREM LoneAck == Spec => LoneAckIsOwn
<1> DEFINE Own == \A c \in Commands :
             alone /\ fate[c] = "pending"
               => /\ fate'[c] = "acked" => c \in executed
                  /\ fate'[c] = "refused" => c \notin executed
<1>1. Inv /\ LineInv /\ [Next]_vars => LineInv'
  BY SentFirstStep, LoneStep DEF LineInv
<1>2. Inv /\ LineInv /\ [Next]_vars => Own
  <2> SUFFICES ASSUME Inv, Lone, [Next]_vars, NEW c \in Commands, alone, fate[c] = "pending"
               PROVE  /\ fate'[c] = "acked" => c \in executed
                      /\ fate'[c] = "refused" => c \notin executed
    BY DEF LineInv
  <2>1. CASE UNCHANGED fate
    BY <2>1
  <2>2. ASSUME NEW name \in Names, AddCommandQueue(name)
        PROVE  fate'[c] \in {"pending", "overwritten"}
    BY <2>2 DEF AddCommandQueue, Inv, CommandTypeOK
  <2>3. ASSUME NEW result, ReceiveSucceeds(result)
        PROVE  /\ fate'[c] = "acked" => c \in executed
               /\ fate'[c] = "refused" => c \notin executed
    <3>1. PICK n \in 0..Len(to_pc), garbled \in BOOLEAN :
            /\ Decode(n)
            /\ \/ NoAckHandling(result, garbled)
               \/ AckReceived(result, garbled)
               \/ RefusalReceived(result)
               \/ AckTimeout(result)
      BY <2>3 DEF ReceiveSucceeds
    <3>2. CASE NoAckHandling(result, garbled)
      BY <3>2 DEF NoAckHandling
    <3>3. ASSUME NEW f, Resolve(f)
          PROVE  fate'[c] = IF c = Awaited THEN f ELSE "pending"
      BY <3>3 DEF Resolve, Awaited, Inv, CommandTypeOK
    <3>4. CASE AckReceived(result, garbled)
      <4>1. ack_' = 0 /\ Resolve("acked")
        BY <3>4 DEF AckReceived
      <4> QED
        BY <3>1, <3>3, <4>1, LoneDecode DEF NoReply
    <3>5. CASE RefusalReceived(result)
      <4>1. ack_' \notin {0, NoReply} /\ Resolve("refused")
        BY <3>5 DEF RefusalReceived
      <4> QED
        BY <3>1, <3>3, <4>1, LoneDecode
    <3>6. CASE AckTimeout(result)
      BY <3>3, <3>6 DEF AckTimeout
    <3> QED
      BY <3>1, <3>2, <3>4, <3>5, <3>6
  <2>4. (SendFront \/ SendHeartbeat \/ SendNothing \/ SendFails \/ ReceiveFails \/ SendGetVersion
           \/ SendGetVersionFails \/ Ecu \/ UNCHANGED vars) => UNCHANGED fate
    BY DEF SendFront, SendHeartbeat, SendNothing, SendFails, ReceiveFails, SendGetVersion,
       SendGetVersionFails, Ecu, EcuMissesFrame, EcuAnswers, EcuUnchanged, vars, historyVars
  <2>5. ASSUME NEW d \in 1..MaxSleep, Elapse(d) PROVE UNCHANGED fate
    BY <2>5 DEF Elapse, historyVars
  <2> QED
    BY <2>1, <2>2, <2>3, <2>4, <2>5 DEF Next, SendAll, ReceiveAll
<1>3. Init => LineInv
  BY InitLineInv
<1> HIDE DEF Own
<1>4. Spec => []LineInv
  BY <1>1, <1>3, Invariance, PTL DEF Spec
<1>5. Spec => [][Own]_vars
  BY <1>2, <1>4, Invariance, PTL DEF Spec
<1> QED
  BY <1>5, PTL DEF LoneAckIsOwn, Own


----------------------------------------------------------------------------
(* The invariant *)

OwnTypeOK ==
  /\ stage \in Stages
  /\ point \in Points
  /\ ok \in BOOLEAN
  /\ elapsed \in 0..(CommandTimeout + 1)
  /\ led_color_ \in Colors
  /\ shown \in [Commands -> Colors]

(* Where the thread is tells how many commands it has accepted.            *)
Progress ==
  /\ stage = "init" => Len(added) = 0
  /\ At("start", "queue") => Len(added) < 3
  /\ stage = "start" /\ point # "queue" => Len(added) = 3
  /\ stage \in {"run", "stop"} => Len(added) >= 3
  /\ stage = "run" => Finished >= 3 \/ (~ok /\ point = "receive")
  /\ stage = "stop" => ~ok /\ point = "send"

(* The commands of Start come first, and the LED commands after them.      *)
SetupFirst ==
  /\ \A c \in 1..Len(added) : c <= 3 => added[c] # "ledc_"
  /\ LedCommands # {} => Finished >= 3

(* The timer of ProcessCommandQueue is ahead of the ack timer.             *)
Timers ==
  stage = "start" =>
    /\ point = "queue" => ~is_waiting_ack_
    /\ is_waiting_ack_ => since_send <= elapsed
    /\ point \in {"send", "sleep"} => elapsed <= ProcessTimeout
    /\ point = "receive" => elapsed <= ProcessTimeout + MaxSleep

(* What can have become of a command of Start.                             *)
SetupFates ==
  \A c \in Setup :
    \/ fate[c] \in {"pending", "acked", "refused"}
    \/ fate[c] = "overwritten" /\ stage \in {"stop", "exit"} /\ LedCommands = {}

(* The newest LED command, once sent, was sent with the present colour.    *)
NewestColor ==
  \A c \in LedCommands \cap sent :
    (\A d \in LedCommands : d <= c) => shown[c] = led_color_

MainInv ==
  /\ Inv /\ SentFirst
  /\ OwnTypeOK /\ Progress /\ SetupFirst /\ Timers /\ SetupFates /\ NewestColor

----------------------------------------------------------------------------
(* Facts about the constants *)

LEMMA SetupFacts ==
  /\ Len(SetupCommands) = 3
  /\ Setup = 1..3 /\ Setup \subseteq Commands
  /\ \A i \in 1..3 : SetupCommands[i] \in Names /\ SetupCommands[i] # "ledc_"
  /\ "stop_" \in Names /\ "ledc_" \in Names
<1>1. Len(SetupCommands) = 3 /\ Setup = 1..3
  BY DEF SetupCommands, Setup
<1>2. /\ SetupCommands[1] = "time_" /\ SetupCommands[2] = "mute_"
      /\ SetupCommands[3] = "start"
  BY DEF SetupCommands
<1>3. \A i \in 1..3 : i = 1 \/ i = 2 \/ i = 3
  OBVIOUS
<1>4. \A i \in 1..3 : SetupCommands[i] \in Names /\ SetupCommands[i] # "ledc_"
  BY <1>2, <1>3, SetupAssumption
<1> QED
  BY <1>1, <1>4, NamesAssumption, SetupAssumption, SizesAssumption DEF Commands

----------------------------------------------------------------------------
(* The node is a user of the protocol *)

LEMMA MainInitImpliesInit == MainInit => Init
BY DEF MainInit

LEMMA MainStepIsStep ==
  ASSUME Inv, Progress, [MainNext]_allVars
  PROVE  [Next]_vars
<1>1. CASE QueryVersion \/ QueryVersionFails
  BY <1>1 DEF QueryVersion, QueryVersionFails, Next
<1>2. CASE AwaitVersion
  BY <1>2 DEF AwaitVersion, Next
<1>3. CASE QueueSetup
  <2>1. Len(added) + 1 \in 1..3
    BY <1>3 DEF QueueSetup, Progress, Inv, CommandTypeOK
  <2> QED
    BY <1>3, <2>1, SetupFacts DEF QueueSetup, Next
<1>4. CASE QueueStop
  BY <1>4, SetupFacts DEF QueueStop, Next
<1>5. CASE ProcessSend
  BY <1>5 DEF ProcessSend, Send, Next
<1>6. CASE ProcessReceive
  BY <1>6 DEF ProcessReceive, Next
<1>7. ASSUME NEW result \in ReceiveResults, RunReceive(result) PROVE Next
  BY <1>7 DEF RunReceive, Next
<1>8. ASSUME NEW result \in {"success", "network_down"}, RunSend(result) PROVE Next
  BY <1>8 DEF RunSend, Send, Next
<1>9. CASE SpinLed
  BY <1>9, SetupFacts DEF SpinLed, LedCallback, Next
<1>10. CASE Sleep
  BY <1>10 DEF Sleep, Next
<1>11. CASE ProcessReturns \/ SpinIdle \/ Shutdown \/ Terminated \/ UNCHANGED allVars
  BY <1>11 DEF ProcessReturns, SpinIdle, Shutdown, Terminated, allVars
<1>12. CASE EcuStep
  BY <1>12 DEF EcuStep, Next
<1> QED
  BY <1>1, <1>2, <1>3, <1>4, <1>5, <1>6, <1>7, <1>8, <1>9, <1>10, <1>11, <1>12
     DEF MainNext, Main

----------------------------------------------------------------------------
(* What the calls do to the state that the invariant speaks of *)

LEMMA BookFacts ==
  ASSUME Inv
  PROVE  /\ Len(added) \in Nat /\ Len(command_queue_) \in Nat /\ Finished \in Nat
         /\ Finished + Len(command_queue_) = Len(added)
         /\ (command_queue_ = <<>>) <=> (Finished = Len(added))
         /\ is_waiting_ack_ => Finished < Len(added)
         /\ \A c \in Commands : (fate[c] = "pending") <=> (c > Finished)
         /\ command_queue_ # <<>> => Head(command_queue_) = Finished + 1
BY EmptySeq DEF Inv, CommandTypeOK, QueueIsNewest, NoAckDiscarded, Finished

LEMMA AddEffect ==
  ASSUME Inv, NEW name \in Names, AddCommandQueue(name)
  PROVE  /\ Len(added') = Len(added) + 1
         /\ \A i \in 1..Len(added') : added'[i] = IF i = Len(added) + 1 THEN name ELSE added[i]
         /\ Finished' = IF Len(command_queue_) = QueueSize THEN Finished + 1 ELSE Finished
         /\ \A c \in Commands : fate'[c] = IF Len(command_queue_) = QueueSize /\ c = Finished + 1
                                           THEN "overwritten" ELSE fate[c]
         /\ UNCHANGED <<sent, executed, is_waiting_ack_, since_send>>
<1>1. /\ Len(added') = Len(added) + 1
      /\ \A i \in 1..Len(added') : added'[i] = IF i = Len(added) + 1 THEN name ELSE added[i]
  BY DEF AddCommandQueue, Inv, CommandTypeOK
<1>2. Finished' = IF Len(command_queue_) = QueueSize THEN Finished + 1 ELSE Finished
  <2>1. Delivery!Accept
    BY AddIsAccept
  <2>2. Len(command_queue_) <= QueueSize /\ Len(command_queue_) \in Nat
    BY DEF Inv, CommandTypeOK
  <2> QED
    BY <2>1, <2>2, FinishedFacts, SizesAssumption DEF Delivery!Accept
<1>3. ASSUME NEW c \in Commands
      PROVE  fate'[c] = IF Len(command_queue_) = QueueSize /\ c = Finished + 1
                        THEN "overwritten" ELSE fate[c]
  <2>1. CASE Len(command_queue_) = QueueSize
    <3>1. command_queue_ # <<>>
      BY <2>1, SizesAssumption
    <3>2. Head(command_queue_) = Finished + 1
      BY <3>1, BookFacts
    <3>3. fate' = [fate EXCEPT ![Finished + 1] = "overwritten"]
      BY <2>1, <3>2 DEF AddCommandQueue, QueueFull
    <3> QED
      BY <2>1, <3>3 DEF Inv, CommandTypeOK
  <2>2. CASE Len(command_queue_) # QueueSize
    BY <2>2 DEF AddCommandQueue, QueueFull
  <2> QED
    BY <2>1, <2>2
<1>4. UNCHANGED <<sent, executed, is_waiting_ack_, since_send>>
  BY DEF AddCommandQueue, callVars
<1> QED
  BY <1>1, <1>2, <1>3, <1>4

LEMMA LedAfterAdd ==
  ASSUME Inv, NEW name \in Names, AddCommandQueue(name)
  PROVE  LedCommands' = IF name = "ledc_" THEN LedCommands \cup {Len(added) + 1} ELSE LedCommands
<1>1. \A i : i \in LedCommands'
             <=> i \in LedCommands \/ (i = Len(added) + 1 /\ name = "ledc_")
  BY AddEffect, BookFacts DEF LedCommands
<1> HIDE DEF LedCommands
<1>2. CASE name = "ledc_"
  BY <1>1, <1>2
<1>3. CASE name # "ledc_"
  BY <1>1, <1>3
<1> QED
  BY <1>2, <1>3

LEMMA SendEffect ==
  ASSUME Inv, NEW result, SendAll(result)
  PROVE  /\ UNCHANGED <<added, command_queue_, fate, executed>>
         /\ is_waiting_ack_' => since_send' = 0 \/ (is_waiting_ack_ /\ since_send' = since_send)
         /\ Finished' = Finished
<1>1. UNCHANGED <<added, command_queue_, fate, executed>>
  BY DEF SendAll, SendFront, SendHeartbeat, SendNothing, SendFails, historyVars
<1>2. SendFront => since_send' = 0
  BY DEF SendFront
<1>3. ~SendFront => UNCHANGED <<is_waiting_ack_, since_send>>
  BY DEF SendAll, SendHeartbeat, SendNothing, SendFails
<1> QED
  BY <1>1, <1>2, <1>3 DEF Finished

LEMMA ReceiveEffect ==
  ASSUME Inv, NEW result, ReceiveAll(result)
  PROVE  /\ UNCHANGED <<added, sent, executed>>
         /\ is_waiting_ack_' => is_waiting_ack_ /\ since_send' = since_send
         /\ ~is_waiting_ack_ => Finished' = Finished /\ UNCHANGED fate
         /\ Finished' \in {Finished, Finished + 1}
         /\ \A c \in Commands : c # Finished + 1 => fate'[c] = fate[c]
         /\ \A c \in Commands :
              fate'[c] \in {fate[c], "acked", "refused"} \/ (is_waiting_ack_ /\ AckTimedOut)
<1>1. CASE ReceiveFails
  <2>1. UNCHANGED <<added, command_queue_, is_waiting_ack_, since_send, fate, sent, executed>>
    BY <1>1 DEF ReceiveFails, historyVars
  <2> QED
    BY <2>1 DEF Finished
<1>2. ASSUME is_waiting_ack_, NEW f, Resolve(f), UNCHANGED added
      PROVE  /\ is_waiting_ack_' = FALSE /\ Finished' = Finished + 1
             /\ \A c \in Commands : fate'[c] = IF c = Finished + 1 THEN f ELSE fate[c]
  <2>1. command_queue_ # <<>> /\ command_queue_ \in Seq(Commands)
    BY <1>2 DEF Inv, CommandTypeOK, NoAckDiscarded
  <2>2. Len(command_queue_') = Len(command_queue_) - 1
    BY <1>2, <2>1, HeadTailProperties DEF Resolve
  <2>3. Finished' = Finished + 1
    BY <1>2, <2>2, BookFacts DEF Finished
  <2>4. fate' = [fate EXCEPT ![Finished + 1] = f]
    BY <1>2, <2>1, BookFacts DEF Resolve
  <2> QED
    BY <1>2, <2>3, <2>4 DEF Resolve, Inv, CommandTypeOK
<1>3. CASE ReceiveSucceeds(result)
  <2>1. UNCHANGED <<added, sent, executed>>
    BY <1>3 DEF ReceiveSucceeds
  <2>2. \/ UNCHANGED <<is_waiting_ack_, since_send, command_queue_, fate>>
        \/ is_waiting_ack_ /\ (Resolve("acked") \/ Resolve("refused"))
        \/ is_waiting_ack_ /\ AckTimedOut /\ Resolve("timed_out")
    BY <1>3 DEF ReceiveSucceeds, NoAckHandling, AckReceived, RefusalReceived, AckTimeout
  <2>3. CASE UNCHANGED <<is_waiting_ack_, since_send, command_queue_, fate>>
    BY <2>1, <2>3 DEF Finished
  <2>4. CASE is_waiting_ack_ /\ (Resolve("acked") \/ Resolve("refused"))
    BY <1>2, <2>1, <2>4
  <2>5. CASE is_waiting_ack_ /\ AckTimedOut /\ Resolve("timed_out")
    BY <1>2, <2>1, <2>5
  <2> QED
    BY <2>2, <2>3, <2>4, <2>5
<1> QED
  BY <1>1, <1>3 DEF ReceiveAll

LEMMA VersionEffect ==
  ASSUME Inv, SendGetVersion \/ SendGetVersionFails
  PROVE  /\ UNCHANGED <<added, command_queue_, fate, sent, executed, is_waiting_ack_, since_send>>
         /\ Finished' = Finished
BY DEF SendGetVersion, SendGetVersionFails, historyVars, Finished

LEMMA ElapseEffect ==
  ASSUME Inv, NEW d \in 1..MaxSleep, Elapse(d)
  PROVE  /\ UNCHANGED <<added, command_queue_, fate, sent, executed, is_waiting_ack_>>
         /\ Finished' = Finished
         /\ is_waiting_ack_ => since_send' = AtMost(CommandTimeout + 1, since_send + d)
BY DEF Elapse, historyVars, Finished

LEMMA EcuEffect ==
  ASSUME Inv, Ecu
  PROVE  /\ UNCHANGED <<added, command_queue_, fate, sent, is_waiting_ack_, since_send>>
         /\ Finished' = Finished
BY DEF Ecu, EcuMissesFrame, EcuAnswers, EcuUnchanged, callVars, Finished

----------------------------------------------------------------------------
(* The steps of the node *)

NodeInv == OwnTypeOK /\ Progress /\ SetupFirst /\ Timers /\ SetupFates /\ NewestColor

(* What a step that accepts nothing leaves to show.                        *)
LEMMA NoNewCommand ==
  ASSUME MainInv, UNCHANGED added, Finished' \in {Finished, Finished + 1}
  PROVE  SetupFirst' /\ LedCommands' = LedCommands
<1>1. LedCommands' = LedCommands
  BY DEF LedCommands
<1>2. Finished \in Nat
  BY BookFacts DEF MainInv
<1> QED
  BY <1>1, <1>2 DEF MainInv, SetupFirst

(* The colours stay right when nothing is sent or asked for.               *)
LEMMA SameColors ==
  ASSUME MainInv, UNCHANGED <<added, sent, led_color_, shown>>
  PROVE  NewestColor'
BY DEF MainInv, NewestColor, LedCommands

LEMMA SameFates ==
  ASSUME MainInv, UNCHANGED <<added, fate>>, stage' = stage \/ stage' = "exit" \/ stage = "init"
         \/ (stage = "start" /\ stage' = "run")
  PROVE  SetupFates'
BY DEF MainInv, SetupFates, LedCommands, Setup

LEMMA MainInitNodeInv == MainInit => NodeInv
<1> SUFFICES ASSUME MainInit PROVE NodeInv
  OBVIOUS
<1>1. /\ added = <<>> /\ sent = {} /\ fate = [c \in Commands |-> "pending"]
      /\ command_queue_ = <<>> /\ stage = "init" /\ point = "send"
  BY DEF MainInit, Init
<1>2. OwnTypeOK
  <2>1. elapsed \in 0..(CommandTimeout + 1)
    BY TimesAssumption DEF MainInit
  <2>2. shown \in [Commands -> Colors]
    BY ColorsAssumption DEF MainInit
  <2> QED
    BY <2>1, <2>2, ColorsAssumption DEF MainInit, OwnTypeOK, Stages, Points
<1>3. Progress
  BY <1>1 DEF Progress, At
<1>4. LedCommands = {}
  BY <1>1 DEF LedCommands
<1>5. SetupFirst
  BY <1>1, <1>4 DEF SetupFirst
<1>6. Timers
  BY <1>1 DEF Timers
<1>7. SetupFates
  BY <1>1, SetupFacts DEF SetupFates
<1>8. NewestColor
  BY <1>1 DEF NewestColor
<1> QED
  BY <1>2, <1>3, <1>5, <1>6, <1>7, <1>8 DEF NodeInv

(* In init nothing is queued, so no ack is awaited.                        *)
LEMMA NothingAwaitedInInit ==
  ASSUME MainInv, stage = "init"
  PROVE  ~is_waiting_ack_
BY BookFacts DEF MainInv, Progress

LEMMA QueryVersionStep ==
  ASSUME MainInv, QueryVersion \/ QueryVersionFails
  PROVE  NodeInv'
<1>1. /\ stage = "init" /\ point = "send"
      /\ UNCHANGED <<ok, elapsed, led_color_, shown>>
      /\ \/ stage' = "init" /\ point' = "receive"
         \/ stage' = "exit" /\ point' = "failure"
      /\ SendGetVersion \/ SendGetVersionFails
  BY DEF QueryVersion, QueryVersionFails, At, Goto, Exit
<1>2. UNCHANGED <<added, fate, sent>> /\ Finished' = Finished
  BY <1>1, VersionEffect DEF MainInv
<1>3. OwnTypeOK'
  BY <1>1 DEF MainInv, OwnTypeOK, Stages, Points
<1>4. Progress' /\ Timers'
  BY <1>1, <1>2 DEF MainInv, Progress, Timers, At
<1> QED
  BY <1>1, <1>2, <1>3, <1>4, BookFacts, NoNewCommand, SameColors, SameFates DEF NodeInv, MainInv

LEMMA AwaitVersionStep ==
  ASSUME MainInv, AwaitVersion
  PROVE  NodeInv'
<1>1. /\ stage = "init" /\ point = "receive"
      /\ UNCHANGED <<ok, elapsed, led_color_, shown>>
      /\ \/ stage' = "exit" /\ point' \in {"failure", "crash"}
         \/ stage' = "start" /\ point' = "queue"
         \/ stage' = "init" /\ point' = "sleep"
      /\ \E result \in ReceiveResults : ReceiveAll(result)
  BY DEF AwaitVersion, At, Goto, Exit
<1>2. ~is_waiting_ack_
  BY <1>1, NothingAwaitedInInit
<1>3. /\ UNCHANGED <<added, fate, sent>> /\ Finished' = Finished
      /\ ~is_waiting_ack_'
  BY <1>1, <1>2, ReceiveEffect DEF MainInv
<1>4. OwnTypeOK'
  BY <1>1 DEF MainInv, OwnTypeOK, Stages, Points
<1>5. Progress' /\ Timers'
  BY <1>1, <1>3 DEF MainInv, Progress, Timers, At
<1> QED
  BY <1>1, <1>3, <1>4, <1>5, BookFacts, NoNewCommand, SameColors, SameFates DEF NodeInv, MainInv

LEMMA QueueSetupStep ==
  ASSUME MainInv, QueueSetup
  PROVE  NodeInv'
<1> DEFINE name == SetupCommands[Len(added) + 1]
<1>1. /\ stage = "start" /\ point = "queue" /\ stage' = "start"
      /\ point' = IF Len(added') = 3 THEN "send" ELSE "queue"
      /\ elapsed' = 0
      /\ UNCHANGED <<ok, led_color_, shown>>
      /\ AddCommandQueue(name)
  BY SetupFacts DEF QueueSetup, At
<1>2. Len(added) \in 0..2 /\ name \in Names /\ name # "ledc_"
  BY <1>1, BookFacts, SetupFacts DEF MainInv, Progress, At
<1>3. Inv /\ ~is_waiting_ack_
  BY <1>1 DEF MainInv, Timers
<1>4. Len(command_queue_) # QueueSize
  BY <1>2, <1>3, BookFacts, SetupAssumption, SizesAssumption
<1> HIDE DEF name
<1>5. /\ Len(added') = Len(added) + 1
      /\ \A i \in 1..Len(added') : added'[i] = IF i = Len(added) + 1 THEN name ELSE added[i]
      /\ Finished' = Finished
      /\ \A c \in Commands : fate'[c] = fate[c]
      /\ UNCHANGED <<sent, is_waiting_ack_>>
  BY <1>1, <1>2, <1>3, <1>4, AddEffect
<1>6. LedCommands' = LedCommands
  BY <1>1, <1>2, <1>3, LedAfterAdd
<1>7. OwnTypeOK'
  <2>1. elapsed' \in 0..(CommandTimeout + 1)
    BY <1>1, TimesAssumption
  <2>2. stage' \in Stages /\ point' \in Points
    BY <1>1 DEF Stages, Points
  <2> QED
    BY <1>1, <2>1, <2>2 DEF MainInv, OwnTypeOK
<1>8. Progress'
  BY <1>1, <1>2, <1>5 DEF Progress, At
<1>9. SetupFirst'
  BY <1>2, <1>5, <1>6 DEF MainInv, SetupFirst
<1>10. Timers'
  BY <1>1, <1>3, <1>5, ProcessTimeoutAssumption DEF Timers
<1>11. SetupFates'
  BY <1>1, <1>5, <1>6, SetupFacts DEF MainInv, SetupFates
<1>12. NewestColor'
  BY <1>1, <1>5, <1>6 DEF MainInv, NewestColor
<1> QED
  BY <1>7, <1>8, <1>9, <1>10, <1>11, <1>12 DEF NodeInv

LEMMA QueueStopStep ==
  ASSUME MainInv, QueueStop
  PROVE  NodeInv'
<1>1. /\ stage = "run" /\ stage' = "stop" /\ point' = "send" /\ ~ok
      /\ elapsed' = 0
      /\ UNCHANGED <<ok, led_color_, shown>>
      /\ AddCommandQueue("stop_")
  BY DEF QueueStop, At, Goto
<1>2. Inv /\ Len(added) >= 3 /\ Len(added) \in Nat /\ Finished \in Nat
  BY <1>1, BookFacts DEF MainInv, Progress
<1>3. /\ Len(added') = Len(added) + 1
      /\ \A i \in 1..Len(added') : added'[i] = IF i = Len(added) + 1 THEN "stop_" ELSE added[i]
      /\ Finished' \in {Finished, Finished + 1}
      /\ \A c \in Commands : \/ fate'[c] = fate[c]
                             \/ c = Finished + 1 /\ fate'[c] = "overwritten"
      /\ UNCHANGED sent
  BY <1>1, <1>2, AddEffect, SetupFacts
<1>4. LedCommands' = LedCommands
  BY <1>1, <1>2, LedAfterAdd, SetupFacts
<1>5. OwnTypeOK'
  <2>1. elapsed' \in 0..(CommandTimeout + 1)
    BY <1>1, TimesAssumption
  <2>2. stage' \in Stages /\ point' \in Points
    BY <1>1 DEF Stages, Points
  <2> QED
    BY <1>1, <2>1, <2>2 DEF MainInv, OwnTypeOK
<1>6. Progress' /\ Timers'
  BY <1>1, <1>2, <1>3 DEF Progress, Timers, At
<1>7. SetupFirst'
  BY <1>2, <1>3, <1>4 DEF MainInv, SetupFirst
<1>8. SetupFates'
  <2>1. SUFFICES ASSUME NEW c \in Setup
                 PROVE  \/ fate'[c] \in {"pending", "acked", "refused"}
                        \/ fate'[c] = "overwritten" /\ LedCommands = {}
    BY <1>1, <1>4 DEF SetupFates
  <2>2. c \in Commands /\ c <= 3
    BY SetupFacts
  <2>3. CASE fate'[c] = fate[c]
    BY <1>1, <2>3 DEF MainInv, SetupFates
  <2>4. CASE c = Finished + 1 /\ fate'[c] = "overwritten"
    BY <1>2, <2>2, <2>4 DEF MainInv, SetupFirst
  <2> QED
    BY <1>3, <2>2, <2>3, <2>4
<1>9. NewestColor'
  BY <1>1, <1>3, <1>4 DEF MainInv, NewestColor
<1> QED
  BY <1>5, <1>6, <1>7, <1>8, <1>9 DEF NodeInv

LEMMA ProcessReturnsStep ==
  ASSUME MainInv, ProcessReturns
  PROVE  NodeInv'
<1>1. /\ stage \in {"start", "stop"} /\ point = "send"
      /\ command_queue_ = <<>> \/ ~ok
      /\ \/ stage = "start" /\ stage' = "run" /\ point' = "receive"
         \/ stage' = "exit" /\ point' = "success"
      /\ UNCHANGED <<vars, ok, elapsed, led_color_, shown>>
  BY DEF ProcessReturns, QueueProcessed, Goto, Exit
<1>2. UNCHANGED <<added, command_queue_, fate, sent>> /\ Finished' = Finished
  BY <1>1 DEF vars, historyVars, Finished
<1>3. OwnTypeOK'
  BY <1>1 DEF MainInv, OwnTypeOK, Stages, Points
<1>4. Progress'
  <2>1. CASE stage' = "run"
    <3>1. stage = "start" /\ Len(added) = 3
      BY <1>1, <2>1 DEF MainInv, Progress
    <3> QED
      BY <1>1, <1>2, <2>1, <3>1, BookFacts DEF MainInv, Progress, At
  <2>2. CASE stage' = "exit"
    BY <2>2 DEF Progress, At
  <2> QED
    BY <1>1, <2>1, <2>2
<1>5. Timers'
  BY <1>1 DEF Timers
<1> QED
  BY <1>1, <1>2, <1>3, <1>4, <1>5, BookFacts, NoNewCommand, SameColors, SameFates DEF NodeInv, MainInv

(* A transmission records the colour it carries.                           *)
LEMMA SendColors ==
  ASSUME MainInv, NEW result, Send(result), UNCHANGED led_color_
  PROVE  NewestColor' /\ shown' \in [Commands -> Colors]
<1>1. /\ SendAll(result)
      /\ shown' = [c \in Commands |-> IF c \in sent' \ sent THEN led_color_ ELSE shown[c]]
  BY DEF Send
<1>2. UNCHANGED added
  BY <1>1, SendEffect DEF MainInv
<1>3. LedCommands' = LedCommands
  BY <1>2 DEF LedCommands
<1>4. LedCommands \subseteq Commands
  BY BookFacts, SizesAssumption DEF MainInv, Inv, CommandTypeOK, LedCommands, Commands
<1>5. NewestColor'
  <2> SUFFICES ASSUME NEW c \in LedCommands \cap sent', \A d \in LedCommands : d <= c
               PROVE  shown'[c] = led_color_
    BY <1>3 DEF NewestColor
  <2>1. CASE c \in sent
    BY <1>1, <1>4, <2>1 DEF MainInv, NewestColor
  <2>2. CASE c \notin sent
    BY <1>1, <1>4, <2>2
  <2> QED
    BY <2>1, <2>2
<1>6. shown' \in [Commands -> Colors]
  BY <1>1 DEF MainInv, OwnTypeOK
<1> QED
  BY <1>5, <1>6

LEMMA ProcessSendStep ==
  ASSUME MainInv, ProcessSend
  PROVE  NodeInv'
<1>1. PICK result \in {"success", "network_down"} :
        /\ stage \in {"start", "stop"} /\ point = "send" /\ ok
        /\ Send(result)
        /\ \/ stage' = "exit" /\ point' = "failure"
           \/ stage' = stage /\ point' = "sleep"
        /\ UNCHANGED <<ok, elapsed, led_color_>>
  BY DEF ProcessSend, QueueProcessed, Goto, Exit
<1>2. stage = "start" /\ elapsed <= ProcessTimeout
  BY <1>1 DEF MainInv, Progress, Timers
<1>3. /\ UNCHANGED <<added, fate>> /\ Finished' = Finished
      /\ is_waiting_ack_' => since_send' = 0 \/ (is_waiting_ack_ /\ since_send' = since_send)
  BY <1>1, SendEffect DEF MainInv, Send
<1>4. OwnTypeOK'
  BY <1>1, SendColors DEF MainInv, OwnTypeOK, Stages, Points
<1>5. Progress'
  BY <1>1, <1>2, <1>3 DEF MainInv, Progress, At
<1>6. Timers'
  BY <1>1, <1>2, <1>3 DEF MainInv, Timers, OwnTypeOK
<1> QED
  BY <1>1, <1>3, <1>4, <1>5, <1>6, BookFacts, NoNewCommand, SendColors, SameFates DEF NodeInv, MainInv

(* Wherever a Receive is made, no command of Start is given up.            *)
LEMMA SetupFatesAfterReceive ==
  ASSUME MainInv, NEW result, ReceiveAll(result),
         \/ Finished >= 3
         \/ stage = "start" /\ point = "receive",
         stage' = stage \/ stage' = "exit"
  PROVE  SetupFates'
<1>1. UNCHANGED added
  BY ReceiveEffect DEF MainInv
<1>2. LedCommands' = LedCommands
  BY <1>1 DEF LedCommands
<1>3. SUFFICES ASSUME NEW c \in Setup
               PROVE  \/ fate'[c] = fate[c]
                      \/ fate'[c] \in {"acked", "refused"}
  BY <1>2 DEF MainInv, SetupFates, Setup
<1>4. c \in Commands /\ c \in 1..3 /\ Finished \in Nat
  BY BookFacts, SetupFacts DEF MainInv
<1>5. CASE Finished >= 3
  BY <1>4, <1>5, ReceiveEffect DEF MainInv
<1>6. CASE stage = "start" /\ point = "receive"
  <2>1. ASSUME is_waiting_ack_, AckTimedOut PROVE FALSE
    <3>1. since_send <= elapsed /\ elapsed <= ProcessTimeout + MaxSleep
      BY <1>6, <2>1 DEF MainInv, Timers
    <3>2. since_send > CommandTimeout
      BY <2>1 DEF AckTimedOut
    <3>3. since_send \in Nat /\ elapsed \in Nat
      BY DEF MainInv, Inv, AckTypeOK, OwnTypeOK
    <3> QED
      BY <3>1, <3>2, <3>3, TimesAssumption, ProcessTimeoutAssumption
  <2> QED
    BY <1>4, <2>1, ReceiveEffect DEF MainInv
<1> QED
  BY <1>5, <1>6

LEMMA ProcessReceiveStep ==
  ASSUME MainInv, ProcessReceive
  PROVE  NodeInv'
<1>1. PICK result \in ReceiveResults :
        /\ stage \in {"start", "stop"} /\ point = "receive"
        /\ ReceiveAll(result)
        /\ \/ stage' = "exit" /\ point' = "failure"
           \/ stage' = stage /\ point' = "send" /\ ~ProcessExpired
        /\ UNCHANGED <<ok, elapsed, led_color_, shown>>
  BY DEF ProcessReceive, Goto, Exit
<1>2. stage = "start"
  BY <1>1 DEF MainInv, Progress
<1>3. /\ UNCHANGED <<added, sent>> /\ Finished' \in {Finished, Finished + 1}
      /\ is_waiting_ack_' => is_waiting_ack_ /\ since_send' = since_send
  BY <1>1, ReceiveEffect DEF MainInv
<1>4. OwnTypeOK'
  BY <1>1 DEF MainInv, OwnTypeOK, Stages, Points
<1>5. Progress'
  BY <1>1, <1>2, <1>3 DEF MainInv, Progress, At
<1>6. Timers'
  <2>1. ~ProcessExpired => elapsed <= ProcessTimeout
    BY ProcessTimeoutAssumption DEF ProcessExpired, MainInv, OwnTypeOK
  <2> QED
    BY <1>1, <1>2, <1>3, <2>1 DEF MainInv, Timers
<1>7. SetupFates'
  BY <1>1, <1>2, SetupFatesAfterReceive
<1> QED
  BY <1>1, <1>3, <1>4, <1>5, <1>6, <1>7, NoNewCommand, SameColors DEF NodeInv

LEMMA RunReceiveStep ==
  ASSUME MainInv, NEW result \in ReceiveResults, RunReceive(result)
  PROVE  NodeInv'
<1>1. /\ stage = "run" /\ point = "receive" /\ ok /\ stage' = "run" /\ point' = "send"
      /\ ReceiveAll(result)
      /\ UNCHANGED <<ok, elapsed, led_color_, shown>>
  BY DEF RunReceive, At, Goto
<1>2. Finished >= 3 /\ Finished \in Nat
  BY <1>1, BookFacts DEF MainInv, Progress
<1>3. /\ UNCHANGED <<added, sent>> /\ Finished' \in {Finished, Finished + 1}
  BY <1>1, ReceiveEffect DEF MainInv
<1>4. OwnTypeOK'
  BY <1>1 DEF MainInv, OwnTypeOK, Stages, Points
<1>5. Progress' /\ Timers'
  BY <1>1, <1>2, <1>3 DEF MainInv, Progress, Timers, At
<1>6. SetupFates'
  BY <1>1, <1>2, SetupFatesAfterReceive
<1> QED
  BY <1>1, <1>3, <1>4, <1>5, <1>6, NoNewCommand, SameColors DEF NodeInv

LEMMA RunSendStep ==
  ASSUME MainInv, NEW result \in {"success", "network_down"}, RunSend(result)
  PROVE  NodeInv'
<1>1. /\ stage = "run" /\ point = "send" /\ stage' = "run" /\ point' = "spin"
      /\ Send(result)
      /\ UNCHANGED <<ok, elapsed, led_color_>>
  BY DEF RunSend, At, Goto
<1>2. UNCHANGED <<added, fate>> /\ Finished' = Finished
  BY <1>1, SendEffect DEF MainInv, Send
<1>3. OwnTypeOK'
  BY <1>1, SendColors DEF MainInv, OwnTypeOK, Stages, Points
<1>4. Progress' /\ Timers'
  BY <1>1, <1>2 DEF MainInv, Progress, Timers, At
<1> QED
  BY <1>1, <1>2, <1>3, <1>4, BookFacts, NoNewCommand, SendColors, SameFates DEF NodeInv, MainInv

LEMMA SpinIdleStep ==
  ASSUME MainInv, SpinIdle
  PROVE  NodeInv'
<1>1. /\ stage = "run" /\ point = "spin" /\ stage' = "run" /\ point' = "sleep"
      /\ UNCHANGED <<vars, ok, elapsed, led_color_, shown>>
  BY DEF SpinIdle, At, Goto
<1>2. UNCHANGED <<added, command_queue_, fate, sent>> /\ Finished' = Finished
  BY <1>1 DEF vars, historyVars, Finished
<1>3. OwnTypeOK'
  BY <1>1 DEF MainInv, OwnTypeOK, Stages, Points
<1>4. Progress' /\ Timers'
  BY <1>1, <1>2 DEF MainInv, Progress, Timers, At
<1> QED
  BY <1>1, <1>2, <1>3, <1>4, BookFacts, NoNewCommand, SameColors, SameFates DEF NodeInv, MainInv

LEMMA SpinLedStep ==
  ASSUME MainInv, SpinLed
  PROVE  NodeInv'
<1>1. /\ stage = "run" /\ point = "spin" /\ stage' = "run" /\ point' = "sleep"
      /\ led_color_' \in Colors
      /\ AddCommandQueue("ledc_")
      /\ UNCHANGED <<ok, elapsed, shown>>
  BY DEF SpinLed, LedCallback, At, Goto
<1>2. Inv /\ Finished >= 3 /\ Finished \in Nat /\ Len(added) \in Nat /\ Len(added) >= 3
  BY <1>1, BookFacts DEF MainInv, Progress
<1>3. /\ Len(added') = Len(added) + 1
      /\ \A i \in 1..Len(added') : added'[i] = IF i = Len(added) + 1 THEN "ledc_" ELSE added[i]
      /\ Finished' \in {Finished, Finished + 1}
      /\ \A c \in Commands : c # Finished + 1 => fate'[c] = fate[c]
      /\ UNCHANGED sent
  BY <1>1, <1>2, AddEffect, SetupFacts
<1>4. LedCommands' = LedCommands \cup {Len(added) + 1}
  BY <1>1, <1>2, LedAfterAdd, SetupFacts
<1>5. OwnTypeOK'
  BY <1>1 DEF MainInv, OwnTypeOK, Stages, Points
<1>6. Progress' /\ Timers'
  BY <1>1, <1>2, <1>3 DEF Progress, Timers, At
<1>7. SetupFirst'
  BY <1>2, <1>3 DEF MainInv, SetupFirst
<1>8. SetupFates'
  <2>1. ASSUME NEW c \in Setup PROVE fate'[c] \in {"pending", "acked", "refused"}
    <3>1. c \in Commands /\ c # Finished + 1
      BY <1>2, SetupFacts
    <3> QED
      BY <1>1, <1>3, <3>1 DEF MainInv, SetupFates
  <2> QED
    BY <2>1 DEF SetupFates, Setup
<1>9. NewestColor'
  <2>1. Len(added) + 1 \notin sent
    BY <1>2 DEF Inv, OneOutstanding
  <2>2. LedCommands \subseteq 1..Len(added)
    BY DEF LedCommands
  <2> QED
    BY <1>2, <1>3, <1>4, <2>1, <2>2 DEF NewestColor
<1> QED
  BY <1>5, <1>6, <1>7, <1>8, <1>9 DEF NodeInv

LEMMA SleepStep ==
  ASSUME MainInv, Sleep
  PROVE  NodeInv'
<1>1. PICK d \in 1..MaxSleep :
        /\ point = "sleep" /\ stage' = stage /\ point' = "receive"
        /\ Elapse(d)
        /\ elapsed' = IF stage = "run" THEN 0 ELSE AtMost(CommandTimeout + 1, elapsed + d)
        /\ UNCHANGED <<ok, led_color_, shown>>
  BY DEF Sleep, Goto
<1>2. /\ UNCHANGED <<added, fate, sent, is_waiting_ack_>> /\ Finished' = Finished
      /\ is_waiting_ack_ => since_send' = AtMost(CommandTimeout + 1, since_send + d)
  BY <1>1, ElapseEffect DEF MainInv
<1>3. since_send \in Nat /\ elapsed \in Nat /\ d \in 1..MaxSleep /\ elapsed <= CommandTimeout + 1
  BY TimesAssumption DEF MainInv, Inv, AckTypeOK, OwnTypeOK
<1>4. elapsed' \in 0..(CommandTimeout + 1)
  BY <1>1, <1>3, TimesAssumption DEF AtMost
<1>5. OwnTypeOK'
  BY <1>1, <1>4 DEF MainInv, OwnTypeOK, Points
<1>6. Progress'
  BY <1>1, <1>2 DEF MainInv, Progress, At
<1>7. Timers'
  <2> SUFFICES ASSUME stage = "start"
               PROVE  /\ is_waiting_ack_ => since_send' <= elapsed'
                      /\ elapsed' <= ProcessTimeout + MaxSleep
    BY <1>1, <1>2 DEF Timers
  <2>1. elapsed <= ProcessTimeout /\ (is_waiting_ack_ => since_send <= elapsed)
    BY <1>1 DEF MainInv, Timers
  <2>2. elapsed' = AtMost(CommandTimeout + 1, elapsed + d)
    BY <1>1
  <2> QED
    BY <1>2, <1>3, <2>1, <2>2, TimesAssumption, ProcessTimeoutAssumption DEF AtMost
<1> QED
  BY <1>1, <1>2, <1>5, <1>6, <1>7, BookFacts, NoNewCommand, SameColors, SameFates DEF NodeInv, MainInv

(* The shutdown signal, the ECU and stuttering.                            *)
LEMMA OtherStep ==
  ASSUME MainInv, Shutdown \/ EcuStep \/ Terminated \/ UNCHANGED allVars
  PROVE  NodeInv'
<1>1. /\ UNCHANGED <<added, command_queue_, fate, sent, is_waiting_ack_, since_send>>
      /\ Finished' = Finished
  BY EcuEffect DEF MainInv, Shutdown, EcuStep, Terminated, allVars, vars, callVars, historyVars,
     Finished
<1>2. /\ UNCHANGED <<stage, point, elapsed, led_color_, shown>>
      /\ ok' = ok \/ ok' = FALSE
  BY DEF Shutdown, EcuStep, Terminated, allVars, mainVars
<1>3. OwnTypeOK'
  BY <1>2 DEF MainInv, OwnTypeOK
<1>4. Progress' /\ Timers'
  BY <1>1, <1>2 DEF MainInv, Progress, Timers, At
<1> QED
  BY <1>1, <1>2, <1>3, <1>4, BookFacts, NoNewCommand, SameColors, SameFates DEF NodeInv, MainInv

LEMMA MainStepPreservesMainInv ==
  ASSUME MainInv, [MainNext]_allVars
  PROVE  MainInv'
<1>1. [Next]_vars
  BY MainStepIsStep DEF MainInv
<1>2. Inv' /\ SentFirst'
  BY <1>1, NextPreservesInv, SentFirstStep DEF MainInv
<1>3. NodeInv'
  BY QueryVersionStep, AwaitVersionStep, QueueSetupStep, QueueStopStep, ProcessReturnsStep,
     ProcessSendStep, ProcessReceiveStep, RunReceiveStep, RunSendStep, SpinIdleStep, SpinLedStep,
     SleepStep, OtherStep DEF MainNext, Main
<1> QED
  BY <1>2, <1>3 DEF MainInv, NodeInv

----------------------------------------------------------------------------
(* Theorems *)

THEOREM MainInvariance == MainSpec => []MainInv
<1>1. MainInit => MainInv
  BY MainInitImpliesInit, InitInv, InitLineInv, MainInitNodeInv DEF MainInv, NodeInv, LineInv
<1>2. MainInv /\ [MainNext]_allVars => MainInv'
  BY MainStepPreservesMainInv
<1> QED
  BY <1>1, <1>2, PTL DEF MainSpec

(* The node makes only the calls PowerEcuProtocol models: every behaviour  *)
(* of main() is one of the protocol, and inherits its properties.          *)
THEOREM ImplementsProtocol == MainSpec => Spec
<1>1. MainInit => Init
  BY MainInitImpliesInit
<1>2. MainInv /\ [MainNext]_allVars => [Next]_vars
  BY MainStepIsStep DEF MainInv
<1> QED
  BY <1>1, <1>2, MainInvariance, PTL DEF MainSpec, Spec

(* The node's variables keep their types in every stage of main().         *)
THEOREM MainTypeCorrect == MainSpec => []MainTypeOK
<1>1. MainInv => MainTypeOK
  BY ExactIsOK DEF MainInv, OwnTypeOK, MainTypeOK, Inv, TypeOK, CountersInv
<1> QED
  BY <1>1, MainInvariance, PTL

(* The error rates that end the loops of main() are exact.                 *)
THEOREM MainCountersAreExact == MainSpec => []CountersExact
BY ImplementsProtocol, CountersAreExact, PTL

(* No command of Start is given up silently, and each was answered before  *)
(* an LED command can be accepted (Start, ProcessCommandQueue).            *)
THEOREM SetupIsAnswered == MainSpec => []SetupAnswered
<1>1. MainInv => SetupAnswered
  <2> SUFFICES ASSUME MainInv
               PROVE  /\ \A c \in Setup : fate[c] # "timed_out"
                      /\ LedCommands # {} => \A c \in Setup : fate[c] \in {"acked", "refused"}
    BY DEF SetupAnswered
  <2>1. \A c \in Setup : fate[c] # "timed_out"
    BY DEF MainInv, SetupFates
  <2>2. ASSUME LedCommands # {}, NEW c \in Setup PROVE fate[c] \in {"acked", "refused"}
    <3>1. Finished >= 3 /\ Finished \in Nat
      BY <2>2, BookFacts DEF MainInv, SetupFirst
    <3>2. c \in Commands /\ c \in 1..3
      BY SetupFacts
    <3>3. fate[c] # "pending"
      BY <3>1, <3>2, BookFacts DEF MainInv
    <3> QED
      BY <2>2, <3>3 DEF MainInv, SetupFates
  <2> QED
    BY <2>1, <2>2
<1> QED
  BY <1>1, MainInvariance, PTL

(* The newest LED command, once carried out, carried the colour asked for  *)
(* last (LedCommandSubscriber::Callback, SendCommand).                     *)
THEOREM LedColorConverges == MainSpec => []LedConverges
<1>1. MainInv => LedConverges
  BY DEF MainInv, SentFirst, NewestColor, LedConverges
<1> QED
  BY <1>1, MainInvariance, PTL

=============================================================================
