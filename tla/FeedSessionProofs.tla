------------------------- MODULE FeedSessionProofs -------------------------
(***************************************************************************)
(* Theorems about FeedSession, for every policy, every pair of thresholds, *)
(* every set of batch sizes and every number of records.  The step lemmas  *)
(* show that each part of IInv survives every action.                      *)
(***************************************************************************)
EXTENDS FeedSession, SequenceTheorems, FiniteSetTheorems, TLAPS

(* What is left of a sequence after its first n elements.                  *)
LEMMA DropProperties ==
  ASSUME NEW s \in Seq(Nat), NEW n \in 0 .. Len(s)
  PROVE  /\ Drop(s, n) \in Seq(Nat)
         /\ Len(Drop(s, n)) = Len(s) - n
         /\ \A i \in 1 .. Len(s) - n : Drop(s, n)[i] = s[n + i]
<1>1. \A i \in n + 1 .. Len(s) : s[i] \in Nat
  OBVIOUS
<1> QED  BY <1>1, SubSeqProperties DEF Drop

(* The first n elements of a sequence.                                     *)
LEMMA TakeProperties ==
  ASSUME NEW s \in Seq(Nat), NEW n \in 0 .. Len(s)
  PROVE  /\ Take(s, n) \in Seq(Nat)
         /\ Len(Take(s, n)) = n
         /\ \A i \in 1 .. n : Take(s, n)[i] = s[i]
<1>1. \A i \in 1 .. n : s[i] \in Nat
  OBVIOUS
<1> QED  BY <1>1, SubSeqProperties DEF Take

(* The ticks among the frames of a buffer can be counted.                  *)
LEMMA TicksFinite ==
  ASSUME NEW s \in Seq(Nat)
  PROVE  /\ IsFiniteSet(Ticks(s)) /\ Ticks(s) \subseteq Nat
         /\ Cardinality(Ticks(s)) \in Nat
<1>1. IsFiniteSet(1 .. Len(s))
  BY FS_Interval
<1>2. s \in Surjection(1 .. Len(s), ElementsOf(s))
  BY DEF Surjection, ElementsOf
<1>3. IsFiniteSet(ElementsOf(s))
  BY <1>1, <1>2, FS_Surjection
<1>4. Ticks(s) \in SUBSET ElementsOf(s)
  BY DEF Ticks
<1>5. ElementsOf(s) \subseteq Nat
  BY DEF ElementsOf
<1>6. IsFiniteSet(Ticks(s))
  BY <1>3, <1>4, FS_Subset
<1> QED  BY <1>4, <1>5, <1>6, FS_CardinalityType

(* The frames of the batch in hand carry the numbers reserved for it.      *)
LEMMA BatchInHandProperties ==
  ASSUME NumbersOK, batch < nextSequence
  PROVE  /\ BatchInHand \in Seq(Nat)
         /\ Len(BatchInHand) = batch
         /\ \A i \in 1 .. batch : BatchInHand[i] = nextSequence - batch + i - 1
<1>1. \A i \in 1 .. batch : nextSequence - batch + i - 1 \in Nat
  BY DEF NumbersOK
<1>2. BatchInHand \in [1 .. batch -> Nat]
  BY <1>1 DEF BatchInHand
<1> QED  BY <1>2, SeqDef DEF BatchInHand, NumbersOK

(* How one sequence of numbers extends, joins or continues another.        *)
NatElements(s) == Len(s) \in Nat /\ \A i \in 1 .. Len(s) : s[i] \in Nat

Joined(u, s, n, m) ==
  /\ Len(u) = Len(s) + m
  /\ \A i \in 1 .. Len(s) : u[i] = s[i]
  /\ \A i \in Len(s) + 1 .. Len(s) + m : u[i] = n + i - Len(s) - 1

Rest(u, s, b) ==
  /\ Len(u) = Len(s) - b
  /\ \A i \in 1 .. Len(s) - b : u[i] = s[b + i]

Grown(u, w, x) ==
  /\ Len(u) = Len(w) + 1
  /\ u[Len(w) + 1] = x
  /\ \A i \in 1 .. Len(w) : u[i] = w[i]

LEMMA NatSequence ==
  ASSUME NEW s \in Seq(Nat)
  PROVE  NatElements(s)
BY DEF NatElements

LEMMA JoinedProperties ==
  ASSUME NEW s \in Seq(Nat), NEW t \in Seq(Nat), NEW n \in Nat,
         \A i \in 1 .. Len(t) : t[i] = n + i - 1
  PROVE  (s \o t) \in Seq(Nat) /\ Joined(s \o t, s, n, Len(t))
<1>1. (s \o t) \in Seq(Nat) /\ Len(s \o t) = Len(s) + Len(t)
  BY ConcatProperties
<1>2. Len(s) \in Nat /\ Len(t) \in Nat
  OBVIOUS
<1>3. ASSUME NEW i \in 1 .. Len(s) PROVE (s \o t)[i] = s[i]
  <2>1. i \in 1 .. Len(s) + Len(t) /\ i <= Len(s)
    BY <1>2
  <2> QED  BY <2>1, ConcatProperties
<1>4. ASSUME NEW i \in Len(s) + 1 .. Len(s) + Len(t)
      PROVE  (s \o t)[i] = n + i - Len(s) - 1
  <2>1. i \in 1 .. Len(s) + Len(t) /\ ~ (i <= Len(s)) /\ i - Len(s) \in 1 .. Len(t)
    BY <1>2
  <2>2. (s \o t)[i] = t[i - Len(s)]
    BY <2>1, ConcatProperties
  <2>3. t[i - Len(s)] = n + (i - Len(s)) - 1
    BY <2>1
  <2> QED  BY <1>2, <2>1, <2>2, <2>3
<1> QED  BY <1>1, <1>3, <1>4 DEF Joined

LEMMA GrownProperties ==
  ASSUME NEW s \in Seq(Nat), NEW x \in Nat
  PROVE  Append(s, x) \in Seq(Nat) /\ Grown(Append(s, x), s, x)
BY AppendProperties DEF Grown

LEMMA RestProperties ==
  ASSUME NEW s \in Seq(Nat), NEW n \in 0 .. Len(s)
  PROVE  Drop(s, n) \in Seq(Nat) /\ Rest(Drop(s, n), s, n)
BY DropProperties DEF Rest

(* Frames appended with fresh numbers keep every order the tape relies on. *)
LEMMA FlushKeepsOrder ==
  ASSUME NEW s, NEW u, NEW w, NEW n \in Nat, NEW m \in Nat, NEW k \in Nat,
         NatElements(s), NatElements(w), Joined(u, s, n, m),
         Increasing(s), Below(s, n), Below(w, n), Precedes(w, s, k)
  PROVE  /\ Increasing(u) /\ Below(u, n + m) /\ Below(w, n + m) /\ Precedes(w, u, k)
<1>0. Len(s) \in Nat /\ Len(w) \in Nat /\ Len(u) = Len(s) + m
  BY DEF NatElements, Joined
<1>1. ASSUME NEW i \in 1 .. Len(s)
      PROVE  i \in 1 .. Len(u) /\ u[i] = s[i] /\ s[i] \in Nat /\ s[i] < n
  BY <1>0 DEF NatElements, Joined, Below
<1>2. ASSUME NEW i \in 1 .. Len(u), i > Len(s)
      PROVE  u[i] = n + i - Len(s) - 1 /\ n <= u[i] /\ u[i] < n + m
  <2>1. i \in Len(s) + 1 .. Len(s) + m
    BY <1>0, <1>2
  <2>2. u[i] = n + i - Len(s) - 1
    BY <2>1 DEF Joined
  <2> QED  BY <1>0, <2>1, <2>2
<1>3. ASSUME NEW i \in 1 .. Len(w) PROVE w[i] \in Nat /\ w[i] < n
  BY DEF NatElements, Below
<1>4. Increasing(u)
  <2> SUFFICES ASSUME NEW i \in 1 .. Len(u), NEW j \in 1 .. Len(u), i < j
               PROVE  u[i] < u[j]
    BY DEF Increasing
  <2>1. CASE j <= Len(s)
    <3>1. i \in 1 .. Len(s) /\ j \in 1 .. Len(s)
      BY <1>0, <2>1
    <3>2. s[i] < s[j]
      BY <3>1 DEF Increasing
    <3> QED  BY <1>1, <3>1, <3>2
  <2>2. CASE i <= Len(s) /\ j > Len(s)
    <3>1. i \in 1 .. Len(s)
      BY <1>0, <2>2
    <3>2. u[i] \in Nat /\ u[i] < n
      BY <1>1, <3>1
    <3>3. u[j] = n + j - Len(s) - 1 /\ n <= u[j]
      BY <1>2, <2>2
    <3> QED  BY <1>0, <3>2, <3>3
  <2>3. CASE i > Len(s)
    <3>1. u[i] = n + i - Len(s) - 1
      BY <1>2, <2>3
    <3>2. u[j] = n + j - Len(s) - 1
      BY <1>0, <1>2, <2>3
    <3> QED  BY <1>0, <3>1, <3>2
  <2> QED  BY <1>0, <2>1, <2>2, <2>3
<1>5. Below(u, n + m)
  <2> SUFFICES ASSUME NEW i \in 1 .. Len(u) PROVE u[i] < n + m
    BY DEF Below
  <2>1. CASE i <= Len(s)
    <3>1. i \in 1 .. Len(s)
      BY <1>0, <2>1
    <3>2. u[i] \in Nat /\ u[i] < n
      BY <1>1, <3>1
    <3> QED  BY <3>2
  <2>2. CASE i > Len(s)
    BY <1>2, <2>2
  <2> QED  BY <1>0, <2>1, <2>2
<1>6. Below(w, n + m)
  <2> SUFFICES ASSUME NEW i \in 1 .. Len(w) PROVE w[i] < n + m
    BY DEF Below
  <2>1. w[i] \in Nat /\ w[i] < n
    BY <1>3
  <2> QED  BY <2>1
<1>7. Precedes(w, u, k)
  <2> SUFFICES ASSUME NEW i \in 1 .. Len(w), NEW j \in 1 .. Len(u), k < j
               PROVE  w[i] < u[j]
    BY DEF Precedes
  <2>1. CASE j <= Len(s)
    <3>1. j \in 1 .. Len(s)
      BY <1>0, <2>1
    <3>2. w[i] < s[j]
      BY <3>1 DEF Precedes
    <3> QED  BY <1>1, <3>1, <3>2
  <2>2. CASE j > Len(s)
    <3>1. w[i] \in Nat /\ w[i] < n
      BY <1>3
    <3>2. u[j] = n + j - Len(s) - 1 /\ n <= u[j]
      BY <1>2, <2>2
    <3> QED  BY <1>0, <3>1, <3>2
  <2> QED  BY <1>0, <2>1, <2>2
<1> QED  BY <1>4, <1>5, <1>6, <1>7

(* Consuming what was sent or discarded keeps the order.                   *)
LEMMA DropKeepsOrder ==
  ASSUME NEW s, NEW u, NEW w, NEW n \in Nat, NatElements(s), NatElements(w),
         NEW b \in 0 .. Len(s), NEW k \in 0 .. b, Rest(u, s, b),
         Increasing(s), Below(s, n), Precedes(w, s, k)
  PROVE  Increasing(u) /\ Below(u, n) /\ Precedes(w, u, 0)
<1> Len(s) \in Nat /\ Len(w) \in Nat /\ Len(u) = Len(s) - b
  BY DEF NatElements, Rest
<1>0. ASSUME NEW i \in 1 .. Len(u)
      PROVE  b + i \in 1 .. Len(s) /\ k < b + i /\ u[i] = s[b + i]
  BY DEF Rest
<1>1. Increasing(u)
  <2> SUFFICES ASSUME NEW i \in 1 .. Len(u), NEW j \in 1 .. Len(u), i < j
               PROVE  u[i] < u[j]
    BY DEF Increasing
  <2>1. u[i] = s[b + i] /\ u[j] = s[b + j]
    BY <1>0
  <2>2. b + i \in 1 .. Len(s) /\ b + j \in 1 .. Len(s) /\ b + i < b + j
    BY <1>0
  <2>3. s[b + i] < s[b + j]
    BY <2>2 DEF Increasing
  <2> QED  BY <2>1, <2>3
<1>2. Below(u, n)
  <2> SUFFICES ASSUME NEW i \in 1 .. Len(u) PROVE u[i] < n
    BY DEF Below
  <2>1. b + i \in 1 .. Len(s) /\ u[i] = s[b + i]
    BY <1>0
  <2>2. s[b + i] < n
    BY <2>1 DEF Below
  <2> QED  BY <2>1, <2>2
<1>3. Precedes(w, u, 0)
  <2> SUFFICES ASSUME NEW i \in 1 .. Len(w), NEW j \in 1 .. Len(u), 0 < j
               PROVE  w[i] < u[j]
    BY DEF Precedes
  <2>1. b + j \in 1 .. Len(s) /\ k < b + j /\ u[j] = s[b + j]
    BY <1>0
  <2>2. w[i] < s[b + j]
    BY <2>1 DEF Precedes
  <2> QED  BY <2>1, <2>2
<1> QED  BY <1>1, <1>2, <1>3

(* Sending the next frame of the pipe keeps the order.                     *)
LEMMA SendKeepsOrder ==
  ASSUME NEW s, NEW u, NEW w, NEW n \in Nat, NEW k \in Nat, k < Len(s),
         NatElements(s), NatElements(w), Grown(u, w, s[k + 1]),
         Increasing(s), Increasing(w), Below(s, n), Below(w, n), Precedes(w, s, k)
  PROVE  Increasing(u) /\ Below(u, n) /\ Precedes(u, s, k + 1)
<1>0. Len(s) \in Nat /\ Len(w) \in Nat /\ Len(u) = Len(w) + 1
  BY DEF NatElements, Grown
<1>1. ASSUME NEW i \in 1 .. Len(u), i # Len(w) + 1
      PROVE  i \in 1 .. Len(w) /\ u[i] = w[i]
  <2>1. i \in 1 .. Len(w)
    BY <1>0, <1>1
  <2> QED  BY <2>1 DEF Grown
<1>2. u[Len(w) + 1] = s[k + 1] /\ k + 1 \in 1 .. Len(s) /\ k < k + 1
  BY <1>0 DEF Grown
<1>3. Increasing(u)
  <2> SUFFICES ASSUME NEW i \in 1 .. Len(u), NEW j \in 1 .. Len(u), i < j
               PROVE  u[i] < u[j]
    BY DEF Increasing
  <2>1. i \in 1 .. Len(w) /\ u[i] = w[i]
    <3>1. i # Len(w) + 1
      BY <1>0
    <3> QED  BY <1>1, <3>1
  <2>2. CASE j # Len(w) + 1
    <3>1. j \in 1 .. Len(w) /\ u[j] = w[j]
      BY <1>1, <2>2
    <3>2. w[i] < w[j]
      BY <2>1, <3>1 DEF Increasing
    <3> QED  BY <2>1, <3>1, <3>2
  <2>3. CASE j = Len(w) + 1
    <3>1. w[i] < s[k + 1]
      BY <1>2, <2>1 DEF Precedes
    <3>2. u[j] = s[k + 1]
      BY <1>2, <2>3
    <3> QED  BY <2>1, <3>1, <3>2
  <2> QED  BY <2>2, <2>3
<1>4. Below(u, n)
  <2> SUFFICES ASSUME NEW i \in 1 .. Len(u) PROVE u[i] < n
    BY DEF Below
  <2>1. CASE i # Len(w) + 1
    <3>1. i \in 1 .. Len(w) /\ u[i] = w[i]
      BY <1>1, <2>1
    <3>2. w[i] < n
      BY <3>1 DEF Below
    <3> QED  BY <3>1, <3>2
  <2>2. CASE i = Len(w) + 1
    <3>1. s[k + 1] < n
      BY <1>2 DEF Below
    <3>2. u[i] = s[k + 1]
      BY <1>2, <2>2
    <3> QED  BY <3>1, <3>2
  <2> QED  BY <2>1, <2>2
<1>5. Precedes(u, s, k + 1)
  <2> SUFFICES ASSUME NEW i \in 1 .. Len(u), NEW j \in 1 .. Len(s), k + 1 < j
               PROVE  u[i] < s[j]
    BY DEF Precedes
  <2>1. CASE i # Len(w) + 1
    <3>1. i \in 1 .. Len(w) /\ u[i] = w[i]
      BY <1>1, <2>1
    <3>2. k < j
      BY <1>0
    <3>3. w[i] < s[j]
      BY <3>1, <3>2 DEF Precedes
    <3> QED  BY <3>1, <3>3
  <2>2. CASE i = Len(w) + 1
    <3>1. s[k + 1] < s[j]
      BY <1>2 DEF Increasing
    <3>2. u[i] = s[k + 1]
      BY <1>2, <2>2
    <3> QED  BY <3>1, <3>2
  <2> QED  BY <2>1, <2>2
<1> QED  BY <1>3, <1>4, <1>5

(* No step makes a flag anything but a Boolean. *)
LEMMA FlagsStep == FlagsOK /\ [Next]_vars => FlagsOK'
<1> SUFFICES ASSUME FlagsOK, [Next]_vars PROVE FlagsOK'
  OBVIOUS
<1> USE SessionAssumption DEF publisherVars, pipeVars, loopVars, closeVars, episodeVars, tapeVars, FlagsOK
<1>1. ASSUME NEW n \in BatchSizes, ReadState(n) PROVE FlagsOK'
  BY <1>1, Zenon DEF ReadState
<1>2. CASE Start
  BY <1>2, Zenon DEF Start, SessionStart
<1>3. CASE SkipBatch
  BY <1>3, Zenon DEF SkipBatch, Skip
<1>4. CASE RefuseBatch
  BY <1>4, Zenon DEF RefuseBatch, Skip
<1>5. CASE EncodeBatch
  BY <1>5, Zenon DEF EncodeBatch
<1>6. CASE FlushBatch
  BY <1>6, Zenon DEF FlushBatch
<1>7. CASE BeginEpisode
  BY <1>7, Zenon DEF BeginEpisode
<1>8. CASE EncodeFails
  BY <1>8, Zenon DEF EncodeFails, BeginClose
<1>9. CASE PublisherTearsDown
  BY <1>9, Zenon DEF PublisherTearsDown, Teardown
<1>10. CASE ReadFrames
  BY <1>10, Zenon DEF ReadFrames
<1>11. CASE ReadNothing
  BY <1>11, Zenon DEF ReadNothing
<1>12. CASE DiscardBuffer
  BY <1>12, Zenon DEF DiscardBuffer, AdvanceTo
<1>13. CASE TakeBuffer
  BY <1>13, Zenon DEF TakeBuffer
<1>14. CASE SendFrame
  BY <1>14, Zenon DEF SendFrame, AdvanceTo
<1>15. CASE SendHeartbeat
  BY <1>15, Zenon DEF SendHeartbeat
<1>16. CASE SendFails
  BY <1>16, Zenon DEF SendFails, MarkClosing
<1>17. CASE LoopCanceled
  BY <1>17, Zenon DEF LoopCanceled
<1>18. CASE Finish
  BY <1>18, Zenon DEF Finish
<1>19. CASE HeartbeatTimer
  BY <1>19, Zenon DEF HeartbeatTimer
<1>20. CASE OnHeartbeatDue
  BY <1>20, Zenon DEF OnHeartbeatDue
<1>21. CASE FlushResumes
  BY <1>21, Zenon DEF FlushResumes
<1>22. CASE FlushEnds
  BY <1>22, Zenon DEF FlushEnds, MarkClosing
<1>23. CASE FlushCanceled
  BY <1>23, Zenon DEF FlushCanceled
<1>24. CASE DelayWins
  BY <1>24, Zenon DEF DelayWins
<1>25. CASE ClearDiscard
  BY <1>25, Zenon DEF ClearDiscard
<1>26. CASE EndEpisode
  BY <1>26, Zenon DEF EndEpisode
<1>27. CASE CountSlowConsumer
  BY <1>27, Zenon DEF CountSlowConsumer
<1>28. CASE HandlerCloses
  BY <1>28, Zenon DEF HandlerCloses, BeginClose
<1>29. CASE HandlerTearsDown
  BY <1>29, Zenon DEF HandlerTearsDown, Teardown
<1>30. CASE PeerGone
  BY <1>30, Zenon DEF PeerGone, BeginClose
<1>31. CASE ReceiverTearsDown
  BY <1>31, Zenon DEF ReceiverTearsDown, Teardown
<1>32. CASE ReceiveCanceled
  BY <1>32, Zenon DEF ReceiveCanceled
<1>33. CASE StopBegins
  BY <1>33, Zenon DEF StopBegins, BeginClose
<1>34. CASE StopTearsDown
  BY <1>34, Zenon DEF StopTearsDown, Teardown
<1>35. CASE UNCHANGED vars
  BY <1>35, Zenon DEF vars
<1> QED
  BY <1>1, <1>2, <1>3, <1>4, <1>5, <1>6, <1>7, <1>8, <1>9, <1>10, <1>11, <1>12, <1>13, <1>14, <1>15, <1>16, <1>17, <1>18, <1>19, <1>20, <1>21, <1>22, <1>23, <1>24, <1>25, <1>26, <1>27, <1>28, <1>29, <1>30, <1>31, <1>32, <1>33, <1>34, <1>35 DEF Next, Publisher, WriteLoop, Backpressure, Others

(* No step takes a thread, a flush or a state to a place that is not listed. *)
LEMMA PlacesStep == PlacesOK /\ [Next]_vars => PlacesOK'
<1> SUFFICES ASSUME PlacesOK, [Next]_vars PROVE PlacesOK'
  OBVIOUS
<1> USE SessionAssumption DEF publisherVars, pipeVars, loopVars, closeVars, episodeVars, tapeVars, PlacesOK, Reasons
<1>1. ASSUME NEW n \in BatchSizes, ReadState(n) PROVE PlacesOK'
  BY <1>1 DEF ReadState
<1>2. CASE Start
  BY <1>2 DEF Start, SessionStart
<1>3. CASE SkipBatch
  BY <1>3 DEF SkipBatch, Skip
<1>4. CASE RefuseBatch
  BY <1>4 DEF RefuseBatch, Skip
<1>5. CASE EncodeBatch
  BY <1>5 DEF EncodeBatch
<1>6. CASE FlushBatch
  BY <1>6 DEF FlushBatch
<1>7. CASE BeginEpisode
  BY <1>7 DEF BeginEpisode
<1>8. CASE EncodeFails
  BY <1>8 DEF EncodeFails, BeginClose
<1>9. CASE PublisherTearsDown
  BY <1>9 DEF PublisherTearsDown, Teardown
<1>10. CASE ReadFrames
  BY <1>10 DEF ReadFrames
<1>11. CASE ReadNothing
  BY <1>11 DEF ReadNothing
<1>12. CASE DiscardBuffer
  BY <1>12 DEF DiscardBuffer, AdvanceTo
<1>13. CASE TakeBuffer
  BY <1>13 DEF TakeBuffer
<1>14. CASE SendFrame
  BY <1>14 DEF SendFrame, AdvanceTo
<1>15. CASE SendHeartbeat
  BY <1>15 DEF SendHeartbeat
<1>16. CASE SendFails
  BY <1>16 DEF SendFails, MarkClosing
<1>17. CASE LoopCanceled
  BY <1>17 DEF LoopCanceled
<1>18. CASE Finish
  BY <1>18 DEF Finish
<1>19. CASE HeartbeatTimer
  BY <1>19 DEF HeartbeatTimer
<1>20. CASE OnHeartbeatDue
  BY <1>20 DEF OnHeartbeatDue
<1>21. CASE FlushResumes
  BY <1>21 DEF FlushResumes
<1>22. CASE FlushEnds
  BY <1>22 DEF FlushEnds, MarkClosing
<1>23. CASE FlushCanceled
  BY <1>23 DEF FlushCanceled
<1>24. CASE DelayWins
  BY <1>24 DEF DelayWins
<1>25. CASE ClearDiscard
  BY <1>25 DEF ClearDiscard
<1>26. CASE EndEpisode
  BY <1>26 DEF EndEpisode
<1>27. CASE CountSlowConsumer
  BY <1>27 DEF CountSlowConsumer
<1>28. CASE HandlerCloses
  BY <1>28 DEF HandlerCloses, BeginClose
<1>29. CASE HandlerTearsDown
  BY <1>29 DEF HandlerTearsDown, Teardown
<1>30. CASE PeerGone
  BY <1>30 DEF PeerGone, BeginClose
<1>31. CASE ReceiverTearsDown
  BY <1>31 DEF ReceiverTearsDown, Teardown
<1>32. CASE ReceiveCanceled
  BY <1>32 DEF ReceiveCanceled
<1>33. CASE StopBegins
  BY <1>33 DEF StopBegins, BeginClose
<1>34. CASE StopTearsDown
  BY <1>34 DEF StopTearsDown, Teardown
<1>35. CASE UNCHANGED vars
  BY <1>35 DEF vars
<1> QED
  BY <1>1, <1>2, <1>3, <1>4, <1>5, <1>6, <1>7, <1>8, <1>9, <1>10, <1>11, <1>12, <1>13, <1>14, <1>15, <1>16, <1>17, <1>18, <1>19, <1>20, <1>21, <1>22, <1>23, <1>24, <1>25, <1>26, <1>27, <1>28, <1>29, <1>30, <1>31, <1>32, <1>33, <1>34, <1>35 DEF Next, Publisher, WriteLoop, Backpressure, Others

(* Numbers stay natural and the write loop stays inside the buffer that its
   last read returned, which AdvanceTo consumes whole. *)
LEMMA NumbersStep == FlagsOK /\ NumbersOK /\ LoopInv /\ [Next]_vars => (NumbersOK /\ LoopInv)'
<1> SUFFICES ASSUME FlagsOK /\ NumbersOK /\ LoopInv, [Next]_vars PROVE (NumbersOK /\ LoopInv)'
  OBVIOUS
<1> USE SessionAssumption DEF publisherVars, pipeVars, loopVars, closeVars, episodeVars, tapeVars, FlagsOK, NumbersOK, LoopInv
<1>1. ASSUME NEW n \in BatchSizes, ReadState(n) PROVE (NumbersOK /\ LoopInv)'
  BY <1>1 DEF ReadState, Handshaken
<1>2. CASE Start
  BY <1>2 DEF Start, SessionStart
<1>3. CASE SkipBatch
  BY <1>3 DEF SkipBatch, Skip
<1>4. CASE RefuseBatch
  <2>1. CASE state = "backpressured"
    <3>1. Skip /\ pub' = "idle"
      BY <1>4, <2>1 DEF RefuseBatch
    <3>2. NumbersOK'
      BY <1>4, <3>1 DEF RefuseBatch, Skip
    <3>3. LoopInv'
      BY <1>4, <3>1 DEF RefuseBatch
    <3> QED  BY <3>2, <3>3
  <2>2. CASE state # "backpressured"
    BY <1>4, <2>2 DEF RefuseBatch
  <2> QED  BY <2>1, <2>2
<1>5. CASE EncodeBatch
  BY <1>5 DEF EncodeBatch
<1>6. CASE FlushBatch
  <2>1. BatchInHand \in Seq(Nat) /\ Len(BatchInHand) = batch
    BY <1>6, BatchInHandProperties DEF FlushBatch
  <2>2. pipe' = pipe \o BatchInHand
    BY <1>6 DEF FlushBatch
  <2>3. pipe' \in Seq(Nat) /\ Len(pipe') = Len(pipe) + batch
    <3>1. pipe \in Seq(Nat)
      OBVIOUS
    <3> HIDE DEF FlagsOK, NumbersOK, LoopInv
    <3> QED  BY <2>1, <2>2, <3>1, ConcatProperties
  <2> QED  BY <1>6, <2>3 DEF FlushBatch
<1>7. CASE BeginEpisode
  BY <1>7 DEF BeginEpisode
<1>8. CASE EncodeFails
  BY <1>8 DEF EncodeFails, BeginClose
<1>9. CASE PublisherTearsDown
  BY <1>9 DEF PublisherTearsDown, Teardown
<1>10. CASE ReadFrames
  BY <1>10 DEF ReadFrames
<1>11. CASE ReadNothing
  BY <1>11 DEF ReadNothing
<1>12. CASE DiscardBuffer
  <2>1. /\ Unconsumed \in Seq(Nat) /\ Len(Unconsumed) = Len(pipe) - buffer
    BY DropProperties DEF Unconsumed
  <2>2. Take(pipe, buffer) \in Seq(Nat)
    BY TakeProperties
  <2>3. /\ Ticks(Take(pipe, buffer)) \subseteq Nat
        /\ Cardinality(Ticks(Take(pipe, buffer))) \in Nat
    BY <2>2, TicksFinite
  <2>4. /\ discardedRecords' = discardedRecords + Cardinality(Ticks(Take(pipe, buffer)))
        /\ withheld' = withheld \cup Ticks(Take(pipe, buffer))
        /\ pipe' = Unconsumed /\ buffer' = 0 /\ sent' = 0
        /\ wl' \in {"finishing", "read"}
    BY <1>12 DEF DiscardBuffer, AdvanceTo
  <2>5. NumbersOK'
    <3>1. discardedRecords' \in Nat /\ withheld' \subseteq Nat /\ pipe' \in Seq(Nat)
      <4>1. discardedRecords' \in Nat /\ pipe' \in Seq(Nat)
        BY <2>1, <2>3, <2>4
      <4>2. withheld' \subseteq Nat
        BY <2>3, <2>4, Zenon
      <4> QED  BY <4>1, <4>2
    <3> QED  BY <1>12, <2>4, <3>1 DEF DiscardBuffer
  <2>6. LoopInv'
    BY <1>12, <2>1, <2>4 DEF DiscardBuffer
  <2> QED  BY <2>5, <2>6
<1>13. CASE TakeBuffer
  BY <1>13 DEF TakeBuffer
<1>14. CASE SendFrame
  <2>1. wire' \in Seq(Nat)
    <3>1. wire' = Append(wire, pipe[sent + 1]) /\ sent + 1 \in 1 .. Len(pipe)
      BY <1>14 DEF SendFrame
    <3>2. wire \in Seq(Nat) /\ pipe \in Seq(Nat)
      OBVIOUS
    <3> HIDE DEF FlagsOK, NumbersOK, LoopInv
    <3>3. pipe[sent + 1] \in Nat
      BY <3>1, <3>2
    <3> QED  BY <3>1, <3>2, <3>3, GrownProperties
  <2>2. CASE sent + 1 = buffer
    <3>1. /\ Unconsumed \in Seq(Nat) /\ Len(Unconsumed) = Len(pipe) - buffer
      BY DropProperties DEF Unconsumed
    <3> QED  BY <1>14, <2>1, <2>2, <3>1 DEF SendFrame, AdvanceTo
  <2>3. CASE sent + 1 # buffer
    BY <1>14, <2>1, <2>3 DEF SendFrame
  <2> QED  BY <2>2, <2>3
<1>15. CASE SendHeartbeat
  BY <1>15 DEF SendHeartbeat
<1>16. CASE SendFails
  BY <1>16 DEF SendFails, MarkClosing
<1>17. CASE LoopCanceled
  BY <1>17 DEF LoopCanceled
<1>18. CASE Finish
  BY <1>18 DEF Finish
<1>19. CASE HeartbeatTimer
  BY <1>19 DEF HeartbeatTimer
<1>20. CASE OnHeartbeatDue
  BY <1>20 DEF OnHeartbeatDue
<1>21. CASE FlushResumes
  BY <1>21 DEF FlushResumes
<1>22. CASE FlushEnds
  BY <1>22 DEF FlushEnds, MarkClosing
<1>23. CASE FlushCanceled
  BY <1>23 DEF FlushCanceled
<1>24. CASE DelayWins
  BY <1>24 DEF DelayWins
<1>25. CASE ClearDiscard
  BY <1>25 DEF ClearDiscard
<1>26. CASE EndEpisode
  BY <1>26 DEF EndEpisode
<1>27. CASE CountSlowConsumer
  BY <1>27 DEF CountSlowConsumer
<1>28. CASE HandlerCloses
  BY <1>28 DEF HandlerCloses, BeginClose
<1>29. CASE HandlerTearsDown
  BY <1>29 DEF HandlerTearsDown, Teardown
<1>30. CASE PeerGone
  BY <1>30 DEF PeerGone, BeginClose
<1>31. CASE ReceiverTearsDown
  BY <1>31 DEF ReceiverTearsDown, Teardown
<1>32. CASE ReceiveCanceled
  BY <1>32 DEF ReceiveCanceled
<1>33. CASE StopBegins
  BY <1>33 DEF StopBegins, BeginClose
<1>34. CASE StopTearsDown
  BY <1>34 DEF StopTearsDown, Teardown
<1>35. CASE UNCHANGED vars
  BY <1>35 DEF vars
<1> QED
  BY <1>1, <1>2, <1>3, <1>4, <1>5, <1>6, <1>7, <1>8, <1>9, <1>10, <1>11, <1>12, <1>13, <1>14, <1>15, <1>16, <1>17, <1>18, <1>19, <1>20, <1>21, <1>22, <1>23, <1>24, <1>25, <1>26, <1>27, <1>28, <1>29, <1>30, <1>31, <1>32, <1>33, <1>34, <1>35 DEF Next, Publisher, WriteLoop, Backpressure, Others

(* Who holds the gate finds the session running; every close is recorded in
   the state before a flag of it can be seen. *)
LEMMA CloseStep == FlagsOK /\ PlacesOK /\ CloseInv /\ [Next]_vars => CloseInv'
<1> SUFFICES ASSUME FlagsOK /\ PlacesOK /\ CloseInv, [Next]_vars PROVE CloseInv'
  OBVIOUS
<1> USE SessionAssumption DEF publisherVars, pipeVars, loopVars, closeVars, episodeVars, tapeVars, FlagsOK, PlacesOK, CloseInv, Accepting, StillBehind
<1>1. ASSUME NEW n \in BatchSizes, ReadState(n) PROVE CloseInv'
  BY <1>1 DEF ReadState
<1>2. CASE Start
  BY <1>2 DEF Start, SessionStart
<1>3. CASE SkipBatch
  BY <1>3 DEF SkipBatch, Skip
<1>4. CASE RefuseBatch
  BY <1>4 DEF RefuseBatch, Skip
<1>5. CASE EncodeBatch
  BY <1>5 DEF EncodeBatch
<1>6. CASE FlushBatch
  BY <1>6 DEF FlushBatch
<1>7. CASE BeginEpisode
  BY <1>7 DEF BeginEpisode
<1>8. CASE EncodeFails
  BY <1>8 DEF EncodeFails, BeginClose
<1>9. CASE PublisherTearsDown
  BY <1>9 DEF PublisherTearsDown, Teardown
<1>10. CASE ReadFrames
  BY <1>10 DEF ReadFrames
<1>11. CASE ReadNothing
  BY <1>11 DEF ReadNothing
<1>12. CASE DiscardBuffer
  BY <1>12 DEF DiscardBuffer, AdvanceTo
<1>13. CASE TakeBuffer
  BY <1>13 DEF TakeBuffer
<1>14. CASE SendFrame
  BY <1>14 DEF SendFrame, AdvanceTo
<1>15. CASE SendHeartbeat
  BY <1>15 DEF SendHeartbeat
<1>16. CASE SendFails
  BY <1>16 DEF SendFails, MarkClosing
<1>17. CASE LoopCanceled
  BY <1>17 DEF LoopCanceled
<1>18. CASE Finish
  BY <1>18 DEF Finish
<1>19. CASE HeartbeatTimer
  BY <1>19 DEF HeartbeatTimer
<1>20. CASE OnHeartbeatDue
  BY <1>20 DEF OnHeartbeatDue
<1>21. CASE FlushResumes
  BY <1>21 DEF FlushResumes
<1>22. CASE FlushEnds
  BY <1>22 DEF FlushEnds, MarkClosing
<1>23. CASE FlushCanceled
  BY <1>23 DEF FlushCanceled
<1>24. CASE DelayWins
  BY <1>24 DEF DelayWins
<1>25. CASE ClearDiscard
  BY <1>25 DEF ClearDiscard
<1>26. CASE EndEpisode
  BY <1>26 DEF EndEpisode
<1>27. CASE CountSlowConsumer
  BY <1>27 DEF CountSlowConsumer
<1>28. CASE HandlerCloses
  BY <1>28 DEF HandlerCloses, BeginClose
<1>29. CASE HandlerTearsDown
  BY <1>29 DEF HandlerTearsDown, Teardown
<1>30. CASE PeerGone
  BY <1>30 DEF PeerGone, BeginClose
<1>31. CASE ReceiverTearsDown
  BY <1>31 DEF ReceiverTearsDown, Teardown
<1>32. CASE ReceiveCanceled
  BY <1>32 DEF ReceiveCanceled
<1>33. CASE StopBegins
  BY <1>33 DEF StopBegins, BeginClose
<1>34. CASE StopTearsDown
  BY <1>34 DEF StopTearsDown, Teardown
<1>35. CASE UNCHANGED vars
  BY <1>35 DEF vars
<1> QED
  BY <1>1, <1>2, <1>3, <1>4, <1>5, <1>6, <1>7, <1>8, <1>9, <1>10, <1>11, <1>12, <1>13, <1>14, <1>15, <1>16, <1>17, <1>18, <1>19, <1>20, <1>21, <1>22, <1>23, <1>24, <1>25, <1>26, <1>27, <1>28, <1>29, <1>30, <1>31, <1>32, <1>33, <1>34, <1>35 DEF Next, Publisher, WriteLoop, Backpressure, Others

(* There is one handler at a time, and a pending flush has one to resolve it. *)
LEMMA EpisodeStep == FlagsOK /\ PlacesOK /\ LoopInv /\ CloseInv /\ EpisodeInv /\ [Next]_vars => EpisodeInv'
<1> SUFFICES ASSUME FlagsOK /\ PlacesOK /\ LoopInv /\ CloseInv /\ EpisodeInv, [Next]_vars PROVE EpisodeInv'
  OBVIOUS
<1> USE SessionAssumption DEF publisherVars, pipeVars, loopVars, closeVars, episodeVars, tapeVars, FlagsOK, PlacesOK, LoopInv, CloseInv, EpisodeInv, Accepting, StillBehind
<1>1. ASSUME NEW n \in BatchSizes, ReadState(n) PROVE EpisodeInv'
  BY <1>1 DEF ReadState
<1>2. CASE Start
  BY <1>2 DEF Start, SessionStart
<1>3. CASE SkipBatch
  BY <1>3 DEF SkipBatch, Skip
<1>4. CASE RefuseBatch
  BY <1>4 DEF RefuseBatch, Skip
<1>5. CASE EncodeBatch
  BY <1>5 DEF EncodeBatch
<1>6. CASE FlushBatch
  BY <1>6 DEF FlushBatch
<1>7. CASE BeginEpisode
  BY <1>7 DEF BeginEpisode
<1>8. CASE EncodeFails
  BY <1>8 DEF EncodeFails, BeginClose
<1>9. CASE PublisherTearsDown
  BY <1>9 DEF PublisherTearsDown, Teardown
<1>10. CASE ReadFrames
  BY <1>10 DEF ReadFrames
<1>11. CASE ReadNothing
  BY <1>11 DEF ReadNothing
<1>12. CASE DiscardBuffer
  BY <1>12 DEF DiscardBuffer, AdvanceTo
<1>13. CASE TakeBuffer
  BY <1>13 DEF TakeBuffer
<1>14. CASE SendFrame
  BY <1>14 DEF SendFrame, AdvanceTo
<1>15. CASE SendHeartbeat
  BY <1>15 DEF SendHeartbeat
<1>16. CASE SendFails
  BY <1>16 DEF SendFails, MarkClosing
<1>17. CASE LoopCanceled
  BY <1>17 DEF LoopCanceled
<1>18. CASE Finish
  BY <1>18 DEF Finish
<1>19. CASE HeartbeatTimer
  BY <1>19 DEF HeartbeatTimer
<1>20. CASE OnHeartbeatDue
  BY <1>20 DEF OnHeartbeatDue
<1>21. CASE FlushResumes
  BY <1>21 DEF FlushResumes
<1>22. CASE FlushEnds
  BY <1>22 DEF FlushEnds, MarkClosing
<1>23. CASE FlushCanceled
  BY <1>23 DEF FlushCanceled
<1>24. CASE DelayWins
  BY <1>24 DEF DelayWins
<1>25. CASE ClearDiscard
  BY <1>25 DEF ClearDiscard
<1>26. CASE EndEpisode
  BY <1>26 DEF EndEpisode
<1>27. CASE CountSlowConsumer
  BY <1>27 DEF CountSlowConsumer
<1>28. CASE HandlerCloses
  BY <1>28 DEF HandlerCloses, BeginClose
<1>29. CASE HandlerTearsDown
  BY <1>29 DEF HandlerTearsDown, Teardown
<1>30. CASE PeerGone
  BY <1>30 DEF PeerGone, BeginClose
<1>31. CASE ReceiverTearsDown
  BY <1>31 DEF ReceiverTearsDown, Teardown
<1>32. CASE ReceiveCanceled
  BY <1>32 DEF ReceiveCanceled
<1>33. CASE StopBegins
  BY <1>33 DEF StopBegins, BeginClose
<1>34. CASE StopTearsDown
  BY <1>34 DEF StopTearsDown, Teardown
<1>35. CASE UNCHANGED vars
  BY <1>35 DEF vars
<1> QED
  BY <1>1, <1>2, <1>3, <1>4, <1>5, <1>6, <1>7, <1>8, <1>9, <1>10, <1>11, <1>12, <1>13, <1>14, <1>15, <1>16, <1>17, <1>18, <1>19, <1>20, <1>21, <1>22, <1>23, <1>24, <1>25, <1>26, <1>27, <1>28, <1>29, <1>30, <1>31, <1>32, <1>33, <1>34, <1>35 DEF Next, Publisher, WriteLoop, Backpressure, Others

(* The order of the tape across the wire, the pipe and the numbers not yet
   handed out survives every step. *)
LEMMA OrderStep == FlagsOK /\ NumbersOK /\ LoopInv /\ OrderInv /\ [Next]_vars => OrderInv'
<1> SUFFICES ASSUME FlagsOK /\ NumbersOK /\ LoopInv /\ OrderInv, [Next]_vars PROVE OrderInv'
  OBVIOUS
<1> USE SessionAssumption DEF publisherVars, pipeVars, loopVars, closeVars, episodeVars, tapeVars, FlagsOK, NumbersOK, LoopInv, OrderInv, Fresh
<1>1. ASSUME NEW n \in BatchSizes, ReadState(n) PROVE OrderInv'
  BY <1>1 DEF ReadState
<1>2. CASE Start
  <2>1. pipe = <<>> /\ wire = <<>> /\ sent = 0 /\ pub = "idle"
    BY <1>2 DEF Start
  <2>2. pipe' = <<SessionStart>> /\ wire' = wire /\ Fresh' = Fresh /\ Fresh \in Nat \ {0}
    BY <1>2, <2>1 DEF Start
  <2> QED  BY <2>1, <2>2 DEF Increasing, Below, Precedes, SessionStart
<1>3. CASE SkipBatch
  <2>1. /\ Fresh \in Nat /\ Fresh' \in Nat /\ Fresh' >= Fresh
        /\ pipe' = pipe /\ wire' = wire /\ sent' = sent
    BY <1>3 DEF SkipBatch, Skip
  <2>2. /\ \A i \in 1 .. Len(pipe) : pipe[i] \in Nat
        /\ \A i \in 1 .. Len(wire) : wire[i] \in Nat
    OBVIOUS
  <2>3. OrderInv
    OBVIOUS
  <2> HIDE DEF FlagsOK, NumbersOK, LoopInv, OrderInv, Fresh
  <2>4. Below(pipe', Fresh') /\ Below(wire', Fresh')
    BY <2>1, <2>2, <2>3 DEF Below, OrderInv
  <2> QED  BY <2>1, <2>3, <2>4 DEF OrderInv
<1>4. CASE RefuseBatch
  <2>1. /\ Fresh \in Nat /\ Fresh' \in Nat /\ Fresh' >= Fresh
        /\ pipe' = pipe /\ wire' = wire /\ sent' = sent
    BY <1>4 DEF RefuseBatch, Skip
  <2>2. /\ \A i \in 1 .. Len(pipe) : pipe[i] \in Nat
        /\ \A i \in 1 .. Len(wire) : wire[i] \in Nat
    OBVIOUS
  <2>3. OrderInv
    OBVIOUS
  <2> HIDE DEF FlagsOK, NumbersOK, LoopInv, OrderInv, Fresh
  <2>4. Below(pipe', Fresh') /\ Below(wire', Fresh')
    BY <2>1, <2>2, <2>3 DEF Below, OrderInv
  <2> QED  BY <2>1, <2>3, <2>4 DEF OrderInv
<1>5. CASE EncodeBatch
  <2>1. /\ Fresh \in Nat /\ Fresh' \in Nat /\ Fresh' >= Fresh
        /\ pipe' = pipe /\ wire' = wire /\ sent' = sent
    BY <1>5 DEF EncodeBatch, Skip
  <2>2. /\ \A i \in 1 .. Len(pipe) : pipe[i] \in Nat
        /\ \A i \in 1 .. Len(wire) : wire[i] \in Nat
    OBVIOUS
  <2>3. OrderInv
    OBVIOUS
  <2> HIDE DEF FlagsOK, NumbersOK, LoopInv, OrderInv, Fresh
  <2>4. Below(pipe', Fresh') /\ Below(wire', Fresh')
    BY <2>1, <2>2, <2>3 DEF Below, OrderInv
  <2> QED  BY <2>1, <2>3, <2>4 DEF OrderInv
<1>6. CASE FlushBatch
  <2> DEFINE n == nextSequence - batch
  <2>1. /\ BatchInHand \in Seq(Nat) /\ Len(BatchInHand) = batch
        /\ \A i \in 1 .. batch : BatchInHand[i] = n + i - 1
    BY <1>6, BatchInHandProperties DEF FlushBatch
  <2>2. /\ pub = "flushing" /\ pub' \in {"pausing", "idle"} /\ pipe' = pipe \o BatchInHand
        /\ wire' = wire /\ sent' = sent /\ nextSequence' = nextSequence /\ batch' = batch
    BY <1>6 DEF FlushBatch
  <2>3. n \in Nat /\ batch \in Nat /\ n + batch = nextSequence /\ Fresh = n
    BY <2>2
  <2>4. pipe \in Seq(Nat) /\ wire \in Seq(Nat) /\ sent \in Nat
    OBVIOUS
  <2>5. Increasing(pipe) /\ Below(pipe, n) /\ Below(wire, n) /\ Precedes(wire, pipe, sent)
    BY <2>3
  <2> HIDE DEF n, FlagsOK, NumbersOK, LoopInv, OrderInv, Fresh
  <2>6. Joined(pipe', pipe, n, batch)
    BY <2>1, <2>2, <2>3, <2>4, JoinedProperties
  <2>7. /\ Increasing(pipe') /\ Below(pipe', n + batch) /\ Below(wire, n + batch)
        /\ Precedes(wire, pipe', sent)
    <3>1. NatElements(pipe) /\ NatElements(wire)
      BY <2>4, NatSequence
    <3> QED  BY <2>3, <2>4, <2>5, <2>6, <3>1, FlushKeepsOrder
  <2> QED  BY <2>2, <2>3, <2>7 DEF OrderInv, Fresh
<1>7. CASE BeginEpisode
  BY <1>7 DEF BeginEpisode
<1>8. CASE EncodeFails
  BY <1>8 DEF EncodeFails, BeginClose
<1>9. CASE PublisherTearsDown
  BY <1>9 DEF PublisherTearsDown, Teardown
<1>10. CASE ReadFrames
  BY <1>10 DEF ReadFrames
<1>11. CASE ReadNothing
  BY <1>11 DEF ReadNothing
<1>12. CASE DiscardBuffer
  <2>1. /\ pipe' = Drop(pipe, buffer) /\ sent' = 0 /\ sent = 0 /\ wire' = wire
        /\ Fresh' = Fresh /\ Fresh \in Nat
    BY <1>12 DEF DiscardBuffer, AdvanceTo, Unconsumed
  <2>2. pipe \in Seq(Nat) /\ wire \in Seq(Nat) /\ buffer \in 0 .. Len(pipe)
    OBVIOUS
  <2>3. 0 \in 0 .. buffer
    BY <2>2
  <2>4. /\ Increasing(pipe) /\ Below(pipe, Fresh) /\ Precedes(wire, pipe, 0)
        /\ Increasing(wire) /\ Below(wire, Fresh)
    BY <2>1
  <2> HIDE DEF FlagsOK, NumbersOK, LoopInv, OrderInv, Fresh
  <2>5. Increasing(pipe') /\ Below(pipe', Fresh) /\ Precedes(wire, pipe', 0)
    <3>1. NatElements(pipe) /\ NatElements(wire) /\ Rest(pipe', pipe, buffer)
      BY <2>1, <2>2, NatSequence, RestProperties
    <3> QED  BY <2>1, <2>2, <2>3, <2>4, <3>1, DropKeepsOrder
  <2> QED  BY <2>1, <2>4, <2>5 DEF OrderInv
<1>13. CASE TakeBuffer
  BY <1>13 DEF TakeBuffer
<1>14. CASE SendFrame
  <2>1. /\ wire' = Append(wire, pipe[sent + 1]) /\ sent < Len(pipe) /\ sent < buffer
        /\ pipe[sent + 1] \in Nat
    BY <1>14 DEF SendFrame
  <2>2. Fresh' = Fresh /\ Fresh \in Nat
    BY <1>14 DEF SendFrame
  <2>3. pipe \in Seq(Nat) /\ wire \in Seq(Nat) /\ buffer \in 0 .. Len(pipe) /\ sent \in Nat
    OBVIOUS
  <2>4. /\ Increasing(pipe) /\ Below(pipe, Fresh) /\ Precedes(wire, pipe, sent)
        /\ Increasing(wire) /\ Below(wire, Fresh)
    OBVIOUS
  <2>5. \/ sent + 1 = buffer /\ pipe' = Drop(pipe, buffer) /\ sent' = 0
        \/ pipe' = pipe /\ sent' = sent + 1
    BY <1>14 DEF SendFrame, AdvanceTo, Unconsumed
  <2> HIDE DEF FlagsOK, NumbersOK, LoopInv, OrderInv, Fresh
  <2>6. NatElements(pipe) /\ NatElements(wire)
    BY <2>3, NatSequence
  <2>7. wire' \in Seq(Nat) /\ Grown(wire', wire, pipe[sent + 1])
    BY <2>1, <2>3, GrownProperties
  <2>8. Increasing(wire') /\ Below(wire', Fresh) /\ Precedes(wire', pipe, sent + 1)
    <3>1. Fresh \in Nat /\ sent \in Nat /\ sent < Len(pipe)
      BY <2>1, <2>2, <2>3
    <3>2. Grown(wire', wire, pipe[sent + 1])
      BY <2>7
    <3> HIDE <2>1, <2>2, <2>3, <2>7
    <3> QED  BY <2>4, <2>6, <3>1, <3>2, SendKeepsOrder
  <2>9. CASE sent + 1 = buffer /\ pipe' = Drop(pipe, buffer) /\ sent' = 0
    <3>1. NatElements(wire') /\ Rest(pipe', pipe, buffer)
      <4>1. NatElements(wire')
        BY <2>7, NatSequence
      <4>2. Rest(Drop(pipe, buffer), pipe, buffer)
        BY <2>3, RestProperties
      <4> QED  BY <2>9, <4>1, <4>2
    <3>2. sent + 1 \in 0 .. buffer
      BY <2>3, <2>9
    <3>3. Increasing(pipe') /\ Below(pipe', Fresh) /\ Precedes(wire', pipe', 0)
      BY <2>2, <2>3, <2>4, <2>6, <2>8, <3>1, <3>2, DropKeepsOrder
    <3> QED  BY <2>2, <2>8, <2>9, <3>3 DEF OrderInv
  <2>10. CASE pipe' = pipe /\ sent' = sent + 1
    BY <2>2, <2>4, <2>8, <2>10 DEF OrderInv
  <2> QED  BY <2>5, <2>9, <2>10
<1>15. CASE SendHeartbeat
  BY <1>15 DEF SendHeartbeat
<1>16. CASE SendFails
  BY <1>16 DEF SendFails, MarkClosing
<1>17. CASE LoopCanceled
  BY <1>17 DEF LoopCanceled
<1>18. CASE Finish
  BY <1>18 DEF Finish
<1>19. CASE HeartbeatTimer
  BY <1>19 DEF HeartbeatTimer
<1>20. CASE OnHeartbeatDue
  BY <1>20 DEF OnHeartbeatDue
<1>21. CASE FlushResumes
  BY <1>21 DEF FlushResumes
<1>22. CASE FlushEnds
  BY <1>22 DEF FlushEnds, MarkClosing
<1>23. CASE FlushCanceled
  BY <1>23 DEF FlushCanceled
<1>24. CASE DelayWins
  BY <1>24 DEF DelayWins
<1>25. CASE ClearDiscard
  BY <1>25 DEF ClearDiscard
<1>26. CASE EndEpisode
  BY <1>26 DEF EndEpisode
<1>27. CASE CountSlowConsumer
  BY <1>27 DEF CountSlowConsumer
<1>28. CASE HandlerCloses
  BY <1>28 DEF HandlerCloses, BeginClose
<1>29. CASE HandlerTearsDown
  BY <1>29 DEF HandlerTearsDown, Teardown
<1>30. CASE PeerGone
  BY <1>30 DEF PeerGone, BeginClose
<1>31. CASE ReceiverTearsDown
  BY <1>31 DEF ReceiverTearsDown, Teardown
<1>32. CASE ReceiveCanceled
  BY <1>32 DEF ReceiveCanceled
<1>33. CASE StopBegins
  BY <1>33 DEF StopBegins, BeginClose
<1>34. CASE StopTearsDown
  BY <1>34 DEF StopTearsDown, Teardown
<1>35. CASE UNCHANGED vars
  BY <1>35 DEF vars
<1> QED
  BY <1>1, <1>2, <1>3, <1>4, <1>5, <1>6, <1>7, <1>8, <1>9, <1>10, <1>11, <1>12, <1>13, <1>14, <1>15, <1>16, <1>17, <1>18, <1>19, <1>20, <1>21, <1>22, <1>23, <1>24, <1>25, <1>26, <1>27, <1>28, <1>29, <1>30, <1>31, <1>32, <1>33, <1>34, <1>35 DEF Next, Publisher, WriteLoop, Backpressure, Others

(* The constructor establishes the invariant: an empty pipe, nothing sent.  *)
LEMMA InitIInv == Init => IInv
<1> SUFFICES ASSUME Init PROVE IInv
  OBVIOUS
<1> USE DEF Init
<1>1. FlagsOK
  BY Zenon DEF FlagsOK
<1>2. PlacesOK
  BY DEF PlacesOK, Reasons
<1>3. NumbersOK
  BY EmptySeq DEF NumbersOK
<1>4. LoopInv
  BY DEF LoopInv
<1>5. CloseInv /\ EpisodeInv
  BY DEF CloseInv, EpisodeInv
<1>6. OrderInv
  BY DEF OrderInv, Fresh, Increasing, Below, Precedes
<1> QED  BY <1>1, <1>2, <1>3, <1>4, <1>5, <1>6 DEF IInv, TypeOK

(* The invariant is inductive: one lemma above per part of it. *)
LEMMA InductiveStep == IInv /\ [Next]_vars => IInv'
<1> SUFFICES ASSUME IInv, [Next]_vars PROVE IInv'
  OBVIOUS
<1>1. FlagsOK' /\ PlacesOK'
  BY FlagsStep, PlacesStep DEF IInv, TypeOK
<1>2. NumbersOK' /\ LoopInv'
  BY NumbersStep DEF IInv, TypeOK
<1>3. CloseInv' /\ EpisodeInv'
  BY CloseStep, EpisodeStep DEF IInv, TypeOK
<1>4. OrderInv'
  BY OrderStep DEF IInv, TypeOK
<1> QED  BY <1>1, <1>2, <1>3, <1>4 DEF IInv, TypeOK

(* The strengthened invariant holds in every state a session can reach.    *)
THEOREM Invariance == Spec => []IInv
BY InitIInv, InductiveStep, PTL DEF Spec

(* Every variable keeps its type, in every behaviour of a session.         *)
THEOREM TypeCorrect == Spec => []TypeOK
<1>1. IInv => TypeOK
  BY DEF IInv
<1> QED  BY <1>1, Invariance, PTL

(* Frames reach the socket in the order of their numbers and none twice.   *)
THEOREM WireStaysInOrder == Spec => []WireInOrder
<1>1. IInv => WireInOrder
  BY DEF IInv, OrderInv, WireInOrder
<1> QED  BY <1>1, Invariance, PTL

(* A session that began to close never takes a batch again.                *)
THEOREM ClosingStaysFinal == Spec => ClosingIsFinal
<1>1. IInv /\ [Next]_vars => [state = "closing" => state' = "closing"]_vars
  <2> SUFFICES ASSUME IInv, Next, state = "closing" PROVE state' = "closing"
    OBVIOUS
  <2> USE DEF IInv, CloseInv, publisherVars, pipeVars, loopVars, closeVars, episodeVars,
              tapeVars
  <2>1. CASE Publisher
    BY <2>1 DEF Publisher, ReadState, SkipBatch, RefuseBatch, EncodeBatch, FlushBatch,
        BeginEpisode, EncodeFails, PublisherTearsDown, Accepting, BeginClose
  <2>2. CASE WriteLoop
    BY <2>2 DEF WriteLoop, ReadFrames, ReadNothing, DiscardBuffer, TakeBuffer, SendFrame,
        SendHeartbeat, SendFails, LoopCanceled, Finish, MarkClosing
  <2>3. CASE Backpressure
    BY <2>3 DEF Backpressure, FlushResumes, FlushEnds, FlushCanceled, DelayWins,
        ClearDiscard, EndEpisode, CountSlowConsumer, HandlerCloses, HandlerTearsDown,
        StillBehind, MarkClosing, BeginClose
  <2>4. CASE Others
    BY <2>4 DEF Others, Start, HeartbeatTimer, OnHeartbeatDue, PeerGone,
        ReceiverTearsDown, ReceiveCanceled, StopBegins, StopTearsDown, BeginClose
  <2> QED  BY <2>1, <2>2, <2>3, <2>4 DEF Next
<1> QED  BY <1>1, Invariance, PTL DEF Spec, ClosingIsFinal

-----------------------------------------------------------------------------
(* That a feed session keeps FeedTape's promise: what becomes of every number that is
   handed out, what a discard may take, and what a clean end has sent.     *)

(* A loop that was cancelled was cut short, and one that was not ends with an empty pipe
   because nothing is written after the read that found the writer done. *)
DrainInv ==
  /\ cts => aborted \/ wl \in {"finishing", "done"}
  /\ lastRead /\ wl \in {"taking", "sending"} => buffer = Len(pipe)
  /\ wl \in {"finishing", "done"} /\ ~aborted => sent = Len(pipe)

(* Consumption leaves the pipe empty when it was read to its end.          *)
LEMMA AdvanceDrains ==
  ASSUME NumbersOK, buffer = Len(pipe), AdvanceTo
  PROVE  Len(pipe') = 0 /\ sent' = 0
BY DropProperties DEF NumbersOK, AdvanceTo, Unconsumed

(* So does a teardown, which cuts short a loop that has not ended.         *)
LEMMA TeardownDrains ==
  ASSUME DrainInv, FlagsOK, Teardown, UNCHANGED <<wl, lastRead, buffer, pipe, sent>>
  PROVE  DrainInv'
<1>1. aborted' <=> (aborted \/ wl \notin {"finishing", "done"})
  BY Zenon DEF Teardown, FlagsOK
<1> QED  BY <1>1 DEF DrainInv

(* Every step keeps it.                                                    *)
LEMMA DrainStep ==
  ASSUME IInv, DrainInv, [Next]_vars
  PROVE  DrainInv'
<1> USE DEF IInv, TypeOK, FlagsOK, LoopInv, CloseInv, DrainInv, publisherVars, pipeVars,
            loopVars, closeVars, episodeVars, tapeVars
<1>1. CASE FlushBatch
  BY <1>1 DEF FlushBatch
<1>2. CASE Publisher /\ ~FlushBatch
  BY <1>2, TeardownDrains DEF Publisher, ReadState, SkipBatch, RefuseBatch, EncodeBatch,
     BeginEpisode, EncodeFails, PublisherTearsDown
<1>3. CASE DiscardBuffer
  <2>1. AdvanceTo /\ UNCHANGED <<cts, aborted, lastRead>> /\ wl = "taking"
    BY <1>3 DEF DiscardBuffer
  <2>2. CASE lastRead
    BY <2>1, <2>2, AdvanceDrains DEF AdvanceTo
  <2>3. CASE ~lastRead
    BY <2>1, <2>3 DEF AdvanceTo
  <2> QED  BY <2>2, <2>3
<1>4. CASE SendFrame
  <2>1. UNCHANGED <<cts, aborted, lastRead>> /\ wl = "sending"
    BY <1>4 DEF SendFrame
  <2>2. CASE sent + 1 = buffer /\ AdvanceTo /\ lastRead
    BY <2>1, <2>2, AdvanceDrains DEF AdvanceTo
  <2>3. CASE sent + 1 = buffer /\ AdvanceTo /\ ~lastRead
    BY <2>1, <2>3 DEF AdvanceTo
  <2>4. CASE UNCHANGED <<pipe, flush, buffer, wl>>
    BY <2>1, <2>4
  <2> QED  BY <1>4, <2>2, <2>3, <2>4 DEF SendFrame
<1>5. CASE ReadFrames \/ ReadNothing \/ TakeBuffer \/ SendHeartbeat \/ SendFails
           \/ LoopCanceled \/ Finish
  BY <1>5 DEF ReadFrames, ReadNothing, TakeBuffer, SendHeartbeat, SendFails, LoopCanceled,
     Finish
<1>6. CASE Backpressure
  BY <1>6, TeardownDrains DEF Backpressure, FlushResumes, FlushEnds, FlushCanceled, DelayWins,
     ClearDiscard, EndEpisode, CountSlowConsumer, HandlerCloses, HandlerTearsDown
<1>7. CASE Others
  BY <1>7, TeardownDrains DEF Others, Start, HeartbeatTimer, OnHeartbeatDue, PeerGone,
     ReceiverTearsDown, ReceiveCanceled, StopBegins, StopTearsDown
<1>8. CASE UNCHANGED vars
  BY <1>8 DEF vars
<1> QED  BY <1>1, <1>2, <1>3, <1>4, <1>5, <1>6, <1>7, <1>8 DEF Next, WriteLoop

----------------------------------------------------------------------------
(* A request to discard is for what was queued when the episode began, and nothing is queued
   until the session runs again, by when it has been cleared. *)
DiscardInv ==
  /\ pub \in {"flushing", "pausing"} => lastSequenceQueued = nextSequence - 1
  /\ handler = "deciding" => ~discardRequested
  /\ discardRequested => state # "running" /\ \A i \in 1 .. Len(pipe) : pipe[i] <= onset

(* What is left of the pipe is as old as the pipe was.                     *)
LEMMA RestIsOld ==
  ASSUME NEW s \in Seq(Nat), NEW n \in 0 .. Len(s), NEW q \in Nat,
         \A i \in 1 .. Len(s) : s[i] <= q
  PROVE  \A i \in 1 .. Len(Drop(s, n)) : Drop(s, n)[i] <= q
<1>1. ASSUME NEW i \in 1 .. Len(Drop(s, n))
      PROVE  n + i \in 1 .. Len(s) /\ Drop(s, n)[i] = s[n + i]
  BY DropProperties
<1> QED  BY <1>1

(* Every step keeps it.                                                    *)
LEMMA DiscardStep ==
  ASSUME IInv, DiscardInv, [Next]_vars
  PROVE  DiscardInv'
<1> USE DEF DiscardInv, publisherVars, pipeVars, loopVars, closeVars, episodeVars, tapeVars
<1>a. /\ pipe \in Seq(Nat) /\ buffer \in 0 .. Len(pipe) /\ onset \in Nat
      /\ nextSequence \in Nat /\ lastSequenceQueued \in Nat /\ batch \in Nat
  BY DEF IInv, TypeOK, NumbersOK, LoopInv
<1>b. /\ pub \in {"flushing", "pausing"} => state = "running"
      /\ state = "running" => handler = "idle"
      /\ ~started => pub = "idle" /\ pipe = <<>>
  BY DEF IInv, CloseInv, EpisodeInv, LoopInv
<1>1. CASE BeginEpisode
  <2>1. \A i \in 1 .. Len(pipe) : pipe[i] \in Nat /\ pipe[i] < nextSequence
    BY <1>a, <1>1 DEF BeginEpisode, IInv, OrderInv, Below, Fresh
  <2>2. onset' = nextSequence - 1
    BY <1>1 DEF BeginEpisode
  <2>3. \A i \in 1 .. Len(pipe) : pipe[i] <= onset'
    BY <1>a, <2>1, <2>2
  <2> QED  BY <1>1, <2>3 DEF BeginEpisode
<1>2. CASE SkipBatch \/ RefuseBatch
  BY <1>2 DEF SkipBatch, RefuseBatch
<1>15. CASE EncodeBatch
  <2>1. lastSequenceQueued' = nextSequence' - 1 /\ ~discardRequested'
    BY <1>a, <1>15 DEF EncodeBatch, Accepting
  <2> QED  BY <1>15, <2>1 DEF EncodeBatch
<1>3. CASE FlushBatch
  BY <1>b, <1>3 DEF FlushBatch
<1>4. CASE EncodeFails
  BY <1>4 DEF EncodeFails, BeginClose
<1>5. CASE PublisherTearsDown
  BY <1>5 DEF PublisherTearsDown
<1>6. ASSUME NEW n \in BatchSizes, ReadState(n)
       PROVE  DiscardInv'
  BY <1>6 DEF ReadState
<1>7. CASE DiscardBuffer
  BY <1>7 DEF DiscardBuffer
<1>8. CASE SendFrame
  <2>1. CASE pipe' = Drop(pipe, buffer)
    <3>1. discardRequested => \A i \in 1 .. Len(pipe') : pipe'[i] <= onset
      BY <1>a, <2>1, RestIsOld
    <3> QED  BY <1>8, <3>1 DEF SendFrame, AdvanceTo
  <2>2. CASE pipe' = pipe
    BY <1>8, <2>2 DEF SendFrame, AdvanceTo
  <2> QED  BY <1>8, <2>1, <2>2 DEF SendFrame, AdvanceTo, Unconsumed
<1>9. CASE ReadFrames \/ ReadNothing \/ TakeBuffer \/ SendHeartbeat \/ LoopCanceled
  BY <1>9 DEF ReadFrames, ReadNothing, TakeBuffer, SendHeartbeat, LoopCanceled
<1>10. CASE SendFails \/ Finish
  BY <1>10 DEF SendFails, Finish, MarkClosing
<1>11. CASE Backpressure
  BY <1>11 DEF Backpressure, FlushResumes, FlushEnds, FlushCanceled, DelayWins, ClearDiscard,
     EndEpisode, CountSlowConsumer, HandlerCloses, HandlerTearsDown, MarkClosing, BeginClose
<1>12. CASE Start
  <2>1. /\ pipe' = <<SessionStart>> /\ SessionStart \in Nat /\ SessionStart <= onset
    BY <1>a, <1>b, <1>12 DEF Start, SessionStart
  <2>2. \A i \in 1 .. Len(pipe') : pipe'[i] <= onset
    BY <2>1
  <2> QED  BY <1>b, <1>12, <2>2 DEF Start
<1>13. CASE Others /\ ~Start
  BY <1>13 DEF Others, HeartbeatTimer, OnHeartbeatDue, PeerGone, ReceiverTearsDown,
     ReceiveCanceled, StopBegins, StopTearsDown, BeginClose
<1>14. CASE UNCHANGED vars
  BY <1>14 DEF vars
<1> QED
  BY <1>1, <1>2, <1>3, <1>4, <1>5, <1>6, <1>7,
     <1>8, <1>9, <1>10, <1>11, <1>12, <1>13, <1>14, <1>15
     DEF Next, Publisher, WriteLoop

(* The parts above hold from the constructor on.                           *)
LEMMA InitDrainDiscard == Init => DrainInv /\ DiscardInv
BY EmptySeq DEF Init, DrainInv, DiscardInv

(* Left to itself the write loop ends only when everything that was queued has been sent:
   what a graceful StopAsync relies on, whoever else closes the session meanwhile. *)
THEOREM CleanEndsDrain == Spec => []CleanEndDrains
<1>1. Init => DrainInv
  BY InitDrainDiscard
<1>2. IInv /\ DrainInv /\ [Next]_vars => DrainInv'
  BY DrainStep
<1>3. DrainInv => CleanEndDrains
  BY DEF DrainInv, CleanEndDrains
<1> QED  BY <1>1, <1>2, <1>3, Invariance, PTL DEF Spec

(* Only frames queued by the time an episode of backpressure began are discarded under
   DropOldest: a request raised for one episode is cleared before the session runs again. *)
THEOREM DiscardsStayWithinEpisode == Spec => DiscardWithinEpisode
<1>1. Init => DiscardInv
  BY InitDrainDiscard
<1>2. IInv /\ DiscardInv /\ [Next]_vars => DiscardInv'
  BY DiscardStep
<1>3. IInv /\ DiscardInv /\ [Next]_vars
        => [discardedRecords' > discardedRecords =>
              \A q \in Ticks(Take(pipe, buffer)) : q <= onset]_vars
  <2> SUFFICES ASSUME IInv, DiscardInv, [Next]_vars, discardedRecords' > discardedRecords
               PROVE  \A q \in Ticks(Take(pipe, buffer)) : q <= onset
    OBVIOUS
  <2>1. discardedRecords' # discardedRecords
    BY DEF IInv, TypeOK, NumbersOK
  <2>2. DiscardBuffer
    <3> USE DEF tapeVars, vars
    <3>1. ~Publisher
      BY <2>1 DEF Publisher, ReadState, SkipBatch, RefuseBatch, EncodeBatch, FlushBatch,
         BeginEpisode, EncodeFails, PublisherTearsDown
    <3>2. ~Backpressure
      BY <2>1 DEF Backpressure, FlushResumes, FlushEnds, FlushCanceled, DelayWins,
         ClearDiscard, EndEpisode, CountSlowConsumer, HandlerCloses, HandlerTearsDown
    <3>3. ~Others
      BY <2>1 DEF Others, Start, HeartbeatTimer, OnHeartbeatDue, PeerGone,
         ReceiverTearsDown, ReceiveCanceled, StopBegins, StopTearsDown
    <3>4. WriteLoop => DiscardBuffer
      BY <2>1 DEF WriteLoop, ReadFrames, ReadNothing, TakeBuffer, SendFrame, SendHeartbeat,
         SendFails, LoopCanceled, Finish
    <3> QED  BY <2>1, <3>1, <3>2, <3>3, <3>4 DEF Next
  <2>3. pipe \in Seq(Nat) /\ buffer \in 0 .. Len(pipe)
    BY DEF IInv, TypeOK, NumbersOK, LoopInv
  <2>4. \A i \in 1 .. Len(pipe) : pipe[i] <= onset
    BY <2>2 DEF DiscardBuffer, DiscardInv
  <2>5. ASSUME NEW i \in DOMAIN Take(pipe, buffer)
        PROVE  Take(pipe, buffer)[i] <= onset
    <3>1. Len(Take(pipe, buffer)) = buffer /\ Take(pipe, buffer) \in Seq(Nat)
      BY <2>3, TakeProperties
    <3>2. i \in 1 .. buffer
      BY <3>1
    <3>3. Take(pipe, buffer)[i] = pipe[i]
      BY <2>3, <3>2, TakeProperties
    <3> QED  BY <2>3, <2>4, <3>2, <3>3
  <2> QED  BY <2>5 DEF Ticks, ElementsOf
<1> QED  BY <1>1, <1>2, <1>3, Invariance, PTL DEF Spec, DiscardWithinEpisode

----------------------------------------------------------------------------
(* Whoever may write next finds the pipe below its limit: the session runs, or a handler is
   about to let it run because the flush it awaited was resumed by the reader. *)
PipeInv ==
  /\ pub \in {"locking", "flushing"} => batch \in BatchSizes
  /\ state = "running" /\ pub # "pausing" => Len(pipe) < PauseThreshold
  /\ flush = "resumed" /\ (handler = "awaiting" \/ pub = "pausing")
       => Len(pipe) < PauseThreshold
  /\ handler \in {"recovered", "deciding"} => Len(pipe) < PauseThreshold
  /\ Len(pipe) < PauseThreshold \/ \E n \in BatchSizes : Len(pipe) < PauseThreshold + n

(* Consumption only shortens the pipe, and a flush it resumes finds it below the limit. *)
LEMMA AdvanceShortens ==
  ASSUME NumbersOK, buffer <= Len(pipe), AdvanceTo
  PROVE  /\ Len(pipe') <= Len(pipe) /\ Len(pipe') \in Nat
         /\ flush' = flush \/ Len(pipe') < ResumeThreshold
BY DropProperties DEF NumbersOK, AdvanceTo, Unconsumed, Drained

(* Every step keeps it.                                                    *)
LEMMA PipeStep ==
  ASSUME IInv, PipeInv, [Next]_vars
  PROVE  PipeInv'
<1> USE SessionAssumption DEF IInv, TypeOK, NumbersOK, LoopInv, CloseInv, EpisodeInv,
        PipeInv, publisherVars, pipeVars, loopVars, closeVars, episodeVars, tapeVars
<1>1. CASE FlushBatch
  <2>1. Len(pipe') = Len(pipe) + batch
    BY <1>1, BatchInHandProperties, ConcatProperties DEF FlushBatch
  <2>2. pub = "flushing" /\ handler = "idle" /\ state = "running"
    BY <1>1 DEF FlushBatch
  <2>3. Len(pipe') < PauseThreshold + batch
    BY <2>1, <2>2
  <2> QED  BY <1>1, <2>1, <2>2, <2>3 DEF FlushBatch
<1>2. ASSUME NEW n \in BatchSizes, ReadState(n)
       PROVE  PipeInv'
  BY <1>2 DEF ReadState
<1>3. CASE SkipBatch \/ RefuseBatch \/ EncodeBatch \/ BeginEpisode
  BY <1>3 DEF SkipBatch, RefuseBatch, EncodeBatch, BeginEpisode
<1>4. CASE EncodeFails \/ PublisherTearsDown
  BY <1>4 DEF EncodeFails, PublisherTearsDown, BeginClose
<1>5. CASE DiscardBuffer
  <2>1. AdvanceTo /\ UNCHANGED <<state, pub, batch, handler>>
    BY <1>5 DEF DiscardBuffer
  <2> QED  BY <2>1, AdvanceShortens
<1>6. CASE SendFrame
  <2>1. UNCHANGED <<state, pub, batch, handler>>
    BY <1>6 DEF SendFrame
  <2>2. CASE AdvanceTo
    BY <2>1, <2>2, AdvanceShortens
  <2>3. CASE UNCHANGED <<pipe, flush>>
    BY <2>1, <2>3
  <2> QED  BY <1>6, <2>2, <2>3 DEF SendFrame
<1>7. CASE ReadFrames \/ ReadNothing \/ TakeBuffer \/ SendHeartbeat \/ LoopCanceled
  BY <1>7 DEF ReadFrames, ReadNothing, TakeBuffer, SendHeartbeat, LoopCanceled
<1>8. CASE SendFails \/ Finish
  BY <1>8 DEF SendFails, Finish, MarkClosing
<1>9. CASE Backpressure
  BY <1>9 DEF Backpressure, FlushResumes, FlushEnds, FlushCanceled, DelayWins, ClearDiscard,
     EndEpisode, CountSlowConsumer, HandlerCloses, HandlerTearsDown, MarkClosing, BeginClose
<1>10. CASE Start
  BY <1>10 DEF Start
<1>11. CASE Others /\ ~Start
  BY <1>11 DEF Others, HeartbeatTimer, OnHeartbeatDue, PeerGone, ReceiverTearsDown,
     ReceiveCanceled, StopBegins, StopTearsDown, BeginClose
<1>12. CASE UNCHANGED vars
  BY <1>12 DEF vars
<1> QED
  BY <1>1, <1>2, <1>3, <1>4, <1>5, <1>6, <1>7, <1>8, <1>9, <1>10, <1>11, <1>12
     DEF Next, Publisher, WriteLoop

LargestBatchExists == \E n \in BatchSizes : \A m \in BatchSizes : m <= n

(* A session that is behind holds no more than its limit and one batch, whatever the consumer
   does, provided there is a largest batch. *)
THEOREM PipeStaysBounded == Spec /\ LargestBatchExists => []PipeBounded
<1>1. Init /\ LargestBatchExists => PipeInv /\ LargestBatchExists
  BY SessionAssumption, EmptySeq DEF Init, PipeInv
<1>2. IInv /\ PipeInv /\ LargestBatchExists /\ [Next]_vars
        => PipeInv' /\ LargestBatchExists'
  BY PipeStep DEF LargestBatchExists
<1>3. IInv /\ PipeInv /\ LargestBatchExists => PipeBounded
  <2> SUFFICES ASSUME IInv, PipeInv, LargestBatchExists PROVE PipeBounded
    OBVIOUS
  <2>1. MaxBatch \in BatchSizes /\ \A m \in BatchSizes : m <= MaxBatch
    BY Zenon DEF MaxBatch, LargestBatchExists
  <2>2. \A m \in BatchSizes : m \in Nat
    BY SessionAssumption
  <2>3. Len(pipe) \in Nat /\ PauseThreshold \in Nat
    BY SessionAssumption DEF IInv, TypeOK, NumbersOK
  <2> QED  BY <2>1, <2>2, <2>3 DEF PipeInv, PipeBounded
<1> QED  BY <1>1, <1>2, <1>3, Invariance, PTL DEF Spec

----------------------------------------------------------------------------
(* Nothing has been flushed before Start has run.                          *)
NoFlushYet == ~started => flush = "none"

(* Every step keeps it.                                                    *)
LEMMA NoFlushStep ==
  ASSUME IInv, NoFlushYet, [Next]_vars
  PROVE  NoFlushYet'
<1> USE DEF NoFlushYet, publisherVars, pipeVars, loopVars, closeVars, episodeVars, tapeVars
<1>a. started \in BOOLEAN /\ (started <=> wl # "new") /\ (~started => pub = "idle")
  BY DEF IInv, TypeOK, FlagsOK, LoopInv
<1>1. CASE Publisher
  BY <1>a, <1>1 DEF Publisher, ReadState, SkipBatch, RefuseBatch, EncodeBatch, FlushBatch,
     BeginEpisode, EncodeFails, PublisherTearsDown
<1>2. CASE WriteLoop
  BY <1>a, <1>2 DEF WriteLoop, ReadFrames, ReadNothing, DiscardBuffer, TakeBuffer, SendFrame,
     SendHeartbeat, SendFails, LoopCanceled, Finish
<1>3. CASE Backpressure
  BY <1>3 DEF Backpressure, FlushResumes, FlushEnds, FlushCanceled, DelayWins, ClearDiscard,
     EndEpisode, CountSlowConsumer, HandlerCloses, HandlerTearsDown, BeginClose
<1>4. CASE Others
  BY <1>4 DEF Others, Start, HeartbeatTimer, OnHeartbeatDue, PeerGone, ReceiverTearsDown,
     ReceiveCanceled, StopBegins, StopTearsDown, BeginClose
<1>5. CASE UNCHANGED vars
  BY <1>5 DEF vars
<1> QED  BY <1>1, <1>2, <1>3, <1>4, <1>5 DEF Next

(* PipeWriter allows one flush in flight: between a flush that came back incomplete and its
   completion nobody writes to the pipe. *)
THEOREM OneFlushInFlight == Spec => WriterRespectsFlush
<1>1. Init => NoFlushYet
  BY DEF Init, NoFlushYet
<1>2. IInv /\ NoFlushYet /\ [Next]_vars => NoFlushYet'
  BY NoFlushStep
<1>3. IInv /\ NoFlushYet /\ [Next]_vars
        => [flush = "pending" => Len(pipe') <= Len(pipe)]_vars
  <2> SUFFICES ASSUME IInv, NoFlushYet, Next, flush = "pending"
               PROVE  Len(pipe') <= Len(pipe)
    BY DEF vars, pipeVars
  <2> USE DEF publisherVars, pipeVars, loopVars, closeVars, episodeVars, tapeVars
  <2>1. /\ pipe \in Seq(Nat) /\ Len(pipe) \in Nat
        /\ pub = "flushing" => state = "running"
        /\ state = "running" => pub = "pausing"
        /\ started
    BY DEF IInv, TypeOK, NumbersOK, CloseInv, EpisodeInv, NoFlushYet
  <2>2. CASE pipe' = pipe
    BY <2>1, <2>2
  <2>3. CASE DiscardBuffer
    BY <2>3, AdvanceShortens DEF DiscardBuffer, IInv, TypeOK, LoopInv
  <2>4. CASE SendFrame
    <3>1. CASE AdvanceTo
      BY <3>1, AdvanceShortens DEF IInv, TypeOK, LoopInv
    <3> QED  BY <2>2, <2>4, <3>1 DEF SendFrame
  <2>5. Publisher => pipe' = pipe
    BY <2>1 DEF Publisher, ReadState, SkipBatch, RefuseBatch, EncodeBatch, FlushBatch,
       BeginEpisode, EncodeFails, PublisherTearsDown
  <2>6. WriteLoop => pipe' = pipe \/ DiscardBuffer \/ SendFrame
    BY DEF WriteLoop, ReadFrames, ReadNothing, TakeBuffer, SendHeartbeat, SendFails,
       LoopCanceled, Finish
  <2>7. Backpressure => pipe' = pipe
    BY DEF Backpressure, FlushResumes, FlushEnds, FlushCanceled, DelayWins, ClearDiscard,
       EndEpisode, CountSlowConsumer, HandlerCloses, HandlerTearsDown
  <2>8. Others => pipe' = pipe
    BY <2>1 DEF Others, Start, HeartbeatTimer, OnHeartbeatDue, PeerGone, ReceiverTearsDown,
       ReceiveCanceled, StopBegins, StopTearsDown
  <2> QED  BY <2>2, <2>3, <2>4, <2>5, <2>6, <2>7, <2>8 DEF Next
<1> QED  BY <1>1, <1>2, <1>3, Invariance, PTL DEF Spec, WriterRespectsFlush

----------------------------------------------------------------------------
(* Under Disconnect nothing asks for a discard, so the session-start frame is the first to be
   sent, and the first heartbeat waits for a pipe that has been read empty. *)
StartInv ==
  /\ ~discardRequested
  /\ wire # <<>> => wire[1] = SessionStart
  /\ started /\ wire = <<>> => sent = 0 /\ pipe # <<>> /\ pipe[1] = SessionStart
  /\ wl = "heartbeat" \/ checkpoint > 0 => wire # <<>>

(* Every step keeps it.                                                    *)
LEMMA StartStep ==
  ASSUME IInv, StartInv, Policy = "Disconnect", [Next]_vars
  PROVE  StartInv'
<1> USE DEF StartInv, publisherVars, pipeVars, loopVars, closeVars, episodeVars, tapeVars
<1>a. /\ started <=> wl # "new"
      /\ ~started => pub = "idle" /\ pipe = <<>>
      /\ wl = "new" => sent = 0
  BY DEF IInv, LoopInv
<1>1. CASE FlushBatch
  <2>1. BatchInHand \in Seq(Nat) /\ pipe \in Seq(Nat)
    BY <1>1, BatchInHandProperties DEF FlushBatch, IInv, TypeOK, NumbersOK, LoopInv
  <2>2. pipe # <<>> => pipe' # <<>> /\ pipe'[1] = pipe[1]
    BY <1>1, <2>1, ConcatProperties, EmptySeq DEF FlushBatch
  <2> QED  BY <1>1, <2>2 DEF FlushBatch
<1>2. CASE Publisher /\ ~FlushBatch
  BY <1>2 DEF Publisher, ReadState, SkipBatch, RefuseBatch, EncodeBatch, BeginEpisode,
     EncodeFails, PublisherTearsDown
<1>3. CASE SendFrame
  <2>1. /\ wire \in Seq(Nat) /\ pipe \in Seq(Nat)
        /\ sent \in Nat /\ sent + 1 \in 1 .. Len(pipe) /\ started
    BY <1>3 DEF SendFrame, IInv, TypeOK, NumbersOK, LoopInv
  <2>2. wire' # <<>> /\ wire' = Append(wire, pipe[sent + 1])
    <3>1. pipe[sent + 1] \in Nat
      BY <2>1, ElementOfSeq, Zenon
    <3>2. Append(wire, pipe[sent + 1]) # <<>>
      BY <2>1, <3>1, AppendProperties, Zenon
    <3> QED  BY <1>3, <3>2 DEF SendFrame
  <2>3. wire'[1] = SessionStart
    <3>1. CASE wire = <<>>
      BY <2>1, <2>2, <3>1
    <3>2. CASE wire # <<>>
      BY <2>1, <2>2, <3>2, EmptySeq
    <3> QED  BY <3>1, <3>2
  <2> QED  BY <1>3, <2>2, <2>3 DEF SendFrame
<1>4. CASE WriteLoop /\ ~SendFrame
  BY <1>a, <1>4 DEF WriteLoop, ReadFrames, ReadNothing, DiscardBuffer, TakeBuffer, SendHeartbeat,
     SendFails, LoopCanceled, Finish
<1>5. CASE Backpressure
  BY <1>5 DEF Backpressure, FlushResumes, FlushEnds, FlushCanceled, DelayWins, ClearDiscard,
     EndEpisode, CountSlowConsumer, HandlerCloses, HandlerTearsDown
<1>6. CASE Start
  BY <1>a, <1>6 DEF Start
<1>7. CASE Others /\ ~Start
  BY <1>7 DEF Others, HeartbeatTimer, OnHeartbeatDue, PeerGone, ReceiverTearsDown,
     ReceiveCanceled, StopBegins, StopTearsDown
<1>8. CASE UNCHANGED vars
  BY <1>8 DEF vars
<1> QED  BY <1>1, <1>2, <1>3, <1>4, <1>5, <1>6, <1>7, <1>8 DEF Next

(* A consumer is sent its session start before any tick or heartbeat, unless the policy lets a
   discard take it. *)
THEOREM StartsWithSessionStart == Spec /\ Policy = "Disconnect" => []SessionStartFirst
<1> DEFINE Disconnects == Policy = "Disconnect"
<1>1. Init /\ Disconnects => StartInv /\ Disconnects
  BY DEF Init, StartInv
<1>2. IInv /\ StartInv /\ Disconnects /\ [Next]_vars => StartInv' /\ Disconnects'
  BY StartStep
<1>3. StartInv => SessionStartFirst
  BY DEF StartInv, SessionStartFirst
<1> HIDE DEF Disconnects
<1>4. Policy = "Disconnect" => Disconnects
  BY DEF Disconnects
<1> QED  BY <1>1, <1>2, <1>3, <1>4, Invariance, PTL DEF Spec

----------------------------------------------------------------------------
(* Where the ticks of a sequence are, by their place in it.                *)
LEMMA TickPlaces ==
  ASSUME NEW s \in Seq(Nat), NEW n \in 0 .. Len(s), NEW q
  PROVE  /\ q \in Ticks(s) <=> q # SessionStart /\ \E i \in 1 .. Len(s) : s[i] = q
         /\ q \in Ticks(Take(s, n)) <=> q # SessionStart /\ \E i \in 1 .. n : s[i] = q
         /\ q \in Ticks(Drop(s, n))
              <=> q # SessionStart /\ \E i \in n + 1 .. Len(s) : s[i] = q
<1>1. q \in Ticks(s) <=> q # SessionStart /\ \E i \in 1 .. Len(s) : s[i] = q
  BY DEF Ticks, ElementsOf
<1>2. DOMAIN Take(s, n) = 1 .. n /\ \A i \in 1 .. n : Take(s, n)[i] = s[i]
  BY TakeProperties
<1>3. /\ DOMAIN Drop(s, n) = 1 .. Len(s) - n
      /\ \A i \in 1 .. Len(s) - n : Drop(s, n)[i] = s[n + i]
  <2>1. Drop(s, n) \in Seq(Nat) /\ Len(Drop(s, n)) = Len(s) - n
    BY DropProperties
  <2>2. DOMAIN Drop(s, n) = 1 .. Len(s) - n
    BY <2>1
  <2> QED  BY <2>2, DropProperties
<1>4. q \in Ticks(Take(s, n)) <=> q # SessionStart /\ \E i \in 1 .. n : s[i] = q
  BY <1>2 DEF Ticks, ElementsOf
<1>5. (\E i \in 1 .. Len(s) - n : s[n + i] = q) <=> \E i \in n + 1 .. Len(s) : s[i] = q
  <2>1. ASSUME NEW i \in n + 1 .. Len(s), s[i] = q
        PROVE  \E j \in 1 .. Len(s) - n : s[n + j] = q
    <3>1. i - n \in 1 .. Len(s) - n /\ n + (i - n) = i
      OBVIOUS
    <3> QED  BY <2>1, <3>1
  <2>2. ASSUME NEW i \in 1 .. Len(s) - n, s[n + i] = q
        PROVE  \E j \in n + 1 .. Len(s) : s[j] = q
    <3>1. n + i \in n + 1 .. Len(s)
      OBVIOUS
    <3> QED  BY <2>2, <3>1
  <2> QED  BY <2>1, <2>2
<1>6. q \in Ticks(Drop(s, n)) <=> q # SessionStart /\ \E i \in n + 1 .. Len(s) : s[i] = q
  BY <1>3, <1>5 DEF Ticks, ElementsOf
<1> QED  BY <1>1, <1>4, <1>6

(* The ticks that are left of a sequence.                                  *)
LEMMA TicksLeft ==
  ASSUME NEW w \in Seq(Nat), NEW k \in 0 .. Len(w)
  PROVE  \A q : q \in Ticks(Drop(w, k))
                <=> q # SessionStart /\ \E i \in k + 1 .. Len(w) : w[i] = q
BY TickPlaces

(* A buffer is what is taken from it and what is left.                     *)
LEMMA TicksSplit ==
  ASSUME NEW s \in Seq(Nat), NEW n \in 0 .. Len(s)
  PROVE  Ticks(s) = Ticks(Take(s, n)) \cup Ticks(Drop(s, n))
<1>1. \A i : i \in 1 .. Len(s) <=> i \in 1 .. n \/ i \in n + 1 .. Len(s)
  OBVIOUS
<1> QED  BY <1>1, TickPlaces

(* Nothing dropped leaves everything.                                      *)
LEMMA TicksWhole ==
  ASSUME NEW s \in Seq(Nat)
  PROVE  Ticks(Drop(s, 0)) = Ticks(s)
<1>1. 0 \in 0 .. Len(s) /\ \A i : i \in 0 + 1 .. Len(s) <=> i \in 1 .. Len(s)
  OBVIOUS
<1>2. ASSUME NEW q
      PROVE  /\ q \in Ticks(s) <=> q # SessionStart /\ \E i \in 1 .. Len(s) : s[i] = q
             /\ q \in Ticks(Drop(s, 0))
                  <=> q # SessionStart /\ \E i \in 0 + 1 .. Len(s) : s[i] = q
  BY <1>1, TickPlaces
<1> QED  BY <1>1, <1>2

(* The next frame, and the frames after it.                                *)
LEMMA TicksNext ==
  ASSUME NEW s \in Seq(Nat), NEW n \in 0 .. Len(s), n + 1 <= Len(s)
  PROVE  Ticks(Drop(s, n)) = ({s[n + 1]} \ {SessionStart}) \cup Ticks(Drop(s, n + 1))
<1>1. n + 1 \in 0 .. Len(s)
  OBVIOUS
<1>2. \A i : i \in n + 1 .. Len(s) <=> i = n + 1 \/ i \in (n + 1) + 1 .. Len(s)
  OBVIOUS
<1> QED  BY <1>1, <1>2, TickPlaces

(* A frame is appended.                                                    *)
LEMMA TicksAppend ==
  ASSUME NEW s \in Seq(Nat), NEW x \in Nat
  PROVE  Ticks(Append(s, x)) = Ticks(s) \cup ({x} \ {SessionStart})
<1>1. Append(s, x) \in Seq(Nat) /\ Len(Append(s, x)) = Len(s) + 1
  BY AppendProperties
<1>2. \A i \in 1 .. Len(s) + 1 : Append(s, x)[i] = IF i = Len(s) + 1 THEN x ELSE s[i]
  BY AppendProperties
<1>3. \A i : i \in 1 .. Len(s) + 1 <=> i = Len(s) + 1 \/ i \in 1 .. Len(s)
  OBVIOUS
<1>4. Len(s) \in 0 .. Len(s) /\ Len(s) \notin 1 .. Len(s) - 1 /\ Len(s) + 1 \notin 1 .. Len(s)
  OBVIOUS
<1>5. ASSUME NEW q
      PROVE  (\E i \in 1 .. Len(s) + 1 : Append(s, x)[i] = q)
               <=> q = x \/ \E i \in 1 .. Len(s) : s[i] = q
  BY <1>2, <1>3, <1>4
<1>6. ASSUME NEW q
      PROVE  q \in Ticks(Append(s, x))
               <=> q # SessionStart /\ \E i \in 1 .. Len(s) + 1 : Append(s, x)[i] = q
  BY <1>1 DEF Ticks, ElementsOf
<1>7. ASSUME NEW q
      PROVE  q \in Ticks(s) <=> q # SessionStart /\ \E i \in 1 .. Len(s) : s[i] = q
  BY <1>4, TickPlaces
<1> QED  BY <1>5, <1>6, <1>7

(* A batch is written behind what is already in the pipe.                  *)
LEMMA TicksJoin ==
  ASSUME NEW s \in Seq(Nat), NEW u \in Seq(Nat), NEW n \in 0 .. Len(s)
  PROVE  Ticks(Drop(s \o u, n)) = Ticks(Drop(s, n)) \cup Ticks(u)
<1>1. s \o u \in Seq(Nat) /\ Len(s \o u) = Len(s) + Len(u)
  BY ConcatProperties
<1>2. /\ \A i \in 1 .. Len(s) : (s \o u)[i] = s[i]
      /\ \A i \in 1 .. Len(u) : (s \o u)[Len(s) + i] = u[i]
  BY ConcatProperties
<1>3. n \in 0 .. Len(s \o u) /\ Len(u) \in 0 .. Len(u)
  BY <1>1
<1>4. ASSUME NEW q, NEW i \in n + 1 .. Len(s) + Len(u), (s \o u)[i] = q
      PROVE  (\E j \in n + 1 .. Len(s) : s[j] = q) \/ \E j \in 1 .. Len(u) : u[j] = q
  <2>1. CASE i <= Len(s)
    BY <1>2, <1>4, <2>1
  <2>2. CASE ~(i <= Len(s))
    <3>1. i - Len(s) \in 1 .. Len(u) /\ Len(s) + (i - Len(s)) = i
      BY <2>2
    <3> QED  BY <1>2, <1>4, <3>1
  <2> QED  BY <2>1, <2>2
<1>5. ASSUME NEW q, NEW j \in n + 1 .. Len(s), s[j] = q
      PROVE  \E i \in n + 1 .. Len(s) + Len(u) : (s \o u)[i] = q
  <2>1. j \in n + 1 .. Len(s) + Len(u) /\ j \in 1 .. Len(s)
    OBVIOUS
  <2> QED  BY <1>2, <1>5, <2>1
<1>6. ASSUME NEW q, NEW j \in 1 .. Len(u), u[j] = q
      PROVE  \E i \in n + 1 .. Len(s) + Len(u) : (s \o u)[i] = q
  <2>1. Len(s) + j \in n + 1 .. Len(s) + Len(u)
    OBVIOUS
  <2> QED  BY <1>2, <1>6, <2>1
<1>7. ASSUME NEW q
      PROVE  q \in Ticks(Drop(s \o u, n))
               <=> q # SessionStart /\ \E i \in n + 1 .. Len(s) + Len(u) : (s \o u)[i] = q
  <2> DEFINE joined == s \o u
  <2>1. joined \in Seq(Nat) /\ n \in 0 .. Len(joined) /\ Len(joined) = Len(s) + Len(u)
    BY <1>1, <1>3
  <2> HIDE DEF joined
  <2>2. \A r : r \in Ticks(Drop(joined, n))
               <=> r # SessionStart /\ \E i \in n + 1 .. Len(joined) : joined[i] = r
    BY <2>1, TicksLeft, Zenon
  <2>3. q \in Ticks(Drop(joined, n))
          <=> q # SessionStart /\ \E i \in n + 1 .. Len(s) + Len(u) : joined[i] = q
    BY <2>1, <2>2
  <2> QED  BY <2>3 DEF joined
<1>8. ASSUME NEW q
      PROVE  /\ q \in Ticks(Drop(s, n))
                   <=> q # SessionStart /\ \E i \in n + 1 .. Len(s) : s[i] = q
             /\ q \in Ticks(u) <=> q # SessionStart /\ \E i \in 1 .. Len(u) : u[i] = q
  BY <1>3, TickPlaces
<1> QED  BY <1>4, <1>5, <1>6, <1>7, <1>8

(* The frames of the batch in hand are the numbers reserved for it.        *)
LEMMA BatchTicks ==
  ASSUME NumbersOK, batch < nextSequence
  PROVE  /\ ElementsOf(BatchInHand) = nextSequence - batch .. nextSequence - 1
         /\ Ticks(BatchInHand) = nextSequence - batch .. nextSequence - 1
<1>1. /\ BatchInHand \in Seq(Nat) /\ DOMAIN BatchInHand = 1 .. batch
      /\ \A i \in 1 .. batch : BatchInHand[i] = nextSequence - batch + i - 1
  BY BatchInHandProperties
<1>2. ASSUME NEW q \in nextSequence - batch .. nextSequence - 1
      PROVE  q \in ElementsOf(BatchInHand)
  <2>1. q - (nextSequence - batch) + 1 \in 1 .. batch
    BY DEF NumbersOK
  <2>2. BatchInHand[q - (nextSequence - batch) + 1] = q
    BY <1>1, <2>1 DEF NumbersOK
  <2> QED  BY <1>1, <2>1, <2>2 DEF ElementsOf
<1>3. ASSUME NEW i \in 1 .. batch
      PROVE  BatchInHand[i] \in nextSequence - batch .. nextSequence - 1
  BY <1>1 DEF NumbersOK
<1>4. ElementsOf(BatchInHand) = nextSequence - batch .. nextSequence - 1
  BY <1>1, <1>2, <1>3 DEF ElementsOf
<1>5. SessionStart \notin nextSequence - batch .. nextSequence - 1
  BY DEF NumbersOK, SessionStart
<1> QED  BY <1>4, <1>5 DEF Ticks

----------------------------------------------------------------------------
(* Every number handed out is sent, queued, in the publisher's hands or withheld, and no
   withheld number is any of the others. *)
Queued == Ticks(Drop(pipe, sent))
Handed == IF pub = "flushing" THEN nextSequence - batch .. nextSequence - 1 ELSE {}
Accounted ==
  /\ 1 .. (nextSequence - 1) = Ticks(wire) \cup Queued \cup Handed \cup withheld
  /\ Ticks(wire) \cap (Queued \cup Handed) = {}
  /\ withheld \cap (Ticks(wire) \cup Queued \cup Handed) = {}
  /\ IsFiniteSet(withheld)
  /\ skippedRecords + discardedRecords = Cardinality(withheld)

(* The publisher's batch, and what the session has told of its end.        *)
BatchInv ==
  /\ pub \in {"locking", "skipping", "flushing"} => batch \in BatchSizes
  /\ reported # "none" <=> wl = "done"

(* What is waiting, as FeedSession says it.                                *)
LEMMA WaitingIs ==
  ASSUME NumbersOK, LoopInv
  PROVE  Waiting = Queued \cup Handed
<1>1. pub = "flushing" => ElementsOf(BatchInHand) = Handed
  BY BatchTicks DEF LoopInv, Handed
<1> QED  BY <1>1 DEF Waiting, Queued, Handed

(* What leaves the wire, the pipe, the numbers and the withheld alone leaves them accounted. *)
LEMMA StillAccounted ==
  ASSUME Accounted, UNCHANGED <<wire, pipe, sent, withheld, nextSequence, skippedRecords,
                                discardedRecords>>,
         Handed' = Handed
  PROVE  Accounted'
<1>1. Queued' = Queued /\ Ticks(wire)' = Ticks(wire)
  BY DEF Queued
<1> QED  BY <1>1 DEF Accounted

(* A batch withheld is a run of numbers that nothing else carries.         *)
LEMMA SkipAccounts ==
  ASSUME NumbersOK, Accounted, batch \in Nat \ {0}, Handed = {}, Handed' = {}, Skip,
         UNCHANGED <<wire, pipe, sent, discardedRecords>>
  PROVE  Accounted'
<1> DEFINE these == nextSequence .. (nextSequence + batch - 1)
<1>1. Queued' = Queued /\ Ticks(wire)' = Ticks(wire)
  BY DEF Queued
<1>2. /\ nextSequence' = nextSequence + batch /\ withheld' = withheld \cup these
      /\ skippedRecords' = skippedRecords + batch
  BY DEF Skip
<1>3. IsFiniteSet(these) /\ Cardinality(these) = batch
  BY FS_Interval DEF NumbersOK
<1>4. \A q \in Ticks(wire) \cup Queued \cup withheld : q \in 1 .. nextSequence - 1
  BY DEF Accounted
<1>5. \A q : q \in 1 .. nextSequence - 1 => q \notin these
  BY DEF NumbersOK
<1>6. \A q : q \in 1 .. nextSequence' - 1 <=> q \in 1 .. nextSequence - 1 \/ q \in these
  BY <1>2 DEF NumbersOK
<1> HIDE DEF these
<1>7. withheld \cap these = {} /\ these \cap (Ticks(wire) \cup Queued) = {}
  BY <1>4, <1>5
<1>8. /\ IsFiniteSet(withheld')
      /\ Cardinality(withheld') = Cardinality(withheld) + Cardinality(these)
                                   - Cardinality(withheld \cap these)
  BY <1>2, <1>3, FS_Union DEF Accounted
<1>9. Cardinality(withheld) \in Nat /\ Cardinality(withheld \cap these) = 0
  BY <1>7, FS_EmptySet, FS_CardinalityType DEF Accounted
<1>10. skippedRecords' + discardedRecords' = Cardinality(withheld')
  BY <1>2, <1>3, <1>8, <1>9 DEF Accounted, NumbersOK
<1>11. 1 .. nextSequence' - 1 = Ticks(wire)' \cup Queued' \cup Handed' \cup withheld'
  BY <1>1, <1>2, <1>6 DEF Accounted
<1> QED  BY <1>1, <1>2, <1>7, <1>8, <1>10, <1>11 DEF Accounted

(* A frame sent moves from the pipe to the wire.                           *)
LEMMA SendAccounts ==
  ASSUME IInv, Accounted, SendFrame
  PROVE  /\ Accounted' /\ Handed' = Handed
         /\ Queued = ({pipe[sent + 1]} \ {SessionStart}) \cup Queued'
<1> USE DEF IInv, TypeOK, NumbersOK, LoopInv, OrderInv
<1> DEFINE x == pipe[sent + 1]
<1>1. /\ pipe \in Seq(Nat) /\ sent \in 0 .. Len(pipe) /\ sent + 1 <= Len(pipe)
      /\ wire \in Seq(Nat) /\ x \in Nat
  BY DEF SendFrame
<1>2. /\ wire' = Append(wire, x)
      /\ UNCHANGED <<withheld, nextSequence, skippedRecords, discardedRecords, pub, batch>>
  BY DEF SendFrame, publisherVars
<1>3. Handed' = Handed
  BY <1>2 DEF Handed
<1>4. Ticks(wire') = Ticks(wire) \cup ({x} \ {SessionStart})
  BY <1>1, <1>2, TicksAppend
<1>5. Ticks(Drop(pipe, sent)) = ({x} \ {SessionStart}) \cup Ticks(Drop(pipe, sent + 1))
  BY <1>1, TicksNext
<1>6. Queued' = Ticks(Drop(pipe, sent + 1))
  <2>1. CASE sent + 1 = buffer
    <3>1. pipe' = Drop(pipe, sent + 1) /\ sent' = 0
      BY <2>1 DEF SendFrame, AdvanceTo, Unconsumed
    <3>2. Drop(pipe, sent + 1) \in Seq(Nat)
      BY <1>1, DropProperties
    <3> QED  BY <3>1, <3>2, TicksWhole DEF Queued
  <2>2. CASE sent + 1 # buffer
    BY <2>2 DEF SendFrame, Queued
  <2> QED  BY <2>1, <2>2
<1>7. x \notin Queued'
  <2>1. \A i \in (sent + 1) + 1 .. Len(pipe) : pipe[i] # x
    <3>1. ASSUME NEW i \in (sent + 1) + 1 .. Len(pipe)
          PROVE  pipe[sent + 1] < pipe[i] /\ pipe[i] \in Nat
      BY <1>1, <3>1 DEF Increasing
    <3> QED  BY <1>1, <3>1
  <2>2. sent + 1 \in 0 .. Len(pipe)
    BY <1>1
  <2>3. \A q : q \in Ticks(Drop(pipe, sent + 1))
                => \E i \in (sent + 1) + 1 .. Len(pipe) : pipe[i] = q
    BY <1>1, <2>2, TickPlaces
  <2> QED  BY <1>6, <2>1, <2>3
<1>8. x \notin Handed
  BY <1>1 DEF Handed, Below, Fresh
<1> HIDE DEF x
<1>9. Queued = ({x} \ {SessionStart}) \cup Queued'
  BY <1>5, <1>6 DEF Queued
<1>10. Accounted'
  BY <1>2, <1>3, <1>4, <1>7, <1>8, <1>9 DEF Accounted
<1> QED  BY <1>3, <1>9, <1>10 DEF x

(* The oldest frames that wait are the ones discarded: what is left of the pipe, or in the
   publisher's hands, comes after them. *)
LEMMA DiscardAccounts ==
  ASSUME IInv, Accounted, DiscardBuffer
  PROVE  /\ Accounted' /\ Handed' = Handed
         /\ \E S \in SUBSET Nat : /\ withheld' = withheld \cup S
                                 /\ Queued = S \cup Queued'
                                 /\ \A p \in S, q \in Queued' \cup Handed : p < q
<1> USE DEF IInv, TypeOK, NumbersOK, LoopInv, OrderInv
<1> DEFINE thrown == Ticks(Take(pipe, buffer))
<1>1. pipe \in Seq(Nat) /\ buffer \in 0 .. Len(pipe) /\ sent = 0
  BY DEF DiscardBuffer
<1>2. /\ withheld' = withheld \cup thrown
      /\ discardedRecords' = discardedRecords + Cardinality(thrown)
      /\ UNCHANGED <<wire, nextSequence, skippedRecords, pub, batch>>
  BY DEF DiscardBuffer, publisherVars
<1>3. Handed' = Handed /\ Ticks(wire)' = Ticks(wire)
  BY <1>2 DEF Handed
<1>4. Queued = thrown \cup Ticks(Drop(pipe, buffer))
  BY <1>1, TicksWhole, TicksSplit DEF Queued
<1>5. Queued' = Ticks(Drop(pipe, buffer))
  <2>1. pipe' = Drop(pipe, buffer) /\ sent' = 0
    BY DEF DiscardBuffer, AdvanceTo, Unconsumed
  <2>2. Drop(pipe, buffer) \in Seq(Nat)
    BY <1>1, DropProperties
  <2> QED  BY <2>1, <2>2, TicksWhole DEF Queued
<1>6. IsFiniteSet(thrown) /\ thrown \subseteq Nat /\ Cardinality(thrown) \in Nat
  <2>1. Take(pipe, buffer) \in Seq(Nat)
    BY <1>1, TakeProperties
  <2> QED  BY <2>1, TicksFinite
<1>7. /\ \A p \in thrown : \E i \in 1 .. buffer : pipe[i] = p
      /\ \A q \in Queued' : \E j \in buffer + 1 .. Len(pipe) : pipe[j] = q
  BY <1>1, <1>5, TickPlaces
<1>8. \A i \in 1 .. buffer, j \in buffer + 1 .. Len(pipe) : pipe[i] < pipe[j]
  <2>1. ASSUME NEW i \in 1 .. buffer, NEW j \in buffer + 1 .. Len(pipe)
        PROVE  i \in 1 .. Len(pipe) /\ j \in 1 .. Len(pipe) /\ i < j
    BY <1>1
  <2> QED  BY <2>1 DEF Increasing
<1>9. \A i \in 1 .. Len(pipe), q \in Handed : pipe[i] < q
  <2>1. \A i \in 1 .. Len(pipe) : pipe[i] \in Nat /\ pipe[i] < Fresh
    BY <1>1 DEF Below
  <2>2. ASSUME NEW q \in Handed
        PROVE  q \in Nat /\ Fresh \in Nat /\ Fresh <= q
    BY DEF Handed, Fresh
  <2> QED  BY <2>1, <2>2
<1>10. \A i \in 1 .. buffer : i \in 1 .. Len(pipe)
  BY <1>1
<1> HIDE DEF thrown
<1>11. \A p \in thrown, q \in Queued' \cup Handed : p < q
  <2> SUFFICES ASSUME NEW p \in thrown, NEW q \in Queued' \cup Handed PROVE p < q
    OBVIOUS
  <2>1. PICK i \in 1 .. buffer : pipe[i] = p
    BY <1>7
  <2>2. CASE q \in Queued'
    <3>1. PICK j \in buffer + 1 .. Len(pipe) : pipe[j] = q
      BY <1>7, <2>2
    <3> QED  BY <1>8, <2>1, <3>1
  <2>3. CASE q \in Handed
    BY <1>9, <1>10, <2>1, <2>3
  <2> QED  BY <2>2, <2>3
<1>12. thrown \cap (Queued' \cup Handed) = {}
  <2>1. \A p \in thrown : p \in Nat /\ ~(p < p)
    BY <1>6
  <2> QED  BY <1>11, <2>1
<1>13. withheld \cap thrown = {}
  BY <1>4 DEF Accounted
<1>14. /\ IsFiniteSet(withheld')
       /\ Cardinality(withheld') = Cardinality(withheld) + Cardinality(thrown)
                                    - Cardinality(withheld \cap thrown)
  BY <1>2, <1>6, FS_Union DEF Accounted
<1>15. Cardinality(withheld) \in Nat /\ Cardinality(withheld \cap thrown) = 0
  BY <1>13, FS_EmptySet, FS_CardinalityType DEF Accounted
<1>16. skippedRecords' + discardedRecords' = Cardinality(withheld')
  BY <1>2, <1>6, <1>14, <1>15 DEF Accounted
<1>17. Queued = thrown \cup Queued'
  BY <1>4, <1>5
<1>18. Accounted'
  BY <1>2, <1>3, <1>12, <1>14, <1>16, <1>17 DEF Accounted
<1> QED  BY <1>2, <1>3, <1>6, <1>11, <1>17, <1>18

(* Every step keeps the batch a legal one and the reported reason true.     *)
LEMMA BatchStep ==
  ASSUME IInv, BatchInv, [Next]_vars
  PROVE  BatchInv'
<1> USE DEF IInv, TypeOK, PlacesOK, LoopInv, BatchInv, publisherVars, loopVars, closeVars
<1>1. CASE Publisher
  BY <1>1 DEF Publisher, ReadState, SkipBatch, RefuseBatch, EncodeBatch, FlushBatch,
     BeginEpisode, EncodeFails, PublisherTearsDown
<1>2. CASE WriteLoop
  BY <1>2 DEF WriteLoop, ReadFrames, ReadNothing, DiscardBuffer, TakeBuffer, SendFrame,
     SendHeartbeat, SendFails, LoopCanceled, Finish, AdvanceTo, Reasons
<1>3. CASE Backpressure
  BY <1>3 DEF Backpressure, FlushResumes, FlushEnds, FlushCanceled, DelayWins, ClearDiscard,
     EndEpisode, CountSlowConsumer, HandlerCloses, HandlerTearsDown
<1>4. CASE Others
  BY <1>4 DEF Others, Start, HeartbeatTimer, OnHeartbeatDue, PeerGone, ReceiverTearsDown,
     ReceiveCanceled, StopBegins, StopTearsDown
<1>5. CASE UNCHANGED vars
  BY <1>5 DEF vars
<1> QED  BY <1>1, <1>2, <1>3, <1>4, <1>5 DEF Next

(* The numbers of a batch are handed out when it is encoded ...             *)
LEMMA EncodeAccounts ==
  ASSUME NumbersOK, Accounted, EncodeBatch
  PROVE  Accounted' /\ Queued' = Queued /\ Handed = {}
         /\ Handed' = nextSequence .. nextSequence + batch - 1
<1>1. Queued' = Queued /\ Ticks(wire)' = Ticks(wire)
  BY DEF EncodeBatch, Queued, pipeVars, loopVars, tapeVars
<1>2. /\ nextSequence' = nextSequence + batch /\ pub' = "flushing" /\ pub = "locking"
      /\ UNCHANGED <<batch, skippedRecords, discardedRecords, withheld>>
  BY DEF EncodeBatch, tapeVars
<1>3. Handed = {} /\ Handed' = nextSequence .. nextSequence + batch - 1
  BY <1>2 DEF Handed, NumbersOK
<1>4. \A q : q \in 1 .. nextSequence - 1 => q \notin nextSequence .. nextSequence + batch - 1
  BY DEF NumbersOK
<1>5. \A q : q \in 1 .. nextSequence' - 1
             <=> q \in 1 .. nextSequence - 1 \/ q \in nextSequence .. nextSequence + batch - 1
  BY <1>2 DEF NumbersOK
<1>6. 1 .. (nextSequence - 1) = Ticks(wire) \cup Queued \cup withheld
  BY <1>3 DEF Accounted
<1>7. Accounted'
  BY <1>1, <1>2, <1>3, <1>4, <1>5, <1>6 DEF Accounted
<1> QED  BY <1>1, <1>3, <1>7

(* ... and join the pipe when it is flushed.                                *)
LEMMA FlushAccounts ==
  ASSUME IInv, Accounted, FlushBatch
  PROVE  Accounted' /\ Queued' \cup Handed' = Queued \cup Handed
<1> USE DEF IInv, TypeOK, NumbersOK, LoopInv
<1>1. /\ BatchInHand \in Seq(Nat) /\ Ticks(BatchInHand) = Handed
      /\ pipe \in Seq(Nat) /\ sent \in 0 .. Len(pipe)
  BY BatchInHandProperties, BatchTicks DEF FlushBatch, Handed
<1>2. /\ pipe' = pipe \o BatchInHand /\ sent' = sent /\ Handed' = {}
      /\ UNCHANGED <<wire, withheld, nextSequence, skippedRecords, discardedRecords>>
  BY DEF FlushBatch, Handed, loopVars, tapeVars
<1>3. Queued' = Queued \cup Handed
  BY <1>1, <1>2, TicksJoin DEF Queued
<1>4. Accounted'
  BY <1>2, <1>3 DEF Accounted
<1> QED  BY <1>2, <1>3, <1>4

(* The session-start frame is not a tick: Start queues nothing that is counted. *)
LEMMA StartAccounts ==
  ASSUME IInv, Accounted, Start
  PROVE  Accounted' /\ Queued' = Queued /\ Handed' = Handed
<1>1. /\ pipe = <<>> /\ sent = 0 /\ sent' = sent
      /\ pipe' = Append(pipe, SessionStart) /\ pipe \in Seq(Nat)
  BY DEF Start, IInv, TypeOK, NumbersOK, LoopInv
<1>2. /\ UNCHANGED <<wire, withheld, nextSequence, skippedRecords, discardedRecords, pub, batch>>
  BY DEF Start, publisherVars, tapeVars
<1>3. pipe' \in Seq(Nat) /\ Ticks(pipe') = Ticks(pipe)
  <2>1. SessionStart \in Nat
    BY DEF SessionStart
  <2>2. Append(pipe, SessionStart) \in Seq(Nat)
    BY <1>1, <2>1, AppendProperties
  <2>3. Ticks(Append(pipe, SessionStart)) = Ticks(pipe) \cup ({SessionStart} \ {SessionStart})
    BY <1>1, <2>1, TicksAppend
  <2> QED  BY <1>1, <2>2, <2>3
<1>4. Queued' = Queued
  BY <1>1, <1>3, TicksWhole DEF Queued
<1>5. Handed' = Handed
  BY <1>2 DEF Handed
<1> QED  BY <1>2, <1>4, <1>5 DEF Accounted

(* Every step that is none of those leaves the books as they are.          *)
Books == <<wire, pipe, sent, withheld, nextSequence, skippedRecords, discardedRecords>>
LEMMA OtherSteps ==
  ASSUME [Next]_vars,
         ~SkipBatch, ~(RefuseBatch /\ state = "backpressured"), ~EncodeBatch, ~FlushBatch,
         ~DiscardBuffer, ~SendFrame, ~Start
  PROVE  UNCHANGED Books /\ Handed' = Handed /\ (reported' = reported \/ Finish)
<1> USE DEF Books, Handed, publisherVars, pipeVars, loopVars, closeVars, tapeVars
<1>1. CASE Publisher
  BY <1>1 DEF Publisher, ReadState, RefuseBatch, BeginEpisode, EncodeFails,
     PublisherTearsDown
<1>2. CASE WriteLoop
  BY <1>2 DEF WriteLoop, ReadFrames, ReadNothing, TakeBuffer, SendHeartbeat, SendFails,
     LoopCanceled, Finish
<1>3. CASE Backpressure
  BY <1>3 DEF Backpressure, FlushResumes, FlushEnds, FlushCanceled, DelayWins, ClearDiscard,
     EndEpisode, CountSlowConsumer, HandlerCloses, HandlerTearsDown
<1>4. CASE Others
  BY <1>4 DEF Others, HeartbeatTimer, OnHeartbeatDue, PeerGone, ReceiverTearsDown,
     ReceiveCanceled, StopBegins, StopTearsDown
<1>5. CASE UNCHANGED vars
  BY <1>5 DEF vars
<1> QED  BY <1>1, <1>2, <1>3, <1>4, <1>5 DEF Next

(* Both ways of withholding a batch, with and without the lock.            *)
LEMMA WithholdAccounts ==
  ASSUME IInv, BatchInv, Accounted,
         SkipBatch \/ (RefuseBatch /\ state = "backpressured")
  PROVE  /\ Accounted' /\ Skip /\ batch \in BatchSizes
         /\ UNCHANGED <<wire, pipe, sent, discardedRecords, reported>>
         /\ Handed = {} /\ Handed' = {}
<1>1. /\ Skip /\ pub \in {"skipping", "locking"} /\ pub' = "idle"
      /\ UNCHANGED <<wire, pipe, sent, discardedRecords, reported>>
  BY DEF SkipBatch, RefuseBatch, pipeVars, loopVars, closeVars
<1>2. batch \in BatchSizes /\ batch \in Nat \ {0} /\ NumbersOK
  BY <1>1, SessionAssumption DEF BatchInv, IInv, TypeOK
<1>3. Handed = {} /\ Handed' = {}
  BY <1>1 DEF Handed
<1> QED  BY <1>1, <1>2, <1>3, SkipAccounts

(* Every step keeps the numbers accounted for.                             *)
LEMMA AccountStep ==
  ASSUME IInv, BatchInv, Accounted, [Next]_vars
  PROVE  Accounted'
<1>1. CASE SkipBatch \/ (RefuseBatch /\ state = "backpressured")
  BY <1>1, WithholdAccounts
<1>2. CASE EncodeBatch
  BY <1>2, EncodeAccounts DEF IInv, TypeOK
<1>3. CASE FlushBatch
  BY <1>3, FlushAccounts
<1>4. CASE DiscardBuffer
  BY <1>4, DiscardAccounts
<1>5. CASE SendFrame
  BY <1>5, SendAccounts
<1>6. CASE Start
  BY <1>6, StartAccounts
<1>7. CASE ~(\/ SkipBatch \/ (RefuseBatch /\ state = "backpressured") \/ EncodeBatch
             \/ FlushBatch \/ DiscardBuffer \/ SendFrame \/ Start)
  <2>1. UNCHANGED Books /\ Handed' = Handed
    BY <1>7, OtherSteps
  <2> QED  BY <2>1, StillAccounted DEF Books
<1> QED  BY <1>1, <1>2, <1>3, <1>4, <1>5, <1>6, <1>7

(* The constructor has handed out nothing.                                 *)
LEMMA InitAccounted == Init => Accounted /\ BatchInv
<1> SUFFICES ASSUME Init PROVE Accounted /\ BatchInv
  OBVIOUS
<1>1. wire = <<>> /\ pipe = <<>> /\ sent = 0 /\ <<>> \in Seq(Nat) /\ Len(<<>>) = 0
  BY EmptySeq DEF Init
<1>2. Ticks(<<>>) = {}
  BY DEF Ticks, ElementsOf
<1>3. Ticks(wire) = {} /\ Queued = {}
  BY <1>1, <1>2, TicksWhole DEF Queued
<1>4. Handed = {} /\ withheld = {} /\ nextSequence = 1 /\ skippedRecords + discardedRecords = 0
  BY DEF Init, Handed
<1>5. Accounted
  BY <1>3, <1>4, FS_EmptySet DEF Accounted
<1> QED  BY <1>5 DEF Init, BatchInv

(* The invariant of the refinement.                                        *)
TapeInv == IInv /\ BatchInv /\ Accounted
LEMMA TapeInvariance == Spec => []TapeInv
<1>1. Init => TapeInv
  BY InitIInv, InitAccounted DEF TapeInv
<1>2. TapeInv /\ [Next]_vars => TapeInv'
  BY InductiveStep, BatchStep, AccountStep DEF TapeInv
<1> QED  BY <1>1, <1>2, PTL DEF Spec

(* Every number the session hands out is sent, still queued or counted as dropped, and only one
   of these: the gaps a consumer sees are the drops the exchange reported. *)
THEOREM TapeStaysAccounted == Spec => []TapeAccounted
<1>1. TapeInv => TapeAccounted
  <2> SUFFICES ASSUME TapeInv PROVE TapeAccounted
    OBVIOUS
  <2>1. Waiting = Queued \cup Handed
    BY WaitingIs DEF TapeInv, IInv, TypeOK
  <2> QED  BY <2>1 DEF TapeInv, Accounted, TapeAccounted
<1> QED  BY <1>1, TapeInvariance, PTL

----------------------------------------------------------------------------
(* The refinement.  The tape is the wire without the session start, and what waits on it is
   what the session has queued or in hand. *)
LEMMA TapeIs ==
  ASSUME TapeInv
  PROVE  /\ Tape!Sent = Ticks(wire)
         /\ Tape!Waiting = Queued \cup Handed
<1> USE DEF TapeInv, IInv, TypeOK, NumbersOK, OrderInv
<1>1. Tape!Sent = Ticks(wire)
  <2>1. CASE wire # <<>> /\ wire[1] = SessionStart
    <3>1. TickTape = Tail(wire) /\ wire \in Seq(Nat) /\ Len(wire) \in Nat \ {0}
      BY <2>1, EmptySeq DEF TickTape
    <3>2. /\ DOMAIN TickTape = 1 .. Len(wire) - 1
          /\ \A i \in 1 .. Len(wire) - 1 : TickTape[i] = wire[i + 1]
      BY <3>1
    <3>3. \A i \in 1 .. Len(wire) - 1 : i + 1 \in 1 .. Len(wire) /\ wire[i + 1] # SessionStart
      BY <2>1, <3>1 DEF Increasing, SessionStart
    <3>4. \A i \in 1 .. Len(wire) : i = 1 \/ (i - 1 \in 1 .. Len(wire) - 1 /\ (i - 1) + 1 = i)
      BY <3>1
    <3>5. \A q : q \in Ticks(wire) <=> q # SessionStart /\ \E i \in 1 .. Len(wire) : wire[i] = q
      BY <3>1 DEF Ticks, ElementsOf
    <3>6. \A q : q \in Tape!Sent <=> \E i \in 1 .. Len(wire) - 1 : wire[i + 1] = q
      BY <3>2 DEF Tape!Sent
    <3>7. ASSUME NEW q \in Tape!Sent
          PROVE  q \in Ticks(wire)
      BY <3>3, <3>5, <3>6
    <3>8. ASSUME NEW q \in Ticks(wire)
          PROVE  q \in Tape!Sent
      <4>1. PICK i \in 1 .. Len(wire) : wire[i] = q /\ q # SessionStart
        BY <3>5
      <4>2. i - 1 \in 1 .. Len(wire) - 1 /\ (i - 1) + 1 = i
        BY <2>1, <3>4, <4>1
      <4> QED  BY <3>6, <4>1, <4>2
    <3> QED  BY <3>7, <3>8
  <2>2. CASE ~(wire # <<>> /\ wire[1] = SessionStart)
    <3>1. TickTape = wire /\ wire \in Seq(Nat)
      BY <2>2 DEF TickTape
    <3>2. \A i \in 1 .. Len(wire) : wire[i] # SessionStart
      <4>1. ASSUME NEW i \in 1 .. Len(wire), wire[i] = SessionStart
            PROVE  FALSE
        <5>1. wire # <<>> /\ 1 \in 1 .. Len(wire) /\ wire[1] \in Nat
          BY <3>1, <4>1, EmptySeq
        <5>2. 1 < i => wire[1] < wire[i]
          BY <4>1, <5>1 DEF Increasing
        <5> QED  BY <2>2, <4>1, <5>1, <5>2 DEF SessionStart
      <4> QED  BY <4>1
    <3>3. DOMAIN wire = 1 .. Len(wire)
      BY <3>1
    <3> QED  BY <3>1, <3>2, <3>3 DEF Tape!Sent, Ticks, ElementsOf
  <2> QED  BY <2>1, <2>2
<1>2. Tape!Waiting = (1 .. (nextSequence - 1)) \ (Ticks(wire) \cup withheld)
  BY <1>1 DEF Tape!Waiting
<1> QED  BY <1>1, <1>2 DEF Accounted

(* A frame sent is the oldest record that waits, or the session start, which is none. *)
LEMMA SendDelivers ==
  ASSUME TapeInv, SendFrame
  PROVE  Tape!Deliver \/ UNCHANGED Tape!vars
<1> USE DEF TapeInv, IInv, TypeOK, NumbersOK, LoopInv, OrderInv
<1> DEFINE x == pipe[sent + 1]
<1>1. /\ pipe \in Seq(Nat) /\ sent \in 0 .. Len(pipe) /\ sent + 1 \in 1 .. Len(pipe)
      /\ wire \in Seq(Nat) /\ x \in Nat /\ wl = "sending"
  BY DEF SendFrame
<1>2. /\ wire' = Append(wire, x)
      /\ UNCHANGED <<withheld, nextSequence, reported>>
  BY DEF SendFrame, publisherVars, closeVars
<1>3. /\ Handed' = Handed
      /\ Queued = ({x} \ {SessionStart}) \cup Queued'
  BY SendAccounts
<1>4. wire' # <<>> /\ wire'[1] = IF wire = <<>> THEN x ELSE wire[1]
  BY <1>1, <1>2, EmptySeq
<1>5. CASE x = SessionStart
  <2>1. wire = <<>>
    <3>1. ASSUME wire # <<>>
          PROVE  FALSE
      <4>1. 1 \in 1 .. Len(wire) /\ wire[1] \in Nat
        BY <1>1, <3>1, EmptySeq
      <4>2. wire[1] < x
        BY <1>1, <4>1 DEF Precedes
      <4> QED  BY <1>5, <4>1, <4>2 DEF SessionStart
    <3> QED  BY <3>1
  <2>2. TickTape = <<>> /\ TickTape' = <<>>
    <3>1. Tail(Append(wire, x)) = <<>>
      BY <1>1, <2>1, HeadTailAppend
    <3> QED  BY <1>2, <1>4, <1>5, <2>1, <3>1 DEF TickTape
  <2> QED  BY <1>2, <2>2 DEF Tape!vars
<1>6. CASE x # SessionStart
  <2>1. TickTape' = Append(TickTape, x)
    <3>1. CASE wire # <<>> /\ wire[1] = SessionStart
      BY <1>1, <1>2, <1>4, <3>1, HeadTailAppend DEF TickTape
    <3>2. CASE ~(wire # <<>> /\ wire[1] = SessionStart)
      BY <1>2, <1>4, <1>6, <3>2 DEF TickTape
    <3> QED  BY <3>1, <3>2
  <2>2. Tape!Waiting = Queued \cup Handed
    BY TapeIs
  <2>3. x \in Queued
    BY <1>3, <1>6
  <2>4. ASSUME NEW q \in (Queued \cup Handed) \ {x}
        PROVE  x < q
    <3>1. CASE q \in Queued
      <4>1. PICK i \in sent + 1 .. Len(pipe) : pipe[i] = q
        BY <1>1, <3>1, TickPlaces DEF Queued
      <4>2. i # sent + 1
        BY <2>4, <4>1
      <4>3. sent + 1 \in 1 .. Len(pipe) /\ i \in 1 .. Len(pipe) /\ sent + 1 < i
        BY <1>1, <4>2
      <4> QED  BY <4>1, <4>3 DEF Increasing
    <3>2. CASE q \in Handed
      <4>1. x < Fresh
        BY <1>1 DEF Below
      <4>2. q \in Nat /\ Fresh \in Nat /\ Fresh <= q
        BY <3>2 DEF Handed, Fresh
      <4> QED  BY <1>1, <4>1, <4>2
    <3> QED  BY <2>4, <3>1, <3>2
  <2> HIDE DEF x
  <2>5. Tape!BeforeAllOf({x}, Tape!Waiting \ {x})
    BY <2>2, <2>4 DEF Tape!BeforeAllOf
  <2>6. reported = "none"
    BY <1>1 DEF BatchInv
  <2>7. x \in Tape!Waiting
    BY <2>2, <2>3
  <2> QED  BY <1>2, <2>1, <2>5, <2>6, <2>7 DEF Tape!Deliver
<1> QED  BY <1>5, <1>6

(* Every step of the session is a step of the tape, or none.               *)
LEMMA TapeStep ==
  ASSUME TapeInv, [Next]_vars
  PROVE  [Tape!Next]_(Tape!vars)
<1> USE DEF TapeInv
<1>1. CASE SkipBatch \/ (RefuseBatch /\ state = "backpressured")
  <2>1. /\ Skip /\ batch \in BatchSizes /\ UNCHANGED <<wire, reported>>
    BY <1>1, WithholdAccounts
  <2>2. nextSequence \in Nat /\ batch \in Nat
    BY DEF IInv, TypeOK, NumbersOK
  <2>3. (nextSequence - 1)' = nextSequence - 1 + batch
    BY <2>1, <2>2 DEF Skip
  <2>4. withheld' = withheld \cup (nextSequence - 1) + 1 .. (nextSequence - 1) + batch
    BY <2>1, <2>2 DEF Skip
  <2>5. TickTape' = TickTape
    BY <2>1 DEF TickTape
  <2>6. Tape!Withhold(batch)
    BY <2>1, <2>3, <2>4, <2>5 DEF Tape!Withhold
  <2> QED  BY <2>1, <2>6 DEF Tape!Next
<1>2. CASE EncodeBatch
  <2>1. /\ batch \in BatchSizes /\ reported = "none" /\ UNCHANGED <<wire, withheld, reported>>
    <3>1. pub = "locking" /\ state = "running"
      BY <1>2 DEF EncodeBatch, Accepting
    <3>2. wl # "done"
      BY <3>1 DEF IInv, CloseInv
    <3> QED  BY <1>2, <3>1, <3>2 DEF EncodeBatch, BatchInv, tapeVars, closeVars
  <2>2. nextSequence \in Nat /\ batch \in Nat
    BY DEF IInv, TypeOK, NumbersOK
  <2>3. (nextSequence - 1)' = nextSequence - 1 + batch
    BY <1>2, <2>2 DEF EncodeBatch
  <2>4. Tape!Offer(batch)
    BY <2>1, <2>3 DEF Tape!Offer, TickTape
  <2> QED  BY <2>1, <2>4 DEF Tape!Next
<1>3. CASE DiscardBuffer
  <2>1. PICK S \in SUBSET Nat : /\ withheld' = withheld \cup S
                                /\ Queued = S \cup Queued'
                                /\ \A p \in S, q \in Queued' \cup Handed : p < q
    BY <1>3, DiscardAccounts
  <2>2. Tape!Waiting = Queued \cup Handed
    BY TapeIs
  <2>3. S \in SUBSET Tape!Waiting /\ Tape!Waiting \ S \subseteq Queued' \cup Handed
    BY <2>1, <2>2
  <2>4. Tape!BeforeAllOf(S, Tape!Waiting \ S)
    BY <2>1, <2>3 DEF Tape!BeforeAllOf
  <2>5. reported = "none" /\ UNCHANGED <<wire, nextSequence, reported>>
    BY <1>3 DEF DiscardBuffer, BatchInv, publisherVars, closeVars
  <2>6. Tape!Discard
    BY <2>1, <2>3, <2>4, <2>5 DEF Tape!Discard, TickTape
  <2> QED  BY <2>6 DEF Tape!Next
<1>4. CASE SendFrame
  BY <1>4, SendDelivers DEF Tape!Next
<1>5. CASE FlushBatch \/ Start
  BY <1>5 DEF FlushBatch, Start, TickTape, Tape!vars, publisherVars, closeVars, tapeVars
<1>6. CASE Finish
  <2>1. reported = "none" /\ reported' # "none" /\ UNCHANGED <<wire, withheld, nextSequence>>
    BY <1>6 DEF Finish, BatchInv, IInv, TypeOK, PlacesOK, Reasons, publisherVars, tapeVars
  <2>2. Tape!End
    BY <2>1 DEF Tape!End, TickTape
  <2> QED  BY <2>2 DEF Tape!Next
<1>7. CASE ~(\/ SkipBatch \/ (RefuseBatch /\ state = "backpressured") \/ EncodeBatch
             \/ FlushBatch \/ DiscardBuffer \/ SendFrame \/ Start \/ Finish)
  <2>1. UNCHANGED <<wire, withheld, nextSequence, reported>>
    BY <1>7, OtherSteps DEF Books
  <2> QED  BY <2>1 DEF TickTape, Tape!vars
<1> QED  BY <1>1, <1>2, <1>3, <1>4, <1>5, <1>6, <1>7

(* A session implements FeedTape: whatever its threads do, its consumer sees the records in
   order, less what had been reported lost by the time it is missed. *)
THEOREM SessionImplementsTape == Spec => ImplementsTape
<1>1. Init => Tape!Init
  BY DEF Init, Tape!Init, TickTape
<1>2. TapeInv /\ [Next]_vars => [Tape!Next]_(Tape!vars)
  BY TapeStep
<1> QED  BY <1>1, <1>2, TapeInvariance, PTL DEF Spec, ImplementsTape, Tape!Spec
=============================================================================
