-------------------------- MODULE FrameResyncProofs --------------------------
(* Proofs about FrameResync: the types, that the receive buffer stays below *)
(* the longest frame whenever a read has to wait, and that the reads return *)
(* the frames of the stream however it is cut into chunks.                  *)
EXTENDS FrameResync, SequenceLemmas

\* A suffix that begins inside the sequence, or just behind it: its type and
\* its length.
LEMMA FromType ==
  ASSUME NEW S, NEW s \in Seq(S), NEW i \in 1..(Len(s) + 1)
  PROVE  /\ From(s, i) \in Seq(S)
         /\ Len(From(s, i)) = Len(s) + 1 - i
  BY DEF From

\* The first of a set of positions is one of them, and none comes before it.
LEMMA FirstInSet ==
  ASSUME NEW P \in SUBSET Nat, P # {}
  PROVE  /\ First(P) \in P
         /\ \A j \in P : First(P) <= j
BY LeastNatural DEF First

\* Dropping what stands before the first magic leaves a stream of bytes, no
\* longer than the buffer and long enough for the magic.
LEMMA CandidateType ==
  ASSUME TypeOK, HasMagic
  PROVE  /\ Candidate \in Seq(Bytes)
         /\ Len(Candidate) \in 1..Len(buffer)
<1> DEFINE p == First(MagicPositions(buffer))
<1>1. MagicPositions(buffer) \in SUBSET (1..Len(buffer))
  BY DEF MagicPositions
<1>2. p \in 1..Len(buffer)
  <2>1. Len(buffer) \in Nat BY DEF TypeOK
  <2>2. MagicPositions(buffer) \in SUBSET Nat BY <1>1, <2>1
  <2>3. QED BY <1>1, <2>2, FirstInSet DEF HasMagic
<1>3. buffer \in Seq(Bytes) /\ Len(buffer) \in Nat
  BY DEF TypeOK
<1>4. p \in 1..(Len(buffer) + 1)
  BY <1>2, <1>3
<1>5. From(buffer, p) \in Seq(Bytes) /\ Len(From(buffer, p)) = Len(buffer) + 1 - p
  BY <1>3, <1>4, FromType
<1>6. Len(From(buffer, p)) \in 1..Len(buffer)
  BY <1>2, <1>3, <1>5
<1> QED BY <1>5, <1>6 DEF Candidate

\* With the header complete, its size field holds a size.
LEMMA PayloadSizeType ==
  ASSUME TypeOK, HasHeader
  PROVE  PayloadSize \in Nat
<1>1. Candidate \in Seq(Bytes) /\ Len(Candidate) >= HeaderLen
  BY CandidateType DEF HasHeader
<1>2. SizeAt \in 1..Len(Candidate)
  BY <1>1, FramingAssumption
<1>3. Candidate[SizeAt] \in Bytes
  BY <1>1, <1>2
<1> QED BY <1>3, FramingAssumption DEF PayloadSize

------------------------------------------------------------------------------
(* The types.                                                               *)

\* The variables have their types at the start,
LEMMA InitType == Init => TypeOK
  BY FramingAssumption DEF Init, TypeOK

\* A loop that ends without a frame, with a stream no longer than its buffer.
LEMMA WaitType ==
  ASSUME TypeOK, NEW rest \in Seq(Bytes), Len(rest) <= Len(buffer), Wait(rest)
  PROVE  TypeOK'
  BY DEF TypeOK, Wait

\* after every way out of the loop,
LEMMA PassType == TypeOK /\ Pass => TypeOK'
<1> SUFFICES ASSUME TypeOK, Pass PROVE TypeOK'
  OBVIOUS
<1>0. buffer \in Seq(Bytes) /\ Len(buffer) \in Nat
  BY DEF TypeOK
<1>1. CASE TooShort
  BY <1>0, <1>1, WaitType DEF TooShort
<1>2. CASE NoMagic
  <2> DEFINE i == Len(buffer) - Len(Magic) + 2
  <2>1. Len(Magic) \in Nat /\ Len(Magic) >= 1 /\ Len(buffer) >= Len(Magic)
    BY <1>2, FramingAssumption DEF NoMagic, NoMagicHere
  <2>2. i \in 1..(Len(buffer) + 1) /\ i >= 1
    BY <1>0, <2>1
  <2>3. From(buffer, i) \in Seq(Bytes) /\ Len(From(buffer, i)) <= Len(buffer)
    BY <1>0, <2>2, FromType
  <2>4. Wait(From(buffer, i))
    BY <1>2 DEF NoMagic
  <2> QED BY <2>3, <2>4, WaitType
<1>3. CASE ShortHeader \/ ShortPayload
  <2>1. HasMagic /\ Wait(Candidate)
    BY <1>3 DEF ShortHeader, ShortPayload, HasHeader
  <2> QED BY <1>0, <2>1, CandidateType, WaitType
<1>4. CASE Oversized
  <2>1. Candidate \in Seq(Bytes) /\ Len(Candidate) \in 1..Len(buffer)
    BY <1>4, CandidateType DEF Oversized, HasHeader
  <2>2. Skipped \in Seq(Bytes) /\ Len(Skipped) = Len(Candidate) - 1
    BY <2>1 DEF Skipped
  <2>3. buffer' = Skipped /\ UNCHANGED <<received, delivered, loop>>
    BY <1>4 DEF Oversized
  <2> QED BY <1>0, <2>1, <2>2, <2>3 DEF TypeOK
<1>5. CASE Deliver
  <2>1. Candidate \in Seq(Bytes) /\ Len(Candidate) \in 1..Len(buffer)
    BY <1>5, CandidateType DEF Deliver, HasHeader
  <2>2. TotalSize \in Nat /\ TotalSize <= Len(Candidate)
    BY <1>5, PayloadSizeType, FramingAssumption DEF Deliver, TotalSize
  <2>3. SubSeq(Candidate, 1, TotalSize) \in Seq(Bytes)
    BY <2>1, <2>2
  <2>4. TotalSize + 1 \in 1..(Len(Candidate) + 1)
    BY <2>1, <2>2
  <2>5. /\ From(Candidate, TotalSize + 1) \in Seq(Bytes)
        /\ Len(From(Candidate, TotalSize + 1)) <= Len(buffer)
    BY <1>0, <2>1, <2>2, <2>4, FromType
  <2>6. delivered' \in Seq(Seq(Bytes))
    BY <1>5, <2>3 DEF Deliver, TypeOK
  <2> QED BY <1>0, <1>5, <2>5, <2>6 DEF Deliver, TypeOK
<1> QED BY <1>1, <1>2, <1>3, <1>4, <1>5 DEF Pass

\* and after every step.
LEMMA NextType == TypeOK /\ [Next]_vars => TypeOK'
<1> SUFFICES ASSUME TypeOK, [Next]_vars PROVE TypeOK'
  OBVIOUS
<1>1. CASE Pass
  BY <1>1, PassType
<1>2. CASE Read
  BY <1>2 DEF Read, TypeOK
<1>3. CASE Receive
  <2>0. PICK n \in 1..MaxChunk :
          \E chunk \in [1..n -> Bytes] :
            /\ Len(received) + n <= MaxBytes
            /\ received' = received \o chunk
            /\ buffer' = buffer \o chunk
    BY <1>3 DEF Receive
  <2>1. PICK chunk \in [1..n -> Bytes] :
          /\ Len(received) + n <= MaxBytes
          /\ received' = received \o chunk
          /\ buffer' = buffer \o chunk
    BY <2>0
  <2>2. n \in Nat /\ chunk \in Seq(Bytes) /\ Len(chunk) = n
    BY <2>1, FramingAssumption
  <2>3. received \in Seq(Bytes) /\ buffer \in Seq(Bytes) /\ Len(buffer) <= Len(received)
    BY DEF TypeOK
  <2>4. /\ received' \in Seq(Bytes) /\ Len(received') = Len(received) + n
        /\ buffer' \in Seq(Bytes) /\ Len(buffer') = Len(buffer) + n
    BY <2>1, <2>2, <2>3, ConcatProperties
  <2>5. Len(received') <= MaxBytes /\ Len(buffer') <= Len(received')
    BY <2>1, <2>2, <2>3, <2>4
  <2>6. loop' = "runs" /\ delivered' = delivered
    BY <1>3 DEF Receive
  <2> QED BY <2>4, <2>5, <2>6 DEF TypeOK
<1>4. CASE Clear
  BY <1>4, FramingAssumption DEF Clear, TypeOK
<1>5. CASE UNCHANGED vars
  BY <1>5 DEF vars, TypeOK
<1> QED BY <1>1, <1>2, <1>3, <1>4, <1>5 DEF Next

\* The type invariant: every byte the code keeps or returns was received, and
\* the buffer is never longer than the stream.
THEOREM TypeCorrect == Spec => []TypeOK
<1>1. QED BY InitType, NextType, PTL DEF Spec

------------------------------------------------------------------------------
(* The bound on the buffer.                                                 *)

\* Nothing is in the buffer at the start.
LEMMA InitBounded == Init => BufferBounded
  BY FramingAssumption DEF Init, BufferBounded

\* Each way to leave the loop without a frame leaves less than a frame: less
\* than a magic, less than a header, or less than a header and its payload.
LEMMA NextBounded == TypeOK /\ BufferBounded /\ [Next]_vars => BufferBounded'
<1> SUFFICES ASSUME TypeOK, BufferBounded, [Next]_vars PROVE BufferBounded'
  OBVIOUS
<1>0. /\ buffer \in Seq(Bytes) /\ Len(buffer) \in Nat
      /\ HeaderLen \in Nat /\ MaxPayload \in Nat
      /\ Len(Magic) \in Nat /\ 1 <= Len(Magic) /\ Len(Magic) <= HeaderLen
  BY FramingAssumption DEF TypeOK
<1>1. CASE TooShort
  BY <1>0, <1>1 DEF TooShort, Wait, BufferBounded
<1>2. CASE NoMagic
  <2> DEFINE i == Len(buffer) - Len(Magic) + 2
  <2>1. Len(buffer) >= Len(Magic)
    BY <1>2 DEF NoMagic, NoMagicHere
  <2>2. i \in 1..(Len(buffer) + 1)
    BY <1>0, <2>1
  <2>3. Len(From(buffer, i)) = Len(buffer) + 1 - i
    BY <1>0, <2>2, FromType
  <2>4. Len(From(buffer, i)) = Len(Magic) - 1
    BY <1>0, <2>3
  <2>5. buffer' = From(buffer, i)
    BY <1>2 DEF NoMagic, Wait
  <2> QED BY <1>0, <2>4, <2>5 DEF BufferBounded
<1>3. CASE ShortHeader
  <2>1. Len(Candidate) < HeaderLen /\ Len(Candidate) \in Nat /\ buffer' = Candidate
    BY <1>0, <1>3, CandidateType DEF ShortHeader, Wait
  <2> QED BY <1>0, <2>1 DEF BufferBounded
<1>4. CASE ShortPayload
  <2>1. PayloadSize \in Nat /\ PayloadSize <= MaxPayload
    BY <1>4, PayloadSizeType DEF ShortPayload
  <2>2. Len(Candidate) \in Nat /\ Len(Candidate) < PayloadSize + HeaderLen
    BY <1>0, <1>4, CandidateType DEF ShortPayload, HasHeader, TotalSize
  <2>3. buffer' = Candidate
    BY <1>4 DEF ShortPayload, Wait
  <2> QED BY <1>0, <2>1, <2>2, <2>3 DEF BufferBounded
<1>5. CASE Oversized
  <2>1. loop' = "runs"
    BY <1>5 DEF Oversized, HasHeader, HasMagic, Running
  <2> QED BY <2>1 DEF BufferBounded
<1>6. CASE Deliver
  BY <1>6 DEF Deliver, BufferBounded
<1>7. CASE Read
  BY <1>7 DEF Read, BufferBounded
<1>8. CASE Receive
  BY <1>8 DEF Receive, BufferBounded
<1>9. CASE Clear
  BY <1>0, <1>9 DEF Clear, BufferBounded
<1>10. CASE UNCHANGED vars
  BY <1>10 DEF vars, BufferBounded
<1> QED
  BY <1>1, <1>2, <1>3, <1>4, <1>5, <1>6, <1>7, <1>8, <1>9, <1>10 DEF Next, Pass

\* A read that has to wait for bytes holds less than the longest frame,
\* whatever noise the device sends and however long its stream is.
THEOREM Bounded == Spec => []BufferBounded
<1>1. QED BY TypeCorrect, InitBounded, NextBounded, PTL DEF Spec

------------------------------------------------------------------------------
(* The reference.                                                            *)

\* Where the next frame of a complete stream starts and ends.
LEMMA NextBounds ==
  ASSUME NEW s \in Seq(Bytes), NEW i \in 1..(Len(s) + 1), Starts(s, i) # {}
  PROVE  /\ NextStart(s, i) \in i..Len(s) /\ NextStart(s, i) \in Starts(s, i)
         /\ \A j \in Starts(s, i) : NextStart(s, i) <= j
         /\ HeaderThere(s, NextStart(s, i)) =>
              /\ SizeAtHeader(s, NextStart(s, i)) \in Nat
              /\ NextEnd(s, i) \in Nat /\ NextEnd(s, i) > i
<1>0. Len(s) \in Nat
  OBVIOUS
<1>1. Starts(s, i) \subseteq i..Len(s) /\ Starts(s, i) \in SUBSET Nat
  BY <1>0 DEF Starts
<1>2. /\ NextStart(s, i) \in Starts(s, i)
      /\ \A j \in Starts(s, i) : NextStart(s, i) <= j
  BY <1>1, FirstInSet DEF NextStart
<1>3. ASSUME HeaderThere(s, NextStart(s, i))
      PROVE  /\ SizeAtHeader(s, NextStart(s, i)) \in Nat
             /\ NextEnd(s, i) \in Nat /\ NextEnd(s, i) > i
  <2>1. NextStart(s, i) \in i..Len(s)
    BY <1>1, <1>2
  <2>2. NextStart(s, i) + SizeAt - 1 \in 1..Len(s)
    BY <1>0, <1>3, <2>1, FramingAssumption DEF HeaderThere
  <2>3. s[NextStart(s, i) + SizeAt - 1] \in Bytes
    BY <2>2, ElementOfSeq
  <2>4. SizeAtHeader(s, NextStart(s, i)) \in Nat
    BY <2>3, FramingAssumption DEF SizeAtHeader
  <2> QED BY <2>1, <2>4, FramingAssumption DEF NextEnd
<1> QED BY <1>1, <1>2, <1>3

\* The frame there, and where the search goes on.
NextFrame(s, i) == SubSeq(s, NextStart(s, i), NextEnd(s, i) - 1)

\* A frame that is complete ends inside the bytes, or just behind them.
LEMMA CompleteBounds ==
  ASSUME NEW s \in Seq(Bytes), NEW i \in 1..(Len(s) + 1), Complete(s, i)
  PROVE  /\ NextEnd(s, i) \in (i + 1)..(Len(s) + 1)
         /\ NextStart(s, i) \in i..Len(s)
         /\ NextFrame(s, i) \in Seq(Bytes)
<1>1. /\ NextEnd(s, i) \in (i + 1)..(Len(s) + 1)
      /\ NextStart(s, i) \in i..Len(s)
  BY NextBounds DEF Complete
<1> DEFINE p == NextStart(s, i)
           q == NextEnd(s, i) - 1
<1>2. p \in Int /\ q \in Int /\ \A j \in p..q : s[j] \in Bytes
  <2>1. p \in Int /\ q \in Int /\ p >= 1 /\ q <= Len(s) /\ Len(s) \in Nat
    BY <1>1
  <2>2. \A j \in p..q : j \in 1..Len(s)
    BY <2>1
  <2> QED BY <2>1, <2>2, ElementOfSeq
<1> HIDE DEF p, q
<1>3. SubSeq(s, p, q) \in Seq(Bytes)
  BY <1>2, SubSeqProperties
<1> QED BY <1>1, <1>3 DEF p, q, NextFrame

\* The function of the reference exists: it is built up from the end of the
\* stream, as a frame is followed by what stands behind it.  Its values are
\* sequences of frames.
LEMMA FramesDefined ==
  ASSUME NEW s \in Seq(Bytes)
  PROVE  \A i \in 1..(Len(s) + 1) :
           /\ FramesFrom(s)[i] = IF Complete(s, i)
                                 THEN <<NextFrame(s, i)>> \o FramesFrom(s)[NextEnd(s, i)]
                                 ELSE <<>>
           /\ FramesFrom(s)[i] \in Seq(Seq(Bytes))
<1> DEFINE end == Len(s) + 1
           Value(f, i) == IF Complete(s, i) THEN <<NextFrame(s, i)>> \o f[NextEnd(s, i)]
                          ELSE <<>>
           D(n) == (end - n)..end
           P == {n \in Nat : n < end => \E f : f = [i \in D(n) |-> Value(f, i)]}
<1>0. end \in Nat \ {0}
  OBVIOUS
<1>1. ASSUME NEW i \in 1..end, Complete(s, i)
      PROVE  /\ NextEnd(s, i) \in (i + 1)..end /\ NextFrame(s, i) \in Seq(Bytes)
  BY <1>1, CompleteBounds
<1>2. \A i \in 1..end : \A f, g :
        (Complete(s, i) => f[NextEnd(s, i)] = g[NextEnd(s, i)]) => Value(f, i) = Value(g, i)
  OBVIOUS
<1>3. ASSUME NEW i \in 1..end, NEW f, Complete(s, i) => f[NextEnd(s, i)] \in Seq(Seq(Bytes))
      PROVE  Value(f, i) \in Seq(Seq(Bytes))
  <2>1. CASE Complete(s, i)
    <3>1. <<NextFrame(s, i)>> \in Seq(Seq(Bytes)) /\ f[NextEnd(s, i)] \in Seq(Seq(Bytes))
      BY <1>1, <1>3, <2>1
    <3> QED BY <2>1, <3>1, ConcatProperties
  <2>2. CASE ~Complete(s, i)
    BY <2>2, EmptySeq
  <2> QED BY <2>1, <2>2
<1> HIDE DEF Value, end
<1>4. 0 \in P
  <2> DEFINE f == [i \in D(0) |-> Value(<<>>, i)]
  <2>1. \A i \in D(0) : i \in 1..end /\ ~Complete(s, i)
    BY <1>0, <1>1
  <2>2. \A i \in D(0) : Value(<<>>, i) = Value(f, i)
    <3> HIDE DEF f, D
    <3> QED BY <1>2, <2>1
  <2>3. f = [i \in D(0) |-> Value(f, i)]
    BY <2>2
  <2> HIDE DEF f, D
  <2> QED BY <2>3
<1>5. ASSUME NEW n \in Nat, n \in P PROVE n + 1 \in P
  <2> SUFFICES ASSUME n + 1 < end
               PROVE  \E f : f = [i \in D(n + 1) |-> Value(f, i)]
    OBVIOUS
  <2>0. n < end
    BY <1>0
  <2>1. PICK f : f = [i \in D(n) |-> Value(f, i)]
    <3> HIDE DEF D
    <3> QED BY <1>5, <2>0
  <2> DEFINE m == end - (n + 1)
             g == [i \in D(n + 1) |-> IF i = m THEN Value(f, i) ELSE f[i]]
  <2>2. /\ D(n + 1) = {m} \cup D(n) /\ m \notin D(n) /\ m \in 1..end
        /\ D(n) \subseteq 1..end
    BY <1>0
  <2>3. \A i \in D(n + 1) : Complete(s, i) => NextEnd(s, i) \in D(n)
    BY <1>0, <1>1
  <2> HIDE DEF D, m
  <2>4. ASSUME NEW i \in D(n + 1) PROVE g[i] = Value(g, i)
    <3>1. Complete(s, i) => g[NextEnd(s, i)] = f[NextEnd(s, i)]
      BY <2>2, <2>3
    <3>2. i \in 1..end
      BY <2>2
    <3>3. g[i] = IF i = m THEN Value(f, i) ELSE f[i]
      OBVIOUS
    <3> HIDE DEF g
    <3>4. Value(f, i) = Value(g, i)
      BY <1>2, <3>1, <3>2
    <3>5. i # m => f[i] = Value(f, i)
      <4>1. i # m => i \in D(n)
        BY <2>2
      <4> QED BY <2>1, <4>1, Zenon
    <3> QED BY <3>3, <3>4, <3>5
  <2>5. g = [i \in D(n + 1) |-> g[i]]
    OBVIOUS
  <2> HIDE DEF g
  <2>6. g = [i \in D(n + 1) |-> Value(g, i)]
    BY <2>4, <2>5
  <2> QED BY <2>6
<1>6. end - 1 \in P
  <2>1. end - 1 \in Nat
    BY <1>0
  <2> HIDE DEF P
  <2> QED BY <1>4, <1>5, <2>1, Induction
<1>7. D(end - 1) = 1..end
  BY <1>0
<1>8. PICK f : f = [i \in 1..end |-> Value(f, i)]
  <2>1. end - 1 < end
    BY <1>0
  <2> HIDE DEF D
  <2>2. \E f : f = [i \in D(end - 1) |-> Value(f, i)]
    BY <1>6, <2>1
  <2> QED BY <1>7, <2>2
<1>9. FramesFrom(s) = CHOOSE g : g = [i \in 1..end |-> Value(g, i)]
  BY DEF FramesFrom, Value, end, NextFrame
<1>10. FramesFrom(s) = [i \in 1..end |-> Value(FramesFrom(s), i)]
  <2> HIDE DEF D, P
  <2> QED BY <1>8, <1>9
<1>11. \A i \in 1..end : FramesFrom(s)[i] = Value(FramesFrom(s), i)
  BY <1>10, Zenon
<1> DEFINE Q == {n \in Nat : n < end => \A i \in D(n) : FramesFrom(s)[i] \in Seq(Seq(Bytes))}
<1>12. 0 \in Q
  <2>1. D(0) = {end} /\ ~Complete(s, end) /\ end \in 1..end
    BY <1>0, <1>1
  <2>2. FramesFrom(s)[end] \in Seq(Seq(Bytes))
    BY <1>3, <1>11, <2>1
  <2> QED BY <2>1, <2>2
<1>13. ASSUME NEW n \in Nat, n \in Q PROVE n + 1 \in Q
  <2> SUFFICES ASSUME n + 1 < end, NEW i \in D(n + 1)
               PROVE  FramesFrom(s)[i] \in Seq(Seq(Bytes))
    OBVIOUS
  <2>1. i \in 1..end /\ n < end
    BY <1>0
  <2>2. Complete(s, i) => NextEnd(s, i) \in D(n)
    BY <1>0, <1>1, <2>1
  <2>3. Complete(s, i) => FramesFrom(s)[NextEnd(s, i)] \in Seq(Seq(Bytes))
    BY <1>13, <2>1, <2>2
  <2> QED BY <1>3, <1>11, <2>1, <2>3
<1>14. end - 1 \in Q
  <2>1. end - 1 \in Nat
    BY <1>0
  <2> HIDE DEF Q
  <2> QED BY <1>12, <1>13, <2>1, Induction
<1>15. \A i \in 1..end : FramesFrom(s)[i] \in Seq(Seq(Bytes))
  BY <1>0, <1>7, <1>14
<1> QED BY <1>11, <1>15 DEF Value, end

\* From positions with the same starts behind them, the same frames follow.
LEMMA SameStarts ==
  ASSUME NEW s \in Seq(Bytes), NEW i \in 1..(Len(s) + 1), NEW j \in 1..(Len(s) + 1),
         Starts(s, i) = Starts(s, j)
  PROVE  /\ Complete(s, i) <=> Complete(s, j)
         /\ FramesFrom(s)[i] = FramesFrom(s)[j]
<1>1. /\ NextStart(s, i) = NextStart(s, j) /\ NextEnd(s, i) = NextEnd(s, j)
      /\ NextFrame(s, i) = NextFrame(s, j)
  BY DEF NextStart, NextEnd, NextFrame
<1>2. Complete(s, i) <=> Complete(s, j)
  BY <1>1 DEF Complete
<1> QED BY <1>1, <1>2, FramesDefined

------------------------------------------------------------------------------
(* A part of a stream.                                                       *)

\* r stands in s behind its first b bytes.
Sits(r, s, b) ==
  /\ b \in Nat /\ b + Len(r) <= Len(s)
  /\ \A i \in 1..Len(r) : s[b + i] = r[i]

\* What comes before what the device sends next.
Extends(s, r) == s \in Seq(Bytes) /\ Sits(r, s, 0)

\* A part of a part.
LEMMA SitsInside ==
  ASSUME NEW q \in Seq(Bytes), NEW r \in Seq(Bytes), NEW s \in Seq(Bytes),
         NEW a, NEW b, Sits(q, r, a), Sits(r, s, b)
  PROVE  Sits(q, s, a + b)
<1>1. Len(q) \in Nat /\ Len(r) \in Nat /\ Len(s) \in Nat
  OBVIOUS
<1>2. ASSUME NEW i \in 1..Len(q) PROVE s[a + b + i] = q[i]
  <2>1. a + i \in 1..Len(r) /\ b + (a + i) = a + b + i
    BY <1>1 DEF Sits
  <2> QED BY <2>1 DEF Sits
<1> QED BY <1>1, <1>2 DEF Sits

\* What is dropped at the front moves the rest on.
LEMMA FromSits ==
  ASSUME NEW r \in Seq(Bytes), NEW i \in 1..(Len(r) + 1)
  PROVE  Sits(From(r, i), r, i - 1)
<1>1. /\ Len(From(r, i)) = Len(r) + 1 - i
      /\ \A k \in 1..(Len(r) + 1 - i) : From(r, i)[k] = r[i + k - 1]
  BY DEF From
<1> QED BY <1>1 DEF Sits

\* A magic, byte by byte.
LEMMA MagicBytes ==
  ASSUME NEW s \in Seq(Bytes), NEW i \in Nat \ {0}
  PROVE  MagicAt(s, i) <=> /\ i + Len(Magic) - 1 <= Len(s)
                           /\ \A k \in 1..Len(Magic) : s[i + k - 1] = Magic[k]
<1> DEFINE e == i + Len(Magic) - 1
<1>0. Len(Magic) \in Nat /\ Magic \in Seq(Bytes) /\ Len(s) \in Nat
  BY FramingAssumption
<1>1. ASSUME e <= Len(s)
      PROVE  /\ SubSeq(s, i, e) \in Seq(Bytes) /\ Len(SubSeq(s, i, e)) = Len(Magic)
             /\ \A k \in 1..Len(Magic) : SubSeq(s, i, e)[k] = s[i + k - 1]
  <2>1. i \in Int /\ e \in Int /\ e - i + 1 = Len(Magic) /\ \A k \in i..e : k \in 1..Len(s)
    BY <1>0, <1>1
  <2>2. \A k \in i..e : s[k] \in Bytes
    BY <2>1, ElementOfSeq
  <2> HIDE DEF e
  <2>3. /\ SubSeq(s, i, e) \in Seq(Bytes)
        /\ Len(SubSeq(s, i, e)) = IF i <= e THEN e - i + 1 ELSE 0
        /\ \A k \in 1..(e - i + 1) : SubSeq(s, i, e)[k] = s[i + k - 1]
    BY <2>1, <2>2, SubSeqProperties
  <2>4. i <= e \/ Len(Magic) = 0
    BY <1>0, <2>1
  <2> QED BY <1>0, <2>1, <2>3, <2>4
<1>2. ASSUME e <= Len(s), \A k \in 1..Len(Magic) : s[i + k - 1] = Magic[k]
      PROVE  SubSeq(s, i, e) = Magic
  BY <1>0, <1>1, <1>2, SeqEqual
<1>3. ASSUME e <= Len(s), SubSeq(s, i, e) = Magic
      PROVE  \A k \in 1..Len(Magic) : s[i + k - 1] = Magic[k]
  BY <1>1, <1>3
<1> QED BY <1>2, <1>3 DEF MagicAt

\* A part of a stream shows the same magics and headers as the stream.
LEMMA SameInside ==
  ASSUME NEW r \in Seq(Bytes), NEW s \in Seq(Bytes), NEW b, Sits(r, s, b),
         NEW i \in 1..Len(r)
  PROVE  /\ b + i \in 1..Len(s)
         /\ i + Len(Magic) - 1 <= Len(r) => (MagicAt(s, b + i) <=> MagicAt(r, i))
         /\ HeaderThere(r, i) => /\ HeaderThere(s, b + i)
                                 /\ SizeAtHeader(s, b + i) = SizeAtHeader(r, i)
<1>0. Len(r) \in Nat /\ Len(s) \in Nat /\ Len(Magic) \in Nat /\ b \in Nat
  BY FramingAssumption DEF Sits
<1>1. b + i \in 1..Len(s) /\ b + i \in Nat \ {0} /\ i \in Nat \ {0}
  BY <1>0 DEF Sits
<1>2. ASSUME i + Len(Magic) - 1 <= Len(r)
      PROVE  MagicAt(s, b + i) <=> MagicAt(r, i)
  <2>1. \A k \in 1..Len(Magic) : s[b + i + k - 1] = r[i + k - 1]
    <3> SUFFICES ASSUME NEW k \in 1..Len(Magic) PROVE s[b + i + k - 1] = r[i + k - 1]
      OBVIOUS
    <3>1. i + k - 1 \in 1..Len(r) /\ b + (i + k - 1) = b + i + k - 1
      BY <1>0, <1>2
    <3> QED BY <3>1 DEF Sits
  <2>2. b + i + Len(Magic) - 1 <= Len(s)
    BY <1>0, <1>2 DEF Sits
  <2> QED BY <1>1, <1>2, <2>1, <2>2, MagicBytes
<1>3. ASSUME HeaderThere(r, i)
      PROVE  HeaderThere(s, b + i) /\ SizeAtHeader(s, b + i) = SizeAtHeader(r, i)
  <2>1. i + SizeAt - 1 \in 1..Len(r) /\ b + (i + SizeAt - 1) = b + i + SizeAt - 1
    BY <1>0, <1>3, FramingAssumption DEF HeaderThere
  <2>2. s[b + i + SizeAt - 1] = r[i + SizeAt - 1]
    BY <2>1 DEF Sits
  <2>3. HeaderThere(s, b + i)
    BY <1>0, <1>3, FramingAssumption DEF HeaderThere, Sits
  <2> QED BY <2>2, <2>3 DEF SizeAtHeader
<1> QED BY <1>1, <1>2, <1>3

------------------------------------------------------------------------------
(* Chunking.  The invariant speaks of every stream that begins with what was *)
(* received: which frames it has, given those delivered, is decided by what  *)
(* stands behind the Base bytes the loop is done with.                       *)

Base == Len(received) - Len(buffer)

BufferIsSuffix == Sits(buffer, received, Base)

DeliveredSoFar ==
  \A s : Extends(s, received) => FramesOf(s) = delivered \o FramesFrom(s)[Base + 1]

NoneLeft == loop = "none" => ~Complete(received, Base + 1)

ChunkInv == BufferIsSuffix /\ DeliveredSoFar /\ NoneLeft

\* Where the first magic of the buffer is.
Where == First(MagicPositions(buffer))

\* The buffer is a part of every stream that begins with what was received.
LEMMA BufferInStream ==
  ASSUME TypeOK, BufferIsSuffix, NEW s, Extends(s, received)
  PROVE  /\ Sits(buffer, s, Base) /\ s \in Seq(Bytes) /\ Base \in Nat
         /\ Len(received) \in Nat /\ Len(buffer) \in Nat /\ Len(s) \in Nat
         /\ Base + Len(buffer) = Len(received) /\ Len(received) <= Len(s)
<1>1. /\ s \in Seq(Bytes) /\ Sits(received, s, 0)
      /\ received \in Seq(Bytes) /\ buffer \in Seq(Bytes) /\ Len(buffer) <= Len(received)
  BY DEF TypeOK, Extends
<1>2. /\ Base \in Nat /\ Base + 0 = Base /\ Base + Len(buffer) = Len(received)
      /\ Len(received) \in Nat /\ Len(buffer) \in Nat /\ Len(s) \in Nat
  BY <1>1 DEF Base
<1>3. Sits(buffer, s, Base + 0)
  BY <1>1, SitsInside DEF BufferIsSuffix
<1>4. 0 + Len(received) <= Len(s)
  BY <1>1 DEF Sits
<1> QED BY <1>1, <1>2, <1>3, <1>4

\* The received bytes are such a stream.
LEMMA ReceivedExtends ==
  ASSUME TypeOK
  PROVE  Extends(received, received)
  BY DEF TypeOK, Extends, Sits

\* What has no start in it may be passed over.
LEMMA PassedOver ==
  ASSUME NEW s \in Seq(Bytes), NEW i \in 1..(Len(s) + 1), NEW j \in i..(Len(s) + 1),
         \A k \in i..(j - 1) : k \notin Starts(s, i)
  PROVE  /\ Starts(s, i) = Starts(s, j)
         /\ j \in 1..(Len(s) + 1)
         /\ FramesFrom(s)[i] = FramesFrom(s)[j]
<1>1. Len(s) \in Nat /\ j \in 1..(Len(s) + 1)
  OBVIOUS
<1>2. Starts(s, i) = Starts(s, j)
  BY <1>1 DEF Starts
<1> QED BY <1>1, <1>2, SameStarts

\* A pass that drops the front of the buffer, where no start is.
LEMMA FrontDropped ==
  ASSUME TypeOK, BufferIsSuffix, DeliveredSoFar, UNCHANGED <<received, delivered>>,
         NEW i \in 1..(Len(buffer) + 1), buffer' = From(buffer, i),
         \A s : Extends(s, received) => \A k \in 1..(i - 1) : Base + k \notin Starts(s, Base + 1)
  PROVE  BufferIsSuffix' /\ DeliveredSoFar' /\ Base' = Base + i - 1
<1>1. buffer \in Seq(Bytes) /\ received \in Seq(Bytes) /\ Len(buffer) \in Nat
  BY DEF TypeOK
<1>2. From(buffer, i) \in Seq(Bytes) /\ Len(From(buffer, i)) = Len(buffer) + 1 - i
  BY <1>1, FromType
<1>3. Base \in Nat /\ Base' = Base + i - 1 /\ Base' = (i - 1) + Base
  BY <1>1, <1>2, ReceivedExtends, BufferInStream DEF Base
<1>4. BufferIsSuffix'
  <2>1. Sits(From(buffer, i), buffer, i - 1)
    BY <1>1, FromSits
  <2>2. Sits(From(buffer, i), received, (i - 1) + Base)
    BY <1>1, <1>2, <2>1, SitsInside DEF BufferIsSuffix
  <2> QED BY <1>3, <2>2 DEF BufferIsSuffix
<1>5. ASSUME NEW s, Extends(s, received)
      PROVE  FramesOf(s) = delivered \o FramesFrom(s)[Base' + 1]
  <2>1. /\ s \in Seq(Bytes) /\ Len(s) \in Nat
        /\ Base + Len(buffer) <= Len(s)
    BY <1>5, BufferInStream
  <2> DEFINE a == Base + 1
             b == Base' + 1
  <2>2. a \in 1..(Len(s) + 1) /\ b \in a..(Len(s) + 1)
    BY <1>1, <1>3, <2>1
  <2>3. ASSUME NEW k \in a..(b - 1) PROVE k \notin Starts(s, a)
    <3>1. k - Base \in 1..(i - 1) /\ Base + (k - Base) = k
      BY <1>3
    <3> QED BY <1>5, <3>1
  <2>4. FramesFrom(s)[a] = FramesFrom(s)[b]
    <3> HIDE DEF a, b
    <3> QED BY <2>1, <2>2, <2>3, PassedOver
  <2> QED BY <1>5, <2>4 DEF DeliveredSoFar
<1>6. DeliveredSoFar'
  BY <1>5 DEF DeliveredSoFar
<1> QED BY <1>3, <1>4, <1>6

\* A position of the buffer with no magic, where one would fit, is no start.
LEMMA NoStartThere ==
  ASSUME TypeOK, BufferIsSuffix, NEW s, Extends(s, received),
         NEW k \in 1..Len(buffer), k + Len(Magic) - 1 <= Len(buffer),
         k \notin MagicPositions(buffer)
  PROVE  Base + k \notin Starts(s, Base + 1)
<1>1. Sits(buffer, s, Base) /\ s \in Seq(Bytes) /\ buffer \in Seq(Bytes)
  BY BufferInStream DEF TypeOK
<1>2. ~MagicAt(s, Base + k)
  BY <1>1, SameInside DEF MagicPositions
<1> QED BY <1>2 DEF Starts

\* The first magic of the buffer, and where it is in every stream that begins
\* with what was received: nothing before it is a start.
LEMMA CandidateInStream ==
  ASSUME TypeOK, BufferIsSuffix, HasMagic
  PROVE  /\ Where \in 1..Len(buffer) /\ Candidate = From(buffer, Where)
         /\ Candidate \in Seq(Bytes)
         /\ Len(Candidate) = Len(buffer) + 1 - Where /\ Len(buffer) \in Nat
         /\ \A s : Extends(s, received) =>
              /\ Base + Where \in 1..Len(s)
              /\ MagicAt(s, Base + Where)
              /\ \A k \in 1..(Where - 1) : Base + k \notin Starts(s, Base + 1)
              /\ HasHeader => /\ HeaderThere(s, Base + Where)
                              /\ SizeAtHeader(s, Base + Where) = PayloadSize
<1>0. buffer \in Seq(Bytes) /\ Len(buffer) \in Nat /\ Len(Magic) \in Nat
  BY FramingAssumption DEF TypeOK
<1>1. MagicPositions(buffer) \in SUBSET Nat /\ MagicPositions(buffer) # {}
  BY <1>0 DEF MagicPositions, HasMagic
<1>2. Where \in MagicPositions(buffer) /\ \A j \in MagicPositions(buffer) : Where <= j
  BY <1>1, FirstInSet DEF Where
<1>3. /\ Where \in 1..Len(buffer) /\ MagicAt(buffer, Where)
      /\ Where + Len(Magic) - 1 <= Len(buffer)
  BY <1>2 DEF MagicPositions, MagicAt
<1>4. Where \in 1..(Len(buffer) + 1)
  BY <1>0, <1>3
<1>5. /\ Candidate = From(buffer, Where) /\ Candidate \in Seq(Bytes)
      /\ Len(Candidate) = Len(buffer) + 1 - Where
  BY <1>0, <1>4, FromType DEF Candidate, Where
<1>6. HasHeader => HeaderThere(buffer, Where) /\ SizeAtHeader(buffer, Where) = PayloadSize
  <2> SUFFICES ASSUME HasHeader
               PROVE  HeaderThere(buffer, Where) /\ SizeAtHeader(buffer, Where) = PayloadSize
    OBVIOUS
  <2>1. HeaderThere(buffer, Where)
    BY <1>0, <1>3, <1>5, FramingAssumption DEF HasHeader, HeaderThere
  <2>2. SizeAt \in 1..Len(Candidate)
    BY <1>0, <1>3, <1>5, FramingAssumption DEF HasHeader
  <2>3. Sits(Candidate, buffer, Where - 1)
    BY <1>0, <1>4, <1>5, FromSits
  <2>4. buffer[Where - 1 + SizeAt] = Candidate[SizeAt]
    BY <2>2, <2>3 DEF Sits
  <2>5. Where - 1 + SizeAt = Where + SizeAt - 1
    BY <1>3, FramingAssumption
  <2> QED BY <2>1, <2>4, <2>5 DEF SizeAtHeader, PayloadSize
<1>7. ASSUME NEW s, Extends(s, received)
      PROVE  /\ Base + Where \in 1..Len(s)
             /\ MagicAt(s, Base + Where)
             /\ \A k \in 1..(Where - 1) : Base + k \notin Starts(s, Base + 1)
             /\ HasHeader => /\ HeaderThere(s, Base + Where)
                             /\ SizeAtHeader(s, Base + Where) = PayloadSize
  <2>1. Sits(buffer, s, Base) /\ s \in Seq(Bytes)
    BY <1>7, BufferInStream
  <2>2. ASSUME NEW k \in 1..(Where - 1) PROVE Base + k \notin Starts(s, Base + 1)
    <3>1. k \in 1..Len(buffer) /\ k + Len(Magic) - 1 <= Len(buffer) /\ ~(Where <= k)
      BY <1>0, <1>3
    <3>2. k \notin MagicPositions(buffer)
      BY <1>2, <3>1
    <3> QED BY <1>7, <3>1, <3>2, NoStartThere
  <2>3. Base + Where \in 1..Len(s) /\ MagicAt(s, Base + Where)
    BY <1>0, <1>3, <2>1, SameInside
  <2>4. HasHeader => /\ HeaderThere(s, Base + Where)
                     /\ SizeAtHeader(s, Base + Where) = PayloadSize
    BY <1>0, <1>3, <1>6, <2>1, SameInside
  <2> QED BY <2>2, <2>3, <2>4
<1> QED BY <1>0, <1>3, <1>5, <1>7

\* If the candidate is a start, it is the next one.
LEMMA CandidateIsNext ==
  ASSUME TypeOK, BufferIsSuffix, HasMagic, NEW s, Extends(s, received),
         NEW i \in {Base + 1, Base + Where},
         HeaderThere(s, Base + Where) => SizeAtHeader(s, Base + Where) <= MaxPayload
  PROVE  /\ i \in 1..(Len(s) + 1)
         /\ Starts(s, i) # {} /\ NextStart(s, i) = Base + Where
<1>1. /\ Where \in 1..Len(buffer) /\ Base + Where \in 1..Len(s) /\ MagicAt(s, Base + Where)
      /\ \A k \in 1..(Where - 1) : Base + k \notin Starts(s, Base + 1)
  BY CandidateInStream
<1>2. Base \in Nat /\ Len(s) \in Nat /\ Len(buffer) \in Nat /\ s \in Seq(Bytes)
  BY BufferInStream
<1>3. i \in 1..(Len(s) + 1) /\ i <= Base + Where /\ i >= Base + 1
  BY <1>1, <1>2
<1>4. Base + Where \in Starts(s, i)
  BY <1>1, <1>2, <1>3 DEF Starts
<1>5. NextStart(s, i) \in Starts(s, i) /\ NextStart(s, i) <= Base + Where
  BY <1>2, <1>3, <1>4, NextBounds
<1>6. NextStart(s, i) \in i..Len(s) /\ NextStart(s, i) \in Starts(s, Base + 1)
  BY <1>2, <1>3, <1>5 DEF Starts
<1>7. ~(NextStart(s, i) < Base + Where)
  <2> SUFFICES ASSUME NextStart(s, i) < Base + Where PROVE FALSE
    OBVIOUS
  <2>1. /\ NextStart(s, i) - Base \in 1..(Where - 1)
        /\ Base + (NextStart(s, i) - Base) = NextStart(s, i)
    BY <1>1, <1>2, <1>3, <1>6
  <2> QED BY <1>1, <1>6, <2>1
<1>8. NextStart(s, i) = Base + Where
  BY <1>1, <1>5, <1>6, <1>7
<1> QED BY <1>3, <1>4, <1>8

\* A loop left with the candidate in the buffer, as it is no complete frame yet.
LEMMA CandidateWaits ==
  ASSUME TypeOK, ChunkInv, HasMagic, Wait(Candidate),
         HasHeader => PayloadSize <= MaxPayload /\ Len(Candidate) < TotalSize
  PROVE  ChunkInv'
<1>1. /\ Where \in 1..Len(buffer) /\ Candidate = From(buffer, Where)
      /\ Len(Candidate) = Len(buffer) + 1 - Where /\ Len(buffer) \in Nat
      /\ \A s : Extends(s, received) =>
           \A k \in 1..(Where - 1) : Base + k \notin Starts(s, Base + 1)
  BY CandidateInStream DEF ChunkInv
<1>2. /\ UNCHANGED <<received, delivered>> /\ buffer' = From(buffer, Where)
      /\ Where \in 1..(Len(buffer) + 1)
  BY <1>1 DEF Wait
<1>3. BufferIsSuffix' /\ DeliveredSoFar' /\ Base' = Base + Where - 1
  BY <1>1, <1>2, FrontDropped DEF ChunkInv
<1>4. ~Complete(received, Base + Where)
  <2> SUFFICES ASSUME Complete(received, Base + Where) PROVE FALSE
    OBVIOUS
  <2>1. /\ Extends(received, received) /\ Base \in Nat /\ Len(received) \in Nat
        /\ Base + Len(buffer) = Len(received)
    BY ReceivedExtends, BufferInStream DEF ChunkInv
  <2>2. HasHeader => /\ HeaderThere(received, Base + Where)
                     /\ SizeAtHeader(received, Base + Where) = PayloadSize
    BY <2>1, CandidateInStream DEF ChunkInv
  <2>3. HeaderThere(received, Base + Where) => HasHeader
    BY <1>1, <2>1, FramingAssumption DEF HeaderThere, HasHeader
  <2>4. NextStart(received, Base + Where) = Base + Where
    BY <2>1, <2>2, <2>3, CandidateIsNext DEF ChunkInv
  <2>5. HasHeader /\ NextEnd(received, Base + Where) <= Len(received) + 1
    BY <2>3, <2>4 DEF Complete
  <2>6. NextEnd(received, Base + Where) = Base + Where + HeaderLen + PayloadSize
    BY <2>2, <2>4, <2>5 DEF NextEnd
  <2>7. PayloadSize \in Nat
    BY <2>5, PayloadSizeType
  <2> QED BY <1>1, <2>1, <2>5, <2>6, <2>7, FramingAssumption DEF TotalSize
<1>5. Base' + 1 = Base + Where
  <2>1. Base \in Nat
    BY ReceivedExtends, BufferInStream DEF ChunkInv
  <2> QED BY <1>1, <1>3, <2>1
<1>6. NoneLeft'
  BY <1>2, <1>4, <1>5 DEF NoneLeft
<1> QED BY <1>3, <1>6 DEF ChunkInv

\* No magic in the buffer, or no room for one: what is kept of it is too short
\* for a magic, and what is dropped has none, nor the beginning of one.
LEMMA NoMagicChunk ==
  ASSUME TypeOK, ChunkInv, TooShort \/ NoMagic
  PROVE  ChunkInv'
<1> DEFINE i == IF TooShort THEN 1 ELSE Len(buffer) - Len(Magic) + 2
<1>0. /\ buffer \in Seq(Bytes) /\ Len(buffer) \in Nat /\ received \in Seq(Bytes)
      /\ Len(Magic) \in Nat /\ Len(Magic) >= 1
      /\ Base \in Nat /\ Len(received) \in Nat /\ Base + Len(buffer) = Len(received)
      /\ BufferIsSuffix /\ DeliveredSoFar /\ Extends(received, received)
  BY FramingAssumption, ReceivedExtends, BufferInStream DEF TypeOK, ChunkInv
<1>1. /\ i \in 1..(Len(buffer) + 1) /\ Len(buffer) + 1 - i < Len(Magic)
      /\ i # 1 => i = Len(buffer) - Len(Magic) + 2 /\ MagicPositions(buffer) = {}
  <2>0. Len(buffer) \in Nat /\ Len(Magic) \in Nat /\ Len(Magic) >= 1
    BY <1>0
  <2>1. CASE TooShort
    <3>1. Len(buffer) < Len(Magic) /\ i = 1
      BY <2>1 DEF TooShort
    <3> HIDE DEF i
    <3> QED BY <2>0, <3>1
  <2>2. CASE ~TooShort
    <3>1. /\ Len(buffer) >= Len(Magic) /\ MagicPositions(buffer) = {}
          /\ i = Len(buffer) - Len(Magic) + 2
      BY <2>2 DEF NoMagic, NoMagicHere
    <3> HIDE DEF i
    <3> QED BY <2>0, <3>1
  <2> QED BY <2>1, <2>2
<1>2. Wait(From(buffer, i))
  <2>1. From(buffer, 1) = buffer
    BY <1>0 DEF From
  <2> QED BY <2>1 DEF TooShort, NoMagic
<1>3. UNCHANGED <<received, delivered>> /\ buffer' = From(buffer, i)
  BY <1>2 DEF Wait
<1> HIDE DEF i
<1>4. ASSUME NEW s, Extends(s, received), NEW k \in 1..(i - 1)
      PROVE  Base + k \notin Starts(s, Base + 1)
  <2>1. k \in 1..Len(buffer) /\ k + Len(Magic) - 1 <= Len(buffer) /\ k \notin MagicPositions(buffer)
    BY <1>0, <1>1
  <2> QED BY <1>0, <1>4, <2>1, NoStartThere
<1>5. BufferIsSuffix' /\ DeliveredSoFar' /\ Base' = Base + i - 1
  BY <1>0, <1>1, <1>3, <1>4, FrontDropped
<1>6. Base' + 1 \in Nat \ {0} /\ Len(received) + 1 - (Base' + 1) < Len(Magic)
  BY <1>0, <1>1, <1>5
<1>7. Starts(received, Base' + 1) = {}
  <2> SUFFICES ASSUME NEW j \in (Base' + 1)..Len(received), MagicAt(received, j) PROVE FALSE
    BY DEF Starts
  <2>1. j + Len(Magic) - 1 <= Len(received)
    BY DEF MagicAt
  <2> QED BY <1>0, <1>6, <2>1
<1>8. NoneLeft'
  BY <1>3, <1>7 DEF NoneLeft, Complete
<1> QED BY <1>5, <1>8 DEF ChunkInv

\* A corrupt header: its magic is passed over with what stood before it.
LEMMA OversizedChunk ==
  ASSUME TypeOK, ChunkInv, Oversized
  PROVE  ChunkInv'
<1>0. /\ HasMagic /\ HasHeader /\ PayloadSize > MaxPayload
      /\ BufferIsSuffix /\ DeliveredSoFar
  BY DEF Oversized, HasHeader, ChunkInv
<1>1. /\ Where \in 1..Len(buffer) /\ Candidate = From(buffer, Where)
      /\ Candidate \in Seq(Bytes) /\ Len(buffer) \in Nat
      /\ Len(Candidate) = Len(buffer) + 1 - Where
  BY <1>0, CandidateInStream
<1>2. Skipped = From(buffer, Where + 1)
  <2>0. buffer \in Seq(Bytes) /\ Where \in 1..(Len(buffer) + 1) /\ Where + 1 \in 1..(Len(buffer) + 1)
    BY <1>1 DEF TypeOK
  <2>1. Len(Skipped) = Len(buffer) - Where /\ Skipped \in Seq(Bytes)
    BY <1>1 DEF Skipped
  <2>2. /\ Len(From(buffer, Where + 1)) = Len(buffer) - Where
        /\ From(buffer, Where + 1) \in Seq(Bytes)
    BY <1>1, <2>0, FromType
  <2>3. ASSUME NEW k \in 1..(Len(buffer) - Where)
        PROVE  Skipped[k] = From(buffer, Where + 1)[k]
    <3>1. Sits(From(buffer, Where), buffer, Where - 1)
      BY <2>0, FromSits
    <3>2. Sits(From(buffer, Where + 1), buffer, Where + 1 - 1)
      BY <2>0, FromSits
    <3>3. Skipped[k] = Candidate[k + 1]
      BY <1>1, <2>1 DEF Skipped
    <3>4. k + 1 \in 1..Len(Candidate) /\ Where - 1 + (k + 1) = Where + k
      BY <1>1
    <3>5. Candidate[k + 1] = buffer[Where + k]
      BY <1>1, <3>1, <3>4 DEF Sits
    <3>6. From(buffer, Where + 1)[k] = buffer[Where + k]
      <4>1. Where + 1 - 1 = Where /\ k \in 1..Len(From(buffer, Where + 1))
        BY <1>1, <2>2
      <4> QED BY <3>2, <4>1 DEF Sits
    <3> QED BY <3>3, <3>5, <3>6
  <2> QED BY <2>1, <2>2, <2>3, SeqEqual
<1> DEFINE i == Where + 1
<1>3. /\ UNCHANGED <<received, delivered, loop>> /\ buffer' = From(buffer, i)
      /\ i \in 1..(Len(buffer) + 1)
  BY <1>1, <1>2 DEF Oversized
<1>4. ASSUME NEW s, Extends(s, received), NEW k \in 1..(i - 1)
      PROVE  Base + k \notin Starts(s, Base + 1)
  <2>1. /\ \A j \in 1..(Where - 1) : Base + j \notin Starts(s, Base + 1)
        /\ HeaderThere(s, Base + Where) /\ SizeAtHeader(s, Base + Where) = PayloadSize
    BY <1>0, <1>4, CandidateInStream
  <2>2. Base + Where \notin Starts(s, Base + 1)
    <3>1. PayloadSize \in Nat
      BY <1>0, PayloadSizeType
    <3> QED BY <1>0, <2>1, <3>1, FramingAssumption DEF Starts
  <2>3. k = Where \/ k \in 1..(Where - 1)
    BY <1>1
  <2> QED BY <2>1, <2>2, <2>3
<1>5. BufferIsSuffix' /\ DeliveredSoFar'
  <2>1. UNCHANGED <<received, delivered>>
    BY <1>3
  <2> HIDE DEF i
  <2> QED BY <1>0, <1>3, <1>4, <2>1, FrontDropped
<1>6. NoneLeft'
  BY <1>0, <1>3 DEF NoneLeft, HasMagic, Running
<1> QED BY <1>5, <1>6 DEF ChunkInv

\* A frame delivered is the next one of the stream, whatever follows, and the
\* loop goes on where it ends.
LEMMA DeliverChunk ==
  ASSUME TypeOK, ChunkInv, Deliver
  PROVE  ChunkInv'
<1> DEFINE frame == SubSeq(Candidate, 1, TotalSize)
           i == TotalSize + 1
<1>0. /\ HasMagic /\ HasHeader /\ PayloadSize <= MaxPayload /\ Len(Candidate) >= TotalSize
      /\ BufferIsSuffix /\ DeliveredSoFar /\ received' = received /\ loop' = "frame"
      /\ delivered' = Append(delivered, frame) /\ buffer' = From(Candidate, i)
  BY DEF Deliver, HasHeader, ChunkInv
<1>1. /\ Where \in 1..Len(buffer) /\ Candidate = From(buffer, Where)
      /\ Candidate \in Seq(Bytes) /\ Len(buffer) \in Nat
      /\ Len(Candidate) = Len(buffer) + 1 - Where
      /\ buffer \in Seq(Bytes) /\ received \in Seq(Bytes)
  BY <1>0, CandidateInStream DEF TypeOK
<1>2. /\ Base \in Nat /\ Len(received) \in Nat /\ Base + Len(buffer) = Len(received)
      /\ PayloadSize \in Nat /\ TotalSize \in Nat /\ TotalSize = PayloadSize + HeaderLen
      /\ HeaderLen \in Nat /\ HeaderLen >= 1
  BY <1>0, ReceivedExtends, BufferInStream, PayloadSizeType, FramingAssumption DEF TotalSize
<1>3. /\ i \in 1..(Len(Candidate) + 1)
      /\ buffer' \in Seq(Bytes) /\ Len(buffer') = Len(Candidate) + 1 - i
      /\ Base' = (i - 1) + ((Where - 1) + Base) /\ Base' + 1 = Base + Where + TotalSize
  <2>1. i \in 1..(Len(Candidate) + 1)
    BY <1>0, <1>1, <1>2
  <2>2. buffer' \in Seq(Bytes) /\ Len(buffer') = Len(Candidate) + 1 - i
    BY <1>0, <1>1, <2>1, FromType
  <2>3. Base' = Len(received) - (Len(Candidate) + 1 - i)
    <3> HIDE DEF i
    <3> QED BY <1>0, <2>2 DEF Base
  <2>4. Len(received) \in Nat /\ Len(Candidate) \in Nat /\ i = TotalSize + 1
    BY <1>1, <1>2
  <2>5. Base' = (i - 1) + ((Where - 1) + Base) /\ Base' + 1 = Base + Where + TotalSize
    <3> HIDE DEF i
    <3> QED BY <1>1, <1>2, <2>3, <2>4
  <2> QED BY <2>1, <2>2, <2>5
<1>4. Sits(Candidate, buffer, Where - 1)
  <2>1. Where \in 1..(Len(buffer) + 1)
    BY <1>1
  <2> QED BY <1>1, <2>1, FromSits
<1>5. BufferIsSuffix'
  <2>1. Sits(Candidate, received, (Where - 1) + Base)
    BY <1>0, <1>1, <1>4, SitsInside DEF BufferIsSuffix
  <2>2. Sits(buffer', Candidate, i - 1)
    <3> HIDE DEF i
    <3> QED BY <1>0, <1>1, <1>3, FromSits
  <2>3. Sits(buffer', received, (i - 1) + ((Where - 1) + Base))
    BY <1>1, <1>3, <2>1, <2>2, SitsInside
  <2> QED BY <1>0, <1>3, <2>3 DEF BufferIsSuffix
<1>6. ASSUME NEW s, Extends(s, received)
      PROVE  FramesOf(s) = delivered' \o FramesFrom(s)[Base' + 1]
  <2>1. /\ s \in Seq(Bytes) /\ Len(s) \in Nat /\ Sits(buffer, s, Base)
        /\ Len(received) <= Len(s)
    BY <1>0, <1>6, BufferInStream
  <2>2. HeaderThere(s, Base + Where) /\ SizeAtHeader(s, Base + Where) = PayloadSize
    BY <1>0, <1>6, CandidateInStream
  <2>3. /\ Base + 1 \in 1..(Len(s) + 1)
        /\ Starts(s, Base + 1) # {} /\ NextStart(s, Base + 1) = Base + Where
    BY <1>0, <1>6, <2>2, CandidateIsNext
  <2>4. NextEnd(s, Base + 1) = Base' + 1
    BY <1>1, <1>2, <1>3, <2>2, <2>3 DEF NextEnd
  <2>5. Base' + 1 <= Len(s) + 1
    BY <1>0, <1>1, <1>2, <1>3, <2>1
  <2>6. Complete(s, Base + 1)
    BY <2>2, <2>3, <2>4, <2>5 DEF Complete
  <2>7. NextFrame(s, Base + 1) = frame
    <3> DEFINE p == Base + Where
               q == NextEnd(s, Base + 1) - 1
    <3>1. NextFrame(s, Base + 1) = SubSeq(s, p, q)
      <4>1. p = NextStart(s, Base + 1) /\ q = NextEnd(s, Base + 1) - 1
        BY <2>3
      <4> HIDE DEF p, q
      <4> QED BY <4>1 DEF NextFrame
    <3>2. p \in 1..Len(s) /\ q \in 1..Len(s) /\ p <= q /\ q - p + 1 = TotalSize
      <4>1. NextEnd(s, Base + 1) = Base + Where + TotalSize
        BY <1>3, <2>4
      <4>2. Base + Where + TotalSize <= Len(s) + 1
        BY <1>3, <2>5
      <4>3. TotalSize \in Nat /\ TotalSize >= 1 /\ Where \in Nat /\ Where >= 1
        BY <1>1, <1>2
      <4> QED BY <1>2, <2>1, <4>1, <4>2, <4>3
    <3>3. \A k \in p..q : s[k] \in Bytes
      BY <2>1, <3>2, ElementOfSeq
    <3>4. Sits(Candidate, s, (Where - 1) + Base)
      BY <1>1, <1>4, <2>1, SitsInside
    <3>5. ASSUME NEW k \in 1..TotalSize PROVE s[p + k - 1] = Candidate[k]
      <4>1. k \in 1..Len(Candidate) /\ (Where - 1) + Base + k = p + k - 1
        BY <1>0, <1>1, <1>2
      <4> QED BY <3>4, <4>1 DEF Sits
    <3> HIDE DEF p, q
    <3>6. /\ SubSeq(s, p, q) \in Seq(Bytes) /\ Len(SubSeq(s, p, q)) = TotalSize
          /\ \A k \in 1..TotalSize : SubSeq(s, p, q)[k] = s[p + k - 1]
      BY <3>2, <3>3, SubSeqProperties
    <3>7. /\ frame \in Seq(Bytes) /\ Len(frame) = TotalSize
          /\ \A k \in 1..TotalSize : frame[k] = Candidate[k]
      BY <1>0, <1>1, <1>2
    <3> HIDE DEF frame
    <3>8. SubSeq(s, p, q) = frame
      BY <3>5, <3>6, <3>7, SeqEqual
    <3> QED BY <3>1, <3>8
  <2>8. /\ FramesFrom(s)[Base + 1] = <<frame>> \o FramesFrom(s)[Base' + 1]
        /\ FramesFrom(s)[Base' + 1] \in Seq(Seq(Bytes))
    <3>1. Base' + 1 \in 1..(Len(s) + 1)
      BY <1>1, <1>2, <1>3, <2>5
    <3> HIDE DEF frame
    <3> QED BY <2>1, <2>3, <2>4, <2>6, <2>7, <3>1, FramesDefined
  <2>9. FramesOf(s) = delivered \o FramesFrom(s)[Base + 1]
    BY <1>0, <1>6 DEF DeliveredSoFar
  <2>10. delivered \in Seq(Seq(Bytes)) /\ frame \in Seq(Bytes)
    <3>1. frame \in Seq(Bytes)
      BY <1>0, <1>1, <1>2
    <3> QED BY <3>1 DEF TypeOK
  <2> HIDE DEF frame
  <2>11. delivered' = delivered \o <<frame>> /\ <<frame>> \in Seq(Seq(Bytes))
    BY <1>0, <2>10, AppendIsConcat
  <2>12. delivered' \o FramesFrom(s)[Base' + 1]
           = delivered \o (<<frame>> \o FramesFrom(s)[Base' + 1])
    <3> DEFINE u == <<frame>>
               v == FramesFrom(s)[Base' + 1]
    <3>1. delivered \in Seq(Seq(Bytes)) /\ u \in Seq(Seq(Bytes)) /\ v \in Seq(Seq(Bytes))
      BY <2>8, <2>10, <2>11
    <3> HIDE DEF u, v
    <3>2. (delivered \o u) \o v = delivered \o (u \o v)
      BY <3>1, ConcatAssociative
    <3> QED BY <2>11, <3>2 DEF u, v
  <2> QED BY <2>8, <2>9, <2>12
<1>7. DeliveredSoFar'
  BY <1>0, <1>6 DEF DeliveredSoFar
<1>8. NoneLeft'
  BY <1>0 DEF NoneLeft
<1> QED BY <1>5, <1>7, <1>8 DEF ChunkInv

\* New bytes rule out some of the streams that could have come.
LEMMA ReceiveChunk ==
  ASSUME TypeOK, ChunkInv, Receive
  PROVE  ChunkInv'
<1>0. PICK n \in 1..MaxChunk :
        \E chunk \in [1..n -> Bytes] :
          /\ Len(received) + n <= MaxBytes
          /\ received' = received \o chunk
          /\ buffer' = buffer \o chunk
  BY DEF Receive
<1>1. PICK chunk \in [1..n -> Bytes] : received' = received \o chunk /\ buffer' = buffer \o chunk
  BY <1>0
<1>2. /\ n \in Nat /\ chunk \in Seq(Bytes) /\ Len(chunk) = n
      /\ received \in Seq(Bytes) /\ buffer \in Seq(Bytes)
      /\ Len(received) \in Nat /\ Len(buffer) \in Nat /\ Base \in Nat
      /\ Base + Len(buffer) = Len(received)
  <2>1. n \in Nat /\ chunk \in Seq(Bytes) /\ Len(chunk) = n
    BY FramingAssumption
  <2>2. Base \in Nat /\ Base + Len(buffer) = Len(received)
    BY ReceivedExtends, BufferInStream DEF ChunkInv
  <2> QED BY <2>1, <2>2 DEF TypeOK
<1>3. /\ received' \in Seq(Bytes) /\ Len(received') = Len(received) + n
      /\ \A k \in 1..(Len(received) + n) :
           received'[k] = IF k <= Len(received) THEN received[k] ELSE chunk[k - Len(received)]
      /\ buffer' \in Seq(Bytes) /\ Len(buffer') = Len(buffer) + n
      /\ \A k \in 1..(Len(buffer) + n) :
           buffer'[k] = IF k <= Len(buffer) THEN buffer[k] ELSE chunk[k - Len(buffer)]
  <2>0. received \in Seq(Bytes) /\ buffer \in Seq(Bytes) /\ chunk \in Seq(Bytes) /\ Len(chunk) = n
    BY <1>2
  <2>1. /\ received' \in Seq(Bytes) /\ Len(received') = Len(received) + n
        /\ \A k \in 1..(Len(received) + n) :
             received'[k] = IF k <= Len(received) THEN received[k] ELSE chunk[k - Len(received)]
    BY <1>1, <2>0, ConcatProperties
  <2>2. /\ buffer' \in Seq(Bytes) /\ Len(buffer') = Len(buffer) + n
        /\ \A k \in 1..(Len(buffer) + n) :
             buffer'[k] = IF k <= Len(buffer) THEN buffer[k] ELSE chunk[k - Len(buffer)]
    BY <1>1, <2>0, ConcatProperties
  <2> QED BY <2>1, <2>2
<1>4. Base' = Base
  BY <1>2, <1>3 DEF Base
<1>5. BufferIsSuffix'
  <2>1. ASSUME NEW k \in 1..Len(buffer') PROVE received'[Base + k] = buffer'[k]
    <3>1. CASE k <= Len(buffer)
      <4>1. received'[Base + k] = received[Base + k] /\ buffer'[k] = buffer[k]
        BY <1>2, <1>3, <3>1
      <4>2. k \in 1..Len(buffer)
        BY <1>2, <1>3, <3>1
      <4> QED BY <4>1, <4>2 DEF ChunkInv, BufferIsSuffix, Sits
    <3>2. CASE ~(k <= Len(buffer))
      <4> DEFINE m == Base + k
      <4>1. Len(buffer') = Len(buffer) + n
        BY <1>3
      <4>2. /\ m \in 1..(Len(received) + n) /\ ~(m <= Len(received))
            /\ m - Len(received) = k - Len(buffer) /\ k \in 1..(Len(buffer) + n)
        <5>1. /\ k \in Nat /\ k > Len(buffer) /\ k <= Len(buffer) + n
              /\ Base \in Nat /\ n \in Nat /\ Len(buffer) \in Nat /\ Len(received) \in Nat
              /\ Len(received) = Base + Len(buffer)
          BY <1>2, <3>2, <4>1
        <5> QED BY <5>1
      <4> HIDE DEF m
      <4>3. received'[m] = chunk[m - Len(received)] /\ buffer'[k] = chunk[k - Len(buffer)]
        BY <1>3, <3>2, <4>2
      <4>4. received'[m] = buffer'[k]
        BY <4>2, <4>3
      <4> QED BY <4>4 DEF m
    <3> QED BY <3>1, <3>2
  <2> QED BY <1>2, <1>3, <1>4, <2>1 DEF BufferIsSuffix, Sits
<1>6. ASSUME NEW s, Extends(s, received') PROVE Extends(s, received)
  <2>1. s \in Seq(Bytes) /\ Len(received') <= Len(s) /\ \A k \in 1..Len(received') : s[k] = received'[k]
    <3>1. /\ s \in Seq(Bytes) /\ 0 + Len(received') <= Len(s)
          /\ \A k \in 1..Len(received') : s[0 + k] = received'[k]
      BY <1>6 DEF Extends, Sits
    <3> QED BY <1>2, <1>3, <3>1
  <2>2. ASSUME NEW k \in 1..Len(received) PROVE s[k] = received[k] /\ 0 + k = k
    <3>1. k \in 1..(Len(received) + n) /\ k \in 1..Len(received') /\ k <= Len(received) /\ 0 + k = k
      BY <1>2, <1>3
    <3> QED BY <1>3, <2>1, <3>1
  <2>3. 0 + Len(received) <= Len(s)
    BY <1>2, <1>3, <2>1
  <2> QED BY <2>1, <2>2, <2>3 DEF Extends, Sits
<1>7. delivered' = delivered /\ loop' = "runs"
  BY DEF Receive
<1>8. DeliveredSoFar'
  BY <1>4, <1>6, <1>7 DEF DeliveredSoFar, ChunkInv
<1>9. NoneLeft'
  BY <1>7 DEF NoneLeft
<1> QED BY <1>5, <1>8, <1>9 DEF ChunkInv

Empty == received = <<>> /\ buffer = <<>> /\ delivered = <<>>

\* An empty stream, at the start and when the buffer is cleared.
LEMMA EmptyStream == Empty => ChunkInv
<1> SUFFICES ASSUME received = <<>>, buffer = <<>>, delivered = <<>> PROVE ChunkInv
  BY DEF Empty
<1>1. Len(received) = 0 /\ Len(buffer) = 0 /\ Base = 0 /\ received \in Seq(Bytes)
  BY DEF Base
<1>2. BufferIsSuffix
  BY <1>1 DEF BufferIsSuffix, Sits
<1>3. ASSUME NEW s, Extends(s, received)
      PROVE  FramesOf(s) = delivered \o FramesFrom(s)[Base + 1]
  <2>1. s \in Seq(Bytes) /\ 1 \in 1..(Len(s) + 1) /\ Base + 1 = 1
    BY <1>1, <1>3 DEF Extends
  <2>2. FramesFrom(s)[1] \in Seq(Seq(Bytes))
    BY <2>1, FramesDefined
  <2>3. <<>> \o FramesFrom(s)[1] = FramesFrom(s)[1]
    BY <2>2, ConcatEmptySeq
  <2> QED BY <2>1, <2>3 DEF FramesOf
<1>4. NoneLeft
  <2>1. Starts(received, Base + 1) = {}
    BY <1>1 DEF Starts
  <2> QED BY <2>1 DEF NoneLeft, Complete
<1> QED BY <1>2, <1>3, <1>4 DEF ChunkInv, DeliveredSoFar

\* Every step keeps the invariant.
LEMMA NextChunk == TypeOK /\ ChunkInv /\ [Next]_vars => ChunkInv'
<1> SUFFICES ASSUME TypeOK, ChunkInv, [Next]_vars PROVE ChunkInv'
  OBVIOUS
<1>1. CASE TooShort \/ NoMagic
  BY <1>1, NoMagicChunk
<1>2. CASE ShortHeader
  <2>1. HasMagic /\ Wait(Candidate) /\ Len(Candidate) < HeaderLen
    BY <1>2 DEF ShortHeader
  <2>2. ~HasHeader
    BY <2>1, CandidateType, FramingAssumption DEF HasHeader
  <2> QED BY <2>1, <2>2, CandidateWaits
<1>3. CASE ShortPayload
  BY <1>3, CandidateWaits DEF ShortPayload, HasHeader
<1>4. CASE Oversized
  BY <1>4, OversizedChunk
<1>5. CASE Deliver
  BY <1>5, DeliverChunk
<1>6. CASE Receive
  BY <1>6, ReceiveChunk
<1>7. CASE Clear
  <2>1. Empty'
    BY <1>7 DEF Clear, Empty
  <2> QED BY <2>1, EmptyStream, PTL
<1>8. CASE Read
  <2>1. UNCHANGED <<received, buffer, delivered>> /\ loop' = "runs"
    BY <1>8 DEF Read
  <2> QED BY <2>1 DEF ChunkInv, BufferIsSuffix, DeliveredSoFar, NoneLeft, Base
<1>9. CASE UNCHANGED vars
  <2>1. UNCHANGED <<received, buffer, delivered, loop>>
    BY <1>9 DEF vars
  <2> QED BY <2>1 DEF ChunkInv, BufferIsSuffix, DeliveredSoFar, NoneLeft, Base
<1> QED BY <1>1, <1>2, <1>3, <1>4, <1>5, <1>6, <1>7, <1>8, <1>9 DEF Next, Pass

\* However a stream is cut into chunks and reads, and whatever noise, truncated
\* frames and corrupt headers it holds: a read that finds no frame has returned,
\* with those before it, exactly the frames of the stream.
THEOREM ReturnsTheFrames == Spec => []ChunkingIrrelevant
<1>1. Init => ChunkInv
  BY EmptyStream DEF Init, Empty
<1>2. TypeOK /\ ChunkInv => ChunkingIrrelevant
  <2> SUFFICES ASSUME TypeOK, ChunkInv, loop = "none"
               PROVE  delivered = FramesOf(received)
    BY DEF ChunkingIrrelevant
  <2>1. /\ received \in Seq(Bytes) /\ Base + 1 \in 1..(Len(received) + 1)
        /\ delivered \in Seq(Seq(Bytes))
    BY ReceivedExtends, BufferInStream DEF ChunkInv, TypeOK
  <2>2. FramesOf(received) = delivered \o FramesFrom(received)[Base + 1]
    BY ReceivedExtends DEF ChunkInv, DeliveredSoFar
  <2>3. FramesFrom(received)[Base + 1] = <<>>
    BY <2>1, FramesDefined DEF ChunkInv, NoneLeft
  <2> QED BY <2>1, <2>2, <2>3, ConcatEmptySeq
<1> QED BY <1>1, <1>2, NextChunk, TypeCorrect, PTL DEF Spec

==============================================================================
