--------------------------- MODULE ChannelIOProofs ---------------------------
(***************************************************************************)
(* Proofs about ChannelIO, for any channels, frames, messages and failures *)
(* and either transport: its types; that a read which gives up on time has *)
(* emptied the receive buffer; that writes go out in order, each again     *)
(* only after its own failure; and that it implements ChannelQueues.       *)
(***************************************************************************)
EXTENDS ChannelIO, SequenceLemmas, FiniteSetTheorems

----------------------------------------------------------------------------
(* Types.                                                                  *)

\* While a read is in the transport it still wants a message: what makes it
\* safe to store the one that comes.
RoundHasRoom == InTransport => Len(call.out) < call.want

ReadInv == TypeOK /\ RoundHasRoom

\* Part of a sequence, from its front or from its end, is a sequence.
LEMMA PartsOfSeq ==
  ASSUME NEW S, NEW s \in Seq(S), NEW n \in 0..Len(s)
  PROVE  /\ SubSeq(s, 1, n) \in Seq(S)
         /\ Drop(s, n) \in Seq(S)
  <1>1. Len(s) \in Nat /\ \A i \in 1..Len(s) : s[i] \in S
    OBVIOUS
  <1>2. SubSeq(s, 1, n) \in Seq(S)
    BY <1>1, SubSeqProperties
  <1>3. SubSeq(s, n + 1, Len(s)) \in Seq(S)
    BY <1>1, SubSeqProperties
  <1> QED BY <1>2, <1>3 DEF Drop

\* The types hold at the start.
LEMMA TypeInit == Init => ReadInv
  BY ChannelBounds
     DEF Init, ReadInv, TypeOK, RoundHasRoom, InTransport, Reading, NoCall, Returned,
         ChannelIds, TransferStatuses, STATUS_NOERROR

\* What a call that runs can be, by its kind.
LEMMA CallKinds ==
  ASSUME TypeOK
  PROVE  /\ Reading => call \in Reads /\ Len(call.out) <= call.want
         /\ Writing => /\ call \in Writes /\ call.index <= call.want
                       /\ written + call.want <= MaxMsgs
         /\ Reading \/ Writing => call.channel \in channels
         /\ channels \subseteq ChannelIds
  BY ChannelBounds DEF TypeOK, Reading, Writing, NoCall, Reads, Writes, ChannelIds

\* Steps of no call: channels come and go, the device sends.
LEMMA OutsideKeepsTypes ==
  ASSUME ReadInv,
         \/ Connect \/ ClearRx
         \/ \E c \in ChannelIds : Disconnect(c) \/ DeviceSends(c)
  PROVE  ReadInv'
  <1> USE ChannelBounds DEF ReadInv, RoundHasRoom, InTransport, Reading
  <1>1. CASE Connect
    BY <1>1 DEF Connect, TypeOK, NoCall, readVars, writeVars, ChannelIds
  <1>2. CASE ClearRx
    <2>1. PICK n \in 0..Len(wire) : wire' = Drop(wire, n)
      BY <1>2 DEF ClearRx, TypeOK
    <2>2. wire' \in Seq(Frames) /\ inbox' \in Seq(Frames)
      BY <1>2, <2>1, PartsOfSeq DEF ClearRx, TypeOK
    <2> QED BY <1>2, <2>2 DEF ClearRx, TypeOK, NoCall, channelVars, writeVars
  <1>3. ASSUME NEW c \in ChannelIds, Disconnect(c) PROVE ReadInv'
    BY <1>3 DEF Disconnect, TypeOK, NoCall, readVars, writeVars
  <1>4. ASSUME NEW c \in ChannelIds, DeviceSends(c) PROVE ReadInv'
    <2>1. arrived' \in 1..MaxFrames
      BY <1>4 DEF DeviceSends, TypeOK
    <2>2. wire' \in Seq(Frames)
      BY <1>4, <2>1, AppendProperties DEF DeviceSends, TypeOK, Frames
    <2> QED BY <1>4, <2>1, <2>2 DEF DeviceSends, TypeOK, channelVars, writeVars
  <1> QED BY <1>1, <1>2, <1>3, <1>4

\* Steps of a read that does not return with it.
LEMMA ReadStepKeepsTypes ==
  ASSUME ReadInv,
         \/ Deadline \/ NextRound \/ Skip \/ Take \/ Chunk \/ Swallow
         \/ \E c \in ChannelIds, n \in 1..MaxWant : BeginRead(c, n)
  PROVE  ReadInv'
  <1> USE ChannelBounds DEF ReadInv, RoundHasRoom, InTransport, Reading
  <1>1. CASE Deadline
    BY <1>1, CallKinds DEF Deadline, TypeOK, Reads, NoCall, channelVars, readVars, writeVars
  <1>2. CASE NextRound
    BY <1>2, CallKinds DEF NextRound, TypeOK, Reads, NoCall, channelVars, readVars, writeVars
  <1>3. CASE Skip
    BY <1>3, CallKinds, HeadTailProperties
       DEF Skip, TypeOK, Reads, NoCall, channelVars, writeVars
  <1>4. CASE Take
    <2>1. /\ Head(inbox).number \in 1..MaxFrames /\ Tail(inbox) \in Seq(Frames)
      <3>1. inbox \in Seq(Frames) /\ inbox # <<>>
        BY <1>4 DEF Take, TypeOK
      <3>2. Head(inbox) \in Frames /\ Tail(inbox) \in Seq(Frames)
        BY <3>1, HeadTailProperties
      <3> QED BY <3>2 DEF Frames
    <2>2. /\ call \in Reads /\ Len(call.out) < call.want
          /\ call.channel \in channels
      BY <1>4, CallKinds DEF Take
    <2>3. /\ Append(call.out, Head(inbox).number) \in Seq(1..MaxFrames)
          /\ Len(Append(call.out, Head(inbox).number)) <= call.want
      BY <2>1, <2>2, AppendProperties DEF Reads
    <2>4. /\ call' \in Reads /\ call'.channel \in channels
          /\ Len(call'.out) <= call'.want /\ call'.remaining = "unset"
      BY <1>4, <2>2, <2>3 DEF Take, Reads
    <2> QED BY <1>4, <2>1, <2>4 DEF Take, TypeOK, channelVars, writeVars
  <1>5. CASE Chunk
    <2>1. PICK n \in 1..Len(wire) : inbox' = SubSeq(wire, 1, n) /\ wire' = Drop(wire, n)
      BY <1>5 DEF Chunk
    <2>2. wire' \in Seq(Frames) /\ inbox' \in Seq(Frames)
      BY <2>1, PartsOfSeq DEF TypeOK
    <2> QED BY <1>5, <2>2 DEF Chunk, TypeOK, channelVars, writeVars
  <1>6. CASE Swallow
    <2>1. PICK n \in 1..Len(wire) : wire' = Drop(wire, n)
      BY <1>6 DEF Swallow
    <2>2. wire' \in Seq(Frames)
      BY <2>1, PartsOfSeq DEF TypeOK
    <2> QED BY <1>6, <2>2 DEF Swallow, TypeOK, channelVars, writeVars
  <1>7. ASSUME NEW c \in ChannelIds, NEW n \in 1..MaxWant, BeginRead(c, n)
        PROVE  ReadInv'
    <2>1. /\ call' \in Reads /\ call'.channel \in channels
          /\ Len(call'.out) = 0 /\ call'.remaining = "unset" /\ call'.want = n
      BY <1>7 DEF BeginRead, Reads
    <2> QED BY <1>7, <2>1 DEF BeginRead, TypeOK, Returned, TransferStatuses,
                              channelVars, readVars, writeVars
  <1> QED BY <1>1, <1>2, <1>3, <1>4, <1>5, <1>6, <1>7

\* A read returns no more than it holds.
LEMMA ReturnFromReadKeepsTypes ==
  ASSUME ReadInv, Reading,
         NEW s \in TransferStatuses, NEW n \in 0..Len(call.out),
         ReturnsFromRead(s, n),
         UNCHANGED <<channelVars, wire, inbox, arrived, writeVars>>
  PROVE  ReadInv'
  <1>1. /\ call \in Reads /\ Len(call.out) <= call.want /\ call.channel \in ChannelIds
        /\ call.out \in Seq(1..MaxFrames)
    BY CallKinds DEF ReadInv, Reads
  <1>2. got[call.channel] \o SubSeq(call.out, 1, n) \in Seq(1..MaxFrames)
    <2>1. SubSeq(call.out, 1, n) \in Seq(1..MaxFrames)
      BY <1>1, PartsOfSeq
    <2> QED BY <1>1, <2>1, ConcatProperties DEF ReadInv, TypeOK
  <1>3. got' \in [ChannelIds -> Seq(1..MaxFrames)]
    BY <1>2 DEF ReturnsFromRead, ReadInv, TypeOK
  <1>4. ret' \in [status : TransferStatuses, num : 0..MaxWant]
    <2>1. n \in 0..MaxWant
      <3>1. Len(call.out) \in Nat /\ call.want \in 1..MaxWant
        BY <1>1 DEF Reads
      <3> QED BY <1>1, <3>1, ChannelBounds
    <2> QED BY <2>1 DEF ReturnsFromRead, Returned
  <1> QED BY <1>3, <1>4 DEF ReturnsFromRead, ReadInv, TypeOK, RoundHasRoom, InTransport,
                            Reading, NoCall, channelVars, writeVars

\* The steps with which a read returns.
LEMMA ReadReturnKeepsTypes ==
  ASSUME ReadInv,
         TimesOut \/ EmptyTransfer \/ ReadFails \/ ReadIsFull
  PROVE  ReadInv'
  <1>1. Reading
    BY DEF TimesOut, EmptyTransfer, ReadFails, ReadIsFull, Waits, InTransport
  <1>2. Len(call.out) \in 0..Len(call.out)
    BY <1>1, CallKinds DEF ReadInv, Reads
  <1>3. CASE ReturnsWhatThereIs
    <2>1. (IF call.out = <<>> THEN ERR_TIMEOUT ELSE STATUS_NOERROR) \in TransferStatuses
      BY DEF TransferStatuses
    <2> QED BY <1>1, <1>2, <1>3, <2>1, ReturnFromReadKeepsTypes DEF ReturnsWhatThereIs
  <1>4. CASE ReadFails
    BY <1>1, <1>2, <1>4, ReturnFromReadKeepsTypes DEF ReadFails, TransferStatuses
  <1> QED BY <1>3, <1>4 DEF TimesOut, EmptyTransfer, ReadIsFull

\* Steps of a write.
LEMMA WriteKeepsTypes ==
  ASSUME ReadInv,
         \/ Refuse \/ Send \/ SendFails \/ WriteIsDone
         \/ \E c \in ChannelIds, n \in 1..MaxWant : BeginWrite(c, n)
  PROVE  ReadInv'
  <1> USE ChannelBounds DEF ReadInv, RoundHasRoom, InTransport, Reading
  <1>1. Writing => /\ call \in Writes /\ call.channel \in channels
                   /\ call.index \in 0..MaxWant /\ call.index <= call.want
                   /\ call.want \in 1..MaxWant
                   /\ written \in Nat /\ written + call.want <= MaxMsgs
    BY CallKinds DEF Writes, TypeOK
  <1>2. InLoop => Message \in 1..MaxMsgs
    BY <1>1 DEF InLoop, Message
  <1>3. InLoop => \A t \in {sent, Append(sent, Message)} : t \in Seq(1..MaxMsgs)
    <2>1. sent \in Seq(1..MaxMsgs)
      BY DEF TypeOK
    <2> QED BY <1>2, <2>1, AppendProperties
  <1>4. CASE Refuse
    <2>1. InLoop /\ written' = written + call.index + 1
      BY <1>4, <1>1 DEF Refuse, ReturnsFromWrite, InLoop
    <2>2. written' \in 0..MaxMsgs
      BY <1>1, <2>1 DEF InLoop
    <2>3. ret' \in [status : TransferStatuses, num : 0..MaxWant]
      BY <1>4, <1>1, <2>1 DEF Refuse, ReturnsFromWrite, Returned, TransferStatuses, InLoop
    <2> QED BY <1>4, <2>2, <2>3 DEF Refuse, ReturnsFromWrite, TypeOK, NoCall,
                                    channelVars, readVars
  <1>5. CASE Send
    <2>1. InLoop /\ sent' \in Seq(1..MaxMsgs)
      BY <1>5, <1>3 DEF Send
    <2>2. /\ call' \in Writes /\ call'.channel = call.channel /\ call'.want = call.want
          /\ call'.index <= call'.want
      <3> DEFINE next == call.index + 1
      <3>1. call \in Writes /\ next \in 0..MaxWant /\ next <= call.want
        BY <1>1, <2>1 DEF InLoop
      <3>2. call' = [call EXCEPT !.index = next]
        BY <1>5 DEF Send
      <3> HIDE DEF next
      <3> QED BY <3>1, <3>2 DEF Writes
    <2> QED BY <1>5, <1>1, <2>1, <2>2 DEF Send, InLoop, TypeOK, Writes, channelVars, readVars
  <1>6. CASE SendFails
    <2>1. InLoop /\ sent' \in Seq(1..MaxMsgs)
      BY <1>6, <1>3 DEF SendFails
    <2>2. written' \in 0..MaxMsgs
      BY <1>6, <1>1, <2>1 DEF SendFails, ReturnsFromWrite, InLoop, ERR_FAILED, ERR_INVALID_MSG
    <2>3. ret' \in [status : TransferStatuses, num : 0..MaxWant]
      BY <1>6, <1>1, <2>1 DEF SendFails, ReturnsFromWrite, Returned, TransferStatuses, InLoop
    <2> QED BY <1>6, <2>1, <2>2, <2>3 DEF SendFails, ReturnsFromWrite, TypeOK, NoCall,
                                          channelVars, readVars
  <1>7. CASE WriteIsDone
    <2>1. written' \in 0..MaxMsgs
      BY <1>7, <1>1 DEF WriteIsDone, ReturnsFromWrite, STATUS_NOERROR, ERR_INVALID_MSG
    <2>2. ret' \in [status : TransferStatuses, num : 0..MaxWant]
      BY <1>7, <1>1 DEF WriteIsDone, ReturnsFromWrite, Returned, TransferStatuses
    <2> QED BY <1>7, <2>1, <2>2 DEF WriteIsDone, ReturnsFromWrite, TypeOK, NoCall,
                                    channelVars, readVars
  <1>8. ASSUME NEW c \in ChannelIds, NEW n \in 1..MaxWant, BeginWrite(c, n)
        PROVE  ReadInv'
    <2>1. call' \in Writes /\ call'.op = "write" /\ call'.channel \in channels
          /\ call'.index <= call'.want /\ written + call'.want <= MaxMsgs
      BY <1>8 DEF BeginWrite, Writes
    <2>2. ret' \in [status : TransferStatuses, num : 0..MaxWant]
      BY <1>8 DEF BeginWrite, Returned, TransferStatuses
    <2>3. TypeOK'
      BY <1>8, <2>1, <2>2 DEF BeginWrite, TypeOK, channelVars, readVars, writeVars
    <2> QED BY <2>1, <2>3
  <1> QED BY <1>4, <1>5, <1>6, <1>7, <1>8

\* Every step keeps the types.
LEMMA TypeNext == ReadInv /\ [Next]_vars => ReadInv'
  <1> SUFFICES ASSUME ReadInv, [Next]_vars PROVE ReadInv'
    OBVIOUS
  <1>1. CASE UNCHANGED vars
    BY <1>1 DEF vars, channelVars, readVars, writeVars, ReadInv, TypeOK, RoundHasRoom,
                InTransport, Reading
  <1>2. CASE Next
    BY <1>2, OutsideKeepsTypes, ReadStepKeepsTypes, ReadReturnKeepsTypes, WriteKeepsTypes
       DEF Next, Step
  <1> QED BY <1>1, <1>2

\* Driver::read and write stay within the arrays they are given: a read never
\* stores more messages than were asked for, a write never goes past the last.
THEOREM TypeCorrect == Spec => []TypeOK
  <1>1. ReadInv => TypeOK
    BY DEF ReadInv
  <1> QED BY <1>1, TypeInit, TypeNext, PTL DEF Spec

----------------------------------------------------------------------------
(* Polling.                                                                *)

\* A step of a read that goes on is no return.
LEMMA ReadGoesOn ==
  ASSUME ReadInv, Reading, Next,
         ~(TimesOut \/ EmptyTransfer \/ ReadFails \/ ReadIsFull)
  PROVE  call' # NoCall
  <1>1. call \in Reads
    BY CallKinds DEF ReadInv
  <1>2. call # NoCall /\ ~InLoop /\ ~Writing
    BY DEF Reading, NoCall, InLoop, Writing
  <1>3. CASE call' = call
    BY <1>2, <1>3
  <1>4. CASE Deadline \/ NextRound \/ Skip \/ Take
    <2>1. call'.op = "read"
      BY <1>1, <1>4 DEF Deadline, NextRound, Skip, Take, Reads
    <2> QED BY <2>1 DEF NoCall
  <1>5. CASE Swallow \/ Chunk \/ \E c \in ChannelIds : DeviceSends(c)
    BY <1>3, <1>5 DEF Swallow, Chunk, DeviceSends
  <1> QED BY <1>2, <1>4, <1>5
          DEF Next, Step, Disconnect, BeginRead, BeginWrite, Connect, ClearRx,
              Refuse, Send, SendFails, WriteIsDone

\* A read that ends for want of time, and does not fail, has handed out all
\* that was asked for or has emptied the receive buffer.
THEOREM PollsDrain == Spec => PollDrainsBuffer
  <1>1. ASSUME ReadInv, [Next]_vars, Reading, call' = NoCall, ret'.status # ERR_FAILED
        PROVE  ret'.num = call.want \/ inbox = <<>>
    <2>1. call # NoCall
      BY <1>1 DEF Reading, NoCall
    <2>2. Next
      BY <1>1, <2>1 DEF vars
    <2>3. CASE TimesOut \/ EmptyTransfer
      BY <2>3 DEF TimesOut, EmptyTransfer, Waits
    <2>4. CASE ReadIsFull
      BY <2>4 DEF ReadIsFull, ReturnsWhatThereIs, ReturnsFromRead, Returned
    <2>5. ~ReadFails
      <3>1. ReadFails => ret' = Returned(ERR_FAILED, Len(call.out))
        BY DEF ReadFails, ReturnsFromRead
      <3> QED BY <1>1, <3>1 DEF Returned
    <2> QED BY <1>1, <2>2, <2>3, <2>4, <2>5, ReadGoesOn
  <1>2. ReadInv /\ [Next]_vars
          => (Reading /\ call' = NoCall /\ ret'.status # ERR_FAILED
                => ret'.num = call.want \/ inbox = <<>>)
    BY <1>1
  <1> QED BY <1>2, TypeInit, TypeNext, PTL DEF Spec, PollDrainsBuffer

----------------------------------------------------------------------------
(* The order of writes.                                                    *)

\* A message that has been received and is to be sent again has had a failure
\* of its own: one more failure than repetitions so far.
RetryIsPaidFor ==
  Begun + 1 \in Received => Len(sent) - Cardinality(Received) < failures

OrderInv == WrittenInOrder /\ RetryIsPaidFor

\* Received is finite.
LEMMA ReceivedFinite ==
  ASSUME TypeOK
  PROVE  IsFiniteSet(Received) /\ Cardinality(Received) \in Nat
  <1>1. Received \subseteq 1..MaxMsgs
    <2>1. sent \in Seq(1..MaxMsgs)
      BY DEF TypeOK
    <2>2. \A i \in 1..Len(sent) : sent[i] \in 1..MaxMsgs
      BY <2>1, ElementOfSeq
    <2> QED BY <2>2 DEF Received
  <1>2. IsFiniteSet(1..MaxMsgs)
    BY ChannelBounds, FS_Interval
  <1> QED BY <1>1, <1>2, FS_Subset, FS_CardinalityType

\* No step but these changes what the order is about.
OrderUntouched ==
  /\ Begun' = Begun /\ sent' = sent /\ failures' = failures

\* Such a step keeps the order.
LEMMA UntouchedKeepsOrder ==
  ASSUME OrderInv, OrderUntouched
  PROVE  OrderInv'
  BY DEF OrderInv, OrderUntouched, WrittenInOrder, RetryIsPaidFor, Received

\* The other steps leave it alone.
LEMMA OthersLeaveOrder ==
  ASSUME ReadInv, [Next]_vars, ~(Refuse \/ Send \/ SendFails)
  PROVE  OrderUntouched
  <1> USE DEF OrderUntouched, Begun, Writing
  <1>1. CASE UNCHANGED vars
    BY <1>1 DEF vars, writeVars
  <1>2. CASE \/ Connect \/ ClearRx \/ Swallow \/ Chunk
             \/ \E c \in ChannelIds : Disconnect(c) \/ DeviceSends(c)
    BY <1>2 DEF Connect, ClearRx, Swallow, Chunk, Disconnect, DeviceSends, writeVars
  <1>3. CASE Deadline \/ NextRound \/ Skip \/ Take
    <2>1. call.op = "read" /\ call \in Reads
      BY <1>3, CallKinds DEF Deadline, NextRound, Skip, Take, InTransport, Reading, ReadInv
    <2>2. call'.op = "read"
      BY <1>3, <2>1 DEF Deadline, NextRound, Skip, Take, Reads
    <2> QED BY <1>3, <2>1, <2>2 DEF Deadline, NextRound, Skip, Take, writeVars
  <1>4. CASE TimesOut \/ EmptyTransfer \/ ReadFails \/ ReadIsFull
    <2>1. Reading
      BY <1>4 DEF TimesOut, EmptyTransfer, ReadFails, ReadIsFull, Waits, InTransport
    <2>2. call' = NoCall
      BY <1>4 DEF TimesOut, EmptyTransfer, ReadFails, ReadIsFull, ReturnsWhatThereIs,
                  ReturnsFromRead
    <2>3. UNCHANGED writeVars
      BY <1>4 DEF TimesOut, EmptyTransfer, ReadFails, ReadIsFull, ReturnsWhatThereIs
    <2> QED BY <2>1, <2>2, <2>3 DEF Reading, NoCall, writeVars
  <1>5. CASE WriteIsDone
    <2>1. Writing /\ call.index = call.want /\ written' = written + call.want
      BY <1>5, CallKinds
         DEF WriteIsDone, ReturnsFromWrite, STATUS_NOERROR, ERR_INVALID_MSG,
             ReadInv, TypeOK, Writes
    <2>2. written' \in Int
      BY <2>1, CallKinds DEF ReadInv, TypeOK, Writes
    <2> QED BY <1>5, <2>1, <2>2 DEF WriteIsDone, ReturnsFromWrite, NoCall
  <1>6. CASE \E c \in ChannelIds, n \in 1..MaxWant : BeginRead(c, n) \/ BeginWrite(c, n)
    BY <1>6 DEF BeginRead, BeginWrite, NoCall, writeVars, ReadInv, TypeOK
  <1> QED BY <1>1, <1>2, <1>3, <1>4, <1>5, <1>6 DEF Next, Step

\* What the three steps that matter have in common: message Begun + 1 is next.
LEMMA NextMessage ==
  ASSUME ReadInv, InLoop
  PROVE  /\ Message = Begun + 1 /\ Begun \in Nat
         /\ written \in Nat /\ call.index \in Nat /\ call \in Writes
  BY CallKinds DEF InLoop, Message, Begun, Writing, ReadInv, TypeOK, Writes

\* What it means to append it.
LEMMA AppendMessage ==
  ASSUME ReadInv, OrderInv, InLoop, Message \notin Oversized,
         sent' = Append(sent, Message)
  PROVE  /\ \A i \in 1..(Len(sent') - 1) : sent'[i] <= sent'[i + 1]
         /\ Received' = Received \cup {Begun + 1}
         /\ Received' \subseteq (1..(Begun + 1)) \ Oversized
         /\ Len(sent') = Len(sent) + 1
         /\ Cardinality(Received') = IF Begun + 1 \in Received THEN Cardinality(Received)
                                     ELSE Cardinality(Received) + 1
  <1>1. Message = Begun + 1 /\ Begun \in Nat
    BY NextMessage
  <1>2. /\ sent \in Seq(1..MaxMsgs) /\ Len(sent) \in Nat
        /\ \A i \in 1..Len(sent) : sent[i] \in 1..MaxMsgs
    <2>1. sent \in Seq(1..MaxMsgs)
      BY DEF ReadInv, TypeOK
    <2> QED BY <2>1, ElementOfSeq, LenProperties
  <1>3. Message \in 1..MaxMsgs
    <2>1. /\ written \in Nat /\ call.index \in Nat /\ call.want \in Nat
          /\ call.index < call.want /\ written + call.want <= MaxMsgs
      BY CallKinds DEF ReadInv, TypeOK, InLoop, Writes
    <2> QED BY <2>1, ChannelBounds DEF Message
  <1>4. /\ Len(sent') = Len(sent) + 1
        /\ \A i \in 1..Len(sent) : sent'[i] = sent[i]
        /\ sent'[Len(sent) + 1] = Begun + 1
    BY <1>1, <1>2, <1>3, AppendProperties
  <1>5. Received' = Received \cup {Begun + 1}
    BY <1>2, <1>4 DEF Received
  <1>6. \A i \in 1..Len(sent) : sent[i] <= Begun + 1
    BY <1>1 DEF OrderInv, WrittenInOrder, Received
  <1>7. \A i \in 1..(Len(sent') - 1) : sent'[i] <= sent'[i + 1]
    <2> SUFFICES ASSUME NEW i \in 1..Len(sent) PROVE sent'[i] <= sent'[i + 1]
      BY <1>2, <1>4
    <2>1. CASE i = Len(sent)
      BY <1>4, <1>6, <2>1
    <2>2. CASE i # Len(sent)
      BY <1>2, <1>4, <2>2 DEF OrderInv, WrittenInOrder
    <2> QED BY <2>1, <2>2
  <1>8. Received' \subseteq (1..(Begun + 1)) \ Oversized
    BY <1>1, <1>5 DEF OrderInv, WrittenInOrder
  <1>9. Cardinality(Received') = IF Begun + 1 \in Received THEN Cardinality(Received)
                                 ELSE Cardinality(Received) + 1
    BY <1>5, ReceivedFinite, FS_AddElement DEF ReadInv
  <1> QED BY <1>4, <1>5, <1>7, <1>8, <1>9

\* Leaving out an oversized message keeps the order.
LEMMA RefuseKeepsOrder ==
  ASSUME ReadInv, OrderInv, Refuse
  PROVE  OrderInv'
  <1>1. /\ Begun \in Nat /\ Begun + 1 \in Oversized
        /\ written' = Begun + 1 /\ call' = NoCall
        /\ sent' = sent /\ failures' = failures
    BY NextMessage DEF Refuse, ReturnsFromWrite, Message, Begun, InLoop
  <1>2. Begun' = Begun + 1
    BY <1>1 DEF Begun, Writing, NoCall
  <1>3. Received' = Received /\ Received \subseteq (1..(Begun + 1)) \ Oversized
    BY <1>1 DEF Received, OrderInv, WrittenInOrder
  <1>4. (1..Begun') \ Oversized \subseteq Received'
    BY <1>1, <1>2, <1>3 DEF OrderInv, WrittenInOrder
  <1>5. Begun' + 1 \notin Received' /\ Received' \subseteq (1..(Begun' + 1)) \ Oversized
    BY <1>1, <1>2, <1>3
  <1> QED BY <1>1, <1>3, <1>4, <1>5 DEF OrderInv, WrittenInOrder, RetryIsPaidFor

\* So does a message that is sent: no failure of its own is left over, and it
\* may be a repetition only if there was one.
LEMMA SendKeepsOrder ==
  ASSUME ReadInv, OrderInv, Send
  PROVE  OrderInv'
  <1>1. /\ Begun \in Nat /\ failures \in Nat /\ failures' = failures /\ InLoop
        /\ Len(sent) \in Nat /\ Cardinality(Received) \in Nat
        /\ Message \notin Oversized /\ sent' = Append(sent, Message)
    BY NextMessage, ReceivedFinite, LenProperties DEF Send, ReadInv, TypeOK
  <1>2. Begun' = Begun + 1
    <2>1. /\ call \in Writes /\ call' = [call EXCEPT !.index = @ + 1]
          /\ written' = written /\ written \in Nat /\ call.index \in Nat
      BY NextMessage DEF Send
    <2>2. call'.op = "write" /\ call'.index = call.index + 1
      BY <2>1 DEF Writes
    <2> QED BY <1>1, <2>1, <2>2 DEF Begun, Writing, InLoop
  <1>3. /\ \A i \in 1..(Len(sent') - 1) : sent'[i] <= sent'[i + 1]
        /\ Received' = Received \cup {Begun + 1}
        /\ Received' \subseteq (1..(Begun + 1)) \ Oversized
        /\ Len(sent') = Len(sent) + 1
        /\ Cardinality(Received') = IF Begun + 1 \in Received THEN Cardinality(Received)
                                    ELSE Cardinality(Received) + 1
    BY <1>1, AppendMessage
  <1>4. (1..Begun') \ Oversized \subseteq Received'
    BY <1>1, <1>2, <1>3 DEF OrderInv, WrittenInOrder
  <1>5. Begun' + 1 \notin Received' /\ Received' \subseteq (1..(Begun' + 1)) \ Oversized
    BY <1>1, <1>2, <1>3
  <1>6. Len(sent') - Cardinality(Received') <= failures'
    BY <1>1, <1>3 DEF OrderInv, WrittenInOrder, RetryIsPaidFor
  <1> QED BY <1>3, <1>4, <1>5, <1>6 DEF OrderInv, WrittenInOrder, RetryIsPaidFor

\* A failure pays for the repetition that may follow it.
LEMMA SendFailsKeepsOrder ==
  ASSUME ReadInv, OrderInv, SendFails
  PROVE  OrderInv'
  <1>1. /\ Begun \in Nat /\ failures \in Nat /\ failures' = failures + 1 /\ InLoop
        /\ Len(sent) \in Nat /\ Cardinality(Received) \in Nat
        /\ Message \notin Oversized /\ sent' \in {sent, Append(sent, Message)}
    BY NextMessage, ReceivedFinite, LenProperties DEF SendFails, ReadInv, TypeOK
  <1>2. Begun' = Begun
    <2>1. call' = NoCall /\ written' = written + call.index
      BY NextMessage DEF SendFails, ReturnsFromWrite, ERR_FAILED, ERR_INVALID_MSG
    <2> QED BY <1>1, <2>1 DEF Begun, Writing, InLoop, NoCall
  <1>3. CASE sent' = sent
    BY <1>1, <1>2, <1>3 DEF OrderInv, WrittenInOrder, RetryIsPaidFor, Received
  <1>4. CASE sent' = Append(sent, Message)
    <2>1. /\ \A i \in 1..(Len(sent') - 1) : sent'[i] <= sent'[i + 1]
          /\ Received' = Received \cup {Begun + 1}
          /\ Received' \subseteq (1..(Begun + 1)) \ Oversized
          /\ Len(sent') = Len(sent) + 1
          /\ Cardinality(Received') = IF Begun + 1 \in Received THEN Cardinality(Received)
                                      ELSE Cardinality(Received) + 1
      BY <1>1, <1>4, AppendMessage
    <2>2. Len(sent') - Cardinality(Received') < failures'
      BY <1>1, <2>1 DEF OrderInv, WrittenInOrder, RetryIsPaidFor
    <2>3. Len(sent') - Cardinality(Received') <= failures'
      BY <1>1, <2>1, <2>2
    <2> QED BY <1>2, <2>1, <2>2, <2>3 DEF OrderInv, WrittenInOrder, RetryIsPaidFor
  <1> QED BY <1>1, <1>3, <1>4

\* Writes that go on where a failed one says leave no gap and change no order;
\* the device sees a message twice only if its own write failed.
THEOREM WritesInOrder == Spec => []WrittenInOrder
  <1>1. Init => OrderInv
    BY FS_EmptySet DEF Init, OrderInv, WrittenInOrder, RetryIsPaidFor, Received, Begun,
                       Writing, NoCall
  <1>2. OrderInv /\ ReadInv /\ [Next]_vars => OrderInv'
    BY RefuseKeepsOrder, SendKeepsOrder, SendFailsKeepsOrder, OthersLeaveOrder,
       UntouchedKeepsOrder
  <1>3. OrderInv => WrittenInOrder
    BY DEF OrderInv
  <1> QED BY <1>1, <1>2, <1>3, TypeInit, TypeNext, PTL DEF Spec

----------------------------------------------------------------------------
(* ChannelIO implements ChannelQueues.  A frame is received, in the sense  *)
(* of ChannelQueues, when the transport reads it; it waits in the receive  *)
(* buffer, and then among the messages of the read that runs, until that   *)
(* read returns.                                                           *)

Seen == IF wire = <<>> THEN arrived ELSE Head(wire).number - 1

QueueOf(c) == (IF Reading /\ call.channel = c THEN call.out ELSE <<>>) \o Of(c, inbox)

Queues == [c \in ChannelIds |-> QueueOf(c)]

Held == IF Reading THEN Len(call.out) ELSE 0

\* The frames on the wire are the last that were sent, each for a channel that
\* was connected; the others are accounted for.
WireIsNumbered ==
  /\ \A i \in 1..Len(wire) : /\ wire[i].number = arrived - Len(wire) + i
                             /\ wire[i].channel < nextChannel
  /\ Held + Len(inbox) + Len(wire) <= arrived

QueueInv == ReadInv /\ WireIsNumbered

\* What the two modules share.
LEMMA SameSelections ==
  /\ \A s, I : Promise!Picked(s, I) = Picked(s, I)
  /\ \A s, n : Promise!Drop(s, n) = Drop(s, n)
  /\ Promise!ChannelIds = ChannelIds
  /\ Promise!NoChannel = NoChannel /\ NoChannel \notin ChannelIds
  <1>1. \A s, I : Promise!Picked(s, I) = Picked(s, I)
    BY DEF Promise!Picked, Promise!PickedUpTo, Picked, PickedUpTo
  <1> QED BY <1>1 DEF Promise!Drop, Drop, Promise!ChannelIds, ChannelIds, Promise!NoChannel,
                      NoChannel

\* The frames of a channel are frames, in a sequence.
LEMMA OfType ==
  ASSUME NEW s \in Seq(Frames), NEW c
  PROVE  Of(c, s) \in Seq(1..MaxFrames) /\ Len(Of(c, s)) <= Len(s)
  <1> DEFINE t == [i \in 1..Len(s) |-> s[i].number]
  <1>1. Len(s) \in Nat /\ \A i \in 1..Len(s) : s[i] \in Frames
    BY ElementOfSeq
  <1>2. t \in Seq(1..MaxFrames) /\ Len(t) = Len(s)
    BY <1>1 DEF Frames
  <1> HIDE DEF t
  <1>3. Picked(t, {i \in 1..Len(s) : s[i].channel = c}) \in Seq(1..MaxFrames)
        /\ Len(Picked(t, {i \in 1..Len(s) : s[i].channel = c})) <= Len(t)
    BY <1>2, PickedType
  <1> QED BY <1>2, <1>3 DEF Of, t

\* No frames are none of any channel.
LEMMA OfEmpty ==
  ASSUME NEW c
  PROVE  Of(c, <<>>) = <<>>
  <1> DEFINE t == [i \in 1..Len(<<>>) |-> <<>>[i].number]
             I == {i \in 1..Len(<<>>) : <<>>[i].channel = c}
  <1>1. t \in Seq(Nat) /\ Len(t) = 0 /\ \A i \in 1..Len(t) : i \notin I
    OBVIOUS
  <1> HIDE DEF t, I
  <1>2. Picked(t, I) = <<>>
    BY <1>1, PickedNone
  <1> QED BY <1>2 DEF Of, t, I

\* The first frame is the first of its channel, and none of another.
LEMMA OfHead ==
  ASSUME NEW s \in Seq(Frames), s # <<>>, NEW c
  PROVE  Of(c, s) = (IF Head(s).channel = c THEN <<Head(s).number>> ELSE <<>>) \o Of(c, Tail(s))
  <1> DEFINE t == [i \in 1..Len(s) |-> s[i].number]
             I == {i \in 1..Len(s) : s[i].channel = c}
             u == [i \in 1..Len(Tail(s)) |-> Tail(s)[i].number]
             J == {i \in 1..Len(Tail(s)) : Tail(s)[i].channel = c}
  <1>1. /\ Len(s) \in Nat \ {0} /\ \A i \in 1..Len(s) : s[i] \in Frames
        /\ Head(s) = s[1] /\ Len(Tail(s)) = Len(s) - 1
        /\ \A i \in 1..(Len(s) - 1) : Tail(s)[i] = s[i + 1]
    BY ElementOfSeq, EmptySeq
  <1>2. t \in Seq(1..MaxFrames) /\ Len(t) = Len(s) /\ t # <<>> /\ Head(t) = Head(s).number
    BY <1>1 DEF Frames
  <1>3. Tail(t) = u
    <2>1. \A i \in 1..(Len(s) - 1) : Tail(t)[i] = t[i + 1] /\ t[i + 1] = s[i + 1].number
      BY <1>1, <1>2
    <2>2. Tail(t) \in Seq(1..MaxFrames) /\ Len(Tail(t)) = Len(s) - 1
      BY <1>1, <1>2
    <2>3. \A i \in 1..(Len(s) - 1) : u[i] = s[i + 1].number /\ s[i + 1] \in Frames
      BY <1>1
    <2>4. u \in Seq(1..MaxFrames) /\ Len(u) = Len(s) - 1
      BY <1>1, <2>3 DEF Frames
    <2> HIDE DEF t, u
    <2> QED BY <2>1, <2>2, <2>3, <2>4, SeqEqual
  <1>4. \A i \in 1..(Len(t) - 1) : i \in J <=> i + 1 \in I
    BY <1>1, <1>2
  <1>5. 1 \in I <=> Head(s).channel = c
    BY <1>1
  <1> HIDE DEF t, u, I, J
  <1>6. Picked(t, I) = (IF 1 \in I THEN <<Head(t)>> ELSE <<>>) \o Picked(Tail(t), J)
    BY <1>2, <1>4, PickedHead
  <1>7. Of(c, s) = Picked(t, I) /\ Of(c, Tail(s)) = Picked(u, J)
    BY DEF Of, t, u, I, J
  <1> QED BY <1>2, <1>3, <1>5, <1>6, <1>7

\* Two sequences that follow one another, taken apart.
LEMMA TakenApart ==
  ASSUME NEW S, NEW a \in Seq(S), NEW b \in Seq(S)
  PROVE  /\ SubSeq(a \o b, 1, Len(a)) = a /\ SubSeq(a, 1, Len(a)) = a
         /\ Drop(a \o b, Len(a)) = b
         /\ Drop(a, Len(a)) = <<>>
         /\ Len(a) \in 0..Len(a \o b)
         /\ a \o b \in Seq(S) /\ <<>> \o a = a /\ a \o <<>> = a
  <1>1. /\ a \o b \in Seq(S) /\ Len(a \o b) = Len(a) + Len(b)
        /\ \A i \in 1..(Len(a) + Len(b)) :
             (a \o b)[i] = IF i <= Len(a) THEN a[i] ELSE b[i - Len(a)]
        /\ Len(a) \in Nat /\ Len(b) \in Nat
    BY ConcatProperties
  <1> DEFINE s == a \o b
             m == Len(a)
  <1> HIDE DEF s
  <1>2. /\ s \in Seq(S) /\ Len(s) = m + Len(b) /\ m \in Nat
        /\ \A i \in 1..m : s[i] = a[i]
        /\ \A i \in 1..Len(b) : s[m + i] = b[i]
    <2>1. ASSUME NEW i \in 1..m PROVE s[i] = a[i]
      <3>1. i \in 1..(Len(a) + Len(b)) /\ i <= Len(a)
        BY <1>1
      <3> QED BY <1>1, <3>1 DEF s
    <2>2. ASSUME NEW i \in 1..Len(b) PROVE s[m + i] = b[i]
      <3> DEFINE j == m + i
      <3>1. j \in 1..(Len(a) + Len(b)) /\ ~(j <= Len(a)) /\ j - Len(a) = i
        BY <1>1
      <3> HIDE DEF j
      <3>2. s[j] = b[i]
        BY <1>1, <3>1 DEF s
      <3> QED BY <3>2 DEF j
    <2> QED BY <1>1, <2>1, <2>2 DEF s
  <1>3. SubSeq(s, 1, m) = a
    <2>1. \A i \in 1..m : s[i] \in S
      BY <1>1, <1>2, ElementOfSeq
    <2>2. /\ SubSeq(s, 1, m) \in Seq(S) /\ Len(SubSeq(s, 1, m)) = m
          /\ \A i \in 1..m : SubSeq(s, 1, m)[i] = s[i]
      BY <1>2, <2>1
    <2> QED BY <1>2, <2>2, SeqEqual
  <1>4. SubSeq(a, 1, m) = a /\ SubSeq(a, m + 1, Len(a)) = <<>>
    BY <1>1
  <1>5. SubSeq(s, m + 1, Len(s)) = b
    <2> DEFINE d == SubSeq(s, m + 1, Len(s))
    <2>1. d \in Seq(S) /\ Len(d) = Len(b) /\ \A i \in 1..Len(b) : d[i] = s[m + i]
      BY <1>1, <1>2
    <2> HIDE DEF d
    <2>2. d = b
      BY <1>2, <2>1, SeqEqual
    <2> QED BY <2>2 DEF d
  <1>6. <<>> \o a = a /\ a \o <<>> = a
    BY ConcatEmptySeq
  <1>7. m \in 0..Len(s)
    BY <1>1, <1>2
  <1> QED BY <1>2, <1>3, <1>4, <1>5, <1>6, <1>7 DEF Drop, s

\* How far the transport has read.
LEMMA SeenIs ==
  ASSUME QueueInv
  PROVE  /\ Seen = arrived - Len(wire) /\ Seen \in 0..MaxFrames
         /\ arrived \in Nat /\ arrived <= MaxFrames
         /\ Len(wire) \in Nat /\ Len(inbox) \in Nat /\ Held \in Nat
         /\ wire \in Seq(Frames) /\ inbox \in Seq(Frames)
         /\ Reading => call.out \in Seq(1..MaxFrames) /\ Held = Len(call.out)
  <1>1. /\ arrived \in Nat /\ arrived <= MaxFrames
        /\ wire \in Seq(Frames) /\ inbox \in Seq(Frames)
        /\ Len(wire) \in Nat /\ Len(inbox) \in Nat
    BY ChannelBounds DEF QueueInv, ReadInv, TypeOK
  <1>2. Reading => call.out \in Seq(1..MaxFrames) /\ Len(call.out) \in Nat
    BY CallKinds DEF QueueInv, ReadInv, Reads
  <1>3. Held \in Nat /\ (Reading => Held = Len(call.out))
    BY <1>2 DEF Held
  <1>4. Seen = arrived - Len(wire)
    <2>1. CASE wire = <<>>
      BY <1>1, <2>1 DEF Seen
    <2>2. CASE wire # <<>>
      <3>1. Len(wire) >= 1 /\ Head(wire) = wire[1]
        BY <1>1, <2>2, EmptySeq
      <3>2. wire[1].number = arrived - Len(wire) + 1
        BY <1>1, <3>1 DEF QueueInv, WireIsNumbered
      <3> QED BY <1>1, <2>2, <3>1, <3>2 DEF Seen
    <2> QED BY <2>1, <2>2
  <1>5. Len(wire) <= arrived
    BY <1>1, <1>3 DEF QueueInv, WireIsNumbered
  <1> QED BY <1>1, <1>2, <1>3, <1>4, <1>5, ChannelBounds

SeenIsWhatArrived == Seen = arrived - Len(wire)

\* The same as a formula, which holds of the next state too.
LEMMA SeenValue == QueueInv => SeenIsWhatArrived
  BY SeenIs DEF SeenIsWhatArrived

\* The transport reads some frames, or the port is flushed.
LEMMA WireDropped ==
  ASSUME QueueInv, NEW n \in 0..Len(wire), wire' = Drop(wire, n),
         arrived' = arrived, nextChannel' = nextChannel
  PROVE  /\ Len(wire') = Len(wire) - n
         /\ \A i \in 1..Len(wire') : /\ wire'[i].number = arrived' - Len(wire') + i
                                     /\ wire'[i].channel < nextChannel'
  <1>1. wire \in Seq(Frames) /\ Len(wire) \in Nat /\ arrived \in Nat
    BY SeenIs
  <1>2. Len(wire') = Len(wire) - n /\ \A i \in 1..(Len(wire) - n) : wire'[i] = wire[n + i]
    BY <1>1 DEF Drop
  <1>3. ASSUME NEW i \in 1..(Len(wire) - n)
        PROVE  /\ wire'[i].number = arrived' - Len(wire') + i
               /\ wire'[i].channel < nextChannel'
    <2> DEFINE j == n + i
    <2>1. j \in 1..Len(wire) /\ arrived - Len(wire) + j = arrived' - Len(wire') + i
      BY <1>1, <1>2
    <2>2. wire'[i] = wire[j]
      BY <1>2
    <2> HIDE DEF j
    <2> QED BY <2>1, <2>2 DEF QueueInv, WireIsNumbered
  <1> QED BY <1>2, <1>3

\* The steps that leave the wire as it is.
LEMMA WireKept ==
  ASSUME QueueInv, UNCHANGED <<wire, arrived>>, nextChannel' >= nextChannel,
         Held' + Len(inbox') <= Held + Len(inbox), Held' \in Nat, Len(inbox') \in Nat,
         nextChannel' \in Nat
  PROVE  WireIsNumbered'
  <1>1. /\ Len(wire) \in Nat /\ arrived \in Nat /\ Held \in Nat /\ Len(inbox) \in Nat
        /\ nextChannel \in Nat
    BY SeenIs DEF QueueInv, ReadInv, TypeOK
  <1>2. Held' + Len(inbox') + Len(wire') <= arrived'
    BY <1>1 DEF QueueInv, WireIsNumbered
  <1>3. \A i \in 1..Len(wire) : wire[i].channel \in Nat
    <2>1. \A i \in 1..Len(wire) : wire[i] \in Frames
      BY SeenIs, ElementOfSeq
    <2> QED BY <2>1 DEF Frames, ChannelIds
  <1>4. \A i \in 1..Len(wire') : /\ wire'[i].number = arrived' - Len(wire') + i
                                 /\ wire'[i].channel < nextChannel'
    <2> SUFFICES ASSUME NEW i \in 1..Len(wire)
                 PROVE  /\ wire[i].number = arrived - Len(wire) + i
                        /\ wire[i].channel < nextChannel'
      OBVIOUS
    <2>1. /\ wire[i].number = arrived - Len(wire) + i
          /\ wire[i].channel < nextChannel
      BY DEF QueueInv, WireIsNumbered
    <2> QED BY <1>1, <1>3, <2>1
  <1> QED BY <1>2, <1>4 DEF WireIsNumbered

\* The frames stay accounted for in every step.
LEMMA WireNext == QueueInv /\ [Next]_vars => QueueInv'
  <1> SUFFICES ASSUME QueueInv, [Next]_vars PROVE WireIsNumbered'
    BY TypeNext DEF QueueInv
  <1>0. /\ ReadInv /\ nextChannel \in Nat
        /\ arrived \in Nat /\ Len(wire) \in Nat /\ Len(inbox) \in Nat /\ Held \in Nat
        /\ wire \in Seq(Frames) /\ inbox \in Seq(Frames)
        /\ Reading => call.out \in Seq(1..MaxFrames) /\ Held = Len(call.out) /\ call \in Reads
        /\ Held + Len(inbox) + Len(wire) <= arrived
    <2>1. ReadInv /\ nextChannel \in Nat /\ Held + Len(inbox) + Len(wire) <= arrived
      BY DEF QueueInv, ReadInv, TypeOK, WireIsNumbered
    <2>2. Reading => call \in Reads
      BY <2>1, CallKinds DEF ReadInv
    <2> QED BY <2>1, <2>2, SeenIs
  <1>1. CASE UNCHANGED vars
    <2>1. UNCHANGED <<wire, arrived, inbox, call, nextChannel>>
      BY <1>1 DEF vars, readVars, channelVars
    <2>2. Held' = Held
      BY <2>1 DEF Held, Reading
    <2> QED BY <1>0, <2>1, <2>2, WireKept
  <1>2. CASE Connect \/ \E c \in ChannelIds : Disconnect(c)
    <2>1. UNCHANGED <<wire, arrived, inbox, call>> /\ nextChannel' \in {nextChannel, nextChannel + 1}
      BY <1>2 DEF Connect, Disconnect, readVars
    <2>2. Held' = Held
      BY <2>1 DEF Held, Reading
    <2> QED BY <1>0, <2>1, <2>2, WireKept
  <1>3. CASE ClearRx
    <2>1. PICK n \in 0..Len(wire) : wire' = Drop(wire, n)
      BY <1>0, <1>3 DEF ClearRx
    <2>2. inbox' = <<>> /\ UNCHANGED <<arrived, call, nextChannel>>
      BY <1>3 DEF ClearRx, channelVars
    <2>3. Held' = Held /\ Len(inbox') = 0
      BY <2>2 DEF Held, Reading
    <2> QED BY <1>0, <2>1, <2>2, <2>3, WireDropped DEF WireIsNumbered
  <1>4. ASSUME NEW c \in ChannelIds, DeviceSends(c) PROVE WireIsNumbered'
    <2>1. /\ wire' = Append(wire, [channel |-> c, number |-> arrived + 1])
          /\ arrived' = arrived + 1 /\ c < nextChannel
          /\ UNCHANGED <<inbox, call, nextChannel>>
      BY <1>4 DEF DeviceSends, channelVars
    <2>2. Held' = Held
      BY <2>1 DEF Held, Reading
    <2>3. /\ Len(wire') = Len(wire) + 1
          /\ \A i \in 1..Len(wire) : wire'[i] = wire[i]
          /\ wire'[Len(wire) + 1] = [channel |-> c, number |-> arrived + 1]
      BY <1>0, <2>1
    <2>4. ASSUME NEW i \in 1..Len(wire')
          PROVE  /\ wire'[i].number = arrived' - Len(wire') + i
                 /\ wire'[i].channel < nextChannel'
      <3>1. CASE i = Len(wire) + 1
        <4>1. wire'[i].number = arrived + 1 /\ wire'[i].channel = c
          BY <2>3, <3>1
        <4> QED BY <1>0, <2>1, <2>3, <3>1, <4>1
      <3>2. CASE i # Len(wire) + 1
        <4>1. i \in 1..Len(wire) /\ wire'[i] = wire[i]
          BY <1>0, <2>3, <3>2
        <4>2. wire[i].number = arrived - Len(wire) + i /\ wire[i].channel < nextChannel
          BY <4>1 DEF QueueInv, WireIsNumbered
        <4> QED BY <1>0, <2>1, <2>3, <4>1, <4>2
      <3> QED BY <3>1, <3>2
    <2> QED BY <1>0, <2>1, <2>2, <2>3, <2>4 DEF WireIsNumbered
  <1>5. CASE Deadline \/ NextRound \/ Skip \/ Take
    <2>1. Reading /\ UNCHANGED <<wire, arrived, nextChannel>>
      BY <1>5 DEF Deadline, NextRound, Skip, Take, InTransport, readVars, channelVars
    <2>2. CASE Deadline \/ NextRound
      <3>1. call'.op = "read" /\ call'.out = call.out /\ inbox' = inbox
        BY <1>0, <2>1, <2>2 DEF Deadline, NextRound, Reads, readVars
      <3>2. Held' = Held
        BY <2>1, <3>1 DEF Held, Reading
      <3> QED BY <1>0, <2>1, <3>1, <3>2, WireKept
    <2>3. CASE Skip
      <3>1. /\ call'.op = "read" /\ call'.out = call.out
            /\ inbox # <<>> /\ inbox' = Tail(inbox)
        BY <1>0, <2>1, <2>3 DEF Skip, Reads
      <3>2. Held' = Held /\ Len(inbox') = Len(inbox) - 1 /\ Len(inbox) # 0
        BY <1>0, <2>1, <3>1 DEF Held, Reading
      <3> QED BY <1>0, <2>1, <3>1, <3>2, WireKept
    <2>4. CASE Take
      <3> DEFINE next == Head(inbox).number
      <3>0. inbox # <<>> /\ call' = [call EXCEPT !.remaining = "unset", !.out = Append(@, next)]
        BY <2>4 DEF Take
      <3>1. next \in 1..MaxFrames
        <4>1. Head(inbox) \in Frames
          BY <1>0, <3>0
        <4> QED BY <4>1 DEF Frames
      <3> HIDE DEF next
      <3>2. call'.op = "read" /\ call'.out = Append(call.out, next)
        BY <1>0, <2>1, <3>0 DEF Reads
      <3>3. inbox' = Tail(inbox)
        BY <2>4 DEF Take
      <3>4. Held' = Held + 1 /\ Len(inbox') = Len(inbox) - 1 /\ Len(inbox) # 0
        BY <1>0, <2>1, <3>0, <3>1, <3>2, <3>3 DEF Held, Reading
      <3> QED BY <1>0, <2>1, <3>4, WireKept
    <2> QED BY <1>5, <2>2, <2>3, <2>4
  <1>6. CASE Chunk
    <2>1. PICK n \in 1..Len(wire) : inbox' = SubSeq(wire, 1, n) /\ wire' = Drop(wire, n)
      BY <1>6 DEF Chunk
    <2>2. /\ inbox = <<>> /\ UNCHANGED <<arrived, call, nextChannel>>
      BY <1>6 DEF Chunk, Waits, channelVars
    <2>3. Held' = Held /\ Len(inbox') = n /\ Len(inbox) = 0
      BY <1>0, <2>1, <2>2 DEF Held, Reading
    <2>4. n \in 0..Len(wire)
      OBVIOUS
    <2> QED BY <1>0, <2>1, <2>2, <2>3, <2>4, WireDropped DEF WireIsNumbered
  <1>7. CASE Swallow
    <2>1. PICK n \in 1..Len(wire) : wire' = Drop(wire, n)
      BY <1>7 DEF Swallow
    <2>2. UNCHANGED <<inbox, arrived, call, nextChannel>>
      BY <1>7 DEF Swallow, channelVars
    <2>3. Held' = Held
      BY <2>2 DEF Held, Reading
    <2>4. n \in 0..Len(wire)
      OBVIOUS
    <2> QED BY <1>0, <2>1, <2>2, <2>3, <2>4, WireDropped DEF WireIsNumbered
  <1>8. CASE TimesOut \/ EmptyTransfer \/ ReadFails \/ ReadIsFull
    <2>1. call' = NoCall /\ UNCHANGED <<wire, arrived, inbox, nextChannel>>
      BY <1>8 DEF TimesOut, EmptyTransfer, ReadFails, ReadIsFull, ReturnsWhatThereIs,
                  ReturnsFromRead, channelVars
    <2>2. Held' = 0
      BY <2>1 DEF Held, Reading, NoCall
    <2> QED BY <1>0, <2>1, <2>2, WireKept
  <1>9. CASE \E c \in ChannelIds, n \in 1..MaxWant : BeginRead(c, n) \/ BeginWrite(c, n)
    <2>1. /\ (call'.op = "read" /\ call'.out = <<>>) \/ call'.op = "write"
          /\ UNCHANGED <<wire, arrived, inbox, nextChannel>>
      BY <1>9 DEF BeginRead, BeginWrite, channelVars, readVars
    <2>2. Held' = 0
      BY <2>1 DEF Held, Reading
    <2> QED BY <1>0, <2>1, <2>2, WireKept
  <1>10. CASE Refuse \/ Send \/ SendFails \/ WriteIsDone
    <2>1. UNCHANGED <<wire, arrived, inbox, nextChannel>> /\ Writing
      BY <1>10 DEF Refuse, Send, SendFails, WriteIsDone, InLoop, channelVars, readVars
    <2>2. call'.op # "read"
      <3>1. call \in Writes
        BY <1>0, <2>1, CallKinds DEF ReadInv
      <3> QED BY <1>10, <3>1 DEF Refuse, Send, SendFails, WriteIsDone, ReturnsFromWrite,
                                 NoCall, Writes
    <2>3. Held' = 0
      BY <2>2 DEF Held, Reading
    <2> QED BY <1>0, <2>1, <2>3, WireKept
  <1> QED BY <1>1, <1>2, <1>3, <1>4, <1>5, <1>6, <1>7, <1>8, <1>9, <1>10 DEF Next, Step

\* They are accounted for at the start.
LEMMA WireInit == Init => QueueInv
  BY TypeInit DEF Init, QueueInv, WireIsNumbered, Held, Reading, NoCall

\* The channel being read.
ReadingNow == IF Reading THEN call.channel ELSE NoChannel

\* A step that changes nothing the queues show is a stutter.
LEMMA StutterRefines ==
  ASSUME UNCHANGED <<nextChannel, channels, got>>,
         Seen' = Seen, Queues' = Queues, ReadingNow' = ReadingNow
  PROVE  UNCHANGED Promise!vars
  BY DEF Promise!vars, Seen, Queues, QueueOf, ReadingNow

\* How far the transport has read, when the wire is left alone.
LEMMA SameSeen ==
  ASSUME UNCHANGED <<wire, arrived>>
  PROVE  Seen' = Seen
  BY DEF Seen

\* What waits, when no frame is taken from the buffer and none handed out.
LEMMA SameQueues ==
  ASSUME inbox' = inbox,
         \/ ~Reading /\ ~Reading'
         \/ Reading /\ Reading' /\ call'.channel = call.channel /\ call'.out = call.out
  PROVE  Queues' = Queues /\ ReadingNow' = ReadingNow
  <1>1. ASSUME NEW c PROVE Of(c, inbox)' = Of(c, inbox)
    BY DEF Of
  <1>2. \A c \in ChannelIds : QueueOf(c)' = QueueOf(c)
    BY <1>1 DEF QueueOf
  <1> QED BY <1>2 DEF Queues, ReadingNow

\* The types of what waits.
LEMMA QueueTypes ==
  ASSUME QueueInv, NEW c \in ChannelIds
  PROVE  /\ QueueOf(c) \in Seq(1..MaxFrames) /\ Of(c, inbox) \in Seq(1..MaxFrames)
         /\ ~(Reading /\ call.channel = c) => QueueOf(c) = Of(c, inbox)
         /\ Queues[c] = QueueOf(c) /\ DOMAIN Queues = ChannelIds
  <1>1. Of(c, inbox) \in Seq(1..MaxFrames)
    BY SeenIs, OfType
  <1>2. <<>> \in Seq(1..MaxFrames) /\ <<>> \o Of(c, inbox) = Of(c, inbox)
    BY <1>1, TakenApart, EmptySeq
  <1>3. CASE Reading /\ call.channel = c
    <2>1. QueueOf(c) = call.out \o Of(c, inbox) /\ call.out \in Seq(1..MaxFrames)
      BY <1>3, SeenIs DEF QueueOf
    <2> QED BY <1>1, <1>3, <2>1, ConcatProperties DEF Queues
  <1>4. CASE ~(Reading /\ call.channel = c)
    BY <1>1, <1>2, <1>4 DEF Queues, QueueOf
  <1> QED BY <1>3, <1>4

\* No frame waits at the start.
LEMMA QueuesInit == Init => Promise!Init
  <1> SUFFICES ASSUME Init PROVE Promise!Init
    OBVIOUS
  <1>1. /\ nextChannel = 1 /\ channels = {} /\ wire = <<>> /\ inbox = <<>> /\ arrived = 0
        /\ got = [c \in ChannelIds |-> <<>>] /\ ~Reading
    BY DEF Init, Reading, NoCall
  <1>2. 1..(nextChannel - 1) = {} /\ Seen = 0 /\ ReadingNow = NoChannel
    BY <1>1 DEF Seen, ReadingNow
  <1>3. \A c \in ChannelIds : QueueOf(c) = <<>>
    BY <1>1, OfEmpty, ConcatEmptySeq, EmptySeq DEF QueueOf
  <1>4. Queues = [c \in ChannelIds |-> <<>>]
    BY <1>3 DEF Queues
  <1> QED BY <1>1, <1>2, <1>4, SameSelections
          DEF Promise!Init, Seen, ReadingNow, Queues, QueueOf

\* Between calls.
LEMMA IdleRefines ==
  ASSUME QueueInv, QueueInv',
         \/ Connect \/ ClearRx
         \/ \E c \in ChannelIds : \/ Disconnect(c)
                                  \/ \E n \in 1..MaxWant : BeginRead(c, n) \/ BeginWrite(c, n)
  PROVE  Promise!Next \/ UNCHANGED Promise!vars
  <1>0. ~Reading /\ ReadingNow = NoChannel
    BY DEF Connect, ClearRx, Disconnect, BeginRead, BeginWrite, Reading, NoCall, ReadingNow
  <1>1. CASE Connect
    <2>1. /\ UNCHANGED <<wire, arrived, inbox, call, got>>
          /\ channels' = channels \cup {nextChannel} /\ nextChannel' = nextChannel + 1
          /\ nextChannel \in ChannelIds
      BY <1>1, ChannelBounds DEF Connect, readVars, QueueInv, ReadInv, TypeOK, ChannelIds
    <2>2. Seen' = Seen /\ Queues' = Queues /\ ReadingNow' = ReadingNow
      BY <1>0, <2>1, SameSeen, SameQueues DEF Reading
    <2>3. /\ nextChannel \notin 1..(nextChannel - 1)
          /\ 1..(nextChannel' - 1) = (1..(nextChannel - 1)) \cup {nextChannel}
      BY <2>1 DEF ChannelIds
    <2>4. Promise!Connect(nextChannel)
      BY <1>0, <2>1, <2>2, <2>3, SameSelections
         DEF Promise!Connect, Seen, Queues, QueueOf, ReadingNow
    <2> QED BY <2>1, <2>4, SameSelections DEF Promise!Next
  <1>2. ASSUME NEW c \in ChannelIds, Disconnect(c)
        PROVE  Promise!Next
    <2>1. /\ UNCHANGED <<wire, arrived, inbox, call, got, nextChannel>>
          /\ c \in channels /\ channels' = channels \ {c}
      BY <1>2 DEF Disconnect, readVars
    <2>2. Seen' = Seen /\ Queues' = Queues /\ ReadingNow' = ReadingNow
      BY <1>0, <2>1, SameSeen, SameQueues DEF Reading
    <2>3. Promise!Disconnect(c)
      BY <1>0, <2>1, <2>2, SameSelections
         DEF Promise!Disconnect, Seen, Queues, QueueOf, ReadingNow
    <2> QED BY <2>3, SameSelections DEF Promise!Next
  <1>3. ASSUME NEW c \in ChannelIds, NEW n \in 1..MaxWant, BeginRead(c, n)
        PROVE  Promise!Next
    <2>1. /\ UNCHANGED <<wire, arrived, inbox, got, nextChannel, channels>>
          /\ c \in channels /\ Reading' /\ call'.channel = c /\ call'.out = <<>>
      BY <1>3 DEF BeginRead, readVars, channelVars, Reading
    <2>2. Seen' = Seen /\ ReadingNow' = c
      BY <2>1, SameSeen DEF ReadingNow
    <2>3. ASSUME NEW d \in ChannelIds PROVE QueueOf(d)' = QueueOf(d)
      <3>1. Of(d, inbox)' = Of(d, inbox)
        BY <2>1 DEF Of
      <3>2. QueueOf(d) = <<>> \o Of(d, inbox)
        BY <1>0 DEF QueueOf
      <3> QED BY <2>1, <3>1, <3>2 DEF QueueOf
    <2>4. Queues' = Queues
      BY <2>3 DEF Queues
    <2>5. Promise!BeginRead(c)
      BY <1>0, <2>1, <2>2, <2>4, SameSelections
         DEF Promise!BeginRead, Seen, Queues, QueueOf, ReadingNow
    <2> QED BY <2>5, SameSelections DEF Promise!Next
  <1>4. ASSUME NEW c \in ChannelIds, NEW n \in 1..MaxWant, BeginWrite(c, n)
        PROVE  UNCHANGED Promise!vars
    <2>1. /\ UNCHANGED <<wire, arrived, inbox, got, nextChannel, channels>> /\ ~Reading'
      BY <1>4 DEF BeginWrite, readVars, channelVars, Reading
    <2> QED BY <1>0, <2>1, SameSeen, SameQueues, StutterRefines
  <1>5. CASE ClearRx
    <2>1. /\ inbox' = <<>> /\ channels # {} /\ ~Reading'
          /\ UNCHANGED <<arrived, call, got, nextChannel, channels>>
      BY <1>0, <1>5 DEF ClearRx, channelVars, Reading
    <2>2. PICK n \in 0..Len(wire) : wire' = Drop(wire, n)
      BY <1>5, SeenIs DEF ClearRx
    <2>3. Seen' \in Seen..MaxFrames
      <3>1. Len(wire') = Len(wire) - n
        BY <2>1, <2>2, WireDropped
      <3>2. Seen' = arrived' - Len(wire')
        <4>1. QueueInv'
          OBVIOUS
        <4>2. SeenIsWhatArrived'
          BY <4>1, SeenValue, PTL
        <4> QED BY <4>2 DEF SeenIsWhatArrived
      <3> QED BY <2>1, <3>1, <3>2, SeenIs, ChannelBounds
    <2>4. ASSUME NEW c \in ChannelIds
          PROVE  /\ Queues'[c] = <<>> /\ Queues[c] \in Seq(1..MaxFrames)
      <3>1. Of(c, inbox)' = <<>>
        BY <2>1, OfEmpty DEF Of
      <3>2. QueueOf(c)' = <<>> \o <<>>
        BY <2>1, <3>1 DEF QueueOf
      <3> QED BY <3>2, QueueTypes, ConcatEmptySeq, EmptySeq DEF Queues
    <2>5. ASSUME NEW c \in ChannelIds
          PROVE  \E m \in 0..Len(Queues[c]) : Queues'[c] = Promise!Drop(Queues[c], m)
      <3> DEFINE m == Len(Queues[c])
      <3>1. m \in 0..Len(Queues[c]) /\ Promise!Drop(Queues[c], m) = <<>>
        BY <2>4, TakenApart, SameSelections
      <3> QED BY <2>4, <3>1
    <2>6. ReadingNow' = NoChannel /\ DOMAIN Queues' = ChannelIds
      BY <2>1 DEF ReadingNow, Queues
    <2>7. Promise!Clear
      BY <1>0, <2>1, <2>3, <2>5, <2>6, SameSelections
         DEF Promise!Clear, Seen, Queues, QueueOf, ReadingNow
    <2> QED BY <2>7 DEF Promise!Next
  <1> QED BY <1>1, <1>2, <1>3, <1>4, <1>5

\* Frames the transport reads are received, in order, by the channels they are
\* addressed to; those an exchange of the session swallows, by none.
LEMMA ReceiveRefines ==
  ASSUME QueueInv, QueueInv', Chunk \/ Swallow
  PROVE  Promise!Next
  <1>0. PICK n \in 1..Len(wire) : /\ wire' = Drop(wire, n)
                                  /\ Chunk => inbox' = SubSeq(wire, 1, n)
    BY DEF Chunk, Swallow
  <1>1. /\ UNCHANGED <<arrived, call, got, nextChannel, channels>>
        /\ IF Chunk THEN Reading /\ inbox = <<>> ELSE inbox' = inbox
    BY DEF Chunk, Swallow, Waits, InTransport, channelVars
  <1>2. /\ Seen \in Nat /\ n \in Nat /\ n >= 1 /\ Seen + n \in 0..MaxFrames
        /\ Seen' = Seen + n /\ (Seen + n) - Seen = n /\ Seen + n > Seen
    <2>1. Len(wire') = Len(wire) - n
      BY <1>0, <1>1, WireDropped
    <2>2. Seen' = arrived' - Len(wire')
      <3>1. QueueInv'
        OBVIOUS
      <3>2. SeenIsWhatArrived'
        BY <3>1, SeenValue, PTL
      <3> QED BY <3>2 DEF SeenIsWhatArrived
    <2> QED BY <1>0, <1>1, <2>1, <2>2, SeenIs, ChannelBounds
  <1>3. ReadingNow' = ReadingNow
    BY <1>1 DEF ReadingNow, Reading
  <1>4. PICK m \in 0..MaxFrames : m = Seen + n
    BY <1>2
  <1> DEFINE numbers == [i \in 1..n |-> Seen + i]
             to == [f \in (Seen + 1)..m |->
                      IF Chunk THEN wire[f - Seen].channel ELSE NoChannel]
             mine(c) == {i \in 1..n : to[Seen + i] = c}
  <1>5. /\ wire \in Seq(Frames) /\ \A i \in 1..n : i \in 1..Len(wire) /\ wire[i] \in Frames
        /\ \A i \in 1..n : wire[i].number = Seen + i /\ wire[i].channel \in 1..(nextChannel - 1)
    <2>0. wire \in Seq(Frames) /\ Len(wire) \in Nat /\ nextChannel \in Nat
      BY SeenIs DEF QueueInv, ReadInv, TypeOK
    <2>1. ASSUME NEW i \in 1..n
          PROVE  i \in 1..Len(wire) /\ wire[i] \in Frames
      BY <2>0, ElementOfSeq
    <2>2. ASSUME NEW i \in 1..n
          PROVE  /\ wire[i].number = Seen + i
                 /\ wire[i].channel \in 1..(nextChannel - 1)
      <3>1. /\ wire[i].number = arrived - Len(wire) + i /\ wire[i].channel < nextChannel
            /\ wire[i].channel \in Nat /\ wire[i].channel >= 1
        BY <2>1 DEF QueueInv, WireIsNumbered, Frames, ChannelIds
      <3> QED BY <2>0, <3>1, SeenIs
    <2> QED BY <2>0, <2>1, <2>2
  <1>6. /\ numbers \in Seq(Nat) /\ Len(numbers) = n
        /\ \A i \in 1..n : numbers[i] = Seen + i
        /\ \A i \in 1..n : to[Seen + i] = IF Chunk THEN wire[i].channel ELSE NoChannel
        /\ to \in [(Seen + 1)..m -> (1..(nextChannel - 1)) \cup {NoChannel}]
    <2>1. numbers \in Seq(Nat) /\ Len(numbers) = n
      BY <1>2
    <2>2. \A i \in 1..n : numbers[i] = Seen + i
      OBVIOUS
    <2>3. ASSUME NEW i \in 1..n
          PROVE  to[Seen + i] = IF Chunk THEN wire[i].channel ELSE NoChannel
      <3> DEFINE f == Seen + i
      <3>1. f \in (Seen + 1)..m /\ f - Seen = i
        BY <1>2, <1>4
      <3> HIDE DEF f
      <3>2. to[f] = IF Chunk THEN wire[i].channel ELSE NoChannel
        BY <3>1
      <3> HIDE DEF to
      <3> QED BY <3>2 DEF f
    <2>4. to \in [(Seen + 1)..m -> (1..(nextChannel - 1)) \cup {NoChannel}]
      <3>1. ASSUME NEW f \in (Seen + 1)..m
            PROVE  (IF Chunk THEN wire[f - Seen].channel ELSE NoChannel)
                     \in (1..(nextChannel - 1)) \cup {NoChannel}
        <4>1. f - Seen \in 1..n
          BY <1>2, <1>4
        <4> QED BY <1>5, <4>1
      <3> QED BY <3>1
    <2> HIDE DEF to, numbers
    <2> QED BY <2>1, <2>2, <2>3, <2>4
  <1> HIDE DEF numbers, to
  <1>7. ASSUME NEW c \in ChannelIds
        PROVE  QueueOf(c)' = QueueOf(c) \o Picked(numbers, mine(c))
    <2> DEFINE out == IF Reading /\ call.channel = c THEN call.out ELSE <<>>
               I == mine(c)
    <2>0. out \in Seq(1..MaxFrames) /\ QueueOf(c) = out \o Of(c, inbox)
      BY SeenIs, EmptySeq DEF QueueOf
    <2>1. CASE Chunk
      <3> DEFINE s == SubSeq(wire, 1, n)
                 t == [i \in 1..Len(s) |-> s[i].number]
                 J == {i \in 1..Len(s) : s[i].channel = c}
      <3>1. /\ s \in Seq(Frames) /\ Len(s) = n /\ \A i \in 1..n : s[i] = wire[i]
        <4>1. \A i \in 1..n : wire[i] \in Frames
          BY <1>5
        <4> QED BY <1>2, <4>1, SubSeqProperties
      <3> HIDE DEF s
      <3>2. t \in Seq(Nat) /\ Len(t) = n /\ \A i \in 1..n : t[i] = Seen + i
        <4>1. \A i \in 1..n : s[i].number = Seen + i
          BY <1>5, <3>1
        <4> QED BY <1>2, <3>1, <4>1
      <3>3. \A i \in 1..Len(t) : t[i] = numbers[i] /\ (i \in J <=> i \in I)
        <4>1. \A i \in 1..n : i \in J <=> wire[i].channel = c
          BY <3>1
        <4>2. \A i \in 1..n : i \in I <=> wire[i].channel = c
          BY <1>6, <2>1
        <4> HIDE DEF t, I, J
        <4> QED BY <1>6, <3>2, <4>1, <4>2
      <3> HIDE DEF t, I, J
      <3>4. Picked(t, J) = Picked(numbers, I)
        BY <1>6, <3>2, <3>3, PickedEqual
      <3>5. Of(c, inbox)' = Picked(numbers, I)
        BY <1>0, <2>1, <3>4 DEF Of, s, t, J
      <3>6. Of(c, inbox) = <<>>
        BY <1>1, <2>1, OfEmpty
      <3>7. QueueOf(c)' = out \o Picked(numbers, I)
        BY <1>1, <3>5 DEF QueueOf, Reading
      <3>8. QueueOf(c) = out
        <4> HIDE DEF out
        <4> QED BY <2>0, <3>6, ConcatEmptySeq
      <3> QED BY <3>7, <3>8 DEF I
    <2>2. CASE ~Chunk
      <3>1. ASSUME NEW i \in 1..Len(numbers) PROVE i \notin I
        BY <1>6, <2>2, <3>1, SameSelections
      <3> HIDE DEF I
      <3>2. Picked(numbers, I) = <<>>
        BY <1>6, <3>1, PickedNone
      <3>3. QueueOf(c)' = QueueOf(c)
        <4>1. Of(c, inbox)' = Of(c, inbox)
          BY <1>1, <2>2 DEF Of
        <4> QED BY <1>1, <4>1 DEF QueueOf, Reading
      <3> QED BY <3>2, <3>3, QueueTypes, ConcatEmptySeq DEF I
    <2> QED BY <2>1, <2>2
  <1>8. Queues' = [c \in ChannelIds |-> Queues[c] \o Picked(numbers, mine(c))]
    BY <1>7 DEF Queues
  <1>9. Queues' = [c \in Promise!ChannelIds |->
                     Queues[c] \o Promise!Picked([i \in 1..(m - Seen) |-> Seen + i],
                                                 {i \in 1..(m - Seen) : to[Seen + i] = c})]
    <2>1. m - Seen = n
      BY <1>2, <1>4
    <2> QED BY <1>8, <2>1, SameSelections DEF numbers
  <1>10. Promise!Receive(m)
    <2>1. to \in [(Seen + 1)..m -> (1..(nextChannel - 1)) \cup {Promise!NoChannel}]
      BY <1>6, SameSelections
    <2>2. m > Seen /\ Seen' = m
      BY <1>2, <1>4
    <2> QED BY <1>1, <1>3, <1>9, <2>1, <2>2
            DEF Promise!Receive, Seen, Queues, QueueOf, ReadingNow
  <1> QED BY <1>10 DEF Promise!Next

\* A read that comes across a frame: one of another channel is lost to it, one
\* of its own goes to the end of what it holds, which is the front of the queue.
LEMMA FrameRefines ==
  ASSUME QueueInv, Skip \/ Take
  PROVE  Promise!Next \/ UNCHANGED Promise!vars
  <1> DEFINE rest == Tail(inbox)
  <1>1. /\ Reading /\ inbox # <<>> /\ inbox' = rest
        /\ UNCHANGED <<wire, arrived, got, nextChannel, channels>>
    BY DEF Skip, Take, InTransport, channelVars
  <1>2. /\ inbox \in Seq(Frames) /\ call.out \in Seq(1..MaxFrames)
        /\ call \in Reads /\ call.channel \in ChannelIds
    BY <1>1, SeenIs, CallKinds DEF QueueInv, ReadInv, Reads
  <1>3. Head(inbox) \in Frames /\ rest \in Seq(Frames)
    BY <1>1, <1>2
  <1>4. PICK c \in ChannelIds : c = Head(inbox).channel
    BY <1>3 DEF Frames
  <1>5. PICK next \in 1..MaxFrames : next = Head(inbox).number
    BY <1>3 DEF Frames
  <1>6. c \in ChannelIds /\ next \in 1..MaxFrames /\ rest \in Seq(Frames)
    BY <1>3
  <1>7. Seen' = Seen
    BY <1>1, SameSeen
  <1>8. ASSUME NEW d \in ChannelIds
        PROVE  /\ Of(d, rest) \in Seq(1..MaxFrames)
               /\ Of(d, inbox)' = Of(d, rest)
               /\ Of(d, inbox) = (IF c = d THEN <<next>> ELSE <<>>) \o Of(d, rest)
    <2>1. Of(d, inbox) = (IF c = d THEN <<next>> ELSE <<>>) \o Of(d, rest)
      BY <1>1, <1>2, <1>4, <1>5, OfHead
    <2> QED BY <1>1, <1>6, <2>1, OfType DEF Of
  <1>9. CASE Skip
    <2>1. /\ c # call.channel /\ Reading' /\ call'.channel = call.channel
          /\ call'.out = call.out
      BY <1>1, <1>2, <1>9, <1>4 DEF Skip, Reading, Reads
    <2>2. ReadingNow' = ReadingNow /\ ReadingNow \notin {NoChannel, c}
      BY <1>1, <1>2, <2>1, SameSelections DEF ReadingNow
    <2>3. Queues[c] # <<>> /\ Queues'[c] = Tail(Queues[c])
      <3> HIDE DEF rest
      <3>1. /\ Of(c, inbox) = <<next>> \o Of(c, rest) /\ Of(c, rest) \in Seq(1..MaxFrames)
            /\ Queues[c] = Of(c, inbox)
        BY <1>6, <1>8, <2>1, QueueTypes
      <3>2. QueueOf(c)' = <<>> \o Of(c, rest)
        BY <1>6, <1>8, <2>1 DEF QueueOf
      <3>3. Queues'[c] = Of(c, rest)
        BY <1>6, <3>1, <3>2, ConcatEmptySeq DEF Queues
      <3>4. <<next>> \o Of(c, rest) # <<>> /\ Tail(<<next>> \o Of(c, rest)) = Of(c, rest)
        <4> DEFINE t == Of(c, rest)
                   u == <<next>> \o t
        <4> HIDE DEF t
        <4>1. /\ u \in Seq(1..MaxFrames) /\ Len(u) = Len(t) + 1 /\ Len(t) \in Nat
              /\ \A i \in 1..Len(t) : u[i + 1] = t[i]
          BY <1>6, <3>1 DEF t
        <4> HIDE DEF u
        <4>2. u # <<>> /\ Tail(u) \in Seq(1..MaxFrames) /\ Len(Tail(u)) = Len(t)
              /\ \A i \in 1..Len(t) : Tail(u)[i] = u[i + 1]
          BY <4>1
        <4>3. Tail(u) = t
          BY <3>1, <4>1, <4>2, SeqEqual DEF t
        <4> QED BY <4>2, <4>3 DEF t, u
      <3> QED BY <3>1, <3>3, <3>4
    <2>4. ASSUME NEW d \in ChannelIds, d # c PROVE QueueOf(d)' = QueueOf(d)
      <3>1. Of(d, inbox)' = Of(d, inbox)
        BY <1>8, <2>4, ConcatEmptySeq
      <3> QED BY <2>1, <1>1, <3>1 DEF QueueOf
    <2>5. Queues' = [Queues EXCEPT ![c] = Tail(@)]
      <3>1. \A d \in ChannelIds : d # c => Queues'[d] = Queues[d]
        BY <2>4 DEF Queues
      <3>2. DOMAIN Queues = ChannelIds /\ DOMAIN Queues' = ChannelIds
            /\ Queues = [d \in ChannelIds |-> Queues[d]]
            /\ Queues' = [d \in ChannelIds |-> Queues'[d]]
        BY DEF Queues
      <3> QED BY <1>6, <2>3, <3>1, <3>2
    <2>6. Promise!Overlook(c)
      BY <1>1, <1>7, <2>2, <2>3, <2>5, SameSelections
         DEF Promise!Overlook, Seen, Queues, QueueOf, ReadingNow
    <2> QED BY <2>6, SameSelections DEF Promise!Next
  <1>10. CASE Take
    <2>1. /\ c = call.channel /\ Reading' /\ call'.channel = call.channel
          /\ call'.out = Append(call.out, next)
      BY <1>1, <1>2, <1>10, <1>4, <1>5 DEF Take, Reading, Reads
    <2>2. ReadingNow' = ReadingNow
      BY <1>1, <2>1 DEF ReadingNow
    <2> HIDE DEF rest
    <2>3. ASSUME NEW d \in ChannelIds PROVE QueueOf(d)' = QueueOf(d)
      <3>1. CASE d = c
        <4> DEFINE t == Of(c, rest)
                   u == <<next>>
        <4>1. QueueOf(d)' = Append(call.out, next) \o t
          BY <1>8, <2>1, <3>1 DEF QueueOf
        <4>2. QueueOf(d) = call.out \o (u \o t)
          BY <1>1, <1>6, <1>8, <2>1, <3>1 DEF QueueOf
        <4>3. u \in Seq(1..MaxFrames) /\ t \in Seq(1..MaxFrames)
          BY <1>6, <1>8
        <4>4. Append(call.out, next) = call.out \o u
          BY <1>2, <1>6, AppendIsConcat
        <4>5. (call.out \o u) \o t = call.out \o (u \o t)
          <5> DEFINE v == call.out
          <5>1. v \in Seq(1..MaxFrames)
            BY <1>2
          <5> HIDE DEF t, u, v
          <5>2. (v \o u) \o t = v \o (u \o t)
            BY <4>3, <5>1, ConcatAssociative
          <5> QED BY <5>2 DEF v
        <4> QED BY <4>1, <4>2, <4>4, <4>5
      <3>2. CASE d # c
        <4>1. Of(d, inbox)' = Of(d, inbox)
          BY <1>8, <3>2, ConcatEmptySeq
        <4> QED BY <1>1, <2>1, <3>2, <4>1 DEF QueueOf
      <3> QED BY <3>1, <3>2
    <2>4. Queues' = Queues
      BY <2>3 DEF Queues
    <2> QED BY <1>1, <1>7, <2>2, <2>4, StutterRefines
  <1> QED BY <1>9, <1>10

\* A read that returns hands out all it holds, also when it fails.
LEMMA ReturnRefines ==
  ASSUME QueueInv, TimesOut \/ EmptyTransfer \/ ReadFails \/ ReadIsFull
  PROVE  Promise!Next
  <1>1. /\ Reading /\ call' = NoCall
        /\ UNCHANGED <<wire, arrived, inbox, nextChannel, channels>>
        /\ got' = [got EXCEPT ![call.channel] = @ \o SubSeq(call.out, 1, Len(call.out))]
    BY DEF TimesOut, EmptyTransfer, ReadFails, ReadIsFull, ReturnsWhatThereIs,
           ReturnsFromRead, channelVars, Waits, InTransport
  <1>2. /\ call.channel \in ChannelIds /\ call.out \in Seq(1..MaxFrames)
        /\ Len(call.out) \in 0..MaxFrames
    <2>1. call.channel \in ChannelIds /\ call.out \in Seq(1..MaxFrames)
      BY <1>1, SeenIs, CallKinds DEF QueueInv, ReadInv, Reads
    <2>2. /\ Held = Len(call.out) /\ Held + Len(inbox) + Len(wire) <= arrived
          /\ Held \in Nat /\ Len(inbox) \in Nat /\ Len(wire) \in Nat
          /\ arrived \in Nat /\ arrived <= MaxFrames
      BY <1>1, SeenIs DEF QueueInv, WireIsNumbered
    <2>3. Held \in 0..MaxFrames
      BY <2>2, ChannelBounds
    <2> QED BY <2>1, <2>2, <2>3
  <1>3. ~Reading' /\ ReadingNow' = NoChannel /\ ReadingNow = call.channel
    BY <1>1 DEF Reading, NoCall, ReadingNow
  <1>4. Seen' = Seen
    BY <1>1, SameSeen
  <1>5. PICK c \in ChannelIds : c = call.channel
    BY <1>2
  <1>6. PICK n \in 0..MaxFrames : n = Len(call.out)
    BY <1>2
  <1>7. /\ Queues[c] = call.out \o Of(c, inbox) /\ Of(c, inbox) \in Seq(1..MaxFrames)
        /\ QueueOf(c)' = <<>> \o Of(c, inbox)
    <2>1. QueueOf(c) = call.out \o Of(c, inbox)
      BY <1>1, <1>5 DEF QueueOf
    <2>2. Of(c, inbox)' = Of(c, inbox)
      BY <1>1 DEF Of
    <2>3. QueueOf(c)' = <<>> \o Of(c, inbox)
      BY <1>3, <2>2 DEF QueueOf
    <2> QED BY <2>1, <2>3, QueueTypes
  <1>8. /\ n <= Len(Queues[c]) /\ SubSeq(Queues[c], 1, n) = call.out
        /\ Queues'[c] = Promise!Drop(Queues[c], n)
    <2> DEFINE t == Of(c, inbox)
    <2>1. t \in Seq(1..MaxFrames) /\ Queues[c] = call.out \o t /\ QueueOf(c)' = <<>> \o t
      BY <1>7
    <2> HIDE DEF t
    <2>2. /\ SubSeq(call.out \o t, 1, n) = call.out /\ Drop(call.out \o t, n) = t
          /\ n \in 0..Len(call.out \o t) /\ <<>> \o t = t
      BY <1>2, <1>6, <2>1, TakenApart
    <2>3. Queues'[c] = t
      BY <2>1, <2>2 DEF Queues
    <2> QED BY <2>1, <2>2, <2>3, SameSelections
  <1>9. \A d \in ChannelIds : d # c => Queues'[d] = Queues[d]
    <2> SUFFICES ASSUME NEW d \in ChannelIds, d # c PROVE QueueOf(d)' = QueueOf(d)
      BY DEF Queues
    <2>1. Of(d, inbox)' = Of(d, inbox)
      BY <1>1 DEF Of
    <2> QED BY <1>3, <1>5, <2>1 DEF QueueOf
  <1>10. Queues' = [Queues EXCEPT ![c] = Promise!Drop(@, n)]
    <2>1. /\ Queues = [d \in ChannelIds |-> Queues[d]]
          /\ Queues' = [d \in ChannelIds |-> Queues'[d]]
      BY DEF Queues
    <2> QED BY <1>8, <1>9, <2>1
  <1>11. got' = [got EXCEPT ![c] = @ \o SubSeq(Queues[c], 1, n)]
    <2>1. SubSeq(call.out, 1, Len(call.out)) = call.out
      BY <1>2, TakenApart, EmptySeq
    <2> QED BY <1>1, <1>5, <1>8, <2>1
  <1>12. Promise!EndRead(n)
    <2>1. ReadingNow = c /\ ReadingNow # NoChannel
      BY <1>3, <1>5, SameSelections
    <2>2. /\ n <= Len(Queues[ReadingNow])
          /\ got' = [got EXCEPT ![ReadingNow] = @ \o SubSeq(Queues[ReadingNow], 1, n)]
          /\ Queues' = [Queues EXCEPT ![ReadingNow] = Promise!Drop(@, n)]
      BY <1>8, <1>10, <1>11, <2>1
    <2> QED BY <1>1, <1>3, <1>4, <2>1, <2>2, SameSelections
            DEF Promise!EndRead, Seen, Queues, QueueOf, ReadingNow
  <1> QED BY <1>12 DEF Promise!Next

\* What the queues do not show: the rounds of a read, its deadline, writes, and
\* what the device sends.
LEMMA UnseenRefines ==
  ASSUME QueueInv,
         \/ Deadline \/ NextRound \/ Refuse \/ Send \/ SendFails \/ WriteIsDone
         \/ UNCHANGED vars
         \/ \E c \in ChannelIds : DeviceSends(c)
  PROVE  UNCHANGED Promise!vars
  <1>1. CASE \E c \in ChannelIds : DeviceSends(c)
    <2>1. PICK c \in ChannelIds : DeviceSends(c)
      BY <1>1
    <2>2. /\ wire' = Append(wire, [channel |-> c, number |-> arrived + 1])
          /\ UNCHANGED <<inbox, call, got, nextChannel, channels>>
      BY <2>1 DEF DeviceSends, channelVars
    <2>3. wire \in Seq(Frames) /\ Len(wire) \in Nat /\ arrived \in Nat
      BY SeenIs
    <2>4. Seen' = Seen
      <3>1. wire' # <<>> /\ Head(wire') = IF wire = <<>> THEN [channel |-> c, number |-> arrived + 1]
                                         ELSE Head(wire)
        BY <2>2, <2>3
      <3> QED BY <2>3, <3>1 DEF Seen
    <2>5. Reading' = Reading
      BY <2>2 DEF Reading
    <2> QED BY <2>2, <2>4, <2>5, SameQueues, StutterRefines
  <1>2. CASE Deadline \/ NextRound
    <2>1. /\ Reading /\ call \in Reads
          /\ UNCHANGED <<wire, arrived, inbox, got, nextChannel, channels>>
      BY <1>2, CallKinds DEF Deadline, NextRound, readVars, channelVars, QueueInv, ReadInv
    <2>2. Reading' /\ call'.channel = call.channel /\ call'.out = call.out
      BY <1>2, <2>1 DEF Deadline, NextRound, Reads, Reading
    <2> QED BY <2>1, <2>2, SameSeen, SameQueues, StutterRefines
  <1>3. CASE Refuse \/ Send \/ SendFails \/ WriteIsDone
    <2>1. /\ Writing /\ ~Reading
          /\ UNCHANGED <<wire, arrived, inbox, got, nextChannel, channels>>
      BY <1>3 DEF Refuse, Send, SendFails, WriteIsDone, InLoop, channelVars, readVars, Writing,
                  Reading
    <2>2. ~Reading'
      <3>1. call \in Writes
        BY <2>1, CallKinds DEF QueueInv, ReadInv
      <3> QED BY <1>3, <3>1 DEF Refuse, Send, SendFails, WriteIsDone, ReturnsFromWrite,
                                 NoCall, Writes, Reading
    <2> QED BY <2>1, <2>2, SameSeen, SameQueues, StutterRefines
  <1>4. CASE UNCHANGED vars
    <2>1. UNCHANGED <<wire, arrived, inbox, call, got, nextChannel, channels>>
      BY <1>4 DEF vars, readVars, channelVars
    <2>2. Reading' = Reading
      BY <2>1 DEF Reading
    <2> QED BY <2>1, <2>2, SameSeen, SameQueues, StutterRefines
  <1> QED BY <1>1, <1>2, <1>3, <1>4

\* Driver::read over a transport all channels share is a set of queues, for any
\* channels, frames and calls: a frame received is handed out at most once, in
\* order, to its own channel; only a read of another channel or a clear loses it.
THEOREM QueuesRefined == Spec => ImplementsChannelQueues
  <1>1. QueueInv /\ QueueInv' /\ [Next]_vars => Promise!Next \/ UNCHANGED Promise!vars
    <2> SUFFICES ASSUME QueueInv, QueueInv', [Next]_vars
                 PROVE  Promise!Next \/ UNCHANGED Promise!vars
      OBVIOUS
    <2>1. CASE Chunk \/ Swallow
      BY <2>1, ReceiveRefines
    <2>2. CASE Skip \/ Take
      BY <2>2, FrameRefines
    <2>3. CASE TimesOut \/ EmptyTransfer \/ ReadFails \/ ReadIsFull
      BY <2>3, ReturnRefines
    <2>4. CASE \/ Connect \/ ClearRx
               \/ \E c \in ChannelIds : \/ Disconnect(c)
                                        \/ \E n \in 1..MaxWant : BeginRead(c, n) \/ BeginWrite(c, n)
      BY <2>4, IdleRefines
    <2>5. CASE \/ Deadline \/ NextRound \/ Refuse \/ Send \/ SendFails \/ WriteIsDone
               \/ UNCHANGED vars
               \/ \E c \in ChannelIds : DeviceSends(c)
      BY <2>5, UnseenRefines
    <2> QED BY <2>1, <2>2, <2>3, <2>4, <2>5 DEF Next, Step
  <1> QED BY <1>1, QueuesInit, WireInit, WireNext, PTL
          DEF Spec, ImplementsChannelQueues, Promise!Spec

============================================================================
