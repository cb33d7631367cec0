------------------------------ MODULE ChannelIO ------------------------------
(***************************************************************************)
(* The message loops of mvci::Driver: read and write for the channels of   *)
(* one open device, which share one transport.  A call holds the registry  *)
(* mutex from its start to its return, so there is one at a time; the      *)
(* device sends while it runs.  Calls that are refused before they reach   *)
(* the loops are in Registry.                                              *)
(*                                                                         *)
(* A frame is the channel it is addressed to and its number; a message to  *)
(* be written is its number.  Whole frames are read from the transport     *)
(* (see FrameResync), so decoding one does not fail.                       *)
(***************************************************************************)
EXTENDS J2534, FiniteSets, Selections

CONSTANTS
  Transports,    \* the kinds of transport: "serial", "usb"
  MaxChannels,   \* bound on the channels connected in a run
  MaxFrames,     \* bound on the frames the device sends
  MaxWant,       \* bound on the messages asked for in one call
  MaxMsgs,       \* number of messages the application has to write
  Oversized,     \* those of them with dataSize > sizeof(data)
  MaxFailures    \* bound on the writes that fail

ASSUME ChannelBounds ==
  /\ MaxChannels \in Nat /\ MaxFrames \in Nat /\ MaxWant \in Nat
  /\ MaxMsgs \in Nat /\ MaxFailures \in Nat

ChannelIds == 1..MaxChannels
NoChannel == 0

VARIABLES
  transport,     \* transport_, its kind
  channels,      \* channels_, its keys
  nextChannel,   \* nextChannel_
  wire,          \* frames the device has sent and the transport not read
  inbox,         \* whole frames in rxBuffer_
  arrived,       \* number of frames sent by the device
  call,          \* the call that runs, its arguments and locals
  ret,           \* what the last call returned
  got,           \* channel -> frames the application was handed
  written,       \* messages the application is done with
  sent,          \* messages the device received
  failures       \* writes that failed

channelVars == <<transport, channels, nextChannel>>
readVars == <<wire, inbox, arrived, got>>
writeVars == <<written, sent, failures>>
vars == <<channelVars, readVars, writeVars, call, ret>>

NoCall == [op |-> "none"]
Returned(s, n) == [status |-> s, num |-> n]

Init ==
  /\ transport \in Transports
  /\ channels = {} /\ nextChannel = 1
  /\ wire = <<>> /\ inbox = <<>> /\ arrived = 0
  /\ call = NoCall /\ ret = Returned(STATUS_NOERROR, 0)
  /\ got = [c \in ChannelIds |-> <<>>]
  /\ written = 0 /\ sent = <<>> /\ failures = 0

Drop(s, n) == SubSeq(s, n + 1, Len(s))

----------------------------------------------------------------------------
(* Channels, and what the device does.                                     *)

Connect ==
  /\ call = NoCall
  /\ nextChannel <= MaxChannels
  /\ channels' = channels \cup {nextChannel}
  /\ nextChannel' = nextChannel + 1
  /\ UNCHANGED <<transport, readVars, writeVars, call, ret>>

Disconnect(c) ==
  /\ call = NoCall
  /\ c \in channels
  /\ channels' = channels \ {c}
  /\ UNCHANGED <<transport, nextChannel, readVars, writeVars, call, ret>>

\* IOCTL_CLEAR_RX_BUFFER on any channel clears what the transport holds for
\* all of them, and has the port flushed: all of it over a serial node, over
\* USB up to the first transfer that comes back short or times out.
ClearRx ==
  /\ call = NoCall
  /\ channels # {}
  /\ inbox' = <<>>
  /\ \E n \in IF transport = "serial" THEN {Len(wire)} ELSE 0..Len(wire) :
       wire' = Drop(wire, n)
  /\ UNCHANGED <<channelVars, arrived, got, writeVars, call, ret>>

\* The device learns of a channel from the packets written on it, and of
\* nothing that is disconnected.
DeviceSends(c) ==
  /\ c < nextChannel
  /\ arrived < MaxFrames
  /\ arrived' = arrived + 1
  /\ wire' = Append(wire, [channel |-> c, number |-> arrived'])
  /\ UNCHANGED <<channelVars, inbox, got, writeVars, call, ret>>

----------------------------------------------------------------------------
(* read.                                                                   *)

Reading == call.op = "read"

\* remaining is the timeout of the transport's read, once it is computed;
\* a call with timeout 0 begins with its deadline passed.
BeginRead(c, n) ==
  /\ call = NoCall
  /\ c \in channels
  /\ \E passed \in BOOLEAN :
       call' = [op |-> "read", channel |-> c, want |-> n, out |-> <<>>,
                remaining |-> "unset", expired |-> passed]
  /\ ret' = Returned(STATUS_NOERROR, 0)
  /\ UNCHANGED <<channelVars, readVars, writeVars>>

Deadline ==
  /\ Reading /\ ~call.expired
  /\ call' = [call EXCEPT !.expired = TRUE]
  /\ UNCHANGED <<channelVars, readVars, writeVars, ret>>

ReturnsFromRead(s, n) ==
  /\ ret' = Returned(s, n)
  /\ got' = [got EXCEPT ![call.channel] = @ \o SubSeq(call.out, 1, n)]
  /\ call' = NoCall

\* Mutant: the loop runs once too often, past the end of msgs.
NextRoundInclusive ==
  /\ Reading /\ call.remaining = "unset" /\ Len(call.out) <= call.want
  /\ \E r \in IF call.expired THEN {"zero"} ELSE {"some", "zero"} :
       call' = [call EXCEPT !.remaining = r]
  /\ UNCHANGED <<channelVars, readVars, writeVars, ret>>

\* One round of the loop: less than a millisecond left is zero milliseconds.
NextRound ==
  /\ Reading /\ call.remaining = "unset" /\ Len(call.out) < call.want
  /\ \E r \in IF call.expired THEN {"zero"} ELSE {"some", "zero"} :
       call' = [call EXCEPT !.remaining = r]
  /\ UNCHANGED <<channelVars, readVars, writeVars, ret>>

InTransport == Reading /\ call.remaining # "unset"

\* A frame of another channel is dropped.
Skip ==
  /\ InTransport /\ inbox # <<>>
  /\ Head(inbox).channel # call.channel
  /\ inbox' = Tail(inbox)
  /\ call' = [call EXCEPT !.remaining = "unset"]
  /\ UNCHANGED <<channelVars, wire, arrived, got, writeVars, ret>>

Take ==
  /\ InTransport /\ inbox # <<>>
  /\ Head(inbox).channel = call.channel
  /\ inbox' = Tail(inbox)
  /\ call' = [call EXCEPT !.remaining = "unset", !.out = Append(@, Head(inbox).number)]
  /\ UNCHANGED <<channelVars, wire, arrived, got, writeVars, ret>>

\* The serial transport returns at once when it has no time left; libusb
\* takes a timeout of zero to mean none.
Waits ==
  /\ InTransport /\ inbox = <<>>
  /\ transport = "serial" => call.remaining = "some" /\ ~call.expired

Chunk ==
  /\ Waits
  /\ \E n \in 1..Len(wire) :
       /\ inbox' = SubSeq(wire, 1, n)
       /\ wire' = Drop(wire, n)
  /\ UNCHANGED <<channelVars, arrived, got, writeVars, call, ret>>

\* waitForReply: an exchange of the serial session (a tickle, a keepalive, a
\* bootstrap) reads the port itself and discards what is no reply.
Swallow ==
  /\ transport = "serial" /\ call # NoCall
  /\ \E n \in 1..Len(wire) : wire' = Drop(wire, n)
  /\ UNCHANGED <<channelVars, inbox, arrived, got, writeVars, call, ret>>

ReturnsWhatThereIs ==
  /\ ReturnsFromRead(IF call.out = <<>> THEN ERR_TIMEOUT ELSE STATUS_NOERROR,
                     Len(call.out))
  /\ UNCHANGED <<channelVars, wire, inbox, arrived, writeVars>>

\* Mutant: zero milliseconds mean no timeout over the serial port either.
OutOfTimeUnlimited == call.expired /\ call.remaining = "some"

OutOfTime ==
  CASE transport = "serial" -> call.expired \/ call.remaining = "zero"
    [] transport = "usb"    -> call.expired /\ call.remaining = "some"

\* Mutant: the deadline is looked at before the buffer.
TimesOutFirst ==
  /\ InTransport /\ OutOfTime
  /\ ReturnsWhatThereIs

TimesOut ==
  /\ InTransport /\ inbox = <<>> /\ OutOfTime
  /\ ReturnsWhatThereIs

\* A transfer that completes with no bytes counts as one that timed out.
EmptyTransfer ==
  /\ Waits /\ transport = "usb"
  /\ ReturnsWhatThereIs

\* Mutant: the caller is told of the error and of no messages.
ReadFailsWithNone ==
  /\ Waits \/ (InTransport /\ transport = "serial")
  /\ ReturnsFromRead(ERR_FAILED, 0)
  /\ UNCHANGED <<channelVars, wire, inbox, arrived, writeVars>>

\* A closed serial descriptor is an error whatever is buffered.
ReadFails ==
  /\ Waits \/ (InTransport /\ transport = "serial")
  /\ ReturnsFromRead(ERR_FAILED, Len(call.out))
  /\ UNCHANGED <<channelVars, wire, inbox, arrived, writeVars>>

ReadIsFull ==
  /\ Reading /\ Len(call.out) = call.want
  /\ ReturnsWhatThereIs

----------------------------------------------------------------------------
(* write.  The application writes its messages in order, as many to a call *)
(* as it likes, goes on behind those a failed call reports as written, and *)
(* leaves out one that is refused as invalid.                              *)

Writing == call.op = "write"

BeginWrite(c, n) ==
  /\ call = NoCall
  /\ c \in channels
  /\ written + n <= MaxMsgs
  /\ call' = [op |-> "write", channel |-> c, want |-> n, index |-> 0]
  /\ ret' = Returned(STATUS_NOERROR, 0)
  /\ UNCHANGED <<channelVars, readVars, writeVars>>

Message == written + call.index + 1

ReturnsFromWrite(s, n) ==
  /\ ret' = Returned(s, n)
  /\ written' = written + n + (IF s = ERR_INVALID_MSG THEN 1 ELSE 0)
  /\ call' = NoCall

InLoop == Writing /\ call.index < call.want

Refuse ==
  /\ InLoop /\ Message \in Oversized
  /\ ReturnsFromWrite(ERR_INVALID_MSG, call.index)
  /\ UNCHANGED <<channelVars, readVars, sent, failures>>

Send ==
  /\ InLoop /\ Message \notin Oversized
  /\ sent' = Append(sent, Message)
  /\ call' = [call EXCEPT !.index = @ + 1]
  /\ UNCHANGED <<channelVars, readVars, written, failures, ret>>

\* Mutant: the message that failed is counted.
SendFailsCounted ==
  /\ InLoop /\ Message \notin Oversized
  /\ failures < MaxFailures
  /\ failures' = failures + 1
  /\ sent' \in {sent, Append(sent, Message)}
  /\ ReturnsFromWrite(ERR_FAILED, call.index + 1)
  /\ UNCHANGED <<channelVars, readVars>>

\* A transfer may be reported as failed and have reached the device.
SendFails ==
  /\ InLoop /\ Message \notin Oversized
  /\ failures < MaxFailures
  /\ failures' = failures + 1
  /\ sent' \in {sent, Append(sent, Message)}
  /\ ReturnsFromWrite(ERR_FAILED, call.index)
  /\ UNCHANGED <<channelVars, readVars>>

WriteIsDone ==
  /\ Writing /\ call.index = call.want
  /\ ReturnsFromWrite(STATUS_NOERROR, call.want)
  /\ UNCHANGED <<channelVars, readVars, sent, failures>>

----------------------------------------------------------------------------
\* What a call does by itself.  It need not be given frames, or fail.
Step ==
  \/ NextRound \/ Skip \/ Take \/ Chunk \/ TimesOut \/ ReadIsFull
  \/ Refuse \/ Send \/ WriteIsDone

Next ==
  \/ \E c \in ChannelIds :
       \/ Disconnect(c) \/ DeviceSends(c)
       \/ \E n \in 1..MaxWant : BeginRead(c, n) \/ BeginWrite(c, n)
  \/ Connect \/ ClearRx \/ Deadline
  \/ Swallow \/ EmptyTransfer \/ ReadFails \/ SendFails
  \/ Step

Spec == Init /\ [][Next]_vars

FairSpec == Spec /\ WF_vars(Step) /\ WF_vars(Deadline)

----------------------------------------------------------------------------
(* Properties.                                                             *)

Frames == [channel : ChannelIds, number : 1..MaxFrames]

Reads == [op : {"read"}, channel : ChannelIds, want : 1..MaxWant,
          out : Seq(1..MaxFrames), remaining : {"unset", "some", "zero"},
          expired : BOOLEAN]

Writes == [op : {"write"}, channel : ChannelIds, want : 1..MaxWant,
           index : 0..MaxWant]

\* The type invariant.
TypeOK ==
  /\ transport \in Transports
  /\ channels \subseteq 1..(nextChannel - 1)
  /\ nextChannel \in 1..(MaxChannels + 1)
  /\ wire \in Seq(Frames) /\ inbox \in Seq(Frames)
  /\ arrived \in 0..MaxFrames
  /\ \/ call = NoCall
     \/ /\ call \in Reads /\ call.channel \in channels
        /\ Len(call.out) <= call.want
     \/ /\ call \in Writes /\ call.channel \in channels
        /\ call.index <= call.want /\ written + call.want <= MaxMsgs
  /\ ret \in [status : TransferStatuses, num : 0..MaxWant]
  /\ got \in [ChannelIds -> Seq(1..MaxFrames)]
  /\ written \in 0..MaxMsgs
  /\ sent \in Seq(1..MaxMsgs)
  /\ failures \in 0..MaxFailures

\* The frames of channel c in s, as their numbers.
Of(c, s) == Picked([i \in 1..Len(s) |-> s[i].number],
                  {i \in 1..Len(s) : s[i].channel = c})

Promise == INSTANCE ChannelQueues WITH
  issued <- 1..(nextChannel - 1),
  connected <- channels,
  seen <- IF wire = <<>> THEN arrived ELSE Head(wire).number - 1,
  queue <- [c \in ChannelIds |->
              (IF Reading /\ call.channel = c THEN call.out ELSE <<>>)
              \o Of(c, inbox)],
  taken <- got,
  reading <- IF Reading THEN call.channel ELSE NoChannel

\* Driver::read over a shared transport is a set of queues: a frame that the
\* transport has received is handed out at most once, in order, to the channel
\* it is addressed to, whatever fails or times out in between; it is lost only
\* to a read of another channel or to a clear; and no channel gets what was
\* meant for an earlier one.
ImplementsChannelQueues == Promise!Spec

\* A read that gives up on time leaves no frame behind in the receive buffer,
\* so a poll with timeout 0 returns what has already been received.
PollDrainsBuffer ==
  [][Reading /\ call' = NoCall /\ ret'.status # ERR_FAILED
       => ret'.num = call.want \/ inbox = <<>>]_vars

Received == {sent[i] : i \in 1..Len(sent)}

Begun == written + (IF Writing THEN call.index ELSE 0)

\* numMsgs of a write that fails is where to go on: an application that does
\* so leaves no gap and changes no order, and the device sees a message again
\* only if its own write failed.  An oversized message never leaves.
WrittenInOrder ==
  /\ \A i \in 1..(Len(sent) - 1) : sent[i] <= sent[i + 1]
  /\ (1..Begun) \ Oversized \subseteq Received
  /\ Received \subseteq (1..(Begun + 1)) \ Oversized
  /\ Len(sent) - Cardinality(Received) <= failures

\* A read returns, even if the device never sends anything: its timeout sees
\* to it.
ReadReturns == Reading ~> ~Reading

\* The same over the serial transport.
SerialReadReturns == (Reading /\ transport = "serial") ~> ~Reading

==============================================================================
