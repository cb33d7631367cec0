---------------------------- MODULE ChannelQueues ----------------------------
(***************************************************************************)
(* What the channels of one device promise to the application that reads   *)
(* them: each is a queue of the frames received for it, a read takes       *)
(* frames from its front, and an identifier is never given to a second     *)
(* channel.  Two things limit the promise, and nothing else may lose,      *)
(* reorder, repeat or redirect a frame once it is received: a read of one  *)
(* channel may consume frames of the others, and clearing the receive      *)
(* buffer clears it for all of them.                                       *)
(***************************************************************************)
EXTENDS Selections

CONSTANT MaxChannels, MaxFrames

ChannelIds == 1..MaxChannels
NoChannel == 0

VARIABLES
  issued,      \* identifiers given to a channel so far
  connected,   \* those of them whose channel is connected
  seen,        \* the last frame received or lost; a frame is its number
  queue,       \* channel -> frames that wait
  taken,       \* channel -> frames handed to the application
  reading      \* the channel being read, or NoChannel

vars == <<issued, connected, seen, queue, taken, reading>>

Init ==
  /\ issued = {} /\ connected = {}
  /\ seen = 0
  /\ queue = [c \in ChannelIds |-> <<>>]
  /\ taken = [c \in ChannelIds |-> <<>>]
  /\ reading = NoChannel

Connect(c) ==
  /\ reading = NoChannel
  /\ c \notin issued
  /\ issued' = issued \cup {c}
  /\ connected' = connected \cup {c}
  /\ UNCHANGED <<seen, queue, taken, reading>>

Disconnect(c) ==
  /\ reading = NoChannel
  /\ c \in connected
  /\ connected' = connected \ {c}
  /\ UNCHANGED <<issued, seen, queue, taken, reading>>

\* Some of the frames up to number m are received, in order, each of them by
\* the channel it is addressed to; the others of them never will be.
Receive(m) ==
  /\ m > seen
  /\ seen' = m
  /\ \E to \in [(seen + 1)..m -> issued \cup {NoChannel}] :
       queue' = [c \in ChannelIds |->
                   queue[c] \o Picked([i \in 1..(m - seen) |-> seen + i],
                                     {i \in 1..(m - seen) : to[seen + i] = c})]
  /\ UNCHANGED <<issued, connected, taken, reading>>

BeginRead(c) ==
  /\ reading = NoChannel
  /\ c \in connected
  /\ reading' = c
  /\ UNCHANGED <<issued, connected, seen, queue, taken>>

Drop(s, n) == SubSeq(s, n + 1, Len(s))

\* The read reports n frames: the application has these and no others.
EndRead(n) ==
  /\ reading # NoChannel
  /\ n <= Len(queue[reading])
  /\ taken' = [taken EXCEPT ![reading] = @ \o SubSeq(queue[reading], 1, n)]
  /\ queue' = [queue EXCEPT ![reading] = Drop(@, n)]
  /\ reading' = NoChannel
  /\ UNCHANGED <<issued, connected, seen>>

\* The read comes across a frame of another channel.
Overlook(c) ==
  /\ reading \notin {NoChannel, c}
  /\ queue[c] # <<>>
  /\ queue' = [queue EXCEPT ![c] = Tail(@)]
  /\ UNCHANGED <<issued, connected, seen, taken, reading>>

Clear ==
  /\ reading = NoChannel /\ connected # {}
  /\ \A c \in ChannelIds : \E n \in 0..Len(queue[c]) : queue'[c] = Drop(queue[c], n)
  /\ DOMAIN queue' = ChannelIds
  /\ seen' \in seen..MaxFrames
  /\ UNCHANGED <<issued, connected, taken, reading>>

Next ==
  \/ \E c \in ChannelIds :
       \/ Connect(c) \/ Disconnect(c) \/ BeginRead(c) \/ Overlook(c)
  \/ \E n \in 0..MaxFrames : Receive(n) \/ EndRead(n)
  \/ Clear

Spec == Init /\ [][Next]_vars

==============================================================================
