----------------------------- MODULE FrameResync -----------------------------
(***************************************************************************)
(* tryExtractMvcIFrame, run by both transports on a receive buffer that    *)
(* bytes are appended to in whatever chunks the device delivers.  One pass *)
(* of its loop is an action.  The magic, the header and the size field     *)
(* keep their roles and are as long as the constants make them; a byte in  *)
(* the size field stands for the size SizeOf gives it.                     *)
(***************************************************************************)
EXTENDS Naturals, Sequences

CONSTANTS
  Bytes,
  Magic,         \* kMvciPacketMagic, as bytes on the wire
  HeaderLen,     \* 24 in the code
  SizeAt,        \* where the size field is, 21 in the code
  SizeOf,        \* byte -> the payload size it stands for
  MaxPayload,    \* kMvciMaxPayloadSize, 2^20
  MaxChunk,      \* bound on the bytes one device read returns
  MaxBytes       \* bound on the bytes of one stream

ASSUME FramingAssumption ==
  /\ Magic \in Seq(Bytes)
  /\ HeaderLen \in Nat /\ Len(Magic) \in 1..HeaderLen
  /\ SizeAt \in 1..HeaderLen
  /\ SizeOf \in [Bytes -> Nat]
  /\ MaxPayload \in Nat /\ MaxChunk \in Nat /\ MaxBytes \in Nat

VARIABLES
  received,      \* every byte since the buffer was last cleared
  buffer,        \* rxBuffer_
  delivered,     \* frames returned since then
  loop           \* "runs", or what it ended with: "frame" or "none"

vars == <<received, buffer, delivered, loop>>

From(s, i) == SubSeq(s, i, Len(s))

MagicAt(s, i) ==
  /\ i + Len(Magic) - 1 <= Len(s)
  /\ SubSeq(s, i, i + Len(Magic) - 1) = Magic

MagicPositions(s) == {i \in 1..Len(s) : MagicAt(s, i)}

First(S) == CHOOSE i \in S : \A j \in S : i <= j

Init ==
  /\ received = <<>>
  /\ buffer = <<>>
  /\ delivered = <<>>
  /\ loop = "none"

----------------------------------------------------------------------------
(* The loop.                                                               *)

Running == loop = "runs"

\* No frame yet: the loop is left with rest in the buffer.
Wait(rest) ==
  /\ buffer' = rest
  /\ loop' = "none"
  /\ UNCHANGED <<received, delivered>>

TooShort == Running /\ Len(buffer) < Len(Magic) /\ Wait(buffer)

NoMagicHere == Running /\ Len(buffer) >= Len(Magic) /\ MagicPositions(buffer) = {}

\* Mutant: the whole buffer goes, the first bytes of a magic included.
NoMagicDropsAll == NoMagicHere /\ Wait(<<>>)

\* Mutant: noise stays in the buffer.
NoMagicDropsNothing == NoMagicHere /\ Wait(buffer)

\* The last bytes are kept: the magic may straddle two reads.
NoMagic ==
  /\ NoMagicHere
  /\ Wait(From(buffer, Len(buffer) - Len(Magic) + 2))

\* What stands before the first magic is dropped.
Candidate == From(buffer, First(MagicPositions(buffer)))

HasMagic == Running /\ MagicPositions(buffer) # {}

ShortHeader == HasMagic /\ Len(Candidate) < HeaderLen /\ Wait(Candidate)

PayloadSize == SizeOf[Candidate[SizeAt]]

HasHeader == HasMagic /\ Len(Candidate) >= HeaderLen

\* Mutant: nothing is skipped, and the scan finds the same header again.
SkippedNothing == Candidate

\* A corrupt header is skipped byte by byte.
Skipped == Tail(Candidate)

Oversized ==
  /\ HasHeader /\ PayloadSize > MaxPayload
  /\ buffer' = Skipped
  /\ UNCHANGED <<received, delivered, loop>>

TotalSize == PayloadSize + HeaderLen

ShortPayload ==
  /\ HasHeader /\ PayloadSize <= MaxPayload
  /\ Len(Candidate) < TotalSize
  /\ Wait(Candidate)

Deliver ==
  /\ HasHeader /\ PayloadSize <= MaxPayload
  /\ Len(Candidate) >= TotalSize
  /\ delivered' = Append(delivered, SubSeq(Candidate, 1, TotalSize))
  /\ buffer' = From(Candidate, TotalSize + 1)
  /\ loop' = "frame"
  /\ UNCHANGED received

----------------------------------------------------------------------------
(* What the transports do around it.                                       *)

\* A read starts, after a frame or after a read that timed out.
Read ==
  /\ ~Running
  /\ loop' = "runs"
  /\ UNCHANGED <<received, buffer, delivered>>

\* The read found no frame, and the device had bytes.
Receive ==
  /\ loop = "none"
  /\ \E n \in 1..MaxChunk :
       \E chunk \in [1..n -> Bytes] :
         /\ Len(received) + n <= MaxBytes
         /\ received' = received \o chunk
         /\ buffer' = buffer \o chunk
  /\ loop' = "runs"
  /\ UNCHANGED delivered

\* Mutant: the buffer survives.
ClearKeepsBuffer ==
  /\ ~Running
  /\ received' = <<>> /\ delivered' = <<>>
  /\ loop' = "none"
  /\ UNCHANGED buffer

\* clearRx(), between two reads: the stream starts over.
Clear ==
  /\ ~Running
  /\ received' = <<>> /\ buffer' = <<>> /\ delivered' = <<>>
  /\ loop' = "none"

Pass ==
  TooShort \/ NoMagic \/ ShortHeader \/ Oversized \/ ShortPayload \/ Deliver

Next == Pass \/ Read \/ Receive \/ Clear

Spec == Init /\ [][Next]_vars /\ WF_vars(Pass)

----------------------------------------------------------------------------
(* The reference: the frames of a stream, by position and without a        *)
(* buffer.  A frame starts at the first magic whose header, if it is all   *)
(* there, is not corrupt; the next one is looked for behind it.            *)

SizeAtHeader(s, i) == SizeOf[s[i + SizeAt - 1]]
HeaderThere(s, i) == i + HeaderLen - 1 <= Len(s)

Starts(s, i) ==
  {j \in i..Len(s) :
     MagicAt(s, j) /\ (HeaderThere(s, j) => SizeAtHeader(s, j) <= MaxPayload)}

NextStart(s, i) == First(Starts(s, i))
NextEnd(s, i) == NextStart(s, i) + HeaderLen + SizeAtHeader(s, NextStart(s, i))

Complete(s, i) ==
  /\ Starts(s, i) # {} /\ HeaderThere(s, NextStart(s, i))
  /\ NextEnd(s, i) <= Len(s) + 1

FramesFrom(s) ==
  LET frames[i \in 1..(Len(s) + 1)] ==
        IF Complete(s, i)
        THEN <<SubSeq(s, NextStart(s, i), NextEnd(s, i) - 1)>> \o frames[NextEnd(s, i)]
        ELSE <<>>
  IN frames

FramesOf(s) == FramesFrom(s)[1]

----------------------------------------------------------------------------
(* Properties.                                                             *)

\* The type invariant; the buffer holds no more than what has come.
TypeOK ==
  /\ received \in Seq(Bytes) /\ Len(received) <= MaxBytes
  /\ buffer \in Seq(Bytes) /\ Len(buffer) <= Len(received)
  /\ delivered \in Seq(Seq(Bytes))
  /\ loop \in {"runs", "frame", "none"}

\* However the stream was cut into chunks and into reads, and whatever noise,
\* truncated frames and corrupt headers it holds: when the loop finds no frame
\* (tryExtractMvcIFrame returns false), the reads so far have returned exactly
\* the frames of the stream.
ChunkingIrrelevant == loop = "none" => delivered = FramesOf(received)

\* When it finds none, the buffer holds less than the longest frame: noise does
\* not accumulate, whatever the length of the stream.
BufferBounded == loop = "none" => Len(buffer) < HeaderLen + MaxPayload

\* The loop ends: a corrupt header does not keep a read in it for ever.
LoopEnds == Running ~> ~Running

============================================================================
