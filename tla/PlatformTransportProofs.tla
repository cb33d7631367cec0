---------------------- MODULE PlatformTransportProofs ----------------------
(***************************************************************************)
(* Proofs about UsbVci and PlatformTransport, for any devices on the bus,  *)
(* any selectors, known IDs, nodes, attempts, messages, replies and        *)
(* faults.                                                                 *)
(*                                                                         *)
(* The inductive invariant has, beside the types, five parts: what the     *)
(* place of a call says of the handles and the flags (LinkInv), that every *)
(* reply is to a message the adapter has taken (BootInv), what the place   *)
(* of a search says of the devices it has passed by (SearchInv), what an   *)
(* open that runs was asked for (AskedInv), and that the device which was  *)
(* found is the one asked for (PromiseInv).                                *)
(***************************************************************************)
EXTENDS PlatformTransport, SequenceTheorems, TLAPS

----------------------------------------------------------------------------
(* What each step makes of the locals of the call.                         *)

\* What the type invariant says of the call that runs.
LEMMA CallTyped ==
  ASSUME TypeOK
  PROVE  /\ call \in Calls /\ (call.op = "none" <=> call.at = "none")
         /\ call.at \in Places /\ call.op \in {"none", "open", "write"}
         /\ call.selector \in Selectors /\ call.pass \in Nat /\ call.device \in Nat
         /\ call.listed \subseteq Devices /\ call.there \subseteq Devices
         /\ call.attempt \in 1..Attempts /\ call.stage \in 1..Stages
  BY DEF TypeOK, Calls

\* A step to another place keeps the rest of the locals.
LEMMA GoesEffect ==
  ASSUME TypeOK, NEW p \in Places, Goes(p)
  PROVE  /\ call' \in Calls /\ call'.op = call.op /\ call'.selector = call.selector
         /\ call'.at = p /\ call'.pass = call.pass
         /\ call'.device = call.device /\ call'.listed = call.listed
         /\ call'.there = call.there /\ call'.stage = call.stage
  BY CallTyped DEF Calls, Goes

\* The loop over the list goes on with the next device.
LEMMA GoesOnEffect ==
  ASSUME TypeOK, GoesOn
  PROVE  /\ call' \in Calls /\ call'.op = call.op /\ call'.selector = call.selector
         /\ call'.at = "scan" /\ call'.pass = call.pass
         /\ call'.device = call.device + 1 /\ call'.listed = call.listed
         /\ call'.there = call.there /\ call'.stage = call.stage
  <1> DEFINE device == call.device + 1
  <1>1. /\ device \in Nat /\ "scan" \in Places
        /\ call' = [call EXCEPT !.at = "scan", !.device = device]
    BY CallTyped DEF Places, GoesOn
  <1> HIDE DEF device
  <1>2. /\ call' \in Calls /\ call'.op = call.op /\ call'.selector = call.selector
        /\ call'.at = "scan" /\ call'.pass = call.pass
        /\ call'.device = device /\ call'.listed = call.listed
        /\ call'.there = call.there /\ call'.stage = call.stage
    BY <1>1, CallTyped DEF Calls
  <1> QED BY <1>2 DEF device

\* A device that fits is claimed next.
LEMMA AcceptsEffect ==
  ASSUME TypeOK, Accepts
  PROVE  /\ call' \in Calls /\ call'.op = call.op /\ call'.selector = call.selector
         /\ call'.at = "claim" /\ call'.pass = call.pass
         /\ call'.device = call.device /\ call'.there = call.there
         /\ call'.stage = call.stage
  <1>1. "claim" \in Places /\ call' = [call EXCEPT !.at = "claim", !.listed = {}]
    BY DEF Places, Accepts
  <1> QED BY <1>1, CallTyped DEF Calls

\* The next pass begins at the first device of a new list.
LEMMA NextPassEffect ==
  ASSUME TypeOK, NextPass
  PROVE  /\ call' \in Calls /\ call'.op = call.op /\ call'.selector = call.selector
         /\ call'.at = call.at /\ call'.pass \in LaterPasses
         /\ \A q \in LaterPasses : call'.pass <= q
         /\ call'.device = 1 /\ call'.listed = plugged
         /\ call'.there = call.there /\ call'.stage = call.stage
  <1>1. PICK p \in LaterPasses :
          /\ \A q \in LaterPasses : p <= q
          /\ call' = [call EXCEPT !.pass = p, !.device = 1, !.listed = plugged]
    BY DEF NextPass
  <1>2. p \in Nat /\ plugged \subseteq Devices
    BY DEF LaterPasses, Passes, TypeOK
  <1>3. /\ call' \in Calls /\ call'.op = call.op /\ call'.selector = call.selector
        /\ call'.at = call.at /\ call'.pass = p
        /\ call'.device = 1 /\ call'.listed = plugged
        /\ call'.there = call.there /\ call'.stage = call.stage
    BY <1>1, <1>2, CallTyped DEF Calls
  <1> QED BY <1>1, <1>3

\* The bootstrap goes on with its next message.
LEMMA NextStageEffect ==
  ASSUME TypeOK, call.stage < Stages,
         call' = [call EXCEPT !.at = "send", !.stage = @ + 1]
  PROVE  /\ call' \in Calls /\ call'.op = call.op /\ call'.selector = call.selector
         /\ call'.at = "send" /\ call'.stage = call.stage + 1
  <1> DEFINE stage == call.stage + 1
  <1>1. /\ stage \in 1..Stages /\ "send" \in Places
        /\ call' = [call EXCEPT !.at = "send", !.stage = stage]
    BY CallTyped, UsbBoundsAssumption DEF Places
  <1> HIDE DEF stage
  <1>2. /\ call' \in Calls /\ call'.op = call.op /\ call'.selector = call.selector
        /\ call'.at = "send" /\ call'.stage = stage
    BY <1>1, CallTyped DEF Calls
  <1> QED BY <1>2 DEF stage

\* An attempt that failed is followed by another from the first message, or is
\* the last.
LEMMA AttemptFailsEffect ==
  ASSUME TypeOK, AttemptFails
  PROVE  /\ call' \in Calls /\ call'.op = call.op /\ call'.selector = call.selector
         /\ call'.at \in {"attempt", "failed"}
         /\ call'.at = "attempt" => call'.stage = 1
  <1>1. CASE call.attempt < Attempts
    <2> DEFINE attempt == call.attempt + 1
    <2>1. /\ attempt \in 1..Attempts /\ 1 \in 1..Stages /\ "attempt" \in Places
          /\ call' = [call EXCEPT !.at = "attempt", !.attempt = attempt, !.stage = 1]
      BY <1>1, CallTyped, UsbBoundsAssumption DEF Places, AttemptFails
    <2> HIDE DEF attempt
    <2> QED BY <2>1, CallTyped DEF Calls
  <1>2. CASE ~(call.attempt < Attempts)
    <2>1. "failed" \in Places /\ call' = [call EXCEPT !.at = "failed"]
      BY <1>2 DEF Places, AttemptFails
    <2> QED BY <2>1, CallTyped DEF Calls
  <1> QED BY <1>1, <1>2

\* The loop over the serial nodes goes on with the next one.
LEMMA NextNodeEffect ==
  ASSUME TypeOK, NodeFails
  PROVE  /\ call' \in Calls /\ call'.op = call.op /\ call'.selector = call.selector
         /\ call'.at = call.at /\ call'.device = call.device + 1
         /\ call'.stage = call.stage
  <1> DEFINE device == call.device + 1
  <1>1. device \in Nat /\ call' = [call EXCEPT !.device = device]
    BY CallTyped DEF NodeFails
  <1> HIDE DEF device
  <1>2. /\ call' \in Calls /\ call'.op = call.op /\ call'.selector = call.selector
        /\ call'.at = call.at /\ call'.device = device /\ call'.stage = call.stage
    BY <1>1, CallTyped DEF Calls
  <1> QED BY <1>2 DEF device

\* Who is pulled while a call runs is no longer there for it.
LEMMA PulledEffect ==
  ASSUME TypeOK, NEW d, Pulled(d)
  PROVE  /\ call' \in Calls /\ call'.op = call.op /\ call'.selector = call.selector
         /\ call'.at = call.at /\ call'.pass = call.pass
         /\ call'.device = call.device /\ call'.listed = call.listed
         /\ call'.there = call.there \ {d} /\ call'.stage = call.stage
  <1> DEFINE there == call.there \ {d}
  <1>1. there \in SUBSET Devices /\ call' = [call EXCEPT !.there = there]
    BY CallTyped DEF Pulled
  <1> HIDE DEF there
  <1>2. /\ call' \in Calls /\ call'.op = call.op /\ call'.selector = call.selector
        /\ call'.at = call.at /\ call'.pass = call.pass
        /\ call'.device = call.device /\ call'.listed = call.listed
        /\ call'.there = there /\ call'.stage = call.stage
    BY <1>1, CallTyped DEF Calls
  <1> QED BY <1>2 DEF there

\* A call begins with its locals as they are initialised.
LEMMA BeginsEffect ==
  ASSUME NEW o \in {"none", "open", "write"}, NEW p \in Places, NEW s \in Selectors,
         call' = Call(o, p, s)
  PROVE  /\ call' \in Calls /\ call'.at = p /\ call'.op = o /\ call'.selector = s
         /\ call'.pass = 1 /\ call'.device = 1 /\ call'.stage = 1
  <1>1. 1 \in 1..Attempts /\ 1 \in 1..Stages /\ {} \in SUBSET Devices
    BY UsbBoundsAssumption
  <1> QED BY <1>1 DEF Call, Calls

\* A search begins with the first pass at the first device.
LEMMA ScansEffect ==
  ASSUME TypeOK, NEW s \in Selectors, ScansFor(s)
  PROVE  /\ call' \in Calls /\ call'.at = "scan" /\ call'.op = "open"
         /\ call'.selector = s /\ call'.pass = 1 /\ call'.device = 1
         /\ call'.listed = plugged /\ call'.there = plugged
  <1>1. /\ 1 \in 1..Attempts /\ 1 \in 1..Stages /\ "scan" \in Places
        /\ plugged \in SUBSET Devices
    BY UsbBoundsAssumption DEF Places, TypeOK
  <1>2. call' = [op |-> "open", at |-> "scan", selector |-> s, pass |-> 1,
                 device |-> 1, listed |-> plugged, there |-> plugged,
                 attempt |-> 1, stage |-> 1]
    BY DEF ScansFor, Call
  <1> QED BY <1>1, <1>2 DEF Calls

\* No call runs any more.
LEMMA EndsEffect ==
  ASSUME NEW s \in Selectors, call' = NoCall(s)
  PROVE  call' \in Calls /\ call'.at = "none" /\ call'.op = "none" /\ call'.selector = s
  <1>1. "none" \in Places
    BY DEF Places
  <1> QED BY <1>1, BeginsEffect DEF NoCall

\* A call that returns leaves its status.
LEMMA ReturnsEffect ==
  ASSUME TypeOK, NEW status, Returns(status)
  PROVE  /\ call' \in Calls /\ call'.at = "none" /\ call'.op = "none"
         /\ call'.selector = call.selector
         /\ ret' = [op |-> call.op, status |-> status]
  BY CallTyped, EndsEffect DEF Returns

\* There is a selector for the calls that have none.
LEMMA Selected == NoSelector \in Selectors
  BY KindsAssumption DEF NoSelector

----------------------------------------------------------------------------
(* Types.                                                                  *)

\* The replies that are left when some are flushed or read, and those there are
\* when one more is sent.
LEMMA Replies ==
  ASSUME TypeOK
  PROVE  /\ <<>> \in Seq(1..Stages) /\ pending \in Seq(1..Stages) /\ Len(pending) \in Nat
         /\ \A i \in 1..Len(pending) : pending[i] \in 1..Stages
         /\ \A q \in Suffixes(pending) :
              /\ q \in Seq(1..Stages)
              /\ \A i \in 1..Len(q) : \E j \in 1..Len(pending) : q[i] = pending[j]
              /\ pending = <<>> => q = <<>>
         /\ \A n \in 1..Len(pending) :
              SubSeq(pending, n + 1, Len(pending)) \in Suffixes(pending)
         /\ \A n \in 1..Stages :
              /\ Append(pending, n) \in Seq(1..Stages)
              /\ \A i \in 1..Len(Append(pending, n)) :
                   \/ Append(pending, n)[i] = n
                   \/ \E j \in 1..Len(pending) : Append(pending, n)[i] = pending[j]
  <1>1. /\ pending \in Seq(1..Stages) /\ Len(pending) \in Nat
        /\ \A i \in 1..Len(pending) : pending[i] \in 1..Stages
    <2>1. pending \in Seq(1..Stages)
      BY DEF TypeOK
    <2> QED BY <2>1, LenProperties
  <1>2. ASSUME NEW q \in Suffixes(pending)
        PROVE  /\ q \in Seq(1..Stages)
               /\ \A i \in 1..Len(q) : \E j \in 1..Len(pending) : q[i] = pending[j]
               /\ pending = <<>> => q = <<>>
    <2>1. PICK n \in 1..(Len(pending) + 1) : q = SubSeq(pending, n, Len(pending))
      BY DEF Suffixes
    <2>2. n \in Int /\ n >= 1 /\ \A i \in n..Len(pending) : pending[i] \in 1..Stages
      BY <1>1
    <2>3. /\ q \in Seq(1..Stages)
          /\ Len(q) = IF n <= Len(pending) THEN Len(pending) - n + 1 ELSE 0
          /\ \A i \in 1..Len(q) : q[i] = pending[n + i - 1]
      BY <1>1, <2>1, <2>2, SubSeqProperties
    <2>4. ASSUME NEW i \in 1..Len(q) PROVE \E j \in 1..Len(pending) : q[i] = pending[j]
      <3>1. n + i - 1 \in 1..Len(pending)
        BY <1>1, <2>2, <2>3
      <3> QED BY <2>3, <3>1
    <2>5. pending = <<>> => Len(pending) = 0 /\ n = 1
      BY <2>1
    <2>6. pending = <<>> => SubSeq(pending, 1, 0) = <<>>
      BY SubSeqEmpty
    <2> QED BY <2>1, <2>3, <2>4, <2>5, <2>6
  <1>3. ASSUME NEW n \in 1..Len(pending)
        PROVE  SubSeq(pending, n + 1, Len(pending)) \in Suffixes(pending)
    <2>1. n + 1 \in 1..(Len(pending) + 1)
      BY <1>1
    <2> QED BY <2>1 DEF Suffixes
  <1>4. ASSUME NEW n \in 1..Stages
        PROVE  /\ Append(pending, n) \in Seq(1..Stages)
               /\ \A i \in 1..Len(Append(pending, n)) :
                    \/ Append(pending, n)[i] = n
                    \/ \E j \in 1..Len(pending) : Append(pending, n)[i] = pending[j]
    BY <1>1, AppendProperties
  <1> QED BY <1>1, <1>2, <1>3, <1>4, EmptySeq

\* The types that the bus, the adapter and the platform have whatever a call does.
WorldOK ==
  /\ bus \in Seq(Kinds) /\ Len(bus) <= MaxDevices /\ plugged \subseteq Devices
  /\ bootstrap \in {"off", "lenient", "strict"}
  /\ faults \in 0..MaxFaults
  /\ platform \in Platforms /\ nodes \in 0..MaxNodes
LinkOK ==
  /\ handle \in Devices \cup {NoDevice} /\ opened \subseteq Devices
  /\ dead \subseteq opened
  /\ inner \in {"none", "serial", "usb"} /\ nodesOpen \subseteq 0..MaxNodes
FlagsOK ==
  /\ claimed \in BOOLEAN /\ miniVciMode \in BOOLEAN /\ miniVciReady \in BOOLEAN
  /\ early \in BOOLEAN
AdapterOK == taken \in [1..MaxDevices -> 0..Stages] /\ pending \in Seq(1..Stages)
CallOK ==
  /\ call \in Calls /\ (call.op = "none" <=> call.at = "none")
  /\ ret.op \in {"none", "open", "write", "close"} /\ ret.status \in Statuses

\* The type invariant, by the parts that change together.
LEMMA TypeParts == TypeOK <=> WorldOK /\ LinkOK /\ FlagsOK /\ AdapterOK /\ CallOK
  BY DEF TypeOK, WorldOK, LinkOK, FlagsOK, AdapterOK, CallOK

\* The types hold in the initial states.
LEMMA TypeInit == Init => TypeOK
  <1> SUFFICES ASSUME Init PROVE TypeOK
    OBVIOUS
  <1>1. WorldOK
    <2>1. bus \in Seq(Kinds) /\ Len(bus) <= MaxDevices /\ plugged \subseteq Devices
      BY UsbBoundsAssumption DEF Init, UsbInit, Devices
    <2>2. nodes \in 0..MaxNodes
      BY PlatformAssumption DEF Init
    <2>3. faults \in 0..MaxFaults
      BY UsbBoundsAssumption DEF Init, UsbInit
    <2>4. /\ bootstrap \in {"off", "lenient", "strict"} /\ platform \in Platforms
      BY DEF Init, UsbInit
    <2> QED BY <2>1, <2>2, <2>3, <2>4 DEF WorldOK
  <1>2. LinkOK
    BY DEF Init, UsbInit, LinkOK
  <1>3. AdapterOK
    BY UsbBoundsAssumption, EmptySeq DEF Init, UsbInit, AdapterOK
  <1>4. CallOK
    <2>1. /\ 1 \in 1..Attempts /\ 1 \in 1..Stages /\ {} \in SUBSET Devices
          /\ "none" \in Places
      BY UsbBoundsAssumption DEF Places
    <2>2. call \in Calls /\ call.op = "none" /\ call.at = "none"
      BY <2>1, Selected DEF Init, UsbInit, NoCall, Call, Calls
    <2>3. ret = [op |-> "none", status |-> STATUS_NOERROR]
      BY DEF Init, UsbInit, NoReturn
    <2> QED BY <2>2, <2>3 DEF CallOK, Statuses
  <1>5. FlagsOK
    BY DEF Init, UsbInit, FlagsOK
  <1> QED BY <1>1, <1>2, <1>3, <1>4, <1>5, TypeParts

\* The types of the locals depend on the bus alone, which no step changes.
LEMMA SameCalls ==
  ASSUME UNCHANGED bus
  PROVE  Calls' = Calls /\ Devices' = Devices
  BY DEF Calls, Devices

----------------------------------------------------------------------------
(* The link: who is held open, and what the flags say.                     *)

Booting == call.at \in {"attempt", "send", "wait", "booted", "failed"}

\* What the place of a call says.
PlaceInv ==
  /\ call.at \in {"nodes", "scan", "candidate", "claim"} =>
       call.op = "open" /\ ~claimed /\ ~miniVciMode /\ ~miniVciReady
  /\ call.at \in {"nodes", "scan", "candidate"} => handle = NoDevice
  /\ call.at \in {"scan", "candidate"} => call.device >= 1
  /\ call.at = "candidate" => call.device \in Devices
  /\ call.at = "claim" => handle = call.device /\ handle # NoDevice
  /\ Booting => claimed /\ miniVciMode
  /\ call.at \in {"attempt", "send", "wait", "failed"} => ~miniVciReady
  /\ call.at = "booted" => miniVciReady
  /\ call.at = "raw" =>
       /\ call.op = "write" /\ handle # NoDevice
       /\ bootstrap = "strict" /\ miniVciMode => miniVciReady
  /\ call.at = "nodes" => inner = "none" /\ nodesOpen = {}
  /\ call.at \in {"scan", "candidate", "claim", "raw"} \/ Booting =>
       inner = "usb" /\ nodesOpen = {}

\* What the flags say.
FlagInv ==
  /\ claimed => handle # NoDevice /\ (miniVciMode <=> bus[handle].id \in MiniIds)
  /\ miniVciMode \/ miniVciReady => claimed

LinkInv == LinkOK /\ PlaceInv /\ OneLink /\ FlagInv

\* The link invariant holds before the first call.
LEMMA LinkInit == Init => LinkInv
  <1> SUFFICES ASSUME Init PROVE LinkInv
    OBVIOUS
  <1>1. call.at = "none"
    BY DEF Init, UsbInit, NoCall, Call
  <1>2. /\ handle = NoDevice /\ opened = {} /\ dead = {} /\ ~claimed /\ ~miniVciMode
        /\ ~miniVciReady /\ inner \in {"none", "usb"} /\ nodesOpen = {}
    BY DEF Init, UsbInit
  <1>3. LinkOK
    BY <1>2 DEF LinkOK
  <1>4. PlaceInv /\ OneLink /\ FlagInv
    BY <1>1, <1>2 DEF PlaceInv, OneLink, FlagInv, Booting, At
  <1> QED BY <1>3, <1>4 DEF LinkInv

USE DEF LinkInv, LinkOK, PlaceInv, OneLink, FlagInv, Booting, At, NoDevice

\* openUsb keeps it while it searches: it closes every device it does not keep.
LEMMA LinkScan ==
  ASSUME TypeOK, LinkInv, Skips \/ Opens \/ Rejects \/ Accepts \/ NextPass,
         UNCHANGED dispatchVars
  PROVE  LinkInv'
  <1>0. UNCHANGED <<bus, inner, nodesOpen>>
    BY DEF Skips, Opens, Rejects, Accepts, NextPass, busVars, dispatchVars
  <1>1. CASE Skips
    BY <1>0, <1>1, CallTyped, GoesOnEffect DEF Skips, Scanning, linkVars
  <1>2. CASE Opens
    <2>1. "candidate" \in Places
      BY DEF Places
    <2> QED BY <1>0, <1>2, <2>1, CallTyped, GoesEffect, SameCalls DEF Opens, Scanning
  <1>3. CASE Rejects
    <2>1. /\ call'.at = "scan" /\ call'.op = "open" /\ call'.device >= 1
          /\ handle = NoDevice /\ inner = "usb"
      BY <1>3, CallTyped, GoesOnEffect DEF Rejects
    <2>2. opened = {call.device} /\ opened' = {} /\ dead' = {}
      BY <1>3, <2>1 DEF Rejects
    <2> QED BY <1>0, <1>3, <2>1, <2>2, SameCalls DEF Rejects
  <1>4. CASE Accepts
    BY <1>0, <1>4, CallTyped, AcceptsEffect, SameCalls DEF Accepts, Devices
  <1>5. CASE NextPass
    <2>1. /\ call'.at = "scan" /\ call.at = "scan" /\ call'.op = call.op
          /\ call'.device = 1
      BY <1>5, NextPassEffect DEF NextPass, PassEnds
    <2>2. UNCHANGED linkVars
      BY <1>5 DEF NextPass
    <2> QED BY <1>0, <2>1, <2>2, SameCalls DEF linkVars
  <1> QED BY <1>1, <1>2, <1>3, <1>4, <1>5

\* close gives up the device and resets the flags.
LEMMA LinkClosed ==
  ASSUME TypeOK, LinkInv, Closed, UNCHANGED bus, nodesOpen' = {},
         call'.at = "nodes" => inner' = "none" /\ call'.op = "open",
         call'.at = "scan" => inner' = "usb" /\ call'.op = "open" /\ call'.device = 1,
         call'.at \in {"none", "nodes", "scan"}, inner' \in {"none", "serial", "usb"},
         ~At("candidate")
  PROVE  LinkInv'
  <1>1. opened' = {} /\ dead' = {}
    BY DEF Closed, TypeOK
  <1>2. handle' = NoDevice /\ ~claimed' /\ ~miniVciMode' /\ ~miniVciReady'
    BY DEF Closed
  <1> QED BY <1>1, <1>2, SameCalls

\* So do the failures of an open.
LEMMA LinkEnds ==
  ASSUME TypeOK, LinkInv, UNCHANGED dispatchVars, NotFound \/ ClaimFails \/ NoContext
  PROVE  LinkInv'
  <1>1. call'.at = "none"
    BY ReturnsEffect DEF NotFound, ClaimFails, NoContext
  <1>2. CASE NotFound
    <2>1. inner = "usb" /\ nodesOpen = {} /\ ~At("candidate")
      BY <1>2, CallTyped DEF NotFound, PassEnds
    <2> QED BY <1>1, <1>2, <2>1, LinkClosed DEF NotFound, busVars, dispatchVars
  <1>3. CASE ClaimFails \/ NoContext
    <2>1. call.at \in {"claim", "scan"} /\ UNCHANGED <<bus, linkVars, inner, nodesOpen>>
      BY <1>3 DEF ClaimFails, NoContext, busVars, dispatchVars
    <2> QED BY <1>1, <2>1, SameCalls DEF linkVars
  <1> QED BY <1>2, <1>3

\* claimInterface sets the flags of the device it has claimed.
LEMMA LinkClaims ==
  ASSUME TypeOK, LinkInv, UNCHANGED dispatchVars, Claims
  PROVE  LinkInv'
  <1>1. /\ call'.at \in {"none", "attempt"}
        /\ call'.at = "attempt" => miniVciMode'
    <2>1. CASE miniVciMode' /\ bootstrap # "off"
      <3>1. call' = Call("open", "attempt", call.selector) /\ "attempt" \in Places
        BY <2>1 DEF Claims, Places
      <3> QED BY <2>1, <3>1, CallTyped, BeginsEffect
    <2>2. CASE ~(miniVciMode' /\ bootstrap # "off")
      BY <2>2, ReturnsEffect DEF Claims
    <2> QED BY <2>1, <2>2
  <1>2. /\ claimed' /\ (miniVciMode' <=> bus[handle].id \in MiniIds)
        /\ (miniVciReady' <=> ~miniVciMode')
    BY DEF Claims
  <1>3. /\ handle # NoDevice /\ inner = "usb" /\ nodesOpen = {} /\ call.at = "claim"
        /\ UNCHANGED <<bus, handle, opened, dead, inner, nodesOpen>>
    BY DEF Claims, busVars, dispatchVars
  <1> QED BY <1>1, <1>2, <1>3, SameCalls

\* A bootstrap, of open or of write, leaves all but the ready flag alone.
LEMMA LinkBoots ==
  ASSUME TypeOK, LinkInv, UNCHANGED dispatchVars,
         \/ StartsAttempt \/ Sends \/ SendFails \/ HearsAnother \/ HearsReply \/ NoReply
         \/ BootstrapEnds
  PROVE  LinkInv'
  <1>1. /\ Booting
        /\ UNCHANGED <<bus, bootstrap, handle, opened, dead, claimed, miniVciMode>>
        /\ UNCHANGED <<inner, nodesOpen>>
    BY DEF StartsAttempt, Sends, SendFails, HearsAnother, HearsReply, Hears, NoReply,
           BootstrapEnds, busVars, linkVars, dispatchVars
  <1>2. CASE StartsAttempt \/ Sends
    <2>1. "send" \in Places /\ "wait" \in Places
      BY DEF Places
    <2>2. call'.at \in {"send", "wait"} /\ ~miniVciReady'
      BY <1>2, <2>1, GoesEffect DEF StartsAttempt, Sends, linkVars
    <2> QED BY <1>1, <2>2, SameCalls
  <1>3. CASE SendFails \/ NoReply
    <2>1. call'.at \in {"attempt", "failed"} /\ ~miniVciReady'
      BY <1>3, AttemptFailsEffect DEF SendFails, NoReply, linkVars
    <2> QED BY <1>1, <2>1, SameCalls
  <1>4. CASE HearsAnother
    <2>1. call' = call /\ miniVciReady' = miniVciReady
      BY <1>4 DEF HearsAnother, linkVars
    <2> QED BY <1>1, <2>1, SameCalls
  <1>5. CASE HearsReply
    <2>1. \/ call'.at = "send" /\ ~miniVciReady'
          \/ call'.at = "booted" /\ miniVciReady'
      <3>1. "booted" \in Places
        BY DEF Places
      <3>2. ~miniVciReady
        BY <1>5 DEF HearsReply, Hears
      <3>3. CASE call.stage < Stages
        BY <1>5, <3>2, <3>3, NextStageEffect DEF HearsReply, StageEnds
      <3>4. CASE ~(call.stage < Stages)
        BY <1>5, <3>1, <3>4, GoesEffect DEF HearsReply, StageEnds
      <3> QED BY <3>3, <3>4
    <2> QED BY <1>1, <2>1, SameCalls
  <1>6. CASE BootstrapEnds
    <2>1. /\ miniVciReady' = miniVciReady
          /\ \/ call'.at = "none"
             \/ /\ call'.at = "raw" /\ call'.op = "write"
                /\ bootstrap = "strict" => miniVciReady
      <3>1. "raw" \in Places
        BY DEF Places
      <3> QED BY <1>6, <3>1, GoesEffect, ReturnsEffect DEF BootstrapEnds, linkVars
    <2> QED BY <1>1, <2>1, SameCalls
  <1> QED BY <1>2, <1>3, <1>4, <1>5, <1>6

\* A packet that is sent, or not, changes nothing of the link.
LEMMA LinkSends ==
  ASSUME TypeOK, LinkInv, UNCHANGED dispatchVars, Transfers \/ TransferFails
  PROVE  LinkInv'
  <1>1. /\ call.at = "raw" /\ call'.at = "none"
        /\ UNCHANGED <<bus, linkVars, inner, nodesOpen>>
    BY ReturnsEffect DEF Transfers, TransferFails, busVars, dispatchVars
  <1> QED BY <1>1, SameCalls DEF linkVars

\* Nor does the bus, but that what was pulled works no more.
LEMMA LinkBus ==
  ASSUME TypeOK, LinkInv, UNCHANGED dispatchVars, NEW d \in Devices,
         Pulled(d) \/ PluggedIn(d)
  PROVE  LinkInv'
  <1>1. CASE Pulled(d)
    <2>1. /\ call'.at = call.at /\ call'.op = call.op /\ call'.device = call.device
      BY <1>1, PulledEffect
    <2>2. /\ UNCHANGED <<bus, bootstrap, handle, opened>>
          /\ UNCHANGED <<claimed, miniVciMode, miniVciReady>>
          /\ UNCHANGED <<inner, nodesOpen>> /\ dead' = dead \cup ({d} \cap opened)
      BY <1>1 DEF Pulled, dispatchVars
    <2> QED BY <2>1, <2>2, SameCalls
  <1>2. CASE PluggedIn(d)
    <2>1. UNCHANGED <<bus, bootstrap, linkVars, call, inner, nodesOpen>>
      BY <1>2 DEF PluggedIn, dispatchVars
    <2> QED BY <2>1, SameCalls DEF linkVars
  <1> QED BY <1>1, <1>2

\* The dispatcher closes what was open before it opens anything.
LEMMA LinkOpens ==
  ASSUME TypeOK, LinkInv, NEW s \in Selectors, OpensNodes(s) \/ OpensUsb(s)
  PROVE  LinkInv'
  <1>1. UNCHANGED bus /\ ~At("candidate") /\ Closed /\ nodesOpen' = {}
    BY CallTyped DEF OpensNodes, OpensUsb, Idle, busVars
  <1>2. CASE OpensNodes(s)
    <2>1. call' = Call("open", "nodes", s) /\ "nodes" \in Places /\ inner' = "none"
      BY <1>2 DEF OpensNodes, Places
    <2>2. call'.at = "nodes" /\ call'.op = "open"
      BY <2>1, BeginsEffect
    <2> QED BY <1>1, <2>1, <2>2, LinkClosed
  <1>3. CASE OpensUsb(s)
    <2>1. ScansFor(s) /\ inner' = "usb"
      BY <1>3 DEF OpensUsb
    <2>2. call'.at = "scan" /\ call'.op = "open" /\ call'.device = 1
      BY <2>1, ScansEffect
    <2> QED BY <1>1, <2>1, <2>2, LinkClosed
  <1> QED BY <1>2, <1>3

\* The loop over the serial nodes holds one node at most, and no device.
LEMMA LinkNodes ==
  ASSUME TypeOK, LinkInv, NodeOpens \/ NodeFails \/ NoNodeLeft
  PROVE  LinkInv'
  <1>1. call.at = "nodes" /\ opened = {} /\ UNCHANGED <<bus, linkVars>>
    BY DEF NodeOpens, NodeFails, NoNodeLeft, busVars
  <1>2. CASE NodeOpens
    <2>1. call'.at = "none" /\ inner' = "serial"
      BY <1>2, ReturnsEffect DEF NodeOpens
    <2>2. nodesOpen' = {call.device} /\ nodesOpen' \subseteq 0..MaxNodes
      BY <1>2, CallTyped, PlatformAssumption DEF NodeOpens, TypeOK
    <2> QED BY <1>1, <2>1, <2>2, SameCalls DEF linkVars
  <1>3. CASE NodeFails
    <2>1. call'.at = "nodes" /\ call'.op = call.op /\ UNCHANGED <<inner, nodesOpen>>
      BY <1>1, <1>3, NextNodeEffect DEF NodeFails, dispatchVars
    <2> QED BY <1>1, <2>1, SameCalls DEF linkVars
  <1>4. CASE NoNodeLeft
    <2>1. ScansFor(call.selector) /\ inner' = "usb" /\ UNCHANGED nodesOpen
      BY <1>4 DEF NoNodeLeft
    <2>2. call'.at = "scan" /\ call'.op = "open" /\ call'.device = 1
      BY <2>1, ScansEffect, CallTyped
    <2> QED BY <1>1, <2>1, <2>2, SameCalls DEF linkVars
  <1> QED BY <1>2, <1>3, <1>4

\* The calls that begin, and those that end at once.
LEMMA LinkCalls ==
  ASSUME TypeOK, LinkInv,
         Close \/ Write \/ \E s \in Selectors : OpensNamedNode(s)
  PROVE  LinkInv'
  <1>1. CASE Close
    <2>1. call'.at = "none" /\ ~At("candidate") /\ inner' \in {"none", "serial", "usb"}
      BY <1>1, Selected, EndsEffect, CallTyped DEF Close, Idle
    <2> QED BY <1>1, <2>1, LinkClosed DEF Close, busVars
  <1>2. CASE Write
    <2>1. call.at = "none" /\ UNCHANGED <<bus, bootstrap, linkVars, inner, nodesOpen>>
      BY <1>2, CallTyped DEF Write, UsbWrite, Idle, busVars, dispatchVars
    <2>2. \/ call'.at = "none"
          \/ /\ handle # NoDevice /\ inner = "usb"
             /\ call'.op = "write"
             /\ \/ call'.at = "attempt" /\ miniVciMode /\ ~miniVciReady
                \/ call'.at = "raw" /\ (miniVciMode => miniVciReady \/ bootstrap = "off")
      <3>1. "attempt" \in Places /\ "raw" \in Places
        BY DEF Places
      <3> QED BY <1>2, <2>1, <3>1, Selected, BeginsEffect DEF Write, UsbWrite
    <2> QED BY <2>1, <2>2, SameCalls DEF linkVars
  <1>3. ASSUME NEW s \in Selectors, OpensNamedNode(s) PROVE LinkInv'
    <2>1. call'.at = "none" /\ UNCHANGED bus /\ inner' = "serial" /\ ~At("candidate")
      BY <1>3, EndsEffect, CallTyped DEF OpensNamedNode, Idle, busVars
    <2>2. nodesOpen' \subseteq {0} /\ nodesOpen' \subseteq 0..MaxNodes
      BY <1>3, PlatformAssumption DEF OpensNamedNode, NamedNode
    <2>3. opened' = {} /\ dead' = {} /\ handle' = NoDevice
      BY <1>3, <2>1 DEF OpensNamedNode, Closed, TypeOK
    <2>4. ~claimed' /\ ~miniVciMode' /\ ~miniVciReady'
      BY <1>3 DEF OpensNamedNode, Closed
    <2> QED BY <2>1, <2>2, <2>3, <2>4, SameCalls
  <1> QED BY <1>1, <1>2, <1>3

\* A step of nobody.
LEMMA LinkStutters ==
  ASSUME LinkInv, UNCHANGED vars
  PROVE  LinkInv'
  BY SameCalls DEF vars, usbVars, busVars, linkVars, dispatchVars

HIDE DEF LinkInv, LinkOK, PlaceInv, OneLink, FlagInv, Booting, At, NoDevice

\* Every step keeps the link invariant.
LEMMA LinkNext ==
  ASSUME TypeOK, LinkInv, [Next]_vars
  PROVE  LinkInv'
  BY LinkScan, LinkEnds, LinkClaims, LinkBoots, LinkSends, LinkBus, LinkOpens, LinkNodes,
     LinkCalls, LinkStutters
  DEF Next, Step, UsbStep, UsbMeets

----------------------------------------------------------------------------
(* The types are kept.                                                     *)

\* No step changes the devices on the bus, the environment or the platform.
LEMMA WorldSame ==
  ASSUME [Next]_vars
  PROVE  UNCHANGED <<bus, bootstrap, platform, nodes>>
  BY DEF Next, OpensNamedNode, OpensNodes, OpensUsb, Close, Write, UsbWrite, Step,
         NodeOpens, NodeFails, NoNodeLeft, UsbStep, Skips, Opens, Rejects, Accepts,
         NextPass, NotFound, ClaimFails, Claims, StartsAttempt, Sends, SendFails,
         HearsAnother, HearsReply, NoReply, BootstrapEnds, Transfers, TransferFails,
         UsbMeets, NoContext, Pulled, PluggedIn, vars, usbVars, busVars, dispatchVars,
         platformVars

\* No call changes the bus, and the faults stay in their bound.
LEMMA WorldNext ==
  ASSUME TypeOK, [Next]_vars
  PROVE  WorldOK'
  <1>1. UNCHANGED <<bus, bootstrap, platform, nodes>>
    BY WorldSame
  <1>2. plugged' \subseteq Devices
    BY DEF TypeOK, Next, OpensNamedNode, OpensNodes, OpensUsb, Close, Write, UsbWrite,
           Step, NodeOpens, NodeFails, NoNodeLeft, UsbStep, Skips, Opens, Rejects, Accepts,
           NextPass, NotFound, ClaimFails, Claims, StartsAttempt, Sends, SendFails,
           HearsAnother, HearsReply, NoReply, BootstrapEnds, Transfers, TransferFails,
           UsbMeets, NoContext, Pulled, PluggedIn, vars, usbVars, busVars
  <1>3. faults' = faults \/ (faults < MaxFaults /\ faults' = faults + 1)
    BY DEF Next, OpensNamedNode, OpensNodes, OpensUsb, Close, Write, UsbWrite, Step,
           NodeOpens, NodeFails, NoNodeLeft, UsbStep, Skips, Opens, Rejects, Accepts,
           NextPass, NotFound, ClaimFails, Claims, StartsAttempt, Sends, SendFails,
           HearsAnother, HearsReply, NoReply, BootstrapEnds, Transfers, TransferFails,
           UsbMeets, NoContext, Pulled, PluggedIn, vars, usbVars
  <1>4. faults' \in 0..MaxFaults
    BY <1>3, UsbBoundsAssumption DEF TypeOK
  <1> QED BY <1>1, <1>2, <1>4 DEF WorldOK, TypeOK, Devices

\* The flags stay Boolean.
LEMMA FlagsNext ==
  ASSUME TypeOK, [Next]_vars
  PROVE  FlagsOK'
  <1>0. FlagsOK
    BY DEF TypeOK, FlagsOK
  <1>1. CASE Claims \/ HearsReply \/ Transfers
    <2>1. CASE Claims
      BY <1>0, <2>1 DEF FlagsOK, Claims
    <2>2. CASE HearsReply
      BY <1>0, <2>2 DEF FlagsOK, HearsReply, StageEnds
    <2>3. CASE Transfers
      BY <1>0, <2>3 DEF FlagsOK, Transfers, linkVars
    <2> QED BY <1>1, <2>1, <2>2, <2>3
  <1>2. CASE NotFound \/ Close
    BY <1>2 DEF TypeOK, FlagsOK, NotFound, Close, Closed
  <1>3. ASSUME NEW s \in Selectors, OpensNamedNode(s) \/ OpensNodes(s) \/ OpensUsb(s)
        PROVE  FlagsOK'
    BY <1>3 DEF TypeOK, FlagsOK, OpensNamedNode, OpensNodes, OpensUsb, Closed
  <1>4. CASE \/ Skips \/ Opens \/ Rejects \/ Accepts \/ NextPass \/ ClaimFails
             \/ StartsAttempt \/ Sends \/ SendFails \/ HearsAnother \/ NoReply
             \/ BootstrapEnds \/ TransferFails \/ NodeOpens \/ NodeFails \/ NoNodeLeft
             \/ Write \/ UsbMeets \/ UNCHANGED vars
    BY <1>4
    DEF TypeOK, FlagsOK, Skips, Opens, Rejects, Accepts, NextPass, ClaimFails,
        StartsAttempt, Sends, SendFails, HearsAnother, NoReply, BootstrapEnds,
        TransferFails, NodeOpens, NodeFails, NoNodeLeft, Write, UsbWrite, UsbMeets,
        NoContext, Pulled, PluggedIn, vars, usbVars, linkVars
  <1> QED BY <1>1, <1>2, <1>3, <1>4 DEF Next, Step, UsbStep

\* What the adapter has taken and sent are messages of a bootstrap.
LEMMA AdapterNext ==
  ASSUME TypeOK, LinkInv, [Next]_vars
  PROVE  AdapterOK'
  <1>0. taken \in [1..MaxDevices -> 0..Stages] /\ pending \in Seq(1..Stages)
    BY DEF TypeOK
  <1>1. CASE UNCHANGED adapterVars
    BY <1>0, <1>1 DEF AdapterOK, adapterVars
  <1>2. CASE UNCHANGED taken /\ Closed
    BY <1>0, <1>2, EmptySeq DEF AdapterOK, Closed
  <1>3. ASSUME Receives(handle, call.stage) PROVE AdapterOK'
    <2>1. call.stage \in 1..Stages /\ call.stage \in 0..Stages
      BY CallTyped, UsbBoundsAssumption
    <2>2. CASE UNCHANGED adapterVars
      BY <1>1, <2>2
    <2>3. CASE /\ taken' = [taken EXCEPT ![handle] =
                               IF call.stage > @ THEN call.stage ELSE @]
               /\ pending' \in {pending, Append(pending, call.stage)}
      <3>1. Append(pending, call.stage) \in Seq(1..Stages)
        BY <2>1, Replies
      <3>2. taken' \in [1..MaxDevices -> 0..Stages]
        BY <1>0, <2>1, <2>3
      <3> QED BY <1>0, <2>3, <3>1, <3>2 DEF AdapterOK
    <2> QED BY <1>3, <2>2, <2>3 DEF Receives
  <1>4. CASE StartsAttempt
    BY <1>0, <1>4, Replies DEF StartsAttempt, AdapterOK
  <1>5. CASE HearsAnother \/ HearsReply
    <2>1. taken' = taken /\ pending' \in Suffixes(pending)
      BY <1>5, Replies DEF HearsAnother, HearsReply, Hears
    <2> QED BY <1>0, <2>1, Replies DEF AdapterOK
  <1>6. ASSUME NEW d \in Devices, Pulled(d) PROVE AdapterOK'
    <2>0. 0 \in 0..Stages
      BY UsbBoundsAssumption
    <2>1. [taken EXCEPT ![d] = 0] \in [1..MaxDevices -> 0..Stages]
      BY <1>0, <2>0
    <2> QED BY <1>0, <1>6, <2>1, EmptySeq DEF Pulled, AdapterOK
  <1>7. ASSUME NEW s \in Selectors, OpensNamedNode(s) \/ OpensNodes(s) \/ OpensUsb(s)
        PROVE  AdapterOK'
    BY <1>2, <1>7 DEF OpensNamedNode, OpensNodes, OpensUsb
  <1>8. CASE NotFound \/ Close
    BY <1>2, <1>8 DEF NotFound, Close
  <1>9. CASE Sends \/ SendFails
    BY <1>1, <1>3, <1>9 DEF Sends, SendFails
  <1>10. CASE \/ Skips \/ Opens \/ Rejects \/ Accepts \/ NextPass \/ ClaimFails \/ Claims
              \/ NoReply \/ BootstrapEnds \/ Transfers \/ TransferFails
              \/ NodeOpens \/ NodeFails \/ NoNodeLeft \/ Write \/ NoContext
              \/ (\E d \in Devices : PluggedIn(d)) \/ UNCHANGED vars
    BY <1>1, <1>10
    DEF Skips, Opens, Rejects, Accepts, NextPass, ClaimFails, Claims, NoReply,
        BootstrapEnds, Transfers, TransferFails, NodeOpens, NodeFails, NoNodeLeft, Write,
        UsbWrite, NoContext, PluggedIn, vars, usbVars
  <1> QED BY <1>4, <1>5, <1>6, <1>7, <1>8, <1>9, <1>10 DEF Next, Step, UsbStep, UsbMeets

\* The locals of the call keep their types, and a call that runs is somewhere.
LEMMA CallNext ==
  ASSUME TypeOK, LinkInv, [Next]_vars
  PROVE  CallOK'
  <1>0. /\ Calls' = Calls /\ CallOK
        /\ {"scan", "candidate", "claim", "attempt", "send", "wait", "booted", "failed",
            "raw", "nodes", "none"} \subseteq Places
        /\ {STATUS_NOERROR, ERR_FAILED, ERR_NOT_INITIALIZED} \cup TransferStatuses
             \subseteq Statuses
    <2>1. UNCHANGED bus
      BY WorldSame
    <2> QED BY <2>1, SameCalls, TypeParts DEF Places, Statuses, TransferStatuses
  <1>1. ASSUME NEW status \in Statuses, Returns(status) PROVE CallOK'
    BY <1>0, <1>1, ReturnsEffect, CallTyped DEF CallOK
  <1>2. ASSUME UNCHANGED ret, call' \in Calls, call'.op # "none", call'.at # "none"
        PROVE  CallOK'
    BY <1>0, <1>2 DEF CallOK
  <1>3. CASE Skips \/ Rejects \/ Opens \/ Accepts \/ NextPass
    <2>1. call' \in Calls /\ call'.op = call.op /\ call'.at # "none" /\ call.at # "none"
      BY <1>0, <1>3, GoesOnEffect, GoesEffect, AcceptsEffect, NextPassEffect
      DEF Skips, Rejects, Opens, Accepts, NextPass, Scanning, PassEnds, At
    <2>2. call.op # "none" /\ UNCHANGED ret
      BY <1>3, <2>1, CallTyped DEF Skips, Rejects, Opens, Accepts, NextPass
    <2> QED BY <1>2, <2>1, <2>2
  <1>4. CASE NotFound \/ ClaimFails \/ NoContext \/ Transfers \/ TransferFails \/ NodeOpens
    BY <1>0, <1>1, <1>4
    DEF NotFound, ClaimFails, NoContext, Transfers, TransferFails, NodeOpens
  <1>5. CASE Claims
    <2>1. CASE Returns(STATUS_NOERROR)
      BY <1>0, <1>1, <2>1
    <2>2. CASE call' = Call("open", "attempt", call.selector) /\ UNCHANGED ret
      BY <1>0, <1>2, <2>2, CallTyped, BeginsEffect
    <2> QED BY <1>5, <2>1, <2>2 DEF Claims
  <1>6. CASE StartsAttempt \/ Sends \/ SendFails \/ HearsReply \/ NoReply
    <2>1. call' \in Calls /\ call'.op = call.op /\ call'.at # "none" /\ call.at # "none"
      BY <1>0, <1>6, GoesEffect, AttemptFailsEffect, NextStageEffect
      DEF StartsAttempt, Sends, SendFails, HearsReply, StageEnds, Hears, NoReply, At
    <2>2. call.op # "none" /\ UNCHANGED ret
      BY <1>6, <2>1, CallTyped DEF StartsAttempt, Sends, SendFails, HearsReply, NoReply
    <2> QED BY <1>2, <2>1, <2>2
  <1>7. CASE HearsAnother \/ (\E d \in Devices : PluggedIn(d)) \/ UNCHANGED vars
    BY <1>0, <1>7 DEF HearsAnother, PluggedIn, vars, usbVars, CallOK
  <1>8. ASSUME NEW d \in Devices, Pulled(d) PROVE CallOK'
    <2>1. UNCHANGED ret
      BY <1>8 DEF Pulled
    <2> QED BY <1>0, <1>8, <2>1, PulledEffect DEF CallOK
  <1>9. CASE BootstrapEnds
    <2>1. CASE Goes("raw") /\ UNCHANGED ret
      BY <1>0, <1>2, <1>9, <2>1, GoesEffect, CallTyped DEF BootstrapEnds, At
    <2> QED BY <1>0, <1>1, <1>9, <2>1 DEF BootstrapEnds
  <1>10. CASE NodeFails \/ NoNodeLeft
    <2>1. call' \in Calls /\ call'.op # "none" /\ call'.at # "none" /\ UNCHANGED ret
      BY <1>10, NextNodeEffect, ScansEffect, CallTyped DEF NodeFails, NoNodeLeft, At
    <2> QED BY <1>2, <2>1
  <1>11. ASSUME NEW s \in Selectors, OpensNodes(s) \/ OpensUsb(s) PROVE CallOK'
    <2>1. call' \in Calls /\ call'.op # "none" /\ call'.at # "none" /\ ret' = NoReturn
      BY <1>0, <1>11, BeginsEffect, ScansEffect DEF OpensNodes, OpensUsb
    <2> QED BY <1>0, <2>1 DEF CallOK, NoReturn
  <1>12. ASSUME NEW s \in Selectors, OpensNamedNode(s) PROVE CallOK'
    BY <1>0, <1>12, EndsEffect DEF OpensNamedNode, CallOK
  <1>13. CASE Close
    BY <1>0, <1>13, EndsEffect, Selected DEF Close, CallOK
  <1>14. CASE Write
    <2>1. CASE UNCHANGED call
      <3>1. CASE ret' = [op |-> "write", status |-> ERR_NOT_INITIALIZED]
        BY <1>0, <2>1, <3>1 DEF CallOK
      <3>2. CASE ret' \in [op : {"write"},
                                 status : TransferStatuses \cup {ERR_NOT_INITIALIZED}]
        BY <1>0, <2>1, <3>2 DEF CallOK
      <3>3. CASE ret' = NoReturn
        BY <1>0, <2>1, <3>3 DEF CallOK, NoReturn
      <3> QED BY <1>14, <3>1, <3>2, <3>3 DEF Write, UsbWrite
    <2>2. CASE /\ ret' = NoReturn
               /\ \E p \in {"attempt", "raw"} : call' = Call("write", p, NoSelector)
      BY <1>0, <2>2, BeginsEffect, Selected DEF CallOK, NoReturn
    <2> QED BY <1>14, <2>1, <2>2 DEF Write, UsbWrite
  <1> QED BY <1>3, <1>4, <1>5, <1>6, <1>7, <1>8, <1>9, <1>10, <1>11, <1>12, <1>13, <1>14
       DEF Next, Step, UsbStep, UsbMeets

\* Every step keeps the types.
LEMMA TypeNext ==
  ASSUME TypeOK, LinkInv, [Next]_vars
  PROVE  TypeOK'
  <1>1. LinkOK'
    BY LinkNext DEF LinkInv
  <1>2. WorldOK' /\ FlagsOK' /\ AdapterOK' /\ CallOK'
    BY WorldNext, FlagsNext, AdapterNext, CallNext
  <1> QED BY <1>1, <1>2 DEF TypeOK, WorldOK, LinkOK, FlagsOK, AdapterOK, CallOK

----------------------------------------------------------------------------
(* The bootstrap: what the replies that are waited for, and the ones left  *)
(* over, say of the messages the adapter has taken.                        *)

HandleWorks == handle # NoDevice /\ handle \notin dead

BootInv ==
  /\ handle = NoDevice => pending = <<>>
  /\ HandleWorks =>
       \A i \in 1..Len(pending) : bus[handle].boots /\ pending[i] <= taken[handle]
  /\ HandleWorks /\ miniVciReady /\ miniVciMode =>
       bus[handle].boots /\ taken[handle] = Stages

\* The bootstrap invariant holds before the first call.
LEMMA BootInit == Init => BootInv
  BY DEF Init, UsbInit, BootInv, HandleWorks

\* A step away from the adapter.
LEMMA BootApart ==
  ASSUME BootInv, UNCHANGED <<bus, handle, dead, taken, pending>>,
         miniVciReady' /\ miniVciMode' => miniVciReady /\ miniVciMode
  PROVE  BootInv'
  BY DEF BootInv, HandleWorks, NoDevice

\* A close leaves no reply behind.
LEMMA BootClosed ==
  ASSUME Closed
  PROVE  BootInv'
  BY DEF Closed, NoDevice, BootInv, HandleWorks

\* A search has no adapter yet, so no reply either.
LEMMA BootSearches ==
  ASSUME TypeOK, LinkInv, BootInv,
         \/ Skips \/ Opens \/ Rejects \/ Accepts \/ NextPass \/ NotFound \/ ClaimFails
         \/ NoContext
  PROVE  BootInv'
  <1>1. CASE NotFound
    BY <1>1, BootClosed DEF NotFound
  <1>2. CASE Rejects \/ Accepts
    <2>1. /\ handle = NoDevice /\ pending = <<>>
          /\ UNCHANGED <<pending, miniVciReady>> /\ ~miniVciReady
      BY <1>2 DEF LinkInv, PlaceInv, Rejects, Accepts, At, BootInv, adapterVars
    <2> QED BY <2>1 DEF BootInv, HandleWorks
  <1>3. CASE Skips \/ Opens \/ NextPass \/ ClaimFails \/ NoContext
    <2>1. UNCHANGED <<bus, handle, dead, taken, pending, miniVciReady, miniVciMode>>
      BY <1>3 DEF Skips, Opens, NextPass, ClaimFails, NoContext, busVars, linkVars,
                  adapterVars
    <2> QED BY <2>1, BootApart
  <1> QED BY <1>1, <1>2, <1>3

\* A Mini-VCI that is claimed is not ready.
LEMMA BootClaims ==
  ASSUME BootInv, Claims
  PROVE  BootInv'
  <1>1. /\ UNCHANGED <<bus, handle, dead, taken, pending>>
        /\ ~(miniVciReady' /\ miniVciMode')
    BY DEF Claims, busVars, adapterVars
  <1> QED BY <1>1, BootApart

\* What the adapter has taken only grows, and its reply is to a message it has
\* taken; so it is also where the transfer fails.
LEMMA BootSends ==
  ASSUME TypeOK, LinkInv, BootInv, Sends \/ SendFails
  PROVE  BootInv'
  <1>1. /\ UNCHANGED <<bus, handle, dead, miniVciReady, miniVciMode>>
        /\ ~miniVciReady
    BY DEF Sends, SendFails, busVars, linkVars, LinkInv, PlaceInv, At, Booting
  <1>2. CASE UNCHANGED adapterVars
    BY <1>1, <1>2, BootApart DEF adapterVars
  <1>3. CASE /\ bus[handle].boots
             /\ taken' = [taken EXCEPT ![handle] =
                             IF call.stage > @ THEN call.stage ELSE @]
             /\ pending' \in {pending, Append(pending, call.stage)}
    <2>1. handle \in 1..MaxDevices
      <3>1. handle # NoDevice
        BY DEF Sends, SendFails, LinkInv, PlaceInv, FlagInv, Booting, At
      <3> QED BY <3>1, UsbBoundsAssumption DEF TypeOK, Devices
    <2>2. /\ call.stage \in 1..Stages /\ Stages \in Nat /\ taken[handle] \in 0..Stages
          /\ taken'[handle] = IF call.stage > taken[handle] THEN call.stage
                              ELSE taken[handle]
      BY <1>3, <2>1, CallTyped, UsbBoundsAssumption DEF TypeOK
    <2>3. taken'[handle] >= taken[handle] /\ taken'[handle] >= call.stage
      BY <2>2
    <2>4. ASSUME HandleWorks, NEW i \in 1..Len(pending')
          PROVE  pending'[i] <= taken'[handle]
      <3>1. pending'[i] = call.stage \/ \E j \in 1..Len(pending) : pending'[i] = pending[j]
        BY <1>3, <2>2, Replies
      <3>2. \A j \in 1..Len(pending) : pending[j] <= taken[handle] /\ pending[j] \in 1..Stages
        BY <2>4, Replies DEF BootInv
      <3> QED BY <2>2, <2>3, <3>1, <3>2
    <2>5. HandleWorks' <=> HandleWorks
      BY <1>1 DEF HandleWorks, NoDevice
    <2>6. handle # NoDevice /\ NoDevice' = NoDevice
      BY <2>1 DEF NoDevice
    <2> QED BY <1>1, <1>3, <2>4, <2>5, <2>6 DEF BootInv
  <1> QED BY <1>2, <1>3 DEF Sends, SendFails, Receives, adapterVars

\* What is flushed or read leaves replies to messages that were taken, and the
\* reply to the last message means that all were.
LEMMA BootHears ==
  ASSUME TypeOK, LinkInv, BootInv, StartsAttempt \/ HearsAnother \/ HearsReply \/ NoReply
  PROVE  BootInv'
  <1>1. /\ UNCHANGED <<bus, handle, dead, taken, miniVciMode>>
        /\ call.at \in {"attempt", "wait"} /\ ~miniVciReady
    BY DEF StartsAttempt, HearsAnother, HearsReply, Hears, NoReply, busVars, linkVars,
           adapterVars, LinkInv, PlaceInv, At, Booting
  <1>2. HandleWorks' <=> HandleWorks
    BY <1>1 DEF HandleWorks, NoDevice
  <1>3. /\ handle = NoDevice => pending' = <<>>
        /\ HandleWorks =>
             \A i \in 1..Len(pending') : bus[handle].boots /\ pending'[i] <= taken[handle]
    <2>1. CASE pending' \in Suffixes(pending)
      BY <2>1, Replies DEF BootInv
    <2>2. CASE pending' = pending
      BY <2>2 DEF BootInv
    <2> QED BY <2>1, <2>2, Replies
            DEF StartsAttempt, HearsAnother, HearsReply, Hears, NoReply, adapterVars
  <1>4. CASE ~miniVciReady'
    BY <1>1, <1>2, <1>3, <1>4 DEF BootInv, NoDevice
  <1>5. CASE miniVciReady'
    <2>1. HearsReply /\ ~(call.stage < Stages)
      BY <1>1, <1>5 DEF StartsAttempt, HearsAnother, HearsReply, StageEnds, NoReply, linkVars
    <2>2. PICK i \in 1..Len(pending) : FitsStage(pending[i])
      <3>1. PICK n \in 1..Len(pending) : \E i \in 1..n : FitsStage(pending[i])
        BY <2>1 DEF HearsReply, Hears
      <3>2. 1..n \subseteq 1..Len(pending)
        BY <3>1, Replies
      <3> QED BY <3>1, <3>2
    <2>3. /\ call.stage = Stages /\ Stages \in Nat /\ pending[i] \in 1..Stages
      BY <2>1, <2>2, CallTyped, Replies, UsbBoundsAssumption
    <2>4. pending[i] = Stages
      BY <2>2, <2>3 DEF FitsStage
    <2>5. ASSUME HandleWorks PROVE bus[handle].boots /\ taken[handle] = Stages
      <3>1. bus[handle].boots /\ Stages <= taken[handle]
        BY <2>2, <2>4, <2>5 DEF BootInv
      <3>2. taken[handle] \in 0..Stages
        BY <2>5, UsbBoundsAssumption DEF HandleWorks, NoDevice, TypeOK, Devices
      <3> QED BY <2>3, <3>1, <3>2
    <2> QED BY <1>1, <1>2, <1>3, <2>5 DEF BootInv, NoDevice
  <1> QED BY <1>4, <1>5

\* What follows the bootstrap, and the calls without one.
LEMMA BootEnds ==
  ASSUME BootInv,
         BootstrapEnds \/ Transfers \/ TransferFails \/ NodeOpens \/ NodeFails \/ Write
  PROVE  BootInv'
  <1>1. UNCHANGED <<bus, handle, dead, taken, pending, miniVciReady, miniVciMode>>
    BY DEF BootstrapEnds, Transfers, TransferFails, NodeOpens, NodeFails, Write, UsbWrite,
           busVars, linkVars, adapterVars
  <1> QED BY <1>1, BootApart

\* The calls that close first, and the serial nodes.
LEMMA BootOpens ==
  ASSUME BootInv,
         \/ Close \/ NoNodeLeft
         \/ \E s \in Selectors : OpensNamedNode(s) \/ OpensNodes(s) \/ OpensUsb(s)
  PROVE  BootInv'
  <1>1. CASE NoNodeLeft
    <2>1. UNCHANGED <<bus, handle, dead, taken, pending, miniVciReady, miniVciMode>>
      BY <1>1 DEF NoNodeLeft, busVars, linkVars, adapterVars
    <2> QED BY <2>1, BootApart
  <1>2. CASE ~NoNodeLeft
    BY <1>2, BootClosed DEF Close, OpensNamedNode, OpensNodes, OpensUsb
  <1> QED BY <1>1, <1>2

\* An adapter that is pulled forgets, but its handle works no more.
LEMMA BootBus ==
  ASSUME TypeOK, LinkInv, BootInv, NEW d \in Devices, Pulled(d) \/ PluggedIn(d)
  PROVE  BootInv'
  <1>1. CASE PluggedIn(d)
    BY <1>1 DEF PluggedIn, linkVars, adapterVars, BootInv, HandleWorks, NoDevice
  <1>2. CASE Pulled(d)
    <2>1. /\ call'.at = call.at /\ call'.stage = call.stage
          /\ UNCHANGED <<bus, handle, opened, miniVciMode, miniVciReady>>
          /\ dead' = dead \cup ({d} \cap opened)
      BY <1>2, PulledEffect DEF Pulled
    <2>2. CASE d = handle
      <3>1. handle \in dead' /\ pending' = <<>>
        <4>1. handle # NoDevice
          BY <2>2 DEF Devices, NoDevice
        <4>2. handle \in opened
          BY <4>1 DEF LinkInv, OneLink
        <4> QED BY <1>2, <2>1, <2>2, <4>2 DEF Pulled
      <3> QED BY <2>1, <3>1 DEF BootInv, HandleWorks, NoDevice
    <2>3. CASE d # handle
      <3>1. pending' = pending /\ (HandleWorks' => HandleWorks)
        BY <1>2, <2>1, <2>3 DEF Pulled, HandleWorks, NoDevice
      <3>2. taken'[handle] = taken[handle]
        BY <1>2, <2>3 DEF Pulled, TypeOK
      <3> QED BY <2>1, <3>1, <3>2 DEF BootInv, NoDevice
    <2> QED BY <2>2, <2>3
  <1> QED BY <1>1, <1>2

\* Every step keeps the bootstrap invariant.
LEMMA BootNext ==
  ASSUME TypeOK, LinkInv, BootInv, [Next]_vars
  PROVE  BootInv'
  <1>1. CASE UNCHANGED vars
    BY <1>1 DEF vars, usbVars, linkVars, adapterVars, busVars, BootInv, HandleWorks,
                NoDevice
  <1>2. CASE Next
    BY <1>2, BootSearches, BootClaims, BootSends, BootHears, BootEnds, BootOpens, BootBus
    DEF Next, Step, UsbStep, UsbMeets
  <1> QED BY <1>1, <1>2

----------------------------------------------------------------------------
(* The search: what has been passed by.                                    *)

Usable(d, p) ==
  LET target == Targets(call.selector)[p]
  IN  LooksAt(d, target) /\ bus[d].opens /\ Fits(d, target)

SearchInv ==
  Searching =>
    /\ call.pass \in Passes(call.selector)
    /\ call.there \subseteq plugged /\ call.there \cap dead = {}
    /\ call.at # "claim" => call.there \subseteq call.listed
    /\ call.at # "scan" => LooksAt(call.device, Target)
    /\ call.at = "claim" => Fits(call.device, Target)
    /\ \A p \in Passes(call.selector), d \in call.there : PassedBy(p, d) => ~Usable(d, p)

\* The search invariant has FirstUsableWins as a part.
LEMMA SearchGives == SearchInv => FirstUsableWins
  BY DEF SearchInv, FirstUsableWins, Usable

\* The first pass is for the ID of the selector, and the only one when it names
\* a device.
LEMMA TargetsBegin ==
  ASSUME NEW s \in Selectors
  PROVE  /\ 1 \in Passes(s) /\ Targets(s)[1] = s.id
         /\ s.kind = "device" => Passes(s) = {1}
         /\ Passes(s) \subseteq Nat
  <1> DEFINE Names == STRING \cup {AnyId}
  <1>1. s.id \in Names /\ AnyId \in Names /\ KnownIds \in Seq(Names)
    <2>1. s.id \in STRING /\ KnownIds \in Seq(STRING)
      BY KindsAssumption
    <2> QED BY <2>1
  <1> HIDE DEF Names
  <1>2. CASE s.kind = "device"
    <2>1. Targets(s) = <<s.id>> /\ Len(<<s.id>>) = 1 /\ <<s.id>>[1] = s.id
      BY <1>2 DEF Targets
    <2> QED BY <2>1 DEF Passes
  <1>3. CASE s.kind # "device"
    <2>1. Targets(s) = (<<s.id>> \o KnownIds) \o <<AnyId>>
      BY <1>3 DEF Targets
    <2>2. /\ <<s.id>> \in Seq(Names) /\ Len(<<s.id>>) = 1 /\ <<s.id>>[1] = s.id
          /\ <<AnyId>> \in Seq(Names) /\ Len(KnownIds) \in Nat /\ Len(<<AnyId>>) = 1
      BY <1>1, LenProperties
    <2>3. /\ <<s.id>> \o KnownIds \in Seq(Names)
          /\ Len(<<s.id>> \o KnownIds) = 1 + Len(KnownIds)
          /\ (<<s.id>> \o KnownIds)[1] = s.id
      BY <1>1, <2>2, ConcatProperties
    <2>4. /\ Len(Targets(s)) = 1 + Len(KnownIds) + 1
          /\ Targets(s)[1] = s.id
      BY <2>1, <2>2, <2>3, ConcatProperties
    <2> QED BY <1>3, <2>2, <2>4 DEF Passes
  <1> QED BY <1>2, <1>3

\* No search runs in the initial states.
LEMMA SearchInit == Init => SearchInv
  BY DEF Init, UsbInit, NoCall, Call, SearchInv, Searching

\* A call that is no search, or no longer one.
LEMMA SearchOver ==
  ASSUME call'.at \notin {"scan", "candidate", "claim"}
  PROVE  SearchInv'
  BY DEF SearchInv, Searching

\* A search has passed by nobody when it begins, and all that are plugged in
\* have been there since.
LEMMA SearchBegins ==
  ASSUME TypeOK, NEW s \in Selectors, ScansFor(s), dead' = {}, UNCHANGED plugged
  PROVE  SearchInv'
  <1>1. /\ call'.at = "scan" /\ call'.selector = s /\ call'.pass = 1
        /\ call'.device = 1 /\ call'.listed = plugged /\ call'.there = plugged
    BY ScansEffect
  <1>2. Passes(s)' = Passes(s)
    BY DEF Passes, Targets
  <1>3. \A p \in Passes(s), d \in plugged : ~PassedBy(p, d)'
    <2>1. \A p \in Passes(s), d \in plugged : p \in Nat /\ p >= 1 /\ d \in Nat /\ d >= 1
      BY DEF Passes, TypeOK, Devices
    <2> QED BY <1>1, <2>1 DEF PassedBy
  <1> QED BY <1>1, <1>2, <1>3, TargetsBegin DEF SearchInv

\* What a step that changes neither the bus nor what is asked for keeps.
LEMMA SameSearch ==
  ASSUME UNCHANGED bus, call'.selector = call.selector
  PROVE  /\ Passes(call.selector)' = Passes(call.selector)
         /\ \A p, d : Usable(d, p)' <=> Usable(d, p)
         /\ call'.pass = call.pass /\ call'.device = call.device =>
              /\ \A p, d : PassedBy(p, d)' <=> PassedBy(p, d)
              /\ LooksAt(call.device, Target)' <=> LooksAt(call.device, Target)
              /\ Fits(call.device, Target)' <=> Fits(call.device, Target)
  <1>1. Passes(call.selector)' = Passes(call.selector)
    BY DEF Passes, Targets
  <1>2. \A p, d : Usable(d, p)' <=> Usable(d, p)
    BY DEF Usable, Targets, LooksAt, Fits
  <1>3. ASSUME call'.pass = call.pass, call'.device = call.device
        PROVE  /\ \A p, d : PassedBy(p, d)' <=> PassedBy(p, d)
               /\ LooksAt(call.device, Target)' <=> LooksAt(call.device, Target)
               /\ Fits(call.device, Target)' <=> Fits(call.device, Target)
    BY <1>3 DEF PassedBy, LooksAt, Fits, Target, Targets
  <1> QED BY <1>1, <1>2, <1>3

\* Who is passed by and was there all the time could not be used.
LEMMA SearchPassesBy ==
  ASSUME TypeOK, LinkInv, SearchInv, Skips \/ Rejects
  PROVE  SearchInv'
  <1>1. /\ call'.at = "scan" /\ call'.selector = call.selector /\ call'.pass = call.pass
        /\ call'.device = call.device + 1 /\ call'.listed = call.listed
        /\ call'.there = call.there /\ UNCHANGED <<bus, plugged>>
    BY GoesOnEffect DEF Skips, Rejects, busVars
  <1>2. /\ call.at \in {"scan", "candidate"} /\ call.op = "open" /\ Searching
        /\ call.device \in Nat
    BY CallTyped DEF Skips, Rejects, Scanning, At, LinkInv, PlaceInv, Searching
  <1>3. dead' \subseteq dead
    BY DEF Skips, Rejects, linkVars
  <1>4. call.device \in call.there => ~Usable(call.device, call.pass)
    <2>1. CASE Skips
      <3>1. call.device \in call.there =>
              ~LooksAt(call.device, Target) \/ ~bus[call.device].opens
        BY <1>2, <2>1 DEF Skips, CanBeOpened, SearchInv, Scanning, At
      <3> QED BY <3>1 DEF Usable, Target
    <2>2. CASE Rejects
      <3>1. call.device \in call.there => ~Fits(call.device, Target)
        BY <1>2, <2>2 DEF Rejects, SearchInv
      <3> QED BY <3>1 DEF Usable, Target
    <2> QED BY <2>1, <2>2
  <1>5. ASSUME NEW p \in Passes(call.selector), NEW d \in call.there, PassedBy(p, d)'
        PROVE  PassedBy(p, d) \/ (p = call.pass /\ d = call.device)
    <2>1. d \in Nat
      BY CallTyped DEF Devices
    <2> QED BY <1>1, <1>2, <1>5, <2>1 DEF PassedBy
  <1>6. ASSUME NEW p \in Passes(call.selector), NEW d \in call.there, PassedBy(p, d)'
        PROVE  ~Usable(d, p)
    BY <1>2, <1>4, <1>5, <1>6 DEF SearchInv
  <1> QED BY <1>1, <1>2, <1>3, <1>6, SameSearch DEF SearchInv

\* A candidate is one of the target; one that is accepted fits.
LEMMA SearchFinds ==
  ASSUME TypeOK, LinkInv, SearchInv, Opens \/ Accepts
  PROVE  SearchInv'
  <1>0. "candidate" \in Places
    BY DEF Places
  <1>1. /\ call'.at \in {"candidate", "claim"} /\ call'.selector = call.selector
        /\ call'.pass = call.pass /\ call'.device = call.device
        /\ call'.there = call.there /\ UNCHANGED <<bus, plugged, dead>>
        /\ call'.at # "claim" => call'.listed = call.listed
        /\ call.at \in {"scan", "candidate"}
    BY <1>0, GoesEffect, AcceptsEffect DEF Opens, Accepts, busVars, Scanning, At
  <1>2. Searching /\ LooksAt(call.device, Target)
    BY <1>1 DEF Opens, Accepts, CanBeOpened, LinkInv, PlaceInv, Searching, SearchInv, At
  <1>3. call'.at = "claim" => Fits(call.device, Target)
    BY <1>0, GoesEffect DEF Opens, Accepts
  <1> QED BY <1>1, <1>2, <1>3, SameSearch DEF SearchInv

\* The next pass begins when all devices are passed by, and skips only a second
\* look for the default ID.
LEMMA SearchesOn ==
  ASSUME TypeOK, LinkInv, SearchInv, NextPass
  PROVE  SearchInv'
  <1>1. /\ call'.at = "scan" /\ call.at = "scan" /\ call'.selector = call.selector
        /\ call'.pass \in LaterPasses /\ (\A q \in LaterPasses : call'.pass <= q)
        /\ call'.device = 1 /\ call'.listed = plugged
        /\ call'.there = call.there /\ UNCHANGED <<bus, plugged, dead>>
    BY NextPassEffect DEF NextPass, PassEnds, At, busVars, linkVars
  <1>2. Searching /\ call.device \in Nat /\ call.device >= 1 /\ call.device \notin Devices
    BY <1>1, CallTyped DEF NextPass, PassEnds, LinkInv, PlaceInv, Searching
  <1>3. call'.pass \in Passes(call.selector) /\ Passes(call.selector) \subseteq Nat
    BY <1>1, CallTyped, TargetsBegin DEF LaterPasses
  <1>4. ASSUME NEW p \in Passes(call.selector), NEW d \in call.there, PassedBy(p, d)'
        PROVE  PassedBy(p, d)
    <2>1. d \in 1..Len(bus) /\ Len(bus) \in Nat
      BY CallTyped, LenProperties DEF Devices, TypeOK
    <2>2. p < call'.pass
      BY <1>1, <1>4, <2>1 DEF PassedBy
    <2>3. p \in Nat /\ call.pass \in Nat /\ call'.pass \in Nat /\ p <= call.pass
      BY <1>1, <1>3, <2>2, CallTyped DEF LaterPasses
    <2>4. d < call.device
      BY <1>2, <2>1 DEF Devices
    <2> QED BY <2>3, <2>4 DEF PassedBy
  <1> QED BY <1>1, <1>2, <1>3, <1>4, SameSearch DEF SearchInv

\* Who is pulled was not there all the time; who comes was not either.
LEMMA SearchBus ==
  ASSUME TypeOK, SearchInv, NEW d \in Devices, Pulled(d) \/ PluggedIn(d)
  PROVE  SearchInv'
  <1>1. CASE Pulled(d)
    <2>1. /\ call'.op = call.op /\ call'.at = call.at /\ call'.selector = call.selector
          /\ call'.pass = call.pass
          /\ call'.device = call.device /\ call'.listed = call.listed
          /\ call'.there = call.there \ {d} /\ plugged' = plugged \ {d}
          /\ dead' = dead \cup ({d} \cap opened) /\ UNCHANGED bus
      BY <1>1, PulledEffect DEF Pulled
    <2>2. Searching' <=> Searching
      BY <2>1 DEF Searching
    <2> QED BY <2>1, <2>2, SameSearch DEF SearchInv
  <1>2. CASE PluggedIn(d)
    <2>1. /\ UNCHANGED <<call, bus, dead>> /\ plugged \subseteq plugged'
      BY <1>2 DEF PluggedIn, linkVars
    <2> QED BY <2>1, SameSearch DEF SearchInv, Searching
  <1> QED BY <1>1, <1>2

\* Every step keeps the search invariant.
LEMMA SearchNext ==
  ASSUME TypeOK, LinkInv, SearchInv, [Next]_vars
  PROVE  SearchInv'
  <1>0. {"attempt", "send", "wait", "booted", "raw", "nodes"} \subseteq Places
    BY DEF Places
  <1>1. CASE \/ NotFound \/ ClaimFails \/ NoContext \/ Transfers \/ TransferFails
             \/ NodeOpens \/ BootstrapEnds
    BY <1>0, <1>1, ReturnsEffect, GoesEffect, SearchOver
    DEF NotFound, ClaimFails, NoContext, Transfers, TransferFails, NodeOpens, BootstrapEnds
  <1>2. CASE Claims
    <2>1. CASE miniVciMode' /\ bootstrap # "off"
      BY <1>0, <1>2, <2>1, CallTyped, BeginsEffect, SearchOver DEF Claims
    <2>2. CASE ~(miniVciMode' /\ bootstrap # "off")
      BY <1>2, <2>2, ReturnsEffect, SearchOver DEF Claims
    <2> QED BY <2>1, <2>2
  <1>3. CASE StartsAttempt \/ Sends \/ SendFails \/ NoReply
    BY <1>0, <1>3, GoesEffect, AttemptFailsEffect, SearchOver
    DEF StartsAttempt, Sends, SendFails, NoReply
  <1>4. CASE HearsAnother
    BY <1>4, SearchOver DEF HearsAnother, Hears, At
  <1>5. CASE HearsReply
    BY <1>0, <1>5, NextStageEffect, GoesEffect, SearchOver DEF HearsReply, StageEnds
  <1>6. CASE NodeFails
    BY <1>6, NextNodeEffect, SearchOver DEF NodeFails, At
  <1>7. CASE NoNodeLeft
    <2>1. dead' = {} /\ UNCHANGED plugged
      BY <1>7 DEF NoNodeLeft, linkVars, busVars, LinkInv, OneLink, PlaceInv, LinkOK, At
    <2> QED BY <1>7, <2>1, CallTyped, SearchBegins DEF NoNodeLeft
  <1>8. CASE Close \/ Write
    <2>1. CASE Close
      BY <2>1, Selected, EndsEffect, SearchOver DEF Close
    <2>2. CASE Write
      BY <1>0, <2>2, CallTyped, BeginsEffect, Selected, SearchOver
      DEF Write, UsbWrite, Idle
    <2> QED BY <1>8, <2>1, <2>2
  <1>9. ASSUME NEW s \in Selectors, OpensNamedNode(s) \/ OpensNodes(s)
        PROVE  SearchInv'
    BY <1>0, <1>9, EndsEffect, BeginsEffect, SearchOver DEF OpensNamedNode, OpensNodes
  <1>10. ASSUME NEW s \in Selectors, OpensUsb(s) PROVE SearchInv'
    <2>1. dead' = {}
      BY <1>10, CallTyped DEF OpensUsb, Closed, Idle, LinkInv, OneLink, LinkOK, At
    <2> QED BY <1>10, <2>1, SearchBegins DEF OpensUsb, busVars
  <1>11. CASE UNCHANGED vars
    BY <1>11, SameSearch
    DEF vars, usbVars, busVars, linkVars, SearchInv, Searching
  <1> QED BY <1>1, <1>2, <1>3, <1>4, <1>5, <1>6, <1>7, <1>8, <1>9, <1>10, <1>11,
             SearchPassesBy, SearchFinds, SearchesOn, SearchBus
          DEF Next, Step, UsbStep, UsbMeets

----------------------------------------------------------------------------
(* What an open that runs was asked for.                                   *)

AskedInv ==
  /\ call.op = "open" => ~(Dispatches /\ call.selector.kind = "node")
  /\ call.at = "nodes" => TriesNodes(call.selector) /\ call.device >= 1

\* Serial nodes are not tried for a selector that names one.
LEMMA NamesNoNode ==
  ASSUME NEW s \in Selectors, TriesNodes(s)
  PROVE  s.kind # "node"
  BY KindsAssumption DEF TriesNodes

\* A call that goes on is asked for what it was.
LEMMA AskedStill ==
  ASSUME AskedInv, UNCHANGED platform, call'.op = call.op,
         call'.selector = call.selector, call'.at # "nodes"
  PROVE  AskedInv'
  BY DEF AskedInv, Dispatches, TriesNodes

\* No open runs any more, or none does yet.
LEMMA AskedNothing ==
  ASSUME call'.op # "open", call'.at # "nodes"
  PROVE  AskedInv'
  BY DEF AskedInv

\* Nothing has been asked for in the initial states.
LEMMA AskedInit == Init => AskedInv
  BY DEF Init, UsbInit, NoCall, Call, AskedInv

\* Every step keeps it: the dispatcher has decided before.
LEMMA AskedNext ==
  ASSUME TypeOK, LinkInv, AskedInv, [Next]_vars
  PROVE  AskedInv'
  <1>0. /\ {"candidate", "nodes", "attempt", "send", "wait", "booted", "raw"} \subseteq Places
        /\ UNCHANGED platform
    BY WorldSame DEF Places
  <1>1. CASE Skips \/ Opens \/ Rejects \/ Accepts \/ NextPass
    <2>1. call'.op = call.op /\ call'.selector = call.selector /\ call'.at # "nodes"
      BY <1>0, <1>1, GoesOnEffect, GoesEffect, AcceptsEffect, NextPassEffect
      DEF Skips, Opens, Rejects, Accepts, NextPass, PassEnds, At
    <2> QED BY <1>0, <2>1, AskedStill
  <1>2. CASE StartsAttempt \/ Sends \/ SendFails \/ HearsAnother \/ HearsReply \/ NoReply
    <2>1. call'.op = call.op /\ call'.selector = call.selector /\ call'.at # "nodes"
      <3>1. CASE StartsAttempt \/ Sends \/ SendFails \/ NoReply
        BY <1>0, <3>1, GoesEffect, AttemptFailsEffect
        DEF StartsAttempt, Sends, SendFails, NoReply
      <3>2. CASE HearsAnother
        BY <3>2 DEF HearsAnother, Hears, At
      <3>3. CASE HearsReply
        BY <1>0, <3>3, GoesEffect, NextStageEffect DEF HearsReply, StageEnds
      <3> QED BY <1>2, <3>1, <3>2, <3>3
    <2> QED BY <1>0, <2>1, AskedStill
  <1>3. CASE BootstrapEnds
    <2>1. CASE Goes("raw")
      BY <1>0, <2>1, GoesEffect, AskedStill
    <2>2. ASSUME NEW status, Returns(status) PROVE AskedInv'
      BY <2>2, ReturnsEffect, AskedNothing
    <2> QED BY <1>3, <2>1, <2>2 DEF BootstrapEnds
  <1>4. CASE Claims
    <2>1. CASE call' = Call("open", "attempt", call.selector)
      <3>1. call.op = "open"
        BY <1>4 DEF Claims, At, LinkInv, PlaceInv
      <3>2. call'.op = "open" /\ call'.selector = call.selector /\ call'.at = "attempt"
        BY <1>0, <2>1, CallTyped, BeginsEffect
      <3> QED BY <1>0, <3>1, <3>2, AskedStill
    <2>2. CASE Returns(STATUS_NOERROR)
      BY <2>2, ReturnsEffect, AskedNothing
    <2> QED BY <1>4, <2>1, <2>2 DEF Claims
  <1>5. CASE \/ NotFound \/ ClaimFails \/ NoContext \/ Transfers \/ TransferFails
             \/ NodeOpens
    <2>1. call'.op = "none" /\ call'.at = "none"
      BY <1>5, ReturnsEffect
      DEF NotFound, ClaimFails, NoContext, Transfers, TransferFails, NodeOpens
    <2> QED BY <2>1, AskedNothing
  <1>6. CASE NodeFails
    <2>1. /\ call'.op = call.op /\ call'.at = call.at /\ call'.selector = call.selector
          /\ call'.device = call.device + 1 /\ call.at = "nodes" /\ call.device \in Nat
      BY <1>6, NextNodeEffect, CallTyped DEF NodeFails, At
    <2> QED BY <1>0, <2>1 DEF AskedInv, Dispatches, TriesNodes
  <1>7. CASE NoNodeLeft
    <2>1. call.op = "open" /\ call.at = "nodes"
      BY <1>7 DEF NoNodeLeft, At, LinkInv, PlaceInv
    <2>2. call'.op = "open" /\ call'.selector = call.selector /\ call'.at = "scan"
      BY <1>7, CallTyped, ScansEffect DEF NoNodeLeft
    <2> QED BY <1>0, <2>1, <2>2, AskedStill
  <1>8. ASSUME NEW s \in Selectors, OpensNodes(s) PROVE AskedInv'
    <2>1. TriesNodes(s) /\ call' = Call("open", "nodes", s)
      BY <1>8 DEF OpensNodes
    <2>2. call'.selector = s /\ call'.device = 1
      BY <1>0, <2>1, BeginsEffect
    <2>3. TriesNodes(s)'
      BY <1>0, <2>1 DEF TriesNodes
    <2> QED BY <2>1, <2>2, <2>3, NamesNoNode DEF AskedInv
  <1>9. ASSUME NEW s \in Selectors, OpensUsb(s) PROVE AskedInv'
    <2>1. ~(Dispatches /\ s.kind = "node") /\ ScansFor(s)
      BY <1>9 DEF OpensUsb
    <2>2. call'.selector = s /\ call'.at = "scan"
      BY <2>1, ScansEffect
    <2> QED BY <1>0, <2>1, <2>2 DEF AskedInv, Dispatches
  <1>10. CASE Close \/ Write \/ \E s \in Selectors : OpensNamedNode(s)
    <2>1. call'.op \in {"none", "write"} /\ call'.at # "nodes"
      <3>1. CASE Close \/ \E s \in Selectors : OpensNamedNode(s)
        BY <3>1, Selected, EndsEffect DEF Close, OpensNamedNode
      <3>2. CASE Write
        BY <1>0, <3>2, CallTyped, BeginsEffect, Selected DEF Write, UsbWrite, Idle
      <3> QED BY <1>10, <3>1, <3>2
    <2> QED BY <2>1, AskedNothing
  <1>11. ASSUME NEW d \in Devices, Pulled(d) PROVE AskedInv'
    BY <1>0, <1>11, PulledEffect DEF AskedInv, Dispatches, TriesNodes
  <1>12. CASE (\E d \in Devices : PluggedIn(d)) \/ UNCHANGED vars
    <2>1. UNCHANGED call
      BY <1>12 DEF PluggedIn, vars, usbVars
    <2> QED BY <1>0, <2>1 DEF AskedInv, Dispatches, TriesNodes
  <1> QED BY <1>1, <1>2, <1>3, <1>4, <1>5, <1>6, <1>7, <1>8, <1>9, <1>10, <1>11, <1>12
       DEF Next, Step, UsbStep, UsbMeets

----------------------------------------------------------------------------
(* The promise: what has been found is what was asked for.                 *)

Promised ==
  call.selector.kind = "device" =>
    /\ bus[handle].id = call.selector.id
    /\ call.selector.serial \in {NoSerial, bus[handle].serial}

PromiseInv ==
  /\ call.op = "open" /\ (call.at = "claim" \/ Booting) => Promised
  /\ OpenKeepsPromise

\* No open has returned in the initial states.
LEMMA PromiseInit == Init => PromiseInv
  BY DEF Init, UsbInit, NoCall, Call, NoReturn, PromiseInv, OpenKeepsPromise, Opened

\* A step after which no open has an adapter, or has just returned well.
LEMMA PromiseApart ==
  ASSUME call'.op = "open" => call'.at \in {"nodes", "scan", "candidate"},
         ~(call'.op = "none" /\ ret'.op = "open" /\ ret'.status = STATUS_NOERROR)
  PROVE  PromiseInv'
  <1>1. STATUS_NOERROR' = STATUS_NOERROR
    BY DEF STATUS_NOERROR
  <1>2. ~Opened'
    BY <1>1 DEF Opened, Idle
  <1> QED BY <1>2 DEF PromiseInv, OpenKeepsPromise, Booting

\* Nothing that an open which returned has promised is changed.
LEMMA PromiseKept ==
  ASSUME PromiseInv, UNCHANGED <<bus, bootstrap, handle, claimed, miniVciMode>>,
         UNCHANGED <<miniVciReady, ret, nodesOpen, platform>>,
         call'.op = call.op, call'.at = call.at, call'.selector = call.selector
  PROVE  PromiseInv'
  <1>1. Opened' <=> Opened
    BY DEF Opened, Idle, STATUS_NOERROR
  <1>2. Promised' <=> Promised
    BY DEF Promised
  <1>3. /\ Dispatches' <=> Dispatches
        /\ TriesNodes(call.selector)' <=> TriesNodes(call.selector)
    BY DEF Dispatches, TriesNodes
  <1>4. OpenKeepsPromise'
    BY <1>1, <1>3 DEF PromiseInv, OpenKeepsPromise, NoDevice, NamedNode
  <1> QED BY <1>2, <1>4 DEF PromiseInv, Booting

\* An open returns with what it has found on the bus.
LEMMA PromiseOnBus ==
  ASSUME AskedInv, call.op = "open", call'.op = "none", call'.selector = call.selector,
         UNCHANGED platform, nodesOpen' = {}, handle' # NoDevice, claimed', Promised',
         ~(bootstrap' = "strict" /\ miniVciMode' /\ ~miniVciReady')
  PROVE  PromiseInv'
  <1>1. ~(Dispatches' /\ call'.selector.kind = "node")
    BY DEF AskedInv, Dispatches
  <1>2. OpenKeepsPromise'
    BY <1>1 DEF OpenKeepsPromise, Promised, NoDevice
  <1> QED BY <1>2 DEF PromiseInv

\* The device that fits is the one asked for: a selector that names one is
\* looked for in one pass.
LEMMA PromiseFound ==
  ASSUME TypeOK, LinkInv, SearchInv, Accepts
  PROVE  PromiseInv'
  <1>1. /\ call'.at = "claim" /\ call'.op = "open" /\ call'.selector = call.selector
        /\ handle' = call.device /\ UNCHANGED bus
    BY AcceptsEffect DEF Accepts, busVars, LinkInv, PlaceInv, At
  <1>2. /\ Searching /\ call.pass \in Passes(call.selector)
        /\ LooksAt(call.device, Target) /\ Fits(call.device, Target)
    BY DEF Accepts, At, LinkInv, PlaceInv, Searching, SearchInv
  <1>3. ASSUME call.selector.kind = "device"
        PROVE  /\ bus[call.device].id = call.selector.id
               /\ call.selector.serial \in {NoSerial, bus[call.device].serial}
    <2>1. call.pass = 1 /\ Target = call.selector.id /\ Target # AnyId
      BY <1>2, <1>3, CallTyped, TargetsBegin, KindsAssumption DEF Target
    <2> QED BY <1>2, <2>1 DEF LooksAt, Fits
  <1>4. Promised'
    BY <1>1, <1>3 DEF Promised
  <1> QED BY <1>1, <1>4 DEF PromiseInv, OpenKeepsPromise, Opened, Idle

\* An open that returns after the claim has no bootstrap to insist on.
LEMMA PromiseClaims ==
  ASSUME TypeOK, LinkInv, AskedInv, PromiseInv, Claims, UNCHANGED dispatchVars
  PROVE  PromiseInv'
  <1>1. /\ call.op = "open" /\ Promised /\ handle # NoDevice
        /\ UNCHANGED <<bus, bootstrap, handle, platform>> /\ nodesOpen' = {}
        /\ claimed' /\ (miniVciReady' <=> ~miniVciMode')
    BY DEF Claims, At, busVars, LinkInv, PlaceInv, PromiseInv, dispatchVars, platformVars
  <1>2. CASE miniVciMode' /\ bootstrap # "off"
    <2>1. call' = Call("open", "attempt", call.selector) /\ "attempt" \in Places
      BY <1>2 DEF Claims, Places
    <2>2. call'.op = "open" /\ call'.selector = call.selector
      BY <2>1, CallTyped, BeginsEffect
    <2> QED BY <1>1, <2>2 DEF PromiseInv, Promised, OpenKeepsPromise, Opened, Idle
  <1>3. CASE ~(miniVciMode' /\ bootstrap # "off")
    <2>1. call'.op = "none" /\ call'.selector = call.selector
      BY <1>3, ReturnsEffect DEF Claims
    <2>2. ~(bootstrap' = "strict" /\ miniVciMode')
      BY <1>1, <1>3
    <2>3. handle' # NoDevice /\ claimed' /\ Promised'
      BY <1>1, <2>1 DEF Promised
    <2> QED BY <1>1, <2>1, <2>2, <2>3, PromiseOnBus
  <1> QED BY <1>2, <1>3

\* One that returns after the bootstrap has it done, or does not insist.
LEMMA PromiseBoots ==
  ASSUME TypeOK, LinkInv, AskedInv, PromiseInv, UNCHANGED dispatchVars,
         \/ StartsAttempt \/ Sends \/ SendFails \/ HearsAnother \/ HearsReply \/ NoReply
         \/ BootstrapEnds
  PROVE  PromiseInv'
  <1>1. Booting /\ UNCHANGED <<bus, bootstrap, handle, claimed, miniVciMode>>
    BY DEF StartsAttempt, Sends, SendFails, HearsAnother, HearsReply, Hears, NoReply,
           BootstrapEnds, busVars, linkVars, At, Booting
  <1>2. call.op = "open" => Promised
    BY <1>1 DEF PromiseInv
  <1>3. call.op # "none"
    BY <1>1, CallTyped DEF Booting
  <1>4. handle # NoDevice /\ claimed /\ nodesOpen' = {} /\ UNCHANGED platform
    BY <1>1 DEF LinkInv, PlaceInv, FlagInv, dispatchVars, platformVars
  <1>5. CASE \/ StartsAttempt \/ Sends \/ SendFails \/ HearsAnother \/ HearsReply \/ NoReply
    <2>1. {"send", "wait", "booted"} \subseteq Places
      BY DEF Places
    <2>2. call'.op = call.op /\ call'.selector = call.selector
      BY <1>5, <2>1, GoesEffect, AttemptFailsEffect, NextStageEffect
      DEF StartsAttempt, Sends, SendFails, HearsAnother, HearsReply, StageEnds, NoReply
    <2> QED BY <1>1, <1>2, <1>3, <2>2
            DEF PromiseInv, Promised, OpenKeepsPromise, Opened, Idle
  <1>6. CASE BootstrapEnds
    <2>1. CASE Goes("raw")
      <3>1. "raw" \in Places
        BY DEF Places
      <3>2. call'.op = call.op /\ call'.at = "raw"
        BY <2>1, <3>1, GoesEffect
      <3> QED BY <1>3, <3>2 DEF PromiseInv, OpenKeepsPromise, Opened, Idle, Booting
    <2>2. CASE Returns(ERR_FAILED)
      <3>1. call'.op = "none" /\ ret'.status = ERR_FAILED
        BY <2>2, ReturnsEffect
      <3> QED BY <3>1, PromiseApart DEF STATUS_NOERROR, ERR_FAILED
    <2>3. CASE Returns(STATUS_NOERROR) /\ ~(At("failed") /\ bootstrap = "strict")
      <3>1. /\ call'.op = "none" /\ ret'.op = call.op
            /\ call'.selector = call.selector
        BY <2>3, ReturnsEffect
      <3>2. bootstrap = "strict" => miniVciReady /\ UNCHANGED miniVciReady
        BY <1>6, <2>3 DEF BootstrapEnds, At, LinkInv, PlaceInv, linkVars
      <3>3. CASE call.op = "open"
        <4>1. handle' # NoDevice /\ claimed' /\ Promised'
          BY <1>1, <1>2, <1>4, <3>1, <3>3 DEF Promised
        <4> QED BY <1>1, <1>4, <3>1, <3>2, <3>3, <4>1, PromiseOnBus
      <3>4. CASE call.op # "open"
        BY <3>1, <3>4, PromiseApart
      <3> QED BY <3>3, <3>4
    <2> QED BY <1>6, <2>1, <2>2, <2>3 DEF BootstrapEnds
  <1> QED BY <1>5, <1>6

\* Every step keeps the promise.
LEMMA PromiseNext ==
  ASSUME TypeOK, LinkInv, SearchInv, AskedInv, PromiseInv, [Next]_vars
  PROVE  PromiseInv'
  <1>0. /\ {"candidate", "nodes", "attempt", "raw"} \subseteq Places
        /\ STATUS_NOERROR # ERR_FAILED /\ STATUS_NOERROR # ERR_NOT_INITIALIZED
        /\ UNCHANGED <<bus, bootstrap, platform>>
    BY WorldSame DEF Places, STATUS_NOERROR, ERR_FAILED, ERR_NOT_INITIALIZED
  <1>1. CASE Skips \/ Opens \/ Rejects \/ NextPass \/ NodeFails \/ NoNodeLeft
    <2>1. call'.op = "open" /\ call'.at \in {"nodes", "scan", "candidate"}
      BY <1>0, <1>1, CallTyped, GoesOnEffect, GoesEffect, NextPassEffect, NextNodeEffect,
         ScansEffect
      DEF Skips, Opens, Rejects, NextPass, PassEnds, NodeFails, NoNodeLeft, Scanning, At,
          LinkInv, PlaceInv
    <2> QED BY <2>1, PromiseApart
  <1>2. CASE NotFound \/ ClaimFails \/ NoContext \/ TransferFails
    <2>1. call'.op = "none" /\ ret'.status = ERR_FAILED
      BY <1>2, ReturnsEffect DEF NotFound, ClaimFails, NoContext, TransferFails
    <2> QED BY <1>0, <2>1, PromiseApart
  <1>3. CASE Transfers
    <2>1. call'.op = "none" /\ ret'.op = "write"
      BY <1>3, ReturnsEffect DEF Transfers, At, LinkInv, PlaceInv
    <2> QED BY <2>1, PromiseApart
  <1>4. CASE NodeOpens
    <2>1. call'.op = "none" /\ call'.selector = call.selector
      BY <1>4, ReturnsEffect DEF NodeOpens
    <2>2. /\ call.op = "open" /\ TriesNodes(call.selector)
          /\ nodesOpen' = {call.device} /\ call.device >= 1 /\ call.device \in Nat
      BY <1>4, CallTyped DEF NodeOpens, At, LinkInv, PlaceInv, AskedInv
    <2>3. /\ ~(Dispatches' /\ call'.selector.kind = "node")
          /\ TriesNodes(call.selector)'
      BY <1>0, <2>1, <2>2 DEF AskedInv, Dispatches, TriesNodes
    <2>4. NamedNode \notin nodesOpen' /\ nodesOpen' # {}
      BY <2>2 DEF NamedNode
    <2> QED BY <2>1, <2>3, <2>4 DEF PromiseInv, OpenKeepsPromise, NamedNode
  <1>5. CASE Close
    <2>1. call'.op = "none" /\ ret'.op = "close"
      BY <1>5, Selected, EndsEffect DEF Close
    <2> QED BY <2>1, PromiseApart
  <1>6. CASE Write
    <2>1. CASE ret'.op = "write" /\ UNCHANGED call /\ Idle
      BY <2>1, PromiseApart DEF Idle
    <2>2. CASE /\ ret' = NoReturn
               /\ \E p \in {"attempt", "raw"} : call' = Call("write", p, NoSelector)
      <3>1. call'.op = "write"
        BY <1>0, <2>2, BeginsEffect, Selected
      <3> QED BY <3>1, PromiseApart
    <2> QED BY <1>6, <2>1, <2>2 DEF Write, UsbWrite
  <1>7. ASSUME NEW s \in Selectors, OpensNodes(s) \/ OpensUsb(s) PROVE PromiseInv'
    <2>1. call'.op = "open" /\ call'.at \in {"nodes", "scan"}
      BY <1>0, <1>7, BeginsEffect, ScansEffect DEF OpensNodes, OpensUsb
    <2> QED BY <2>1, PromiseApart
  <1>8. ASSUME NEW s \in Selectors, OpensNamedNode(s) PROVE PromiseInv'
    <2>1. PICK opens \in BOOLEAN :
            /\ nodesOpen' = IF opens THEN {NamedNode} ELSE {}
            /\ ret' = [op |-> "open",
                       status |-> IF opens THEN STATUS_NOERROR ELSE ERR_FAILED]
      BY <1>8 DEF OpensNamedNode
    <2>2. /\ call'.op = "none" /\ call'.selector = s
          /\ Dispatches' /\ s.kind = "node"
      BY <1>0, <1>8, EndsEffect DEF OpensNamedNode, Dispatches
    <2>3. CASE opens
      BY <2>1, <2>2, <2>3 DEF PromiseInv, OpenKeepsPromise, NamedNode
    <2>4. CASE ~opens
      BY <1>0, <2>1, <2>2, <2>4, PromiseApart
    <2> QED BY <2>3, <2>4
  <1>9. ASSUME UNCHANGED dispatchVars, NEW d \in Devices, Pulled(d) \/ PluggedIn(d)
        PROVE  PromiseInv'
    <2>1. CASE PluggedIn(d)
      BY <1>0, <1>9, <2>1, PromiseKept DEF PluggedIn, linkVars, dispatchVars
    <2>2. CASE Pulled(d)
      <3>1. /\ call'.op = call.op /\ call'.at = call.at /\ call'.selector = call.selector
            /\ UNCHANGED <<handle, claimed, miniVciMode, miniVciReady, ret, nodesOpen>>
        BY <1>9, <2>2, PulledEffect DEF Pulled, dispatchVars
      <3> QED BY <1>0, <3>1, PromiseKept
    <2> QED BY <1>9, <2>1, <2>2
  <1>10. CASE UNCHANGED vars
    BY <1>0, <1>10, PromiseKept DEF vars, usbVars, linkVars, dispatchVars
  <1> QED BY <1>1, <1>2, <1>3, <1>4, <1>5, <1>6, <1>7, <1>8, <1>9, <1>10,
             PromiseFound, PromiseClaims, PromiseBoots
          DEF Next, Step, UsbStep, UsbMeets

----------------------------------------------------------------------------
(* Strict mode.                                                            *)

\* A packet that is sent in strict mode finds its Mini-VCI bootstrapped.
LEMMA StrictNext ==
  ASSUME TypeOK, LinkInv, BootInv, StrictMeansBooted, [Next]_vars
  PROVE  StrictMeansBooted'
  <1>1. CASE Transfers
    <2>1. SUFFICES ASSUME bootstrap = "strict" PROVE ~early'
      BY <1>1 DEF Transfers, busVars, StrictMeansBooted
    <2>2. /\ HandleWorks
          /\ claimed => (miniVciMode <=> bus[handle].id \in MiniIds)
          /\ miniVciMode => miniVciReady
      BY <1>1, <2>1 DEF Transfers, Works, HandleWorks, At, LinkInv, PlaceInv, FlagInv
    <2>3. claimed /\ bus[handle].id \in MiniIds => taken[handle] = Stages
      BY <2>2 DEF BootInv
    <2> QED BY <1>1, <2>1, <2>3 DEF Transfers, StrictMeansBooted
  <1>2. ~Transfers => UNCHANGED early
    BY DEF Next, OpensNamedNode, OpensNodes, OpensUsb, Close, Write, UsbWrite, Step,
           NodeOpens, NodeFails, NoNodeLeft, UsbStep, Skips, Opens, Rejects, Accepts,
           NextPass, NotFound, ClaimFails, Claims, StartsAttempt, Sends, SendFails,
           HearsAnother, HearsReply, NoReply, BootstrapEnds, TransferFails,
           UsbMeets, NoContext, Pulled, PluggedIn, vars, usbVars
  <1>3. UNCHANGED bootstrap
    BY WorldSame
  <1> QED BY <1>1, <1>2, <1>3 DEF StrictMeansBooted

----------------------------------------------------------------------------
(* The theorems.                                                           *)

IInv ==
  /\ TypeOK /\ LinkInv /\ BootInv /\ SearchInv
  /\ AskedInv /\ PromiseInv /\ StrictMeansBooted

\* The inductive invariant.
LEMMA Inductive == Spec => []IInv
  <1>1. Init => IInv
    BY TypeInit, LinkInit, BootInit, SearchInit, AskedInit, PromiseInit
    DEF IInv, StrictMeansBooted, Init, UsbInit
  <1>2. IInv /\ [Next]_vars => IInv'
    BY TypeNext, LinkNext, BootNext, SearchNext, AskedNext, PromiseNext, StrictNext
    DEF IInv
  <1> QED BY <1>1, <1>2, PTL DEF Spec

\* All variables keep their types, for any bus, selectors and bounds.
THEOREM TypeCorrect == Spec => []TypeOK
  <1>1. IInv => TypeOK
    BY DEF IInv
  <1> QED BY <1>1, Inductive, PTL

\* Discovery leaks no handle: whatever is tried, pulled and plugged in by one open
\* after another, at most one device or node is held open, the one the calls are
\* forwarded to (openUsb and close of usb_vci.cpp, the dispatchers of Linux and macOS).
THEOREM HoldsOneLink == Spec => []OneLink
  <1>1. IInv => OneLink
    BY DEF IInv, LinkInv
  <1> QED BY <1>1, Inductive, PTL

\* openUsb takes the first device, of the first pass, that can be used: none that
\* was there all the time, opens and fits is passed by.
THEOREM FindsFirstUsable == Spec => []FirstUsableWins
  <1>1. IInv => FirstUsableWins
    BY SearchGives DEF IInv
  <1> QED BY <1>1, Inductive, PTL

\* An open that succeeded took a serial node only for a selector that names it or
\* that nodes are tried for; or else it holds a claimed device with the ID and the
\* serial asked for, bootstrapped if it is a Mini-VCI and the environment insists.
THEOREM KeepsPromise == Spec => []OpenKeepsPromise
  <1>1. IInv => OpenKeepsPromise
    BY DEF IInv, PromiseInv
  <1> QED BY <1>1, Inductive, PTL

\* miniVciReady_ is true of a Mini-VCI only if it has taken all messages of a
\* bootstrap in order since it was plugged in, though the first stage takes any
\* reply, also a late one of another stage, for its own.
THEOREM ReadyIsBooted == Spec => []ReadyMeansBooted
  <1>1. IInv => ReadyMeansBooted
    <2> SUFFICES ASSUME IInv, miniVciReady, miniVciMode, handle \notin dead
                 PROVE  bus[handle].boots /\ taken[handle] = Stages
      BY DEF ReadyMeansBooted
    <2>1. HandleWorks
      BY DEF IInv, LinkInv, FlagInv, HandleWorks
    <2> QED BY <2>1 DEF IInv, BootInv
  <1> QED BY <1>1, Inductive, PTL

\* In strict mode write sends nothing to a Mini-VCI that was claimed and is not
\* bootstrapped, also after an open that refused it and left its handle.
THEOREM StrictIsBooted == Spec => []StrictMeansBooted
  <1>1. IInv => StrictMeansBooted
    BY DEF IInv
  <1> QED BY <1>1, Inductive, PTL

============================================================================
