------------------------------- MODULE UsbVci -------------------------------
(***************************************************************************)
(* mvci::UsbVciInterface: an adapter found on the USB bus, claimed and, if *)
(* it is a Mini-VCI, bootstrapped; and the packets written to it.  The     *)
(* devices may be pulled and plugged in at any moment.  What is read from  *)
(* the adapter once it is open is in ChannelIO and FrameResync.            *)
(*                                                                         *)
(* A device is known by the place it has in the list libusb returns.  The  *)
(* handles libusb has open are counted: the code closes those it does not  *)
(* keep.  libusb_get_device_list and the flush of the input do not fail.   *)
(***************************************************************************)
EXTENDS J2534, Sequences, FiniteSets

CONSTANTS
  Kinds,         \* what may be on the bus, see KindsAssumption
  MaxDevices,    \* bound on the devices on the bus
  Selectors,     \* what open is asked for, see KindsAssumption
  NoSerial,      \* the serial of a selector that has none
  KnownIds,      \* kKnownToyotaMvcis
  MiniIds,       \* those isMiniVciCandidate takes for a Mini-VCI
  Attempts,      \* attempts of one bootstrap (3 in the code)
  Stages,        \* messages of one attempt (3 in the code)
  MaxPending,    \* bound on the replies the adapter has sent
  MaxFaults      \* bound on what is pulled or fails

AnyId == "keyword"

\* opens: libusb_open succeeds; claims: no driver holds the interface;
\* boots: it is a Mini-VCI indeed.  A selector is empty, names a serial node
\* or a device, or is another name, of which the part before the colon may
\* have been taken for an ID: one that names no device has the default ID, or
\* what was parsed of it.  mini: its text begins with the ID of a Mini-VCI,
\* written as the code writes it; '403:6001' is the same ID and does not.
ASSUME KindsAssumption ==
  /\ Kinds \subseteq [id : STRING, serial : STRING, keyword : BOOLEAN,
                     endpoints : BOOLEAN, opens : BOOLEAN, claims : BOOLEAN,
                     boots : BOOLEAN]
  /\ Selectors \subseteq [kind : {"empty", "node", "device", "name"},
                         id : STRING, serial : STRING, mini : BOOLEAN]
  /\ Selectors # {} /\ KnownIds \in Seq(STRING)
  /\ \A s \in Selectors : s.id # AnyId
  /\ \A s \in Selectors : s.mini => s.kind \in {"device", "name"}

ASSUME UsbBoundsAssumption ==
  /\ MaxDevices \in Nat /\ MaxPending \in Nat /\ MaxFaults \in Nat
  /\ Attempts \in Nat \ {0} /\ Stages \in Nat \ {0}

VARIABLES
  bus,           \* the devices, as the list has them
  plugged,       \* those that are plugged in
  bootstrap,     \* the environment's settings: "off", "lenient", "strict"
  handle,        \* handle_, the device it is a handle of, or NoDevice
  opened,        \* devices libusb has a handle open of
  dead,          \* those of them that were pulled since
  claimed,       \* has the interface of handle_ been claimed?
  miniVciMode,   \* miniVciMode_
  miniVciReady,  \* miniVciReady_
  taken,         \* device -> start messages its adapter has taken, in order,
                 \* since it was plugged in
  pending,       \* replies sent by the adapter of handle_ and not read
  call,          \* the call that runs, its arguments and locals
  ret,           \* what the last call returned
  faults,        \* how many faults there were
  early          \* history: did a packet go to a claimed Mini-VCI that has not
                 \* taken all start messages?

busVars == <<bus, plugged, bootstrap>>
linkVars == <<handle, opened, dead, claimed, miniVciMode, miniVciReady>>
adapterVars == <<taken, pending>>
usbVars == <<busVars, linkVars, adapterVars, call, ret, faults, early>>

NoDevice == 0
Devices == 1..Len(bus)

\* listed: the list of the pass; there: devices there since it began (history).
Call(op, at, s) ==
  [op |-> op, at |-> at, selector |-> s, pass |-> 1, device |-> 1,
   listed |-> {}, there |-> {}, attempt |-> 1, stage |-> 1]
NoCall(s) == Call("none", "none", s)
NoSelector == CHOOSE s \in Selectors : TRUE
NoReturn == [op |-> "none", status |-> STATUS_NOERROR]
Idle == call.op = "none"
At(place) == call.at = place
Goes(place) == call' = [call EXCEPT !.at = place]

UsbInit ==
  /\ \E n \in 0..MaxDevices : bus \in [1..n -> Kinds]
  /\ plugged = 1..Len(bus)
  /\ bootstrap \in {"off", "lenient", "strict"}
  /\ handle = NoDevice /\ opened = {} /\ dead = {} /\ claimed = FALSE
  /\ miniVciMode = FALSE /\ miniVciReady = FALSE
  /\ taken = [d \in 1..MaxDevices |-> 0] /\ pending = <<>>
  /\ call = NoCall(NoSelector)
  /\ ret = NoReturn
  /\ faults = 0 /\ early = FALSE

----------------------------------------------------------------------------
(* The bus.                                                                *)

\* A device that is pulled forgets what it was sent, and no handle opened
\* before works again.
Pulled(d) ==
  /\ d \in plugged /\ faults < MaxFaults
  /\ faults' = faults + 1
  /\ plugged' = plugged \ {d}
  /\ dead' = dead \cup ({d} \cap opened)
  /\ taken' = [taken EXCEPT ![d] = 0]
  /\ pending' = IF d = handle THEN <<>> ELSE pending
  /\ call' = [call EXCEPT !.there = @ \ {d}]
  /\ UNCHANGED <<bus, bootstrap, handle, opened, claimed, miniVciMode,
                 miniVciReady, ret, early>>

PluggedIn(d) ==
  /\ d \in Devices \ plugged
  /\ plugged' = plugged \cup {d}
  /\ UNCHANGED <<bus, bootstrap, linkVars, adapterVars, call, ret, faults, early>>

----------------------------------------------------------------------------
(* close and the start of open.                                            *)

\* close: also what the destructor does.
Closed ==
  /\ handle' = NoDevice
  /\ opened' = opened \ {handle} /\ dead' = dead \ {handle}
  /\ claimed' = FALSE
  /\ miniVciMode' = FALSE /\ miniVciReady' = FALSE
  /\ pending' = <<>>

Returns(status) ==
  /\ ret' = [op |-> call.op, status |-> status]
  /\ call' = NoCall(call.selector)

\* The bus is scanned as it is when the list is taken.
ScansFor(s) ==
  call' = [Call("open", "scan", s) EXCEPT !.listed = plugged, !.there = plugged]

\* libusb_init fails.
NoContext ==
  /\ At("scan") /\ call.pass = 1 /\ call.device = 1
  /\ faults < MaxFaults /\ faults' = faults + 1
  /\ Returns(ERR_FAILED)
  /\ UNCHANGED <<busVars, linkVars, adapterVars, early>>

----------------------------------------------------------------------------
(* openUsb: the passes of the discovery.                                   *)

\* What the passes look for: the device that is named; or else the default
\* ID, the known ones, and a keyword in the strings of the device.  The
\* default ID is not looked for twice.
Targets(s) ==
  IF s.kind = "device" THEN <<s.id>> ELSE <<s.id>> \o KnownIds \o <<AnyId>>
Passes(s) == {p \in 1..Len(Targets(s)) : p = 1 \/ Targets(s)[p] # s.id}
Target == Targets(call.selector)[call.pass]

LooksAt(d, target) == target = AnyId \/ bus[d].id = target

\* Mutant: the serial is not looked at.
FitsAnySerial(d, target) ==
  /\ target = AnyId => bus[d].keyword
  /\ bus[d].endpoints

Fits(d, target) ==
  /\ IF target = AnyId THEN bus[d].keyword
     ELSE call.selector.serial \in {NoSerial, bus[d].serial}
  /\ bus[d].endpoints

Scanning == At("scan") /\ call.device \in Devices
CanBeOpened(d) ==
  d \in call.listed \cap plugged /\ LooksAt(d, Target) /\ bus[d].opens
GoesOn == call' = [call EXCEPT !.at = "scan", !.device = @ + 1]

Skips ==
  /\ Scanning /\ ~CanBeOpened(call.device)
  /\ GoesOn
  /\ UNCHANGED <<busVars, linkVars, adapterVars, ret, faults, early>>

Opens ==
  /\ Scanning /\ CanBeOpened(call.device)
  /\ opened' = opened \cup {call.device}
  /\ Goes("candidate")
  /\ UNCHANGED <<busVars, handle, dead, claimed, miniVciMode, miniVciReady,
                 adapterVars, ret, faults, early>>

\* Mutant: a device whose serial or keyword differs is left open.
RejectsOpen ==
  /\ At("candidate")
  /\ ~Fits(call.device, Target) \/ call.device \in dead
  /\ opened' = IF bus[call.device].endpoints THEN opened ELSE opened \ {call.device}
  /\ dead' = dead \ {call.device}
  /\ GoesOn
  /\ UNCHANGED <<busVars, handle, claimed, miniVciMode, miniVciReady, adapterVars,
                 ret, faults, early>>

\* A string that cannot be read, of a device that was pulled, is none.
Rejects ==
  /\ At("candidate")
  /\ ~Fits(call.device, Target) \/ call.device \in dead
  /\ opened' = opened \ {call.device} /\ dead' = dead \ {call.device}
  /\ GoesOn
  /\ UNCHANGED <<busVars, handle, claimed, miniVciMode, miniVciReady, adapterVars,
                 ret, faults, early>>

Accepts ==
  /\ At("candidate")
  /\ Fits(call.device, Target)
  /\ handle' = call.device
  /\ call' = [call EXCEPT !.at = "claim", !.listed = {}]
  /\ UNCHANGED <<busVars, opened, dead, claimed, miniVciMode, miniVciReady,
                 adapterVars, ret, faults, early>>

PassEnds == At("scan") /\ call.device \notin Devices
LaterPasses == {p \in Passes(call.selector) : p > call.pass}

\* Mutant: a pass begins where the one before it ended.
NextPassWhereItWas ==
  /\ PassEnds
  /\ \E p \in LaterPasses :
       /\ \A q \in LaterPasses : p <= q
       /\ call' = [call EXCEPT !.pass = p, !.listed = plugged]
  /\ UNCHANGED <<busVars, linkVars, adapterVars, ret, faults, early>>

NextPass ==
  /\ PassEnds
  /\ \E p \in LaterPasses :
       /\ \A q \in LaterPasses : p <= q
       /\ call' = [call EXCEPT !.pass = p, !.device = 1, !.listed = plugged]
  /\ UNCHANGED <<busVars, linkVars, adapterVars, ret, faults, early>>

NotFound ==
  /\ PassEnds /\ LaterPasses = {}
  /\ Closed
  /\ Returns(ERR_FAILED)
  /\ UNCHANGED <<busVars, taken, faults, early>>

----------------------------------------------------------------------------
(* claimInterface.                                                         *)

Works(d) == d # NoDevice /\ d \in opened \ dead
Suffixes(s) == {SubSeq(s, n, Len(s)) : n \in 1..(Len(s) + 1)}

\* The device stays open, and no other one is tried.
ClaimFails ==
  /\ At("claim")
  /\ ~(Works(handle) /\ bus[handle].claims)
  /\ Returns(ERR_FAILED)
  /\ UNCHANGED <<busVars, linkVars, adapterVars, faults, early>>

Claims ==
  /\ At("claim") /\ Works(handle) /\ bus[handle].claims
  /\ claimed' = TRUE
  /\ miniVciMode' = (bus[handle].id \in MiniIds)
  /\ miniVciReady' = ~miniVciMode'
  /\ IF miniVciMode' /\ bootstrap # "off"
     THEN call' = Call("open", "attempt", call.selector) /\ UNCHANGED ret
     ELSE Returns(STATUS_NOERROR)
  /\ UNCHANGED <<busVars, handle, opened, dead, adapterVars, faults, early>>

----------------------------------------------------------------------------
(* initializeMiniVci: attempts of three messages, each with its reply.     *)

\* Replies of an attempt before that have come are flushed.
StartsAttempt ==
  /\ At("attempt")
  /\ pending' \in Suffixes(pending)
  /\ Goes("send")
  /\ UNCHANGED <<busVars, linkVars, taken, ret, faults, early>>

\* Mutant: the attempts are not counted.
AttemptFailsUncounted == call' = [call EXCEPT !.at = "attempt", !.stage = 1]

\* Mutant: one attempt too many.
AttemptFailsOnceMore ==
  call' = IF call.attempt <= Attempts
          THEN [call EXCEPT !.at = "attempt", !.attempt = @ + 1, !.stage = 1]
          ELSE [call EXCEPT !.at = "failed"]

AttemptFails ==
  call' = IF call.attempt < Attempts
          THEN [call EXCEPT !.at = "attempt", !.attempt = @ + 1, !.stage = 1]
          ELSE [call EXCEPT !.at = "failed"]

\* The adapter of a Mini-VCI takes the messages in order, and one it has
\* taken before again, and replies to each; another one takes no notice.  A
\* reply may be lost, and is when MaxPending of them were not read.
Receives(d, stage) ==
  IF bus[d].boots /\ stage <= taken[d] + 1
  THEN /\ taken' = [taken EXCEPT ![d] = IF stage > @ THEN stage ELSE @]
       /\ \/ UNCHANGED pending
          \/ Len(pending) < MaxPending /\ pending' = Append(pending, stage)
  ELSE UNCHANGED adapterVars

\* What is transferred may still be lost behind the USB chip of the adapter.
Sends ==
  /\ At("send") /\ Works(handle)
  /\ \/ Receives(handle, call.stage) /\ UNCHANGED faults
     \/ faults < MaxFaults /\ faults' = faults + 1 /\ UNCHANGED adapterVars
  /\ Goes("wait")
  /\ UNCHANGED <<busVars, linkVars, ret, early>>

\* A transfer that fails may have arrived.
SendFails ==
  /\ At("send")
  /\ \/ ~Works(handle) /\ UNCHANGED <<faults, adapterVars>>
     \/ /\ Works(handle) /\ faults < MaxFaults /\ faults' = faults + 1
        /\ Receives(handle, call.stage) \/ UNCHANGED adapterVars
  /\ AttemptFails
  /\ UNCHANGED <<busVars, linkVars, ret, early>>

\* One read brings the first n replies; those it does not need are lost.
Hears(n) ==
  /\ At("wait") /\ Works(handle) /\ n \in 1..Len(pending)
  /\ pending' = SubSeq(pending, n + 1, Len(pending))

\* A reply to another message is not the one waited for.
HearsAnother ==
  /\ \E n \in 1..Len(pending) : Hears(n) /\ \A i \in 1..n : pending[i] # call.stage
  /\ UNCHANGED <<busVars, linkVars, taken, call, ret, faults, early>>

\* Mutant: two status bytes are a reply at every stage.
FitsByStatus(reply) == TRUE

\* The reply to the first message is two status bytes, and any later reply may
\* begin with them: whether it does is known of none.
FitsStage(reply) == reply = call.stage \/ call.stage = 1

StageEnds ==
  IF call.stage < Stages
  THEN /\ call' = [call EXCEPT !.at = "send", !.stage = @ + 1]
       /\ UNCHANGED miniVciReady
  ELSE miniVciReady' = TRUE /\ Goes("booted")

HearsReply ==
  /\ \E n \in 1..Len(pending) : Hears(n) /\ \E i \in 1..n : FitsStage(pending[i])
  /\ StageEnds
  /\ UNCHANGED <<busVars, handle, opened, dead, claimed, miniVciMode, taken, ret,
                 faults, early>>

\* The time is up, or the read fails.
NoReply ==
  /\ At("wait")
  /\ AttemptFails
  /\ UNCHANGED <<busVars, linkVars, adapterVars, ret, faults, early>>

\* Mutant: a write goes on without the bootstrap also in strict mode.
BootstrapEndsWriting ==
  /\ At("booted") \/ At("failed")
  /\ IF call.op = "write" THEN Goes("raw") /\ UNCHANGED ret
     ELSE Returns(IF At("failed") /\ bootstrap = "strict" THEN ERR_FAILED
                  ELSE STATUS_NOERROR)
  /\ UNCHANGED <<busVars, linkVars, adapterVars, faults, early>>

\* What open and write make of it.
BootstrapEnds ==
  /\ At("booted") \/ At("failed")
  /\ IF At("failed") /\ bootstrap = "strict" THEN Returns(ERR_FAILED)
     ELSE IF call.op = "write" THEN Goes("raw") /\ UNCHANGED ret
     ELSE Returns(STATUS_NOERROR)
  /\ UNCHANGED <<busVars, linkVars, adapterVars, faults, early>>

----------------------------------------------------------------------------
(* write.                                                                  *)

UsbWrite ==
  /\ Idle
  /\ IF handle = NoDevice
     THEN /\ ret' = [op |-> "write", status |-> ERR_NOT_INITIALIZED]
          /\ UNCHANGED call
     ELSE /\ call' = Call("write",
                          IF miniVciMode /\ ~miniVciReady /\ bootstrap # "off"
                          THEN "attempt" ELSE "raw",
                          NoSelector)
          /\ ret' = NoReturn
  /\ UNCHANGED <<busVars, linkVars, adapterVars, faults, early>>

\* The packet is sent, whatever became of the bootstrap.  writeRaw does not ask
\* whether the interface was claimed: where it was not, it is for the system to
\* let the transfer pass, as Linux does by claiming it, or to refuse it.
Transfers ==
  /\ At("raw") /\ Works(handle)
  /\ early' = (early \/ (claimed /\ bus[handle].id \in MiniIds
                                /\ taken[handle] # Stages))
  /\ Returns(STATUS_NOERROR)
  /\ UNCHANGED <<busVars, linkVars, adapterVars, faults>>

TransferFails ==
  /\ At("raw")
  /\ IF Works(handle) /\ claimed THEN faults < MaxFaults /\ faults' = faults + 1
     ELSE UNCHANGED faults
  /\ Returns(ERR_FAILED)
  /\ UNCHANGED <<busVars, linkVars, adapterVars, early>>

----------------------------------------------------------------------------
\* What a call does by itself, and what may happen.
UsbStep ==
  \/ Skips \/ Opens \/ Rejects \/ Accepts \/ NextPass \/ NotFound
  \/ ClaimFails \/ Claims
  \/ StartsAttempt \/ Sends \/ SendFails \/ HearsAnother \/ HearsReply \/ NoReply
  \/ BootstrapEnds \/ Transfers \/ TransferFails

UsbMeets ==
  \/ NoContext
  \/ \E d \in Devices : Pulled(d) \/ PluggedIn(d)

=============================================================================
