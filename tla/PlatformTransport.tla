------------------------- MODULE PlatformTransport -------------------------
(***************************************************************************)
(* The transport createPlatformTransport makes: on Windows the USB one, on *)
(* Linux and macOS a dispatcher that opens a serial node or an adapter on  *)
(* the bus and forwards every call to what it opened.  A serial node is    *)
(* known by its place in the directory, the one a selector names by        *)
(* NamedNode; what it does is in SerialSession.                            *)
(***************************************************************************)
EXTENDS UsbVci

CONSTANTS
  Platforms,     \* "linux", "macos", "windows"
  MaxNodes       \* bound on the serial nodes of the platform

ASSUME PlatformAssumption ==
  Platforms \subseteq {"linux", "macos", "windows"} /\ MaxNodes \in Nat

VARIABLES
  platform,
  nodes,         \* number of serial nodes the platform finds
  inner,         \* inner_: "none", "serial" or "usb"
  nodesOpen      \* serial nodes whose transport is held

platformVars == <<platform, nodes>>
dispatchVars == <<platformVars, inner, nodesOpen>>
vars == <<usbVars, dispatchVars>>

NamedNode == 0
Dispatches == platform # "windows"

Init ==
  /\ UsbInit
  /\ platform \in Platforms
  /\ nodes \in IF Dispatches THEN 0..MaxNodes ELSE {0}
  /\ inner = IF Dispatches THEN "none" ELSE "usb"
  /\ nodesOpen = {}

----------------------------------------------------------------------------
(* open.                                                                   *)

\* Serial nodes are tried for a selector that is empty, and on Linux for one
\* whose text begins with the ID of a Mini-VCI, whatever comes after it.
TriesNodes(s) ==
  \/ platform \in {"linux", "macos"} /\ s.kind = "empty"
  \/ platform = "linux" /\ s.mini

\* What was open is closed first.  That a node opens is what the serial
\* transport's open returns: its descriptor may be lost by then, see
\* SerialSession.  A transport that did not open stays as well, with no node.
OpensNamedNode(s) ==
  /\ Idle /\ Dispatches /\ s.kind = "node"
  /\ Closed
  /\ inner' = "serial"
  /\ \E opens \in BOOLEAN :
       /\ nodesOpen' = IF opens THEN {NamedNode} ELSE {}
       /\ ret' = [op |-> "open", status |-> IF opens THEN STATUS_NOERROR ELSE ERR_FAILED]
  /\ call' = NoCall(s)
  /\ UNCHANGED <<busVars, taken, faults, early, platformVars>>

OpensNodes(s) ==
  /\ Idle /\ TriesNodes(s)
  /\ Closed
  /\ inner' = "none" /\ nodesOpen' = {}
  /\ call' = Call("open", "nodes", s) /\ ret' = NoReturn
  /\ UNCHANGED <<busVars, taken, faults, early, platformVars>>

OpensUsb(s) ==
  /\ Idle /\ ~TriesNodes(s) /\ (Dispatches => s.kind # "node")
  /\ Closed
  /\ inner' = "usb" /\ nodesOpen' = {}
  /\ ScansFor(s) /\ ret' = NoReturn
  /\ UNCHANGED <<busVars, taken, faults, early, platformVars>>

\* The transport of the first node whose open succeeds is kept, and that of
\* one that does not is destroyed.
NodeOpens ==
  /\ At("nodes") /\ call.device <= nodes
  /\ inner' = "serial" /\ nodesOpen' = nodesOpen \cup {call.device}
  /\ Returns(STATUS_NOERROR)
  /\ UNCHANGED <<busVars, linkVars, adapterVars, faults, early, platformVars>>

NodeFails ==
  /\ At("nodes") /\ call.device <= nodes
  /\ call' = [call EXCEPT !.device = @ + 1]
  /\ UNCHANGED <<busVars, linkVars, adapterVars, ret, faults, early, dispatchVars>>

NoNodeLeft ==
  /\ At("nodes") /\ call.device > nodes
  /\ inner' = "usb"
  /\ ScansFor(call.selector)
  /\ UNCHANGED <<busVars, linkVars, adapterVars, ret, faults, early, platformVars,
                 nodesOpen>>

----------------------------------------------------------------------------
(* close and write.                                                        *)

Close ==
  /\ Idle
  /\ Closed
  /\ inner' = IF Dispatches THEN "none" ELSE inner
  /\ nodesOpen' = {}
  /\ ret' = [op |-> "close", status |-> STATUS_NOERROR]
  /\ call' = NoCall(NoSelector)
  /\ UNCHANGED <<busVars, taken, faults, early, platformVars>>

Write ==
  \/ /\ inner = "usb" /\ UsbWrite
     /\ UNCHANGED dispatchVars
  \/ /\ inner # "usb" /\ Idle
     /\ ret' \in [op : {"write"},
                  status : IF inner = "serial" THEN TransferStatuses
                           ELSE {ERR_NOT_INITIALIZED}]
     /\ UNCHANGED <<busVars, linkVars, adapterVars, call, faults, early, dispatchVars>>

----------------------------------------------------------------------------
Step == (UsbStep /\ UNCHANGED dispatchVars) \/ NodeOpens \/ NodeFails \/ NoNodeLeft

Next ==
  \/ \E s \in Selectors : OpensNamedNode(s) \/ OpensNodes(s) \/ OpensUsb(s)
  \/ Close \/ Write \/ Step
  \/ UsbMeets /\ UNCHANGED dispatchVars

\* A call that runs goes on: its transfers end, or their time is up.
Spec == Init /\ [][Next]_vars /\ WF_vars(Step)

----------------------------------------------------------------------------
(* Properties.                                                             *)

Places == {"none", "nodes", "scan", "candidate", "claim", "attempt", "send",
           "wait", "booted", "failed", "raw"}

Calls ==
  [op : {"none", "open", "write"}, at : Places, selector : Selectors,
   pass : Nat, device : Nat, listed : SUBSET Devices, there : SUBSET Devices,
   attempt : 1..Attempts, stage : 1..Stages]

\* The type invariant.
TypeOK ==
  /\ bus \in Seq(Kinds) /\ Len(bus) <= MaxDevices
  /\ plugged \subseteq Devices
  /\ bootstrap \in {"off", "lenient", "strict"}
  /\ handle \in Devices \cup {NoDevice} /\ opened \subseteq Devices
  /\ dead \subseteq opened
  /\ claimed \in BOOLEAN /\ miniVciMode \in BOOLEAN /\ miniVciReady \in BOOLEAN
  /\ taken \in [1..MaxDevices -> 0..Stages] /\ pending \in Seq(1..Stages)
  /\ call \in Calls
  /\ call.op = "none" <=> call.at = "none"
  /\ ret.op \in {"none", "open", "write", "close"} /\ ret.status \in Statuses
  /\ faults \in 0..MaxFaults
  /\ early \in BOOLEAN
  /\ platform \in Platforms /\ nodes \in 0..MaxNodes
  /\ inner \in {"none", "serial", "usb"} /\ nodesOpen \subseteq 0..MaxNodes

\* Of all the devices and nodes that are tried, by one open after another, no
\* more than one is held open: the one the calls are forwarded to.
OneLink ==
  /\ opened = (IF At("candidate") THEN {call.device} ELSE {}) \cup ({handle} \ {NoDevice})
  /\ handle # NoDevice => ~At("candidate")
  /\ opened # {} => inner = "usb"
  /\ nodesOpen # {} => inner = "serial"
  /\ \A m, n \in nodesOpen : m = n

\* The place of the discovery: what it has passed by.
Searching == call.op = "open" /\ call.at \in {"scan", "candidate", "claim"}
PassedBy(p, d) == p < call.pass \/ (p = call.pass /\ d < call.device)

\* An adapter is passed by only if it was not there all the time, or could
\* not be opened, or does not fit: the search takes the first one, of the IDs
\* in their order before any keyword.  The open fails all the same if there is
\* no context for libusb, or if this first one cannot be claimed.
FirstUsableWins ==
  Searching =>
    \A p \in Passes(call.selector), d \in call.there :
      LET target == Targets(call.selector)[p] IN
        PassedBy(p, d) => ~(LooksAt(d, target) /\ bus[d].opens /\ Fits(d, target))

Opened == Idle /\ ret = [op |-> "open", status |-> STATUS_NOERROR]

\* An open that succeeded took a serial node only for a selector that names
\* that node or that nodes are tried for, which on Linux is one with the ID of
\* a Mini-VCI too (see SelectorIsHonoured).  On the bus it has claimed a device
\* with the ID and serial of the selector, and nobody but a bootstrapped
\* Mini-VCI where the environment insists on one.
OpenKeepsPromise ==
  Opened =>
    LET s == call.selector IN
      /\ NamedNode \in nodesOpen <=> Dispatches /\ s.kind = "node"
      /\ nodesOpen \ {NamedNode} # {} => TriesNodes(s)
      /\ nodesOpen = {} =>
           /\ handle # NoDevice /\ claimed
           /\ s.kind = "device" =>
                bus[handle].id = s.id /\ s.serial \in {NoSerial, bus[handle].serial}
           /\ bootstrap = "strict" /\ miniVciMode => miniVciReady

\* A selector vid:pid[:serial] opens the device it names and no other.  The
\* code does not do this on Linux, where any serial node will do.
SelectorIsHonoured ==
  Opened /\ call.selector.kind = "device" =>
    /\ handle # NoDevice
    /\ bus[handle].id = call.selector.id
    /\ call.selector.serial \in {NoSerial, bus[handle].serial}

\* An adapter that is held ready is a Mini-VCI that has taken all messages of
\* a bootstrap, in their order, since it was plugged in: whatever was lost or
\* failed, and whichever replies of earlier attempts came late and were taken
\* for the ones waited for.
ReadyMeansBooted ==
  miniVciReady /\ miniVciMode /\ handle \notin dead =>
    bus[handle].boots /\ taken[handle] = Stages

\* In strict mode no packet goes to a Mini-VCI that was claimed and has not
\* taken all messages of a bootstrap, also not by a caller who writes after
\* the open that refused it.  It says nothing of one that was not claimed: the
\* mode is not set then, and a write goes out without a bootstrap.
StrictMeansBooted == bootstrap = "strict" => ~early

\* Every call returns.
CallsReturn == ~Idle ~> Idle

============================================================================
