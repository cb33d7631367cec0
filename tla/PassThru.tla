------------------------------ MODULE PassThru ------------------------------
(***************************************************************************)
(* What the library promises to an application: devices, channels on them, *)
(* and on each channel a baud rate and two sets of identifiers (periodic   *)
(* messages and filters).  A channel handle names one channel of its own.  *)
(* Every call is one step of one thread and leaves its status in that      *)
(* thread's error text.  No lock, no driver, no second level of handles:   *)
(* those belong to Registry, which implements this module.                 *)
(***************************************************************************)
EXTENDS J2534

CONSTANTS
  Threads,         \* application threads
  DeviceHandles,   \* handles PassThruOpen can issue
  ChannelHandles,  \* handles PassThruConnect can issue
  Ids,             \* identifiers of periodic messages and of filters
  Bauds            \* channel baud rates

VARIABLES
  device,          \* the open devices
  channel,         \* channel handle -> [device, baud, periodic, filter]
  issuedDevice,    \* device handles ever returned
  issuedChannel,   \* channel handles ever returned
  lastError        \* thread -> status of its last call

vars == <<device, channel, issuedDevice, issuedChannel, lastError>>

Init ==
  /\ device = {}
  /\ channel = EmptyMap
  /\ issuedDevice = {}
  /\ issuedChannel = {}
  /\ lastError = [t \in Threads |-> STATUS_NOERROR]

Returns(t, s) == lastError' = [lastError EXCEPT ![t] = s]

\* A call that changes nothing but the caller's error text.
Reports(t, s) ==
  /\ Returns(t, s)
  /\ UNCHANGED <<device, channel, issuedDevice, issuedChannel>>

\* A call that succeeds on channel h and leaves it as c.
Updates(t, h, c) ==
  /\ channel' = [channel EXCEPT ![h] = c]
  /\ Returns(t, STATUS_NOERROR)
  /\ UNCHANGED <<device, issuedDevice, issuedChannel>>

\* The periodic or filter identifiers in use on the device of channel h.
InUse(h, field) ==
  UNION {channel[g][field] :
           g \in {x \in DOMAIN channel : channel[x].device = channel[h].device}}

----------------------------------------------------------------------------
Open(t) ==
  \/ \E s \in {ERR_INVALID_MSG, ERR_FAILED} : Reports(t, s)
  \/ \E d \in DeviceHandles \ issuedDevice :
       /\ device' = device \cup {d}
       /\ issuedDevice' = issuedDevice \cup {d}
       /\ Returns(t, STATUS_NOERROR)
       /\ UNCHANGED <<channel, issuedChannel>>

\* Closing a device closes its channels, and no other.
Close(t, d) ==
  \/ d \notin device /\ Reports(t, ERR_INVALID_DEVICE_ID)
  \/ /\ d \in device
     /\ device' = device \ {d}
     /\ channel' = [h \in {x \in DOMAIN channel : channel[x].device # d}
                      |-> channel[h]]
     /\ Returns(t, STATUS_NOERROR)
     /\ UNCHANGED <<issuedDevice, issuedChannel>>

Connect(t, d, b) ==
  \/ Reports(t, ERR_INVALID_MSG)
  \/ d \notin device /\ Reports(t, ERR_INVALID_DEVICE_ID)
  \/ /\ d \in device
     /\ \E h \in ChannelHandles \ issuedChannel :
          /\ channel' = Assign(channel, h, [device |-> d, baud |-> b,
                                            periodic |-> {}, filter |-> {}])
          /\ issuedChannel' = issuedChannel \cup {h}
     /\ Returns(t, STATUS_NOERROR)
     /\ UNCHANGED <<device, issuedDevice>>

Disconnect(t, h) ==
  \/ h \notin DOMAIN channel /\ Reports(t, ERR_INVALID_CHANNEL_ID)
  \/ /\ h \in DOMAIN channel
     /\ channel' = Erase(channel, h)
     /\ Returns(t, STATUS_NOERROR)
     /\ UNCHANGED <<device, issuedDevice, issuedChannel>>

\* Reading and writing messages leave the tables alone.
Transfer(t, h) ==
  \/ Reports(t, ERR_INVALID_MSG)
  \/ h \notin DOMAIN channel /\ Reports(t, ERR_INVALID_CHANNEL_ID)
  \/ h \in DOMAIN channel /\ \E s \in TransferStatuses : Reports(t, s)

\* A new identifier is one no channel of the same device is using.
Start(t, h, field) ==
  \/ \E s \in {ERR_INVALID_MSG, ERR_NOT_SUPPORTED} : Reports(t, s)
  \/ h \notin DOMAIN channel /\ Reports(t, ERR_INVALID_CHANNEL_ID)
  \/ /\ h \in DOMAIN channel
     /\ \E i \in Ids \ InUse(h, field) :
          Updates(t, h, [channel[h] EXCEPT ![field] = @ \cup {i}])

Stop(t, h, field, i) ==
  \/ h \notin DOMAIN channel /\ Reports(t, ERR_INVALID_CHANNEL_ID)
  \/ /\ h \in DOMAIN channel
     /\ i \notin channel[h][field]
     /\ Reports(t, ERR_INVALID_MSG)
  \/ /\ h \in DOMAIN channel
     /\ i \in channel[h][field]
     /\ Updates(t, h, [channel[h] EXCEPT ![field] = @ \ {i}])

\* Calls on a device that report its state: voltage and version.
Query(t, d) ==
  \/ d \notin device /\ Reports(t, ERR_INVALID_DEVICE_ID)
  \/ d \in device /\ \E s \in {STATUS_NOERROR, ERR_NOT_SUPPORTED} : Reports(t, s)

Ioctl(t, h, r, b) ==
  \/ h \notin DOMAIN channel /\ Reports(t, ERR_INVALID_CHANNEL_ID)
  \/ /\ h \in DOMAIN channel
     /\ r = [id |-> "SET_CONFIG", arg |-> "BAUDRATE"]
     /\ Updates(t, h, [channel[h] EXCEPT !.baud = b])
  \/ /\ h \in DOMAIN channel
     /\ r # [id |-> "SET_CONFIG", arg |-> "BAUDRATE"]
     /\ Reports(t, IoctlStatus(r))

GetLastError(t) == \E s \in {STATUS_NOERROR, ERR_INVALID_MSG} : Reports(t, s)

Call(t) ==
  \/ Open(t)
  \/ GetLastError(t)
  \/ \E d \in DeviceHandles : Close(t, d) \/ Query(t, d)
  \/ \E d \in DeviceHandles, b \in Bauds : Connect(t, d, b)
  \/ \E h \in ChannelHandles :
       \/ Disconnect(t, h)
       \/ Transfer(t, h)
       \/ \E f \in {"periodic", "filter"} :
            Start(t, h, f) \/ \E i \in Ids : Stop(t, h, f, i)
       \/ \E r \in IoctlArgs, b \in Bauds : Ioctl(t, h, r, b)

Next == \E t \in Threads : Call(t)

Spec == Init /\ [][Next]_vars

============================================================================
