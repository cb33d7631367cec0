------------------------------ MODULE Registry ------------------------------
(***************************************************************************)
(* The process-wide registry behind the PassThru entry points of api.cpp,  *)
(* with the drivers it owns.  An application thread enters the library by  *)
(* waiting for registryMutex, runs the whole call while it holds it, and   *)
(* leaves its status in its own thread_local error buffer.                 *)
(* PassThruGetLastError alone takes no lock.                               *)
(*                                                                         *)
(* A channel handle is resolved twice: channels_ binds it to a device and  *)
(* to the identifier that device's driver gave the channel, and the driver *)
(* keys its tables by that identifier.                                     *)
(***************************************************************************)
EXTENDS DriverTables

CONSTANTS
  Threads,       \* application threads
  NoThread,      \* the holder of a free mutex
  MaxDevices     \* bound on the device handles issued in one process

\* The bounds stand for the 2^32 - 1 values of a counter that starts at 1:
\* the model is of a process that exhausts none of them.
ASSUME BoundsAssumption ==
  /\ MaxDevices \in Nat \ {0}
  /\ MaxChannels \in Nat \ {0}
  /\ MaxIds \in Nat \ {0}

ASSUME ThreadsAssumption == NoThread \notin Threads

ASSUME RatesAssumption == Bauds # {}

VARIABLES
  drivers,        \* devices_: device handle -> driver
  channels,       \* channels_: channel handle -> binding
  nextDeviceId,
  nextChannelId,
  mutex,          \* registryMutex: its holder
  waiting,        \* threads blocked on it
  lastError       \* lastErrorBuffer of each thread

tables == <<drivers, channels, nextDeviceId, nextChannelId>>
vars == <<drivers, channels, nextDeviceId, nextChannelId, mutex, waiting, lastError>>

DeviceHandles == 1..MaxDevices
ChannelHandles == 1..MaxChannels

Bindings == [deviceId : DeviceHandles, internalChannelId : InternalChannels]

Init ==
  /\ drivers = EmptyMap
  /\ channels = EmptyMap
  /\ nextDeviceId = 1
  /\ nextChannelId = 1
  /\ mutex = NoThread
  /\ waiting = {}
  /\ lastError = [t \in Threads |-> STATUS_NOERROR]

----------------------------------------------------------------------------
(* The mutex around every call, and the result it records.                 *)

recordResult(t, s) == lastError' = [lastError EXCEPT ![t] = s]

Enter(t) ==
  /\ t \notin waiting /\ mutex # t
  /\ waiting' = waiting \cup {t}
  /\ UNCHANGED <<tables, mutex, lastError>>

Acquire(t) ==
  /\ t \in waiting /\ mutex = NoThread
  /\ mutex' = t
  /\ waiting' = waiting \ {t}
  /\ UNCHANGED <<tables, lastError>>

\* The holder's call returns s: the result is recorded, then the lock freed.
Return(t, s) ==
  /\ mutex = t
  /\ recordResult(t, s)
  /\ mutex' = NoThread
  /\ UNCHANGED waiting

Refuse(t, s) == Return(t, s) /\ UNCHANGED tables

DeviceStatus(d) ==
  IF d \in DOMAIN drivers THEN STATUS_NOERROR ELSE ERR_INVALID_DEVICE_ID

ChannelStatus(h) ==
  IF h \in DOMAIN channels THEN DeviceStatus(channels[h].deviceId)
                           ELSE ERR_INVALID_CHANNEL_ID

Driver(h) == drivers[channels[h].deviceId]
Internal(h) == channels[h].internalChannelId

\* The driver behind h returned s and is now drv.
Delegate(t, h, s, drv) ==
  /\ ChannelStatus(h) = STATUS_NOERROR
  /\ drivers' = [drivers EXCEPT ![channels[h].deviceId] = drv]
  /\ Return(t, s)
  /\ UNCHANGED <<channels, nextDeviceId, nextChannelId>>

RefuseChannel(t, h) ==
  /\ ChannelStatus(h) # STATUS_NOERROR
  /\ Refuse(t, ChannelStatus(h))

----------------------------------------------------------------------------
(* Devices and channels.                                                   *)

\* A null output pointer, or a driver whose transport does not open.
OpenFails(t) == \E s \in {ERR_INVALID_MSG, ERR_FAILED} : Refuse(t, s)

\* Mutant: the lowest free handle is issued.
OpenLowestFree(t) ==
  /\ nextDeviceId <= MaxDevices
  /\ \E d \in DeviceHandles \ DOMAIN drivers :
       /\ \A e \in DeviceHandles \ DOMAIN drivers : d <= e
       /\ drivers' = Emplace(drivers, d, OpenedDriver)
  /\ nextDeviceId' = nextDeviceId + 1
  /\ Return(t, STATUS_NOERROR)
  /\ UNCHANGED <<channels, nextChannelId>>

Open(t) ==
  /\ nextDeviceId <= MaxDevices
  /\ drivers' = Emplace(drivers, nextDeviceId, OpenedDriver)
  /\ nextDeviceId' = nextDeviceId + 1
  /\ Return(t, STATUS_NOERROR)
  /\ UNCHANGED <<channels, nextChannelId>>

\* Mutant: the bindings outlive the device.
CloseKeepsBindings(t, d) ==
  \/ d \notin DOMAIN drivers /\ Refuse(t, ERR_INVALID_DEVICE_ID)
  \/ /\ d \in DOMAIN drivers
     /\ drivers' = Erase(drivers, d)
     /\ Return(t, STATUS_NOERROR)
     /\ UNCHANGED <<channels, nextDeviceId, nextChannelId>>

\* Every binding of the device goes before the driver does.
Close(t, d) ==
  \/ d \notin DOMAIN drivers /\ Refuse(t, ERR_INVALID_DEVICE_ID)
  \/ /\ d \in DOMAIN drivers
     /\ channels' = [h \in {x \in DOMAIN channels : channels[x].deviceId # d}
                       |-> channels[h]]
     /\ drivers' = Erase(drivers, d)
     /\ Return(t, STATUS_NOERROR)
     /\ UNCHANGED <<nextDeviceId, nextChannelId>>

ConnectFails(t, d) ==
  \/ Refuse(t, ERR_INVALID_MSG)
  \/ d \notin DOMAIN drivers /\ Refuse(t, ERR_INVALID_DEVICE_ID)

Connect(t, d, baud) ==
  /\ d \in DOMAIN drivers
  /\ DriverConnectStatus(drivers[d]) = STATUS_NOERROR
  /\ nextChannelId <= MaxChannels
  /\ drivers' = [drivers EXCEPT ![d] = DriverConnect(@, baud)]
  /\ channels' = Emplace(channels, nextChannelId,
                         [deviceId |-> d,
                          internalChannelId |-> drivers[d].nextChannel])
  /\ nextChannelId' = nextChannelId + 1
  /\ Return(t, STATUS_NOERROR)
  /\ UNCHANGED nextDeviceId

\* Mutant: the binding goes, the driver keeps its channel.
DisconnectBindingOnly(t, h) ==
  \/ h \notin DOMAIN channels /\ Refuse(t, ERR_INVALID_CHANNEL_ID)
  \/ /\ h \in DOMAIN channels
     /\ channels' = Erase(channels, h)
     /\ Return(t, STATUS_NOERROR)
     /\ UNCHANGED <<drivers, nextDeviceId, nextChannelId>>

Disconnect(t, h) ==
  \/ h \notin DOMAIN channels /\ Refuse(t, ERR_INVALID_CHANNEL_ID)
  \/ /\ h \in DOMAIN channels
     /\ drivers' = IF channels[h].deviceId \in DOMAIN drivers
                   THEN [drivers EXCEPT ![channels[h].deviceId] =
                           DriverDisconnect(@, Internal(h))]
                   ELSE drivers
     /\ channels' = Erase(channels, h)
     /\ Return(t, STATUS_NOERROR)
     /\ UNCHANGED <<nextDeviceId, nextChannelId>>

----------------------------------------------------------------------------
(* Calls on a channel, delegated to its driver.                            *)

Transfer(t, h) ==
  \/ Refuse(t, ERR_INVALID_MSG)
  \/ RefuseChannel(t, h)
  \/ /\ ChannelStatus(h) = STATUS_NOERROR
     /\ \E s \in TransferOutcomes(Driver(h), Internal(h)) : Refuse(t, s)

StartPeriodicMsg(t, h, arg) ==
  \/ arg = "nullOutput" /\ Refuse(t, ERR_INVALID_MSG)
  \/ arg # "nullOutput" /\ RefuseChannel(t, h)
  \/ /\ arg # "nullOutput" /\ ChannelStatus(h) = STATUS_NOERROR
     /\ arg = "valid" => Driver(h).nextPeriodicId <= MaxIds
     /\ Delegate(t, h, StartPeriodicStatus(Driver(h), Internal(h), arg),
                 StartPeriodic(Driver(h), Internal(h), arg))

StopPeriodicMsg(t, h, i) ==
  \/ RefuseChannel(t, h)
  \/ /\ ChannelStatus(h) = STATUS_NOERROR
     /\ Delegate(t, h, StopPeriodicStatus(Driver(h), Internal(h), i),
                 StopPeriodic(Driver(h), Internal(h), i))

StartMsgFilter(t, h, arg) ==
  \/ arg = "nullOutput" /\ Refuse(t, ERR_INVALID_MSG)
  \/ arg # "nullOutput" /\ RefuseChannel(t, h)
  \/ /\ arg # "nullOutput" /\ ChannelStatus(h) = STATUS_NOERROR
     /\ arg = "valid" => Driver(h).nextFilterId <= MaxIds
     /\ Delegate(t, h, StartFilterStatus(Driver(h), Internal(h), arg),
                 StartFilter(Driver(h), Internal(h), arg))

StopMsgFilter(t, h, i) ==
  \/ RefuseChannel(t, h)
  \/ /\ ChannelStatus(h) = STATUS_NOERROR
     /\ Delegate(t, h, StopFilterStatus(Driver(h), Internal(h), i),
                 StopFilter(Driver(h), Internal(h), i))

Ioctl(t, h, r, baud) ==
  \/ RefuseChannel(t, h)
  \/ /\ ChannelStatus(h) = STATUS_NOERROR
     /\ Delegate(t, h, DriverIoctlStatus(Driver(h), Internal(h), r),
                 DriverIoctl(Driver(h), Internal(h), r, baud))

----------------------------------------------------------------------------
(* Calls on a device that change nothing, and the error text.              *)

SetProgrammingVoltage(t, d) ==
  \/ d \notin DOMAIN drivers /\ Refuse(t, ERR_INVALID_DEVICE_ID)
  \/ /\ d \in DOMAIN drivers
     /\ \E zeroVolts \in BOOLEAN :
          Refuse(t, SetVoltageStatus(drivers[d], zeroVolts))

ReadVersion(t, d) ==
  \/ d \notin DOMAIN drivers /\ Refuse(t, ERR_INVALID_DEVICE_ID)
  \/ d \in DOMAIN drivers /\ Refuse(t, DriverConnectStatus(drivers[d]))

\* Without the mutex: a thread outside every call reads its own text, and
\* by doing so resets it.
GetLastError(t) ==
  /\ t \notin waiting /\ mutex # t
  /\ \E s \in {STATUS_NOERROR, ERR_INVALID_MSG} : recordResult(t, s)
  /\ UNCHANGED <<tables, mutex, waiting>>

----------------------------------------------------------------------------
Call(t) ==
  \/ OpenFails(t)
  \/ Open(t)
  \/ \E d \in DeviceHandles :
       \/ Close(t, d)
       \/ ConnectFails(t, d)
       \/ \E baud \in Bauds : Connect(t, d, baud)
       \/ SetProgrammingVoltage(t, d)
       \/ ReadVersion(t, d)
  \/ \E h \in ChannelHandles :
       \/ Disconnect(t, h)
       \/ Transfer(t, h)
       \/ \E arg \in PeriodicArgs : StartPeriodicMsg(t, h, arg)
       \/ \E arg \in FilterArgs : StartMsgFilter(t, h, arg)
       \/ \E i \in Ids : StopPeriodicMsg(t, h, i) \/ StopMsgFilter(t, h, i)
       \/ \E r \in IoctlArgs, baud \in Bauds : Ioctl(t, h, r, baud)

Next ==
  \E t \in Threads : Enter(t) \/ Acquire(t) \/ GetLastError(t) \/ Call(t)

Spec == Init /\ [][Next]_vars

----------------------------------------------------------------------------
(* Properties.                                                             *)

TypeOK ==
  /\ IsMap(drivers, DeviceHandles, {drivers[d] : d \in DOMAIN drivers})
  /\ \A d \in DOMAIN drivers : DriverTypeOK(drivers[d])
  /\ IsMap(channels, ChannelHandles, Bindings)
  /\ nextDeviceId \in 1..(MaxDevices + 1)
  /\ nextChannelId \in 1..(MaxChannels + 1)
  /\ mutex \in Threads \cup {NoThread}
  /\ waiting \in SUBSET (Threads \ {mutex})
  /\ lastError \in [Threads -> Statuses]

\* Every channel handle resolves all the way: its device is open, and that
\* device's driver has the channel.  close() has to erase the bindings of the
\* device it closes, and no others, for this to survive it.
BindingsResolve ==
  \A h \in DOMAIN channels :
    /\ channels[h].deviceId \in DOMAIN drivers
    /\ Internal(h) \in DOMAIN Driver(h).channels

\* Two channel handles never reach the same channel of the same driver: the
\* application that owns one cannot stop the other's filters or messages.
NoAliasing ==
  \A g, h \in DOMAIN channels : channels[g] = channels[h] => g = h

\* No channel of a driver is left without a handle to disconnect it by, and
\* a driver's three tables describe the same channels.
NoOrphanChannel ==
  \A d \in DOMAIN drivers :
    /\ \A c \in DOMAIN drivers[d].channels :
         \E h \in DOMAIN channels :
           channels[h] = [deviceId |-> d, internalChannelId |-> c]
    /\ DOMAIN drivers[d].periodicMessages = DOMAIN drivers[d].channels
    /\ DOMAIN drivers[d].filters = DOMAIN drivers[d].channels

\* No periodic message and no filter of a driver is on two of its channels.
OneOwner(drv) ==
  \A b, c \in DOMAIN drv.channels :
    b # c => /\ drv.periodicMessages[b] \cap drv.periodicMessages[c] = {}
             /\ drv.filters[b] \cap drv.filters[c] = {}

\* Every identifier in a table was handed out by its counter, which is past
\* it: the next identifier is always a new one, and none has two owners.  The
\* driver's own counter never overtakes the registry's.
CountersAhead ==
  /\ \A h \in DOMAIN channels : h < nextChannelId
  /\ \A d \in DOMAIN drivers :
       /\ d < nextDeviceId
       /\ drivers[d].open
       /\ drivers[d].nextChannel <= nextChannelId
       /\ OneOwner(drivers[d])
       /\ \A c \in DOMAIN drivers[d].channels :
            /\ c < drivers[d].nextChannel
            /\ \A i \in drivers[d].periodicMessages[c] :
                 i < drivers[d].nextPeriodicId
            /\ \A i \in drivers[d].filters[c] : i < drivers[d].nextFilterId

\* A handle that has been closed is never issued again: an application that
\* keeps a stale device or channel handle gets an error for ever, and not
\* somebody else's device or channel.
StaleHandlesStayStale ==
  [][ /\ \A d \in 1..(nextDeviceId - 1) :
           d \notin DOMAIN drivers => d \notin DOMAIN drivers'
      /\ \A h \in 1..(nextChannelId - 1) :
           h \notin DOMAIN channels => h \notin DOMAIN channels' ]_vars

\* This step ends a call of thread t: it gives up the mutex, or it is
\* PassThruGetLastError, which leaves mutex and tables alone.
Calling(t) ==
  /\ t \notin waiting
  /\ mutex = t => mutex' = NoThread
  /\ mutex # t => mutex' = mutex /\ UNCHANGED tables

\* The error text of a thread changes only by a call of that thread: whatever
\* the others do between a failed call and PassThruGetLastError, the text is
\* still the one of the failed call.
ErrorTextIsThreadLocal ==
  [][ \A t \in Threads : lastError'[t] # lastError[t] => Calling(t) ]_vars

\* Registry implements PassThru: a handle's baud rate, periodic messages and
\* filters are those its driver keeps under the internal identifier.
Promise == INSTANCE PassThru WITH
  device <- DOMAIN drivers,
  channel <- [h \in DOMAIN channels |->
                [device |-> channels[h].deviceId,
                 baud |-> Driver(h).channels[Internal(h)],
                 periodic |-> Driver(h).periodicMessages[Internal(h)],
                 filter |-> Driver(h).filters[Internal(h)]]],
  issuedDevice <- 1..(nextDeviceId - 1),
  issuedChannel <- 1..(nextChannelId - 1)

\* Seen from the application, the two levels of handles, the drivers and the
\* mutex are invisible: every call acts on the channel its handle names and
\* on nothing else, and returns the status PassThru gives it.
ImplementsPassThru == Promise!Spec

============================================================================
