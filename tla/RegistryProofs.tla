--------------------------- MODULE RegistryProofs ---------------------------
(***************************************************************************)
(* Proofs about Registry, for any number of threads, devices, channels and *)
(* identifiers.                                                            *)
(*                                                                         *)
(* The driver operations come first: each keeps the invariant of its own   *)
(* tables.  The registry's inductive invariant IInv joins the bindings to  *)
(* those tables, and has one step for every way the tables change: a       *)
(* delegated call, Open, Close, Connect, Disconnect.                       *)
(***************************************************************************)
EXTENDS Registry, TLAPS

\* What a driver keeps true of itself.
DriverInv(drv) ==
  /\ DriverTypeOK(drv)
  /\ drv.open
  /\ DOMAIN drv.periodicMessages = DOMAIN drv.channels
  /\ DOMAIN drv.filters = DOMAIN drv.channels
  /\ \A c \in DOMAIN drv.channels :
       /\ c < drv.nextChannel
       /\ \A i \in drv.periodicMessages[c] : i < drv.nextPeriodicId
       /\ \A i \in drv.filters[c] : i < drv.nextFilterId
  /\ OneOwner(drv)

\* A call on an existing channel leaves the set of channels as it was.
SameChannels(old, new) ==
  /\ DOMAIN new.channels = DOMAIN old.channels
  /\ new.nextChannel = old.nextChannel

----------------------------------------------------------------------------
(* Maps.                                                                   *)

\* Assigning a legal value to a legal key keeps a map a map.
LEMMA AssignKeepsMap ==
  ASSUME NEW f, NEW K, NEW V, IsMap(f, K, V), NEW k \in K, NEW v \in V
  PROVE  IsMap(Assign(f, k, v), K, V)
  BY DEF IsMap, Assign

\* So does replacing the value of a present key.
LEMMA ExceptKeepsMap ==
  ASSUME NEW f, NEW K, NEW V, IsMap(f, K, V), NEW k \in DOMAIN f, NEW v \in V
  PROVE  /\ IsMap([f EXCEPT ![k] = v], K, V)
         /\ DOMAIN [f EXCEPT ![k] = v] = DOMAIN f
         /\ \A x \in DOMAIN f :
              [f EXCEPT ![k] = v][x] = IF x = k THEN v ELSE f[x]
  BY DEF IsMap

----------------------------------------------------------------------------
(* Drivers.                                                                *)

\* A freshly opened driver has empty tables.
LEMMA OpenedDriverInv == DriverInv(OpenedDriver)
  BY BoundsAssumption
  DEF DriverInv, DriverTypeOK, OneOwner, OpenedDriver, EmptyMap, IsMap,
      InternalChannels, Ids

\* connect() adds one channel, under an identifier that was not in use.
LEMMA DriverConnectInv ==
  ASSUME NEW drv, NEW baud \in Bauds, DriverInv(drv),
         drv.nextChannel <= MaxChannels
  PROVE  /\ DriverInv(DriverConnect(drv, baud))
         /\ drv.nextChannel \notin DOMAIN drv.channels
         /\ DOMAIN DriverConnect(drv, baud).channels
              = DOMAIN drv.channels \cup {drv.nextChannel}
         /\ DriverConnect(drv, baud).nextChannel = drv.nextChannel + 1
  <1> DEFINE new == DriverConnect(drv, baud)
             c == drv.nextChannel
  <1>1. c \in InternalChannels /\ c \notin DOMAIN drv.channels
    BY BoundsAssumption DEF DriverInv, DriverTypeOK, InternalChannels, IsMap
  <1>2. new = [open |-> drv.open,
               channels |-> Assign(drv.channels, c, baud),
               periodicMessages |-> Assign(drv.periodicMessages, c, {}),
               filters |-> Assign(drv.filters, c, {}),
               nextChannel |-> drv.nextChannel + 1,
               nextPeriodicId |-> drv.nextPeriodicId,
               nextFilterId |-> drv.nextFilterId]
    <2>1. DOMAIN drv = {"open", "channels", "periodicMessages", "filters",
                        "nextChannel", "nextPeriodicId", "nextFilterId"}
      BY DEF DriverInv, DriverTypeOK
    <2>2. new = [f \in DOMAIN drv |-> new[f]]
      BY DEF DriverConnect
    <2>3. /\ new.open = drv.open
          /\ new.nextPeriodicId = drv.nextPeriodicId
          /\ new.nextFilterId = drv.nextFilterId
      BY <2>1 DEF DriverConnect
    <2>4. /\ new.nextChannel = drv.nextChannel + 1
          /\ new.channels = Assign(drv.channels, c, baud)
      BY <2>1 DEF DriverConnect
    <2>5. /\ new.periodicMessages = Assign(drv.periodicMessages, c, {})
          /\ new.filters = Assign(drv.filters, c, {})
      BY <2>1 DEF DriverConnect
    <2> HIDE DEF new
    <2>6. QED
      BY <2>1, <2>2, <2>3, <2>4, <2>5
  <1>3. /\ IsMap(Assign(drv.channels, c, baud), InternalChannels, Bauds)
        /\ IsMap(Assign(drv.periodicMessages, c, {}), InternalChannels, SUBSET Ids)
        /\ IsMap(Assign(drv.filters, c, {}), InternalChannels, SUBSET Ids)
    BY <1>1, AssignKeepsMap DEF DriverInv, DriverTypeOK
  <1>4. drv.nextChannel + 1 \in 1..(MaxChannels + 1)
    BY <1>1, BoundsAssumption DEF InternalChannels
  <1> HIDE DEF new
  <1>5. DriverTypeOK(new)
    BY <1>2, <1>3, <1>4 DEF DriverTypeOK, DriverInv
  <1>6. /\ DOMAIN new.channels = DOMAIN drv.channels \cup {c}
        /\ DOMAIN new.periodicMessages = DOMAIN drv.channels \cup {c}
        /\ DOMAIN new.filters = DOMAIN drv.channels \cup {c}
    BY <1>2 DEF Assign, DriverInv
  <1>7. ASSUME NEW x \in DOMAIN new.channels
        PROVE  /\ x < new.nextChannel
               /\ \A i \in new.periodicMessages[x] : i < new.nextPeriodicId
               /\ \A i \in new.filters[x] : i < new.nextFilterId
    <2>1. CASE x = c
      BY <2>1, <1>1, <1>2 DEF Assign, InternalChannels
    <2>2. CASE x # c
      <3>1. x \in DOMAIN drv.channels /\ x \in Nat /\ c \in Nat
        BY <2>2, <1>1, <1>6
        DEF DriverInv, DriverTypeOK, IsMap, InternalChannels
      <3>2. /\ new.periodicMessages[x] = drv.periodicMessages[x]
            /\ new.filters[x] = drv.filters[x]
        BY <2>2, <3>1, <1>2 DEF Assign, DriverInv
      <3>3. QED
        BY <3>1, <3>2, <1>2 DEF DriverInv
    <2>3. QED
      BY <2>1, <2>2
  <1>8. OneOwner(new)
    <2>1. \A x \in DOMAIN new.channels :
            /\ x = c => new.periodicMessages[x] = {} /\ new.filters[x] = {}
            /\ x # c => /\ x \in DOMAIN drv.channels
                        /\ new.periodicMessages[x] = drv.periodicMessages[x]
                        /\ new.filters[x] = drv.filters[x]
      BY <1>2, <1>6 DEF Assign, DriverInv
    <2> QED BY <2>1 DEF DriverInv, OneOwner
  <1>9. QED
    BY <1>1, <1>2, <1>5, <1>6, <1>7, <1>8 DEF DriverInv, new

\* disconnect() removes the channel from all three tables.
LEMMA DriverDisconnectInv ==
  ASSUME NEW drv, NEW c, DriverInv(drv)
  PROVE  /\ DriverInv(DriverDisconnect(drv, c))
         /\ DOMAIN DriverDisconnect(drv, c).channels = DOMAIN drv.channels \ {c}
         /\ DriverDisconnect(drv, c).nextChannel = drv.nextChannel
  BY DEF DriverInv, DriverTypeOK, OneOwner, DriverDisconnect, Erase, IsMap

\* startPeriodic() and stopPeriodic() touch one channel's messages.
LEMMA StartPeriodicInv ==
  ASSUME NEW drv, NEW c, NEW arg, DriverInv(drv),
         StartPeriodicStatus(drv, c, arg) = STATUS_NOERROR =>
           drv.nextPeriodicId <= MaxIds
  PROVE  /\ DriverInv(StartPeriodic(drv, c, arg))
         /\ SameChannels(drv, StartPeriodic(drv, c, arg))
  <1> DEFINE new == StartPeriodic(drv, c, arg)
             i == drv.nextPeriodicId
             v == drv.periodicMessages[c] \cup {i}
             add == [drv.periodicMessages EXCEPT ![c] = v]
  <1>1. CASE StartPeriodicStatus(drv, c, arg) # STATUS_NOERROR
    BY <1>1 DEF StartPeriodic, SameChannels
  <1>2. CASE StartPeriodicStatus(drv, c, arg) = STATUS_NOERROR
    <2>1. c \in DOMAIN drv.channels
      BY <1>2 DEF StartPeriodicStatus, DriverInv, STATUS_NOERROR,
        ERR_NOT_INITIALIZED, ERR_INVALID_MSG, ERR_INVALID_CHANNEL_ID
    <2>2. i \in Ids /\ v \in SUBSET Ids /\ c \in DOMAIN drv.periodicMessages
      BY <1>2, <2>1, BoundsAssumption DEF DriverInv, DriverTypeOK, IsMap, Ids
    <2>3. /\ IsMap(add, InternalChannels, SUBSET Ids)
          /\ DOMAIN add = DOMAIN drv.channels
          /\ \A x \in DOMAIN drv.channels :
               add[x] = IF x = c THEN v ELSE drv.periodicMessages[x]
      BY <2>2, ExceptKeepsMap DEF DriverInv, DriverTypeOK
    <2>4. new = [open |-> drv.open,
               channels |-> drv.channels,
               periodicMessages |-> add,
               filters |-> drv.filters,
               nextChannel |-> drv.nextChannel,
               nextPeriodicId |-> drv.nextPeriodicId + 1,
               nextFilterId |-> drv.nextFilterId]
      BY <1>2 DEF StartPeriodic, DriverInv, DriverTypeOK
    <2>5. i + 1 \in 1..(MaxIds + 1)
      BY <2>2, BoundsAssumption DEF Ids
    <2> HIDE DEF new, add
    <2>6. DriverTypeOK(new)
      BY <2>3, <2>4, <2>5 DEF DriverTypeOK, DriverInv
    <2>7. /\ DOMAIN new.channels = DOMAIN drv.channels
          /\ DOMAIN new.periodicMessages = DOMAIN drv.channels
          /\ DOMAIN new.filters = DOMAIN drv.channels
      BY <2>3, <2>4 DEF DriverInv
    <2>8. ASSUME NEW x \in DOMAIN drv.channels, NEW j \in new.periodicMessages[x]
          PROVE  j < new.nextPeriodicId
      <3>1. j = i \/ j \in drv.periodicMessages[x]
        BY <2>3, <2>4
      <3>2. j = i => j < i + 1
        BY <2>2 DEF Ids
      <3>3. j \in drv.periodicMessages[x] => j \in Ids /\ j < i
        BY DEF DriverInv, DriverTypeOK, IsMap
      <3>4. QED
        BY <3>1, <3>2, <3>3, <2>2, <2>4 DEF Ids
    <2>9. \A x \in DOMAIN drv.channels :
            /\ x < new.nextChannel
            /\ \A j \in new.filters[x] : j < new.nextFilterId
      BY <2>4 DEF DriverInv
    <2>10. OneOwner(new)
      <3>1. \A x \in DOMAIN drv.channels : i \notin drv.periodicMessages[x]
        BY <2>2 DEF DriverInv, Ids
      <3> QED BY <2>3, <2>4, <3>1 DEF DriverInv, OneOwner
    <2>11. QED
      BY <2>4, <2>6, <2>7, <2>8, <2>9, <2>10 DEF DriverInv, SameChannels, new
  <1>3. QED
    BY <1>1, <1>2

\* stopPeriodic() removes an identifier, which only loosens the bounds.
LEMMA StopPeriodicInv ==
  ASSUME NEW drv, NEW c, NEW i, DriverInv(drv)
  PROVE  /\ DriverInv(StopPeriodic(drv, c, i))
         /\ SameChannels(drv, StopPeriodic(drv, c, i))
  BY DEF DriverInv, DriverTypeOK, OneOwner, StopPeriodic, StopPeriodicStatus,
      SameChannels, IsMap, STATUS_NOERROR, ERR_NOT_INITIALIZED,
      ERR_INVALID_MSG, ERR_INVALID_CHANNEL_ID

\* startFilter() and stopFilter() touch one channel's filters.
LEMMA StartFilterInv ==
  ASSUME NEW drv, NEW c, NEW arg, DriverInv(drv),
         StartFilterStatus(drv, c, arg) = STATUS_NOERROR =>
           drv.nextFilterId <= MaxIds
  PROVE  /\ DriverInv(StartFilter(drv, c, arg))
         /\ SameChannels(drv, StartFilter(drv, c, arg))
  <1> DEFINE new == StartFilter(drv, c, arg)
             i == drv.nextFilterId
             v == drv.filters[c] \cup {i}
             add == [drv.filters EXCEPT ![c] = v]
  <1>1. CASE StartFilterStatus(drv, c, arg) # STATUS_NOERROR
    BY <1>1 DEF StartFilter, SameChannels
  <1>2. CASE StartFilterStatus(drv, c, arg) = STATUS_NOERROR
    <2>1. c \in DOMAIN drv.channels
      BY <1>2 DEF StartFilterStatus, DriverInv, STATUS_NOERROR,
        ERR_NOT_INITIALIZED, ERR_INVALID_MSG, ERR_INVALID_CHANNEL_ID, ERR_NOT_SUPPORTED
    <2>2. i \in Ids /\ v \in SUBSET Ids /\ c \in DOMAIN drv.filters
      BY <1>2, <2>1, BoundsAssumption DEF DriverInv, DriverTypeOK, IsMap, Ids
    <2>3. /\ IsMap(add, InternalChannels, SUBSET Ids)
          /\ DOMAIN add = DOMAIN drv.channels
          /\ \A x \in DOMAIN drv.channels :
               add[x] = IF x = c THEN v ELSE drv.filters[x]
      BY <2>2, ExceptKeepsMap DEF DriverInv, DriverTypeOK
    <2>4. new = [open |-> drv.open,
               channels |-> drv.channels,
               periodicMessages |-> drv.periodicMessages,
               filters |-> add,
               nextChannel |-> drv.nextChannel,
               nextPeriodicId |-> drv.nextPeriodicId,
               nextFilterId |-> drv.nextFilterId + 1]
      BY <1>2 DEF StartFilter, DriverInv, DriverTypeOK
    <2>5. i + 1 \in 1..(MaxIds + 1)
      BY <2>2, BoundsAssumption DEF Ids
    <2> HIDE DEF new, add
    <2>6. DriverTypeOK(new)
      BY <2>3, <2>4, <2>5 DEF DriverTypeOK, DriverInv
    <2>7. /\ DOMAIN new.channels = DOMAIN drv.channels
          /\ DOMAIN new.periodicMessages = DOMAIN drv.channels
          /\ DOMAIN new.filters = DOMAIN drv.channels
      BY <2>3, <2>4 DEF DriverInv
    <2>8. ASSUME NEW x \in DOMAIN drv.channels, NEW j \in new.filters[x]
          PROVE  j < new.nextFilterId
      <3>1. j = i \/ j \in drv.filters[x]
        BY <2>3, <2>4
      <3>2. j = i => j < i + 1
        BY <2>2 DEF Ids
      <3>3. j \in drv.filters[x] => j \in Ids /\ j < i
        BY DEF DriverInv, DriverTypeOK, IsMap
      <3>4. QED
        BY <3>1, <3>2, <3>3, <2>2, <2>4 DEF Ids
    <2>9. \A x \in DOMAIN drv.channels :
            /\ x < new.nextChannel
            /\ \A j \in new.periodicMessages[x] : j < new.nextPeriodicId
      BY <2>4 DEF DriverInv
    <2>10. OneOwner(new)
      <3>1. \A x \in DOMAIN drv.channels : i \notin drv.filters[x]
        BY <2>2 DEF DriverInv, Ids
      <3> QED BY <2>3, <2>4, <3>1 DEF DriverInv, OneOwner
    <2>11. QED
      BY <2>4, <2>6, <2>7, <2>8, <2>9, <2>10 DEF DriverInv, SameChannels, new
  <1>3. QED
    BY <1>1, <1>2

\* stopFilter() likewise.
LEMMA StopFilterInv ==
  ASSUME NEW drv, NEW c, NEW i, DriverInv(drv)
  PROVE  /\ DriverInv(StopFilter(drv, c, i))
         /\ SameChannels(drv, StopFilter(drv, c, i))
  BY DEF DriverInv, DriverTypeOK, OneOwner, StopFilter, StopFilterStatus,
      SameChannels, IsMap, STATUS_NOERROR, ERR_NOT_INITIALIZED,
      ERR_INVALID_MSG, ERR_INVALID_CHANNEL_ID

\* ioctl() may set one channel's baud rate.
LEMMA DriverIoctlInv ==
  ASSUME NEW drv, NEW c, NEW r, NEW baud \in Bauds, DriverInv(drv)
  PROVE  /\ DriverInv(DriverIoctl(drv, c, r, baud))
         /\ SameChannels(drv, DriverIoctl(drv, c, r, baud))
  BY DEF DriverInv, DriverTypeOK, OneOwner, DriverIoctl, DriverIoctlStatus,
      SameChannels, IsMap, STATUS_NOERROR, ERR_NOT_INITIALIZED,
      ERR_INVALID_CHANNEL_ID

----------------------------------------------------------------------------
(* The inductive invariant: bindings and drivers agree.                    *)

DriversInv ==
  /\ IsMap(drivers, DeviceHandles, {drivers[d] : d \in DOMAIN drivers})
  /\ nextDeviceId \in 1..(MaxDevices + 1)
  /\ \A d \in DOMAIN drivers :
       /\ DriverInv(drivers[d])
       /\ d < nextDeviceId
       /\ drivers[d].nextChannel <= nextChannelId

ChannelsInv ==
  /\ IsMap(channels, ChannelHandles, Bindings)
  /\ nextChannelId \in 1..(MaxChannels + 1)
  /\ \A h \in DOMAIN channels : h < nextChannelId

\* Every channel of every driver has a handle.
HandlesInv ==
  \A d \in DOMAIN drivers : \A c \in DOMAIN drivers[d].channels :
    \E h \in DOMAIN channels :
      channels[h] = [deviceId |-> d, internalChannelId |-> c]

TablesInv ==
  DriversInv /\ ChannelsInv /\ BindingsResolve /\ NoAliasing /\ HandlesInv

ThreadsInv ==
  /\ mutex \in Threads \cup {NoThread}
  /\ waiting \in SUBSET (Threads \ {mutex})
  /\ lastError \in [Threads -> Statuses]

IInv == TablesInv /\ ThreadsInv

\* The properties of Registry are what IInv says, conjunct by conjunct.
LEMMA IInvImplies ==
  IInv => TypeOK /\ BindingsResolve /\ NoAliasing /\ NoOrphanChannel
            /\ CountersAhead
  BY DEF IInv, TablesInv, DriversInv, ChannelsInv, HandlesInv, ThreadsInv,
         DriverInv, TypeOK, NoOrphanChannel, CountersAhead

\* A process starts with empty tables.
LEMMA InitIInv == Init => IInv
  BY BoundsAssumption, ThreadsAssumption
  DEF Init, IInv, TablesInv, DriversInv, ChannelsInv, HandlesInv, ThreadsInv,
      BindingsResolve, NoAliasing, EmptyMap, IsMap, DeviceHandles,
      ChannelHandles, Statuses, STATUS_NOERROR

\* A resolved handle names an open device and a channel of its driver.
LEMMA Resolved ==
  ASSUME TablesInv, NEW h, ChannelStatus(h) = STATUS_NOERROR
  PROVE  /\ h \in DOMAIN channels
         /\ channels[h] \in Bindings
         /\ channels[h].deviceId \in DOMAIN drivers
         /\ Internal(h) \in DOMAIN Driver(h).channels
         /\ DriverInv(Driver(h))
  BY DEF TablesInv, DriversInv, ChannelsInv, BindingsResolve, ChannelStatus,
         DeviceStatus, Driver, IsMap, STATUS_NOERROR, ERR_INVALID_CHANNEL_ID,
         ERR_INVALID_DEVICE_ID

\* A refused call, and every step outside a call, leaves the tables alone.
LEMMA UnchangedInv ==
  ASSUME TablesInv, UNCHANGED tables
  PROVE  TablesInv'
  <1>1. /\ drivers' = drivers
        /\ channels' = channels
        /\ nextDeviceId' = nextDeviceId
        /\ nextChannelId' = nextChannelId
    BY DEF tables
  <1>2. DriversInv' /\ ChannelsInv'
    BY <1>1 DEF TablesInv, DriversInv, ChannelsInv, IsMap, DeviceHandles,
                ChannelHandles
  <1>3. BindingsResolve' /\ NoAliasing' /\ HandlesInv'
    BY <1>1 DEF TablesInv, BindingsResolve, NoAliasing, HandlesInv, Internal,
                Driver
  <1>4. QED
    BY <1>2, <1>3 DEF TablesInv

\* Replacing a driver by one with the same channels disturbs no binding.
LEMMA DelegateInv ==
  ASSUME TablesInv, NEW t, NEW h, NEW s, NEW drv, DriverInv(drv),
         SameChannels(Driver(h), drv), Delegate(t, h, s, drv)
  PROVE  TablesInv'
  <1> DEFINE d == channels[h].deviceId
  <1>1. d \in DOMAIN drivers /\ DriverInv(Driver(h))
    BY Resolved DEF Delegate
  <1>2. /\ drivers' = [drivers EXCEPT ![d] = drv]
        /\ channels' = channels
        /\ nextDeviceId' = nextDeviceId
        /\ nextChannelId' = nextChannelId
    BY DEF Delegate
  <1>3. /\ DOMAIN drivers' = DOMAIN drivers
        /\ drivers' = [e \in DOMAIN drivers |->
                         IF e = d THEN drv ELSE drivers[e]]
    BY <1>2 DEF TablesInv, DriversInv, IsMap
  <1>4. \A e \in DOMAIN drivers :
          /\ DOMAIN drivers'[e].channels = DOMAIN drivers[e].channels
          /\ drivers'[e].nextChannel = drivers[e].nextChannel
          /\ DriverInv(drivers'[e])
    BY <1>1, <1>3 DEF SameChannels, Driver, TablesInv, DriversInv
  <1>5. DriversInv'
    BY <1>2, <1>3, <1>4 DEF TablesInv, DriversInv, IsMap, DeviceHandles
  <1>6. ChannelsInv' /\ NoAliasing'
    BY <1>2 DEF TablesInv, ChannelsInv, NoAliasing
  <1>7. BindingsResolve' /\ HandlesInv'
    BY <1>2, <1>3, <1>4
    DEF TablesInv, BindingsResolve, HandlesInv, Internal, Driver
  <1>8. QED
    BY <1>5, <1>6, <1>7 DEF TablesInv

\* A new device is empty, and its handle is past every handle in use.
LEMMA OpenInv ==
  ASSUME TablesInv, NEW t, Open(t)
  PROVE  TablesInv'
  <1>1. nextDeviceId \in DeviceHandles /\ nextDeviceId \notin DOMAIN drivers
    BY BoundsAssumption
    DEF TablesInv, DriversInv, Open, DeviceHandles, IsMap
  <1>2. /\ DOMAIN drivers' = DOMAIN drivers \cup {nextDeviceId}
        /\ drivers'[nextDeviceId] = OpenedDriver
        /\ \A d \in DOMAIN drivers : drivers'[d] = drivers[d]
        /\ drivers' = [d \in DOMAIN drivers' |-> drivers'[d]]
        /\ channels' = channels
        /\ nextDeviceId' = nextDeviceId + 1
        /\ nextChannelId' = nextChannelId
    BY <1>1 DEF Open, Emplace
  <1>3. /\ OpenedDriver.nextChannel = 1
        /\ DOMAIN OpenedDriver.channels = {}
    BY DEF OpenedDriver, EmptyMap
  <1>4. DriversInv'
    <2>1. nextDeviceId + 1 \in 1..(MaxDevices + 1)
      BY <1>1, BoundsAssumption DEF DeviceHandles
    <2>2. nextChannelId \in Nat /\ 1 <= nextChannelId
      BY BoundsAssumption DEF TablesInv, ChannelsInv
    <2>3. \A d \in DOMAIN drivers : d < nextDeviceId + 1
      BY <1>1 DEF TablesInv, DriversInv, IsMap, DeviceHandles
    <2>4. nextDeviceId < nextDeviceId + 1
      BY <1>1 DEF DeviceHandles
    <2>5. IsMap(drivers, DeviceHandles, {drivers[d] : d \in DOMAIN drivers})'
      BY <1>1, <1>2 DEF TablesInv, DriversInv, IsMap
    <2>6. QED
      BY <1>2, <1>3, <2>1, <2>2, <2>3, <2>4, <2>5, OpenedDriverInv
      DEF TablesInv, DriversInv
  <1>5. ChannelsInv' /\ NoAliasing'
    BY <1>2 DEF TablesInv, ChannelsInv, NoAliasing
  <1>6. BindingsResolve' /\ HandlesInv'
    BY <1>2, <1>3
    DEF TablesInv, BindingsResolve, HandlesInv, Internal, Driver
  <1>7. QED
    BY <1>4, <1>5, <1>6 DEF TablesInv

\* Closing a device removes its driver and exactly the bindings to it.
LEMMA CloseInv ==
  ASSUME TablesInv, NEW t, NEW d, Close(t, d)
  PROVE  TablesInv'
  <1>1. CASE d \notin DOMAIN drivers
    BY <1>1, UnchangedInv DEF Close, Refuse
  <1>2. CASE d \in DOMAIN drivers
    <2>1. /\ drivers' = [e \in DOMAIN drivers \ {d} |-> drivers[e]]
          /\ channels' = [h \in {x \in DOMAIN channels :
                                   channels[x].deviceId # d} |-> channels[h]]
          /\ nextDeviceId' = nextDeviceId
          /\ nextChannelId' = nextChannelId
      BY <1>2 DEF Close, Refuse, Erase
    <2>2. DriversInv'
      BY <2>1 DEF TablesInv, DriversInv, IsMap
    <2>3. ChannelsInv' /\ NoAliasing'
      BY <2>1 DEF TablesInv, ChannelsInv, NoAliasing, IsMap
    <2>4. BindingsResolve'
      BY <2>1 DEF TablesInv, BindingsResolve, Internal, Driver
    <2>5. HandlesInv'
      BY <2>1 DEF TablesInv, HandlesInv
    <2>6. QED
      BY <2>2, <2>3, <2>4, <2>5 DEF TablesInv
  <1>3. QED
    BY <1>1, <1>2

\* A new channel gets a handle past every handle in use and an internal
\* identifier past every identifier of its driver.
LEMMA ConnectInv ==
  ASSUME TablesInv, NEW t, NEW d, NEW baud \in Bauds, Connect(t, d, baud)
  PROVE  TablesInv'
  <1> DEFINE old == drivers[d]
             new == DriverConnect(old, baud)
             c == old.nextChannel
             b == [deviceId |-> d, internalChannelId |-> c]
  <1>1. /\ d \in DOMAIN drivers /\ d \in DeviceHandles
        /\ DriverInv(old)
        /\ c \in InternalChannels
        /\ nextChannelId \in ChannelHandles
        /\ nextChannelId \notin DOMAIN channels
    <2>1. nextChannelId \in ChannelHandles /\ nextChannelId \notin DOMAIN channels
      BY BoundsAssumption
      DEF Connect, TablesInv, ChannelsInv, ChannelHandles, IsMap
    <2>2. d \in DOMAIN drivers /\ d \in DeviceHandles /\ DriverInv(old)
      BY DEF Connect, TablesInv, DriversInv, IsMap
    <2>3. c \in 1..(MaxChannels + 1) /\ c <= nextChannelId
      BY <2>2 DEF TablesInv, DriversInv, DriverInv, DriverTypeOK
    <2>4. c \in InternalChannels
      BY <2>1, <2>3, BoundsAssumption DEF InternalChannels, ChannelHandles
    <2>5. QED
      BY <2>1, <2>2, <2>4
  <1>2. /\ DriverInv(new)
        /\ c \notin DOMAIN old.channels
        /\ DOMAIN new.channels = DOMAIN old.channels \cup {c}
        /\ new.nextChannel = c + 1
    BY <1>1, DriverConnectInv DEF InternalChannels
  <1>3. /\ drivers' = [drivers EXCEPT ![d] = new]
        /\ channels' = Emplace(channels, nextChannelId, b)
        /\ nextChannelId' = nextChannelId + 1
        /\ nextDeviceId' = nextDeviceId
    BY DEF Connect
  <1> HIDE DEF new
  <1>4. /\ DOMAIN drivers' = DOMAIN drivers
        /\ drivers' = [e \in DOMAIN drivers |-> drivers'[e]]
        /\ drivers'[d] = new
        /\ \A e \in DOMAIN drivers : e # d => drivers'[e] = drivers[e]
    BY <1>1, <1>3 DEF TablesInv, DriversInv, IsMap
  <1>5. /\ DOMAIN channels' = DOMAIN channels \cup {nextChannelId}
        /\ channels' = [h \in DOMAIN channels' |-> channels'[h]]
        /\ channels'[nextChannelId] = b
        /\ \A h \in DOMAIN channels : channels'[h] = channels[h]
    BY <1>1, <1>3 DEF Emplace
  <1>6. nextChannelId \in Nat /\ nextChannelId + 1 \in 1..(MaxChannels + 1)
    BY <1>1, BoundsAssumption DEF ChannelHandles
  <1>7. DriversInv'
    <2>1. ASSUME NEW e \in DOMAIN drivers
          PROVE  drivers'[e].nextChannel <= nextChannelId + 1
      <3>1. drivers[e].nextChannel \in Nat /\ drivers[e].nextChannel <= nextChannelId
        BY BoundsAssumption DEF TablesInv, DriversInv, DriverInv, DriverTypeOK
      <3>2. QED
        BY <3>1, <1>2, <1>4, <1>6
    <2>2. \A e \in DOMAIN drivers : DriverInv(drivers'[e])
      BY <1>2, <1>4 DEF TablesInv, DriversInv
    <2>3. IsMap(drivers, DeviceHandles, {drivers[e] : e \in DOMAIN drivers})'
      BY <1>4 DEF TablesInv, DriversInv, IsMap
    <2>4. QED
      BY <1>3, <1>4, <2>1, <2>2, <2>3 DEF TablesInv, DriversInv
  <1>8. ChannelsInv'
    <2>1. b \in Bindings
      BY <1>1 DEF Bindings
    <2>2. IsMap(channels, ChannelHandles, Bindings)'
      BY <1>1, <1>5, <2>1 DEF TablesInv, ChannelsInv, IsMap
    <2>3. \A h \in DOMAIN channels' : h < nextChannelId'
      BY <1>3, <1>5, <1>6 DEF TablesInv, ChannelsInv, IsMap, ChannelHandles
    <2>4. QED
      BY <1>3, <1>6, <2>2, <2>3 DEF ChannelsInv
  <1>9. BindingsResolve'
    <2>1. ASSUME NEW h \in DOMAIN channels
          PROVE  /\ channels'[h].deviceId \in DOMAIN drivers'
                 /\ channels'[h].internalChannelId
                      \in DOMAIN drivers'[channels'[h].deviceId].channels
      BY <1>2, <1>4, <1>5 DEF TablesInv, BindingsResolve, Internal, Driver
    <2>2. /\ b.deviceId \in DOMAIN drivers'
          /\ b.internalChannelId \in DOMAIN drivers'[b.deviceId].channels
      BY <1>1, <1>2, <1>4
    <2>3. QED
      BY <1>5, <2>1, <2>2 DEF BindingsResolve, Internal, Driver
  <1>10. NoAliasing'
    <2>1. \A h \in DOMAIN channels : channels[h] # b
      BY <1>2 DEF TablesInv, BindingsResolve, Internal, Driver
    <2>2. QED
      BY <1>5, <2>1 DEF TablesInv, NoAliasing
  <1>11. HandlesInv'
    <2>1. ASSUME NEW e \in DOMAIN drivers, NEW x \in DOMAIN drivers'[e].channels
          PROVE  \E h \in DOMAIN channels' :
                   channels'[h] = [deviceId |-> e, internalChannelId |-> x]
      <3>1. CASE e = d /\ x = c
        BY <3>1, <1>5
      <3>2. CASE ~(e = d /\ x = c)
        <4>1. x \in DOMAIN drivers[e].channels
          BY <3>2, <1>2, <1>4
        <4>2. PICK h \in DOMAIN channels :
                channels[h] = [deviceId |-> e, internalChannelId |-> x]
          BY <4>1 DEF TablesInv, HandlesInv
        <4>3. QED
          BY <4>2, <1>5
      <3>3. QED
        BY <3>1, <3>2
    <2>2. QED
      BY <2>1, <1>4 DEF HandlesInv
  <1>12. QED
    BY <1>7, <1>8, <1>9, <1>10, <1>11 DEF TablesInv

\* Disconnecting takes one binding and the one channel behind it, which by
\* NoAliasing no other handle reaches.
LEMMA DisconnectInv ==
  ASSUME TablesInv, NEW t, NEW h, Disconnect(t, h)
  PROVE  TablesInv'
  <1>1. CASE h \notin DOMAIN channels
    BY <1>1, UnchangedInv DEF Disconnect, Refuse
  <1>2. CASE h \in DOMAIN channels
    <2> DEFINE d == channels[h].deviceId
               c == channels[h].internalChannelId
               new == DriverDisconnect(drivers[d], c)
    <2>1. /\ d \in DOMAIN drivers
          /\ DriverInv(drivers[d])
          /\ channels[h] = [deviceId |-> d, internalChannelId |-> c]
      BY <1>2 DEF TablesInv, BindingsResolve, DriversInv, ChannelsInv, IsMap,
                  Bindings
    <2>2. /\ DriverInv(new)
          /\ DOMAIN new.channels = DOMAIN drivers[d].channels \ {c}
          /\ new.nextChannel = drivers[d].nextChannel
      BY <2>1, DriverDisconnectInv
    <2>3. /\ drivers' = [drivers EXCEPT ![d] = new]
          /\ channels' = [x \in DOMAIN channels \ {h} |-> channels[x]]
          /\ nextDeviceId' = nextDeviceId
          /\ nextChannelId' = nextChannelId
      BY <1>2, <2>1 DEF Disconnect, Refuse, Erase, Internal
    <2> HIDE DEF new
    <2>4. /\ DOMAIN drivers' = DOMAIN drivers
          /\ drivers' = [e \in DOMAIN drivers |-> drivers'[e]]
          /\ drivers'[d] = new
          /\ \A e \in DOMAIN drivers : e # d => drivers'[e] = drivers[e]
      BY <2>1, <2>3 DEF TablesInv, DriversInv, IsMap
    <2>5. DriversInv'
      <3>1. IsMap(drivers, DeviceHandles, {drivers[e] : e \in DOMAIN drivers})'
        BY <2>4 DEF TablesInv, DriversInv, IsMap
      <3>2. QED
        BY <2>2, <2>3, <2>4, <3>1 DEF TablesInv, DriversInv
    <2>6. ChannelsInv' /\ NoAliasing'
      BY <2>3 DEF TablesInv, ChannelsInv, NoAliasing, IsMap
    <2>7. BindingsResolve'
      <3>1. ASSUME NEW g \in DOMAIN channels, g # h
            PROVE  /\ channels[g].deviceId \in DOMAIN drivers'
                   /\ channels[g].internalChannelId
                        \in DOMAIN drivers'[channels[g].deviceId].channels
        <4>1. channels[g] # channels[h]
          BY <1>2, <3>1 DEF TablesInv, NoAliasing
        <4>2. channels[g] = [deviceId |-> channels[g].deviceId,
                             internalChannelId |-> channels[g].internalChannelId]
          BY DEF TablesInv, ChannelsInv, IsMap, Bindings
        <4>3. channels[g].deviceId # d \/ channels[g].internalChannelId # c
          BY <4>1, <4>2, <2>1
        <4>4. QED
          BY <4>3, <2>2, <2>4 DEF TablesInv, BindingsResolve, Internal, Driver
      <3>2. QED
        BY <3>1, <2>3 DEF BindingsResolve, Internal, Driver
    <2>8. HandlesInv'
      <3>1. ASSUME NEW e \in DOMAIN drivers, NEW x \in DOMAIN drivers'[e].channels
            PROVE  \E g \in DOMAIN channels' :
                     channels'[g] = [deviceId |-> e, internalChannelId |-> x]
        <4>1. x \in DOMAIN drivers[e].channels /\ ~(e = d /\ x = c)
          BY <2>2, <2>4
        <4>2. PICK g \in DOMAIN channels :
                channels[g] = [deviceId |-> e, internalChannelId |-> x]
          BY <4>1 DEF TablesInv, HandlesInv
        <4>3. g # h
          BY <4>1, <4>2
        <4>4. QED
          BY <4>2, <4>3, <2>3
      <3>2. QED
        BY <3>1, <2>4 DEF HandlesInv
    <2>9. QED
      BY <2>5, <2>6, <2>7, <2>8 DEF TablesInv
  <1>3. QED
    BY <1>1, <1>2

----------------------------------------------------------------------------
(* Every step keeps the invariant.                                         *)

\* The library's own calls, on whichever path.
LEMMA CallTablesInv ==
  ASSUME TablesInv, NEW t, Call(t)
  PROVE  TablesInv'
  <1>1. ASSUME OpenFails(t) PROVE TablesInv'
    BY <1>1, UnchangedInv DEF OpenFails, Refuse
  <1>2. ASSUME Open(t) PROVE TablesInv'
    BY <1>2, OpenInv
  <1>3. ASSUME NEW d \in DeviceHandles, Close(t, d) PROVE TablesInv'
    BY <1>3, CloseInv
  <1>4. ASSUME NEW d \in DeviceHandles, ConnectFails(t, d) PROVE TablesInv'
    BY <1>4, UnchangedInv DEF ConnectFails, Refuse
  <1>5. ASSUME NEW d \in DeviceHandles, NEW baud \in Bauds, Connect(t, d, baud)
        PROVE  TablesInv'
    BY <1>5, ConnectInv
  <1>6. ASSUME NEW d \in DeviceHandles,
               SetProgrammingVoltage(t, d) \/ ReadVersion(t, d)
        PROVE  TablesInv'
    BY <1>6, UnchangedInv DEF SetProgrammingVoltage, ReadVersion, Refuse
  <1>7. ASSUME NEW h \in ChannelHandles, Disconnect(t, h) PROVE TablesInv'
    BY <1>7, DisconnectInv
  <1>8. ASSUME NEW h \in ChannelHandles, Transfer(t, h) PROVE TablesInv'
    BY <1>8, UnchangedInv DEF Transfer, RefuseChannel, Refuse
  <1>9. ASSUME NEW h \in ChannelHandles, NEW arg \in PeriodicArgs,
               StartPeriodicMsg(t, h, arg)
        PROVE  TablesInv'
    <2>1. CASE UNCHANGED tables
      BY <2>1, UnchangedInv
    <2>2. CASE /\ ChannelStatus(h) = STATUS_NOERROR
               /\ arg = "valid" => Driver(h).nextPeriodicId <= MaxIds
               /\ arg # "nullOutput"
               /\ Delegate(t, h, StartPeriodicStatus(Driver(h), Internal(h), arg),
                           StartPeriodic(Driver(h), Internal(h), arg))
      <3>1. StartPeriodicStatus(Driver(h), Internal(h), arg) = STATUS_NOERROR =>
              Driver(h).nextPeriodicId <= MaxIds
        BY <2>2 DEF PeriodicArgs, StartPeriodicStatus, STATUS_NOERROR,
                    ERR_NOT_INITIALIZED, ERR_INVALID_MSG
      <3>2. QED
        BY <2>2, <3>1, Resolved, StartPeriodicInv, DelegateInv
    <2>3. QED
      BY <1>9, <2>1, <2>2 DEF StartPeriodicMsg, RefuseChannel, Refuse
  <1>10. ASSUME NEW h \in ChannelHandles, NEW arg \in FilterArgs,
                StartMsgFilter(t, h, arg)
         PROVE  TablesInv'
    <2>1. CASE UNCHANGED tables
      BY <2>1, UnchangedInv
    <2>2. CASE /\ ChannelStatus(h) = STATUS_NOERROR
               /\ arg = "valid" => Driver(h).nextFilterId <= MaxIds
               /\ arg # "nullOutput"
               /\ Delegate(t, h, StartFilterStatus(Driver(h), Internal(h), arg),
                           StartFilter(Driver(h), Internal(h), arg))
      <3>1. StartFilterStatus(Driver(h), Internal(h), arg) = STATUS_NOERROR =>
              Driver(h).nextFilterId <= MaxIds
        BY <2>2 DEF FilterArgs, StartFilterStatus, STATUS_NOERROR,
                    ERR_NOT_INITIALIZED, ERR_INVALID_CHANNEL_ID,
                    ERR_INVALID_MSG, ERR_NOT_SUPPORTED
      <3>2. QED
        BY <2>2, <3>1, Resolved, StartFilterInv, DelegateInv
    <2>3. QED
      BY <1>10, <2>1, <2>2 DEF StartMsgFilter, RefuseChannel, Refuse
  <1>11. ASSUME NEW h \in ChannelHandles, NEW i \in Ids, StopPeriodicMsg(t, h, i)
         PROVE  TablesInv'
    <2>1. CASE UNCHANGED tables
      BY <2>1, UnchangedInv
    <2>2. CASE /\ ChannelStatus(h) = STATUS_NOERROR
               /\ Delegate(t, h, StopPeriodicStatus(Driver(h), Internal(h), i),
                           StopPeriodic(Driver(h), Internal(h), i))
      BY <2>2, Resolved, StopPeriodicInv, DelegateInv
    <2>3. QED
      BY <1>11, <2>1, <2>2 DEF StopPeriodicMsg, RefuseChannel, Refuse
  <1>12. ASSUME NEW h \in ChannelHandles, NEW i \in Ids, StopMsgFilter(t, h, i)
         PROVE  TablesInv'
    <2>1. CASE UNCHANGED tables
      BY <2>1, UnchangedInv
    <2>2. CASE /\ ChannelStatus(h) = STATUS_NOERROR
               /\ Delegate(t, h, StopFilterStatus(Driver(h), Internal(h), i),
                           StopFilter(Driver(h), Internal(h), i))
      BY <2>2, Resolved, StopFilterInv, DelegateInv
    <2>3. QED
      BY <1>12, <2>1, <2>2 DEF StopMsgFilter, RefuseChannel, Refuse
  <1>13. ASSUME NEW h \in ChannelHandles, NEW r \in IoctlArgs, NEW baud \in Bauds,
                Ioctl(t, h, r, baud)
         PROVE  TablesInv'
    <2>1. CASE UNCHANGED tables
      BY <2>1, UnchangedInv
    <2>2. CASE /\ ChannelStatus(h) = STATUS_NOERROR
               /\ Delegate(t, h, DriverIoctlStatus(Driver(h), Internal(h), r),
                           DriverIoctl(Driver(h), Internal(h), r, baud))
      BY <2>2, Resolved, DriverIoctlInv, DelegateInv
    <2>3. QED
      BY <1>13, <2>1, <2>2 DEF Ioctl, RefuseChannel, Refuse
  <1>14. QED
    BY <1>1, <1>2, <1>3, <1>4, <1>5, <1>6, <1>7, <1>8, <1>9, <1>10, <1>11,
       <1>12, <1>13
    DEF Call

\* Every call ends by recording a status and freeing the mutex.
LEMMA CallReturns ==
  ASSUME NEW t, Call(t)
  PROVE  \E s \in Statuses : Return(t, s)
  <1> USE DEF Statuses, TransferStatuses, STATUS_NOERROR, ERR_FAILED,
        ERR_NOT_INITIALIZED, ERR_INVALID_DEVICE_ID, ERR_INVALID_CHANNEL_ID,
        ERR_INVALID_MSG, ERR_TIMEOUT, ERR_NOT_SUPPORTED
  <1>1. ASSUME NEW s, Refuse(t, s), s \in Statuses
        PROVE  \E r \in Statuses : Return(t, r)
    BY <1>1 DEF Refuse
  <1>2. \A h : ChannelStatus(h) \in Statuses
    BY DEF ChannelStatus, DeviceStatus
  <1>3. ASSUME NEW h, RefuseChannel(t, h)
        PROVE  \E s \in Statuses : Return(t, s)
    BY <1>1, <1>2, <1>3 DEF RefuseChannel
  <1>4. ASSUME NEW h, NEW s \in Statuses, NEW drv, Delegate(t, h, s, drv)
        PROVE  \E r \in Statuses : Return(t, r)
    BY <1>4 DEF Delegate
  <1>5. ASSUME OpenFails(t) \/ Open(t)
        PROVE  \E s \in Statuses : Return(t, s)
    BY <1>5 DEF OpenFails, Open, Refuse
  <1>6. ASSUME NEW d, NEW baud,
               Close(t, d) \/ ConnectFails(t, d) \/ Connect(t, d, baud)
        PROVE  \E s \in Statuses : Return(t, s)
    BY <1>6 DEF Close, ConnectFails, Connect, Refuse
  <1>7. ASSUME NEW d \in DeviceHandles,
               SetProgrammingVoltage(t, d) \/ ReadVersion(t, d)
        PROVE  \E s \in Statuses : Return(t, s)
    BY <1>7 DEF SetProgrammingVoltage, ReadVersion, Refuse, SetVoltageStatus,
                DriverConnectStatus
  <1>8. ASSUME NEW h \in ChannelHandles, Disconnect(t, h)
        PROVE  \E s \in Statuses : Return(t, s)
    BY <1>8 DEF Disconnect, Refuse
  <1>9. ASSUME NEW h \in ChannelHandles, Transfer(t, h)
        PROVE  \E s \in Statuses : Return(t, s)
    <2>1. TransferOutcomes(Driver(h), Internal(h)) \subseteq Statuses
      BY DEF TransferOutcomes
    <2>2. QED
      BY <1>9, <1>1, <1>3, <2>1 DEF Transfer
  <1>10. ASSUME NEW h \in ChannelHandles, NEW arg,
                StartPeriodicMsg(t, h, arg) \/ StartMsgFilter(t, h, arg)
         PROVE  \E s \in Statuses : Return(t, s)
    <2>1. /\ StartPeriodicStatus(Driver(h), Internal(h), arg) \in Statuses
          /\ StartFilterStatus(Driver(h), Internal(h), arg) \in Statuses
      BY DEF StartPeriodicStatus, StartFilterStatus
    <2>2. QED
      BY <1>10, <1>1, <1>3, <1>4, <2>1 DEF StartPeriodicMsg, StartMsgFilter
  <1>11. ASSUME NEW h \in ChannelHandles, NEW i,
                StopPeriodicMsg(t, h, i) \/ StopMsgFilter(t, h, i)
         PROVE  \E s \in Statuses : Return(t, s)
    <2>1. /\ StopPeriodicStatus(Driver(h), Internal(h), i) \in Statuses
          /\ StopFilterStatus(Driver(h), Internal(h), i) \in Statuses
      BY DEF StopPeriodicStatus, StopFilterStatus
    <2>2. QED
      BY <1>11, <1>3, <1>4, <2>1 DEF StopPeriodicMsg, StopMsgFilter
  <1>12. ASSUME NEW h \in ChannelHandles, NEW r, NEW baud, Ioctl(t, h, r, baud)
         PROVE  \E s \in Statuses : Return(t, s)
    <2>1. DriverIoctlStatus(Driver(h), Internal(h), r) \in Statuses
      BY DEF DriverIoctlStatus, IoctlStatus
    <2>2. QED
      BY <1>12, <1>3, <1>4, <2>1 DEF Ioctl
  <1>13. QED
    BY <1>5, <1>6, <1>7, <1>8, <1>9, <1>10, <1>11, <1>12 DEF Call

\* The mutex has one holder, and the holder waits for nothing.
LEMMA NextThreadsInv ==
  ASSUME ThreadsInv, NEW t \in Threads,
         Enter(t) \/ Acquire(t) \/ GetLastError(t) \/ Call(t)
  PROVE  ThreadsInv'
  <1>1. CASE Enter(t)
    BY <1>1 DEF Enter, ThreadsInv
  <1>2. CASE Acquire(t)
    BY <1>2 DEF Acquire, ThreadsInv
  <1>3. CASE GetLastError(t)
    BY <1>3 DEF GetLastError, recordResult, ThreadsInv, Statuses,
                STATUS_NOERROR, ERR_INVALID_MSG
  <1>4. CASE Call(t)
    <2>1. PICK s \in Statuses : Return(t, s)
      BY <1>4, CallReturns
    <2>2. QED
      BY <2>1, ThreadsAssumption DEF Return, recordResult, ThreadsInv
  <1>5. QED
    BY <1>1, <1>2, <1>3, <1>4

\* The inductive step, action by action.
THEOREM NextIInv == IInv /\ [Next]_vars => IInv'
  <1> SUFFICES ASSUME IInv, [Next]_vars PROVE IInv'
    OBVIOUS
  <1>1. CASE UNCHANGED vars
    <2>1. UNCHANGED tables /\ ThreadsInv'
      BY <1>1 DEF vars, tables, IInv, ThreadsInv
    <2>2. QED
      BY <2>1, UnchangedInv DEF IInv
  <1>2. ASSUME NEW t \in Threads,
               Enter(t) \/ Acquire(t) \/ GetLastError(t) \/ Call(t)
        PROVE  IInv'
    <2>1. ThreadsInv'
      BY <1>2, NextThreadsInv DEF IInv
    <2>2. TablesInv'
      BY <1>2, UnchangedInv, CallTablesInv DEF IInv, Enter, Acquire, GetLastError
    <2>3. QED
      BY <2>1, <2>2 DEF IInv
  <1>3. QED
    BY <1>1, <1>2 DEF Next

\* IInv is an invariant of the registry.
THEOREM Invariance == Spec => []IInv
  <1>1. QED
    BY InitIInv, NextIInv, PTL DEF Spec

\* Type correctness, for every number of threads and every bound.
THEOREM TypeCorrect == Spec => []TypeOK
  <1>1. QED
    BY Invariance, IInvImplies, PTL

\* A channel handle the registry accepts always reaches an open device and an
\* existing channel of its driver.
THEOREM HandlesResolve == Spec => []BindingsResolve
  <1>1. QED
    BY Invariance, IInvImplies, PTL

\* No two channel handles reach the same channel.
THEOREM HandlesDoNotAlias == Spec => []NoAliasing
  <1>1. QED
    BY Invariance, IInvImplies, PTL

\* No channel of a driver is left without a handle.
THEOREM NoChannelLeaks == Spec => []NoOrphanChannel
  <1>1. QED
    BY Invariance, IInvImplies, PTL

\* Identifiers are always below the counters they come from, and no periodic
\* message or filter of a driver is on two of its channels.
THEOREM CountersStayAhead == Spec => []CountersAhead
  <1>1. QED
    BY Invariance, IInvImplies, PTL

----------------------------------------------------------------------------
(* What no step may do.                                                    *)

\* A call adds at most the next device handle and the next channel handle.
OnlyNextHandles ==
  /\ DOMAIN drivers' \subseteq DOMAIN drivers \cup {nextDeviceId}
  /\ DOMAIN channels' \subseteq DOMAIN channels \cup {nextChannelId}

\* The only handle a call can add is the counter's value.
LEMMA CallAddsOnlyNext ==
  ASSUME NEW t, Call(t)
  PROVE  OnlyNextHandles
  <1>1. ASSUME UNCHANGED tables PROVE OnlyNextHandles
    BY <1>1 DEF tables, OnlyNextHandles
  <1>2. ASSUME NEW h, NEW s, NEW drv, Delegate(t, h, s, drv)
        PROVE  OnlyNextHandles
    BY <1>2 DEF Delegate, OnlyNextHandles
  <1>3. ASSUME NEW d, NEW baud,
               \/ OpenFails(t) \/ ConnectFails(t, d)
               \/ SetProgrammingVoltage(t, d) \/ ReadVersion(t, d)
        PROVE  OnlyNextHandles
    BY <1>1, <1>3 DEF OpenFails, ConnectFails, SetProgrammingVoltage,
                      ReadVersion, Refuse
  <1>4. ASSUME NEW h, Transfer(t, h) PROVE OnlyNextHandles
    BY <1>1, <1>4 DEF Transfer, RefuseChannel, Refuse
  <1>5. ASSUME NEW h, NEW arg,
               StartPeriodicMsg(t, h, arg) \/ StartMsgFilter(t, h, arg)
        PROVE  OnlyNextHandles
    BY <1>1, <1>2, <1>5 DEF StartPeriodicMsg, StartMsgFilter, RefuseChannel,
                            Refuse
  <1>6. ASSUME NEW h, NEW i, StopPeriodicMsg(t, h, i) \/ StopMsgFilter(t, h, i)
        PROVE  OnlyNextHandles
    BY <1>1, <1>2, <1>6 DEF StopPeriodicMsg, StopMsgFilter, RefuseChannel, Refuse
  <1>7. ASSUME NEW h, NEW r, NEW baud, Ioctl(t, h, r, baud)
        PROVE  OnlyNextHandles
    BY <1>1, <1>2, <1>7 DEF Ioctl, RefuseChannel, Refuse
  <1>8. ASSUME Open(t) PROVE OnlyNextHandles
    BY <1>8 DEF Open, Emplace, OnlyNextHandles
  <1>9. ASSUME NEW d, Close(t, d) PROVE OnlyNextHandles
    BY <1>1, <1>9 DEF Close, Refuse, Erase, OnlyNextHandles
  <1>10. ASSUME NEW d, NEW baud, Connect(t, d, baud) PROVE OnlyNextHandles
    BY <1>10 DEF Connect, Emplace, OnlyNextHandles
  <1>11. ASSUME NEW h, Disconnect(t, h) PROVE OnlyNextHandles
    BY <1>1, <1>11 DEF Disconnect, Refuse, Erase, OnlyNextHandles
  <1>12. QED
    BY <1>3, <1>4, <1>5, <1>6, <1>7, <1>8, <1>9, <1>10, <1>11 DEF Call

\* A closed handle is never issued again, however long the process runs.
THEOREM StaleHandles == Spec => StaleHandlesStayStale
  <1> DEFINE A == /\ \A d \in 1..(nextDeviceId - 1) :
                       d \notin DOMAIN drivers => d \notin DOMAIN drivers'
                  /\ \A h \in 1..(nextChannelId - 1) :
                       h \notin DOMAIN channels => h \notin DOMAIN channels'
  <1>1. ASSUME IInv, [Next]_vars PROVE [A]_vars
    <2>1. CASE UNCHANGED vars
      BY <2>1
    <2>2. ASSUME NEW t \in Threads,
                 Enter(t) \/ Acquire(t) \/ GetLastError(t) \/ Call(t)
          PROVE  OnlyNextHandles
      BY <2>2, CallAddsOnlyNext
      DEF Enter, Acquire, GetLastError, tables, OnlyNextHandles
    <2>3. nextDeviceId \in Nat /\ nextChannelId \in Nat
      BY <1>1, BoundsAssumption
      DEF IInv, TablesInv, DriversInv, ChannelsInv
    <2>4. OnlyNextHandles => A
      BY <2>3 DEF OnlyNextHandles
    <2>5. QED
      BY <1>1, <2>1, <2>2, <2>4 DEF Next
  <1>2. QED
    BY <1>1, Invariance, PTL DEF Spec, StaleHandlesStayStale

\* The error text a thread will read is written by that thread's calls alone,
\* although PassThruGetLastError takes no lock.
THEOREM ErrorTexts == Spec => ErrorTextIsThreadLocal
  <1> DEFINE A == \A t \in Threads : lastError'[t] # lastError[t] => Calling(t)
  <1>1. ASSUME IInv, [Next]_vars PROVE [A]_vars
    <2>1. CASE UNCHANGED vars
      BY <2>1
    <2>2. ASSUME NEW u \in Threads, Enter(u) \/ Acquire(u) PROVE A
      BY <2>2 DEF Enter, Acquire, Calling
    <2>3. ASSUME NEW u \in Threads, GetLastError(u) PROVE A
      BY <1>1, <2>3 DEF GetLastError, recordResult, Calling, IInv, ThreadsInv
    <2>4. ASSUME NEW u \in Threads, Call(u) PROVE A
      <3>1. PICK s \in Statuses : Return(u, s)
        BY <2>4, CallReturns
      <3>2. QED
        BY <1>1, <3>1 DEF Return, recordResult, Calling, IInv, ThreadsInv
    <2>5. QED
      BY <1>1, <2>1, <2>2, <2>3, <2>4 DEF Next
  <1>2. QED
    BY <1>1, Invariance, PTL DEF Spec, ErrorTextIsThreadLocal

============================================================================
