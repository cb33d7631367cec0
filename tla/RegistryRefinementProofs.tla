--------------------- MODULE RegistryRefinementProofs ---------------------
(***************************************************************************)
(* Registry implements PassThru, for any threads, devices, channels,       *)
(* identifiers and rates.                                                  *)
(*                                                                         *)
(* Each call of Registry is the call of PassThru with the same name, on    *)
(* the channel its handle names; waiting for the mutex and taking it are   *)
(* stutters.  What has to be shown is that a call changes, of all that the *)
(* application can see, its own channel alone.  That rests on the          *)
(* inductive invariant of RegistryProofs: no two handles reach the same    *)
(* channel of a driver, and the next identifier is past all in use.        *)
(***************************************************************************)
EXTENDS RegistryProofs

\* What the application sees of a channel that binding b gives it on driver drv.
View(drv, b) ==
  [device |-> b.deviceId,
   baud |-> drv.channels[b.internalChannelId],
   periodic |-> drv.periodicMessages[b.internalChannelId],
   filter |-> drv.filters[b.internalChannelId]]

\* The table of channels PassThru is given.
Shown == [h \in DOMAIN channels |-> View(drivers[channels[h].deviceId], channels[h])]

----------------------------------------------------------------------------
(* Calls that leave the tables alone.                                      *)

\* PassThru has the status codes and the maps of Registry.
LEMMA SameStatuses ==
  /\ Promise!STATUS_NOERROR = STATUS_NOERROR
  /\ Promise!ERR_FAILED = ERR_FAILED
  /\ Promise!ERR_NOT_INITIALIZED = ERR_NOT_INITIALIZED
  /\ Promise!ERR_INVALID_DEVICE_ID = ERR_INVALID_DEVICE_ID
  /\ Promise!ERR_INVALID_CHANNEL_ID = ERR_INVALID_CHANNEL_ID
  /\ Promise!ERR_INVALID_MSG = ERR_INVALID_MSG
  /\ Promise!ERR_TIMEOUT = ERR_TIMEOUT
  /\ Promise!ERR_NOT_SUPPORTED = ERR_NOT_SUPPORTED
  BY DEF Promise!STATUS_NOERROR, STATUS_NOERROR, Promise!ERR_FAILED, ERR_FAILED,
         Promise!ERR_NOT_INITIALIZED, ERR_NOT_INITIALIZED,
         Promise!ERR_INVALID_DEVICE_ID, ERR_INVALID_DEVICE_ID,
         Promise!ERR_INVALID_CHANNEL_ID, ERR_INVALID_CHANNEL_ID,
         Promise!ERR_INVALID_MSG, ERR_INVALID_MSG, Promise!ERR_TIMEOUT, ERR_TIMEOUT,
         Promise!ERR_NOT_SUPPORTED, ERR_NOT_SUPPORTED

\* And its sets of statuses and requests.
LEMMA SameMaps ==
  /\ Promise!EmptyMap = EmptyMap
  /\ \A f, k, v : Promise!Assign(f, k, v) = Assign(f, k, v)
  /\ \A f, k : Promise!Erase(f, k) = Erase(f, k)
  /\ Promise!TransferStatuses = TransferStatuses
  /\ Promise!IoctlArgs = IoctlArgs
  /\ \A r : Promise!IoctlStatus(r) = IoctlStatus(r)
  <1>1. /\ Promise!EmptyMap = EmptyMap
        /\ \A f, k, v : Promise!Assign(f, k, v) = Assign(f, k, v)
        /\ \A f, k : Promise!Erase(f, k) = Erase(f, k)
    BY DEF Promise!EmptyMap, EmptyMap, Promise!Assign, Assign, Promise!Erase, Erase
  <1>2. Promise!TransferStatuses = TransferStatuses
    BY SameStatuses DEF Promise!TransferStatuses, TransferStatuses
  <1>3. Promise!IoctlArgs = IoctlArgs /\ \A r : Promise!IoctlStatus(r) = IoctlStatus(r)
    BY SameStatuses DEF Promise!IoctlArgs, IoctlArgs, Promise!IoctlStatus, IoctlStatus
  <1> QED BY <1>1, <1>2, <1>3

\* A process starts with no device and no channel.
LEMMA InitRefines == Init => Promise!Init
  <1> SUFFICES ASSUME Init PROVE Promise!Init
    OBVIOUS
  <1>1. DOMAIN drivers = {} /\ DOMAIN channels = {}
    BY DEF Init, EmptyMap
  <1>2. 1..(nextDeviceId - 1) = {} /\ 1..(nextChannelId - 1) = {}
    BY DEF Init
  <1>3. Shown = EmptyMap
    BY <1>1 DEF Shown, EmptyMap
  <1>4. lastError = [t \in Threads |-> STATUS_NOERROR]
    BY DEF Init
  <1> QED BY <1>1, <1>2, <1>3, <1>4, SameStatuses, SameMaps
          DEF Promise!Init, Shown, View, Driver, Internal

\* The table is a function of the registry's tables.
LEMMA SameTables ==
  ASSUME UNCHANGED tables
  PROVE  UNCHANGED <<DOMAIN drivers, Shown, 1..(nextDeviceId - 1), 1..(nextChannelId - 1)>>
  <1>1. /\ drivers' = drivers /\ channels' = channels
        /\ nextDeviceId' = nextDeviceId /\ nextChannelId' = nextChannelId
    BY DEF tables
  <1> QED BY <1>1 DEF Shown, View

\* A refused call reports its status and does nothing else.
LEMMA RefuseRefines ==
  ASSUME NEW t, NEW s, Refuse(t, s)
  PROVE  Promise!Reports(t, s)
  <1>1. UNCHANGED tables /\ lastError' = [lastError EXCEPT ![t] = s]
    BY DEF Refuse, Return, recordResult
  <1>2. UNCHANGED <<DOMAIN drivers, Shown, 1..(nextDeviceId - 1), 1..(nextChannelId - 1)>>
    BY <1>1, SameTables
  <1> QED BY <1>1, <1>2
          DEF Promise!Reports, Promise!Returns, Shown, View, Driver, Internal

\* What the table says of one channel.
LEMMA ShownAt ==
  /\ DOMAIN Shown = DOMAIN channels
  /\ \A h \in DOMAIN channels : Shown[h] = View(Driver(h), channels[h])
  BY DEF Shown, Driver

\* A refusal for the handle is PassThru's: a binding always reaches its device.
LEMMA RefuseChannelRefines ==
  ASSUME TablesInv, NEW t, NEW h, RefuseChannel(t, h)
  PROVE  h \notin DOMAIN channels /\ Promise!Reports(t, ERR_INVALID_CHANNEL_ID)
  <1>1. ChannelStatus(h) # STATUS_NOERROR /\ Refuse(t, ChannelStatus(h))
    BY DEF RefuseChannel
  <1>2. h \notin DOMAIN channels
    BY <1>1 DEF TablesInv, BindingsResolve, ChannelStatus, DeviceStatus
  <1>3. ChannelStatus(h) = ERR_INVALID_CHANNEL_ID
    BY <1>2 DEF ChannelStatus
  <1> QED BY <1>1, <1>2, <1>3, RefuseRefines

----------------------------------------------------------------------------
(* Calls on a channel.                                                     *)

\* Two tables of a driver that differ in one channel at most.
OnlyChannel(old, new, c) ==
  \A x \in DOMAIN old.channels :
    x # c => /\ new.channels[x] = old.channels[x]
             /\ new.periodicMessages[x] = old.periodicMessages[x]
             /\ new.filters[x] = old.filters[x]

\* Only one handle sees what the driver changed: no other reaches its channel.
LEMMA DelegateShown ==
  ASSUME TablesInv, NEW t, NEW h, NEW s, NEW drv, Delegate(t, h, s, drv),
         OnlyChannel(Driver(h), drv, Internal(h))
  PROVE  /\ h \in DOMAIN channels
         /\ Shown' = [Shown EXCEPT ![h] = View(drv, channels[h])]
         /\ UNCHANGED <<DOMAIN drivers, nextDeviceId, nextChannelId>>
         /\ lastError' = [lastError EXCEPT ![t] = s]
  <1> DEFINE d == channels[h].deviceId
  <1>1. /\ h \in DOMAIN channels /\ d \in DOMAIN drivers
        /\ drivers' = [drivers EXCEPT ![d] = drv] /\ channels' = channels
        /\ UNCHANGED <<nextDeviceId, nextChannelId>>
        /\ lastError' = [lastError EXCEPT ![t] = s]
    BY Resolved DEF Delegate, Return, recordResult
  <1>2. ASSUME NEW g \in DOMAIN channels, g # h
        PROVE  View(drivers'[channels[g].deviceId], channels[g]) = Shown[g]
    <2>1. CASE channels[g].deviceId # d
      BY <1>1, <2>1, ShownAt DEF Driver
    <2>2. CASE channels[g].deviceId = d
      <3>1. Internal(g) \in DOMAIN Driver(h).channels /\ Driver(g) = Driver(h)
        BY <2>2 DEF TablesInv, BindingsResolve, Driver
      <3>2. Internal(g) # Internal(h)
        <4>1. channels[g] \in Bindings /\ channels[h] \in Bindings
          BY <1>1 DEF TablesInv, ChannelsInv, IsMap
        <4>2. channels[g] # channels[h]
          BY <1>1, <1>2 DEF TablesInv, NoAliasing
        <4> QED BY <2>2, <4>1, <4>2 DEF Bindings, Internal
      <3>3. drivers'[channels[g].deviceId] = drv
        BY <1>1, <2>2
      <3>4. View(drv, channels[g]) = View(Driver(g), channels[g])
        BY <3>1, <3>2 DEF OnlyChannel, View, Internal
      <3> QED BY <3>3, <3>4, ShownAt
    <2> QED BY <2>1, <2>2
  <1>3. View(drivers'[channels[h].deviceId], channels[h]) = View(drv, channels[h])
    BY <1>1
  <1>4. Shown' = [g \in DOMAIN channels |-> View(drivers'[channels[g].deviceId], channels[g])]
    BY <1>1 DEF Shown
  <1>5. Shown' = [Shown EXCEPT ![h] = View(drv, channels[h])]
    BY <1>1, <1>2, <1>3, <1>4, ShownAt
  <1>6. DOMAIN drivers' = DOMAIN drivers
    BY <1>1
  <1> QED BY <1>1, <1>5, <1>6

\* A call that succeeds leaves its channel as the driver has it now, and every
\* other channel and every set of handles as they were.
Succeeds(t) ==
  /\ UNCHANGED <<DOMAIN drivers, nextDeviceId, nextChannelId>>
  /\ lastError' = [lastError EXCEPT ![t] = STATUS_NOERROR]

\* A call that fails leaves the driver as it was.
LEMMA StayRefines ==
  ASSUME TablesInv, NEW t, NEW h, NEW s, Delegate(t, h, s, Driver(h))
  PROVE  h \in DOMAIN channels /\ Promise!Reports(t, s)
  <1>1. h \in DOMAIN channels /\ channels[h].deviceId \in DOMAIN drivers
    BY Resolved DEF Delegate
  <1>2. UNCHANGED tables
    <2>1. drivers' = [drivers EXCEPT ![channels[h].deviceId] = drivers[channels[h].deviceId]]
      BY DEF Delegate, Driver
    <2>2. drivers \in [DOMAIN drivers -> {drivers[d] : d \in DOMAIN drivers}]
      BY DEF TablesInv, DriversInv, IsMap
    <2>3. drivers' = drivers
      BY <1>1, <2>1, <2>2
    <2> QED BY <2>3 DEF Delegate, tables
  <1>3. Refuse(t, s)
    BY <1>2 DEF Delegate, Refuse
  <1> QED BY <1>1, <1>3, RefuseRefines

\* read() and write().
LEMMA TransferRefines ==
  ASSUME TablesInv, NEW t, NEW h, Transfer(t, h)
  PROVE  Promise!Transfer(t, h)
  <1>1. CASE Refuse(t, ERR_INVALID_MSG)
    BY <1>1, RefuseRefines, SameStatuses DEF Promise!Transfer
  <1>2. CASE RefuseChannel(t, h)
    BY <1>2, RefuseChannelRefines, SameStatuses DEF Promise!Transfer
  <1>3. CASE /\ ChannelStatus(h) = STATUS_NOERROR
             /\ \E s \in TransferOutcomes(Driver(h), Internal(h)) : Refuse(t, s)
    <2>1. h \in DOMAIN channels /\ \E s \in TransferStatuses : Refuse(t, s)
      BY <1>3, Resolved DEF TransferOutcomes, DriverInv
    <2> QED BY <2>1, RefuseRefines, SameMaps DEF Promise!Transfer
  <1> QED BY <1>1, <1>2, <1>3 DEF Transfer

\* The next identifier is used by no channel of the device.
LEMMA NextIsFree ==
  ASSUME TablesInv, NEW h \in DOMAIN channels
  PROVE  /\ Driver(h).nextPeriodicId \notin Promise!InUse(h, "periodic")
         /\ Driver(h).nextFilterId \notin Promise!InUse(h, "filter")
  <1>1. ASSUME NEW g \in DOMAIN channels, channels[g].deviceId = channels[h].deviceId
        PROVE  /\ Driver(h).nextPeriodicId \notin Driver(g).periodicMessages[Internal(g)]
               /\ Driver(h).nextFilterId \notin Driver(g).filters[Internal(g)]
    <2>1. /\ Driver(g) = Driver(h) /\ DriverInv(Driver(g))
          /\ Internal(g) \in DOMAIN Driver(g).channels
      BY <1>1 DEF Driver, TablesInv, DriversInv, BindingsResolve
    <2>2. /\ Driver(g).nextPeriodicId \in Nat /\ Driver(g).nextFilterId \in Nat
      BY <2>1, BoundsAssumption DEF DriverInv, DriverTypeOK
    <2> QED BY <2>1, <2>2 DEF DriverInv
  <1>2. Promise!InUse(h, "periodic")
          = UNION {Driver(g).periodicMessages[Internal(g)] :
                     g \in {x \in DOMAIN channels :
                              channels[x].deviceId = channels[h].deviceId}}
    BY DEF Promise!InUse
  <1>3. Promise!InUse(h, "filter")
          = UNION {Driver(g).filters[Internal(g)] :
                     g \in {x \in DOMAIN channels :
                              channels[x].deviceId = channels[h].deviceId}}
    BY DEF Promise!InUse
  <1> QED BY <1>1, <1>2, <1>3

\* An identifier no channel of the device uses is added.
LEMMA AddRefines ==
  ASSUME NEW t, NEW h \in DOMAIN channels, NEW field, NEW i \in Ids,
         i \notin Promise!InUse(h, field), Succeeds(t),
         Shown' = [Shown EXCEPT ![h] = [Shown[h] EXCEPT ![field] = @ \cup {i}]]
  PROVE  Promise!Start(t, h, field)
  <1>1. UNCHANGED <<DOMAIN drivers, 1..(nextDeviceId - 1), 1..(nextChannelId - 1)>>
    BY DEF Succeeds
  <1> QED BY <1>1, SameStatuses
          DEF Succeeds, Promise!Start, Promise!Updates, Promise!Returns, Shown, View,
              Driver, Internal

\* And one the channel has is removed.
LEMMA RemoveRefines ==
  ASSUME NEW t, NEW h \in DOMAIN channels, NEW field, NEW i, i \in Shown[h][field],
         Succeeds(t),
         Shown' = [Shown EXCEPT ![h] = [Shown[h] EXCEPT ![field] = @ \ {i}]]
  PROVE  Promise!Stop(t, h, field, i)
  <1>1. UNCHANGED <<DOMAIN drivers, 1..(nextDeviceId - 1), 1..(nextChannelId - 1)>>
    BY DEF Succeeds
  <1> QED BY <1>1, SameStatuses
          DEF Succeeds, Promise!Stop, Promise!Updates, Promise!Returns, Shown, View,
              Driver, Internal

\* An identifier the channel does not have is refused.
LEMMA MissingRefines ==
  ASSUME NEW t, NEW h \in DOMAIN channels, NEW field, NEW i, i \notin Shown[h][field],
         Promise!Reports(t, ERR_INVALID_MSG)
  PROVE  Promise!Stop(t, h, field, i)
  BY SameStatuses DEF Promise!Stop, Shown, View, Driver, Internal

\* One field of a channel is replaced.
LEMMA FieldAdded ==
  ASSUME NEW d, NEW b, NEW p, NEW f, NEW x
  PROVE  LET c == [device |-> d, baud |-> b, periodic |-> p, filter |-> f]
         IN /\ [c EXCEPT !["periodic"] = @ \cup x]
                 = [device |-> d, baud |-> b, periodic |-> p \cup x, filter |-> f]
            /\ [c EXCEPT !["filter"] = @ \cup x]
                 = [device |-> d, baud |-> b, periodic |-> p, filter |-> f \cup x]
  <1> DEFINE c == [device |-> d, baud |-> b, periodic |-> p, filter |-> f]
             q == p \cup x
             g == f \cup x
  <1>1. c["periodic"] = p /\ c["filter"] = f
    OBVIOUS
  <1>2. [c EXCEPT !["periodic"] = q] = [device |-> d, baud |-> b, periodic |-> q, filter |-> f]
    <2> HIDE DEF q
    <2> QED OBVIOUS
  <1>3. [c EXCEPT !["filter"] = g] = [device |-> d, baud |-> b, periodic |-> p, filter |-> g]
    <2> HIDE DEF g
    <2> QED OBVIOUS
  <1>4. [c EXCEPT !["periodic"] = @ \cup x] = [c EXCEPT !["periodic"] = q]
    <2> HIDE DEF c
    <2> QED BY <1>1
  <1>5. [c EXCEPT !["filter"] = @ \cup x] = [c EXCEPT !["filter"] = g]
    <2> HIDE DEF c
    <2> QED BY <1>1
  <1> QED BY <1>2, <1>3, <1>4, <1>5

\* StartPeriodicMsg: a new identifier, or a refusal.
LEMMA StartPeriodicRefines ==
  ASSUME TablesInv, NEW t, NEW h, NEW arg \in PeriodicArgs, StartPeriodicMsg(t, h, arg)
  PROVE  Promise!Start(t, h, "periodic")
  <1>1. CASE Refuse(t, ERR_INVALID_MSG)
    BY <1>1, RefuseRefines, SameStatuses DEF Promise!Start
  <1>2. CASE RefuseChannel(t, h)
    BY <1>2, RefuseChannelRefines, SameStatuses DEF Promise!Start
  <1>3. CASE /\ arg # "nullOutput" /\ ChannelStatus(h) = STATUS_NOERROR
             /\ arg = "valid" => Driver(h).nextPeriodicId <= MaxIds
             /\ Delegate(t, h, StartPeriodicStatus(Driver(h), Internal(h), arg),
                         StartPeriodic(Driver(h), Internal(h), arg))
    <2> DEFINE drv == Driver(h)
               c == Internal(h)
               i == drv.nextPeriodicId
               new == StartPeriodic(drv, c, arg)
    <2>1. /\ h \in DOMAIN channels /\ drv.open /\ c \in DOMAIN drv.channels
          /\ c \in DOMAIN drv.periodicMessages /\ DriverTypeOK(drv)
      BY <1>3, Resolved DEF DriverInv
    <2>2. CASE arg = "badMessage"
      <3>1. StartPeriodicStatus(drv, c, arg) = ERR_INVALID_MSG
        BY <2>1, <2>2 DEF StartPeriodicStatus
      <3>2. new = drv
        BY <3>1 DEF StartPeriodic, ERR_INVALID_MSG, STATUS_NOERROR
      <3>3. Promise!Reports(t, ERR_INVALID_MSG)
        BY <1>3, <3>1, <3>2, StayRefines
      <3> QED BY <3>3, SameStatuses DEF Promise!Start
    <2>3. CASE arg = "valid"
      <3>1. StartPeriodicStatus(drv, c, arg) = STATUS_NOERROR
        BY <2>1, <2>3 DEF StartPeriodicStatus
      <3>2. i \in Ids
        BY <1>3, <2>1, <2>3, BoundsAssumption DEF DriverTypeOK, Ids
      <3>3. /\ new.channels = drv.channels /\ new.filters = drv.filters
            /\ new.periodicMessages = [drv.periodicMessages EXCEPT ![c] = @ \cup {i}]
        BY <2>1, <3>1 DEF StartPeriodic, DriverTypeOK
      <3>4. OnlyChannel(drv, new, c)
        BY <3>3 DEF OnlyChannel
      <3>5. Delegate(t, h, STATUS_NOERROR, new)
        BY <1>3, <3>1
      <3>6. Shown[h] = View(drv, channels[h]) /\ i \notin Promise!InUse(h, "periodic")
        BY <2>1, ShownAt, NextIsFree
      <3>7. new.periodicMessages[c] = drv.periodicMessages[c] \cup {i}
        BY <2>1, <3>3
      <3> DEFINE seen == [Shown[h] EXCEPT !["periodic"] = @ \cup {i}]
      <3> HIDE DEF new, i
      <3>8. seen = View(new, channels[h])
        <4>1. View(new, channels[h])
                = [device |-> channels[h].deviceId, baud |-> drv.channels[c],
                   periodic |-> drv.periodicMessages[c] \cup {i}, filter |-> drv.filters[c]]
          BY <3>3, <3>7 DEF View, Internal
        <4>2. Shown[h] = [device |-> channels[h].deviceId, baud |-> drv.channels[c],
                          periodic |-> drv.periodicMessages[c],
                          filter |-> drv.filters[c]]
          BY <3>6 DEF View, Internal
        <4> HIDE DEF drv, c
        <4> QED BY <4>1, <4>2, FieldAdded
      <3>9. Succeeds(t) /\ Shown' = [Shown EXCEPT ![h] = seen]
        <4>1. Succeeds(t) /\ Shown' = [Shown EXCEPT ![h] = View(new, channels[h])]
          BY <3>4, <3>5, DelegateShown DEF Succeeds
        <4> HIDE DEF seen
        <4> QED BY <3>8, <4>1
      <3> QED BY <2>1, <3>2, <3>6, <3>9, AddRefines
    <2> QED BY <1>3, <2>2, <2>3 DEF PeriodicArgs
  <1> QED BY <1>1, <1>2, <1>3 DEF StartPeriodicMsg

\* StartMsgFilter: the same, with a type that may not be supported.
LEMMA StartFilterRefines ==
  ASSUME TablesInv, NEW t, NEW h, NEW arg \in FilterArgs, StartMsgFilter(t, h, arg)
  PROVE  Promise!Start(t, h, "filter")
  <1>1. CASE Refuse(t, ERR_INVALID_MSG)
    BY <1>1, RefuseRefines, SameStatuses DEF Promise!Start
  <1>2. CASE RefuseChannel(t, h)
    BY <1>2, RefuseChannelRefines, SameStatuses DEF Promise!Start
  <1>3. CASE /\ arg # "nullOutput" /\ ChannelStatus(h) = STATUS_NOERROR
             /\ arg = "valid" => Driver(h).nextFilterId <= MaxIds
             /\ Delegate(t, h, StartFilterStatus(Driver(h), Internal(h), arg),
                         StartFilter(Driver(h), Internal(h), arg))
    <2> DEFINE drv == Driver(h)
               c == Internal(h)
               i == drv.nextFilterId
               new == StartFilter(drv, c, arg)
    <2>1. /\ h \in DOMAIN channels /\ drv.open /\ c \in DOMAIN drv.channels
          /\ c \in DOMAIN drv.filters /\ DriverTypeOK(drv)
      BY <1>3, Resolved DEF DriverInv
    <2>2. ASSUME NEW s \in {ERR_INVALID_MSG, ERR_NOT_SUPPORTED},
                 StartFilterStatus(drv, c, arg) = s
          PROVE  Promise!Start(t, h, "filter")
      <3>1. new = drv
        BY <2>2 DEF StartFilter, ERR_INVALID_MSG, ERR_NOT_SUPPORTED, STATUS_NOERROR
      <3>2. Promise!Reports(t, s)
        BY <1>3, <2>2, <3>1, StayRefines
      <3> QED BY <3>2, SameStatuses DEF Promise!Start
    <2>3. CASE arg # "valid"
      <3>1. StartFilterStatus(drv, c, arg) \in {ERR_INVALID_MSG, ERR_NOT_SUPPORTED}
        BY <1>3, <2>1, <2>3 DEF StartFilterStatus, FilterArgs
      <3> QED BY <2>2, <3>1
    <2>4. CASE arg = "valid"
      <3>1. StartFilterStatus(drv, c, arg) = STATUS_NOERROR
        BY <2>1, <2>4 DEF StartFilterStatus
      <3>2. i \in Ids
        BY <1>3, <2>1, <2>4, BoundsAssumption DEF DriverTypeOK, Ids
      <3>3. /\ new.channels = drv.channels
            /\ new.periodicMessages = drv.periodicMessages
            /\ new.filters = [drv.filters EXCEPT ![c] = @ \cup {i}]
        BY <2>1, <3>1 DEF StartFilter, DriverTypeOK
      <3>4. OnlyChannel(drv, new, c)
        BY <3>3 DEF OnlyChannel
      <3>5. Delegate(t, h, STATUS_NOERROR, new)
        BY <1>3, <3>1
      <3>6. Shown[h] = View(drv, channels[h]) /\ i \notin Promise!InUse(h, "filter")
        BY <2>1, ShownAt, NextIsFree
      <3>7. new.filters[c] = drv.filters[c] \cup {i}
        BY <2>1, <3>3
      <3> DEFINE seen == [Shown[h] EXCEPT !["filter"] = @ \cup {i}]
      <3> HIDE DEF new, i
      <3>8. seen = View(new, channels[h])
        <4>1. View(new, channels[h])
                = [device |-> channels[h].deviceId, baud |-> drv.channels[c],
                   periodic |-> drv.periodicMessages[c], filter |-> drv.filters[c] \cup {i}]
          BY <3>3, <3>7 DEF View, Internal
        <4>2. Shown[h] = [device |-> channels[h].deviceId, baud |-> drv.channels[c],
                          periodic |-> drv.periodicMessages[c],
                          filter |-> drv.filters[c]]
          BY <3>6 DEF View, Internal
        <4> HIDE DEF drv, c
        <4> QED BY <4>1, <4>2, FieldAdded
      <3>9. Succeeds(t) /\ Shown' = [Shown EXCEPT ![h] = seen]
        <4>1. Succeeds(t) /\ Shown' = [Shown EXCEPT ![h] = View(new, channels[h])]
          BY <3>4, <3>5, DelegateShown DEF Succeeds
        <4> HIDE DEF seen
        <4> QED BY <3>8, <4>1
      <3> QED BY <2>1, <3>2, <3>6, <3>9, AddRefines
    <2> QED BY <2>3, <2>4
  <1> QED BY <1>1, <1>2, <1>3 DEF StartMsgFilter

\* StopPeriodicMsg: only what this channel started.
LEMMA StopPeriodicRefines ==
  ASSUME TablesInv, NEW t, NEW h, NEW i, StopPeriodicMsg(t, h, i)
  PROVE  Promise!Stop(t, h, "periodic", i)
  <1>1. CASE RefuseChannel(t, h)
    BY <1>1, RefuseChannelRefines, SameStatuses DEF Promise!Stop
  <1>2. CASE /\ ChannelStatus(h) = STATUS_NOERROR
             /\ Delegate(t, h, StopPeriodicStatus(Driver(h), Internal(h), i),
                         StopPeriodic(Driver(h), Internal(h), i))
    <2> DEFINE drv == Driver(h)
               c == Internal(h)
               new == StopPeriodic(drv, c, i)
    <2>1. /\ h \in DOMAIN channels /\ drv.open /\ c \in DOMAIN drv.channels
          /\ c \in DOMAIN drv.periodicMessages /\ DriverTypeOK(drv)
          /\ Shown[h] = View(drv, channels[h])
      BY <1>2, Resolved, ShownAt DEF DriverInv
    <2>2. Shown[h]["periodic"] = drv.periodicMessages[c]
      BY <2>1 DEF View, Internal
    <2>3. CASE i \notin drv.periodicMessages[c]
      <3>1. StopPeriodicStatus(drv, c, i) = ERR_INVALID_MSG
        BY <2>1, <2>3 DEF StopPeriodicStatus
      <3>2. new = drv
        BY <3>1 DEF StopPeriodic, ERR_INVALID_MSG, STATUS_NOERROR
      <3>3. Promise!Reports(t, ERR_INVALID_MSG)
        BY <1>2, <3>1, <3>2, StayRefines
      <3> QED BY <2>1, <2>2, <2>3, <3>3, MissingRefines
    <2>4. CASE i \in drv.periodicMessages[c]
      <3>1. StopPeriodicStatus(drv, c, i) = STATUS_NOERROR
        BY <2>1, <2>4 DEF StopPeriodicStatus
      <3>2. /\ new.channels = drv.channels /\ new.filters = drv.filters
            /\ new.periodicMessages = [drv.periodicMessages EXCEPT ![c] = @ \ {i}]
        BY <2>1, <3>1 DEF StopPeriodic, DriverTypeOK
      <3>3. OnlyChannel(drv, new, c)
        BY <3>2 DEF OnlyChannel
      <3>4. Delegate(t, h, STATUS_NOERROR, new)
        BY <1>2, <3>1
      <3>5. new.periodicMessages[c] = drv.periodicMessages[c] \ {i}
        BY <2>1, <3>2
      <3> DEFINE seen == [Shown[h] EXCEPT !["periodic"] = @ \ {i}]
      <3> HIDE DEF new
      <3>6. seen = View(new, channels[h])
        BY <2>1, <3>2, <3>5 DEF View, Internal
      <3>7. Succeeds(t) /\ Shown' = [Shown EXCEPT ![h] = seen]
        <4>1. Succeeds(t) /\ Shown' = [Shown EXCEPT ![h] = View(new, channels[h])]
          BY <3>3, <3>4, DelegateShown DEF Succeeds
        <4> HIDE DEF seen
        <4> QED BY <3>6, <4>1
      <3> QED BY <2>1, <2>2, <2>4, <3>7, RemoveRefines
    <2> QED BY <2>3, <2>4
  <1> QED BY <1>1, <1>2 DEF StopPeriodicMsg

\* StopMsgFilter: the same.
LEMMA StopFilterRefines ==
  ASSUME TablesInv, NEW t, NEW h, NEW i, StopMsgFilter(t, h, i)
  PROVE  Promise!Stop(t, h, "filter", i)
  <1>1. CASE RefuseChannel(t, h)
    BY <1>1, RefuseChannelRefines, SameStatuses DEF Promise!Stop
  <1>2. CASE /\ ChannelStatus(h) = STATUS_NOERROR
             /\ Delegate(t, h, StopFilterStatus(Driver(h), Internal(h), i),
                         StopFilter(Driver(h), Internal(h), i))
    <2> DEFINE drv == Driver(h)
               c == Internal(h)
               new == StopFilter(drv, c, i)
    <2>1. /\ h \in DOMAIN channels /\ drv.open /\ c \in DOMAIN drv.channels
          /\ c \in DOMAIN drv.filters /\ DriverTypeOK(drv)
          /\ Shown[h] = View(drv, channels[h])
      BY <1>2, Resolved, ShownAt DEF DriverInv
    <2>2. Shown[h]["filter"] = drv.filters[c]
      BY <2>1 DEF View, Internal
    <2>3. CASE i \notin drv.filters[c]
      <3>1. StopFilterStatus(drv, c, i) = ERR_INVALID_MSG
        BY <2>1, <2>3 DEF StopFilterStatus
      <3>2. new = drv
        BY <3>1 DEF StopFilter, ERR_INVALID_MSG, STATUS_NOERROR
      <3>3. Promise!Reports(t, ERR_INVALID_MSG)
        BY <1>2, <3>1, <3>2, StayRefines
      <3> QED BY <2>1, <2>2, <2>3, <3>3, MissingRefines
    <2>4. CASE i \in drv.filters[c]
      <3>1. StopFilterStatus(drv, c, i) = STATUS_NOERROR
        BY <2>1, <2>4 DEF StopFilterStatus
      <3>2. /\ new.channels = drv.channels
            /\ new.periodicMessages = drv.periodicMessages
            /\ new.filters = [drv.filters EXCEPT ![c] = @ \ {i}]
        BY <2>1, <3>1 DEF StopFilter, DriverTypeOK
      <3>3. OnlyChannel(drv, new, c)
        BY <3>2 DEF OnlyChannel
      <3>4. Delegate(t, h, STATUS_NOERROR, new)
        BY <1>2, <3>1
      <3>5. new.filters[c] = drv.filters[c] \ {i}
        BY <2>1, <3>2
      <3> DEFINE seen == [Shown[h] EXCEPT !["filter"] = @ \ {i}]
      <3> HIDE DEF new
      <3>6. seen = View(new, channels[h])
        BY <2>1, <3>2, <3>5 DEF View, Internal
      <3>7. Succeeds(t) /\ Shown' = [Shown EXCEPT ![h] = seen]
        <4>1. Succeeds(t) /\ Shown' = [Shown EXCEPT ![h] = View(new, channels[h])]
          BY <3>3, <3>4, DelegateShown DEF Succeeds
        <4> HIDE DEF seen
        <4> QED BY <3>6, <4>1
      <3> QED BY <2>1, <2>2, <2>4, <3>7, RemoveRefines
    <2> QED BY <2>3, <2>4
  <1> QED BY <1>1, <1>2 DEF StopMsgFilter

\* Ioctl: SET_CONFIG of the rate changes the channel, any other request nothing.
LEMMA IoctlRefines ==
  ASSUME TablesInv, NEW t, NEW h, NEW r \in IoctlArgs, NEW baud \in Bauds,
         Ioctl(t, h, r, baud)
  PROVE  Promise!Ioctl(t, h, r, baud)
  <1>1. CASE RefuseChannel(t, h)
    BY <1>1, RefuseChannelRefines, SameStatuses DEF Promise!Ioctl
  <1>2. CASE /\ ChannelStatus(h) = STATUS_NOERROR
             /\ Delegate(t, h, DriverIoctlStatus(Driver(h), Internal(h), r),
                         DriverIoctl(Driver(h), Internal(h), r, baud))
    <2> DEFINE drv == Driver(h)
               c == Internal(h)
               new == DriverIoctl(drv, c, r, baud)
               setBaud == [id |-> "SET_CONFIG", arg |-> "BAUDRATE"]
    <2>1. /\ h \in DOMAIN channels /\ drv.open /\ c \in DOMAIN drv.channels
          /\ DriverTypeOK(drv) /\ Shown[h] = View(drv, channels[h])
      BY <1>2, Resolved, ShownAt DEF DriverInv
    <2>2. DriverIoctlStatus(drv, c, r) = IoctlStatus(r)
      BY <2>1 DEF DriverIoctlStatus
    <2>3. CASE r # setBaud
      <3>1. new = drv
        <4>1. ~(IoctlStatus(r) = STATUS_NOERROR /\ r.id = "SET_CONFIG")
          BY <2>3 DEF IoctlStatus, IoctlArgs, STATUS_NOERROR, ERR_INVALID_MSG,
                      ERR_NOT_SUPPORTED
        <4> QED BY <2>2, <4>1 DEF DriverIoctl
      <3>2. Promise!Reports(t, IoctlStatus(r))
        BY <1>2, <2>2, <3>1, StayRefines
      <3> QED BY <2>1, <2>3, <3>2, SameMaps DEF Promise!Ioctl
    <2>4. CASE r = setBaud
      <3>1. IoctlStatus(r) = STATUS_NOERROR /\ r.id = "SET_CONFIG"
        BY <2>4 DEF IoctlStatus
      <3>2. /\ new.channels = [drv.channels EXCEPT ![c] = baud]
            /\ new.filters = drv.filters
            /\ new.periodicMessages = drv.periodicMessages
        BY <2>1, <2>2, <3>1 DEF DriverIoctl, DriverTypeOK
      <3>3. OnlyChannel(drv, new, c)
        BY <3>2 DEF OnlyChannel
      <3>4. Delegate(t, h, STATUS_NOERROR, new) /\ new.channels[c] = baud
        BY <1>2, <2>1, <2>2, <3>1, <3>2
      <3> DEFINE seen == [Shown[h] EXCEPT !.baud = baud]
      <3> HIDE DEF new
      <3>5. seen = View(new, channels[h])
        BY <2>1, <3>2, <3>4 DEF View, Internal
      <3>6. Succeeds(t) /\ Shown' = [Shown EXCEPT ![h] = seen]
        <4>1. Succeeds(t) /\ Shown' = [Shown EXCEPT ![h] = View(new, channels[h])]
          BY <3>3, <3>4, DelegateShown DEF Succeeds
        <4> HIDE DEF seen
        <4> QED BY <3>5, <4>1
      <3>7. UNCHANGED <<DOMAIN drivers, 1..(nextDeviceId - 1), 1..(nextChannelId - 1)>>
        BY <3>6 DEF Succeeds
      <3> QED BY <2>1, <2>4, <3>6, <3>7, SameStatuses
              DEF Succeeds, Promise!Ioctl, Promise!Updates, Promise!Returns, Shown, View,
                  Driver, Internal
    <2> QED BY <2>3, <2>4
  <1> QED BY <1>1, <1>2 DEF Ioctl

----------------------------------------------------------------------------
(* Devices and channels.                                                   *)

\* A handle for a device that was never used.
LEMMA OpenRefines ==
  ASSUME TablesInv, NEW t, Open(t)
  PROVE  Promise!Open(t)
  <1> DEFINE d == nextDeviceId
  <1>1. d \in DeviceHandles /\ d \notin DOMAIN drivers /\ d \in Nat /\ d >= 1
    BY BoundsAssumption DEF TablesInv, DriversInv, Open, DeviceHandles, IsMap
  <1>2. /\ drivers' = Emplace(drivers, d, OpenedDriver) /\ channels' = channels
        /\ nextDeviceId' = d + 1 /\ nextChannelId' = nextChannelId
        /\ lastError' = [lastError EXCEPT ![t] = STATUS_NOERROR]
    BY DEF Open, Return, recordResult
  <1>3. /\ d \notin 1..(d - 1) /\ 1..(nextDeviceId' - 1) = 1..(d - 1) \cup {d}
        /\ UNCHANGED (1..(nextChannelId - 1))
    BY <1>1, <1>2
  <1>4. DOMAIN drivers' = DOMAIN drivers \cup {d}
    BY <1>2 DEF Emplace
  <1>5. Shown' = Shown
    <2>1. ASSUME NEW h \in DOMAIN channels
          PROVE  drivers'[channels[h].deviceId] = drivers[channels[h].deviceId]
      BY <1>2 DEF TablesInv, BindingsResolve, Emplace
    <2>2. Shown' = [h \in DOMAIN channels |-> View(drivers'[channels[h].deviceId], channels[h])]
      BY <1>2 DEF Shown
    <2> QED BY <2>1, <2>2 DEF Shown
  <1> QED BY <1>1, <1>2, <1>3, <1>4, <1>5, SameStatuses
          DEF Promise!Open, Promise!Returns, Shown, View, Driver, Internal

\* A closed device takes its channels with it, and no other.
LEMMA CloseRefines ==
  ASSUME TablesInv, NEW t, NEW d, Close(t, d)
  PROVE  Promise!Close(t, d)
  <1>1. CASE d \notin DOMAIN drivers /\ Refuse(t, ERR_INVALID_DEVICE_ID)
    BY <1>1, RefuseRefines, SameStatuses DEF Promise!Close
  <1>2. CASE d \in DOMAIN drivers
    <2>1. /\ channels' = [h \in {x \in DOMAIN channels : channels[x].deviceId # d}
                            |-> channels[h]]
          /\ drivers' = Erase(drivers, d)
          /\ UNCHANGED <<nextDeviceId, nextChannelId>>
          /\ lastError' = [lastError EXCEPT ![t] = STATUS_NOERROR]
      BY <1>2 DEF Close, Refuse, Return, recordResult
    <2>2. /\ UNCHANGED <<1..(nextDeviceId - 1), 1..(nextChannelId - 1)>>
          /\ DOMAIN drivers' = DOMAIN drivers \ {d}
      BY <2>1 DEF Erase
    <2> DEFINE K == {x \in DOMAIN Shown : Shown[x].device # d}
    <2>3. K = {x \in DOMAIN channels : channels[x].deviceId # d}
      BY ShownAt DEF View
    <2>4. Shown' = [h \in K |-> Shown[h]]
      <3>1. ASSUME NEW h \in K
            PROVE  /\ channels'[h] = channels[h]
                   /\ drivers'[channels[h].deviceId] = Driver(h)
                   /\ h \in DOMAIN channels
        BY <2>1, <2>3 DEF Erase, Driver, TablesInv, BindingsResolve
      <3>2. DOMAIN channels' = K
        BY <2>1, <2>3
      <3> HIDE DEF K
      <3>3. Shown' = [h \in K |-> View(drivers'[channels'[h].deviceId], channels'[h])]
        BY <3>2 DEF Shown
      <3> QED BY <3>1, <3>3, ShownAt
    <2> QED BY <1>2, <2>1, <2>2, <2>4, SameStatuses
            DEF Promise!Close, Promise!Returns, Shown, View, Driver, Internal
  <1> QED BY <1>1, <1>2 DEF Close

\* A channel is connected under a handle that was never used, and the channel
\* the driver makes for it is one no other handle reaches.
LEMMA ConnectRefines ==
  ASSUME TablesInv, NEW t, NEW d, NEW baud \in Bauds, Connect(t, d, baud)
  PROVE  Promise!Connect(t, d, baud)
  <1> DEFINE n == nextChannelId
             old == drivers[d]
             c == old.nextChannel
             new == DriverConnect(old, baud)
             b == [deviceId |-> d, internalChannelId |-> c]
             seen == [device |-> d, baud |-> baud, periodic |-> {}, filter |-> {}]
  <1>1. /\ d \in DOMAIN drivers /\ n <= MaxChannels
        /\ drivers' = [drivers EXCEPT ![d] = new]
        /\ channels' = Emplace(channels, n, b)
        /\ nextChannelId' = n + 1 /\ nextDeviceId' = nextDeviceId
        /\ lastError' = [lastError EXCEPT ![t] = STATUS_NOERROR]
    BY DEF Connect, Return, recordResult
  <1>2. n \in ChannelHandles /\ n \notin DOMAIN channels /\ n \in Nat /\ n >= 1
    BY <1>1, BoundsAssumption DEF TablesInv, ChannelsInv, ChannelHandles, IsMap
  <1>3. /\ n \notin 1..(n - 1) /\ 1..(nextChannelId' - 1) = 1..(n - 1) \cup {n}
        /\ UNCHANGED (1..(nextDeviceId - 1))
    BY <1>1, <1>2
  <1>4. DriverInv(old) /\ c \in Nat /\ c \notin DOMAIN old.channels
    <2>1. DriverInv(old)
      BY <1>1 DEF TablesInv, DriversInv
    <2>2. c \in 1..(MaxChannels + 1) /\ \A x \in DOMAIN old.channels : x < c
      BY <2>1 DEF DriverInv, DriverTypeOK
    <2> HIDE DEF old, c
    <2>3. c \in Nat /\ ~(c < c)
      BY <2>2, BoundsAssumption
    <2> QED BY <2>1, <2>2, <2>3
  <1>5. /\ new.channels = Assign(old.channels, c, baud)
        /\ new.periodicMessages = Assign(old.periodicMessages, c, {})
        /\ new.filters = Assign(old.filters, c, {})
    BY <1>4 DEF DriverConnect, DriverInv, DriverTypeOK
  <1>6. OnlyChannel(old, new, c)
    BY <1>4, <1>5 DEF OnlyChannel, Assign, DriverInv
  <1>7. View(new, b) = seen
    BY <1>5 DEF View, Assign
  <1> HIDE DEF new, b, n
  <1>8. ASSUME NEW h \in DOMAIN channels
        PROVE  View(drivers'[channels[h].deviceId], channels[h]) = Shown[h]
    <2>1. CASE channels[h].deviceId # d
      BY <1>1, <2>1, ShownAt DEF Driver
    <2>2. CASE channels[h].deviceId = d
      <3>1. Internal(h) \in DOMAIN old.channels /\ Driver(h) = old
        BY <2>2 DEF TablesInv, BindingsResolve, Driver
      <3>2. drivers'[channels[h].deviceId] = new
        BY <1>1, <2>2
      <3>3. View(new, channels[h]) = View(old, channels[h])
        BY <1>4, <1>6, <3>1 DEF OnlyChannel, View, Internal
      <3> QED BY <3>1, <3>2, <3>3, ShownAt
    <2> QED BY <2>1, <2>2
  <1>9. Shown' = Assign(Shown, n, seen)
    <2>1. /\ DOMAIN channels' = DOMAIN channels \cup {n} /\ channels'[n] = b
          /\ \A h \in DOMAIN channels : channels'[h] = channels[h]
      BY <1>1, <1>2 DEF Emplace
    <2>2. View(drivers'[channels'[n].deviceId], channels'[n]) = seen
      BY <1>1, <1>7, <2>1 DEF b
    <2>3. Shown' = [h \in DOMAIN channels \cup {n} |->
                      View(drivers'[channels'[h].deviceId], channels'[h])]
      BY <2>1 DEF Shown
    <2> HIDE DEF seen
    <2> QED BY <1>2, <1>8, <2>1, <2>2, <2>3, ShownAt DEF Assign
  <1>10. DOMAIN drivers' = DOMAIN drivers
    BY <1>1
  <1> USE DEF n
  <1> QED BY <1>1, <1>2, <1>3, <1>9, <1>10, SameStatuses, SameMaps
          DEF Promise!Connect, Promise!Returns, Shown, View, Driver, Internal

\* The driver's channel goes with the handle, and no other.
LEMMA DisconnectRefines ==
  ASSUME TablesInv, NEW t, NEW h, Disconnect(t, h)
  PROVE  Promise!Disconnect(t, h)
  <1>1. CASE h \notin DOMAIN channels /\ Refuse(t, ERR_INVALID_CHANNEL_ID)
    BY <1>1, RefuseRefines, SameStatuses DEF Promise!Disconnect
  <1>2. CASE h \in DOMAIN channels
    <2> DEFINE d == channels[h].deviceId
               c == Internal(h)
               old == drivers[d]
               new == DriverDisconnect(old, c)
    <2>1. d \in DOMAIN drivers /\ DriverInv(old) /\ c \in DOMAIN old.channels
      BY <1>2 DEF TablesInv, DriversInv, BindingsResolve, Driver
    <2>2. /\ drivers' = [drivers EXCEPT ![d] = new]
          /\ channels' = Erase(channels, h)
          /\ UNCHANGED <<nextDeviceId, nextChannelId>>
          /\ lastError' = [lastError EXCEPT ![t] = STATUS_NOERROR]
      BY <1>2, <2>1 DEF Disconnect, Refuse, Return, recordResult
    <2>3. /\ new.channels = Erase(old.channels, c)
          /\ new.periodicMessages = Erase(old.periodicMessages, c)
          /\ new.filters = Erase(old.filters, c)
      BY <2>1 DEF DriverDisconnect, DriverInv, DriverTypeOK
    <2>4. OnlyChannel(old, new, c)
      BY <2>1, <2>3 DEF OnlyChannel, Erase, DriverInv
    <2> HIDE DEF new
    <2>5. ASSUME NEW g \in DOMAIN channels, g # h
          PROVE  View(drivers'[channels[g].deviceId], channels[g]) = Shown[g]
      <3>1. CASE channels[g].deviceId # d
        BY <2>1, <2>2, <3>1, ShownAt DEF Driver
      <3>2. CASE channels[g].deviceId = d
        <4>1. Internal(g) \in DOMAIN old.channels /\ Driver(g) = old
          BY <3>2 DEF TablesInv, BindingsResolve, Driver
        <4>2. Internal(g) # c
          <5>1. channels[g] \in Bindings /\ channels[h] \in Bindings
            BY <1>2 DEF TablesInv, ChannelsInv, IsMap
          <5>2. channels[g] # channels[h]
            BY <1>2, <2>5 DEF TablesInv, NoAliasing
          <5> QED BY <3>2, <5>1, <5>2 DEF Bindings, Internal
        <4>3. drivers'[channels[g].deviceId] = new
          BY <2>1, <2>2, <3>2
        <4>4. View(new, channels[g]) = View(old, channels[g])
          BY <2>4, <4>1, <4>2 DEF OnlyChannel, View, Internal
        <4> QED BY <4>1, <4>3, <4>4, ShownAt
      <3> QED BY <3>1, <3>2
    <2>6. Shown' = Erase(Shown, h)
      <3>1. /\ DOMAIN channels' = DOMAIN channels \ {h}
            /\ \A g \in DOMAIN channels \ {h} : channels'[g] = channels[g]
        BY <2>2 DEF Erase
      <3>2. Shown' = [g \in DOMAIN channels \ {h} |->
                        View(drivers'[channels'[g].deviceId], channels'[g])]
        BY <3>1 DEF Shown
      <3> QED BY <2>5, <3>1, <3>2, ShownAt DEF Erase
    <2>7. /\ DOMAIN drivers' = DOMAIN drivers
          /\ UNCHANGED <<1..(nextDeviceId - 1), 1..(nextChannelId - 1)>>
      BY <2>1, <2>2
    <2> QED BY <1>2, <2>2, <2>6, <2>7, SameStatuses, SameMaps
            DEF Promise!Disconnect, Promise!Returns, Shown, View, Driver, Internal
  <1> QED BY <1>1, <1>2 DEF Disconnect

----------------------------------------------------------------------------
(* Every call, and every step that is none.                                *)

\* Calls on a device that only report.
LEMMA ReportsRefine ==
  ASSUME TablesInv, NEW t, NEW d
  PROVE  /\ OpenFails(t) => Promise!Open(t)
         /\ ConnectFails(t, d) => \A baud : Promise!Connect(t, d, baud)
         /\ SetProgrammingVoltage(t, d) \/ ReadVersion(t, d) => Promise!Query(t, d)
  <1>1. OpenFails(t) => Promise!Open(t)
    BY RefuseRefines, SameStatuses DEF OpenFails, Promise!Open
  <1>2. ConnectFails(t, d) => \A baud : Promise!Connect(t, d, baud)
    BY RefuseRefines, SameStatuses DEF ConnectFails, Promise!Connect
  <1>3. ASSUME SetProgrammingVoltage(t, d) \/ ReadVersion(t, d)
        PROVE  Promise!Query(t, d)
    <2>1. CASE d \notin DOMAIN drivers /\ Refuse(t, ERR_INVALID_DEVICE_ID)
      BY <2>1, RefuseRefines, SameStatuses DEF Promise!Query
    <2>2. CASE /\ d \in DOMAIN drivers
               /\ \E s \in {STATUS_NOERROR, ERR_NOT_SUPPORTED} : Refuse(t, s)
      BY <2>2, RefuseRefines, SameStatuses DEF Promise!Query
    <2>3. d \in DOMAIN drivers => drivers[d].open
      BY DEF TablesInv, DriversInv, DriverInv
    <2> QED BY <1>3, <2>1, <2>2, <2>3
            DEF SetProgrammingVoltage, ReadVersion, SetVoltageStatus, DriverConnectStatus
  <1> QED BY <1>1, <1>2, <1>3

\* The error text is read without the mutex.
LEMMA GetLastErrorRefines ==
  ASSUME NEW t, GetLastError(t)
  PROVE  Promise!GetLastError(t)
  <1>1. UNCHANGED tables
        /\ \E s \in {STATUS_NOERROR, ERR_INVALID_MSG} :
             lastError' = [lastError EXCEPT ![t] = s]
    BY DEF GetLastError, recordResult
  <1>2. UNCHANGED <<DOMAIN drivers, Shown, 1..(nextDeviceId - 1), 1..(nextChannelId - 1)>>
    BY <1>1, SameTables
  <1> QED BY <1>1, <1>2, SameStatuses
          DEF Promise!GetLastError, Promise!Reports, Promise!Returns, Shown, View, Driver,
              Internal

\* Waiting for the mutex and taking it are seen by nobody.
LEMMA MutexStutters ==
  ASSUME UNCHANGED <<tables, lastError>>
  PROVE  UNCHANGED Promise!vars
  <1>1. UNCHANGED <<DOMAIN drivers, Shown, 1..(nextDeviceId - 1), 1..(nextChannelId - 1)>>
    BY SameTables
  <1> QED BY <1>1 DEF Promise!vars, Shown, View, Driver, Internal

\* Every call of the library.
LEMMA CallRefines ==
  ASSUME TablesInv, NEW t \in Threads, Call(t)
  PROVE  Promise!Call(t)
  <1>1. CASE OpenFails(t) \/ Open(t)
    BY <1>1, ReportsRefine, OpenRefines DEF Promise!Call
  <1>2. ASSUME NEW d \in DeviceHandles,
               Close(t, d) \/ SetProgrammingVoltage(t, d) \/ ReadVersion(t, d)
        PROVE  Promise!Call(t)
    BY <1>2, ReportsRefine, CloseRefines DEF Promise!Call
  <1>3. ASSUME NEW d \in DeviceHandles,
               ConnectFails(t, d) \/ \E baud \in Bauds : Connect(t, d, baud)
        PROVE  Promise!Call(t)
    <2>1. \E baud \in Bauds : Promise!Connect(t, d, baud)
      BY <1>3, ReportsRefine, ConnectRefines, RatesAssumption
    <2> QED BY <2>1 DEF Promise!Call
  <1>4. ASSUME NEW h \in ChannelHandles, Disconnect(t, h) \/ Transfer(t, h)
        PROVE  Promise!Call(t)
    BY <1>4, DisconnectRefines, TransferRefines DEF Promise!Call
  <1>5. ASSUME NEW h \in ChannelHandles,
               \/ \E arg \in PeriodicArgs : StartPeriodicMsg(t, h, arg)
               \/ \E arg \in FilterArgs : StartMsgFilter(t, h, arg)
        PROVE  Promise!Call(t)
    <2>1. \E f \in {"periodic", "filter"} : Promise!Start(t, h, f)
      BY <1>5, StartPeriodicRefines, StartFilterRefines
    <2> QED BY <2>1 DEF Promise!Call
  <1>6. ASSUME NEW h \in ChannelHandles, NEW i \in Ids,
               StopPeriodicMsg(t, h, i) \/ StopMsgFilter(t, h, i)
        PROVE  Promise!Call(t)
    <2>1. \E f \in {"periodic", "filter"} : Promise!Stop(t, h, f, i)
      BY <1>6, StopPeriodicRefines, StopFilterRefines
    <2> QED BY <2>1 DEF Promise!Call
  <1>7. ASSUME NEW h \in ChannelHandles, NEW r \in IoctlArgs, NEW baud \in Bauds,
               Ioctl(t, h, r, baud)
        PROVE  Promise!Call(t)
    BY <1>7, IoctlRefines, SameMaps DEF Promise!Call
  <1> QED BY <1>1, <1>2, <1>3, <1>4, <1>5, <1>6, <1>7 DEF Call

\* Every step of the library is a step of PassThru, or none.
LEMMA NextRefines ==
  IInv /\ [Next]_vars => [Promise!Next]_(Promise!vars)
  <1> SUFFICES ASSUME IInv, [Next]_vars
               PROVE  Promise!Next \/ UNCHANGED Promise!vars
    OBVIOUS
  <1>1. TablesInv
    BY DEF IInv
  <1>2. CASE UNCHANGED vars
    BY <1>2, MutexStutters DEF vars, tables
  <1>3. ASSUME NEW t \in Threads, Enter(t) \/ Acquire(t)
        PROVE  UNCHANGED Promise!vars
    BY <1>3, MutexStutters DEF Enter, Acquire
  <1>4. ASSUME NEW t \in Threads, GetLastError(t) \/ Call(t)
        PROVE  Promise!Next
    <2>1. Promise!Call(t)
      BY <1>1, <1>4, GetLastErrorRefines, CallRefines DEF Promise!Call
    <2> QED BY <2>1 DEF Promise!Next
  <1> QED BY <1>2, <1>3, <1>4 DEF Next

\* Seen from the application, the two levels of handles, the drivers' own
\* identifiers and the mutex are invisible: every call of api.cpp acts on the
\* channel its handle names, on nothing else, and returns PassThru's status.
THEOREM Refinement == Spec => ImplementsPassThru
  <1> QED BY Invariance, InitRefines, NextRefines, PTL
          DEF Spec, ImplementsPassThru, Promise!Spec

============================================================================
