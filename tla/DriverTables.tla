---------------------------- MODULE DriverTables ----------------------------
(***************************************************************************)
(* The tables of mvci::Driver and the operations on them: its channels,    *)
(* the periodic messages and filters of each, and the counters their       *)
(* identifiers come from.  A driver is a record; an operation is a pair of *)
(* operators, the status it returns and the driver it leaves.  Periodic    *)
(* messages are stored and never sent, filters stored and never applied,   *)
(* so what the tables hold is identifiers.  Message transfer is elsewhere: *)
(* it reads these tables (is the channel there?) and changes none of them. *)
(***************************************************************************)
EXTENDS J2534

CONSTANTS
  MaxChannels,   \* bound on the channel identifiers a driver hands out
  MaxIds,        \* bound on its periodic identifiers, and on its filter ones
  Bauds          \* channel baud rates

InternalChannels == 1..MaxChannels
Ids == 1..MaxIds

DriverTypeOK(drv) ==
  /\ drv = [open |-> drv.open, channels |-> drv.channels,
            periodicMessages |-> drv.periodicMessages, filters |-> drv.filters,
            nextChannel |-> drv.nextChannel,
            nextPeriodicId |-> drv.nextPeriodicId,
            nextFilterId |-> drv.nextFilterId]
  /\ drv.open \in BOOLEAN
  /\ IsMap(drv.channels, InternalChannels, Bauds)
  /\ IsMap(drv.periodicMessages, InternalChannels, SUBSET Ids)
  /\ IsMap(drv.filters, InternalChannels, SUBSET Ids)
  /\ drv.nextChannel \in 1..(MaxChannels + 1)
  /\ drv.nextPeriodicId \in 1..(MaxIds + 1)
  /\ drv.nextFilterId \in 1..(MaxIds + 1)

\* A driver whose open() has succeeded.
OpenedDriver ==
  [open |-> TRUE, channels |-> EmptyMap, periodicMessages |-> EmptyMap,
   filters |-> EmptyMap, nextChannel |-> 1, nextPeriodicId |-> 1,
   nextFilterId |-> 1]

----------------------------------------------------------------------------
DriverConnectStatus(drv) ==
  IF drv.open THEN STATUS_NOERROR ELSE ERR_NOT_INITIALIZED

\* Mutant: the counter is read and never advanced.
ConnectSameId(drv, baud) ==
  LET c == drv.nextChannel IN
  [drv EXCEPT !.channels = Assign(@, c, baud),
              !.periodicMessages = Assign(@, c, {}),
              !.filters = Assign(@, c, {})]

\* The internal identifier the new channel gets is the old counter.
DriverConnect(drv, baud) ==
  LET c == drv.nextChannel IN
  [drv EXCEPT !.nextChannel = @ + 1,
              !.channels = Assign(@, c, baud),
              !.periodicMessages = Assign(@, c, {}),
              !.filters = Assign(@, c, {})]

DriverDisconnect(drv, c) ==
  IF c \in DOMAIN drv.channels
  THEN [drv EXCEPT !.channels = Erase(@, c),
                   !.periodicMessages = Erase(@, c),
                   !.filters = Erase(@, c)]
  ELSE drv

\* write() and read() look the channel up and leave the tables alone; past
\* the lookup the status is what the message loop and the transport make it.
TransferOutcomes(drv, c) ==
  IF ~drv.open THEN {ERR_NOT_INITIALIZED}
  ELSE IF c \notin DOMAIN drv.channels THEN {ERR_INVALID_CHANNEL_ID}
  ELSE TransferStatuses

----------------------------------------------------------------------------
\* The message is checked before the channel.
StartPeriodicStatus(drv, c, arg) ==
  IF ~drv.open THEN ERR_NOT_INITIALIZED
  ELSE IF arg = "badMessage" THEN ERR_INVALID_MSG
  ELSE IF c \notin DOMAIN drv.channels THEN ERR_INVALID_CHANNEL_ID
  ELSE STATUS_NOERROR

\* Mutant: every periodic message gets the same identifier.
StartPeriodicSameId(drv, c, arg) ==
  IF StartPeriodicStatus(drv, c, arg) = STATUS_NOERROR
  THEN [drv EXCEPT !.periodicMessages[c] = @ \cup {drv.nextPeriodicId}]
  ELSE drv

StartPeriodic(drv, c, arg) ==
  IF StartPeriodicStatus(drv, c, arg) = STATUS_NOERROR
  THEN [drv EXCEPT !.nextPeriodicId = @ + 1,
                   !.periodicMessages[c] = @ \cup {drv.nextPeriodicId}]
  ELSE drv

StopPeriodicStatus(drv, c, i) ==
  IF ~drv.open THEN ERR_NOT_INITIALIZED
  ELSE IF c \notin DOMAIN drv.periodicMessages THEN ERR_INVALID_CHANNEL_ID
  ELSE IF i \notin drv.periodicMessages[c] THEN ERR_INVALID_MSG
  ELSE STATUS_NOERROR

StopPeriodic(drv, c, i) ==
  IF StopPeriodicStatus(drv, c, i) = STATUS_NOERROR
  THEN [drv EXCEPT !.periodicMessages[c] = @ \ {i}]
  ELSE drv

\* Here the channel is checked before the messages, and the type last.
StartFilterStatus(drv, c, arg) ==
  IF ~drv.open THEN ERR_NOT_INITIALIZED
  ELSE IF c \notin DOMAIN drv.channels THEN ERR_INVALID_CHANNEL_ID
  ELSE IF arg = "badMessage" THEN ERR_INVALID_MSG
  ELSE IF arg = "badType" THEN ERR_NOT_SUPPORTED
  ELSE STATUS_NOERROR

\* Mutant: the counter is advanced before it is read.
StartFilterPreIncrement(drv, c, arg) ==
  IF StartFilterStatus(drv, c, arg) = STATUS_NOERROR
  THEN [drv EXCEPT !.nextFilterId = @ + 1,
                   !.filters[c] = @ \cup {drv.nextFilterId + 1}]
  ELSE drv

StartFilter(drv, c, arg) ==
  IF StartFilterStatus(drv, c, arg) = STATUS_NOERROR
  THEN [drv EXCEPT !.nextFilterId = @ + 1,
                   !.filters[c] = @ \cup {drv.nextFilterId}]
  ELSE drv

StopFilterStatus(drv, c, i) ==
  IF ~drv.open THEN ERR_NOT_INITIALIZED
  ELSE IF c \notin DOMAIN drv.filters THEN ERR_INVALID_CHANNEL_ID
  ELSE IF i \notin drv.filters[c] THEN ERR_INVALID_MSG
  ELSE STATUS_NOERROR

StopFilter(drv, c, i) ==
  IF StopFilterStatus(drv, c, i) = STATUS_NOERROR
  THEN [drv EXCEPT !.filters[c] = @ \ {i}]
  ELSE drv

----------------------------------------------------------------------------
DriverIoctlStatus(drv, c, r) ==
  IF ~drv.open THEN ERR_NOT_INITIALIZED
  ELSE IF c \notin DOMAIN drv.channels THEN ERR_INVALID_CHANNEL_ID
  ELSE IoctlStatus(r)

\* SET_CONFIG of the baud rate is the one ioctl that changes a table.
DriverIoctl(drv, c, r, baud) ==
  IF /\ DriverIoctlStatus(drv, c, r) = STATUS_NOERROR
     /\ r.id = "SET_CONFIG"
  THEN [drv EXCEPT !.channels[c] = baud]
  ELSE drv

\* Only zero volts can be programmed.
SetVoltageStatus(drv, zeroVolts) ==
  IF ~drv.open THEN ERR_NOT_INITIALIZED
  ELSE IF zeroVolts THEN STATUS_NOERROR ELSE ERR_NOT_SUPPORTED

============================================================================
