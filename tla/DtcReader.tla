----------------------------- MODULE DtcReader -----------------------------
(***************************************************************************)
(* The callers of the client: an application that uses it as it likes, or  *)
(* main of the command line reader, which opens the device, connects, and  *)
(* clears once or reads once or for ever.                                  *)
(***************************************************************************)
EXTENDS UdsClient

CONSTANT
  MaxOps         \* bound on the operations of an application

VARIABLES
  main,          \* where main is; "app" for an application of another kind
  options,       \* clear, fetchVin, monitor
  device,        \* is the device open?
  exit,          \* main's result
  begun          \* operations the application has begun

readerVars == <<main, options, device, exit, begun>>

\* Where main clears it looks at no other option.
Options == {o \in [clear : BOOLEAN, fetchVin : BOOLEAN, monitor : BOOLEAN] :
              o.clear => ~o.fetchVin /\ ~o.monitor}
NoOptions == [clear |-> FALSE, fetchVin |-> FALSE, monitor |-> FALSE]

ReaderInit ==
  /\ Init
  /\ \/ main = "app" /\ options = NoOptions /\ device = TRUE
     \/ main = "open" /\ options \in Options /\ device = FALSE
  /\ exit = 0 /\ begun = 0

----------------------------------------------------------------------------
(* An application of another kind, on an open device.                      *)

Application ==
  /\ main = "app"
  /\ \/ (Connect \/ Disconnect) /\ UNCHANGED begun
     \/ /\ begun < MaxOps /\ begun' = begun + 1
        /\ \E o \in LibraryOps : Begin(o)
  /\ UNCHANGED <<main, options, device, exit>>

----------------------------------------------------------------------------
(* main.                                                                   *)

Goto(place) == main' = place /\ UNCHANGED <<options, begun>>

Leaves(status) == exit' = IF status = STATUS_NOERROR THEN 0 ELSE 1

ReaderOpens ==
  /\ main = "open"
  /\ \/ Goto("connect") /\ device' = TRUE /\ UNCHANGED exit
     \/ Goto("exited") /\ Leaves(ERR_FAILED) /\ UNCHANGED device
  /\ UNCHANGED vars

ReaderConnects ==
  /\ main = "connect"
  /\ Connect
  /\ Goto(IF options.clear THEN "clear" ELSE "cycle")
  /\ UNCHANGED <<device, exit>>

\* Mutant: nothing was connected, so there is nothing to undo.
ConnectFailsOpen ==
  /\ main = "connect"
  /\ Goto("exited") /\ Leaves(ERR_FAILED)
  /\ UNCHANGED <<vars, device>>

ConnectFails ==
  /\ main = "connect"
  /\ device' = FALSE
  /\ Goto("exited") /\ Leaves(ERR_FAILED)
  /\ UNCHANGED vars

\* The cycles: the one that begins at a place, and where main waits for it.
Runs(place, o, waiting) ==
  /\ main = place
  /\ Begin(o)
  /\ Goto(waiting)
  /\ UNCHANGED <<device, exit>>

ReaderClears == Runs("clear", "runClearCycle", "clearing")
ReaderReadsVin == options.fetchVin /\ Runs("cycle", "runVinReadCycle", "vin")
ReaderReads ==
  \/ ~options.fetchVin /\ Runs("cycle", "runReadCycle", "reading")
  \/ Runs("read", "runReadCycle", "reading")

\* A VIN that is not available is reported and no more.
ReaderHasVin ==
  /\ main = "vin" /\ Idle
  /\ Goto("read")
  /\ UNCHANGED <<vars, device, exit>>

ReaderIsDone ==
  /\ Idle
  /\ \/ main = "clearing"
     \/ main = "reading" /\ (ret.status # STATUS_NOERROR \/ ~options.monitor)
  /\ Goto("cleanup") /\ Leaves(ret.status)
  /\ UNCHANGED <<vars, device>>

ReaderGoesOn ==
  /\ main = "reading" /\ Idle
  /\ ret.status = STATUS_NOERROR /\ options.monitor
  /\ Goto("cycle")
  /\ UNCHANGED <<vars, device, exit>>

ReaderCleansUp ==
  /\ main = "cleanup"
  /\ Disconnect
  /\ device' = FALSE
  /\ Goto("exited")
  /\ UNCHANGED exit

Main ==
  \/ ReaderOpens \/ ReaderConnects \/ ConnectFails
  \/ ReaderClears \/ ReaderReadsVin \/ ReaderReads
  \/ ReaderHasVin \/ ReaderIsDone \/ ReaderGoesOn \/ ReaderCleansUp

Client == Step /\ UNCHANGED readerVars

ReaderNext ==
  \/ Application \/ Main \/ Client
  \/ Meets /\ UNCHANGED readerVars

ReaderSpec == ReaderInit /\ [][ReaderNext]_<<vars, readerVars>> /\ Fairness

----------------------------------------------------------------------------
(* Properties.                                                             *)

\* Whatever fails, and wherever: main leaves no channel connected and no
\* device open, and tells its caller of a read or clear that failed.
ExitsClean ==
  main = "exited" =>
    /\ channel = NoChannel /\ ~device
    /\ exit = 0 => /\ ret.status = STATUS_NOERROR
                   /\ ret.op \in {"runReadCycle", "runClearCycle"}

==============================================================================
