----------------------------- MODULE UdsClient -----------------------------
(***************************************************************************)
(* The diagnostics client: reading and clearing trouble codes and reading  *)
(* the VIN, over one channel, with the vehicle's ECUs at its other end.    *)
(* An operation is a sequence of requests; each is written, the responses  *)
(* are collected until the request's deadline, and what they say is looked *)
(* at when all are there.  ECUs answer late, negatively, more than once or *)
(* not at all, and nothing in a response says which request it is for      *)
(* except the service.                                                     *)
(*                                                                         *)
(* A channel is used by one thread.  Each call of an entry point is one    *)
(* step, or fails.  An ECU answers its requests in the order in which they *)
(* came, does not take one while it has MaxAsked of them, and loses a      *)
(* stored code only to a clear.                                            *)
(***************************************************************************)
EXTENDS J2534, FiniteSets, Sequences

CONSTANTS
  Transport,     \* what the device hangs on: "serial" or "usb"
  Ecus,          \* the ECUs that hear a functional request
  Ecm,           \* the one behind the physical address 7E0
  Knows,         \* ECU -> the services it knows
  Faulty,        \* those that store a trouble code until it is cleared
  FilterPairs,   \* number of flow-control filters (8 in the code)
  VinParts,      \* number of frames an OBD VIN response may come in
  Padded,        \* do negative responses come padded beyond three bytes?
  MaxChannels,   \* bound on the channels connected in a run
  MaxAsked,      \* number of requests an ECU keeps waiting
  MaxQueue,      \* number of frames the adapter keeps
  MaxResponses,  \* bound on the different responses to one request
  MaxFailures    \* bound on the transfers that fail

ASSUME TransportAssumption == Transport \in {"serial", "usb"}

ASSUME UdsBoundsAssumption ==
  /\ FilterPairs \in Nat /\ VinParts \in Nat
  /\ MaxChannels \in Nat /\ MaxFailures \in Nat
  /\ Padded \subseteq BOOLEAN

VARIABLES
  primary,       \* what resolveRequestCanId returns: functional or physical
  padded,        \* does this adapter keep the padding?
  channel,       \* the channel in use, NoChannel when none is
  nextChannel,   \* the handle the next channel gets
  initialised,   \* initialised: the channels marked as having their filters
  tried,         \* channel -> filters the client asked for
  asked,         \* ECU -> requests it has to answer
  queue,         \* responses the adapter holds for the channel
  stored,        \* ECU -> does it store its trouble code?
  op,            \* the operation that runs, "none" when none does
  request,       \* the request in progress: its locals
  responses,     \* what was collected for it
  dtcs,          \* the caller's DTC vector: the ECUs reported with a code
  vin,           \* the caller's VIN string: the parts it is made of
  ret,           \* what the last operation returned
  failures,      \* transfers that failed
  past           \* what the operation began with and what it met (history)

settings == <<primary, padded>>
channelVars == <<channel, nextChannel, initialised, tried>>
ecuVars == <<asked, queue, stored>>
resultVars == <<dtcs, vin, ret>>
callVars == <<op, request, responses>>
vars == <<settings, channelVars, ecuVars, callVars, resultVars, failures, past>>

NoChannel == 0
ChannelIds == 1..MaxChannels

\* The operations of uds.hpp, and the cycles of the command line reader, which
\* open no session and retry nothing.
LibraryOps == {"readActiveDtcs", "readVehicleVin", "clearDtcs"}
ReaderOps == {"runReadCycle", "runVinReadCycle", "runClearCycle"}

\* 10 03, 19 02, 22 F1 90, 09 02 and 14 FF FF FF.
Services == {"session", "dtc", "vin", "obd", "clear"}

ASSUME EcusAssumption ==
  Ecm \in Ecus /\ Faulty \subseteq Ecus /\ Knows \in [Ecus -> SUBSET Services]

ServiceOf(o) ==
  CASE o \in {"readActiveDtcs", "runReadCycle"}    -> "dtc"
    [] o \in {"readVehicleVin", "runVinReadCycle"} -> "vin"
    [] o \in {"clearDtcs", "runClearCycle"}        -> "clear"

Idle == op = "none"

\* The locals of a request: its service, where it goes and how far it is.
Request(service, id) ==
  [service |-> service, id |-> id, at |-> "start", filter |-> 0,
   expired |-> FALSE, status |-> STATUS_NOERROR]

Init ==
  /\ primary \in {"functional", "physical"} /\ padded \in Padded
  /\ channel = NoChannel /\ nextChannel = 1
  /\ initialised = {} /\ tried = [c \in ChannelIds |-> {}]
  /\ asked = [e \in Ecus |-> <<>>] /\ queue = <<>>
  /\ stored = [e \in Ecus |-> e \in Faulty]
  /\ op = "none" /\ request = Request("session", primary) /\ responses = <<>>
  /\ dtcs = {} /\ vin = {}
  /\ ret = [op |-> "none", status |-> STATUS_NOERROR]
  /\ failures = 0
  /\ past = [before |-> {}, quiet |-> TRUE, heard |-> FALSE, cleared |-> FALSE]

----------------------------------------------------------------------------
(* The caller's channel.                                                   *)

Connect ==
  /\ Idle /\ channel = NoChannel
  /\ nextChannel <= MaxChannels
  /\ channel' = nextChannel /\ nextChannel' = nextChannel + 1
  /\ UNCHANGED <<settings, initialised, tried, ecuVars, callVars, resultVars,
                 failures, past>>

\* What is still to come for the channel is dropped by the driver.
Disconnect ==
  /\ Idle /\ channel # NoChannel
  /\ channel' = NoChannel
  /\ asked' = [e \in Ecus |-> <<>>] /\ queue' = <<>>
  /\ UNCHANGED <<settings, nextChannel, initialised, tried, stored, callVars,
                 resultVars, failures, past>>

----------------------------------------------------------------------------
(* The ECUs.                                                               *)

\* A frame is the service it answers positively, or "refused" (7F, whatever
\* for), and what it tells: the ECU that has its code, or parts of the VIN.
Content(e, r) ==
  CASE r.service = "dtc" -> IF stored[e] THEN {e} ELSE {}
    [] r.service = "vin" -> 1..VinParts
    [] r.service = "obd" -> {r.part}
    [] OTHER             -> {}

Sends(service, content) ==
  queue' = Append(queue, [service |-> service, content |-> content])

Ready(e) == asked[e] # <<>> /\ Len(queue) < MaxQueue

\* An ECU answers the oldest request it has.
Grants(e) ==
  /\ Ready(e)
  /\ LET r == Head(asked[e]) IN
       /\ Sends(r.service, Content(e, r))
       /\ asked' = [asked EXCEPT ![e] = Tail(@)]
       /\ IF r.service = "clear"
          THEN /\ stored' = [stored EXCEPT ![e] = FALSE]
               /\ past' = [past EXCEPT !.cleared = @ \/ (~Idle /\ ServiceOf(op) = "clear")]
          ELSE UNCHANGED <<stored, past>>
  /\ UNCHANGED <<settings, channelVars, callVars, resultVars, failures>>

\* A refusal may be the one that announces that the answer is to follow
\* (7F xx 78), and an ECU repeats that one as often as it likes.
Denies(e) ==
  /\ Ready(e)
  /\ Sends("refused", {})
  /\ asked' \in {asked, [asked EXCEPT ![e] = Tail(@)]}
  /\ UNCHANGED <<settings, channelVars, stored, callVars, resultVars, failures, past>>

----------------------------------------------------------------------------
(* sendUdsRequestWithId: one request and the responses that come in time.  *)

At(place) == ~Idle /\ request.at = place
Goes(place) == request' = [request EXCEPT !.at = place]

\* The next request is made, with no responses yet.
Asks(service, id) == request' = Request(service, id) /\ responses' = <<>>

\* The caller's vector may hold anything from before, here all it can.
Begin(o) ==
  /\ Idle /\ channel # NoChannel
  /\ op' = o
  /\ Asks(IF o \in LibraryOps THEN "session" ELSE ServiceOf(o), primary)
  /\ past' = [before |-> {e \in Ecus : ServiceOf(o) = "dtc" /\ stored[e]},
              quiet |-> queue = <<>> /\ \A e \in Ecus : asked[e] = <<>>,
              heard |-> FALSE, cleared |-> FALSE]
  /\ dtcs' = Ecus /\ vin' = {}
  /\ ret' = [op |-> "none", status |-> STATUS_NOERROR]
  /\ UNCHANGED <<settings, channelVars, ecuVars, failures>>

\* Mutant: one flag for the process instead of a set of channels.
MarksProcess ==
  /\ At("start") /\ channel \notin initialised
  /\ initialised' = ChannelIds
  /\ Goes("filter")
  /\ UNCHANGED <<settings, channel, nextChannel, tried, ecuVars, op, responses,
                 resultVars, failures, past>>

\* The channel is marked before its filters are installed.
MarksChannel ==
  /\ At("start") /\ channel \notin initialised
  /\ initialised' = initialised \cup {channel}
  /\ Goes("filter")
  /\ UNCHANGED <<settings, channel, nextChannel, tried, ecuVars, op, responses,
                 resultVars, failures, past>>

\* Mutant: one pair too many.
StartsFilterTooFar ==
  /\ At("filter") /\ request.filter <= FilterPairs
  /\ request' = [request EXCEPT !.filter = @ + 1]
  /\ tried' = [tried EXCEPT ![channel] = @ \cup {request.filter}]
  /\ UNCHANGED <<settings, channel, nextChannel, initialised, ecuVars, op,
                 responses, resultVars, failures, past>>

\* One filter, whether it is accepted or not.
StartsFilter ==
  /\ At("filter") /\ request.filter < FilterPairs
  /\ request' = [request EXCEPT !.filter = @ + 1]
  /\ tried' = [tried EXCEPT ![channel] = @ \cup {request.filter}]
  /\ UNCHANGED <<settings, channel, nextChannel, initialised, ecuVars, op,
                 responses, resultVars, failures, past>>

MayWrite ==
  \/ At("start") /\ channel \in initialised
  \/ At("filter") /\ request.filter = FilterPairs

\* The ECUs that take the request: of those it is addressed to, those that
\* know the service and are not busy.
Takes(e, taking) ==
  IF e \in taking /\ Len(asked[e]) < MaxAsked
  THEN asked[e] \o (IF request.service = "obd"
                    THEN [p \in 1..VinParts |-> [service |-> "obd", part |-> p]]
                    ELSE <<[service |-> request.service, part |-> 1]>>)
  ELSE asked[e]

Reached == IF request.id = "functional" THEN Ecus ELSE {Ecm}

Delivers ==
  \E taking \in SUBSET {e \in Reached : request.service \in Knows[e]} :
    asked' = [e \in Ecus |-> Takes(e, taking)]

Writes ==
  /\ MayWrite /\ Delivers
  /\ Goes("collect")
  /\ past' = [past EXCEPT !.heard = @ /\ request.id # "functional"]
  /\ UNCHANGED <<settings, channelVars, queue, stored, op, responses, resultVars,
                 failures>>

Done(status) == request' = [request EXCEPT !.at = "done", !.status = status]

\* A request whose write failed may have reached the ECUs nevertheless.
WriteFails ==
  /\ MayWrite /\ failures < MaxFailures
  /\ failures' = failures + 1
  /\ Delivers \/ UNCHANGED asked
  /\ Done(ERR_FAILED)
  /\ past' = [past EXCEPT !.heard = @ /\ request.id # "functional"]
  /\ UNCHANGED <<settings, channelVars, queue, stored, op, responses, resultVars>>

Collecting == At("collect")

Deadline ==
  /\ Collecting /\ ~request.expired
  /\ request' = [request EXCEPT !.expired = TRUE]
  /\ UNCHANGED <<settings, channelVars, ecuVars, op, responses, resultVars,
                 failures, past>>

\* A response that was collected already changes nothing a parser sees and
\* is left out.
Keep(f) == IF \E i \in 1..Len(responses) : responses[i] = f THEN responses
           ELSE Append(responses, f)

\* Mutant: the loop goes on until a read times out.
CollectsOn ==
  /\ Collecting /\ queue # <<>>
  /\ responses' = Keep(Head(queue)) /\ Len(responses') <= MaxResponses
  /\ queue' = Tail(queue)
  /\ past' = [past EXCEPT !.heard = request.service # "session"]
  /\ UNCHANGED <<settings, channelVars, asked, stored, op, request, resultVars,
                 failures>>

\* A response that comes when the time left has become 0 is the last one.
Collects ==
  /\ Collecting /\ queue # <<>>
  /\ responses' = Keep(Head(queue)) /\ Len(responses') <= MaxResponses
  /\ queue' = Tail(queue)
  /\ IF request.expired THEN Done(STATUS_NOERROR) ELSE UNCHANGED request
  /\ past' = [past EXCEPT !.heard = request.service # "session"]
  /\ UNCHANGED <<settings, channelVars, asked, stored, op, resultVars, failures>>

\* The last read finds nothing; a response that the transport has not read
\* yet does not count.
TimesOut ==
  /\ Collecting /\ request.expired
  /\ Done(IF responses = <<>> THEN ERR_TIMEOUT ELSE STATUS_NOERROR)
  /\ UNCHANGED <<settings, channelVars, ecuVars, op, responses, resultVars,
                 failures, past>>

\* Mutant: the responses are dropped with the error.
ReadFailsEmpty ==
  /\ Collecting /\ failures < MaxFailures
  /\ failures' = failures + 1
  /\ Done(ERR_FAILED) /\ responses' = <<>>
  /\ UNCHANGED <<settings, channelVars, ecuVars, op, resultVars, past>>

ReadFails ==
  /\ Collecting /\ failures < MaxFailures
  /\ failures' = failures + 1
  /\ Done(ERR_FAILED)
  /\ UNCHANGED <<settings, channelVars, ecuVars, op, responses, resultVars, past>>

----------------------------------------------------------------------------
(* What the responses say.                                                 *)

\* The data parsers skip what is shorter than four bytes, which a refusal is
\* unless it is padded.  They stop at a refusal they see.
Refusal(r) == r.service = "refused"
Seen(rs) == {i \in 1..Len(rs) : \A j \in 1..i : ~(padded /\ Refusal(rs[j]))}
Answers(rs, service) == {i \in Seen(rs) : rs[i].service = service}
Refused(rs) == Seen(rs) # 1..Len(rs)

\* A code is reported for the ECU whose response it stands in, by its CAN ID.
DtcsIn(rs) == UNION {rs[i].content : i \in Answers(rs, "dtc")}

\* OBD frames are put in order by the index they carry, whoever sent them.
ObdVinIn(rs) == IF Refused(rs) THEN {} ELSE UNION {rs[i].content : i \in Answers(rs, "obd")}

\* A DID response is the whole VIN, and the first one is taken.
DidVinIn(rs) == UNION {rs[i].content : i \in Answers(rs, "vin")}

VinIn(service, rs) == IF service = "vin" THEN DidVinIn(rs) ELSE ObdVinIn(rs)

\* Mutant: whatever is no refusal accepts the request.
ClearedByAnything(rs) == \E i \in 1..Len(rs) : ~Refusal(rs[i])

\* The first refusal or clear response decides, whatever the refusal is for.
ClearedIn(rs) ==
  \E i \in 1..Len(rs) :
    /\ rs[i].service = "clear"
    /\ \A j \in 1..i : ~Refusal(rs[j])

Status(good) == IF good THEN STATUS_NOERROR ELSE ERR_FAILED

\* What the operation makes of its request.
Outcome ==
  IF request.status # STATUS_NOERROR THEN request.status
  ELSE CASE request.service = "dtc"           -> Status(~Refused(responses))
         [] request.service \in {"vin", "obd"} ->
              Status(VinIn(request.service, responses) # {})
         [] request.service = "clear"         -> Status(ClearedIn(responses))

Answered == At("done") /\ request.service # "session"
Parsing(services) == request.status = STATUS_NOERROR /\ request.service \in services

\* Mutant: what the caller's vector held before stays in it.
ParsesInto ==
  /\ dtcs' = IF Parsing({"dtc"}) THEN dtcs \cup DtcsIn(responses) ELSE dtcs
  /\ vin' = IF Parsing({"vin", "obd"}) THEN VinIn(request.service, responses) ELSE vin

\* The parsers overwrite the caller's result, also when they fail.
Parses ==
  /\ dtcs' = IF Parsing({"dtc"}) THEN DtcsIn(responses) ELSE dtcs
  /\ vin' = IF Parsing({"vin", "obd"}) THEN VinIn(request.service, responses) ELSE vin

----------------------------------------------------------------------------
(* The operations: which request follows, and what is returned.            *)

\* Whatever became of the session, the operation goes on.
SessionDone ==
  /\ At("done") /\ request.service = "session"
  /\ Asks(ServiceOf(op), primary)
  /\ UNCHANGED <<settings, channelVars, ecuVars, op, resultVars, failures, past>>

Missed ==
  /\ op \in {"readActiveDtcs", "readVehicleVin"}
  /\ responses = <<>> /\ request.id = "functional"

\* Nobody answered the functional request: the engine controller is asked.
RetriesPhysically ==
  /\ Answered /\ Missed
  /\ Asks(request.service, "physical")
  /\ UNCHANGED <<settings, channelVars, ecuVars, op, resultVars, failures, past>>

WantsObd ==
  op = "readVehicleVin" /\ request.service = "vin" /\ Outcome # STATUS_NOERROR

TriesObd ==
  /\ Answered /\ ~Missed /\ WantsObd
  /\ Parses
  /\ Asks("obd", primary)
  /\ UNCHANGED <<settings, channelVars, ecuVars, op, ret, failures, past>>

Returns ==
  /\ Answered /\ ~Missed /\ ~WantsObd
  /\ Parses
  /\ ret' = [op |-> op, status |-> Outcome]
  /\ op' = "none"
  /\ Asks("session", primary)
  /\ UNCHANGED <<settings, channelVars, ecuVars, failures, past>>

----------------------------------------------------------------------------
\* What an operation does by itself, waiting apart.
Advances ==
  \/ MarksChannel \/ StartsFilter \/ Writes \/ Collects
  \/ SessionDone \/ RetriesPhysically \/ TriesObd \/ Returns

Step == Advances \/ TimesOut

\* What may happen to it, and what the ECUs do.
Meets ==
  \/ Deadline \/ WriteFails \/ ReadFails
  \/ \E e \in Ecus : Grants(e) \/ Denies(e)

Next ==
  \/ Connect \/ Disconnect
  \/ \E o \in LibraryOps \cup ReaderOps : Begin(o)
  \/ Step \/ Meets

Spec == Init /\ [][Next]_vars

\* What is bound to go on.  A read with no time left ends over a serial line;
\* over USB 0 means no timeout, and it may wait for ever.
Progress == Advances \/ (Transport = "serial" /\ TimesOut)

\* The thread of the call runs on, and time passes.
Fairness == WF_vars(Progress) /\ WF_vars(Deadline)

----------------------------------------------------------------------------
(* Properties.                                                             *)

Places == {"start", "filter", "collect", "done"}
Frames ==
  [service : {"dtc"}, content : SUBSET Ecus]
    \cup [service : (Services \ {"dtc"}) \cup {"refused"}, content : SUBSET (1..VinParts)]
Tasks ==
  [service : {"obd"}, part : 1..VinParts] \cup [service : Services \ {"obd"}, part : {1}]
Requests == [service : Services, id : {"functional", "physical"}, at : Places,
             filter : 0..FilterPairs, expired : BOOLEAN, status : Statuses]

\* The type invariant.
TypeOK ==
  /\ primary \in {"functional", "physical"} /\ padded \in BOOLEAN
  /\ channel \in 0..(nextChannel - 1) /\ nextChannel \in 1..(MaxChannels + 1)
  /\ initialised \subseteq ChannelIds
  /\ tried \in [ChannelIds -> SUBSET (0..(FilterPairs - 1))]
  /\ asked \in [Ecus -> Seq(Tasks)]
  /\ queue \in Seq(Frames) /\ responses \in Seq(Frames)
  /\ stored \in [Ecus -> BOOLEAN]
  /\ op \in LibraryOps \cup ReaderOps \cup {"none"}
  /\ request \in Requests
  /\ op # "none" => channel # NoChannel
  /\ dtcs \subseteq Ecus /\ vin \subseteq 1..VinParts
  /\ ret.op \in LibraryOps \cup ReaderOps \cup {"none"} /\ ret.status \in Statuses
  /\ failures \in 0..MaxFailures
  /\ past \in [before : SUBSET Ecus, quiet : BOOLEAN, heard : BOOLEAN,
               cleared : BOOLEAN]

\* No response is waited for on a channel whose filters were not all asked
\* for, the second channel of a process no less than the first: without them
\* the adapter passes no response on.
FiltersFirst == At("collect") => tried[channel] = 0..(FilterPairs - 1)

\* The engine controller is asked again only if nothing was heard since the
\* functional request, whatever error ended it: an ECU that answered does not
\* get the request twice.
RetryOnlyOnSilence ==
  MayWrite /\ request.id = "physical" /\ primary = "functional"
    => ~past.heard

Ended(ops) == Idle /\ ret.op \in ops /\ ret.status = STATUS_NOERROR

\* A read that succeeds reports codes that were there when it began, for the
\* ECUs that have them, whatever its caller's vector held; late answers to
\* requests before it are the exception.
DtcsAreFresh ==
  Ended({"readActiveDtcs", "runReadCycle"}) /\ past.quiet => dtcs \subseteq past.before

\* A clear that is reported has happened in an ECU; the exception is again a
\* late answer to an earlier clear.
ClearMeansCleared ==
  Ended({"clearDtcs", "runClearCycle"}) /\ past.quiet => past.cleared

\* Over a serial line every operation returns, even if the ECUs go on refusing
\* for ever.  Over USB the last read of a request need not (see Progress).
OperationReturns == Transport = "serial" => (~Idle ~> Idle)

==============================================================================
