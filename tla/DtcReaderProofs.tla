-------------------------- MODULE DtcReaderProofs --------------------------
(***************************************************************************)
(* Proofs about UdsClient and DtcReader, for any ECUs and whatever they    *)
(* know, any number of filters, VIN frames, channels and failures.         *)
(*                                                                         *)
(* The client comes first: its types, and four invariants beside them, of  *)
(* the filters, of what was heard, of the service asked for, and of what   *)
(* the frames in the queue and among the responses may mean.  Each is kept *)
(* by every step of the client, whoever calls it; then DtcReader is shown  *)
(* to call it no other way, and what main does is added.                   *)
(***************************************************************************)
EXTENDS DtcReader, SequenceLemmas

----------------------------------------------------------------------------
(* Types.                                                                  *)

\* What the steps of a request set is of the type of its locals.
LEMMA RequestUpdates ==
  ASSUME NEW r \in Requests
  PROVE  /\ \A p \in Places : [r EXCEPT !.at = p] \in Requests
         /\ \A p \in Places, s \in Statuses :
              [r EXCEPT !.at = p, !.status = s] \in Requests
         /\ [r EXCEPT !.expired = TRUE] \in Requests
         /\ r.filter < FilterPairs => [r EXCEPT !.filter = @ + 1] \in Requests
  <1> DEFINE next == r.filter + 1
  <1>1. r.filter < FilterPairs => next \in 0..FilterPairs
    BY UdsBoundsAssumption DEF Requests
  <1> HIDE DEF next
  <1>2. r.filter < FilterPairs => [r EXCEPT !.filter = next] \in Requests
    BY <1>1 DEF Requests
  <1>3. /\ \A p \in Places : [r EXCEPT !.at = p] \in Requests
        /\ \A p \in Places, s \in Statuses :
             [r EXCEPT !.at = p, !.status = s] \in Requests
        /\ [r EXCEPT !.expired = TRUE] \in Requests
    BY DEF Requests
  <1> QED BY <1>2, <1>3 DEF next

\* So are the locals a request begins with.
LEMMA NewRequest ==
  ASSUME NEW service \in Services, NEW id \in {"functional", "physical"}
  PROVE  Request(service, id) \in Requests
  BY UdsBoundsAssumption DEF Request, Requests, Places, Statuses

\* Every operation asks for trouble codes, for the VIN or for a clear.
LEMMA ServiceOfOp ==
  ASSUME NEW o \in LibraryOps \cup ReaderOps
  PROVE  ServiceOf(o) \in {"dtc", "vin", "clear"}
  BY DEF ServiceOf, LibraryOps, ReaderOps

\* The two parts of a queue that is not empty.
LEMMA HeadTail ==
  ASSUME NEW S, NEW s \in Seq(S), s # <<>>
  PROVE  /\ Head(s) \in S /\ Tail(s) \in Seq(S)
         /\ Head(s) = s[1] /\ Len(s) \in Nat \ {0} /\ Len(Tail(s)) = Len(s) - 1
         /\ \A i \in 1..Len(Tail(s)) : Tail(s)[i] = s[i + 1]
  OBVIOUS

\* The types hold at the start.
LEMMA TypeInit == Init => TypeOK
  <1> SUFFICES ASSUME Init PROVE TypeOK
    OBVIOUS
  <1>1. request \in Requests
    BY NewRequest DEF Init, Services
  <1>2. padded \in BOOLEAN
    BY UdsBoundsAssumption DEF Init
  <1> QED BY <1>1, <1>2, UdsBoundsAssumption
       DEF Init, TypeOK, ChannelIds, NoChannel, LibraryOps, ReaderOps, Statuses


\* Connecting and disconnecting keep them,
LEMMA TypeChannels ==
  ASSUME TypeOK, Connect \/ Disconnect
  PROVE  TypeOK'
  <1>1. CASE Connect
    BY <1>1, UdsBoundsAssumption
    DEF TypeOK, Connect, Idle, ChannelIds, NoChannel, settings, ecuVars, callVars,
        resultVars
  <1>2. CASE Disconnect
    BY <1>2, UdsBoundsAssumption
    DEF TypeOK, Disconnect, Idle, ChannelIds, NoChannel, settings, callVars,
        resultVars
  <1> QED BY <1>1, <1>2

\* so does the begin of an operation,
LEMMA TypeBegin ==
  ASSUME TypeOK, NEW o \in LibraryOps \cup ReaderOps, Begin(o)
  PROVE  TypeOK'
  <1>1. request' \in Requests
    BY ServiceOfOp, NewRequest DEF Begin, Asks, TypeOK, Services
  <1>2. responses' \in Seq(Frames)
    BY DEF Begin, Asks
  <1> QED BY <1>1, <1>2
    DEF TypeOK, Begin, ChannelIds, NoChannel, settings, channelVars, ecuVars,
        Statuses

\* the first use of a channel,
LEMMA TypeFilters ==
  ASSUME TypeOK, MarksChannel \/ StartsFilter
  PROVE  TypeOK'
  <1>1. channel \in ChannelIds
    BY UdsBoundsAssumption
    DEF TypeOK, MarksChannel, StartsFilter, At, Idle, ChannelIds, NoChannel
  <1>2. request' \in Requests
    BY RequestUpdates DEF TypeOK, MarksChannel, StartsFilter, Goes, Places
  <1>3. CASE MarksChannel
    BY <1>1, <1>2, <1>3 DEF TypeOK, MarksChannel, settings, ecuVars, resultVars
  <1>4. CASE StartsFilter
    <2>1. request.filter \in 0..(FilterPairs - 1)
      BY <1>4, UdsBoundsAssumption DEF TypeOK, Requests, StartsFilter
    <2>2. tried' \in [ChannelIds -> SUBSET (0..(FilterPairs - 1))]
      BY <1>1, <1>4, <2>1 DEF TypeOK, StartsFilter
    <2> QED BY <1>2, <1>4, <2>2 DEF TypeOK, StartsFilter, settings, ecuVars, resultVars
  <1> QED BY <1>3, <1>4

\* (What the ECUs that take a request have to answer.)
LEMMA TypeDelivers ==
  ASSUME TypeOK, Delivers
  PROVE  asked' \in [Ecus -> Seq(Tasks)]
  <1>1. [p \in 1..VinParts |-> [service |-> "obd", part |-> p]] \in Seq(Tasks)
    BY UdsBoundsAssumption DEF Tasks
  <1>2. request.service # "obd" =>
          <<[service |-> request.service, part |-> 1]>> \in Seq(Tasks)
    BY DEF TypeOK, Requests, Tasks
  <1>3. \A e \in Ecus, taking \in SUBSET Ecus : Takes(e, taking) \in Seq(Tasks)
    <2> DEFINE many == [p \in 1..VinParts |-> [service |-> "obd", part |-> p]]
               one == <<[service |-> request.service, part |-> 1]>>
    <2>1. many \in Seq(Tasks) /\ (request.service # "obd" => one \in Seq(Tasks))
      BY <1>1, <1>2
    <2>2. \A e \in Ecus : asked[e] \in Seq(Tasks)
      BY DEF TypeOK
    <2>3. \A e \in Ecus, taking \in SUBSET Ecus :
            \/ Takes(e, taking) \in {asked[e], asked[e] \o many}
            \/ request.service # "obd" /\ Takes(e, taking) = asked[e] \o one
      BY DEF Takes
    <2> HIDE DEF many, one
    <2> QED BY <2>1, <2>2, <2>3, ConcatProperties
  <1> QED BY <1>3, EcusAssumption DEF Delivers, Reached

\* the write of a request, which the ECUs it reaches queue, and which may
\* reach them if it fails,
LEMMA TypeWrites ==
  ASSUME TypeOK, Writes \/ WriteFails
  PROVE  TypeOK'
  <1>1. request' \in Requests
    BY RequestUpdates DEF TypeOK, Writes, WriteFails, Goes, Done, Places, Statuses
  <1>2. asked' \in [Ecus -> Seq(Tasks)]
    BY TypeDelivers DEF TypeOK, Writes, WriteFails
  <1>3. past' \in [before : SUBSET Ecus, quiet : BOOLEAN, heard : BOOLEAN,
                   cleared : BOOLEAN]
    BY DEF TypeOK, Writes, WriteFails
  <1>4. failures' \in 0..MaxFailures
    BY UdsBoundsAssumption DEF TypeOK, Writes, WriteFails
  <1> QED BY <1>1, <1>2, <1>3, <1>4
    DEF TypeOK, Writes, WriteFails, settings, channelVars, resultVars

\* the end of its wait, with or without an error,
LEMMA TypeEnds ==
  ASSUME TypeOK, ReadFails \/ TimesOut \/ Deadline
  PROVE  TypeOK'
  <1>1. request' \in Requests
    BY RequestUpdates
    DEF TypeOK, ReadFails, TimesOut, Deadline, Done, Places, Statuses
  <1>2. failures' \in 0..MaxFailures
    BY UdsBoundsAssumption DEF TypeOK, ReadFails, TimesOut, Deadline
  <1>3. past' \in [before : SUBSET Ecus, quiet : BOOLEAN, heard : BOOLEAN,
                   cleared : BOOLEAN]
    BY DEF TypeOK, ReadFails, TimesOut, Deadline
  <1> QED BY <1>1, <1>2, <1>3
    DEF TypeOK, ReadFails, TimesOut, Deadline, settings, channelVars,
        ecuVars, resultVars

\* (A response that is kept is among the responses.)
LEMMA Kept ==
  ASSUME TypeOK, NEW f \in Frames
  PROVE  Keep(f) \in Seq(Frames) /\ Keep(f) # <<>>
  <1>1. Append(responses, f) \in Seq(Frames) /\ Append(responses, f) # <<>>
    <2>1. responses \in Seq(Frames) /\ Len(responses) \in Nat
      BY DEF TypeOK
    <2>2. Append(responses, f) \in Seq(Frames) /\ Len(Append(responses, f)) = Len(responses) + 1
      BY <2>1, AppendProperties
    <2>3. Append(responses, f) # <<>>
      <3>1. Len(Append(responses, f)) # 0
        BY <2>1, <2>2
      <3> QED BY <3>1
    <2> QED BY <2>2, <2>3
  <1>2. \A i \in 1..Len(responses) : responses # <<>>
    BY DEF TypeOK
  <1> QED BY <1>1, <1>2 DEF TypeOK, Keep

\* a response that is collected,
LEMMA TypeCollects ==
  ASSUME TypeOK, Collects
  PROVE  TypeOK'
  <1>1. request' \in Requests
    BY RequestUpdates DEF TypeOK, Collects, Done, Places, Statuses
  <1>2. Head(queue) \in Frames /\ Tail(queue) \in Seq(Frames)
    BY HeadTail DEF TypeOK, Collects
  <1>3. responses' \in Seq(Frames)
    BY <1>2, Kept DEF Collects
  <1>4. past' \in [before : SUBSET Ecus, quiet : BOOLEAN, heard : BOOLEAN,
                   cleared : BOOLEAN]
    BY DEF TypeOK, Collects
  <1> QED BY <1>1, <1>2, <1>3, <1>4
    DEF TypeOK, Collects, settings, channelVars, resultVars

\* the request that follows the session or a silence,
LEMMA TypeFollows ==
  ASSUME TypeOK, SessionDone \/ RetriesPhysically
  PROVE  TypeOK'
  <1>1. SessionDone => request' \in Requests
    <2> SUFFICES ASSUME SessionDone PROVE request' \in Requests
      OBVIOUS
    <2>1. op \in LibraryOps \cup ReaderOps
      BY DEF TypeOK, SessionDone, At, Idle
    <2> QED BY <2>1, ServiceOfOp, NewRequest
         DEF TypeOK, SessionDone, Asks, Services
  <1>2. RetriesPhysically => request' \in Requests
    BY NewRequest DEF TypeOK, RetriesPhysically, Asks, Requests
  <1>3. request' \in Requests /\ responses' \in Seq(Frames)
    <2>1. responses' = <<>>
      BY DEF SessionDone, RetriesPhysically, Asks
    <2> QED BY <1>1, <1>2, <2>1, EmptySeq
  <1> QED BY <1>3
    DEF TypeOK, SessionDone, RetriesPhysically, settings, channelVars, ecuVars,
        resultVars

\* (The codes parsed are of ECUs, and the VIN is made of its parts.)
LEMMA TypeParses ==
  ASSUME TypeOK, Parses
  PROVE  dtcs' \subseteq Ecus /\ vin' \subseteq 1..VinParts
  <1>1. \A i \in 1..Len(responses) :
          responses[i].service = "dtc" => responses[i].content \subseteq Ecus
    BY DEF TypeOK, Frames
  <1>2. DtcsIn(responses) \subseteq Ecus
    BY <1>1 DEF DtcsIn, Answers, Seen
  <1>3. \A i \in 1..Len(responses) :
          responses[i].service # "dtc" => responses[i].content \subseteq 1..VinParts
    BY DEF TypeOK, Frames
  <1>4. \A service : VinIn(service, responses) \subseteq 1..VinParts
    BY <1>3 DEF VinIn, ObdVinIn, DidVinIn, Answers, Seen
  <1> QED BY <1>2, <1>4 DEF TypeOK, Parses

\* what is made of the responses,
LEMMA TypeReturns ==
  ASSUME TypeOK, TriesObd \/ Returns
  PROVE  TypeOK'
  <1>1. request' \in Requests
    BY NewRequest DEF TypeOK, TriesObd, Returns, Asks, Services
  <1>2. responses' = <<>>
    BY DEF TriesObd, Returns, Asks
  <1>3. dtcs' \subseteq Ecus /\ vin' \subseteq 1..VinParts
    BY TypeParses DEF TriesObd, Returns
  <1>4. Answered => Outcome \in Statuses
    BY DEF Answered, Outcome, TypeOK, Requests, Services, Status, Statuses
  <1>5. ret'.op \in LibraryOps \cup ReaderOps \cup {"none"} /\ ret'.status \in Statuses
    BY <1>4 DEF TypeOK, TriesObd, Returns
  <1>6. op' \in LibraryOps \cup ReaderOps \cup {"none"} /\ (op' # "none" => op = op')
    BY DEF TypeOK, TriesObd, Returns
  <1> QED BY <1>1, <1>2, <1>3, <1>5, <1>6, EmptySeq
    DEF TypeOK, TriesObd, Returns, settings, channelVars, ecuVars

\* (A frame that is sent is queued.)
LEMMA Queued ==
  ASSUME TypeOK, NEW service, NEW content, Sends(service, content),
         [service |-> service, content |-> content] \in Frames
  PROVE  queue' \in Seq(Frames)
  BY AppendProperties DEF TypeOK, Sends

\* (An answer is a frame.)
LEMMA ContentTyped ==
  ASSUME TypeOK, NEW e \in Ecus, NEW r \in Tasks
  PROVE  [service |-> r.service, content |-> Content(e, r)] \in Frames
  <1>1. CASE r.service = "dtc"
    BY <1>1 DEF Content, Frames
  <1>2. CASE r.service = "vin"
    BY <1>2, UdsBoundsAssumption DEF Content, Frames, Services
  <1>3. CASE r.service = "obd"
    BY <1>3 DEF Content, Frames, Tasks, Services
  <1>4. CASE r.service \in {"session", "clear"}
    BY <1>4 DEF Content, Frames, Services
  <1> QED BY <1>1, <1>2, <1>3, <1>4 DEF Tasks, Services

\* and the answers of the ECUs.
LEMMA TypeAnswers ==
  ASSUME TypeOK, NEW e \in Ecus, Grants(e) \/ Denies(e)
  PROVE  TypeOK'
  <1>1. Tail(asked[e]) \in Seq(Tasks) /\ Head(asked[e]) \in Tasks
    BY HeadTail DEF TypeOK, Grants, Denies, Ready
  <1>2. asked' \in [Ecus -> Seq(Tasks)]
    BY <1>1 DEF TypeOK, Grants, Denies
  <1>3. queue' \in Seq(Frames)
    <2>1. [service |-> "refused", content |-> {}] \in Frames
      BY DEF Frames
    <2> QED BY <1>1, <2>1, Queued, ContentTyped DEF Grants, Denies
  <1>4. stored' \in [Ecus -> BOOLEAN]
    BY DEF TypeOK, Grants, Denies
  <1>5. past' \in [before : SUBSET Ecus, quiet : BOOLEAN, heard : BOOLEAN,
                   cleared : BOOLEAN]
    BY DEF TypeOK, Grants, Denies
  <1> QED BY <1>2, <1>3, <1>4, <1>5
    DEF TypeOK, Grants, Denies, settings, channelVars, callVars, resultVars

\* The types are kept by every step.
LEMMA TypeNext ==
  ASSUME TypeOK, [Next]_vars
  PROVE  TypeOK'
  <1>1. CASE Connect \/ Disconnect
    BY <1>1, TypeChannels
  <1>2. ASSUME NEW o \in LibraryOps \cup ReaderOps, Begin(o) PROVE TypeOK'
    BY <1>2, TypeBegin
  <1>3. CASE Step
    BY <1>3, TypeFilters, TypeWrites, TypeEnds, TypeCollects, TypeFollows, TypeReturns
    DEF Step, Advances
  <1>4. CASE Meets
    BY <1>4, TypeWrites, TypeEnds, TypeAnswers DEF Meets
  <1>5. CASE UNCHANGED vars
    BY <1>5
    DEF TypeOK, vars, settings, channelVars, ecuVars, callVars, resultVars
  <1> QED BY <1>1, <1>2, <1>3, <1>4, <1>5 DEF Next

----------------------------------------------------------------------------
(* Filters.                                                                *)

\* A channel that is marked has been asked for all its filters, or is the one
\* an operation is asking for them now.
FilterInv ==
  /\ \A c \in initialised :
       \/ tried[c] = 0..(FilterPairs - 1)
       \/ c = channel /\ At("filter")
  /\ At("filter") => 0..(request.filter - 1) \subseteq tried[channel]
  /\ At("filter") \/ At("collect") => channel \in initialised
  /\ At("start") => request.filter = 0

\* No step leaves a marked channel without them.
LEMMA FilterNext ==
  ASSUME TypeOK, FilterInv, [Next]_vars
  PROVE  FilterInv'
  <1>1. CASE Connect \/ Disconnect
    BY <1>1
    DEF FilterInv, Connect, Disconnect, At, Idle, callVars
  <1>2. ASSUME NEW o \in LibraryOps \cup ReaderOps, Begin(o) PROVE FilterInv'
    BY <1>2 DEF FilterInv, Begin, Asks, Request, At, Idle, channelVars
  <1>3. CASE MarksChannel
    BY <1>3, UdsBoundsAssumption DEF TypeOK, Requests, FilterInv, MarksChannel, Goes, At, Idle
  <1>4. CASE StartsFilter
    BY <1>4, UdsBoundsAssumption DEF TypeOK, Requests, FilterInv, StartsFilter, At, Idle
  <1>5. CASE Writes
    BY <1>5, UdsBoundsAssumption
    DEF TypeOK, Requests, FilterInv, Writes, MayWrite, Goes, At, Idle, channelVars
  <1>6. CASE WriteFails \/ ReadFails \/ TimesOut \/ Deadline \/ Collects
    BY <1>6, UdsBoundsAssumption
    DEF TypeOK, Requests, FilterInv, WriteFails, ReadFails, TimesOut, Deadline, Collects,
        MayWrite, Collecting, Done, At, Idle, channelVars
  <1>7. CASE SessionDone \/ RetriesPhysically \/ TriesObd \/ Returns
    BY <1>7
    DEF FilterInv, SessionDone, RetriesPhysically, TriesObd, Returns, Answered,
        Asks, Request, At, Idle, channelVars
  <1>8. ASSUME NEW e \in Ecus, Grants(e) \/ Denies(e) PROVE FilterInv'
    BY <1>8 DEF FilterInv, Grants, Denies, At, Idle, channelVars, callVars
  <1>9. CASE UNCHANGED vars
    BY <1>9 DEF FilterInv, At, Idle, vars, channelVars, callVars
  <1> QED BY <1>1, <1>2, <1>3, <1>4, <1>5, <1>6, <1>7, <1>8, <1>9
       DEF Next, Step, Advances, Meets

----------------------------------------------------------------------------
(* Asking again.                                                           *)

\* What was heard since a functional request is among the responses, and a
\* request that asks again finds nothing was heard.
HeardInv ==
  /\ request.id = "functional" /\ (At("collect") \/ At("done")) /\ past.heard
       => responses # <<>>
  /\ request.id = "physical" /\ primary = "functional" /\ (At("start") \/ At("filter"))
       => ~past.heard

\* Every step keeps the silence known: a functional request that ended with
\* an error and responses counts as heard.
LEMMA HeardNext ==
  ASSUME TypeOK, HeardInv, [Next]_vars
  PROVE  HeardInv'
  <1>1. CASE Connect \/ Disconnect
    BY <1>1 DEF HeardInv, Connect, Disconnect, At, Idle, callVars
  <1>2. ASSUME NEW o \in LibraryOps \cup ReaderOps, Begin(o) PROVE HeardInv'
    BY <1>2 DEF TypeOK, HeardInv, Begin, Asks, Request, At, Idle
  <1>3. CASE MarksChannel \/ StartsFilter
    BY <1>3
    DEF TypeOK, Requests, HeardInv, MarksChannel, StartsFilter, Goes, At, Idle, settings
  <1>4. CASE Writes
    BY <1>4 DEF TypeOK, Requests, HeardInv, Writes, Goes, At, Idle
  <1>5. CASE WriteFails
    BY <1>5 DEF TypeOK, Requests, HeardInv, WriteFails, Done, At, Idle
  <1>6. CASE ReadFails \/ TimesOut \/ Deadline
    BY <1>6
    DEF TypeOK, Requests, HeardInv, ReadFails, TimesOut, Deadline, Collecting, Done,
        At, Idle
  <1>7. CASE Collects
    <2>1. Head(queue) \in Frames
      BY <1>7, HeadTail DEF TypeOK, Collects
    <2>2. responses' # <<>>
      BY <1>7, <2>1, Kept DEF Collects
    <2> QED BY <1>7, <2>2
         DEF TypeOK, Requests, HeardInv, Collects, Collecting, Done, At, Idle
  <1>8. CASE SessionDone \/ TriesObd \/ Returns
    BY <1>8
    DEF TypeOK, HeardInv, SessionDone, TriesObd, Returns, Asks, Request, At, Idle, settings
  <1>9. CASE RetriesPhysically
    BY <1>9
    DEF TypeOK, HeardInv, RetriesPhysically, Answered, Missed, Asks, Request, At, Idle
  <1>10. ASSUME NEW e \in Ecus, Grants(e) \/ Denies(e) PROVE HeardInv'
    BY <1>10 DEF TypeOK, HeardInv, Grants, Denies, At, Idle, callVars, settings
  <1>11. CASE UNCHANGED vars
    BY <1>11 DEF HeardInv, At, Idle, vars, settings, callVars
  <1> QED BY <1>1, <1>2, <1>3, <1>4, <1>5, <1>6, <1>7, <1>8, <1>9, <1>10, <1>11
       DEF Next, Step, Advances, Meets

----------------------------------------------------------------------------
(* What responses mean.                                                    *)

\* An operation asks for its service only, but for the fallback of the VIN.
ServiceInv ==
  ~Idle => \/ request.service \in {"session", ServiceOf(op)}
           \/ request.service = "obd" /\ ServiceOf(op) = "vin"

\* Which request follows which keeps to it.
LEMMA ServiceNext ==
  ASSUME TypeOK, ServiceInv, [Next]_vars
  PROVE  ServiceInv'
  <1>1. CASE Connect \/ Disconnect
    BY <1>1 DEF ServiceInv, Connect, Disconnect, Idle, callVars
  <1>2. ASSUME NEW o \in LibraryOps \cup ReaderOps, Begin(o) PROVE ServiceInv'
    BY <1>2 DEF ServiceInv, Begin, Asks, Request, Idle
  <1>3. CASE Step
    <2>1. CASE MarksChannel \/ StartsFilter \/ Writes \/ Collects \/ TimesOut
      BY <1>3, <2>1
      DEF TypeOK, Requests, ServiceInv, MarksChannel, StartsFilter, Writes, Collects,
          TimesOut, Goes, Done, Idle
    <2>2. CASE SessionDone \/ RetriesPhysically \/ Returns
      BY <1>3, <2>2
      DEF ServiceInv, SessionDone, RetriesPhysically, Returns, Asks, Request, Idle
    <2>3. CASE TriesObd
      BY <1>3, <2>3 DEF ServiceInv, TriesObd, WantsObd, ServiceOf, Asks, Request, Idle
    <2> QED BY <1>3, <2>1, <2>2, <2>3 DEF Step, Advances
  <1>4. CASE Deadline \/ WriteFails \/ ReadFails
    BY <1>4 DEF TypeOK, Requests, ServiceInv, Deadline, WriteFails, ReadFails, Done, Idle
  <1>5. ASSUME NEW e \in Ecus, Grants(e) \/ Denies(e) PROVE ServiceInv'
    BY <1>5 DEF ServiceInv, Grants, Denies, Idle, callVars
  <1>6. CASE UNCHANGED vars
    BY <1>6 DEF ServiceInv, Idle, vars, callVars
  <1> QED BY <1>1, <1>2, <1>3, <1>4, <1>5, <1>6 DEF Next, Meets

\* The frames of a sequence that tell something a property is about.
Clears(s) == \E i \in 1..Len(s) : s[i].service = "clear"
CodesIn(s) == {e \in Ecus : \E i \in 1..Len(s) : s[i].service = "dtc" /\ e \in s[i].content}

\* Nothing is collected but what was queued, and nothing queued but what an
\* ECU sent.
LEMMA Collected ==
  ASSUME TypeOK, Collects
  PROVE  /\ Clears(responses') => Clears(responses) \/ Clears(queue)
         /\ Clears(queue') => Clears(queue)
         /\ CodesIn(responses') \subseteq CodesIn(responses) \cup CodesIn(queue)
         /\ CodesIn(queue') \subseteq CodesIn(queue)
  <1>1. /\ Head(queue) \in Frames /\ Head(queue) = queue[1]
        /\ Len(queue) \in Nat \ {0} /\ Len(Tail(queue)) = Len(queue) - 1
        /\ \A i \in 1..Len(Tail(queue)) : Tail(queue)[i] = queue[i + 1]
    BY HeadTail DEF TypeOK, Collects
  <1>2. /\ Len(Append(responses, Head(queue))) = Len(responses) + 1
        /\ Append(responses, Head(queue))[Len(responses) + 1] = Head(queue)
        /\ \A i \in 1..Len(responses) : Append(responses, Head(queue))[i] = responses[i]
    BY <1>1, AppendProperties DEF TypeOK
  <1>3. Len(responses) \in Nat
    BY DEF TypeOK
  <1>4. \A i \in 1..Len(responses') :
          \/ i \in 1..Len(responses) /\ responses'[i] = responses[i]
          \/ 1 \in 1..Len(queue) /\ responses'[i] = queue[1]
    BY <1>1, <1>2, <1>3 DEF Collects, Keep
  <1>5. \A i \in 1..Len(queue') : i + 1 \in 1..Len(queue) /\ queue'[i] = queue[i + 1]
    BY <1>1 DEF Collects
  <1> QED BY <1>4, <1>5 DEF Clears, CodesIn

\* A frame that is sent adds its own meaning to the queue.
LEMMA Sent ==
  ASSUME TypeOK, NEW service, NEW content, Sends(service, content),
         [service |-> service, content |-> content] \in Frames
  PROVE  /\ Clears(queue') => Clears(queue) \/ service = "clear"
         /\ service # "dtc" => CodesIn(queue') \subseteq CodesIn(queue)
         /\ CodesIn(queue') \subseteq CodesIn(queue) \cup content
  <1> DEFINE f == [service |-> service, content |-> content]
  <1>1. /\ Len(queue) \in Nat /\ Len(queue') = Len(queue) + 1
        /\ queue'[Len(queue) + 1] = f
        /\ \A i \in 1..Len(queue) : queue'[i] = queue[i]
    BY AppendProperties DEF TypeOK, Sends
  <1>2. \A i \in 1..Len(queue') :
          \/ i \in 1..Len(queue) /\ queue'[i] = queue[i]
          \/ queue'[i].service = service /\ queue'[i].content = content
    BY <1>1
  <1> QED BY <1>2 DEF Clears, CodesIn

\* An ECU sends a clear response only when it clears, and a code only while
\* it is stored.
LEMMA SentByEcu ==
  ASSUME TypeOK, NEW e \in Ecus, Grants(e) \/ Denies(e)
  PROVE  /\ Clears(queue') => Clears(queue) \/ (Grants(e) /\ Head(asked[e]).service = "clear")
         /\ CodesIn(queue') \subseteq CodesIn(queue) \cup {x \in Ecus : stored[x]}
  <1>1. CASE Denies(e)
    <2>1. [service |-> "refused", content |-> {}] \in Frames
      BY DEF Frames
    <2>2. Sends("refused", {})
      BY <1>1 DEF Denies
    <2>3. Clears(queue') => Clears(queue) \/ "refused" = "clear"
      BY <2>1, <2>2, Sent
    <2>4. CodesIn(queue') \subseteq CodesIn(queue)
      BY <2>1, <2>2, Sent
    <2> QED BY <2>3, <2>4
  <1>2. CASE Grants(e)
    <2> DEFINE r == Head(asked[e])
    <2>1. r \in Tasks
      BY <1>2, HeadTail DEF TypeOK, Grants, Ready
    <2>2. [service |-> r.service, content |-> Content(e, r)] \in Frames
      BY <2>1, ContentTyped
    <2>3. Sends(r.service, Content(e, r))
      BY <1>2 DEF Grants
    <2>4. r.service = "dtc" => Content(e, r) \subseteq {x \in Ecus : stored[x]}
      BY DEF Content
    <2> HIDE DEF r
    <2>5. /\ Clears(queue') => Clears(queue) \/ r.service = "clear"
          /\ r.service # "dtc" => CodesIn(queue') \subseteq CodesIn(queue)
          /\ CodesIn(queue') \subseteq CodesIn(queue) \cup Content(e, r)
      BY <2>2, <2>3, Sent
    <2> QED BY <1>2, <2>4, <2>5 DEF r
  <1> QED BY <1>1, <1>2

\* While an operation clears and began with nothing on its way, a clear
\* response is there only if an ECU has cleared.
ClearInv ==
  ~Idle /\ ServiceOf(op) = "clear" /\ past.quiet /\ ~past.cleared
    => ~Clears(queue) /\ ~Clears(responses)

\* While it reads, only codes that were stored when it began are stored, on
\* their way or collected.
FreshInv ==
  ~Idle /\ ServiceOf(op) = "dtc" =>
    /\ {e \in Ecus : stored[e]} \subseteq past.before
    /\ past.quiet => CodesIn(queue) \cup CodesIn(responses) \subseteq past.before

\* Both together.
MeaningInv == ClearInv /\ FreshInv

\* Late answers apart, what the frames mean stays within what has happened.
LEMMA MeaningNext ==
  ASSUME TypeOK, MeaningInv, [Next]_vars
  PROVE  MeaningInv'
  <1>0. ~Clears(<<>>) /\ CodesIn(<<>>) = {}
    BY DEF Clears, CodesIn
  <1>1. CASE Connect \/ Disconnect
    BY <1>1 DEF MeaningInv, ClearInv, FreshInv, Connect, Disconnect, Idle, callVars
  <1>2. ASSUME NEW o \in LibraryOps \cup ReaderOps, Begin(o) PROVE MeaningInv'
    <2>1. /\ responses' = <<>> /\ queue' = queue /\ stored' = stored /\ op' = o
          /\ past'.quiet => queue = <<>>
          /\ past'.before = {e \in Ecus : ServiceOf(o) = "dtc" /\ stored[e]}
      BY <1>2 DEF Begin, Asks, ecuVars
    <2> QED BY <1>0, <2>1 DEF MeaningInv, ClearInv, FreshInv, Clears, CodesIn
  <1>3. CASE MarksChannel \/ StartsFilter \/ TimesOut \/ Deadline \/ ReadFails
    BY <1>3
    DEF MeaningInv, ClearInv, FreshInv, Clears, CodesIn, MarksChannel, StartsFilter,
        TimesOut, Deadline, ReadFails, Idle, ecuVars
  <1>4. CASE Writes \/ WriteFails
    BY <1>4
    DEF TypeOK, MeaningInv, ClearInv, FreshInv, Clears, CodesIn, Writes, WriteFails, Idle,
        ecuVars
  <1>5. CASE Collects
    <2>1. /\ op' = op /\ stored' = stored /\ past'.quiet = past.quiet
          /\ past'.cleared = past.cleared /\ past'.before = past.before
      BY <1>5 DEF TypeOK, Collects
    <2> QED BY <1>5, <2>1, Collected DEF MeaningInv, ClearInv, FreshInv, Idle
  <1>6. CASE SessionDone \/ RetriesPhysically \/ TriesObd \/ Returns
    <2>1. /\ responses' = <<>> /\ queue' = queue /\ stored' = stored /\ past' = past
          /\ op' \in {op, "none"}
      BY <1>6 DEF SessionDone, RetriesPhysically, TriesObd, Returns, Asks, ecuVars
    <2> QED BY <1>0, <2>1 DEF MeaningInv, ClearInv, FreshInv, Idle, Clears, CodesIn
  <1>7. ASSUME NEW e \in Ecus, Grants(e) \/ Denies(e) PROVE MeaningInv'
    <2>1. /\ op' = op /\ responses' = responses
          /\ past'.quiet = past.quiet /\ past'.before = past.before
          /\ past.cleared => past'.cleared
          /\ \A x \in Ecus : stored'[x] => stored[x]
          /\ Grants(e) /\ Head(asked[e]).service = "clear" /\ ~Idle /\ ServiceOf(op) = "clear"
               => past'.cleared
      BY <1>7 DEF TypeOK, Grants, Denies, callVars, Idle
    <2>2. CodesIn(responses') = CodesIn(responses) /\ Clears(responses') = Clears(responses)
      BY <2>1 DEF CodesIn, Clears
    <2> QED BY <1>7, <2>1, <2>2, SentByEcu DEF MeaningInv, ClearInv, FreshInv, Idle
  <1>8. CASE UNCHANGED vars
    BY <1>8 DEF MeaningInv, ClearInv, FreshInv, Clears, CodesIn, Idle, vars, callVars,
       ecuVars
  <1> QED BY <1>1, <1>2, <1>3, <1>4, <1>5, <1>6, <1>7, <1>8
       DEF Next, Step, Advances, Meets

\* What a return with no error says: a clear has happened, and the codes
\* were stored when the operation began.
LEMMA ReturnsMeaning ==
  ASSUME TypeOK, ServiceInv, MeaningInv, Returns, ret'.status = STATUS_NOERROR, past.quiet
  PROVE  /\ ServiceOf(op) = "clear" => past.cleared
         /\ ServiceOf(op) = "dtc" => dtcs' \subseteq past.before
  <1>1. Outcome = STATUS_NOERROR /\ ~Idle /\ request.service # "session"
    BY DEF Returns, Answered, At
  <1>2. request.status = STATUS_NOERROR
    BY <1>1 DEF Outcome
  <1>3. ASSUME ServiceOf(op) = "clear" PROVE past.cleared
    <2>1. request.service = "clear"
      BY <1>1, <1>3 DEF ServiceInv
    <2>2. ClearedIn(responses)
      BY <1>1, <1>2, <2>1 DEF Outcome, Status, STATUS_NOERROR, ERR_FAILED
    <2> QED BY <1>1, <1>3, <2>2 DEF ClearedIn, Clears, MeaningInv, ClearInv, TypeOK
  <1>4. ASSUME ServiceOf(op) = "dtc" PROVE dtcs' \subseteq past.before
    <2>1. request.service = "dtc"
      BY <1>1, <1>4 DEF ServiceInv
    <2>2. dtcs' = DtcsIn(responses)
      BY <1>2, <2>1 DEF Returns, Parses, Parsing
    <2>3. DtcsIn(responses) \cap Ecus \subseteq CodesIn(responses)
      BY DEF DtcsIn, Answers, Seen, CodesIn
    <2>4. dtcs' \subseteq Ecus
      BY TypeParses DEF Returns
    <2> QED BY <1>1, <1>4, <2>2, <2>3, <2>4 DEF MeaningInv, FreshInv
  <1> QED BY <1>3, <1>4

\* What the last operation returned.
ResultInv == ClearMeansCleared /\ DtcsAreFresh

\* What was returned stays true until the next operation begins.
LEMMA ResultNext ==
  ASSUME TypeOK, ServiceInv, MeaningInv, ResultInv, [Next]_vars
  PROVE  ResultInv'
  <1>1. CASE Connect \/ Disconnect
    BY <1>1
    DEF ResultInv, ClearMeansCleared, DtcsAreFresh, Ended, Connect, Disconnect, Idle,
        callVars, resultVars
  <1>2. ASSUME NEW o \in LibraryOps \cup ReaderOps, Begin(o) PROVE ResultInv'
    BY <1>2
    DEF ResultInv, ClearMeansCleared, DtcsAreFresh, Ended, Begin, Idle, LibraryOps,
        ReaderOps
  <1>3. CASE Returns
    <2>1. past' = past /\ ret'.op = op
      BY <1>3 DEF Returns
    <2>2. op \in {"clearDtcs", "runClearCycle"} => ServiceOf(op) = "clear"
      BY DEF ServiceOf
    <2>3. op \in {"readActiveDtcs", "runReadCycle"} => ServiceOf(op) = "dtc"
      BY DEF ServiceOf
    <2> QED BY <1>3, <2>1, <2>2, <2>3, ReturnsMeaning
         DEF ResultInv, ClearMeansCleared, DtcsAreFresh, Ended
  <1>4. CASE Step /\ ~Returns
    <2>1. op' = op /\ ~Idle
      BY <1>4
      DEF Step, Advances, MarksChannel, StartsFilter, Writes, MayWrite, Collects,
          TimesOut, Collecting, SessionDone, RetriesPhysically, TriesObd, Answered, At
    <2> QED BY <2>1 DEF ResultInv, ClearMeansCleared, DtcsAreFresh, Ended, Idle
  <1>5. CASE Deadline \/ WriteFails \/ ReadFails
    <2>1. op' = op /\ ~Idle
      BY <1>5 DEF Deadline, WriteFails, ReadFails, MayWrite, Collecting, At
    <2> QED BY <2>1 DEF ResultInv, ClearMeansCleared, DtcsAreFresh, Ended, Idle
  <1>6. ASSUME NEW e \in Ecus, Grants(e) \/ Denies(e) PROVE ResultInv'
    <2>1. /\ op' = op /\ ret' = ret /\ dtcs' = dtcs
          /\ past'.quiet = past.quiet /\ past'.before = past.before
          /\ past.cleared => past'.cleared
      BY <1>6 DEF TypeOK, Grants, Denies, callVars, resultVars
    <2> QED BY <2>1 DEF ResultInv, ClearMeansCleared, DtcsAreFresh, Ended, Idle
  <1>7. CASE UNCHANGED vars
    BY <1>7
    DEF ResultInv, ClearMeansCleared, DtcsAreFresh, Ended, Idle, vars, callVars,
        resultVars
  <1> QED BY <1>1, <1>2, <1>3, <1>4, <1>5, <1>6, <1>7 DEF Next, Meets

----------------------------------------------------------------------------
(* The client, whoever calls it.                                           *)

\* The inductive invariant of the client.
ClientInv ==
  TypeOK /\ FilterInv /\ HeardInv /\ ServiceInv /\ MeaningInv /\ ResultInv

\* The client's invariant holds at the start,
LEMMA ClientInit == Init => ClientInv
  <1> SUFFICES ASSUME Init PROVE ClientInv
    OBVIOUS
  <1>1. Idle
    BY DEF Init, Idle
  <1>2. FilterInv /\ HeardInv /\ ServiceInv /\ MeaningInv
    BY <1>1
    DEF Init, FilterInv, HeardInv, ServiceInv, MeaningInv, ClearInv, FreshInv, At
  <1>3. ResultInv
    BY DEF Init, ResultInv, ClearMeansCleared, DtcsAreFresh, Ended
  <1> QED BY <1>2, <1>3, TypeInit DEF ClientInv

\* every step keeps it,
LEMMA ClientNext == ClientInv /\ [Next]_vars => ClientInv'
  BY TypeNext, FilterNext, HeardNext, ServiceNext, MeaningNext, ResultNext
  DEF ClientInv

\* and so it always holds, whoever calls the client.
LEMMA ClientAlways == Spec => []ClientInv
  BY ClientInit, ClientNext, PTL DEF Spec

\* The reader and every other caller use the client as Spec lets them.
THEOREM CallersObey == ReaderSpec => Spec
  <1>1. ReaderInit => Init
    BY DEF ReaderInit
  <1>2. [ReaderNext]_<<vars, readerVars>> => [Next]_vars
    <2> SUFFICES ASSUME [ReaderNext]_<<vars, readerVars>> PROVE [Next]_vars
      OBVIOUS
    <2>1. CASE Application
      BY <2>1 DEF Application, Next
    <2>2. CASE Main
      BY <2>2
      DEF Main, ReaderOpens, ReaderConnects, ConnectFails, ReaderClears, ReaderReadsVin,
          ReaderReads, Runs, ReaderHasVin, ReaderIsDone, ReaderGoesOn, ReaderCleansUp,
          ReaderOps, Next
    <2>3. CASE Client \/ Meets
      BY <2>3 DEF Client, Next
    <2> QED BY <2>1, <2>2, <2>3 DEF ReaderNext
  <1> QED BY <1>1, <1>2, PTL DEF ReaderSpec, Spec

\* The types of the client, under main and under every other application.
THEOREM TypeCorrect == ReaderSpec => []TypeOK
  BY CallersObey, ClientAlways, PTL DEF ClientInv

\* The client never waits for responses on a channel it has not asked all
\* filters for (ensureObdFlowControlFilters).
THEOREM AsksForFiltersFirst == ReaderSpec => []FiltersFirst
  <1>1. ClientInv => FiltersFirst
    BY DEF ClientInv, FilterInv, FiltersFirst, At
  <1> QED BY <1>1, CallersObey, ClientAlways, PTL

\* A functional request to which anything was heard is not sent again to the
\* engine controller (readActiveDtcs, readVehicleVin).
THEOREM RetriesOnSilence == ReaderSpec => []RetryOnlyOnSilence
  <1>1. ClientInv => RetryOnlyOnSilence
    BY DEF ClientInv, HeardInv, RetryOnlyOnSilence, MayWrite, At
  <1> QED BY <1>1, CallersObey, ClientAlways, PTL

\* A clear that is reported has cleared (clearDtcs, runClearCycle).
THEOREM ClearsAreReal == ReaderSpec => []ClearMeansCleared
  BY CallersObey, ClientAlways, PTL DEF ClientInv, ResultInv

\* Codes that are reported were stored when the read began (readActiveDtcs,
\* runReadCycle).
THEOREM ReadsAreFresh == ReaderSpec => []DtcsAreFresh
  BY CallersObey, ClientAlways, PTL DEF ClientInv, ResultInv

----------------------------------------------------------------------------
(* main.                                                                   *)

\* An exit code 0 is the result of a read or clear that succeeded.
ExitIsTrue ==
  exit = 0 => ret.status = STATUS_NOERROR /\ ret.op \in {"runReadCycle", "runClearCycle"}

\* What the places of main say.
MainInv ==
  /\ main \in {"open", "connect", "exited"} => channel = NoChannel
  /\ main \in {"open", "exited"} => ~device
  /\ main \in {"open", "connect", "clear", "cycle", "read", "cleanup", "exited"} => Idle
  /\ main = "reading" => op = "runReadCycle" \/ (Idle /\ ret.op = "runReadCycle")
  /\ main = "clearing" => op = "runClearCycle" \/ (Idle /\ ret.op = "runClearCycle")
  /\ main \in {"cleanup", "exited"} => ExitIsTrue

\* They hold at the start,
LEMMA MainInit == ReaderInit => MainInv
  BY DEF ReaderInit, Init, MainInv, Idle

\* and every step keeps them; a step of the client is one of an operation
\* that main waits for.
LEMMA MainNext == MainInv /\ [ReaderNext]_<<vars, readerVars>> => MainInv'
  <1> SUFFICES ASSUME MainInv, [ReaderNext]_<<vars, readerVars>> PROVE MainInv'
    OBVIOUS
  <1>1. CASE Application
    BY <1>1 DEF MainInv, Application
  <1>2. CASE Main
    <2>1. CASE ReaderOpens
      BY <2>1
      DEF MainInv, ReaderOpens, Goto, Leaves, ExitIsTrue, Idle, vars, channelVars, callVars,
          resultVars, STATUS_NOERROR, ERR_FAILED
    <2>2. CASE ReaderConnects
      BY <2>2 DEF MainInv, ReaderConnects, Connect, Goto, Idle, callVars
    <2>3. CASE ConnectFails
      BY <2>3
      DEF MainInv, ConnectFails, Goto, Leaves, ExitIsTrue, Idle, vars, channelVars, callVars,
          resultVars, STATUS_NOERROR, ERR_FAILED
    <2>4. CASE ReaderClears \/ ReaderReadsVin \/ ReaderReads
      BY <2>4
      DEF MainInv, ReaderClears, ReaderReadsVin, ReaderReads, Runs, Begin, Goto
    <2>5. CASE ReaderHasVin \/ ReaderGoesOn
      BY <2>5 DEF MainInv, ReaderHasVin, ReaderGoesOn, Goto, Idle, vars, callVars
    <2>6. CASE ReaderIsDone
      BY <2>6
      DEF MainInv, ReaderIsDone, Goto, Leaves, ExitIsTrue, Idle, vars, callVars, resultVars
    <2>7. CASE ReaderCleansUp
      BY <2>7
      DEF MainInv, ReaderCleansUp, Disconnect, Goto, ExitIsTrue, Idle, callVars, resultVars
    <2> QED BY <1>2, <2>1, <2>2, <2>3, <2>4, <2>5, <2>6, <2>7 DEF Main
  <1>3. CASE Client
    <2>1. ~Idle /\ channel' = channel
      BY <1>3
      DEF Client, Step, Advances, MarksChannel, StartsFilter, Writes, MayWrite, Collects,
          TimesOut, Collecting, SessionDone, RetriesPhysically, TriesObd, Returns, Answered, At,
          channelVars
    <2>2. op' = op \/ (op' = "none" /\ ret'.op = op)
      BY <1>3
      DEF Client, Step, Advances, MarksChannel, StartsFilter, Writes, Collects, TimesOut,
          SessionDone, RetriesPhysically, TriesObd, Returns
    <2>3. UNCHANGED readerVars
      BY <1>3 DEF Client
    <2> QED BY <2>1, <2>2, <2>3 DEF MainInv, Idle, readerVars
  <1>4. CASE Meets /\ UNCHANGED readerVars
    <2>1. op' = op /\ ret' = ret /\ channel' = channel
      BY <1>4
      DEF Meets, Deadline, WriteFails, ReadFails, Grants, Denies, callVars, resultVars,
          channelVars
    <2> QED BY <1>4, <2>1 DEF MainInv, ExitIsTrue, Idle, readerVars
  <1>5. CASE UNCHANGED <<vars, readerVars>>
    BY <1>5
    DEF MainInv, ExitIsTrue, Idle, vars, channelVars, callVars, resultVars, readerVars
  <1> QED BY <1>1, <1>2, <1>3, <1>4, <1>5 DEF ReaderNext

\* However main ends, it has closed what it opened, and its exit code 0 means
\* that the read or clear succeeded.
THEOREM MainExitsClean == ReaderSpec => []ExitsClean
  <1>1. MainInv => ExitsClean
    BY DEF MainInv, ExitIsTrue, ExitsClean
  <1> QED BY <1>1, MainInit, MainNext, PTL DEF ReaderSpec

============================================================================
