--------------------------- MODULE SerialSession ---------------------------
(***************************************************************************)
(* The session half of the serial transport: opening the port, the         *)
(* Mini-VCI bootstrap with its baud and control-line fallback, and the     *)
(* recovery of a lost device, which runs in the middle of whatever read or *)
(* write met the error, the bootstrap's own included.  The code recurses   *)
(* there (writeBytes -> tryRecoverDevice -> bootstrapWithFallback ->       *)
(* bootstrap -> writeBytes), so the model keeps the call stack.            *)
(*                                                                         *)
(* Packet contents and the receive buffer are not modelled here.  Every    *)
(* packet the driver writes starts with the ICVM magic.                    *)
(***************************************************************************)
EXTENDS Naturals, Sequences, J2534

CONSTANTS
  Desired,        \* MVCI_SERIAL_BAUD
  AltBauds,       \* the rates the fallback tries, in order
  Supported,      \* rates configurePort can set on this platform
  Preferred,      \* the control-line mode of the environment
  AltModes,       \* the alternates, in order; empty when the user pinned one
  Attempts,       \* handshakes bootstrap() tries (3 in the code)
  Stage1Strict,   \* MVCI_MINIVCI_STAGE1_STRICT
  PostStrict,     \* MVCI_MINIVCI_POST_BOOTSTRAP_STRICT
  PortRefuses,    \* whether tcsetattr may fail on an open descriptor
  MaxQuiet,       \* bound on the quiet intervals of one read
  MaxFaults       \* bound on what goes wrong: lost replies, errors, losses

VARIABLES
  config,         \* [bootstrap, strict]: the two MVCI_MINIVCI_BOOTSTRAP toggles
  adapter,        \* [baud, modes]: where the adapter answers
  open,           \* open_
  fdOpen,         \* fd_ >= 0
  miniReady,      \* miniReady_
  currentBaud,    \* currentBaud_, 0 before the first configurePort
  port,           \* [baud, mode]: what the line is really set to
  booted,         \* the line setting at which the adapter, reached through
                  \* this descriptor, acknowledged a handshake; or NoBaud
  stack,          \* call stack of the running call
  ret,            \* what the callee that just returned answered
  result,         \* status of the last finished call
  faults          \* faults so far

environment == <<config, adapter>>
session == <<open, fdOpen, miniReady, booted>>
line == <<currentBaud, port>>
vars == <<environment, session, line, stack, ret, result, faults>>

NoBaud == 0
Fallback9600 == 9600

Modes == {"assert", "none", "pulse"}
Bauds == {Desired} \cup {AltBauds[i] : i \in 1..Len(AltBauds)}

\* A rate is never 0, which currentBaud_ has when the port is closed.
ASSUME SessionAssumption ==
  /\ Desired \in Nat \ {NoBaud} /\ AltBauds \in Seq(Nat \ {NoBaud})
  /\ Preferred \in Modes /\ AltModes \in Seq(Modes)
  /\ Attempts \in Nat \ {0} /\ MaxQuiet \in Nat /\ MaxFaults \in Nat

\* configurePort() succeeds with any rate, and sets 9600 when it is neither a
\* standard one nor settable by IOSSIOSPEED.
LineSpeed(baud) == IF baud \in Supported THEN baud ELSE Fallback9600

Answers == fdOpen /\ port.baud = adapter.baud /\ port.mode \in adapter.modes

Top == stack[Len(stack)]
Callers == SubSeq(stack, 1, Len(stack) - 1)
Replace(frame) == Append(Callers, frame)

Init ==
  /\ config \in [bootstrap : BOOLEAN, strict : BOOLEAN]
  /\ adapter \in [baud : Bauds, modes : {{m} : m \in Modes}]
  /\ open = FALSE /\ fdOpen = FALSE /\ miniReady = FALSE
  /\ currentBaud = NoBaud
  /\ port = [baud |-> NoBaud, mode |-> "assert"]
  /\ booted = NoBaud
  /\ stack = <<>>
  /\ ret = "none"
  /\ result = STATUS_NOERROR
  /\ faults = 0

Fault == faults < MaxFaults /\ faults' = faults + 1

----------------------------------------------------------------------------
(* Calling bootstrapWithFallback: the configured rate, the preferred mode. *)

FallbackFrame(cfg) ==
  [proc |-> "Fallback", cfg |-> cfg, mode |-> Preferred,
   modes |-> AltModes, bauds |-> AltBauds]

BootstrapFrame == [proc |-> "Bootstrap", attempt |-> 1, stage |-> 1, lost |-> FALSE]

\* configurePort(baud), which may fail and then changes nothing.
Configure(baud, mode) ==
  \/ /\ currentBaud' = baud
     /\ port' = [baud |-> LineSpeed(baud), mode |-> mode]
     /\ UNCHANGED faults
  \/ /\ PortRefuses /\ Fault
     /\ port' = [port EXCEPT !.mode = mode]
     /\ UNCHANGED currentBaud

CallFallback(frames, cfg) ==
  /\ stack' = frames \o <<FallbackFrame(cfg), BootstrapFrame>>
  /\ ret' = "none"
  /\ Configure(cfg, Preferred)

Return(answer) ==
  /\ stack' = Callers
  /\ ret' = answer

\* The outermost call returns s to the driver.
Finish(s) ==
  /\ stack' = <<>>
  /\ ret' = "none"
  /\ result' = s

----------------------------------------------------------------------------
(* bootstrap(): the three-stage handshake and the post-bootstrap script.   *)

Stages == <<"write", "ack", "write", "ack", "write", "ack", "post">>

\* What one exchange of the running frame with the port may come to.  A reply
\* may be missing because the adapter does not listen here, because the device
\* was lost and recovered since the request, or by a fault.  A "failed"
\* exchange with the descriptor open is an error recovery does not take, or a
\* second one in the same readChunk.
Exchange(o, needsReply) ==
  \/ o = "done" /\ fdOpen /\ (needsReply => Answers) /\ UNCHANGED faults
  \/ o = "silent" /\ needsReply /\ fdOpen /\ (~Answers \/ Top.lost) /\ UNCHANGED faults
  \/ o = "silent" /\ needsReply /\ Answers /\ Fault
  \/ o = "failed" /\ ~fdOpen /\ UNCHANGED faults
  \/ o = "failed" /\ fdOpen /\ Fault

\* A stage-1 acknowledgement and the script may fail when not strict.
Tolerated(stage) == \/ stage = 2 /\ ~Stage1Strict
                    \/ stage = 7 /\ ~PostStrict

\* A loss during a request also costs its acknowledgement.
NextStage == [Top EXCEPT !.stage = @ + 1, !.lost = @ /\ Stages[Top.stage] = "write"]

\* Mutant: an attempt is counted twice.
RestartCountsTwice == [Top EXCEPT !.attempt = @ + 2, !.stage = 1, !.lost = FALSE]

\* Mutant: the attempt is not counted.
RestartSameAttempt == [Top EXCEPT !.stage = 1, !.lost = FALSE]

RestartAttempt == [Top EXCEPT !.attempt = @ + 1, !.stage = 1, !.lost = FALSE]

BootstrapStep ==
  /\ stack # <<>> /\ Top.proc = "Bootstrap"
  /\ \E o \in {"done", "silent", "failed"} :
       /\ Exchange(o, Stages[Top.stage] # "write")
       /\ \/ /\ o = "done" \/ Tolerated(Top.stage)
             /\ Top.stage < 7
             /\ stack' = Replace(NextStage)
             /\ UNCHANGED <<ret, miniReady, booted>>
          \/ /\ o = "done" \/ Tolerated(Top.stage)
             /\ Top.stage = 7
             /\ miniReady' = TRUE
             /\ booted' = IF fdOpen THEN port.baud ELSE NoBaud
             /\ Return("ok")
          \/ /\ o # "done" /\ ~Tolerated(Top.stage)
             /\ Top.attempt < Attempts
             /\ stack' = Replace(RestartAttempt)
             /\ UNCHANGED <<ret, miniReady, booted>>
          \/ /\ o # "done" /\ ~Tolerated(Top.stage)
             /\ Top.attempt = Attempts
             /\ Return("fail")
             /\ UNCHANGED <<miniReady, booted>>
  /\ UNCHANGED <<environment, open, fdOpen, line, result>>

----------------------------------------------------------------------------
(* bootstrapWithFallback(): rates within a mode, then modes.               *)

InFallback == stack # <<>> /\ Top.proc = "Fallback"

\* The preferred mode worked: the port goes back to the configured rate,
\* whatever rate it worked at.
FallbackFirstMode ==
  /\ InFallback /\ ret = "ok" /\ Top.mode = Preferred
  /\ IF fdOpen THEN Configure(Top.cfg, port.mode) ELSE UNCHANGED <<line, faults>>
  /\ Return("ok")
  /\ UNCHANGED <<environment, session, result>>

\* An alternate mode worked: the port keeps the rate it worked at.
FallbackAlternateMode ==
  /\ InFallback /\ ret = "ok" /\ Top.mode # Preferred
  /\ Return("ok")
  /\ UNCHANGED <<environment, session, line, result, faults>>

\* The descriptor went: nothing more to try.
FallbackDescriptorGone ==
  /\ InFallback /\ ret = "fail" /\ ~fdOpen
  /\ Return("fail")
  /\ UNCHANGED <<environment, session, line, result, faults>>

\* The rate the port has already is passed over, and so is one it refuses.
FallbackNextBaud ==
  /\ InFallback /\ ret = "fail" /\ fdOpen /\ Top.bauds # <<>>
  /\ LET alt == Head(Top.bauds)
         next == [Top EXCEPT !.bauds = Tail(@)]
     IN \/ /\ \/ alt = currentBaud /\ UNCHANGED faults
              \/ alt # currentBaud /\ PortRefuses /\ Fault
           /\ stack' = Replace(next)
           /\ UNCHANGED <<ret, line>>
        \/ /\ alt # currentBaud
           /\ stack' = Replace(next) \o <<BootstrapFrame>>
           /\ ret' = "none"
           /\ currentBaud' = alt
           /\ port' = [port EXCEPT !.baud = LineSpeed(alt)]
           /\ UNCHANGED faults
  /\ UNCHANGED <<environment, session, result>>

\* Mutant: the rates are not gone through again under the new mode.
ModeFrameSpent(alt) == [Top EXCEPT !.modes = Tail(@), !.mode = alt]

ModeFrame(alt) == [Top EXCEPT !.modes = Tail(@), !.mode = alt, !.bauds = AltBauds]

FallbackNextMode ==
  /\ InFallback /\ ret = "fail" /\ fdOpen
  /\ Top.bauds = <<>> /\ Top.modes # <<>>
  /\ LET alt == Head(Top.modes)
     IN \/ /\ alt = Preferred
           /\ stack' = Replace([Top EXCEPT !.modes = Tail(@)])
           /\ UNCHANGED <<ret, line, faults>>
        \/ /\ alt # Preferred
           /\ stack' = Replace(ModeFrame(alt)) \o <<BootstrapFrame>>
           /\ ret' = "none"
           /\ Configure(Top.cfg, alt)
  /\ UNCHANGED <<environment, session, result>>

\* Mutant: the port stays at the last rate tried.
FallbackGivesUpWhereItIs ==
  /\ InFallback /\ ret = "fail" /\ fdOpen
  /\ Top.bauds = <<>> /\ Top.modes = <<>>
  /\ Return("fail")
  /\ UNCHANGED <<environment, session, line, result, faults>>

FallbackGivesUp ==
  /\ InFallback /\ ret = "fail" /\ fdOpen
  /\ Top.bauds = <<>> /\ Top.modes = <<>>
  /\ Configure(Top.cfg, port.mode)
  /\ Return("fail")
  /\ UNCHANGED <<environment, session, result>>

----------------------------------------------------------------------------
(* tryRecoverDevice(): a loss met by any exchange.                         *)

AtExchange ==
  /\ stack # <<>> /\ fdOpen
  /\ \/ Top.proc \in {"Bootstrap", "Read"}
     \/ Top.proc = "Write" /\ Top.step # "boot"

\* The node does not come back, or cannot be configured.
LoseForGood ==
  /\ AtExchange /\ Fault
  /\ fdOpen' = FALSE
  /\ booted' = NoBaud
  /\ stack' = Replace([Top EXCEPT !.lost = TRUE])
  /\ UNCHANGED <<environment, open, miniReady, line, ret, result>>

\* Mutant: the recovery only reopens and configures the port.
ResumeUnbooted == Replace([Top EXCEPT !.lost = TRUE])

\* What runs after the port is back: a bootstrap at the rate the port had,
\* when bootstrapping is on, and then the exchange again.
Resume ==
  LET interrupted == Replace([Top EXCEPT !.lost = TRUE])
  IN IF config.bootstrap
     THEN interrupted \o <<[proc |-> "Recover"], FallbackFrame(currentBaud),
                           BootstrapFrame>>
     ELSE interrupted

\* Mutant: the ready flag outlives the descriptor.
NewDescriptorStillReady == booted' = NoBaud /\ UNCHANGED miniReady

\* A new descriptor: no handshake has been acknowledged through it.
NewDescriptor == booted' = NoBaud /\ miniReady' = FALSE

\* The node is back under a new descriptor.
Recover ==
  /\ AtExchange /\ Fault
  /\ NewDescriptor
  /\ port' = [baud |-> LineSpeed(currentBaud),
              mode |-> IF config.bootstrap THEN Preferred ELSE "assert"]
  /\ stack' = Resume
  /\ UNCHANGED <<environment, open, fdOpen, currentBaud, ret, result>>

\* The bootstrap inside the recovery is over: retry the exchange, or close
\* the descriptor and fail it.
RecoverReturns ==
  /\ stack # <<>> /\ Top.proc = "Recover" /\ ret # "none"
  /\ ret' = "none"
  /\ stack' = Callers
  /\ \/ /\ ret = "ok"
        /\ UNCHANGED <<fdOpen, booted>>
     \/ /\ ret = "fail"
        /\ fdOpen' = FALSE
        /\ booted' = NoBaud
  /\ UNCHANGED <<environment, open, miniReady, line, result, faults>>

----------------------------------------------------------------------------
(* open() and close().                                                     *)

Idle == stack = <<>>

\* close() resets the session.
Closed ==
  /\ open' = FALSE /\ fdOpen' = FALSE /\ miniReady' = FALSE
  /\ currentBaud' = NoBaud /\ booted' = NoBaud

\* close() runs first; then the node does not open or is not configured.
OpenFails ==
  /\ Idle /\ Fault
  /\ Closed
  /\ Finish(ERR_FAILED)
  /\ UNCHANGED <<environment, port>>

OpenStarts ==
  /\ Idle
  /\ open' = TRUE /\ fdOpen' = TRUE /\ miniReady' = FALSE /\ booted' = NoBaud
  /\ currentBaud' = Desired
  /\ UNCHANGED <<environment, faults>>
  /\ \/ /\ ~config.bootstrap
        /\ port' = [baud |-> LineSpeed(Desired), mode |-> "assert"]
        /\ Finish(STATUS_NOERROR)
     \/ /\ config.bootstrap
        /\ port' = [baud |-> LineSpeed(Desired), mode |-> Preferred]
        /\ stack' = <<[proc |-> "Open", retried |-> FALSE],
                      FallbackFrame(Desired), BootstrapFrame>>
        /\ ret' = "none"
        /\ UNCHANGED result

InOpen == stack # <<>> /\ Top.proc = "Open"

\* The first bootstrap lost the descriptor: reopen it and try once more.
OpenRetries ==
  /\ InOpen /\ ret = "fail" /\ ~fdOpen /\ ~Top.retried
  /\ fdOpen' = TRUE
  /\ NewDescriptor
  /\ CallFallback(<<[proc |-> "Open", retried |-> TRUE]>>, Desired)
  /\ UNCHANGED <<environment, open, result>>

\* Or fail to reopen it.
OpenReopenFails ==
  /\ InOpen /\ ret = "fail" /\ ~fdOpen /\ ~Top.retried
  /\ Fault
  /\ stack' = Replace([Top EXCEPT !.retried = TRUE])
  /\ UNCHANGED <<environment, session, line, ret, result>>

\* Mutant: the second bootstrap is taken to have worked.
RejectsFirstOnly == ret = "fail" /\ config.strict /\ ~Top.retried

\* A failed bootstrap rejects the node only when strict.
Rejects == ret = "fail" /\ config.strict

OpenReturns ==
  /\ InOpen /\ ret # "none"
  /\ ret = "ok" \/ fdOpen \/ Top.retried
  /\ \/ ~Rejects /\ Finish(STATUS_NOERROR) /\ UNCHANGED <<session, currentBaud>>
     \/ Rejects /\ Finish(ERR_FAILED) /\ Closed
  /\ UNCHANGED <<environment, port, faults>>

Close ==
  /\ Idle /\ open
  /\ Closed
  /\ UNCHANGED <<environment, port, stack, ret, result, faults>>

----------------------------------------------------------------------------
(* write(): bootstrap on demand, refresh the session, send the packet.     *)

WriteFrame(step) == [proc |-> "Write", step |-> step, lost |-> FALSE]

WriteRefused ==
  /\ Idle
  /\ \/ ~open \/ ~fdOpen
     \/ ~miniReady /\ ~config.bootstrap
  /\ Finish(ERR_NOT_INITIALIZED)
  /\ UNCHANGED <<environment, session, line, faults>>

WriteStarts ==
  /\ Idle /\ open /\ fdOpen
  /\ \/ /\ miniReady
        /\ stack' = <<WriteFrame("refresh")>>
        /\ UNCHANGED <<ret, line, faults>>
     \/ /\ ~miniReady /\ config.bootstrap
        /\ CallFallback(<<WriteFrame("boot")>>, currentBaud)
  /\ UNCHANGED <<environment, session, result>>

InWrite(step) == stack # <<>> /\ Top.proc = "Write" /\ Top.step = step

WriteBootReturns ==
  /\ InWrite("boot") /\ ret # "none"
  /\ \/ /\ ret = "fail"
        /\ Finish(ERR_NOT_INITIALIZED)
     \/ /\ ret = "ok"
        /\ stack' = Replace(WriteFrame("refresh"))
        /\ ret' = "none"
        /\ UNCHANGED result
  /\ UNCHANGED <<environment, session, line, faults>>

\* The tickle and the keepalive: nobody looks at how they went.
WriteRefresh ==
  /\ InWrite("refresh")
  /\ \E o \in {"done", "silent", "failed"} : Exchange(o, TRUE)
  /\ stack' = Replace(WriteFrame("packet"))
  /\ UNCHANGED <<environment, session, line, ret, result>>

WritePacket ==
  /\ InWrite("packet")
  /\ \/ Exchange("done", FALSE) /\ Finish(STATUS_NOERROR)
     \/ /\ Exchange("failed", FALSE)
        /\ Finish(IF fdOpen \/ Top.lost THEN ERR_FAILED ELSE ERR_NOT_INITIALIZED)
  /\ UNCHANGED <<environment, session, line>>

----------------------------------------------------------------------------
(* read(): chunks, and a tickle when the line is quiet.                    *)

ReadFrame(step, quiet) ==
  [proc |-> "Read", step |-> step, quiet |-> quiet, lost |-> FALSE]

\* The deadline is so many quiet intervals away.
ReadStarts ==
  /\ Idle
  /\ \/ /\ open /\ fdOpen
        /\ \E quiet \in 1..MaxQuiet : stack' = <<ReadFrame("chunk", quiet)>>
        /\ UNCHANGED <<ret, result>>
     \/ /\ ~open \/ ~fdOpen
        /\ Finish(ERR_NOT_INITIALIZED)
  /\ UNCHANGED <<environment, session, line, faults>>

InRead(step) == stack # <<>> /\ Top.proc = "Read" /\ Top.step = step

\* Bytes that end the read, a quiet interval, or an error.
ReadChunk ==
  /\ InRead("chunk")
  /\ \/ Exchange("done", FALSE) /\ Finish(STATUS_NOERROR)
     \/ /\ fdOpen /\ ~miniReady /\ UNCHANGED faults
        /\ IF Top.quiet = 1
           THEN Finish(ERR_TIMEOUT)
           ELSE /\ stack' = Replace(ReadFrame("chunk", Top.quiet - 1))
                /\ UNCHANGED <<ret, result>>
     \/ /\ fdOpen /\ miniReady /\ UNCHANGED faults
        /\ stack' = Replace(ReadFrame("tickle", Top.quiet))
        /\ UNCHANGED <<ret, result>>
     \/ /\ Exchange("failed", FALSE)
        /\ Finish(IF fdOpen \/ Top.lost THEN ERR_FAILED ELSE ERR_NOT_INITIALIZED)
  /\ UNCHANGED <<environment, session, line>>

\* A quiet interval refreshes the session, then the deadline is looked at.
ReadTickle ==
  /\ InRead("tickle")
  /\ \E o \in {"done", "silent", "failed"} : Exchange(o, TRUE)
  /\ IF Top.quiet = 1
     THEN Finish(ERR_TIMEOUT)
     ELSE /\ stack' = Replace(ReadFrame("chunk", Top.quiet - 1))
          /\ UNCHANGED <<ret, result>>
  /\ UNCHANGED <<environment, session, line>>

----------------------------------------------------------------------------
\* A new call of the driver.
Call == OpenFails \/ OpenStarts \/ Close \/ WriteRefused \/ WriteStarts \/ ReadStarts

\* The running call goes on.
Step ==
  \/ BootstrapStep
  \/ FallbackFirstMode \/ FallbackAlternateMode \/ FallbackDescriptorGone
  \/ FallbackNextBaud \/ FallbackNextMode \/ FallbackGivesUp
  \/ LoseForGood \/ Recover \/ RecoverReturns
  \/ OpenRetries \/ OpenReopenFails \/ OpenReturns
  \/ WriteBootReturns \/ WriteRefresh \/ WritePacket
  \/ ReadChunk \/ ReadTickle

Next == Call \/ Step

Spec == Init /\ [][Next]_vars

\* A call that has begun is carried on by the thread that made it.
FairSpec == Spec /\ WF_vars(Step)

----------------------------------------------------------------------------
(* Properties.                                                             *)

Fallbacks ==
  [proc : {"Fallback"}, cfg : Bauds, mode : Modes, modes : Seq(Modes), bauds : Seq(Bauds)]
Bootstraps == [proc : {"Bootstrap"}, attempt : 1..Attempts, stage : 1..7, lost : BOOLEAN]
Opens == [proc : {"Open"}, retried : BOOLEAN]
Writes == [proc : {"Write"}, step : {"boot", "refresh", "packet"}, lost : BOOLEAN]
Reads == [proc : {"Read"}, step : {"chunk", "tickle"}, quiet : 1..MaxQuiet, lost : BOOLEAN]
Frames == Fallbacks \cup Bootstraps \cup [proc : {"Recover"}] \cup Opens \cup Writes \cup Reads

TypeOK ==
  /\ config \in [bootstrap : BOOLEAN, strict : BOOLEAN]
  /\ adapter \in [baud : Bauds, modes : SUBSET Modes]
  /\ open \in BOOLEAN /\ fdOpen \in BOOLEAN /\ miniReady \in BOOLEAN
  /\ currentBaud \in Bauds \cup {NoBaud}
  /\ port \in [baud : Bauds \cup {NoBaud, Fallback9600}, mode : Modes]
  /\ booted \in Bauds \cup {NoBaud, Fallback9600}
  /\ stack \in Seq(Frames)
  /\ ret \in {"none", "ok", "fail"}
  /\ result \in Statuses
  /\ faults \in 0..MaxFaults

\* The ready flag is about this descriptor: while the port is open and the
\* flag set, the adapter has acknowledged a handshake through the descriptor
\* in use, however many recoveries ran inside each other.
ReadyMeansBooted == fdOpen /\ miniReady => booted # NoBaud

\* After a recovery the bootstrap is re-run before any ICVM packet goes out: a
\* write that succeeds does so through a descriptor that has been
\* bootstrapped, even if the device was lost half way through the packet.
PacketOnlyInSession ==
  [][InWrite("packet") /\ stack' = <<>> /\ result' = STATUS_NOERROR
       => fdOpen /\ miniReady /\ booted # NoBaud]_vars

\* With MVCI_MINIVCI_BOOTSTRAP_STRICT an open that succeeds has its bootstrap
\* reported as done, at the first or the second try, and one that fails leaves
\* nothing open for a later write to bootstrap.  Success does not promise a
\* descriptor: it may have been lost in the script after the bootstrap, whose
\* failure is tolerated (see ClosedBootstrapRetried).
StrictOpen ==
  [][InOpen /\ stack' = <<>> /\ config.strict
       => \/ result' = STATUS_NOERROR /\ miniReady'
          \/ result' = ERR_FAILED /\ ~open' /\ ~fdOpen' /\ ~miniReady']_vars

\* The fallback is exhaustive: while nothing has gone wrong, it gives up only
\* on an adapter that answers at none of the rates and modes it may try.
GaveUp == ret = "fail" /\ stack # <<>> /\ Top.proc \in {"Open", "Write"}

FallbackFindsAdapter ==
  GaveUp /\ faults = 0
    => \/ adapter.baud \notin {LineSpeed(b) : b \in Bauds}
       \/ adapter.modes \cap ({Preferred} \cup {AltModes[i] : i \in 1..Len(AltModes)})
            = {}

\* The configured rate is not lost: when a call ends with the port open, the
\* port is at the configured rate, or in session at the rate the adapter was
\* found at, however many recoveries ran inside each other on the way (as
\* long as the open port takes every rate it is given).
ConfiguredRateKept ==
  stack = <<>> /\ fdOpen
    => currentBaud = Desired \/ (miniReady /\ booted = port.baud)

\* Every call comes back, through any nesting of bootstraps and recoveries the
\* bounded faults can cause.
CallsReturn == (stack # <<>>) ~> (stack = <<>>)

\* What the README says of the rate fallback: the transport probes other rates
\* when the adapter does not answer at the configured one.  Then a port that
\* is ready between calls is at the rate at which the adapter answered.
ReadyAtProbedRate ==
  stack = <<>> /\ fdOpen /\ miniReady /\ faults = 0 => port.baud = booted

\* What the README says of MVCI_SERIAL_BAUD: the line is at that rate.
LineAtCurrentBaud ==
  fdOpen /\ currentBaud # NoBaud => port.baud = currentBaud

\* What the comment in open() says: when the first bootstrap closed the
\* descriptor, the node is reopened and the bootstrap tried once more.
ClosedBootstrapRetried ==
  [][InOpen /\ stack' = <<>> /\ ~fdOpen => Top.retried]_vars

============================================================================
