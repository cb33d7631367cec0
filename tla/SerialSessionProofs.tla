------------------------ MODULE SerialSessionProofs ------------------------
(***************************************************************************)
(* The serial session, for every list of rates and modes, every number of  *)
(* attempts and faults, and every depth of bootstraps and recoveries run   *)
(* inside each other: what each frame of the call stack may assume of the  *)
(* flags when it runs again.                                               *)
(*                                                                         *)
(* IInv has three parts.  The types; the shape of the stack (a bootstrap   *)
(* stands on the fallback that called it, a fallback on the open, write or *)
(* recovery that did, a recovery on the exchange it interrupts); and the   *)
(* flags.  Of these the one that carries the rest is that an answer "ok"   *)
(* comes with the ready flag: a recovery resets the flag, and the          *)
(* interrupted exchange runs again only after a bootstrap has set it.      *)
(*                                                                         *)
(* Two more invariants stand on it.  FaultlessInv says what a search has   *)
(* behind it, as long as nothing has gone wrong; RateInv what each frame   *)
(* on the stack is owed of the rate of the port.                           *)
(***************************************************************************)
EXTENDS SerialSession, SequenceTheorems, TLAPS

----------------------------------------------------------------------------
(* Frames and stacks.                                                      *)

\* A frame is of the kind its procedure says.
LEMMA FrameKinds ==
  ASSUME NEW f \in Frames
  PROVE  /\ f.proc \in {"Fallback", "Bootstrap", "Recover", "Open", "Write", "Read"}
         /\ f.proc = "Fallback" => f \in Fallbacks
         /\ f.proc = "Bootstrap" => f \in Bootstraps
         /\ f.proc = "Open" => f \in Opens
         /\ f.proc = "Write" => f \in Writes
         /\ f.proc = "Read" => f \in Reads
  BY DEF Frames, Fallbacks, Bootstraps, Opens, Writes, Reads

\* A frame that exchanges something with the port, and one that waits for the
\* frame it called.
Exchanges(f) == f.proc \in {"Bootstrap", "Read"} \/ (f.proc = "Write" /\ f.step # "boot")
Waits(f) == f.proc \in {"Open", "Recover"} \/ (f.proc = "Write" /\ f.step = "boot")

\* Who may be called by whom.
Stands(f, below) ==
  \/ f.proc = "Bootstrap" /\ below.proc = "Fallback"
  \/ f.proc = "Fallback" /\ Waits(below)
  \/ f.proc = "Recover" /\ Exchanges(below)
Bottom(f) == f.proc \in {"Open", "Write", "Read"}

Shaped(s) ==
  /\ s \in Seq(Frames)
  /\ \A i \in 1..Len(s) : IF i = 1 THEN Bottom(s[i]) ELSE Stands(s[i], s[i - 1])

Last(s) == s[Len(s)]
Popped(s) == SubSeq(s, 1, Len(s) - 1)

\* The frames below the last stay what they are.
LEMMA PoppedElements ==
  ASSUME NEW s, Shaped(s), s # <<>>
  PROVE  /\ Popped(s) \in Seq(Frames) /\ Len(Popped(s)) = Len(s) - 1
         /\ \A i \in 1..(Len(s) - 1) : Popped(s)[i] = s[i]
  <1> DEFINE n == Len(s) - 1
  <1>1. /\ n \in Nat /\ n + 1 = Len(s) /\ Popped(s) = SubSeq(s, 1, n)
        /\ \A i \in 1..n : s[i] \in Frames
    <2>1. s \in Seq(Frames) /\ Len(s) \in Nat /\ Len(s) > 0
      BY EmptySeq, LenProperties DEF Shaped
    <2>2. \A i \in 1..(Len(s) - 1) : s[i] \in Frames
      BY <2>1, ElementOfSeq
    <2> QED BY <2>1, <2>2 DEF Popped
  <1> HIDE DEF n
  <1>2. /\ SubSeq(s, 1, n) \in Seq(Frames)
        /\ Len(SubSeq(s, 1, n)) = IF 1 <= n THEN n - 1 + 1 ELSE 0
        /\ \A i \in 1..(n - 1 + 1) : SubSeq(s, 1, n)[i] = s[1 + i - 1]
    BY <1>1, SubSeqProperties
  <1>3. Len(Popped(s)) = n /\ \A i \in 1..n : Popped(s)[i] = s[i]
    BY <1>1, <1>2
  <1> QED BY <1>1, <1>2, <1>3 DEF n

\* A frame returns to the one that called it.
LEMMA PopShape ==
  ASSUME NEW s, Shaped(s), s # <<>>
  PROVE  /\ Shaped(Popped(s)) /\ Len(Popped(s)) = Len(s) - 1 /\ Len(s) \in Nat /\ Len(s) > 0
         /\ Last(s) \in Frames
         /\ Popped(s) = <<>> => Bottom(Last(s))
         /\ Popped(s) # <<>> => Stands(Last(s), Last(Popped(s))) /\ Last(Popped(s)) \in Frames
  <1>1. s \in Seq(Frames) /\ Len(s) \in Nat /\ Len(s) > 0
    BY EmptySeq, LenProperties DEF Shaped
  <1>2. /\ Popped(s) \in Seq(Frames) /\ Len(Popped(s)) = Len(s) - 1
        /\ \A i \in 1..(Len(s) - 1) : Popped(s)[i] = s[i]
    BY PoppedElements
  <1>3. Last(s) \in Frames
    BY <1>1, ElementOfSeq DEF Last
  <1>4. Shaped(Popped(s))
    <2>1. ASSUME NEW i \in 1..Len(Popped(s))
          PROVE  IF i = 1 THEN Bottom(Popped(s)[i]) ELSE Stands(Popped(s)[i], Popped(s)[i - 1])
      <3>1. i \in 1..Len(s) /\ Popped(s)[i] = s[i]
        BY <1>1, <1>2, <2>1
      <3>2. i # 1 => Popped(s)[i - 1] = s[i - 1]
        BY <1>1, <1>2, <2>1
      <3> QED BY <3>1, <3>2 DEF Shaped
    <2> QED BY <1>2, <2>1 DEF Shaped
  <1>5. ASSUME Popped(s) = <<>> PROVE Bottom(Last(s))
    <2>1. Len(s) = 1
      BY <1>1, <1>2, <1>5, EmptySeq
    <2> QED BY <2>1 DEF Shaped, Last
  <1>6. ASSUME Popped(s) # <<>>
        PROVE  Stands(Last(s), Last(Popped(s))) /\ Last(Popped(s)) \in Frames
    <2>1. Len(s) - 1 > 0
      BY <1>1, <1>2, <1>6, EmptySeq
    <2>2. Last(Popped(s)) = s[Len(s) - 1]
      BY <1>1, <1>2, <2>1 DEF Last
    <2>3. Stands(s[Len(s)], s[Len(s) - 1])
      BY <1>1, <2>1 DEF Shaped
    <2> QED BY <1>1, <2>1, <2>2, <2>3, ElementOfSeq DEF Last
  <1> QED BY <1>1, <1>2, <1>3, <1>4, <1>5, <1>6

\* A frame is called.
LEMMA PushShape ==
  ASSUME NEW s, Shaped(s), NEW f \in Frames,
         s = <<>> => Bottom(f), s # <<>> => Stands(f, Last(s))
  PROVE  /\ Shaped(Append(s, f)) /\ Append(s, f) # <<>>
         /\ Last(Append(s, f)) = f /\ Popped(Append(s, f)) = s
         /\ Len(Append(s, f)) = Len(s) + 1
         /\ s \o <<f>> = Append(s, f)
  <1>1. s \in Seq(Frames) /\ Len(s) \in Nat
    BY LenProperties DEF Shaped
  <1>2. /\ Append(s, f) \in Seq(Frames) /\ Len(Append(s, f)) = Len(s) + 1
        /\ \A i \in 1..Len(s) : Append(s, f)[i] = s[i]
        /\ Append(s, f)[Len(s) + 1] = f
    BY <1>1, AppendProperties
  <1>3. Append(s, f) # <<>>
    BY <1>1, <1>2, EmptySeq
  <1>4. ASSUME NEW i \in 1..Len(Append(s, f))
        PROVE  IF i = 1 THEN Bottom(Append(s, f)[i])
               ELSE Stands(Append(s, f)[i], Append(s, f)[i - 1])
    <2>1. CASE i \in 1..Len(s)
      <3>1. Append(s, f)[i] = s[i] /\ (i # 1 => Append(s, f)[i - 1] = s[i - 1])
        BY <1>1, <1>2, <2>1
      <3> QED BY <2>1, <3>1 DEF Shaped
    <2>2. CASE i = Len(s) + 1
      <3>1. CASE s = <<>>
        <4>1. i = 1
          BY <1>1, <2>2, <3>1, EmptySeq
        <4> QED BY <1>2, <2>2, <3>1, <4>1
      <3>2. CASE s # <<>>
        <4>1. Len(s) > 0
          BY <1>1, <3>2, EmptySeq
        <4>2. i # 1 /\ i - 1 = Len(s) /\ Append(s, f)[i - 1] = s[Len(s)]
          BY <1>1, <1>2, <2>2, <4>1
        <4> QED BY <1>2, <2>2, <3>2, <4>2 DEF Last
      <3> QED BY <3>1, <3>2
    <2> QED BY <1>1, <1>2, <2>1, <2>2
  <1>5. Popped(Append(s, f)) = s
    <2>1. /\ Popped(Append(s, f)) \in Seq(Frames) /\ Len(Popped(Append(s, f))) = Len(s)
          /\ \A i \in 1..Len(s) : Popped(Append(s, f))[i] = Append(s, f)[i]
      <3>1. \A i \in 1..Len(s) : Append(s, f)[i] \in Frames
        BY <1>1, <1>2, ElementOfSeq
      <3>2. Len(Append(s, f)) - 1 = Len(s) /\ 1 \in Int /\ Len(s) \in Int
        BY <1>1, <1>2
      <3> QED BY <1>1, <1>2, <3>1, <3>2, SubSeqProperties DEF Popped
    <2> QED BY <1>1, <1>2, <2>1, SeqEqual
  <1>6. s \o <<f>> = Append(s, f)
    BY <1>1, AppendIsConcat
  <1> QED BY <1>1, <1>2, <1>3, <1>4, <1>5, <1>6 DEF Shaped, Last

\* The running frame changes its locals.
LEMMA ReplaceShape ==
  ASSUME NEW s, Shaped(s), s # <<>>, NEW f \in Frames, f.proc = Last(s).proc
  PROVE  /\ Shaped(Append(Popped(s), f)) /\ Append(Popped(s), f) # <<>>
         /\ Last(Append(Popped(s), f)) = f
         /\ Popped(Append(Popped(s), f)) = Popped(s)
         /\ Len(Append(Popped(s), f)) = Len(s)
  <1>1. /\ Popped(s) = <<>> => Bottom(f)
        /\ Popped(s) # <<>> => Stands(f, Last(Popped(s)))
    BY PopShape DEF Bottom, Stands
  <1> QED BY <1>1, PopShape, PushShape

\* Two frames are called, one by the other.
LEMMA PushTwo ==
  ASSUME NEW s, Shaped(s), s # <<>>, NEW f \in Frames, NEW g \in Frames,
         Stands(f, Last(s)), Stands(g, f)
  PROVE  /\ Shaped(s \o <<f, g>>) /\ s \o <<f, g>> # <<>> /\ Last(s \o <<f, g>>) = g
  <1>1. /\ Shaped(Append(s, f)) /\ Append(s, f) # <<>> /\ Last(Append(s, f)) = f
        /\ s \o <<f>> = Append(s, f)
    BY PushShape
  <1>2. /\ Shaped(Append(Append(s, f), g)) /\ Append(Append(s, f), g) # <<>>
        /\ Last(Append(Append(s, f), g)) = g
    BY <1>1, PushShape
  <1>3. s \o <<f, g>> = Append(Append(s, f), g)
    <2>1. s \in Seq(Frames) /\ <<f>> \in Seq(Frames) /\ <<f, g>> = Append(<<f>>, g)
      BY DEF Shaped
    <2> QED BY <1>1, <2>1
  <1> QED BY <1>2, <1>3

----------------------------------------------------------------------------
(* The invariant.                                                          *)

\* Rates are not 0, nor is what the line is set to for one.
LEMMA Rates ==
  /\ Bauds \subseteq Nat \ {NoBaud} /\ Desired \in Bauds /\ AltBauds \in Seq(Bauds)
  /\ Preferred \in Modes /\ AltModes \in Seq(Modes) /\ "assert" \in Modes
  /\ \A b \in Bauds : LineSpeed(b) \in (Bauds \cup {Fallback9600}) \ {NoBaud}
  <1>1. Bauds \subseteq Nat \ {NoBaud} /\ Desired \in Bauds
    <2>1. \A i \in 1..Len(AltBauds) : AltBauds[i] \in Nat \ {NoBaud}
      BY SessionAssumption, ElementOfSeq
    <2> QED BY <2>1, SessionAssumption DEF Bauds
  <1>2. AltBauds \in Seq(Bauds)
    <2>1. /\ Len(AltBauds) \in Nat /\ AltBauds \in [1..Len(AltBauds) -> Nat \ {NoBaud}]
      BY SessionAssumption, LenProperties
    <2>2. \A i \in 1..Len(AltBauds) : AltBauds[i] \in Bauds
      BY DEF Bauds
    <2>3. AltBauds \in [1..Len(AltBauds) -> Bauds]
      BY <2>1, <2>2
    <2> QED BY <2>1, <2>3
  <1>3. \A b \in Bauds : LineSpeed(b) \in (Bauds \cup {Fallback9600}) \ {NoBaud}
    BY <1>1 DEF LineSpeed, Fallback9600, NoBaud
  <1>4. Preferred \in Modes /\ AltModes \in Seq(Modes) /\ "assert" \in Modes
    BY SessionAssumption DEF Modes
  <1> QED BY <1>1, <1>2, <1>3, <1>4

Talking == stack # <<>> /\ Top.proc = "Write" /\ Top.step # "boot"

\* What the frame on top of the stack says of the flags, and they of each other.
FlagInv ==
  /\ fdOpen \/ stack # <<>> => currentBaud \in Bauds /\ port.baud # NoBaud
  /\ ret = "ok" => miniReady
  /\ ~config.bootstrap => ~miniReady /\ (stack # <<>> => Top.proc = "Read")
  /\ stack = <<>> \/ Exchanges(Top) => ret = "none"
  /\ Talking /\ fdOpen => miniReady
  /\ ReadyMeansBooted

\* The types but for the stack.
FieldsOK ==
  /\ open \in BOOLEAN /\ fdOpen \in BOOLEAN /\ miniReady \in BOOLEAN
  /\ currentBaud \in Bauds \cup {NoBaud}
  /\ port \in [baud : Bauds \cup {NoBaud, Fallback9600}, mode : Modes]
  /\ booted \in Bauds \cup {NoBaud, Fallback9600}
  /\ ret \in {"none", "ok", "fail"} /\ result \in Statuses
FaultsOK ==
  /\ config \in [bootstrap : BOOLEAN, strict : BOOLEAN]
  /\ adapter \in [baud : Bauds, modes : SUBSET Modes]
  /\ faults \in 0..MaxFaults

IInv == FieldsOK /\ FaultsOK /\ Shaped(stack) /\ FlagInv

\* The type invariant is part of it.
LEMMA InvTyped == IInv => TypeOK
  BY DEF IInv, FieldsOK, FaultsOK, TypeOK, Shaped

\* It holds before the first call.
LEMMA InvInit == Init => IInv
  <1> SUFFICES ASSUME Init PROVE IInv
    OBVIOUS
  <1>1. /\ open = FALSE /\ fdOpen = FALSE /\ miniReady = FALSE /\ currentBaud = NoBaud
        /\ booted = NoBaud /\ stack = <<>> /\ ret = "none" /\ result = STATUS_NOERROR
        /\ faults = 0 /\ config \in [bootstrap : BOOLEAN, strict : BOOLEAN]
    BY DEF Init
  <1>2. port \in [baud : Bauds \cup {NoBaud, Fallback9600}, mode : Modes]
    BY Rates DEF Init
  <1>3. adapter \in [baud : Bauds, modes : SUBSET Modes]
    BY DEF Init
  <1>4. FieldsOK
    BY <1>1, <1>2 DEF FieldsOK, Statuses
  <1>5. FaultsOK
    BY <1>1, <1>3, SessionAssumption DEF FaultsOK
  <1>6. Shaped(stack)
    BY <1>1, EmptySeq DEF Shaped
  <1>7. FlagInv
    BY <1>1 DEF FlagInv, Talking, ReadyMeansBooted
  <1> QED BY <1>4, <1>5, <1>6, <1>7 DEF IInv

----------------------------------------------------------------------------
(* What each step makes of the stack.                                      *)

\* The frame that runs.
LEMMA Running ==
  ASSUME Shaped(stack), stack # <<>>
  PROVE  /\ Top = Last(stack) /\ Callers = Popped(stack) /\ Top \in Frames
         /\ Top.proc \in {"Fallback", "Bootstrap", "Recover", "Open", "Write", "Read"}
         /\ Top.proc = "Fallback" => Top \in Fallbacks
         /\ Top.proc = "Bootstrap" => Top \in Bootstraps
         /\ Top.proc = "Open" => Top \in Opens
         /\ Top.proc = "Write" => Top \in Writes
         /\ Top.proc = "Read" => Top \in Reads
  <1>1. Top = Last(stack) /\ Callers = Popped(stack) /\ Top \in Frames
    BY PopShape DEF Top, Last, Callers, Popped
  <1> QED BY <1>1, FrameKinds

\* It returns.
LEMMA Returned ==
  ASSUME Shaped(stack), stack # <<>>, stack' = Callers
  PROVE  /\ Shaped(stack')
         /\ Top.proc = "Bootstrap" => stack' # <<>> /\ Top'.proc = "Fallback"
         /\ Top.proc = "Fallback" => stack' # <<>> /\ Waits(Top')
         /\ Top.proc = "Recover" => stack' # <<>> /\ Exchanges(Top')
         /\ stack' # <<>> => Top' \in Frames
  <1>1. /\ Top = Last(stack) /\ Callers = Popped(stack) /\ Shaped(Popped(stack))
        /\ Popped(stack) = <<>> => Bottom(Top)
        /\ Popped(stack) # <<>> => /\ Stands(Top, Last(Popped(stack)))
                                   /\ Last(Popped(stack)) \in Frames
    BY Running, PopShape
  <1>2. Top' = Last(Popped(stack))
    BY <1>1 DEF Top, Last
  <1> QED BY <1>1, <1>2 DEF Bottom, Stands

\* It goes on.
LEMMA Replaced ==
  ASSUME Shaped(stack), stack # <<>>, NEW f \in Frames, f.proc = Top.proc,
         stack' = Replace(f)
  PROVE  Shaped(stack') /\ stack' # <<>> /\ Top' = f
  <1>1. /\ Top = Last(stack) /\ stack' = Append(Popped(stack), f)
    BY Running DEF Replace
  <1>2. Top' = Last(stack')
    BY DEF Top, Last
  <1> QED BY <1>1, <1>2, ReplaceShape

\* It goes on and calls another.
LEMMA ReplacedCalling ==
  ASSUME Shaped(stack), stack # <<>>, NEW f \in Frames, f.proc = Top.proc,
         NEW g \in Frames, Stands(g, f), stack' = Replace(f) \o <<g>>
  PROVE  Shaped(stack') /\ stack' # <<>> /\ Top' = g
  <1> DEFINE s == Append(Popped(stack), f)
  <1>1. Shaped(s) /\ s # <<>> /\ Last(s) = f /\ Replace(f) = s
    BY Running, ReplaceShape DEF Replace
  <1> HIDE DEF s
  <1>2. Shaped(Append(s, g)) /\ Append(s, g) # <<>> /\ Last(Append(s, g)) = g
        /\ stack' = Append(s, g)
    BY <1>1, PushShape
  <1>3. Top' = Last(stack')
    BY DEF Top, Last
  <1> QED BY <1>2, <1>3

\* The frames a call begins with.
LEMMA Starts ==
  /\ BootstrapFrame \in Frames /\ BootstrapFrame.proc = "Bootstrap"
  /\ \A cfg \in Bauds : /\ FallbackFrame(cfg) \in Frames
                        /\ FallbackFrame(cfg).proc = "Fallback"
  /\ [proc |-> "Recover"] \in Frames
  <1>1. BootstrapFrame \in Bootstraps
    BY SessionAssumption DEF BootstrapFrame, Bootstraps
  <1>2. \A cfg \in Bauds : FallbackFrame(cfg) \in Fallbacks
    BY Rates DEF FallbackFrame, Fallbacks
  <1> QED BY <1>1, <1>2 DEF Frames, Bootstraps, Fallbacks

\* A call of bootstrapWithFallback, which calls bootstrap.
LEMMA CallsFallback ==
  ASSUME NEW s, Shaped(s), s # <<>>, Waits(Last(s)), NEW cfg \in Bauds,
         stack' = s \o <<FallbackFrame(cfg), BootstrapFrame>>
  PROVE  Shaped(stack') /\ stack' # <<>> /\ Top'.proc = "Bootstrap"
  <1>1. Stands(FallbackFrame(cfg), Last(s)) /\ Stands(BootstrapFrame, FallbackFrame(cfg))
    BY Starts DEF Stands
  <1>2. Shaped(stack') /\ stack' # <<>> /\ Last(stack') = BootstrapFrame
    BY <1>1, Starts, PushTwo
  <1>3. Top' = Last(stack')
    BY DEF Top, Last
  <1> QED BY <1>2, <1>3, Starts

\* A call of the driver.
LEMMA One ==
  ASSUME NEW f \in Frames, Bottom(f)
  PROVE  Shaped(<<f>>) /\ <<f>> # <<>> /\ Last(<<f>>) = f
  <1>1. <<f>> \in Seq(Frames) /\ Len(<<f>>) = 1 /\ <<f>>[1] = f /\ <<f>> # <<>>
    OBVIOUS
  <1> QED BY <1>1 DEF Shaped, Last

\* With no call running there is nothing to say of the stack.
LEMMA Empty ==
  ASSUME stack' = <<>>
  PROVE  Shaped(stack')
  BY EmptySeq DEF Shaped

----------------------------------------------------------------------------
(* Each step keeps the shape of the stack and the flags.                   *)

StackInv == Shaped(stack) /\ FlagInv

\* bootstrap(): a handshake that is over has the line at the adapter's rate.
LEMMA BootstrapKeeps ==
  ASSUME IInv, BootstrapStep
  PROVE  StackInv'
  <1>1. /\ Shaped(stack) /\ stack # <<>> /\ Top \in Bootstraps /\ Top \in Frames
        /\ Top.proc = "Bootstrap" /\ ret = "none" /\ config.bootstrap
        /\ UNCHANGED <<config, fdOpen, currentBaud, port>>
    BY Running DEF IInv, FlagInv, BootstrapStep, Exchanges, environment, line
  <1>2. CASE \E f \in {NextStage, RestartAttempt} :
               /\ stack' = Replace(f) /\ f \in Bootstraps
               /\ UNCHANGED <<ret, miniReady, booted>>
    <2>1. PICK f \in Bootstraps : stack' = Replace(f)
      BY <1>2
    <2>2. f \in Frames /\ f.proc = "Bootstrap"
      BY DEF Frames, Bootstraps
    <2>3. Shaped(stack') /\ stack' # <<>> /\ Top' = f
      BY <1>1, <2>1, <2>2, Replaced
    <2>4. UNCHANGED <<ret, miniReady, booted>>
      BY <1>2
    <2> QED BY <1>1, <2>2, <2>3, <2>4
            DEF IInv, StackInv, FlagInv, Talking, ReadyMeansBooted, NoBaud, Bauds
  <1>3. CASE /\ miniReady' = TRUE /\ booted' = (IF fdOpen THEN port.baud ELSE NoBaud)
             /\ Return("ok")
    <2>1. Shaped(stack') /\ stack' # <<>> /\ Top'.proc = "Fallback"
      BY <1>1, <1>3, Returned DEF Return
    <2> QED BY <1>1, <1>3, <2>1
            DEF IInv, StackInv, FlagInv, Talking, ReadyMeansBooted, NoBaud, Bauds, Return,
                Exchanges
  <1>4. CASE Return("fail") /\ UNCHANGED <<miniReady, booted>>
    <2>1. Shaped(stack') /\ stack' # <<>> /\ Top'.proc = "Fallback"
      BY <1>1, <1>4, Returned DEF Return
    <2> QED BY <1>1, <1>4, <2>1
            DEF IInv, StackInv, FlagInv, Talking, ReadyMeansBooted, NoBaud, Bauds, Return,
                Exchanges
  <1>5. Top.stage < 7 => NextStage \in Bootstraps
    <2> SUFFICES ASSUME Top.stage < 7 PROVE NextStage \in Bootstraps
      OBVIOUS
    <2> DEFINE stage == Top.stage + 1
               lost == Top.lost /\ Stages[Top.stage] = "write"
    <2>1. stage \in 1..7 /\ lost \in BOOLEAN
      BY <1>1 DEF Bootstraps
    <2>2. NextStage = [Top EXCEPT !.stage = stage, !.lost = lost]
      BY DEF NextStage
    <2> HIDE DEF stage, lost
    <2> QED BY <1>1, <2>1, <2>2 DEF Bootstraps
  <1>6. Top.attempt < Attempts => RestartAttempt \in Bootstraps
    <2> SUFFICES ASSUME Top.attempt < Attempts PROVE RestartAttempt \in Bootstraps
      OBVIOUS
    <2> DEFINE attempt == Top.attempt + 1
    <2>1. attempt \in 1..Attempts /\ 1 \in 1..7
      BY <1>1, SessionAssumption DEF Bootstraps
    <2>2. RestartAttempt = [Top EXCEPT !.attempt = attempt, !.stage = 1, !.lost = FALSE]
      BY DEF RestartAttempt
    <2> HIDE DEF attempt
    <2> QED BY <1>1, <2>1, <2>2 DEF Bootstraps
  <1> QED BY <1>2, <1>3, <1>4, <1>5, <1>6 DEF BootstrapStep

\* What configurePort leaves is a rate, and the line at one.
LEMMA Configured ==
  ASSUME FieldsOK, NEW baud \in Bauds, NEW mode \in Modes, Configure(baud, mode)
  PROVE  /\ currentBaud' \in Bauds \cup {currentBaud}
         /\ port' \in [baud : Bauds \cup {NoBaud, Fallback9600}, mode : Modes]
         /\ port.baud # NoBaud => port'.baud # NoBaud
         /\ currentBaud \in Bauds => currentBaud' \in Bauds
         /\ ~PortRefuses => port'.baud # NoBaud
  <1>1. LineSpeed(baud) \in (Bauds \cup {Fallback9600}) \ {NoBaud}
    BY Rates
  <1>2. CASE currentBaud' = baud /\ port' = [baud |-> LineSpeed(baud), mode |-> mode]
    BY <1>1, <1>2
  <1>3. CASE /\ PortRefuses /\ port' = [port EXCEPT !.mode = mode]
             /\ UNCHANGED currentBaud
    BY <1>3 DEF FieldsOK
  <1> QED BY <1>2, <1>3 DEF Configure

\* bootstrapWithFallback() returns.
LEMMA FallbackReturns ==
  ASSUME IInv, \/ FallbackFirstMode \/ FallbackAlternateMode \/ FallbackDescriptorGone
               \/ FallbackGivesUp
  PROVE  StackInv'
  <1>1. /\ Shaped(stack) /\ stack # <<>> /\ Top \in Fallbacks /\ Top.proc = "Fallback"
        /\ UNCHANGED <<config, fdOpen, miniReady, booted>> /\ config.bootstrap
    BY Running DEF IInv, FlagInv, FallbackFirstMode, FallbackAlternateMode,
                   FallbackDescriptorGone, FallbackGivesUp, InFallback, environment, session
  <1>2. /\ stack' = Callers /\ ret' \in {"ok", "fail"} /\ (ret' = "ok" => ret = "ok")
    BY DEF FallbackFirstMode, FallbackAlternateMode, FallbackDescriptorGone,
           FallbackGivesUp, Return
  <1>3. Shaped(stack') /\ stack' # <<>> /\ Waits(Top')
    BY <1>1, <1>2, Returned
  <1>4. currentBaud' \in Bauds /\ port'.baud # NoBaud
    <2>1. CASE UNCHANGED line
      BY <1>1, <2>1 DEF line, IInv, FlagInv
    <2>2. CASE fdOpen /\ Configure(Top.cfg, port.mode)
      <3>1. Top.cfg \in Bauds /\ port.mode \in Modes
        BY <1>1 DEF Fallbacks, IInv, FieldsOK
      <3> QED BY <1>1, <2>2, <3>1, Configured DEF IInv, FlagInv
    <2> QED BY <2>1, <2>2 DEF FallbackFirstMode, FallbackAlternateMode,
                              FallbackDescriptorGone, FallbackGivesUp
  <1> QED BY <1>1, <1>2, <1>3, <1>4
          DEF IInv, StackInv, FlagInv, Talking, ReadyMeansBooted, Exchanges, Waits

\* Or it tries another rate or mode.
LEMMA FallbackTries ==
  ASSUME IInv, FallbackNextBaud \/ FallbackNextMode
  PROVE  StackInv'
  <1>1. /\ Shaped(stack) /\ stack # <<>> /\ Top \in Fallbacks /\ Top.proc = "Fallback"
        /\ UNCHANGED <<config, fdOpen, miniReady, booted>> /\ config.bootstrap /\ fdOpen
        /\ currentBaud \in Bauds /\ port.baud # NoBaud /\ ret = "fail"
    BY Running DEF IInv, FlagInv, FallbackNextBaud, FallbackNextMode, InFallback,
                   environment, session
  <1>2. /\ Top.bauds # <<>> => /\ Head(Top.bauds) \in Bauds
                               /\ [Top EXCEPT !.bauds = Tail(@)] \in Fallbacks
        /\ Top.modes # <<>> => /\ Head(Top.modes) \in Modes
                               /\ [Top EXCEPT !.modes = Tail(@)] \in Fallbacks
                               /\ ModeFrame(Head(Top.modes)) \in Fallbacks
    <2>1. ASSUME Top.bauds # <<>>
          PROVE  Head(Top.bauds) \in Bauds /\ [Top EXCEPT !.bauds = Tail(@)] \in Fallbacks
      <3>1. Top.bauds \in Seq(Bauds)
        BY <1>1 DEF Fallbacks
      <3>2. Head(Top.bauds) \in Bauds /\ Tail(Top.bauds) \in Seq(Bauds)
        BY <2>1, <3>1, HeadTailProperties
      <3> QED BY <1>1, <3>2 DEF Fallbacks
    <2>2. ASSUME Top.modes # <<>>
          PROVE  /\ Head(Top.modes) \in Modes /\ [Top EXCEPT !.modes = Tail(@)] \in Fallbacks
                 /\ ModeFrame(Head(Top.modes)) \in Fallbacks
      <3>1. Top.modes \in Seq(Modes)
        BY <1>1 DEF Fallbacks
      <3>2. Head(Top.modes) \in Modes /\ Tail(Top.modes) \in Seq(Modes)
        BY <2>2, <3>1, HeadTailProperties
      <3> QED BY <1>1, <3>2, Rates DEF Fallbacks, ModeFrame
    <2> QED BY <2>1, <2>2
  <1>3. \A f \in Fallbacks : f \in Frames /\ f.proc = "Fallback" /\ Stands(BootstrapFrame, f)
    BY Starts DEF Frames, Fallbacks, Stands
  <1>4. CASE \E f \in Fallbacks : stack' = Replace(f) /\ UNCHANGED <<ret, line>>
    <2>1. PICK f \in Fallbacks : stack' = Replace(f)
      BY <1>4
    <2>2. Shaped(stack') /\ stack' # <<>> /\ Top'.proc = "Fallback"
      BY <1>1, <1>3, <2>1, Replaced
    <2> QED BY <1>1, <1>4, <2>2
            DEF IInv, StackInv, FlagInv, Talking, ReadyMeansBooted, Exchanges, line
  <1>5. CASE /\ \E f \in Fallbacks : stack' = Replace(f) \o <<BootstrapFrame>>
             /\ ret' = "none" /\ currentBaud' \in Bauds /\ port'.baud # NoBaud
    <2>1. PICK f \in Fallbacks : stack' = Replace(f) \o <<BootstrapFrame>>
      BY <1>5
    <2>2. Shaped(stack') /\ stack' # <<>> /\ Top'.proc = "Bootstrap"
      BY <1>1, <1>3, <2>1, Starts, ReplacedCalling
    <2> QED BY <1>1, <1>5, <2>2
            DEF IInv, StackInv, FlagInv, Talking, ReadyMeansBooted, Exchanges
  <1>6. CASE FallbackNextBaud
    <2>1. CASE stack' = Replace([Top EXCEPT !.bauds = Tail(@)]) /\ UNCHANGED <<ret, line>>
      BY <1>2, <1>4, <1>6, <2>1 DEF FallbackNextBaud
    <2>2. CASE /\ stack' = Replace([Top EXCEPT !.bauds = Tail(@)]) \o <<BootstrapFrame>>
               /\ ret' = "none" /\ currentBaud' = Head(Top.bauds)
               /\ port' = [port EXCEPT !.baud = LineSpeed(Head(Top.bauds))]
      <3>1. Top.bauds # <<>>
        BY <1>6 DEF FallbackNextBaud
      <3>2. port'.baud # NoBaud
        BY <1>2, <2>2, <3>1, Rates DEF IInv, FieldsOK
      <3> QED BY <1>2, <1>5, <2>2, <3>1, <3>2
    <2> QED BY <1>6, <2>1, <2>2 DEF FallbackNextBaud
  <1>7. CASE FallbackNextMode
    <2>1. CASE stack' = Replace([Top EXCEPT !.modes = Tail(@)]) /\ UNCHANGED <<ret, line>>
      BY <1>2, <1>4, <1>7, <2>1 DEF FallbackNextMode
    <2>2. CASE /\ stack' = Replace(ModeFrame(Head(Top.modes))) \o <<BootstrapFrame>>
               /\ ret' = "none" /\ Configure(Top.cfg, Head(Top.modes))
      <3>1. Top.modes # <<>> /\ Top.cfg \in Bauds
        BY <1>1, <1>7 DEF FallbackNextMode, Fallbacks
      <3>2. currentBaud' \in Bauds /\ port'.baud # NoBaud
        BY <1>1, <1>2, <2>2, <3>1, Configured DEF IInv
      <3> QED BY <1>2, <1>5, <2>2, <3>1, <3>2
    <2> QED BY <1>7, <2>1, <2>2 DEF FallbackNextMode
  <1> QED BY <1>6, <1>7

\* Three frames called are one, and then two.
LEMMA OneThenTwo ==
  ASSUME NEW a, NEW b, NEW c
  PROVE  <<a, b, c>> = <<a>> \o <<b, c>>
  OBVIOUS

\* The exchange a loss interrupts.
LEMMA Interrupted ==
  ASSUME IInv, AtExchange
  PROVE  LET f == [Top EXCEPT !.lost = TRUE]
         IN /\ Shaped(stack) /\ stack # <<>> /\ Exchanges(Top) /\ ret = "none"
            /\ f \in Frames /\ f.proc = Top.proc /\ Exchanges(f)
            /\ Shaped(Replace(f)) /\ Replace(f) # <<>> /\ Last(Replace(f)) = f
  <1> DEFINE f == [Top EXCEPT !.lost = TRUE]
  <1>1. Shaped(stack) /\ stack # <<>> /\ Exchanges(Top) /\ ret = "none"
    BY DEF IInv, FlagInv, AtExchange, Exchanges
  <1>2. Top \in Bootstraps \/ Top \in Writes \/ Top \in Reads
    BY <1>1, Running DEF Exchanges
  <1>3. f \in Frames /\ f.proc = Top.proc /\ Exchanges(f)
    <2>1. CASE Top \in Bootstraps
      BY <2>1 DEF Bootstraps, Frames, Exchanges
    <2>2. CASE Top \in Writes
      BY <1>1, <2>2 DEF Writes, Frames, Exchanges
    <2>3. CASE Top \in Reads
      BY <2>3 DEF Reads, Frames, Exchanges
    <2> QED BY <1>2, <2>1, <2>2, <2>3
  <1> HIDE DEF f
  <1>4. Shaped(Replace(f)) /\ Replace(f) # <<>> /\ Last(Replace(f)) = f
    BY <1>1, <1>3, Running, ReplaceShape DEF Replace
  <1> QED BY <1>1, <1>3, <1>4 DEF f

\* The device does not come back: the descriptor is gone, whatever the flag.
LEMMA LossKeeps ==
  ASSUME IInv, LoseForGood
  PROVE  StackInv'
  <1> DEFINE f == [Top EXCEPT !.lost = TRUE]
  <1>1. /\ ret = "none" /\ f.proc = Top.proc /\ Shaped(stack')
        /\ stack' # <<>> /\ Last(stack') = f /\ fdOpen' = FALSE
        /\ UNCHANGED <<config, miniReady, ret>> /\ stack # <<>>
    BY Interrupted DEF LoseForGood, environment
  <1>2. Top' = f
    BY <1>1 DEF Top, Last
  <1>3. UNCHANGED <<currentBaud, port>>
    BY DEF LoseForGood, line
  <1> HIDE DEF f
  <1> QED BY <1>1, <1>2, <1>3 DEF IInv, StackInv, FlagInv, Talking, ReadyMeansBooted

\* The device is back: nothing is ready until the bootstrap above is over.
LEMMA RecoverKeeps ==
  ASSUME IInv, Recover
  PROVE  StackInv' /\ stack' # <<>>
  <1> DEFINE f == [Top EXCEPT !.lost = TRUE]
             r == [proc |-> "Recover"]
  <1>1. /\ Exchanges(Top) /\ ret = "none" /\ f.proc = Top.proc /\ Exchanges(f)
        /\ Shaped(Replace(f)) /\ Replace(f) # <<>> /\ Last(Replace(f)) = f
        /\ fdOpen /\ miniReady' = FALSE /\ stack # <<>>
        /\ UNCHANGED <<config, fdOpen, currentBaud, ret>>
    BY Interrupted DEF Recover, AtExchange, NewDescriptor, environment
  <1>2. currentBaud \in Bauds /\ port'.baud # NoBaud
    BY <1>1, Rates DEF Recover, IInv, FlagInv
  <1>3. CASE config.bootstrap
    <2>1. stack' = Replace(f) \o <<r, FallbackFrame(currentBaud), BootstrapFrame>>
      BY <1>3 DEF Recover, Resume
    <2> HIDE DEF f
    <2>2. r \in Frames /\ Waits(r) /\ Stands(r, f)
      BY <1>1, Starts DEF Waits, Stands
    <2> DEFINE s == Append(Replace(f), r)
    <2>3. /\ Shaped(s) /\ s # <<>> /\ Last(s) = r
          /\ stack' = s \o <<FallbackFrame(currentBaud), BootstrapFrame>>
      <3>1. FallbackFrame(currentBaud) \in Frames /\ BootstrapFrame \in Frames
        BY <1>2, Starts
      <3>2. Shaped(Replace(f)) /\ Replace(f) # <<>> /\ Stands(r, Last(Replace(f)))
        BY <1>1, <2>2
      <3> DEFINE t == Replace(f)
                 g == FallbackFrame(currentBaud)
      <3>3. /\ Shaped(t) /\ t # <<>> /\ Stands(r, Last(t)) /\ r \in Frames
            /\ g \in Frames /\ BootstrapFrame \in Frames
            /\ stack' = t \o <<r, g, BootstrapFrame>>
        BY <2>1, <2>2, <3>1, <3>2
      <3> SUFFICES /\ Shaped(Append(t, r)) /\ Append(t, r) # <<>> /\ Last(Append(t, r)) = r
                   /\ stack' = Append(t, r) \o <<g, BootstrapFrame>>
        OBVIOUS
      <3> HIDE DEF r, t, g
      <3>4. Shaped(Append(t, r)) /\ Append(t, r) # <<>> /\ Last(Append(t, r)) = r
        BY <3>3, PushShape
      <3>5. t \in Seq(Frames)
        BY <3>3 DEF Shaped
      <3>6. t \o <<r, g, BootstrapFrame>> = Append(t, r) \o <<g, BootstrapFrame>>
        BY <3>3, <3>5
      <3> QED BY <3>3, <3>4, <3>6
    <2> HIDE DEF s, r
    <2>4. Shaped(stack') /\ stack' # <<>> /\ Top'.proc = "Bootstrap"
      BY <1>2, <2>2, <2>3, CallsFallback
    <2> QED BY <1>1, <1>2, <1>3, <2>4
            DEF StackInv, FlagInv, Talking, ReadyMeansBooted
  <1>4. CASE ~config.bootstrap
    <2>1. stack' = Replace(f) /\ f.proc = "Read"
      BY <1>1, <1>4 DEF Recover, Resume, IInv, FlagInv
    <2>2. Top' = f
      BY <1>1, <2>1 DEF Top, Last
    <2> HIDE DEF f
    <2> QED BY <1>1, <1>2, <1>4, <2>1, <2>2
            DEF StackInv, FlagInv, Talking, ReadyMeansBooted
  <1> QED BY <1>3, <1>4

\* tryRecoverDevice() returns to the exchange: in session, or without a port.
LEMMA RecoverReturnKeeps ==
  ASSUME IInv, RecoverReturns
  PROVE  StackInv'
  <1>1. /\ Shaped(stack) /\ stack # <<>> /\ Top.proc = "Recover" /\ config.bootstrap
        /\ ret' = "none" /\ stack' = Callers
        /\ UNCHANGED <<config, miniReady, currentBaud, port>>
        /\ \/ ret = "ok" /\ UNCHANGED <<fdOpen, booted>>
           \/ fdOpen' = FALSE
    BY DEF IInv, FlagInv, RecoverReturns, environment, line
  <1>2. Shaped(stack') /\ stack' # <<>> /\ Exchanges(Top')
    BY <1>1, Returned
  <1> QED BY <1>1, <1>2
          DEF IInv, StackInv, FlagInv, Talking, ReadyMeansBooted

\* The driver has its answer, and nothing runs.
LEMMA FinishKeeps ==
  ASSUME IInv, stack' = <<>>, ret' = "none", UNCHANGED config,
         \/ Closed
         \/ UNCHANGED <<session, currentBaud, port>>
         \/ /\ fdOpen' = TRUE /\ miniReady' = FALSE
            /\ currentBaud' \in Bauds /\ port'.baud # NoBaud
  PROVE  StackInv'
  <1>1. Shaped(stack')
    BY Empty
  <1>2. CASE Closed
    BY <1>1, <1>2 DEF StackInv, FlagInv, Talking, ReadyMeansBooted, Closed
  <1>3. CASE UNCHANGED <<session, currentBaud, port>>
    BY <1>1, <1>3 DEF IInv, StackInv, FlagInv, Talking, ReadyMeansBooted, session
  <1>4. CASE /\ fdOpen' = TRUE /\ miniReady' = FALSE
             /\ currentBaud' \in Bauds /\ port'.baud # NoBaud
    BY <1>1, <1>4 DEF StackInv, FlagInv, Talking, ReadyMeansBooted
  <1> QED BY <1>2, <1>3, <1>4

\* open(), which runs the bootstrap once or twice.
LEMMA OpenKeeps ==
  ASSUME IInv, \/ OpenFails \/ OpenStarts \/ OpenRetries \/ OpenReopenFails
               \/ OpenReturns \/ Close
  PROVE  StackInv'
  <1>1. CASE OpenFails \/ Close
    BY <1>1, FinishKeeps DEF OpenFails, Close, Finish, Idle, environment, IInv, FlagInv
  <1>2. \A retried \in BOOLEAN :
          LET f == [proc |-> "Open", retried |-> retried]
          IN f \in Frames /\ f \in Opens /\ Bottom(f) /\ Waits(f) /\ f.proc = "Open"
    BY DEF Frames, Opens, Bottom, Waits
  <1>3. CASE OpenStarts
    <2>1. /\ UNCHANGED config /\ fdOpen' = TRUE /\ miniReady' = FALSE
          /\ currentBaud' \in Bauds /\ port'.baud # NoBaud
      BY <1>3, Rates DEF OpenStarts, environment
    <2>2. CASE Finish(STATUS_NOERROR)
      BY <2>1, <2>2, FinishKeeps DEF Finish
    <2>3. CASE /\ config.bootstrap /\ ret' = "none"
               /\ stack' = <<[proc |-> "Open", retried |-> FALSE],
                             FallbackFrame(Desired), BootstrapFrame>>
      <3> DEFINE f == [proc |-> "Open", retried |-> FALSE]
                 s == <<f>>
      <3>1. f \in Frames /\ Bottom(f) /\ Waits(f)
        BY <1>2
      <3>2. stack' = s \o <<FallbackFrame(Desired), BootstrapFrame>>
        BY <2>3, OneThenTwo
      <3> HIDE DEF f
      <3>3. Shaped(s) /\ s # <<>> /\ Last(s) = f
        BY <3>1, One
      <3> HIDE DEF s
      <3>4. Shaped(stack') /\ stack' # <<>> /\ Top'.proc = "Bootstrap"
        BY <3>1, <3>2, <3>3, Rates, CallsFallback
      <3> QED BY <2>1, <2>3, <3>4
              DEF StackInv, FlagInv, Talking, ReadyMeansBooted
    <2> QED BY <1>3, <2>2, <2>3 DEF OpenStarts
  <1>4. CASE OpenRetries
    <2> DEFINE f == [proc |-> "Open", retried |-> TRUE]
               s == <<f>>
    <2>1. f \in Frames /\ Bottom(f) /\ Waits(f)
      BY <1>2
    <2>2. /\ config.bootstrap /\ UNCHANGED config /\ miniReady' = FALSE /\ ret' = "none"
          /\ stack' = s \o <<FallbackFrame(Desired), BootstrapFrame>>
          /\ Configure(Desired, Preferred)
      BY <1>4 DEF OpenRetries, InOpen, CallFallback, NewDescriptor, environment, IInv,
                  FlagInv
    <2> HIDE DEF f
    <2>3. Shaped(s) /\ s # <<>> /\ Last(s) = f
      BY <2>1, One
    <2> HIDE DEF s
    <2>4. Shaped(stack') /\ stack' # <<>> /\ Top'.proc = "Bootstrap"
      BY <2>1, <2>2, <2>3, Rates, CallsFallback
    <2>5. currentBaud' \in Bauds /\ port'.baud # NoBaud
      BY <1>4, <2>2, Rates, Configured DEF IInv, FlagInv, OpenRetries, InOpen
    <2> QED BY <2>2, <2>4, <2>5
            DEF StackInv, FlagInv, Talking, ReadyMeansBooted
  <1>5. CASE OpenReopenFails
    <2> DEFINE f == [Top EXCEPT !.retried = TRUE]
    <2>1. /\ Shaped(stack) /\ stack # <<>> /\ Top \in Opens /\ Top.proc = "Open"
          /\ ret = "fail" /\ stack' = Replace(f) /\ config.bootstrap
          /\ UNCHANGED <<config, fdOpen, miniReady, booted, currentBaud, port, ret>>
      BY <1>5, Running DEF OpenReopenFails, InOpen, IInv, FlagInv, environment, session,
                           line
    <2>2. f \in Frames /\ f.proc = "Open"
      BY <2>1 DEF Opens, Frames
    <2> HIDE DEF f
    <2>3. Shaped(stack') /\ stack' # <<>> /\ Top' = f
      BY <2>1, <2>2, Replaced
    <2> QED BY <2>1, <2>2, <2>3
            DEF IInv, StackInv, FlagInv, Talking, ReadyMeansBooted, Exchanges
  <1>6. CASE OpenReturns
    BY <1>6, FinishKeeps DEF OpenReturns, Finish, environment
  <1> QED BY <1>1, <1>3, <1>4, <1>5, <1>6

\* write(), which bootstraps on demand.
LEMMA WriteKeeps ==
  ASSUME IInv, \/ WriteRefused \/ WriteStarts \/ WriteBootReturns \/ WriteRefresh
               \/ WritePacket
  PROVE  StackInv'
  <1>1. CASE WriteRefused \/ WritePacket
    BY <1>1, FinishKeeps DEF WriteRefused, WritePacket, Finish, environment, line
  <1>2. \A step \in {"boot", "refresh", "packet"} :
          /\ WriteFrame(step) \in Writes /\ WriteFrame(step) \in Frames
          /\ WriteFrame(step).proc = "Write" /\ WriteFrame(step).step = step
          /\ Bottom(WriteFrame(step))
    BY DEF WriteFrame, Writes, Frames, Bottom
  <1>3. CASE WriteStarts
    <2>1. /\ UNCHANGED <<config, fdOpen, miniReady, booted>> /\ fdOpen /\ stack = <<>>
          /\ ret = "none" /\ currentBaud \in Bauds /\ port.baud # NoBaud
      BY <1>3 DEF WriteStarts, Idle, environment, session, IInv, FlagInv
    <2>2. CASE /\ miniReady /\ stack' = <<WriteFrame("refresh")>>
               /\ UNCHANGED <<ret, line>>
      <3> DEFINE f == WriteFrame("refresh")
      <3>1. f \in Frames /\ Bottom(f) /\ f.proc = "Write" /\ f.step = "refresh"
        BY <1>2
      <3>2. Shaped(stack') /\ stack' # <<>> /\ Last(stack') = f
        BY <2>2, <3>1, One
      <3>3. Top' = f /\ config.bootstrap
        BY <2>2, <3>2 DEF Top, Last, IInv, FlagInv
      <3> HIDE DEF f
      <3> QED BY <2>1, <2>2, <3>1, <3>2, <3>3
              DEF IInv, StackInv, FlagInv, Talking, ReadyMeansBooted, line
    <2>3. CASE config.bootstrap /\ CallFallback(<<WriteFrame("boot")>>, currentBaud)
      <3> DEFINE f == WriteFrame("boot")
                 s == <<f>>
      <3>1. f \in Frames /\ Bottom(f) /\ Waits(f)
        BY <1>2 DEF Waits
      <3>2. /\ stack' = s \o <<FallbackFrame(currentBaud), BootstrapFrame>>
            /\ ret' = "none" /\ Configure(currentBaud, Preferred)
        BY <2>3 DEF CallFallback
      <3> HIDE DEF f
      <3>3. Shaped(s) /\ s # <<>> /\ Last(s) = f
        BY <3>1, One
      <3> HIDE DEF s
      <3>4. Shaped(stack') /\ stack' # <<>> /\ Top'.proc = "Bootstrap"
        BY <2>1, <3>1, <3>2, <3>3, CallsFallback
      <3>5. currentBaud' \in Bauds /\ port'.baud # NoBaud
        BY <2>1, <3>2, Rates, Configured DEF IInv
      <3> QED BY <2>1, <2>3, <3>2, <3>4, <3>5
              DEF IInv, StackInv, FlagInv, Talking, ReadyMeansBooted
    <2> QED BY <1>3, <2>2, <2>3 DEF WriteStarts
  <1>4. CASE WriteBootReturns
    <2>1. CASE Finish(ERR_NOT_INITIALIZED)
      BY <1>4, <2>1, FinishKeeps DEF WriteBootReturns, Finish, environment, line
    <2>2. CASE ret = "ok" /\ stack' = Replace(WriteFrame("refresh")) /\ ret' = "none"
      <3>1. /\ Shaped(stack) /\ stack # <<>> /\ Top.proc = "Write" /\ miniReady
            /\ UNCHANGED <<config, fdOpen, miniReady, booted, currentBaud, port>>
        BY <1>4, <2>2 DEF WriteBootReturns, InWrite, environment, session, line, IInv,
                          FlagInv
      <3>2. Shaped(stack') /\ stack' # <<>> /\ Top' = WriteFrame("refresh")
        BY <1>2, <2>2, <3>1, Replaced
      <3> QED BY <2>2, <3>1, <3>2
              DEF IInv, StackInv, FlagInv, Talking, ReadyMeansBooted
    <2> QED BY <1>4, <2>1, <2>2 DEF WriteBootReturns
  <1>5. CASE WriteRefresh
    <2>1. /\ Shaped(stack) /\ stack # <<>> /\ Top.proc = "Write" /\ ret = "none" /\ Talking
          /\ UNCHANGED <<config, fdOpen, miniReady, booted, currentBaud, port, ret>>
          /\ stack' = Replace(WriteFrame("packet"))
      BY <1>5 DEF WriteRefresh, InWrite, Exchanges, environment, session, line, IInv,
                  FlagInv, Talking
    <2>2. Shaped(stack') /\ stack' # <<>> /\ Top' = WriteFrame("packet")
      BY <1>2, <2>1, Replaced
    <2> QED BY <1>2, <2>1, <2>2
            DEF IInv, StackInv, FlagInv, Talking, ReadyMeansBooted
  <1> QED BY <1>1, <1>3, <1>4, <1>5

\* read(), which needs no session.
LEMMA ReadKeeps ==
  ASSUME IInv, ReadStarts \/ ReadChunk \/ ReadTickle
  PROVE  StackInv'
  <1>1. CASE \E s \in Statuses : Finish(s)
    BY <1>1, FinishKeeps DEF ReadStarts, ReadChunk, ReadTickle, Finish, environment, line
  <1>2. \A step \in {"chunk", "tickle"}, quiet \in 1..MaxQuiet :
          /\ ReadFrame(step, quiet) \in Reads /\ ReadFrame(step, quiet) \in Frames
          /\ ReadFrame(step, quiet).proc = "Read" /\ Bottom(ReadFrame(step, quiet))
    BY DEF ReadFrame, Reads, Frames, Bottom
  <1>3. UNCHANGED <<config, fdOpen, miniReady, booted, currentBaud, port>>
    BY DEF ReadStarts, ReadChunk, ReadTickle, environment, session, line
  <1>4. CASE /\ \E quiet \in 1..MaxQuiet : stack' = <<ReadFrame("chunk", quiet)>>
             /\ Idle /\ fdOpen /\ UNCHANGED ret
    <2>1. PICK quiet \in 1..MaxQuiet : stack' = <<ReadFrame("chunk", quiet)>>
      BY <1>4
    <2> DEFINE f == ReadFrame("chunk", quiet)
    <2>2. f \in Frames /\ Bottom(f) /\ f.proc = "Read"
      BY <1>2
    <2>3. Shaped(stack') /\ stack' # <<>> /\ Last(stack') = f
      BY <2>1, <2>2, One
    <2>4. Top' = f
      BY <2>3 DEF Top, Last
    <2> HIDE DEF f
    <2> QED BY <1>3, <1>4, <2>2, <2>3, <2>4
            DEF IInv, StackInv, FlagInv, Talking, ReadyMeansBooted, Idle
  <1>5. CASE /\ \E step \in {"chunk", "tickle"}, quiet \in 1..MaxQuiet :
                  stack' = Replace(ReadFrame(step, quiet))
             /\ stack # <<>> /\ Top.proc = "Read" /\ UNCHANGED ret
    <2>1. PICK step \in {"chunk", "tickle"}, quiet \in 1..MaxQuiet :
            stack' = Replace(ReadFrame(step, quiet))
      BY <1>5
    <2>2. /\ ReadFrame(step, quiet) \in Frames /\ ReadFrame(step, quiet).proc = "Read"
          /\ Shaped(stack)
      BY <1>2 DEF IInv
    <2>3. Shaped(stack') /\ stack' # <<>> /\ Top'.proc = "Read"
      BY <1>5, <2>1, <2>2, Replaced
    <2> QED BY <1>3, <1>5, <2>3
            DEF IInv, StackInv, FlagInv, Talking, ReadyMeansBooted, Exchanges
  <1>6. CASE ReadStarts
    BY <1>1, <1>4, <1>6 DEF ReadStarts, Statuses
  <1>7. CASE ReadChunk \/ ReadTickle
    <2>1. stack # <<>> /\ Top.proc = "Read" /\ Top.quiet \in 1..MaxQuiet
      BY <1>7, Running DEF ReadChunk, ReadTickle, InRead, IInv, Reads
    <2>2. Top.quiet # 1 => Top.quiet - 1 \in 1..MaxQuiet
      BY <2>1, SessionAssumption
    <2>3. ERR_TIMEOUT \in Statuses /\ STATUS_NOERROR \in Statuses
          /\ ERR_FAILED \in Statuses /\ ERR_NOT_INITIALIZED \in Statuses
      BY DEF Statuses
    <2>4. CASE ReadTickle
      BY <1>1, <1>5, <2>1, <2>2, <2>3, <2>4 DEF ReadTickle
    <2>5. CASE ReadChunk
      <3>1. CASE \E s \in Statuses : Finish(s)
        BY <1>1, <3>1
      <3>2. CASE /\ Top.quiet # 1 /\ stack' = Replace(ReadFrame("chunk", Top.quiet - 1))
                 /\ UNCHANGED ret
        BY <1>5, <2>1, <2>2, <3>2
      <3>3. CASE stack' = Replace(ReadFrame("tickle", Top.quiet)) /\ UNCHANGED ret
        BY <1>5, <2>1, <3>3
      <3> QED BY <2>3, <2>5, <3>1, <3>2, <3>3 DEF ReadChunk
    <2> QED BY <1>7, <2>4, <2>5
  <1> QED BY <1>6, <1>7

\* Every step, and a stutter.
LEMMA StackNext == IInv /\ [Next]_vars => StackInv'
  <1> SUFFICES ASSUME IInv, [Next]_vars PROVE StackInv'
    OBVIOUS
  <1>1. CASE Call
    BY <1>1, OpenKeeps, WriteKeeps, ReadKeeps DEF Call
  <1>2. CASE Step
    BY <1>2, BootstrapKeeps, FallbackReturns, FallbackTries, LossKeeps, RecoverKeeps,
       RecoverReturnKeeps, OpenKeeps, WriteKeeps, ReadKeeps DEF Step
  <1>3. CASE UNCHANGED vars
    <2>1. UNCHANGED <<stack, config, fdOpen, miniReady, booted, currentBaud, port, ret>>
      BY <1>3 DEF vars, environment, session, line
    <2>2. Top' = Top
      BY <2>1 DEF Top
    <2> QED BY <2>1, <2>2
            DEF IInv, StackInv, FlagInv, Talking, ReadyMeansBooted, Exchanges
  <1> QED BY <1>1, <1>2, <1>3 DEF Next

----------------------------------------------------------------------------
(* Each step keeps the types.                                              *)

Lines == [baud : Bauds \cup {NoBaud, Fallback9600}, mode : Modes]

\* No step changes the environment, or counts more than one fault.
LEMMA FaultsCounted ==
  ASSUME [Next]_vars
  PROVE  UNCHANGED environment /\ (faults' = faults \/ Fault)
  <1>1. \A o, needsReply : Exchange(o, needsReply) => faults' = faults \/ Fault
    BY DEF Exchange
  <1>2. \A baud, mode : Configure(baud, mode) => faults' = faults \/ Fault
    BY DEF Configure
  <1>3. CASE Call
    BY <1>2, <1>3 DEF Call, OpenFails, OpenStarts, Close, WriteRefused, WriteStarts,
                      ReadStarts, CallFallback
  <1>4. CASE Step
    <2>1. CASE BootstrapStep
      BY <1>1, <2>1 DEF BootstrapStep
    <2>2. CASE \/ FallbackFirstMode \/ FallbackAlternateMode \/ FallbackDescriptorGone
               \/ FallbackNextBaud \/ FallbackNextMode \/ FallbackGivesUp
      BY <1>2, <2>2 DEF FallbackFirstMode, FallbackAlternateMode,
                        FallbackDescriptorGone, FallbackNextBaud, FallbackNextMode,
                        FallbackGivesUp
    <2>3. CASE LoseForGood \/ Recover \/ RecoverReturns
      BY <2>3 DEF LoseForGood, Recover, RecoverReturns
    <2>4. CASE OpenRetries \/ OpenReopenFails \/ OpenReturns
      BY <1>2, <2>4 DEF OpenRetries, OpenReopenFails, OpenReturns, CallFallback
    <2>5. CASE WriteBootReturns \/ WriteRefresh \/ WritePacket \/ ReadChunk \/ ReadTickle
      BY <1>1, <2>5 DEF WriteBootReturns, WriteRefresh, WritePacket, ReadChunk,
                        ReadTickle
    <2> QED BY <1>4, <2>1, <2>2, <2>3, <2>4, <2>5 DEF Step
  <1>5. CASE UNCHANGED vars
    BY <1>5 DEF vars
  <1> QED BY <1>3, <1>4, <1>5 DEF Next

\* So faults are counted up to their bound.
LEMMA FaultsNext == IInv /\ [Next]_vars => FaultsOK'
  <1> SUFFICES ASSUME IInv, [Next]_vars PROVE FaultsOK'
    OBVIOUS
  <1>1. /\ config \in [bootstrap : BOOLEAN, strict : BOOLEAN]
        /\ adapter \in [baud : Bauds, modes : SUBSET Modes]
        /\ faults \in Nat /\ faults <= MaxFaults /\ MaxFaults \in Nat
    BY SessionAssumption DEF IInv, FaultsOK
  <1>2. Fault => faults' \in 0..MaxFaults
    BY <1>1 DEF Fault
  <1>3. UNCHANGED environment /\ (faults' = faults \/ Fault)
    BY FaultsCounted
  <1> QED BY <1>1, <1>2, <1>3 DEF FaultsOK, environment

\* The status and the answer of a callee.
LEMMA AnswersNext ==
  IInv /\ [Next]_vars => ret' \in {"none", "ok", "fail"} /\ result' \in Statuses
  <1> SUFFICES ASSUME IInv, [Next]_vars
               PROVE  ret' \in {"none", "ok", "fail"} /\ result' \in Statuses
    OBVIOUS
  <1>1. ret \in {"none", "ok", "fail"} /\ result \in Statuses
    BY DEF IInv, FieldsOK
  <1>2. /\ STATUS_NOERROR \in Statuses /\ ERR_FAILED \in Statuses
        /\ ERR_NOT_INITIALIZED \in Statuses /\ ERR_TIMEOUT \in Statuses
    BY DEF Statuses
  <1>3. CASE Call
    BY <1>1, <1>2, <1>3 DEF Call, OpenFails, OpenStarts, Close, WriteRefused, WriteStarts,
                            ReadStarts, CallFallback, Finish
  <1>4. CASE BootstrapStep
    BY <1>1, <1>4 DEF BootstrapStep, Return
  <1>5. CASE \/ FallbackFirstMode \/ FallbackAlternateMode \/ FallbackDescriptorGone
             \/ FallbackNextBaud \/ FallbackNextMode \/ FallbackGivesUp
    BY <1>1, <1>5 DEF FallbackFirstMode, FallbackAlternateMode, FallbackDescriptorGone,
                      FallbackNextBaud, FallbackNextMode, FallbackGivesUp, Return
  <1>6. CASE LoseForGood \/ Recover \/ RecoverReturns
    BY <1>1, <1>6 DEF LoseForGood, Recover, RecoverReturns
  <1>7. CASE OpenRetries \/ OpenReopenFails \/ OpenReturns
    BY <1>1, <1>2, <1>7 DEF OpenRetries, OpenReopenFails, OpenReturns, CallFallback, Finish
  <1>8. CASE WriteBootReturns \/ WriteRefresh \/ WritePacket
    BY <1>1, <1>2, <1>8 DEF WriteBootReturns, WriteRefresh, WritePacket, Finish
  <1>9. CASE ReadChunk \/ ReadTickle
    BY <1>1, <1>2, <1>9 DEF ReadChunk, ReadTickle, Finish
  <1>10. CASE UNCHANGED vars
    BY <1>1, <1>10 DEF vars
  <1> QED BY <1>3, <1>4, <1>5, <1>6, <1>7, <1>8, <1>9, <1>10 DEF Next, Step

\* The flags and the line.
LEMMA FlagsNext ==
  IInv /\ [Next]_vars => /\ open' \in BOOLEAN /\ fdOpen' \in BOOLEAN
                         /\ miniReady' \in BOOLEAN
                         /\ currentBaud' \in Bauds \cup {NoBaud} /\ port' \in Lines
                         /\ booted' \in Bauds \cup {NoBaud, Fallback9600}
  <1> DEFINE Q == /\ open \in BOOLEAN /\ fdOpen \in BOOLEAN /\ miniReady \in BOOLEAN
                  /\ booted \in Bauds \cup {NoBaud, Fallback9600}
             L == currentBaud \in Bauds \cup {NoBaud} /\ port \in Lines
  <1> SUFFICES ASSUME IInv, [Next]_vars PROVE Q' /\ L'
    OBVIOUS
  <1>1. Q /\ L /\ port.baud \in Bauds \cup {NoBaud, Fallback9600} /\ port.mode \in Modes
    BY DEF IInv, FieldsOK, Lines
  <1>2. UNCHANGED session => Q'
    BY <1>1 DEF session
  <1>3. UNCHANGED line => L'
    BY <1>1 DEF line
  <1>4. \A baud \in Bauds, mode \in Modes : Configure(baud, mode) => L'
    <2> SUFFICES ASSUME NEW baud \in Bauds, NEW mode \in Modes, Configure(baud, mode)
                 PROVE  L'
      OBVIOUS
    <2>1. currentBaud' = baud \/ currentBaud' = currentBaud
      BY DEF Configure
    <2>2. port' \in Lines
      BY Configured DEF IInv, Lines
    <2> QED BY <1>1, <2>1, <2>2
  <1>5. \A baud \in Bauds, mode \in Modes : [baud |-> LineSpeed(baud), mode |-> mode] \in Lines
    BY Rates DEF Lines
  <1>6. "assert" \in Modes /\ Preferred \in Modes /\ Desired \in Bauds
    BY Rates
  <1>7. CASE OpenFails \/ Close
    BY <1>1, <1>7 DEF OpenFails, Close, Closed
  <1>8. CASE OpenStarts
    BY <1>1, <1>5, <1>6, <1>8 DEF OpenStarts
  <1>9. CASE \/ WriteRefused \/ ReadStarts \/ WriteBootReturns \/ WriteRefresh
             \/ WritePacket \/ ReadChunk \/ ReadTickle \/ OpenReopenFails
    BY <1>2, <1>3, <1>9 DEF WriteRefused, ReadStarts, WriteBootReturns, WriteRefresh,
                            WritePacket, ReadChunk, ReadTickle, OpenReopenFails
  <1>10. CASE WriteStarts
    <2>1. currentBaud \in Bauds
      BY <1>10 DEF WriteStarts, IInv, FlagInv
    <2> QED BY <1>2, <1>3, <1>4, <1>6, <1>10, <2>1 DEF WriteStarts, CallFallback
  <1>11. CASE BootstrapStep
    BY <1>1, <1>3, <1>11 DEF BootstrapStep
  <1>12. CASE \/ FallbackFirstMode \/ FallbackAlternateMode \/ FallbackDescriptorGone
              \/ FallbackNextBaud \/ FallbackNextMode \/ FallbackGivesUp
    <2>1. Top \in Fallbacks
      BY <1>12, Running DEF FallbackFirstMode, FallbackAlternateMode,
                            FallbackDescriptorGone, FallbackNextBaud, FallbackNextMode,
                            FallbackGivesUp, InFallback, IInv
    <2>2. /\ Top.cfg \in Bauds
          /\ Top.bauds # <<>> => Head(Top.bauds) \in Bauds
          /\ Top.modes # <<>> => Head(Top.modes) \in Modes
      BY <2>1, HeadTailProperties DEF Fallbacks
    <2>3. Q'
      BY <1>2, <1>12 DEF FallbackFirstMode, FallbackAlternateMode, FallbackDescriptorGone,
                         FallbackNextBaud, FallbackNextMode, FallbackGivesUp
    <2>4. CASE FallbackNextBaud
      <3>1. CASE /\ currentBaud' = Head(Top.bauds)
                 /\ port' = [port EXCEPT !.baud = LineSpeed(Head(Top.bauds))]
        <4>1. Head(Top.bauds) \in Bauds
          BY <2>2, <2>4 DEF FallbackNextBaud
        <4> QED BY <1>1, <2>3, <3>1, <4>1, Rates DEF Lines
      <3> QED BY <1>3, <2>3, <2>4, <3>1 DEF FallbackNextBaud
    <2>5. CASE FallbackNextMode
      BY <1>3, <1>4, <2>2, <2>3, <2>5 DEF FallbackNextMode, line
    <2>6. CASE FallbackFirstMode \/ FallbackGivesUp
      BY <1>1, <1>3, <1>4, <2>2, <2>3, <2>6 DEF FallbackFirstMode, FallbackGivesUp
    <2> QED BY <1>3, <1>12, <2>3, <2>4, <2>5, <2>6
            DEF FallbackAlternateMode, FallbackDescriptorGone
  <1>13. CASE LoseForGood \/ RecoverReturns
    BY <1>1, <1>3, <1>13 DEF LoseForGood, RecoverReturns
  <1>14. CASE Recover
    <2>1. currentBaud \in Bauds
      BY <1>14 DEF Recover, AtExchange, IInv, FlagInv
    <2>2. port' \in Lines
      BY <1>5, <1>6, <1>14, <2>1 DEF Recover
    <2> QED BY <1>1, <1>14, <2>2 DEF Recover, NewDescriptor
  <1>15. CASE OpenRetries
    BY <1>1, <1>4, <1>6, <1>15 DEF OpenRetries, CallFallback, NewDescriptor
  <1>16. CASE OpenReturns
    BY <1>1, <1>2, <1>16 DEF OpenReturns, Closed
  <1>17. CASE UNCHANGED vars
    BY <1>2, <1>3, <1>17 DEF vars
  <1> QED BY <1>7, <1>8, <1>9, <1>10, <1>11, <1>12, <1>13, <1>14, <1>15, <1>16, <1>17
          DEF Next, Call, Step

\* The invariant is inductive.
LEMMA InvNext == IInv /\ [Next]_vars => IInv'
  <1> SUFFICES ASSUME IInv, [Next]_vars PROVE IInv'
    OBVIOUS
  <1>1. FieldsOK'
    BY AnswersNext, FlagsNext DEF FieldsOK, Lines
  <1> QED BY <1>1, FaultsNext, StackNext DEF IInv, StackInv

----------------------------------------------------------------------------
(* What the session promises.                                              *)

\* Types of the session, its call stack and every frame on it, however deep the
\* bootstraps and recoveries nest and whatever the rates, modes and faults.
THEOREM TypeCorrect == Spec => []TypeOK
  <1> QED BY InvInit, InvNext, InvTyped, PTL DEF Spec

\* While the descriptor is open and the ready flag set, the adapter has
\* acknowledged a handshake through this descriptor (miniReady_, which a write
\* trusts instead of asking the adapter).
THEOREM ReadyIsBooted == Spec => []ReadyMeansBooted
  <1>1. IInv => ReadyMeansBooted
    BY DEF IInv, FlagInv
  <1> QED BY <1>1, InvInit, InvNext, PTL DEF Spec

\* Nothing but the return of open() ends an open, and of write() a packet.
LEMMA Ends ==
  ASSUME IInv, [Next]_vars, stack # <<>>, stack' = <<>>
  PROVE  /\ InOpen => OpenReturns
         /\ InWrite("packet") => WritePacket
  <1>1. Top.proc \in {"Open", "Write"} /\ (Top.proc = "Write" => Top.step = "packet")
          => OpenReturns \/ WritePacket \/ OpenRetries \/ OpenReopenFails \/ LoseForGood
             \/ Recover
    <2>1. ~Call
      BY DEF Call, OpenFails, OpenStarts, Close, WriteRefused, WriteStarts, ReadStarts, Idle
    <2>2. ~UNCHANGED vars
      BY DEF vars
    <2> QED BY <2>1, <2>2 DEF Next, Step, BootstrapStep, FallbackFirstMode,
               FallbackAlternateMode, FallbackDescriptorGone, FallbackNextBaud,
               FallbackNextMode, FallbackGivesUp, InFallback, RecoverReturns,
               WriteBootReturns, WriteRefresh, InWrite, ReadChunk, ReadTickle, InRead
  <1>2. ~OpenRetries /\ ~OpenReopenFails
    <2>1. \A f \in Opens : f \in Frames /\ f.proc = "Open"
      BY DEF Opens, Frames
    <2>2. ~OpenReopenFails
      <3> SUFFICES ASSUME OpenReopenFails PROVE FALSE
        OBVIOUS
      <3> DEFINE f == [Top EXCEPT !.retried = TRUE]
      <3>1. /\ Shaped(stack) /\ Top \in Opens /\ Top.proc = "Open" /\ stack' = Replace(f)
        BY Running DEF OpenReopenFails, InOpen, IInv
      <3>2. f \in Frames /\ f.proc = "Open"
        BY <2>1, <3>1 DEF Opens
      <3> HIDE DEF f
      <3> QED BY <3>1, <3>2, Replaced
    <2>3. ~OpenRetries
      <3> SUFFICES ASSUME OpenRetries PROVE FALSE
        OBVIOUS
      <3>1. stack' = <<[proc |-> "Open", retried |-> TRUE]>>
                       \o <<FallbackFrame(Desired), BootstrapFrame>>
        BY DEF OpenRetries, CallFallback
      <3>2. stack' = <<[proc |-> "Open", retried |-> TRUE], FallbackFrame(Desired),
                       BootstrapFrame>>
        BY <3>1, OneThenTwo
      <3> QED BY <3>2
    <2> QED BY <2>2, <2>3
  <1>3. ~LoseForGood
    BY Interrupted DEF LoseForGood
  <1>4. ~Recover
    BY RecoverKeeps
  <1> QED BY <1>1, <1>2, <1>3, <1>4 DEF InOpen, InWrite, OpenReturns, WritePacket

\* A packet that write() reports as sent went out through a descriptor that was
\* bootstrapped, with any number of losses before it or half way through it.
THEOREM PacketInSession == Spec => PacketOnlyInSession
  <1> DEFINE P == InWrite("packet") /\ stack' = <<>> /\ result' = STATUS_NOERROR
                    => fdOpen /\ miniReady /\ booted # NoBaud
  <1>1. ASSUME IInv, [Next]_vars PROVE P
    <2> SUFFICES ASSUME InWrite("packet"), stack' = <<>>, result' = STATUS_NOERROR
                 PROVE  fdOpen /\ miniReady /\ booted # NoBaud
      OBVIOUS
    <2>1. WritePacket
      BY <1>1, Ends DEF InWrite
    <2>2. fdOpen
      BY <2>1 DEF WritePacket, Exchange, Finish, STATUS_NOERROR, ERR_FAILED,
                  ERR_NOT_INITIALIZED
    <2>3. Talking
      BY <2>1 DEF WritePacket, InWrite, Talking
    <2> QED BY <1>1, <2>2, <2>3 DEF IInv, FlagInv, ReadyMeansBooted
  <1>2. IInv /\ [Next]_vars => [P]_vars
    BY <1>1
  <1> QED BY <1>2, InvInit, InvNext, PTL DEF Spec, PacketOnlyInSession

\* With the strict toggle, open() succeeds only with the ready flag set and
\* leaves nothing open otherwise, after one bootstrap or two, with any losses
\* inside them.  The descriptor of a success may be lost all the same.
THEOREM StrictIsBooted == Spec => StrictOpen
  <1> DEFINE P == InOpen /\ stack' = <<>> /\ config.strict
                    => \/ result' = STATUS_NOERROR /\ miniReady'
                       \/ result' = ERR_FAILED /\ ~open' /\ ~fdOpen' /\ ~miniReady'
  <1>1. ASSUME IInv, [Next]_vars PROVE P
    <2> SUFFICES ASSUME InOpen, stack' = <<>>, config.strict
                 PROVE  \/ result' = STATUS_NOERROR /\ miniReady'
                        \/ result' = ERR_FAILED /\ ~open' /\ ~fdOpen' /\ ~miniReady'
      OBVIOUS
    <2>1. OpenReturns
      BY <1>1, Ends DEF InOpen
    <2>2. CASE Rejects
      BY <2>1, <2>2 DEF OpenReturns, Finish, Closed
    <2>3. CASE ~Rejects
      <3>1. ret = "ok" /\ miniReady
        BY <1>1, <2>1, <2>3 DEF OpenReturns, Rejects, IInv, FieldsOK, FlagInv
      <3> QED BY <2>1, <2>3, <3>1 DEF OpenReturns, Finish, session
    <2> QED BY <2>2, <2>3
  <1>2. IInv /\ [Next]_vars => [P]_vars
    BY <1>1
  <1> QED BY <1>2, InvInit, InvNext, PTL DEF Spec, StrictOpen

----------------------------------------------------------------------------
(* The fallback is exhaustive.                                             *)
(*                                                                         *)
(* While nothing has gone wrong, no recovery runs, and a bootstrap fails   *)
(* only where the adapter does not answer.  So every rate and mode is      *)
(* still to be tried, or is being tried, or was tried in vain.             *)

In(x, s) == \E i \in 1..Len(s) : s[i] = x

\* A rate and a mode at which the adapter does not answer.
Vain(b, m) == LineSpeed(b) # adapter.baud \/ m \notin adapter.modes
VainMode(m) == \A b \in Bauds : Vain(b, m)
AllVain == VainMode(Preferred) /\ \A i \in 1..Len(AltModes) : VainMode(AltModes[i])

\* What a search has behind it, where the rate the port is at is now being
\* tried or not.
Searched(f, trying) ==
  /\ f.cfg = Desired /\ f.mode = port.mode /\ port.baud = LineSpeed(currentBaud)
  /\ \A b \in Bauds : Vain(b, f.mode) \/ In(b, f.bauds) \/ (trying /\ b = currentBaud)
  /\ f.mode = Preferred \/ VainMode(Preferred)
  /\ \A i \in 1..Len(AltModes) :
       \/ AltModes[i] = f.mode \/ VainMode(AltModes[i])
       \/ In(AltModes[i], f.modes)

NoRecovery(s) == \A i \in 1..Len(s) : s[i].proc # "Recover"

\* What holds while there was no fault.
SearchInv ==
  /\ NoRecovery(stack)
  /\ stack # <<>> => fdOpen
  /\ InFallback /\ ret = "fail" => Searched(Top, FALSE) /\ Vain(currentBaud, port.mode)
  /\ stack # <<>> /\ Top.proc = "Bootstrap" => ~Top.lost /\ Searched(Last(Callers), TRUE)
  /\ stack = <<>> \/ Bottom(Top)
       => /\ fdOpen => currentBaud = Desired \/ miniReady
          /\ ret = "fail" => AllVain /\ currentBaud = Desired

FaultlessInv == faults = 0 => SearchInv

\* What is in a sequence is its head or in its tail.
LEMMA InTail ==
  ASSUME NEW S, NEW s \in Seq(S), s # <<>>, NEW x
  PROVE  In(x, s) => x = Head(s) \/ In(x, Tail(s))
  <1>1. /\ Len(s) \in Nat \ {0} /\ Head(s) = s[1] /\ Len(Tail(s)) = Len(s) - 1
        /\ \A i \in 1..Len(Tail(s)) : Tail(s)[i] = s[i + 1]
    OBVIOUS
  <1>2. ASSUME NEW i \in 1..Len(s), s[i] = x, i # 1
        PROVE  In(x, Tail(s))
    <2> DEFINE j == i - 1
    <2>1. j \in 1..Len(Tail(s)) /\ j + 1 = i
      BY <1>1, <1>2
    <2> HIDE DEF j
    <2>2. Tail(s)[j] = x
      BY <1>1, <1>2, <2>1
    <2> QED BY <2>1, <2>2 DEF In
  <1> QED BY <1>1, <1>2 DEF In

\* Nothing is in an empty sequence.
LEMMA InNone == \A x : ~In(x, <<>>)
  BY DEF In

\* Frames that are no recoveries, when one returns, is called or goes on.
LEMMA NoRecoveryKept ==
  ASSUME NEW s, Shaped(s), NoRecovery(s)
  PROVE  /\ s # <<>> => /\ NoRecovery(Popped(s)) /\ Last(s).proc # "Recover"
                        /\ Popped(s) # <<>> => Last(Popped(s)).proc # "Recover"
         /\ \A f \in Frames : f.proc # "Recover" => NoRecovery(Append(s, f))
  <1>1. s \in Seq(Frames) /\ Len(s) \in Nat
    BY LenProperties DEF Shaped
  <1>2. ASSUME s # <<>>
        PROVE  /\ NoRecovery(Popped(s)) /\ Last(s).proc # "Recover"
               /\ Popped(s) # <<>> => Last(Popped(s)).proc # "Recover"
    <2>1. Len(s) > 0
      BY <1>1, <1>2, EmptySeq
    <2>2. NoRecovery(Popped(s)) /\ Last(s).proc # "Recover"
      BY <1>1, <1>2, <2>1, PoppedElements DEF NoRecovery, Last
    <2>3. ASSUME Popped(s) # <<>> PROVE Last(Popped(s)).proc # "Recover"
      <3>1. Popped(s) \in Seq(Frames) /\ Len(Popped(s)) \in Nat /\ Len(Popped(s)) > 0
        BY <1>2, <2>3, PoppedElements, EmptySeq, LenProperties
      <3> QED BY <2>2, <3>1 DEF NoRecovery, Last
    <2> QED BY <2>2, <2>3
  <1>3. ASSUME NEW f \in Frames, f.proc # "Recover"
        PROVE  NoRecovery(Append(s, f))
    BY <1>1, <1>3, AppendProperties DEF NoRecovery
  <1> QED BY <1>2, <1>3

\* The running frame goes on, and the frames below it stay.
LEMMA GoesOn ==
  ASSUME Shaped(stack), stack # <<>>, NoRecovery(stack), NEW f \in Frames,
         f.proc = Top.proc, stack' = Replace(f)
  PROVE  /\ Shaped(stack') /\ stack' # <<>> /\ Top' = f /\ NoRecovery(stack')
         /\ Callers' = Callers
  <1>1. /\ Top = Last(stack) /\ Callers = Popped(stack) /\ stack' = Append(Popped(stack), f)
        /\ Callers' = Popped(stack') /\ Shaped(Popped(stack))
    BY Running, PopShape DEF Replace, Callers, Popped
  <1>2. Shaped(stack') /\ stack' # <<>> /\ Top' = f
    BY Replaced
  <1>3. Callers' = Callers
    BY <1>1, ReplaceShape
  <1>4. NoRecovery(Popped(stack)) /\ f.proc # "Recover"
    BY <1>1, NoRecoveryKept
  <1>5. NoRecovery(stack')
    BY <1>1, <1>4, NoRecoveryKept
  <1> QED BY <1>2, <1>3, <1>5

\* A bootstrap that fails without a fault was not answered.
LEMMA BootstrapSearches ==
  ASSUME IInv, SearchInv, BootstrapStep, ~Fault, UNCHANGED adapter
  PROVE  SearchInv'
  <1>1. /\ Shaped(stack) /\ stack # <<>> /\ Top \in Bootstraps /\ Top.proc = "Bootstrap"
        /\ NoRecovery(stack) /\ fdOpen /\ ~Top.lost /\ Searched(Last(Callers), TRUE)
        /\ UNCHANGED <<fdOpen, currentBaud, port>>
    BY Running DEF IInv, SearchInv, BootstrapStep, line
  <1>2. \A f \in Bootstraps : f \in Frames /\ f.proc = "Bootstrap"
    BY DEF Frames, Bootstraps
  <1>3. \A f, trying : Searched(f, trying)' = Searched(f, trying)
    BY <1>1 DEF Searched, Vain, VainMode
  <1>4. CASE \E f \in Bootstraps : stack' = Replace(f) /\ ~f.lost
    <2>1. PICK f \in Bootstraps : stack' = Replace(f) /\ ~f.lost
      BY <1>4
    <2>2. /\ stack' # <<>> /\ Top' = f /\ NoRecovery(stack') /\ Callers' = Callers
      BY <1>1, <1>2, <2>1, GoesOn
    <2>3. Searched(Last(Callers), TRUE)'
      BY <1>1, <2>2 DEF Last, Searched, Vain, VainMode
    <2> QED BY <1>1, <1>2, <2>1, <2>2, <2>3 DEF SearchInv, InFallback, Bottom
  <1>5. CASE stack' = Callers /\ ret' \in {"ok", "fail"}
    <2>1. /\ Shaped(stack') /\ stack' # <<>> /\ Top'.proc = "Fallback"
          /\ Top' = Last(Callers) /\ NoRecovery(stack')
      <3>1. Shaped(stack') /\ stack' # <<>> /\ Top'.proc = "Fallback"
        BY <1>1, <1>5, Returned
      <3>2. Top' = Last(Callers)
        BY <1>5 DEF Top, Last
      <3>3. NoRecovery(stack')
        BY <1>1, <1>5, Running, NoRecoveryKept
      <3> QED BY <3>1, <3>2, <3>3
    <2>2. ASSUME ret' = "fail" PROVE ~Answers
      <3>1. ret = "none"
        BY <1>1 DEF IInv, FlagInv, Exchanges
      <3>2. PICK o \in {"done", "silent", "failed"} :
              Exchange(o, Stages[Top.stage] # "write") /\ o # "done"
        BY <2>2, <3>1 DEF BootstrapStep, Return
      <3> QED BY <1>1, <3>2 DEF Exchange
    <2>3. ASSUME ret' = "fail"
          PROVE  Searched(Last(Callers), FALSE) /\ Vain(currentBaud, port.mode)
      BY <1>1, <2>2, <2>3 DEF Answers, Searched, Vain
    <2>4. ASSUME ret' = "fail"
          PROVE  Searched(Top, FALSE)' /\ Vain(currentBaud, port.mode)'
      BY <1>1, <2>1, <2>3, <2>4 DEF Searched, Vain, VainMode
    <2> QED BY <1>1, <2>1, <2>4 DEF SearchInv, InFallback, Bottom
  <1>6. Top.stage < 7 => NextStage \in Bootstraps /\ ~NextStage.lost
    <2> DEFINE stage == Top.stage + 1
               lost == Top.lost /\ Stages[Top.stage] = "write"
    <2>1. Top.stage < 7 => stage \in 1..7
      BY <1>1 DEF Bootstraps
    <2>2. ~lost /\ lost \in BOOLEAN
      BY <1>1 DEF Bootstraps
    <2>3. NextStage = [Top EXCEPT !.stage = stage, !.lost = lost]
      BY DEF NextStage
    <2> HIDE DEF stage, lost
    <2> QED BY <1>1, <2>1, <2>2, <2>3 DEF Bootstraps
  <1>7. Top.attempt < Attempts => RestartAttempt \in Bootstraps /\ ~RestartAttempt.lost
    <2> DEFINE attempt == Top.attempt + 1
    <2>1. 1 \in 1..7 /\ (Top.attempt < Attempts => attempt \in 1..Attempts)
      BY <1>1, SessionAssumption DEF Bootstraps
    <2>2. RestartAttempt = [Top EXCEPT !.attempt = attempt, !.stage = 1, !.lost = FALSE]
      BY DEF RestartAttempt
    <2> HIDE DEF attempt
    <2> QED BY <1>1, <2>1, <2>2 DEF Bootstraps
  <1> QED BY <1>4, <1>5, <1>6, <1>7 DEF BootstrapStep, Return

\* bootstrapWithFallback() returns: it has found the adapter, or there is
\* nothing left to try.
LEMMA FallbackReturnSearches ==
  ASSUME IInv, SearchInv, ~Fault, UNCHANGED adapter,
         \/ FallbackFirstMode \/ FallbackAlternateMode \/ FallbackDescriptorGone
         \/ FallbackGivesUp
  PROVE  SearchInv'
  <1>1. /\ Shaped(stack) /\ stack # <<>> /\ Top.proc = "Fallback" /\ InFallback
        /\ NoRecovery(stack) /\ fdOpen /\ stack' = Callers
        /\ UNCHANGED <<fdOpen, miniReady>>
    BY DEF IInv, SearchInv, InFallback, session, Return, FallbackFirstMode,
           FallbackAlternateMode, FallbackDescriptorGone, FallbackGivesUp
  <1>2. /\ Shaped(stack') /\ stack' # <<>> /\ Waits(Top') /\ NoRecovery(stack')
        /\ Top'.proc # "Recover"
    <2>1. Shaped(stack') /\ stack' # <<>> /\ Waits(Top')
      BY <1>1, Returned
    <2>2. Callers = Popped(stack) /\ Top' = Last(stack')
      BY <1>1, Running DEF Top, Last
    <2> QED BY <1>1, <2>1, <2>2, NoRecoveryKept
  <1>3. CASE FallbackFirstMode \/ FallbackAlternateMode
    <2>1. ret' = "ok" /\ miniReady
      BY <1>3 DEF FallbackFirstMode, FallbackAlternateMode, Return, IInv, FlagInv
    <2> QED BY <1>1, <1>2, <2>1 DEF SearchInv, Waits, InFallback
  <1>4. CASE FallbackGivesUp
    <2>1. /\ Searched(Top, FALSE) /\ Top.bauds = <<>> /\ Top.modes = <<>>
          /\ Configure(Top.cfg, port.mode)
      BY <1>1, <1>4 DEF SearchInv, FallbackGivesUp
    <2>2. currentBaud' = Desired
      BY <2>1 DEF Configure, Searched
    <2>3. VainMode(Top.mode)
      BY <2>1, InNone DEF Searched, VainMode
    <2>4. AllVain
      BY <2>1, <2>3, InNone DEF Searched, AllVain
    <2>5. AllVain'
      BY <2>4 DEF AllVain, VainMode, Vain
    <2> QED BY <1>1, <1>2, <2>2, <2>5 DEF SearchInv, Waits, InFallback
  <1>5. ~FallbackDescriptorGone
    BY <1>1 DEF FallbackDescriptorGone
  <1> QED BY <1>3, <1>4, <1>5

\* A bootstrap is called, at the rate the port has now been set to.
LEMMA TrialBegins ==
  ASSUME Shaped(stack), stack # <<>>, NoRecovery(stack), NEW f \in Frames,
         f.proc = "Fallback", Top.proc = "Fallback",
         stack' = Replace(f) \o <<BootstrapFrame>>,
         fdOpen', Searched(f, TRUE)'
  PROVE  SearchInv'
  <1> DEFINE s == Replace(f)
  <1>1. /\ Shaped(s) /\ s # <<>> /\ Last(s) = f /\ NoRecovery(s)
    <2>1. /\ Top = Last(stack) /\ s = Append(Popped(stack), f) /\ Shaped(Popped(stack))
          /\ NoRecovery(Popped(stack))
      BY Running, PopShape, NoRecoveryKept DEF Replace
    <2> QED BY <2>1, ReplaceShape, NoRecoveryKept
  <1>2. stack' = s \o <<BootstrapFrame>>
    OBVIOUS
  <1> HIDE DEF s
  <1>3. /\ Shaped(stack') /\ stack' # <<>> /\ Last(stack') = BootstrapFrame
        /\ Popped(stack') = s /\ NoRecovery(stack')
    <2>1. Stands(BootstrapFrame, Last(s)) /\ BootstrapFrame.proc # "Recover"
      BY <1>1, Starts DEF Stands
    <2>2. stack' = Append(s, BootstrapFrame)
      BY <1>1, <1>2, <2>1, Starts, PushShape
    <2>3. /\ Shaped(Append(s, BootstrapFrame)) /\ Append(s, BootstrapFrame) # <<>>
          /\ Last(Append(s, BootstrapFrame)) = BootstrapFrame
          /\ Popped(Append(s, BootstrapFrame)) = s
      BY <1>1, <2>1, Starts, PushShape
    <2>4. NoRecovery(Append(s, BootstrapFrame))
      BY <1>1, <2>1, Starts, NoRecoveryKept
    <2> QED BY <2>2, <2>3, <2>4
  <1>4. Top' = BootstrapFrame /\ Callers' = s
    BY <1>3 DEF Top, Last, Callers, Popped
  <1>5. ~BootstrapFrame.lost /\ BootstrapFrame.proc = "Bootstrap"
    BY DEF BootstrapFrame
  <1>6. Searched(Last(Callers), TRUE)'
    BY <1>1, <1>4 DEF Last
  <1> QED BY <1>3, <1>4, <1>5, <1>6 DEF SearchInv, InFallback, Bottom

\* The rate that is tried or passed over leaves the list, and no other.
LEMMA NextBaudSearches ==
  ASSUME IInv, SearchInv, ~Fault, UNCHANGED adapter, FallbackNextBaud
  PROVE  SearchInv'
  <1> DEFINE alt == Head(Top.bauds)
  <1>0. PICK f : f = [Top EXCEPT !.bauds = Tail(Top.bauds)]
    OBVIOUS
  <1>1. /\ Shaped(stack) /\ stack # <<>> /\ Top \in Fallbacks /\ Top.proc = "Fallback"
        /\ NoRecovery(stack) /\ fdOpen /\ ret = "fail" /\ UNCHANGED <<fdOpen, miniReady>>
        /\ Searched(Top, FALSE) /\ Vain(currentBaud, port.mode) /\ Top.bauds # <<>>
    BY Running DEF IInv, SearchInv, FallbackNextBaud, InFallback, session
  <1>2. /\ Top.bauds \in Seq(Bauds) /\ alt \in Bauds /\ Tail(Top.bauds) \in Seq(Bauds)
        /\ \A b : In(b, Top.bauds) => b = alt \/ In(b, Tail(Top.bauds))
    <2>1. Top.bauds \in Seq(Bauds)
      BY <1>1 DEF Fallbacks
    <2> QED BY <1>1, <2>1, HeadTailProperties, InTail
  <1>3. /\ f \in Frames /\ f.proc = "Fallback" /\ f.cfg = Top.cfg /\ f.mode = Top.mode
        /\ f.modes = Top.modes /\ f.bauds = Tail(Top.bauds)
    BY <1>0, <1>1, <1>2 DEF Fallbacks, Frames
  <1>4. \/ alt = currentBaud /\ stack' = Replace(f) /\ UNCHANGED <<ret, line>>
        \/ /\ stack' = Replace(f) \o <<BootstrapFrame>>
           /\ currentBaud' = alt /\ port' = [port EXCEPT !.baud = LineSpeed(alt)]
    BY <1>0 DEF FallbackNextBaud
  <1>5. \A b \in Bauds : Vain(b, Top.mode) \/ b = alt \/ In(b, f.bauds)
    BY <1>1, <1>2, <1>3 DEF Searched
  <1>6. /\ Top.cfg = Desired /\ Top.mode = port.mode /\ port.baud = LineSpeed(currentBaud)
        /\ Top.mode = Preferred \/ VainMode(Preferred)
        /\ \A i \in 1..Len(AltModes) : \/ AltModes[i] = Top.mode \/ VainMode(AltModes[i])
                                       \/ In(AltModes[i], Top.modes)
    BY <1>1 DEF Searched
  <1> HIDE DEF alt
  <1>7. CASE alt = currentBaud /\ stack' = Replace(f) /\ UNCHANGED <<ret, line>>
    <2>1. stack' # <<>> /\ Top' = f /\ NoRecovery(stack')
      BY <1>1, <1>3, <1>7, GoesOn
    <2>2. Searched(f, FALSE)
      BY <1>1, <1>3, <1>5, <1>6, <1>7 DEF Searched
    <2>3. Searched(Top, FALSE)' /\ Vain(currentBaud, port.mode)'
      BY <1>1, <1>7, <2>1, <2>2 DEF Searched, Vain, VainMode, line
    <2> QED BY <1>1, <1>3, <1>7, <2>1, <2>3 DEF SearchInv, InFallback, Bottom
  <1>8. CASE /\ stack' = Replace(f) \o <<BootstrapFrame>>
             /\ currentBaud' = alt /\ port' = [port EXCEPT !.baud = LineSpeed(alt)]
    <2>1. port'.mode = port.mode /\ port'.baud = LineSpeed(currentBaud')
      BY <1>8 DEF IInv, FieldsOK
    <2>2. \A m : VainMode(m)' = VainMode(m)
      BY DEF VainMode, Vain
    <2>3. \A b, m : Vain(b, m)' = Vain(b, m)
      BY DEF Vain
    <2>4. Searched(f, TRUE)'
      BY <1>3, <1>5, <1>6, <1>8, <2>1, <2>2, <2>3 DEF Searched
    <2> QED BY <1>1, <1>3, <1>8, <2>4, TrialBegins
  <1> QED BY <1>4, <1>7, <1>8

\* A mode is left when every rate was tried in vain under it.
LEMMA NextModeSearches ==
  ASSUME IInv, SearchInv, ~Fault, UNCHANGED adapter, FallbackNextMode
  PROVE  SearchInv'
  <1> DEFINE alt == Head(Top.modes)
  <1>0. PICK f, g : f = [Top EXCEPT !.modes = Tail(Top.modes)] /\ g = ModeFrame(alt)
    OBVIOUS
  <1>1. /\ Shaped(stack) /\ stack # <<>> /\ Top \in Fallbacks /\ Top.proc = "Fallback"
        /\ NoRecovery(stack) /\ fdOpen /\ ret = "fail" /\ UNCHANGED <<fdOpen, miniReady>>
        /\ Searched(Top, FALSE) /\ Vain(currentBaud, port.mode)
        /\ Top.bauds = <<>> /\ Top.modes # <<>>
    BY Running DEF IInv, SearchInv, FallbackNextMode, InFallback, session
  <1>2. /\ Top.modes \in Seq(Modes) /\ alt \in Modes /\ Tail(Top.modes) \in Seq(Modes)
        /\ \A m : In(m, Top.modes) => m = alt \/ In(m, Tail(Top.modes))
    <2>1. Top.modes \in Seq(Modes)
      BY <1>1 DEF Fallbacks
    <2> QED BY <1>1, <2>1, HeadTailProperties, InTail
  <1>3. /\ f \in Frames /\ f.proc = "Fallback" /\ f.cfg = Top.cfg /\ f.mode = Top.mode
        /\ f.modes = Tail(Top.modes) /\ f.bauds = Top.bauds
    BY <1>0, <1>1, <1>2 DEF Fallbacks, Frames
  <1>4. /\ g \in Frames /\ g.proc = "Fallback" /\ g.cfg = Top.cfg /\ g.mode = alt
        /\ g.modes = Tail(Top.modes) /\ g.bauds = AltBauds
    BY <1>0, <1>1, <1>2, Rates DEF Fallbacks, Frames, ModeFrame
  <1>5. \/ alt = Preferred /\ stack' = Replace(f) /\ UNCHANGED <<ret, line>>
        \/ /\ alt # Preferred /\ stack' = Replace(g) \o <<BootstrapFrame>>
           /\ Configure(Top.cfg, alt)
    BY <1>0 DEF FallbackNextMode
  <1>6. /\ Top.cfg = Desired /\ Top.mode = port.mode /\ port.baud = LineSpeed(currentBaud)
        /\ Top.mode = Preferred \/ VainMode(Preferred)
        /\ VainMode(Top.mode)
        /\ \A i \in 1..Len(AltModes) : \/ VainMode(AltModes[i]) \/ AltModes[i] = alt
                                       \/ In(AltModes[i], Tail(Top.modes))
    BY <1>1, <1>2, InNone DEF Searched, VainMode
  <1>7. \A m : VainMode(m)' = VainMode(m)
    BY DEF VainMode, Vain
  <1> HIDE DEF alt
  <1>8. CASE alt = Preferred /\ stack' = Replace(f) /\ UNCHANGED <<ret, line>>
    <2>1. stack' # <<>> /\ Top' = f /\ NoRecovery(stack')
      BY <1>1, <1>3, <1>8, GoesOn
    <2>2. Searched(f, FALSE)
      BY <1>1, <1>3, <1>6, <1>8 DEF Searched, VainMode
    <2>3. Searched(Top, FALSE)' /\ Vain(currentBaud, port.mode)'
      BY <1>1, <1>8, <2>1, <2>2 DEF Searched, Vain, VainMode, line
    <2> QED BY <1>1, <1>3, <1>8, <2>1, <2>3 DEF SearchInv, InFallback, Bottom
  <1>9. CASE stack' = Replace(g) \o <<BootstrapFrame>> /\ Configure(Top.cfg, alt)
    <2>1. /\ currentBaud' = Desired /\ port'.baud = LineSpeed(Desired) /\ port'.mode = alt
      BY <1>6, <1>9 DEF Configure
    <2>2. \A b \in Bauds : b = Desired \/ In(b, AltBauds)
      BY DEF Bauds, In
    <2>3. VainMode(Preferred)
      BY <1>6
    <2>4. Searched(g, TRUE)'
      BY <1>4, <1>6, <1>7, <2>1, <2>2, <2>3 DEF Searched
    <2> QED BY <1>1, <1>4, <1>9, <2>4, TrialBegins
  <1> QED BY <1>5, <1>8, <1>9

\* A search begins with everything to be tried.
LEMMA SearchBegins ==
  ASSUME NEW f \in Frames, Bottom(f), Waits(f),
         stack' = <<f, FallbackFrame(Desired), BootstrapFrame>>,
         fdOpen', currentBaud' = Desired,
         port' = [baud |-> LineSpeed(Desired), mode |-> Preferred]
  PROVE  SearchInv'
  <1> DEFINE g == FallbackFrame(Desired)
             s == <<f>>
             t == Append(s, g)
  <1>1. /\ g \in Frames /\ g.proc = "Fallback" /\ g.cfg = Desired /\ g.mode = Preferred
        /\ g.modes = AltModes /\ g.bauds = AltBauds
    BY Starts, Rates DEF FallbackFrame
  <1>2. /\ BootstrapFrame \in Frames /\ BootstrapFrame.proc = "Bootstrap"
        /\ ~BootstrapFrame.lost
    BY Starts DEF BootstrapFrame
  <1>3. Shaped(s) /\ s # <<>> /\ Last(s) = f /\ NoRecovery(s)
    BY One DEF NoRecovery, Bottom
  <1>4. stack' = Append(t, BootstrapFrame)
    OBVIOUS
  <1> HIDE DEF g, s
  <1>5. Shaped(t) /\ t # <<>> /\ Last(t) = g /\ NoRecovery(t)
    BY <1>1, <1>3, PushShape, NoRecoveryKept DEF Stands
  <1> HIDE DEF t
  <1>6. /\ Shaped(stack') /\ stack' # <<>> /\ Last(stack') = BootstrapFrame
        /\ Popped(stack') = t /\ NoRecovery(stack')
    <2>1. Stands(BootstrapFrame, g)
      BY <1>1, <1>2 DEF Stands
    <2> QED BY <1>2, <1>4, <1>5, <2>1, PushShape, NoRecoveryKept
  <1>7. Top' = BootstrapFrame /\ Last(Callers)' = g
    BY <1>5, <1>6 DEF Top, Last, Callers, Popped
  <1>8. \A b \in Bauds : b = Desired \/ In(b, AltBauds)
    BY DEF Bauds, In
  <1>9. \A i \in 1..Len(AltModes) : In(AltModes[i], AltModes)
    BY DEF In
  <1>10. Searched(g, TRUE)'
    BY <1>1, <1>8, <1>9 DEF Searched
  <1> QED BY <1>2, <1>6, <1>7, <1>10 DEF SearchInv, InFallback, Bottom

\* Nothing is searched for, and the rate stays.
LEMMA NothingSearches ==
  ASSUME IInv, SearchInv, stack = <<>> \/ Bottom(Top),
         \/ stack' = <<>>
         \/ \E f \in Frames : Bottom(f) /\ stack' = <<f>>
         \/ stack # <<>> /\ \E f \in Frames : f.proc = Top.proc /\ stack' = Replace(f),
         stack' # <<>> => fdOpen', ret' # "fail",
         ~fdOpen' \/ UNCHANGED <<fdOpen, miniReady, currentBaud>> \/ currentBaud' = Desired
  PROVE  SearchInv'
  <1>1. fdOpen' => currentBaud' = Desired \/ miniReady'
    BY DEF SearchInv
  <1>2. NoRecovery(stack') /\ (stack' = <<>> \/ Bottom(Top'))
    <2>1. CASE stack' = <<>>
      BY <2>1 DEF NoRecovery
    <2>2. CASE \E f \in Frames : Bottom(f) /\ stack' = <<f>>
      BY <2>2 DEF NoRecovery, Bottom, Top
    <2>3. CASE stack # <<>> /\ \E f \in Frames : f.proc = Top.proc /\ stack' = Replace(f)
      BY <2>3, GoesOn DEF IInv, SearchInv, Bottom
    <2> QED BY <2>1, <2>2, <2>3
  <1> QED BY <1>1, <1>2 DEF SearchInv, InFallback, Bottom

\* open() and write() begin a search at the configured rate: a port that is
\* not ready has not been left at another.
LEMMA CallSearches ==
  ASSUME IInv, SearchInv, ~Fault, Call
  PROVE  SearchInv'
  <1>1. stack = <<>> /\ ret = "none"
    BY DEF Call, OpenFails, OpenStarts, Close, WriteRefused, WriteStarts, ReadStarts, Idle,
           IInv, FlagInv
  <1>2. ~OpenFails
    BY DEF OpenFails
  <1>3. CASE Close \/ WriteRefused
    BY <1>1, <1>3, NothingSearches DEF Close, Closed, WriteRefused, Finish, session, line
  <1>4. CASE OpenStarts
    <2>1. CASE Finish(STATUS_NOERROR)
      BY <1>1, <1>4, <2>1, NothingSearches DEF OpenStarts, Finish
    <2>2. CASE /\ port' = [baud |-> LineSpeed(Desired), mode |-> Preferred]
               /\ stack' = <<[proc |-> "Open", retried |-> FALSE],
                             FallbackFrame(Desired), BootstrapFrame>>
      <3> DEFINE f == [proc |-> "Open", retried |-> FALSE]
      <3>1. f \in Frames /\ Bottom(f) /\ Waits(f)
        BY DEF Frames, Opens, Bottom, Waits
      <3>2. /\ fdOpen' /\ currentBaud' = Desired
            /\ stack' = <<f, FallbackFrame(Desired), BootstrapFrame>>
        BY <1>4, <2>2 DEF OpenStarts
      <3> HIDE DEF f
      <3> QED BY <2>2, <3>1, <3>2, SearchBegins
    <2> QED BY <1>4, <2>1, <2>2 DEF OpenStarts
  <1>5. CASE WriteStarts
    <2>1. \A step \in {"boot", "refresh", "packet"} :
            WriteFrame(step) \in Frames /\ Bottom(WriteFrame(step))
      BY DEF WriteFrame, Writes, Frames, Bottom
    <2>2. CASE miniReady
      BY <1>1, <1>5, <2>1, <2>2, NothingSearches DEF WriteStarts, session, line
    <2>3. CASE ~miniReady
      <3>1. currentBaud = Desired
        BY <1>1, <1>5, <2>3 DEF WriteStarts, SearchInv
      <3> DEFINE f == WriteFrame("boot")
      <3>2. f \in Frames /\ Bottom(f) /\ Waits(f)
        BY <2>1 DEF WriteFrame, Waits
      <3>3. /\ fdOpen' /\ Configure(Desired, Preferred)
            /\ stack' = <<f>> \o <<FallbackFrame(Desired), BootstrapFrame>>
        BY <1>5, <2>3, <3>1 DEF WriteStarts, CallFallback, session
      <3>4. /\ currentBaud' = Desired
            /\ port' = [baud |-> LineSpeed(Desired), mode |-> Preferred]
        BY <3>3 DEF Configure
      <3> HIDE DEF f
      <3>5. stack' = <<f, FallbackFrame(Desired), BootstrapFrame>>
        BY <3>3, OneThenTwo
      <3> QED BY <3>2, <3>3, <3>4, <3>5, SearchBegins
    <2> QED BY <2>2, <2>3
  <1>6. CASE ReadStarts
    <2>1. \A quiet \in 1..MaxQuiet :
            ReadFrame("chunk", quiet) \in Frames /\ Bottom(ReadFrame("chunk", quiet))
      BY DEF ReadFrame, Reads, Frames, Bottom
    <2>2. UNCHANGED <<fdOpen, miniReady, currentBaud>>
      BY <1>6 DEF ReadStarts, session, line
    <2>3. CASE \E s : Finish(s)
      BY <1>1, <2>2, <2>3, NothingSearches DEF Finish
    <2>4. CASE fdOpen /\ UNCHANGED ret /\ \E quiet \in 1..MaxQuiet :
                                            stack' = <<ReadFrame("chunk", quiet)>>
      BY <1>1, <2>1, <2>2, <2>4, NothingSearches
    <2> QED BY <1>6, <2>3, <2>4 DEF ReadStarts
  <1> QED BY <1>2, <1>3, <1>4, <1>5, <1>6 DEF Call

\* So do the steps of the driver's calls when no fallback runs.
LEMMA CallStepSearches ==
  ASSUME IInv, SearchInv, ~Fault,
         \/ OpenReturns \/ WriteBootReturns \/ WriteRefresh \/ WritePacket
         \/ ReadChunk \/ ReadTickle
  PROVE  SearchInv'
  <1>1. /\ stack # <<>> /\ Bottom(Top) /\ fdOpen /\ Shaped(stack)
        /\ Exchanges(Top) => ret = "none"
    BY DEF OpenReturns, InOpen, WriteBootReturns, WriteRefresh, WritePacket, InWrite,
           ReadChunk, ReadTickle, InRead, Bottom, SearchInv, IInv, FlagInv
  <1>2. CASE OpenReturns
    BY <1>1, <1>2, NothingSearches DEF OpenReturns, Finish, Closed, session
  <1>3. ASSUME UNCHANGED <<session, line>>, \E s : Finish(s)
        PROVE  SearchInv'
    BY <1>1, <1>3, NothingSearches DEF Finish, session, line
  <1>4. ASSUME UNCHANGED <<session, line>>, NEW f \in Frames, f.proc = Top.proc,
               stack' = Replace(f), ret' # "fail"
        PROVE  SearchInv'
    BY <1>1, <1>4, NothingSearches DEF session, line
  <1>5. \A step \in {"boot", "refresh", "packet"} :
          WriteFrame(step) \in Frames /\ WriteFrame(step).proc = "Write"
    BY DEF WriteFrame, Writes, Frames
  <1>6. CASE WriteBootReturns
    BY <1>3, <1>4, <1>5, <1>6 DEF WriteBootReturns, InWrite
  <1>7. CASE WriteRefresh
    <2>1. ret' = "none"
      BY <1>1, <1>7 DEF WriteRefresh, InWrite, Exchanges
    <2> QED BY <1>4, <1>5, <1>7, <2>1 DEF WriteRefresh, InWrite
  <1>8. CASE WritePacket
    BY <1>3, <1>8 DEF WritePacket
  <1>9. CASE ReadChunk \/ ReadTickle
    <2>1. UNCHANGED <<session, line>> /\ Top.proc = "Read" /\ Top \in Reads
      BY <1>1, <1>9, Running DEF ReadChunk, ReadTickle, InRead
    <2>2. \A step \in {"chunk", "tickle"}, quiet \in 1..MaxQuiet :
            ReadFrame(step, quiet) \in Frames /\ ReadFrame(step, quiet).proc = "Read"
      BY DEF ReadFrame, Reads, Frames
    <2>3. Top.quiet \in 1..MaxQuiet /\ (Top.quiet # 1 => Top.quiet - 1 \in 1..MaxQuiet)
      BY <2>1, SessionAssumption DEF Reads
    <2>4. \/ \E s : Finish(s)
          \/ /\ ret' = ret
             /\ \/ Top.quiet # 1 /\ stack' = Replace(ReadFrame("chunk", Top.quiet - 1))
                \/ stack' = Replace(ReadFrame("tickle", Top.quiet))
      <3>1. CASE ReadTickle
        BY <3>1 DEF ReadTickle
      <3>2. CASE ReadChunk
        BY <3>2 DEF ReadChunk
      <3> QED BY <1>9, <3>1, <3>2
    <2>5. ret = "none"
      BY <1>1, <2>1 DEF Exchanges
    <2>6. PICK q : q = Top.quiet - 1
      OBVIOUS
    <2>7. PICK r : r = Top.quiet
      OBVIOUS
    <2> QED BY <1>3, <1>4, <2>1, <2>2, <2>3, <2>4, <2>5, <2>6, <2>7
  <1> QED BY <1>2, <1>6, <1>7, <1>8, <1>9

\* No step that is no fault ends a search too early.
LEMMA FaultlessNext ==
  ASSUME IInv, FaultlessInv, [Next]_vars
  PROVE  FaultlessInv'
  <1> SUFFICES ASSUME faults' = 0 PROVE SearchInv'
    BY DEF FaultlessInv
  <1>1. faults = 0 /\ ~Fault /\ UNCHANGED adapter
    BY FaultsCounted DEF Fault, IInv, FaultsOK, environment
  <1>2. SearchInv
    BY <1>1 DEF FaultlessInv
  <1>3. CASE Call
    BY <1>1, <1>2, <1>3, CallSearches
  <1>4. CASE \/ BootstrapStep
             \/ FallbackFirstMode \/ FallbackAlternateMode \/ FallbackDescriptorGone
             \/ FallbackNextBaud \/ FallbackNextMode \/ FallbackGivesUp
    BY <1>1, <1>2, <1>4, BootstrapSearches, FallbackReturnSearches, NextBaudSearches,
       NextModeSearches
  <1>5. CASE LoseForGood \/ Recover \/ OpenReopenFails
    BY <1>1, <1>5 DEF LoseForGood, Recover, OpenReopenFails
  <1>6. ~RecoverReturns
    BY <1>2, Running, NoRecoveryKept DEF RecoverReturns, SearchInv, IInv
  <1>7. ~OpenRetries
    BY <1>2 DEF OpenRetries, InOpen, SearchInv
  <1>8. CASE \/ OpenReturns \/ WriteBootReturns \/ WriteRefresh \/ WritePacket
             \/ ReadChunk \/ ReadTickle
    BY <1>1, <1>2, <1>8, CallStepSearches
  <1>9. CASE UNCHANGED vars
    <2>1. UNCHANGED <<stack, fdOpen, miniReady, currentBaud, port, ret, adapter>>
      BY <1>9 DEF vars, environment, session, line
    <2>2. Top' = Top /\ Callers' = Callers
      BY <2>1 DEF Top, Callers
    <2> QED BY <1>2, <2>1, <2>2
            DEF SearchInv, NoRecovery, InFallback, Searched, Last, AllVain, VainMode, Vain
  <1> QED BY <1>3, <1>4, <1>5, <1>6, <1>7, <1>8, <1>9 DEF Next, Step

\* Nothing has been searched for before the first call.
LEMMA FaultlessInit == Init => FaultlessInv
  <1> SUFFICES ASSUME Init PROVE SearchInv
    BY DEF FaultlessInv
  <1>1. stack = <<>> /\ fdOpen = FALSE /\ ret = "none"
    BY DEF Init
  <1> QED BY <1>1 DEF SearchInv, NoRecovery, InFallback

\* bootstrapWithFallback gives up only on an adapter that answers at none of
\* the rates and modes it may try, for every list of them and every order, as
\* long as nothing goes wrong on the way.
THEOREM FallbackIsExhaustive == Spec => []FallbackFindsAdapter
  <1>1. IInv /\ FaultlessInv => FallbackFindsAdapter
    <2> SUFFICES ASSUME IInv, FaultlessInv, GaveUp, faults = 0,
                        NEW b \in Bauds, adapter.baud = LineSpeed(b),
                        NEW m \in {Preferred} \cup {AltModes[i] : i \in 1..Len(AltModes)},
                        m \in adapter.modes
                 PROVE  FALSE
      BY DEF FallbackFindsAdapter
    <2>1. AllVain
      BY DEF FaultlessInv, SearchInv, GaveUp, Bottom
    <2>2. VainMode(m)
      BY <2>1 DEF AllVain
    <2> QED BY <2>2 DEF VainMode, Vain
  <1>2. Spec => [](IInv /\ FaultlessInv)
    BY InvInit, InvNext, FaultlessInit, FaultlessNext, PTL DEF Spec
  <1> QED BY <1>1, <1>2, PTL

----------------------------------------------------------------------------
(* The configured rate is kept.                                            *)
(*                                                                         *)
(* A fallback ends at the rate it was given or at one at which the adapter *)
(* was found.  What it is given depends on who called it: open() and       *)
(* write() give the configured rate, a recovery the rate the interrupted   *)
(* exchange had, which is that of the adapter once a bootstrap has heard   *)
(* its second acknowledgement.  The port takes every rate it is given.     *)

\* The adapter, which answers at a rate, does so on a line set for b.
Found(rate, b) == LineSpeed(b) = rate

\* What the frame that waits at n needs of the rate, for the frame below it if
\* it is a recovery.
Owed(rate, s, n, b) ==
  /\ s[n].proc # "Recover" => b = Desired
  /\ s[n].proc = "Recover" /\ s[n - 1].proc # "Bootstrap" => b = Desired \/ Found(rate, b)
  /\ s[n].proc = "Recover" /\ s[n - 1].proc = "Bootstrap" /\ s[n - 1].stage >= 5
       => Found(rate, b)

\* Every fallback on the stack goes back to a rate that is owed to its caller.
RatesOwed(rate, s) ==
  \A i \in 2..Len(s) : s[i].proc = "Fallback" => Owed(rate, s, i - 1, s[i].cfg)

\* What the running frame may assume of the rate of an open port.
RateHere ==
  /\ port.baud = LineSpeed(currentBaud)
  /\ stack = <<>> \/ (Exchanges(Top) /\ Top.proc # "Bootstrap")
       => currentBaud = Desired \/ (miniReady /\ Found(adapter.baud, currentBaud))
  /\ stack # <<>> /\ Top.proc = "Bootstrap" /\ Top.stage >= 5
       => Found(adapter.baud, currentBaud)
  /\ InFallback /\ ret = "ok" => Found(adapter.baud, currentBaud)
  /\ stack # <<>> /\ Waits(Top)
       => \/ Owed(adapter.baud, stack, Len(stack), currentBaud)
          \/ ret = "ok" /\ Found(adapter.baud, currentBaud)

RateInv ==
  /\ booted \in {NoBaud, adapter.baud}
  /\ RatesOwed(adapter.baud, stack)
  /\ fdOpen => RateHere

\* What is owed to a frame depends on the frames up to it.
LEMMA OwedSame ==
  ASSUME NEW rate, NEW b, NEW s, Shaped(s), NEW t, NEW n \in Nat, n >= 1, n <= Len(s),
         \A i \in 1..n : s[i] = t[i], Owed(rate, s, n, b)
  PROVE  Owed(rate, t, n, b)
  <1>1. s[n] = t[n] /\ (n # 1 => s[n - 1] = t[n - 1])
    OBVIOUS
  <1>2. n = 1 => s[n].proc # "Recover"
    <2>1. Len(s) \in Nat
      BY LenProperties DEF Shaped
    <2> QED BY <2>1 DEF Shaped, Bottom
  <1> QED BY <1>1, <1>2 DEF Owed

\* The frames below the last owe what they owed, and the last, if it is a
\* fallback, goes back to a rate its caller is owed.
LEMMA OwedPopped ==
  ASSUME NEW rate, NEW s, Shaped(s), s # <<>>, RatesOwed(rate, s)
  PROVE  /\ RatesOwed(rate, Popped(s))
         /\ Last(s).proc = "Fallback" => Owed(rate, Popped(s), Len(Popped(s)), Last(s).cfg)
  <1> DEFINE t == Popped(s)
  <1>1. /\ s \in Seq(Frames) /\ Len(s) \in Nat /\ Len(s) > 0 /\ Len(t) = Len(s) - 1
        /\ Shaped(t) /\ \A i \in 1..(Len(s) - 1) : t[i] = s[i]
    BY PopShape, PoppedElements DEF Shaped
  <1> HIDE DEF t
  <1>2. ASSUME NEW n \in Nat, n >= 1, n < Len(s), NEW b, Owed(rate, s, n, b)
        PROVE  Owed(rate, t, n, b)
    <2>1. \A i \in 1..n : s[i] = t[i]
      BY <1>1, <1>2
    <2> QED BY <1>1, <1>2, <2>1, OwedSame
  <1>3. ASSUME NEW i \in 2..Len(t), t[i].proc = "Fallback"
        PROVE  Owed(rate, t, i - 1, t[i].cfg)
    <2>1. i \in 2..Len(s) /\ t[i] = s[i] /\ i - 1 \in Nat /\ i - 1 >= 1 /\ i - 1 < Len(s)
      BY <1>1, <1>3
    <2>2. Owed(rate, s, i - 1, s[i].cfg)
      BY <1>3, <2>1 DEF RatesOwed
    <2> DEFINE n == i - 1
    <2>3. n \in Nat /\ n >= 1 /\ n < Len(s) /\ Owed(rate, s, n, s[i].cfg)
      BY <2>1, <2>2
    <2> HIDE DEF n
    <2>4. Owed(rate, t, n, s[i].cfg)
      BY <1>2, <2>3
    <2> QED BY <2>1, <2>4 DEF n
  <1>4. ASSUME Last(s).proc = "Fallback"
        PROVE  Owed(rate, t, Len(t), Last(s).cfg)
    <2>1. Len(s) # 1
      BY <1>1, <1>4 DEF Shaped, Bottom, Last
    <2>2. /\ Len(t) \in Nat /\ Len(t) >= 1 /\ Len(t) < Len(s)
          /\ Owed(rate, s, Len(t), Last(s).cfg)
      BY <1>1, <1>4, <2>1 DEF RatesOwed, Last
    <2> QED BY <1>2, <2>2
  <1> QED BY <1>3, <1>4 DEF RatesOwed, t

\* A frame that is called owes what its caller gives it.
LEMMA OwedPushed ==
  ASSUME NEW rate, NEW s, Shaped(s), RatesOwed(rate, s), NEW f \in Frames,
         f.proc = "Fallback" => s # <<>> /\ Owed(rate, s, Len(s), f.cfg)
  PROVE  RatesOwed(rate, Append(s, f))
  <1> DEFINE t == Append(s, f)
  <1>1. /\ s \in Seq(Frames) /\ Len(s) \in Nat /\ Len(t) = Len(s) + 1
        /\ \A i \in 1..Len(s) : t[i] = s[i]
        /\ t[Len(s) + 1] = f
    BY AppendProperties, LenProperties DEF Shaped
  <1> HIDE DEF t
  <1>2. ASSUME NEW n \in Nat, n >= 1, n <= Len(s), NEW b, Owed(rate, s, n, b)
        PROVE  Owed(rate, t, n, b)
    <2>1. \A i \in 1..n : s[i] = t[i]
      BY <1>1, <1>2
    <2> QED BY <1>1, <1>2, <2>1, OwedSame
  <1>3. ASSUME NEW i \in 2..Len(t), t[i].proc = "Fallback"
        PROVE  Owed(rate, t, i - 1, t[i].cfg)
    <2> DEFINE n == i - 1
    <2>1. n \in Nat /\ n >= 1 /\ n <= Len(s) /\ n + 1 = i
      BY <1>1, <1>3
    <2>2. CASE i \in 2..Len(s)
      <3>1. t[i] = s[i] /\ Owed(rate, s, n, s[i].cfg)
        BY <1>1, <1>3, <2>2 DEF RatesOwed
      <3> HIDE DEF n
      <3>2. Owed(rate, t, n, t[i].cfg)
        BY <1>2, <2>1, <3>1
      <3> QED BY <3>2 DEF n
    <2>3. CASE i = Len(s) + 1
      <3>1. t[i] = f /\ n = Len(s)
        BY <1>1, <2>3
      <3>2. Owed(rate, s, n, t[i].cfg)
        BY <1>3, <3>1
      <3> HIDE DEF n
      <3>3. Owed(rate, t, n, t[i].cfg)
        BY <1>2, <2>1, <3>2
      <3> QED BY <3>3 DEF n
    <2> QED BY <1>1, <2>2, <2>3
  <1> QED BY <1>3 DEF RatesOwed, t

\* A frame that goes on owes what it owed.
LEMMA OwedReplaced ==
  ASSUME NEW rate, Shaped(stack), stack # <<>>, RatesOwed(rate, stack), NEW f \in Frames,
         f.proc = Top.proc, f.proc = "Fallback" => f.cfg = Top.cfg
  PROVE  /\ RatesOwed(rate, Replace(f)) /\ Shaped(Replace(f)) /\ Replace(f) # <<>>
         /\ Last(Replace(f)) = f /\ Popped(Replace(f)) = Popped(stack)
         /\ Len(Replace(f)) = Len(stack)
  <1> DEFINE s == Popped(stack)
  <1>1. /\ Top = Last(stack) /\ Replace(f) = Append(s, f) /\ Shaped(s)
        /\ RatesOwed(rate, s)
        /\ f.proc = "Fallback" => Owed(rate, s, Len(s), f.cfg) /\ s # <<>>
    BY Running, PopShape, OwedPopped DEF Replace, Bottom
  <1>2. /\ Shaped(Append(s, f)) /\ Append(s, f) # <<>> /\ Last(Append(s, f)) = f
        /\ Popped(Append(s, f)) = s /\ Len(Append(s, f)) = Len(stack)
    BY <1>1, ReplaceShape
  <1> HIDE DEF s
  <1> QED BY <1>1, <1>2, OwedPushed DEF s

\* The rate of a frame that goes on at the same rate.
LEMMA StaysAtRate ==
  ASSUME IInv, RateInv, UNCHANGED adapter, NEW f \in Frames, f.proc = Top.proc,
         stack # <<>>, stack' = Replace(f), f.proc = "Fallback" => f.cfg = Top.cfg
  PROVE  /\ Top' = f /\ stack' # <<>> /\ Shaped(stack')
         /\ RatesOwed(adapter.baud, stack)'
  <1>1. Shaped(stack) /\ RatesOwed(adapter.baud, stack)
    BY DEF IInv, RateInv
  <1>2. RatesOwed(adapter.baud, stack') /\ stack' # <<>> /\ Last(stack') = f /\ Shaped(stack')
    BY <1>1, OwedReplaced
  <1>3. Top' = Last(stack')
    BY DEF Top, Last
  <1> QED BY <1>2, <1>3

\* A frame returns to one that is owed what it was.
LEMMA BackAtRate ==
  ASSUME IInv, RateInv, UNCHANGED adapter, stack # <<>>, stack' = Callers
  PROVE  /\ Shaped(stack') /\ RatesOwed(adapter.baud, stack)'
         /\ Top.proc = "Fallback"
              => /\ stack' # <<>> /\ Waits(Top')
                 /\ Owed(adapter.baud, stack', Len(stack'), Top.cfg)
  <1>1. Shaped(stack) /\ RatesOwed(adapter.baud, stack)
    BY DEF IInv, RateInv
  <1>2. Top = Last(stack) /\ stack' = Popped(stack)
    BY <1>1, Running
  <1> QED BY <1>1, <1>2, OwedPopped, Returned

\* A handshake whose second acknowledgement was heard has the line at the
\* adapter's rate, and any recovery since has brought it back to one.
LEMMA BootstrapAtRate ==
  ASSUME IInv, RateInv, UNCHANGED adapter, BootstrapStep
  PROVE  RateInv'
  <1>1. /\ Shaped(stack) /\ stack # <<>> /\ Top \in Bootstraps /\ Top.proc = "Bootstrap"
        /\ ret = "none" /\ UNCHANGED <<fdOpen, currentBaud, port>>
    BY Running DEF IInv, FlagInv, BootstrapStep, line, Exchanges
  <1>2. \A f \in Bootstraps : f \in Frames /\ f.proc = "Bootstrap"
    BY DEF Frames, Bootstraps
  <1>3. booted \in {NoBaud, adapter.baud} /\ (fdOpen => port.baud = LineSpeed(currentBaud))
    BY DEF RateInv, RateHere
  <1>4. CASE /\ \E f \in Bootstraps :
                  /\ stack' = Replace(f)
                  /\ f.stage >= 5 /\ fdOpen => Found(adapter.baud, currentBaud)
             /\ UNCHANGED booted
    <2>1. PICK f \in Bootstraps : /\ stack' = Replace(f)
                                  /\ f.stage >= 5 /\ fdOpen => Found(adapter.baud, currentBaud)
      BY <1>4
    <2>2. /\ Top' = f /\ stack' # <<>> /\ Top'.proc = "Bootstrap"
          /\ RatesOwed(adapter.baud, stack)'
      BY <1>1, <1>2, <2>1, StaysAtRate
    <2>3. fdOpen' => RateHere'
      BY <1>1, <1>3, <2>1, <2>2 DEF RateHere, InFallback, Waits
    <2> QED BY <1>3, <1>4, <2>2, <2>3 DEF RateInv
  <1>5. CASE /\ stack' = Callers /\ ret' = "ok" /\ Top.stage = 7
             /\ booted' = IF fdOpen THEN port.baud ELSE NoBaud
    <2>1. stack' # <<>> /\ Top'.proc = "Fallback" /\ RatesOwed(adapter.baud, stack)'
      BY <1>1, <1>5, Returned, BackAtRate
    <2>2. fdOpen => Found(adapter.baud, currentBaud)
      BY <1>1, <1>5 DEF RateInv, RateHere
    <2>3. booted' \in {NoBaud, adapter'.baud}
      BY <1>3, <1>5, <2>2 DEF Found
    <2>4. fdOpen' => RateHere'
      BY <1>1, <1>3, <2>1, <2>2 DEF RateHere, InFallback, Waits, Exchanges
    <2> QED BY <2>1, <2>3, <2>4 DEF RateInv
  <1>6. CASE stack' = Callers /\ ret' = "fail" /\ UNCHANGED booted
    <2>1. stack' # <<>> /\ Top'.proc = "Fallback" /\ RatesOwed(adapter.baud, stack)'
      BY <1>1, <1>6, Returned, BackAtRate
    <2>2. fdOpen' => RateHere'
      BY <1>1, <1>3, <1>6, <2>1 DEF RateHere, InFallback, Waits, Exchanges
    <2> QED BY <1>3, <1>6, <2>1, <2>2 DEF RateInv
  <1>7. PICK o \in {"done", "silent", "failed"} :
          /\ Exchange(o, Stages[Top.stage] # "write")
          /\ \/ /\ o = "done" \/ Tolerated(Top.stage)
                /\ Top.stage < 7
                /\ stack' = Replace(NextStage)
                /\ UNCHANGED <<ret, miniReady, booted>>
             \/ /\ o = "done" \/ Tolerated(Top.stage)
                /\ Top.stage = 7
                /\ miniReady' = TRUE
                /\ booted' = IF fdOpen THEN port.baud ELSE NoBaud
                /\ Return("ok")
             \/ /\ o # "done" /\ ~Tolerated(Top.stage)
                /\ Top.attempt < Attempts
                /\ stack' = Replace(RestartAttempt)
                /\ UNCHANGED <<ret, miniReady, booted>>
             \/ /\ o # "done" /\ ~Tolerated(Top.stage)
                /\ Top.attempt = Attempts
                /\ Return("fail")
                /\ UNCHANGED <<miniReady, booted>>
    BY DEF BootstrapStep
  <1>8. ASSUME Top.stage < 7, o = "done" \/ Tolerated(Top.stage)
        PROVE  /\ NextStage \in Bootstraps
               /\ NextStage.stage >= 5 /\ fdOpen => Found(adapter.baud, currentBaud)
    <2> DEFINE stage == Top.stage + 1
               lost == Top.lost /\ Stages[Top.stage] = "write"
    <2>1. stage \in 1..7 /\ lost \in BOOLEAN /\ Top.stage \in 1..7
      BY <1>1, <1>8 DEF Bootstraps
    <2>2. NextStage = [Top EXCEPT !.stage = stage, !.lost = lost]
      BY DEF NextStage
    <2>3. stage >= 5 => Top.stage = 4 \/ Top.stage >= 5
      BY <2>1
    <2>4. ASSUME Top.stage = 4, fdOpen PROVE Found(adapter.baud, currentBaud)
      <3>1. o = "done" /\ Stages[Top.stage] # "write"
        BY <1>8, <2>4 DEF Tolerated, Stages
      <3>2. Answers
        BY <1>7, <3>1 DEF Exchange
      <3> QED BY <1>3, <2>4, <3>2 DEF Answers, Found
    <2>5. ASSUME Top.stage >= 5, fdOpen PROVE Found(adapter.baud, currentBaud)
      BY <1>1, <2>5 DEF RateInv, RateHere
    <2>6. stage >= 5 /\ fdOpen => Found(adapter.baud, currentBaud)
      BY <2>3, <2>4, <2>5
    <2> HIDE DEF stage, lost
    <2>7. NextStage \in Bootstraps /\ NextStage.stage = stage
      BY <1>1, <2>1, <2>2 DEF Bootstraps
    <2> QED BY <2>6, <2>7
  <1>9. ASSUME Top.attempt < Attempts
        PROVE  RestartAttempt \in Bootstraps /\ RestartAttempt.stage = 1
    <2> DEFINE attempt == Top.attempt + 1
    <2>1. 1 \in 1..7 /\ attempt \in 1..Attempts
      BY <1>1, <1>9, SessionAssumption DEF Bootstraps
    <2>2. RestartAttempt = [Top EXCEPT !.attempt = attempt, !.stage = 1, !.lost = FALSE]
      BY DEF RestartAttempt
    <2> HIDE DEF attempt
    <2> QED BY <1>1, <2>1, <2>2 DEF Bootstraps
  <1> QED BY <1>4, <1>5, <1>6, <1>7, <1>8, <1>9 DEF Return

\* A port that refuses no rate is set to the one it is given.
LEMMA SetsRate ==
  ASSUME ~PortRefuses, NEW baud, NEW mode, Configure(baud, mode)
  PROVE  currentBaud' = baud /\ port'.baud = LineSpeed(baud)
  BY DEF Configure

\* bootstrapWithFallback() returns at a rate that is owed to its caller, or at
\* one at which the adapter was found.
LEMMA FallbackReturnsAtRate ==
  ASSUME IInv, RateInv, UNCHANGED adapter, ~PortRefuses,
         \/ FallbackFirstMode \/ FallbackAlternateMode \/ FallbackDescriptorGone
         \/ FallbackGivesUp
  PROVE  RateInv'
  <1>1. /\ stack # <<>> /\ Top.proc = "Fallback" /\ InFallback /\ stack' = Callers
        /\ UNCHANGED <<fdOpen, booted>>
    BY DEF InFallback, session, Return, FallbackFirstMode, FallbackAlternateMode,
           FallbackDescriptorGone, FallbackGivesUp
  <1>2. /\ RatesOwed(adapter.baud, stack)' /\ stack' # <<>> /\ Waits(Top')
        /\ Owed(adapter.baud, stack', Len(stack'), Top.cfg)
    BY <1>1, BackAtRate
  <1>3. ~Exchanges(Top') /\ Top'.proc # "Bootstrap" /\ Top'.proc # "Fallback"
    BY <1>2 DEF Waits, Exchanges
  <1>4. fdOpen => /\ port'.baud = LineSpeed(currentBaud')
                  /\ \/ currentBaud' = Top.cfg
                     \/ ret' = "ok" /\ Found(adapter.baud, currentBaud')
    <2>1. CASE FallbackFirstMode \/ FallbackGivesUp
      BY <2>1, SetsRate DEF FallbackFirstMode, FallbackGivesUp
    <2>2. CASE FallbackAlternateMode
      BY <1>1, <2>2 DEF FallbackAlternateMode, Return, line, RateInv, RateHere
    <2>3. CASE FallbackDescriptorGone
      BY <2>3 DEF FallbackDescriptorGone
    <2> QED BY <2>1, <2>2, <2>3
  <1>5. fdOpen' => RateHere'
    BY <1>1, <1>2, <1>3, <1>4 DEF RateHere, InFallback
  <1> QED BY <1>1, <1>2, <1>5 DEF RateInv

\* A bootstrap is called on the fallback that goes on.
LEMMA TrialAtRate ==
  ASSUME IInv, RateInv, UNCHANGED <<adapter, booted>>, NEW f \in Frames, InFallback,
         f.proc = "Fallback", f.cfg = Top.cfg, stack' = Replace(f) \o <<BootstrapFrame>>,
         port'.baud = LineSpeed(currentBaud')
  PROVE  RateInv'
  <1> DEFINE s == Replace(f)
  <1>1. Shaped(stack) /\ stack # <<>> /\ Top.proc = "Fallback" /\ RatesOwed(adapter.baud, stack)
    BY DEF IInv, RateInv, InFallback
  <1>2. RatesOwed(adapter.baud, s) /\ Shaped(s) /\ s # <<>> /\ Last(s) = f
    BY <1>1, OwedReplaced
  <1>3. stack' = s \o <<BootstrapFrame>>
    OBVIOUS
  <1> HIDE DEF s
  <1>4. Stands(BootstrapFrame, Last(s)) /\ BootstrapFrame.proc = "Bootstrap"
    BY <1>2, Starts DEF Stands
  <1>5. stack' = Append(s, BootstrapFrame)
    BY <1>2, <1>3, <1>4, Starts, PushShape
  <1>6. Append(s, BootstrapFrame) # <<>> /\ Last(Append(s, BootstrapFrame)) = BootstrapFrame
    BY <1>2, <1>4, Starts, PushShape
  <1>7. RatesOwed(adapter.baud, Append(s, BootstrapFrame))
    BY <1>2, <1>4, Starts, OwedPushed
  <1>8. Top' = BootstrapFrame /\ stack' # <<>> /\ BootstrapFrame.stage = 1
    BY <1>5, <1>6 DEF Top, Last, BootstrapFrame
  <1>9. RateHere'
    BY <1>4, <1>8 DEF RateHere, InFallback, Waits
  <1> QED BY <1>5, <1>7, <1>9 DEF RateInv

\* Or it tries another rate or mode.
LEMMA FallbackTriesAtRate ==
  ASSUME IInv, RateInv, UNCHANGED adapter, ~PortRefuses,
         FallbackNextBaud \/ FallbackNextMode
  PROVE  RateInv'
  <1>1. /\ Shaped(stack) /\ stack # <<>> /\ Top \in Fallbacks /\ Top.proc = "Fallback"
        /\ InFallback /\ UNCHANGED <<fdOpen, booted>> /\ ret = "fail" /\ fdOpen
        /\ port.baud = LineSpeed(currentBaud)
    BY Running DEF IInv, RateInv, RateHere, FallbackNextBaud, FallbackNextMode, InFallback,
                   session
  <1>2. PICK f, g, h : /\ f = [Top EXCEPT !.bauds = Tail(Top.bauds)]
                       /\ g = [Top EXCEPT !.modes = Tail(Top.modes)]
                       /\ h = ModeFrame(Head(Top.modes))
    OBVIOUS
  <1>3. Top.bauds # <<>> => f \in Frames /\ f.proc = "Fallback" /\ f.cfg = Top.cfg
    <2>1. Top.bauds # <<>> => Tail(Top.bauds) \in Seq(Bauds)
      BY <1>1, HeadTailProperties DEF Fallbacks
    <2> QED BY <1>1, <1>2, <2>1 DEF Fallbacks, Frames
  <1>4. Top.modes # <<>> => /\ g \in Frames /\ g.proc = "Fallback" /\ g.cfg = Top.cfg
                            /\ h \in Frames /\ h.proc = "Fallback" /\ h.cfg = Top.cfg
    <2>1. Top.modes # <<>> => Head(Top.modes) \in Modes /\ Tail(Top.modes) \in Seq(Modes)
      BY <1>1, HeadTailProperties DEF Fallbacks
    <2> QED BY <1>1, <1>2, <2>1, Rates DEF Fallbacks, Frames, ModeFrame
  <1>5. ASSUME NEW e \in Frames, e.proc = "Fallback", e.cfg = Top.cfg,
               stack' = Replace(e), UNCHANGED <<ret, line>>
        PROVE  RateInv'
    <2>1. Top' = e /\ stack' # <<>> /\ RatesOwed(adapter.baud, stack)'
      BY <1>1, <1>5, StaysAtRate
    <2>2. RateHere'
      BY <1>1, <1>5, <2>1 DEF RateHere, InFallback, Waits, Exchanges, line
    <2> QED BY <1>1, <2>1, <2>2 DEF RateInv
  <1>6. CASE FallbackNextBaud
    <2>1. \/ stack' = Replace(f) /\ UNCHANGED <<ret, line>>
          \/ /\ stack' = Replace(f) \o <<BootstrapFrame>>
             /\ currentBaud' = Head(Top.bauds)
             /\ port' = [port EXCEPT !.baud = LineSpeed(Head(Top.bauds))]
      BY <1>2, <1>6 DEF FallbackNextBaud
    <2>2. Top.bauds # <<>>
      BY <1>6 DEF FallbackNextBaud
    <2>3. CASE /\ stack' = Replace(f) \o <<BootstrapFrame>>
               /\ currentBaud' = Head(Top.bauds)
               /\ port' = [port EXCEPT !.baud = LineSpeed(Head(Top.bauds))]
      <3>1. port'.baud = LineSpeed(currentBaud')
        BY <2>3 DEF IInv, FieldsOK
      <3> QED BY <1>1, <1>3, <2>2, <2>3, <3>1, TrialAtRate
    <2> QED BY <1>3, <1>5, <2>1, <2>2, <2>3
  <1>7. CASE FallbackNextMode
    <2>1. \/ stack' = Replace(g) /\ UNCHANGED <<ret, line>>
          \/ /\ stack' = Replace(h) \o <<BootstrapFrame>>
             /\ Configure(Top.cfg, Head(Top.modes))
      BY <1>2, <1>7 DEF FallbackNextMode
    <2>2. Top.modes # <<>>
      BY <1>7 DEF FallbackNextMode
    <2>3. CASE stack' = Replace(h) \o <<BootstrapFrame>> /\ Configure(Top.cfg, Head(Top.modes))
      <3>1. port'.baud = LineSpeed(currentBaud')
        BY <2>3, SetsRate
      <3> QED BY <1>1, <1>4, <2>2, <2>3, <3>1, TrialAtRate
    <2> QED BY <1>4, <1>5, <2>1, <2>2, <2>3
  <1> QED BY <1>6, <1>7

\* A device that is gone has no rate.
LEMMA LossAtRate ==
  ASSUME IInv, RateInv, UNCHANGED adapter, LoseForGood
  PROVE  RateInv'
  <1>1. PICK f : f = [Top EXCEPT !.lost = TRUE]
    OBVIOUS
  <1>2. /\ f \in Frames /\ f.proc = Top.proc /\ Exchanges(Top) /\ stack # <<>>
        /\ stack' = Replace(f) /\ ~fdOpen' /\ booted' = NoBaud
    BY <1>1, Interrupted DEF LoseForGood
  <1>3. RatesOwed(adapter.baud, stack)'
    BY <1>2, StaysAtRate DEF Exchanges
  <1> QED BY <1>2, <1>3 DEF RateInv

\* A device that is back is set to the rate it was lost at, and that is what
\* the interrupted exchange is owed.
LEMMA RecoverAtRate ==
  ASSUME IInv, RateInv, UNCHANGED adapter, Recover
  PROVE  RateInv'
  <1>1. PICK f : f = [Top EXCEPT !.lost = TRUE]
    OBVIOUS
  <1>2. /\ f \in Frames /\ f.proc = Top.proc /\ Exchanges(Top) /\ stack # <<>> /\ Exchanges(f)
        /\ fdOpen /\ booted' = NoBaud /\ currentBaud' = currentBaud /\ ~miniReady'
        /\ port'.baud = LineSpeed(currentBaud) /\ ret = "none" /\ Shaped(stack)
        /\ currentBaud \in Bauds /\ UNCHANGED ret
        /\ Top.proc = "Bootstrap" => f.stage = Top.stage
    <2>1. /\ f \in Frames /\ f.proc = Top.proc /\ Exchanges(Top) /\ stack # <<>>
          /\ Exchanges(f) /\ ret = "none" /\ Shaped(stack) /\ fdOpen
      BY <1>1, Interrupted DEF Recover, AtExchange
    <2>2. Top.proc = "Bootstrap" => f.stage = Top.stage
      BY <1>1, <2>1, Running DEF Bootstraps
    <2>3. currentBaud \in Bauds
      BY <2>1 DEF IInv, FlagInv
    <2> QED BY <2>1, <2>2, <2>3 DEF Recover, NewDescriptor
  <1>3. /\ Top.proc # "Bootstrap"
             => currentBaud = Desired \/ (miniReady /\ Found(adapter.baud, currentBaud))
        /\ Top.proc = "Bootstrap" /\ Top.stage >= 5 => Found(adapter.baud, currentBaud)
    BY <1>2 DEF RateInv, RateHere
  <1>4. CASE ~config.bootstrap
    <2>1. stack' = Replace(f) /\ ~miniReady /\ Top.proc = "Read"
      BY <1>1, <1>2, <1>4 DEF Recover, Resume, IInv, FlagInv
    <2>2. Top' = f /\ stack' # <<>> /\ RatesOwed(adapter.baud, stack)'
      BY <1>2, <2>1, StaysAtRate
    <2>3. currentBaud = Desired
      BY <1>3, <2>1
    <2>4. RateHere'
      BY <1>2, <2>1, <2>2, <2>3 DEF RateHere, InFallback, Waits
    <2> QED BY <1>2, <2>2, <2>4 DEF RateInv
  <1>5. CASE config.bootstrap
    <2>1. PICK r, g, s, t : /\ r = [proc |-> "Recover"] /\ g = FallbackFrame(currentBaud)
                            /\ s = Replace(f) /\ t = Append(s, r)
      OBVIOUS
    <2>2. stack' = s \o <<r, g, BootstrapFrame>>
      BY <1>1, <1>5, <2>1 DEF Recover, Resume
    <2>3. RatesOwed(adapter.baud, s) /\ Shaped(s) /\ s # <<>> /\ Last(s) = f
      BY <1>2, <2>1, OwedReplaced DEF RateInv, Exchanges
    <2>4. /\ r \in Frames /\ r.proc = "Recover" /\ Waits(r) /\ Stands(r, f)
          /\ g \in Frames /\ g.proc = "Fallback" /\ g.cfg = currentBaud
          /\ BootstrapFrame \in Frames /\ BootstrapFrame.proc = "Bootstrap"
          /\ BootstrapFrame.stage = 1
      BY <1>2, <2>1, Starts DEF Waits, Stands, FallbackFrame, BootstrapFrame
    <2>5. /\ Shaped(t) /\ t # <<>> /\ Last(t) = r /\ Len(t) = Len(s) + 1
          /\ RatesOwed(adapter.baud, t)
      BY <2>1, <2>3, <2>4, PushShape, OwedPushed
    <2>6. Owed(adapter.baud, t, Len(t), currentBaud)
      <3>1. s \in Seq(Frames) /\ Len(s) \in Nat /\ Len(s) > 0
        BY <2>3, EmptySeq, LenProperties DEF Shaped
      <3>2. t[Len(s)] = s[Len(s)] /\ t[Len(s) + 1] = r
        BY <2>1, <2>4, <3>1, AppendProperties
      <3>3. t[Len(t)] = r /\ t[Len(t) - 1] = f
        BY <2>3, <2>5, <3>1, <3>2 DEF Last
      <3> QED BY <1>2, <1>3, <2>4, <3>3 DEF Owed
    <2>7. Stands(g, r) /\ Stands(BootstrapFrame, g)
      BY <2>4 DEF Stands
    <2>8. PICK u : u = Append(t, g)
      OBVIOUS
    <2>9. Shaped(u) /\ u # <<>> /\ Last(u) = g /\ RatesOwed(adapter.baud, u)
      BY <2>4, <2>5, <2>6, <2>7, <2>8, PushShape, OwedPushed
    <2>10. PICK v : v = Append(u, BootstrapFrame)
      OBVIOUS
    <2>11. v # <<>> /\ Last(v) = BootstrapFrame /\ RatesOwed(adapter.baud, v)
      BY <2>4, <2>7, <2>9, <2>10, PushShape, OwedPushed
    <2>12. stack' = v
      <3>1. s \in Seq(Frames)
        BY <2>3 DEF Shaped
      <3>2. s \o <<r, g, BootstrapFrame>>
              = Append(Append(Append(s, r), g), BootstrapFrame)
        BY <2>4, <3>1
      <3> QED BY <2>1, <2>2, <2>8, <2>10, <3>2
    <2>13. Top' = BootstrapFrame /\ stack' # <<>>
      BY <2>11, <2>12 DEF Top, Last
    <2>14. RateHere'
      BY <1>2, <2>4, <2>13 DEF RateHere, InFallback, Waits
    <2> QED BY <1>2, <2>11, <2>12, <2>14 DEF RateInv
  <1> QED BY <1>4, <1>5

\* The exchange a recovery returns to has the rate it was owed, or the port
\* is closed.
LEMMA RecoverReturnsAtRate ==
  ASSUME IInv, RateInv, UNCHANGED adapter, RecoverReturns
  PROVE  RateInv'
  <1>1. /\ Shaped(stack) /\ stack # <<>> /\ Top.proc = "Recover" /\ stack' = Callers
        /\ ret' = "none" /\ UNCHANGED <<miniReady, currentBaud, port>>
        /\ Waits(Top)
        /\ \/ ret = "ok" /\ UNCHANGED <<fdOpen, booted>>
           \/ ~fdOpen' /\ booted' = NoBaud
    BY DEF RecoverReturns, line, Waits, IInv
  <1>2. /\ RatesOwed(adapter.baud, stack)' /\ stack' # <<>> /\ Exchanges(Top')
        /\ Top'.proc # "Fallback" /\ ~Waits(Top')
    BY <1>1, BackAtRate, Returned DEF Exchanges, Waits
  <1>3. CASE ~fdOpen' /\ booted' = NoBaud
    BY <1>2, <1>3 DEF RateInv
  <1>4. CASE ret = "ok" /\ UNCHANGED <<fdOpen, booted>>
    <2>1. miniReady
      BY <1>4 DEF IInv, FlagInv
    <2>2. Top' = stack[Len(stack) - 1] /\ Top = stack[Len(stack)]
      <3>1. /\ Callers = Popped(stack) /\ Len(stack) \in Nat /\ Len(stack) > 0
            /\ Len(Popped(stack)) = Len(stack) - 1
            /\ \A i \in 1..(Len(stack) - 1) : Popped(stack)[i] = stack[i]
        BY <1>1, Running, PopShape, PoppedElements
      <3>2. Len(stack) # 1
        BY <1>1, <1>2, <3>1, PopShape DEF Shaped, Bottom, Top
      <3> QED BY <1>1, <3>1, <3>2 DEF Top
    <2>3. fdOpen => /\ port.baud = LineSpeed(currentBaud)
                    /\ \/ Owed(adapter.baud, stack, Len(stack), currentBaud)
                       \/ Found(adapter.baud, currentBaud)
      BY <1>1 DEF RateInv, RateHere
    <2>4. fdOpen => /\ Top'.proc # "Bootstrap" => \/ currentBaud = Desired
                                                  \/ Found(adapter.baud, currentBaud)
                    /\ Top'.proc = "Bootstrap" /\ Top'.stage >= 5
                         => Found(adapter.baud, currentBaud)
      BY <1>1, <2>2, <2>3 DEF Owed
    <2>5. fdOpen' => RateHere'
      BY <1>1, <1>2, <1>4, <2>1, <2>3, <2>4 DEF RateHere, InFallback
    <2> QED BY <1>2, <1>4, <2>5 DEF RateInv
  <1> QED BY <1>1, <1>3, <1>4

\* A call of the driver begins a search at the configured rate.
LEMMA SearchBeginsAtRate ==
  ASSUME NEW f \in Frames, Bottom(f), Waits(f), UNCHANGED adapter,
         stack' = <<f, FallbackFrame(Desired), BootstrapFrame>>,
         booted' \in {NoBaud, adapter.baud},
         currentBaud' = Desired, port'.baud = LineSpeed(Desired)
  PROVE  RateInv'
  <1> DEFINE g == FallbackFrame(Desired)
             s == <<f>>
             t == Append(s, g)
             u == Append(t, BootstrapFrame)
  <1>1. /\ g \in Frames /\ g.proc = "Fallback" /\ g.cfg = Desired
        /\ BootstrapFrame \in Frames /\ BootstrapFrame.proc = "Bootstrap"
        /\ BootstrapFrame.stage = 1
    BY Starts, Rates DEF FallbackFrame, BootstrapFrame
  <1>2. Shaped(s) /\ s # <<>> /\ Last(s) = f /\ Len(s) = 1 /\ s[1] = f
    BY One
  <1>3. RatesOwed(adapter.baud, s) /\ Owed(adapter.baud, s, Len(s), Desired)
    <2>1. f.proc # "Recover"
      BY DEF Bottom
    <2> QED BY <1>2, <2>1 DEF RatesOwed, Owed
  <1>4. stack' = u
    OBVIOUS
  <1>5. Stands(g, f) /\ Stands(BootstrapFrame, g)
    BY <1>1 DEF Stands
  <1> HIDE DEF g, s
  <1>6. Shaped(t) /\ t # <<>> /\ Last(t) = g /\ RatesOwed(adapter.baud, t)
    BY <1>1, <1>2, <1>3, <1>5, PushShape, OwedPushed
  <1> HIDE DEF t
  <1>7. u # <<>> /\ Last(u) = BootstrapFrame /\ RatesOwed(adapter.baud, u)
    BY <1>1, <1>5, <1>6, PushShape, OwedPushed
  <1> HIDE DEF u
  <1>8. Top' = BootstrapFrame /\ stack' # <<>>
    BY <1>4, <1>7 DEF Top, Last
  <1>9. RateHere'
    BY <1>1, <1>8 DEF RateHere, InFallback, Waits
  <1> QED BY <1>4, <1>7, <1>9 DEF RateInv

\* A call that ends or goes on without a search keeps the rate.
LEMMA NothingAtRate ==
  ASSUME IInv, RateInv, UNCHANGED adapter,
         \/ stack' = <<>>
         \/ \E f \in Frames : f.proc \in {"Write", "Read"} /\ Exchanges(f) /\ stack' = <<f>>
         \/ /\ stack # <<>> /\ Top.proc \in {"Write", "Read"}
            /\ \E f \in Frames : Exchanges(f) /\ f.proc = Top.proc /\ stack' = Replace(f),
         booted' \in {NoBaud, booted},
         fdOpen' => /\ port'.baud = LineSpeed(currentBaud')
                    /\ \/ currentBaud' = Desired
                       \/ miniReady' /\ Found(adapter.baud, currentBaud')
  PROVE  RateInv'
  <1>1. /\ RatesOwed(adapter.baud, stack)'
        /\ stack' # <<>> => Exchanges(Top') /\ Top'.proc \in {"Write", "Read"}
    <2>1. CASE stack' = <<>>
      BY <2>1 DEF RatesOwed
    <2>2. CASE \E f \in Frames : /\ f.proc \in {"Write", "Read"} /\ Exchanges(f)
                                 /\ stack' = <<f>>
      BY <2>2 DEF RatesOwed, Top
    <2>3. CASE /\ stack # <<>> /\ Top.proc \in {"Write", "Read"}
               /\ \E f \in Frames : Exchanges(f) /\ f.proc = Top.proc /\ stack' = Replace(f)
      BY <2>3, StaysAtRate
    <2> QED BY <2>1, <2>2, <2>3
  <1>2. fdOpen' => RateHere'
    BY <1>1 DEF RateHere, InFallback, Waits, Exchanges
  <1> QED BY <1>1, <1>2 DEF RateInv

\* What open() and write() find when the fallback they called is over.
LEMMA AnsweredAtRate ==
  ASSUME IInv, RateInv, stack # <<>>, Waits(Top), Top.proc # "Recover", fdOpen
  PROVE  /\ port.baud = LineSpeed(currentBaud)
         /\ currentBaud = Desired \/ (miniReady /\ Found(adapter.baud, currentBaud))
  BY DEF RateInv, RateHere, Owed, Top, IInv, FlagInv

\* open().
LEMMA OpenAtRate ==
  ASSUME IInv, RateInv, UNCHANGED adapter, ~PortRefuses,
         \/ OpenFails \/ OpenStarts \/ OpenRetries \/ OpenReopenFails
         \/ OpenReturns \/ Close
  PROVE  RateInv'
  <1>1. CASE OpenFails \/ Close
    <2>1. stack' = <<>> /\ ~fdOpen' /\ booted' = NoBaud
      BY <1>1 DEF OpenFails, Close, Closed, Finish, Idle
    <2> QED BY <2>1, NothingAtRate
  <1>2. \A retried \in BOOLEAN :
          LET f == [proc |-> "Open", retried |-> retried]
          IN f \in Frames /\ Bottom(f) /\ Waits(f) /\ f.proc = "Open"
    BY DEF Frames, Opens, Bottom, Waits
  <1>3. CASE OpenStarts
    <2>1. /\ booted' = NoBaud /\ currentBaud' = Desired /\ port'.baud = LineSpeed(Desired)
      BY <1>3 DEF OpenStarts
    <2>2. CASE stack' = <<>>
      BY <2>1, <2>2, NothingAtRate
    <2>3. CASE stack' = <<[proc |-> "Open", retried |-> FALSE],
                          FallbackFrame(Desired), BootstrapFrame>>
      <3> DEFINE f == [proc |-> "Open", retried |-> FALSE]
      <3>1. /\ f \in Frames /\ Bottom(f) /\ Waits(f)
            /\ stack' = <<f, FallbackFrame(Desired), BootstrapFrame>>
        BY <1>2, <2>3
      <3> HIDE DEF f
      <3> QED BY <2>1, <3>1, SearchBeginsAtRate
    <2> QED BY <1>3, <2>2, <2>3 DEF OpenStarts, Finish
  <1>4. CASE OpenRetries
    <2> DEFINE f == [proc |-> "Open", retried |-> TRUE]
    <2>1. f \in Frames /\ Bottom(f) /\ Waits(f)
      BY <1>2
    <2>2. /\ booted' = NoBaud /\ Configure(Desired, Preferred)
          /\ stack' = <<f>> \o <<FallbackFrame(Desired), BootstrapFrame>>
      BY <1>4 DEF OpenRetries, CallFallback, NewDescriptor
    <2> HIDE DEF f
    <2>3. currentBaud' = Desired /\ port'.baud = LineSpeed(Desired)
      BY <2>2, SetsRate
    <2>4. stack' = <<f, FallbackFrame(Desired), BootstrapFrame>>
      BY <2>2, OneThenTwo
    <2> QED BY <2>1, <2>2, <2>3, <2>4, SearchBeginsAtRate
  <1>5. CASE OpenReopenFails
    <2>1. PICK f : f = [Top EXCEPT !.retried = TRUE]
      OBVIOUS
    <2>2. /\ stack # <<>> /\ Top \in Opens /\ Top.proc = "Open" /\ ~fdOpen'
          /\ booted' = booted /\ stack' = Replace(f)
      BY <1>5, <2>1, Running DEF OpenReopenFails, InOpen, IInv, session
    <2>3. f \in Frames /\ f.proc = "Open"
      BY <2>1, <2>2 DEF Opens, Frames
    <2>4. RatesOwed(adapter.baud, stack)'
      BY <2>2, <2>3, StaysAtRate
    <2> QED BY <2>2, <2>4 DEF RateInv
  <1>6. CASE OpenReturns
    <2>1. stack # <<>> /\ Waits(Top) /\ Top.proc # "Recover" /\ stack' = <<>>
      BY <1>6 DEF OpenReturns, InOpen, Waits, Finish
    <2>2. CASE Closed
      BY <2>1, <2>2, NothingAtRate DEF Closed
    <2>3. CASE UNCHANGED <<session, currentBaud>>
      <3>1. UNCHANGED <<port, fdOpen, miniReady, booted, currentBaud>>
        BY <1>6, <2>3 DEF OpenReturns, session
      <3> QED BY <2>1, <3>1, AnsweredAtRate, NothingAtRate
    <2> QED BY <1>6, <2>2, <2>3 DEF OpenReturns
  <1> QED BY <1>1, <1>3, <1>4, <1>5, <1>6

\* write().
LEMMA WriteAtRate ==
  ASSUME IInv, RateInv, UNCHANGED adapter, ~PortRefuses,
         \/ WriteRefused \/ WriteStarts \/ WriteBootReturns \/ WriteRefresh
         \/ WritePacket
  PROVE  RateInv'
  <1>1. \A step \in {"boot", "refresh", "packet"} :
          /\ WriteFrame(step) \in Frames /\ WriteFrame(step).proc = "Write"
          /\ Bottom(WriteFrame(step))
          /\ step # "boot" => Exchanges(WriteFrame(step))
          /\ step = "boot" => Waits(WriteFrame(step))
    BY DEF WriteFrame, Writes, Frames, Bottom, Exchanges, Waits
  <1>2. ASSUME stack = <<>> \/ (Exchanges(Top) /\ Top.proc # "Bootstrap"), fdOpen
        PROVE  /\ port.baud = LineSpeed(currentBaud)
               /\ currentBaud = Desired \/ (miniReady /\ Found(adapter.baud, currentBaud))
    BY <1>2 DEF RateInv, RateHere
  <1>3. CASE WriteRefused \/ WritePacket
    <2>1. /\ stack' = <<>> /\ UNCHANGED <<fdOpen, miniReady, booted, currentBaud, port>>
          /\ stack = <<>> \/ (Exchanges(Top) /\ Top.proc # "Bootstrap")
      BY <1>3 DEF WriteRefused, WritePacket, InWrite, Idle, Finish, session, line, Exchanges
    <2> QED BY <1>2, <2>1, NothingAtRate
  <1>4. CASE WriteStarts
    <2>1. stack = <<>> /\ UNCHANGED <<fdOpen, miniReady, booted>> /\ fdOpen
      BY <1>4 DEF WriteStarts, Idle, session
    <2>2. CASE miniReady
      <3>1. stack' = <<WriteFrame("refresh")>> /\ UNCHANGED <<currentBaud, port>>
        BY <1>4, <2>2 DEF WriteStarts, line
      <3> QED BY <1>1, <1>2, <2>1, <3>1, NothingAtRate
    <2>3. CASE ~miniReady
      <3>1. currentBaud = Desired
        BY <1>2, <2>1, <2>3
      <3> DEFINE f == WriteFrame("boot")
      <3>2. f \in Frames /\ Bottom(f) /\ Waits(f)
        BY <1>1
      <3>3. /\ Configure(Desired, Preferred)
            /\ stack' = <<f>> \o <<FallbackFrame(Desired), BootstrapFrame>>
        BY <1>4, <2>3, <3>1 DEF WriteStarts, CallFallback
      <3> HIDE DEF f
      <3>4. currentBaud' = Desired /\ port'.baud = LineSpeed(Desired)
        BY <3>3, SetsRate
      <3>5. stack' = <<f, FallbackFrame(Desired), BootstrapFrame>>
        BY <3>3, OneThenTwo
      <3>6. booted' \in {NoBaud, adapter.baud}
        BY <2>1 DEF RateInv
      <3> QED BY <3>2, <3>4, <3>5, <3>6, SearchBeginsAtRate
    <2> QED BY <2>2, <2>3
  <1>5. CASE WriteBootReturns
    <2>1. /\ stack # <<>> /\ Waits(Top) /\ Top.proc = "Write"
          /\ UNCHANGED <<fdOpen, miniReady, booted, currentBaud, port>>
          /\ stack' = <<>> \/ stack' = Replace(WriteFrame("refresh"))
      BY <1>5 DEF WriteBootReturns, InWrite, Waits, Finish, session, line
    <2> QED BY <1>1, <2>1, AnsweredAtRate, NothingAtRate
  <1>6. CASE WriteRefresh
    <2>1. /\ stack # <<>> /\ Exchanges(Top) /\ Top.proc = "Write"
          /\ UNCHANGED <<fdOpen, miniReady, booted, currentBaud, port>>
          /\ stack' = Replace(WriteFrame("packet"))
      BY <1>6 DEF WriteRefresh, InWrite, Exchanges, session, line
    <2> QED BY <1>1, <1>2, <2>1, NothingAtRate
  <1> QED BY <1>3, <1>4, <1>5, <1>6

\* read().
LEMMA ReadAtRate ==
  ASSUME IInv, RateInv, UNCHANGED adapter, ReadStarts \/ ReadChunk \/ ReadTickle
  PROVE  RateInv'
  <1>1. /\ UNCHANGED <<fdOpen, miniReady, booted, currentBaud, port>>
        /\ stack = <<>> \/ (Exchanges(Top) /\ Top.proc = "Read")
    BY DEF ReadStarts, ReadChunk, ReadTickle, InRead, Idle, Exchanges, session, line
  <1>2. fdOpen => /\ port.baud = LineSpeed(currentBaud)
                  /\ \/ currentBaud = Desired
                     \/ miniReady /\ Found(adapter.baud, currentBaud)
    BY <1>1 DEF RateInv, RateHere
  <1>3. \A step \in {"chunk", "tickle"}, quiet \in 1..MaxQuiet :
          /\ ReadFrame(step, quiet) \in Frames /\ ReadFrame(step, quiet).proc = "Read"
          /\ Exchanges(ReadFrame(step, quiet))
    BY DEF ReadFrame, Reads, Frames, Exchanges
  <1>4. CASE stack' = <<>>
    BY <1>1, <1>2, <1>4, NothingAtRate
  <1>5. CASE \E quiet \in 1..MaxQuiet : stack' = <<ReadFrame("chunk", quiet)>>
    BY <1>1, <1>2, <1>3, <1>5, NothingAtRate
  <1>6. CASE /\ stack # <<>>
             /\ \E step \in {"chunk", "tickle"}, quiet \in 1..MaxQuiet :
                  stack' = Replace(ReadFrame(step, quiet))
    BY <1>1, <1>2, <1>3, <1>6, NothingAtRate
  <1>7. CASE ReadStarts
    BY <1>4, <1>5, <1>7 DEF ReadStarts, Finish
  <1>8. CASE ReadChunk \/ ReadTickle
    <2>1. stack # <<>> /\ Top.quiet \in 1..MaxQuiet
      BY <1>8, Running DEF ReadChunk, ReadTickle, InRead, IInv, Reads
    <2>2. Top.quiet # 1 => Top.quiet - 1 \in 1..MaxQuiet
      BY <2>1, SessionAssumption
    <2>3. \/ stack' = <<>>
          \/ Top.quiet # 1 /\ stack' = Replace(ReadFrame("chunk", Top.quiet - 1))
          \/ stack' = Replace(ReadFrame("tickle", Top.quiet))
      <3>1. CASE ReadTickle
        BY <3>1 DEF ReadTickle, Finish
      <3>2. CASE ReadChunk
        BY <3>2 DEF ReadChunk, Finish
      <3> QED BY <1>8, <3>1, <3>2
    <2> QED BY <1>4, <1>6, <2>1, <2>2, <2>3
  <1> QED BY <1>7, <1>8

\* Every step of a session whose port takes every rate.
LEMMA RateNext ==
  ASSUME ~PortRefuses, IInv, RateInv, [Next]_vars
  PROVE  RateInv'
  <1>1. UNCHANGED adapter
    BY FaultsCounted DEF environment
  <1>2. CASE Call
    BY <1>1, <1>2, OpenAtRate, WriteAtRate, ReadAtRate DEF Call
  <1>3. CASE Step
    BY <1>1, <1>3, BootstrapAtRate, FallbackReturnsAtRate, FallbackTriesAtRate, LossAtRate,
       RecoverAtRate, RecoverReturnsAtRate, OpenAtRate, WriteAtRate, ReadAtRate DEF Step
  <1>4. CASE UNCHANGED vars
    <2>1. UNCHANGED <<stack, fdOpen, miniReady, booted, currentBaud, port, ret, adapter>>
      BY <1>4 DEF vars, environment, session, line
    <2>2. Top' = Top
      BY <2>1 DEF Top
    <2> QED BY <2>1, <2>2 DEF RateInv, RateHere, InFallback
  <1> QED BY <1>2, <1>3, <1>4 DEF Next

\* There is no rate to keep before the first call.
LEMMA RateInit == Init => RateInv
  BY DEF Init, RateInv, RatesOwed

\* When a call ends with the port open, the port is at the configured rate or
\* in session at the adapter's, however many recoveries ran inside each other
\* and wherever they interrupted it (tryRecoverDevice, bootstrapWithFallback).
THEOREM RateIsKept ==
  ASSUME ~PortRefuses
  PROVE  Spec => []ConfiguredRateKept
  <1>1. IInv /\ RateInv => ConfiguredRateKept
    <2> SUFFICES ASSUME IInv, RateInv, stack = <<>>, fdOpen, currentBaud # Desired
                 PROVE  miniReady /\ booted = port.baud
      BY DEF ConfiguredRateKept
    <2>1. miniReady /\ LineSpeed(currentBaud) = adapter.baud
          /\ port.baud = LineSpeed(currentBaud)
      BY DEF RateInv, RateHere, Found
    <2> QED BY <2>1 DEF RateInv, IInv, FlagInv, ReadyMeansBooted
  <1>2. IInv /\ RateInv /\ [Next]_vars => RateInv'
    BY RateNext
  <1> QED BY <1>1, <1>2, InvInit, InvNext, RateInit, PTL DEF Spec

============================================================================
