--------------------------- MODULE DeviceLoopProofs ---------------------------
(***************************************************************************)
(* The loops never fall silent and the LEDs keep their times, for every    *)
(* choice of intervals and every moment at which a parent is won or lost.  *)
(*                                                                         *)
(* A loop sleeps until a timer event; so the heart of the invariant is     *)
(* that the timer it waits for is pending, due early enough, or that the   *)
(* event of its expiry is still queued.                                    *)
(***************************************************************************)
EXTENDS DeviceLoop, TLAPS

\* A timer is due within its interval; one that expired was due.
Timely(t, interval) ==
  /\ t.due <= now + interval
  /\ t.state = "expired" => t.due <= now
TimerInv ==
  /\ Timely(setupTimer, SendInterval) /\ Timely(keepTimer, KeepAlive)
  /\ sent <= now /\ asked <= now

\* The loop's timer will wake it in time, or has.
LoopInv ==
  program # "irrigation-valve" =>
    /\ Waited.state = "pending" => Waited.due <= sent + KeepAlive
    /\ Waited.state = "expired" => events > 0

\* One of the valve's timers will wake it in time, or has.
ValveInv ==
  program = "irrigation-valve" =>
    /\ setupTimer.state = "pending" => setupTimer.due <= sent + SendInterval
    /\ keepTimer.state = "pending" => keepTimer.due <= sent + KeepAlive
    /\ events > 0 \/ setupTimer.state = "pending" \/ keepTimer.state = "pending"

\* What a program that sets its timers waits for comes a SEND_INTERVAL after its
\* last SETUP, or later.
SpacedInv == program \in SetBased => Waited.due >= asked + SendInterval

\* The ctimer, while it runs, is due at the end of the last command or later, and
\* not past; it runs as long as a valve waters.
LampInv ==
  /\ offTimer.state = "pending" => now <= offTimer.due /\ until <= offTimer.due
  /\ program = "irrigation-valve" /\ led = "on" =>
       offTimer.state = "pending" /\ offTimer.due <= until

IInv ==
  /\ TypeOK /\ TimerInv /\ LoopInv /\ ValveInv /\ NeverSilent /\ SpacedInv
  /\ LampInv /\ WateringEnds

-------------------------------------------------------------------------------
(* Timers *)

\* The keep-alive interval is a number, no shorter than the set-up interval.
LEMMA KeepAliveLong == KeepAlive \in Nat /\ SendInterval \in Nat /\ SendInterval <= KeepAlive
BY IntervalAssumption DEF KeepAlive

\* A timer that is set is pending, a whole interval ahead.
LEMMA SetTimer ==
  ASSUME now \in Nat, NEW i \in Nat
  PROVE  Set(i) \in Timer /\ Set(i).state = "pending" /\ Set(i).due = now + i
BY DEF Set, Timer

\* A timer that is reset is pending and at most an interval ahead, however far
\* behind it was.
LEMMA ResetTimer ==
  ASSUME now \in Nat, NEW i \in Nat, NEW t \in Timer, t.due <= now + i
  PROVE  /\ Reset(t, i) \in Timer /\ Reset(t, i).state = "pending"
         /\ Reset(t, i).due <= now + i
BY DEF Reset, Timer

\* The same of the restart each program uses.
LEMMA AgainTimer ==
  ASSUME now \in Nat, NEW i \in Nat, NEW t \in Timer, t.due <= now + i
  PROVE  /\ Again(t, i) \in Timer /\ Again(t, i).state = "pending"
         /\ Again(t, i).due <= now + i
         /\ program \in SetBased => Again(t, i).due = now + i
<1>1. CASE program \in ResetBased
  BY <1>1, ResetTimer DEF Again, ResetBased, SetBased
<1>2. CASE program \notin ResetBased
  BY <1>2, SetTimer DEF Again
<1> QED BY <1>1, <1>2

\* Expiry keeps a timer's time, and posts an event when it changes its state.
LEMMA ExpiredTimer ==
  ASSUME now \in Nat, NEW t \in Timer
  PROVE  /\ Expired(t) \in Timer /\ Expired(t).due = t.due /\ Posted(t) \in {0, 1}
         /\ Expired(t).state = "pending" => t.state = "pending"
         /\ Expired(t).state = "expired" => t.state = "expired" \/ (t.due <= now /\ Posted(t) = 1)
BY DEF Expired, Posted, Due, Timer

-------------------------------------------------------------------------------
(* The steps *)

\* The invariant holds once the process has run up to its first wait.
LEMMA InitIInv == Init => IInv
<1> SUFFICES ASSUME Init PROVE IInv
  OBVIOUS
<1> USE KeepAliveLong
<1>1. TypeOK
  BY DEF Init, TypeOK, Timer, Programs, ResetBased, SetBased
<1>2. TimerInv /\ NeverSilent
  BY DEF Init, TimerInv, Timely, NeverSilent
<1>3. LoopInv /\ ValveInv /\ SpacedInv
  BY DEF Init, LoopInv, ValveInv, SpacedInv, Waited
<1>4. LampInv /\ WateringEnds
  BY DEF Init, LampInv, WateringEnds
<1> QED BY <1>1, <1>2, <1>3, <1>4 DEF IInv

\* Time only passes while the loop sleeps, and then something is pending and not
\* due before now + 1.
LEMMA TickStep == IInv /\ Tick => IInv'
<1> SUFFICES ASSUME IInv, Tick PROVE IInv'
  OBVIOUS
<1> USE KeepAliveLong DEF IInv, Tick, loop, lamp
<1>0. KeepAlive' = KeepAlive /\ Waited' = Waited
  BY DEF KeepAlive, Waited
<1>1. TypeOK' /\ TimerInv'
  BY <1>0 DEF TypeOK, TimerInv, Timely, Timer
<1>2. LoopInv' /\ ValveInv' /\ SpacedInv'
  BY <1>0 DEF LoopInv, ValveInv, SpacedInv
<1>3. NeverSilent'
  <2>1. CASE program = "irrigation-valve"
    BY <1>0, <2>1 DEF ValveInv, NeverSilent, Due, TypeOK, Timer
  <2>2. CASE program # "irrigation-valve"
    <3>1. Waited \in {setupTimer, keepTimer} /\ Waited.state = "pending" /\ ~Due(Waited)
      BY <2>2 DEF Waited, LoopInv, TypeOK, Timer
    <3> QED BY <1>0, <2>2, <3>1 DEF LoopInv, NeverSilent, Due, TypeOK, Timer
  <2> QED BY <2>1, <2>2
<1>4. LampInv' /\ WateringEnds'
  BY DEF LampInv, WateringEnds, Due, TypeOK, Timer
<1> QED BY <1>1, <1>2, <1>3, <1>4

\* What expires leaves an event behind.
LEMMA ExpireStep == IInv /\ Expire => IInv'
<1> SUFFICES ASSUME IInv, Expire PROVE IInv'
  OBVIOUS
<1> USE KeepAliveLong DEF IInv, Expire, lamp
<1>0. KeepAlive' = KeepAlive
  BY DEF KeepAlive
<1>1. /\ now \in Nat /\ setupTimer \in Timer /\ keepTimer \in Timer
      /\ events \in Nat /\ events' \in Nat /\ events' >= events
      /\ setupTimer'.due = setupTimer.due /\ keepTimer'.due = keepTimer.due
      /\ setupTimer' \in Timer /\ keepTimer' \in Timer
  BY ExpiredTimer DEF TypeOK
<1>2. /\ setupTimer'.state = "pending" => setupTimer.state = "pending"
      /\ setupTimer'.state = "expired" =>
           setupTimer.state = "expired" \/ (setupTimer.due <= now /\ events' > 0)
  BY <1>1, ExpiredTimer
<1>3. /\ keepTimer'.state = "pending" => keepTimer.state = "pending"
      /\ keepTimer'.state = "expired" =>
           keepTimer.state = "expired" \/ (keepTimer.due <= now /\ events' > 0)
  BY <1>1, ExpiredTimer
<1>4. TypeOK' /\ TimerInv'
  BY <1>0, <1>1, <1>2, <1>3 DEF TypeOK, TimerInv, Timely
<1>5. LoopInv' /\ SpacedInv'
  BY <1>0, <1>1, <1>2, <1>3 DEF LoopInv, SpacedInv, Waited, Timer
<1>6. ValveInv'
  BY <1>0, <1>1, <1>2, <1>3 DEF ValveInv, Timer
<1>7. NeverSilent' /\ LampInv' /\ WateringEnds'
  BY <1>0 DEF NeverSilent, LampInv, WateringEnds
<1> QED BY <1>4, <1>5, <1>6, <1>7

\* Each branch of the loop leaves the timer it goes on to wait for pending.
LEMMA LoopStep == IInv /\ Loop => IInv'
<1> SUFFICES ASSUME IInv, Loop PROVE IInv'
  OBVIOUS
<1> USE KeepAliveLong DEF IInv, Woken, lamp
<1>0. KeepAlive' = KeepAlive /\ now \in Nat /\ setupTimer \in Timer /\ keepTimer \in Timer
  BY DEF Loop, Yield, Ask, Query, Report, KeepAlive, TypeOK
<1>l. LampInv' /\ WateringEnds'
  BY DEF Loop, Yield, Ask, Query, Report, LampInv, WateringEnds
<1>v. ValveInv'
  BY DEF Loop, Yield, Ask, Query, Report, ValveInv
<1>a. /\ Again(setupTimer, SendInterval) \in Timer
      /\ Again(setupTimer, SendInterval).state = "pending"
      /\ Again(setupTimer, SendInterval).due <= now + SendInterval
      /\ program \in SetBased => Again(setupTimer, SendInterval).due = now + SendInterval
  BY <1>0, AgainTimer DEF TimerInv, Timely
<1>b. /\ Again(keepTimer, KeepAlive) \in Timer
      /\ Again(keepTimer, KeepAlive).state = "pending"
      /\ Again(keepTimer, KeepAlive).due <= now + KeepAlive
      /\ program \in SetBased => Again(keepTimer, KeepAlive).due = now + KeepAlive
  BY <1>0, AgainTimer DEF TimerInv, Timely
<1>c. /\ Reset(setupTimer, SendInterval) \in Timer
      /\ Reset(setupTimer, SendInterval).state = "pending"
      /\ Reset(setupTimer, SendInterval).due <= now + SendInterval
  BY <1>0, ResetTimer DEF TimerInv, Timely
<1>d. /\ Reset(keepTimer, KeepAlive) \in Timer
      /\ Reset(keepTimer, KeepAlive).state = "pending"
      /\ Reset(keepTimer, KeepAlive).due <= now + KeepAlive
  BY <1>0, ResetTimer DEF TimerInv, Timely
<1>1. CASE Yield
  <2>1. TypeOK' /\ TimerInv' /\ NeverSilent'
    BY <1>0, <1>1 DEF Yield, TypeOK, TimerInv, Timely, NeverSilent
  <2>2. LoopInv' /\ SpacedInv'
    BY <1>0, <1>1 DEF Yield, LoopInv, SpacedInv, Waited
  <2> QED BY <1>l, <1>v, <2>1, <2>2
<1>2. CASE Ask
  <2>1. TypeOK'
    BY <1>0, <1>2, <1>a, <1>d DEF Ask, TypeOK
  <2>2. TimerInv' /\ NeverSilent'
    BY <1>0, <1>2, <1>a, <1>d DEF Ask, TypeOK, TimerInv, Timely, NeverSilent
  <2>3. LoopInv' /\ SpacedInv'
    BY <1>0, <1>2, <1>a DEF Ask, LoopInv, SpacedInv, Waited, Timer
  <2> QED BY <1>l, <1>v, <2>1, <2>2, <2>3
<1>3. CASE Query
  <2>1. TypeOK'
    BY <1>0, <1>3, <1>a DEF Query, TypeOK
  <2>2. TimerInv' /\ NeverSilent'
    BY <1>0, <1>3, <1>a DEF Query, TypeOK, TimerInv, Timely, NeverSilent
  <2>3. LoopInv' /\ SpacedInv'
    BY <1>0, <1>3, <1>a DEF Query, LoopInv, SpacedInv, Waited, Timer, TimerInv, TypeOK
  <2> QED BY <1>l, <1>v, <2>1, <2>2, <2>3
<1>4. CASE Report
  <2>1. TypeOK'
    BY <1>0, <1>4, <1>b, <1>c DEF Report, TypeOK, Counted
  <2>2. TimerInv' /\ NeverSilent'
    BY <1>0, <1>4, <1>b, <1>c DEF Report, TypeOK, TimerInv, Timely, NeverSilent
  <2>3. LoopInv' /\ SpacedInv'
    BY <1>0, <1>4, <1>b DEF Report, LoopInv, SpacedInv, Waited, Timer, TimerInv, TypeOK
  <2> QED BY <1>l, <1>v, <2>1, <2>2, <2>3
<1> QED BY <1>1, <1>2, <1>3, <1>4 DEF Loop

\* Whichever event wakes the valve, one of its timers is pending afterwards.
LEMMA ValveStep == IInv /\ Valve => IInv'
<1> SUFFICES ASSUME IInv, Valve PROVE IInv'
  OBVIOUS
<1> USE KeepAliveLong DEF IInv, ValveWoken, lamp
<1>0. KeepAlive' = KeepAlive /\ now \in Nat /\ program = "irrigation-valve" /\ program' = program
  BY DEF Valve, ValveAsk, ValveReport, ValveYield, KeepAlive, TypeOK
<1>l. LampInv' /\ WateringEnds' /\ LoopInv' /\ SpacedInv'
  BY <1>0 DEF Valve, ValveAsk, ValveReport, ValveYield, LampInv, WateringEnds, LoopInv,
              SpacedInv, SetBased
<1>1. CASE ValveAsk
  <2>1. TypeOK' /\ TimerInv' /\ NeverSilent'
    BY <1>0, <1>1, SetTimer DEF ValveAsk, TypeOK, TimerInv, Timely, NeverSilent
  <2>2. ValveInv'
    BY <1>0, <1>1, SetTimer DEF ValveAsk, TypeOK, TimerInv, ValveInv, Timer
  <2> QED BY <1>l, <2>1, <2>2
<1>2. CASE ValveReport
  <2>1. TypeOK' /\ TimerInv' /\ NeverSilent'
    BY <1>0, <1>2, SetTimer DEF ValveReport, TypeOK, TimerInv, Timely, NeverSilent, Counted
  <2>2. ValveInv'
    BY <1>0, <1>2, SetTimer DEF ValveReport, TypeOK, TimerInv, ValveInv, Timer
  <2> QED BY <1>l, <2>1, <2>2
<1>3. CASE ValveYield
  <2>1. TypeOK' /\ TimerInv' /\ NeverSilent'
    BY <1>0, <1>3 DEF ValveYield, TypeOK, TimerInv, Timely, NeverSilent
  <2>2. ValveInv'
    BY <1>0, <1>3 DEF ValveYield, ValveInv
  <2> QED BY <1>l, <2>1, <2>2
<1> QED BY <1>1, <1>2, <1>3 DEF Valve

\* A packet received or a callback does not touch the loop's timers; a command
\* sets the ctimer to the end it asks for.
LEMMA PacketStep == IInv /\ (Adopt \/ Command \/ TurnOff) => IInv'
<1> SUFFICES ASSUME IInv, Adopt \/ Command \/ TurnOff PROVE IInv'
  OBVIOUS
<1> USE KeepAliveLong DEF IInv, loop
<1>0. /\ KeepAlive' = KeepAlive /\ now \in Nat /\ offTimer \in Timer
      /\ program' = program /\ now' = now /\ Waited' = Waited
      /\ UNCHANGED loop /\ sent' \in {sent, now}
  BY DEF Adopt, Command, TurnOff, Irrigate, SwitchOn, SwitchOff, SwitchOnFor, KeepAlive,
         TypeOK, Waited
<1>1. TimerInv' /\ NeverSilent'
  <2>1. TimerInv'
    BY <1>0 DEF TimerInv, Timely, TypeOK
  <2>2. now' - sent' <= KeepAlive'
    <3>1. CASE sent' = sent
      BY <1>0, <3>1 DEF NeverSilent
    <3>2. CASE sent' = now
      BY <1>0, <3>2
    <3> QED BY <1>0, <3>1, <3>2
  <2> QED BY <2>1, <2>2 DEF NeverSilent
<1>2. LoopInv' /\ SpacedInv'
  BY <1>0 DEF LoopInv, SpacedInv, TimerInv, TypeOK, Timer, Waited
<1>3. ValveInv'
  BY <1>0 DEF ValveInv, TimerInv, TypeOK, Timer
<1>4. TypeOK' /\ LampInv' /\ WateringEnds'
  <2>1. CASE Adopt
    BY <2>1, <1>0 DEF Adopt, lamp, TypeOK, LampInv, WateringEnds
  <2>2. ASSUME NEW t \in Durations, Irrigate(t) PROVE TypeOK' /\ LampInv' /\ WateringEnds'
    <3>1. t \in Nat
      BY BoundAssumption
    <3> QED BY <2>2, <3>1, <1>0, SetTimer DEF Irrigate, OnFor, Counted, TypeOK, LampInv, WateringEnds
  <2>3. ASSUME NEW t \in Durations, SwitchOnFor(t) PROVE TypeOK' /\ LampInv' /\ WateringEnds'
    <3>1. t \in Nat
      BY BoundAssumption
    <3> QED BY <2>3, <3>1, <1>0, SetTimer DEF SwitchOnFor, OnFor, TypeOK, LampInv, WateringEnds
  <2>4. CASE SwitchOn
    BY <2>4, <1>0 DEF SwitchOn, TypeOK, LampInv, WateringEnds
  <2>5. CASE SwitchOff
    BY <2>5, <1>0 DEF SwitchOff, TypeOK, LampInv, WateringEnds, Timer
  <2>6. CASE TurnOff
    BY <2>6, <1>0 DEF TurnOff, Expired, Due, TypeOK, LampInv, WateringEnds, Timer
  <2> QED BY <2>1, <2>2, <2>3, <2>4, <2>5, <2>6 DEF Command
<1> QED BY <1>1, <1>2, <1>3, <1>4

\* The invariant is inductive.
LEMMA StepIInv == IInv /\ [Next]_vars => IInv'
<1> SUFFICES ASSUME IInv, [Next]_vars PROVE IInv'
  OBVIOUS
<1>1. CASE Next
  BY <1>1, TickStep, ExpireStep, LoopStep, ValveStep, PacketStep DEF Next
<1>2. CASE UNCHANGED vars
  BY <1>2 DEF vars, loop, lamp, IInv, TypeOK, TimerInv, Timely, LoopInv, ValveInv, SpacedInv,
              LampInv, WateringEnds, NeverSilent, Waited, KeepAlive
<1> QED BY <1>1, <1>2

-------------------------------------------------------------------------------
(* The theorems *)

\* The inductive invariant holds of every behaviour.
THEOREM LoopInvariance == Spec => []IInv
BY InitIInv, StepIInv, PTL DEF Spec

\* The variables have their types, the count of queries its bound.
THEOREM LoopTypes == Spec => []TypeOK
<1>1. IInv => TypeOK
  BY DEF IInv
<1> QED BY <1>1, LoopInvariance, PTL

\* Whatever the intervals, no device is silent for longer than its keep-alive.
THEOREM LoopsNeverSilent == Spec => []NeverSilent
<1>1. IInv => NeverSilent
  BY DEF IInv
<1> QED BY <1>1, LoopInvariance, PTL

\* Water stops at the end of the last command, also without a parent.
THEOREM WateringStops == Spec => []WateringEnds
<1>1. IInv => WateringEnds
  BY DEF IInv
<1> QED BY <1>1, LoopInvariance, PTL

\* A bulb or a mobile leaves a SEND_INTERVAL between two SETUPs: when it asks, the
\* timer it waited for has expired, and so was due.
THEOREM SetupsApart == Spec => SetupsSpaced
<1>1. IInv /\ [Next]_vars => [Ask /\ program \in SetBased => now >= asked + SendInterval]_vars
  <2> SUFFICES ASSUME IInv, Ask, program \in SetBased PROVE now >= asked + SendInterval
    OBVIOUS
  <2>1. Waited.due >= asked + SendInterval /\ Waited.state = "expired"
    BY DEF IInv, SpacedInv, Ask
  <2>2. Waited \in Timer /\ Waited.due <= now
    BY <2>1 DEF IInv, TypeOK, TimerInv, Timely, Waited
  <2> QED BY <2>1, <2>2, KeepAliveLong DEF IInv, TypeOK, Timer
<1> QED BY <1>1, LoopInvariance, PTL DEF Spec, SetupsSpaced

\* Nothing goes off before the end of the last command.
THEOREM OnForItsTime == Spec => OnInFull
<1>1. IInv /\ [Next]_vars => [led = "on" /\ led' = "off" => now >= until']_vars
  <2> SUFFICES ASSUME IInv, Next, led = "on", led' = "off" PROVE now >= until'
    BY DEF vars
  <2>1. SwitchOff \/ TurnOff
    BY DEF Next, Tick, Expire, Loop, Yield, Ask, Query, Report, Valve, ValveAsk, ValveReport,
           ValveYield, Adopt, Command, Irrigate, SwitchOnFor, SwitchOn, OnFor, lamp
  <2> QED BY <2>1 DEF SwitchOff, TurnOff, IInv, TypeOK, LampInv, Due, Timer
<1> QED BY <1>1, LoopInvariance, PTL DEF Spec, OnInFull
===============================================================================
