----------------------------- MODULE CC2420Proofs -----------------------------
(***************************************************************************)
(* Theorems about the radio driver, for a FIFO of any size: the lock is    *)
(* held exactly inside an operation, and no frame is left unnoticed in the *)
(* FIFO.                                                                   *)
(***************************************************************************)
EXTENDS CC2420, TLAPS

\* The three parts of TypeOK: the switches of the driver and the chip, the place
\* in the program, and the FIFO.
Switches ==
  /\ lock_on \in {0, 1} /\ lock_off \in {0, 1} /\ receive_on \in {0, 1}
  /\ poll_mode \in BOOLEAN /\ send_on_cca \in BOOLEAN /\ carrier \in BOOLEAN
  /\ was_on \in {0, 1} /\ op \in Followed \cup {"none", "sent"}
  /\ ie \in BOOLEAN /\ ifg \in BOOLEAN /\ polled \in BOOLEAN
  /\ rf \in {"off", "rx", "tx"} /\ sfd \in BOOLEAN
Place == pc \in Inside \cup Outside
Buffer == fifo \in Seq(Frames) /\ Len(fifo) <= FifoFrames /\ overflow \in BOOLEAN

\* What NoFrameStranded needs besides: the poll mode, whose change clears the
\* interrupt flag, is set with the radio off and nothing to read, and it stays so
\* because the radio is only turned on by the holder of the lock; a frame is
\* received only while the chip listens.
ModeQuiet == pc = "mode" => rf = "off" /\ ~FIFOP
ReceivesOn == sfd => rf = "rx"

IInv ==
  Switches /\ Place /\ Buffer /\ LockHeld /\ NoFrameStranded /\ ModeQuiet /\ ReceivesOn

LEMMA IInvInit == Init => IInv
<1> SUFFICES ASSUME Init PROVE IInv
  OBVIOUS
<1>1. Switches
  BY DEF Init, Switches
<1>2. pc \in Outside /\ pc \notin Inside
  BY DEF Init, Inside, Outside
<1>3. Place /\ LockHeld
  BY <1>2 DEF Init, Place, LockHeld
<1>4. fifo = <<>> /\ overflow = FALSE
  BY DEF Init
<1>5. Buffer
  <2>1. fifo \in Seq(Frames) /\ Len(fifo) = 0
    BY <1>4
  <2>2. 0 <= FifoFrames
    BY FifoAssumption
  <2>3. QED
    BY <1>4, <2>1, <2>2 DEF Buffer
<1>6. NoFrameStranded /\ ModeQuiet /\ ReceivesOn
  BY DEF Init, NoFrameStranded, ModeQuiet, ReceivesOn, FIFOP
<1>7. QED
  BY <1>1, <1>3, <1>5, <1>6 DEF IInv

\* The FIFO emptied.
LEMMA EmptyBuffer ==
  ASSUME fifo' = <<>>, overflow' = FALSE
  PROVE  Buffer'
<1>1. fifo' \in Seq(Frames) /\ Len(fifo') = 0
  OBVIOUS
<1>2. 0 <= FifoFrames
  BY FifoAssumption
<1>3. QED
  BY <1>1, <1>2 DEF Buffer

\* A frame that fits is added to the FIFO.
LEMMA BufferAppend ==
  ASSUME Buffer, Len(fifo) # FifoFrames, NEW f \in Frames, fifo' = Append(fifo, f),
         overflow' \in BOOLEAN
  PROVE  Buffer'
<1>1. Len(fifo) + 1 <= FifoFrames
  BY FifoAssumption DEF Buffer
<1>2. fifo' \in Seq(Frames) /\ Len(fifo') = Len(fifo) + 1
  BY DEF Buffer
<1>3. QED
  BY <1>1, <1>2 DEF Buffer

\* The chip: a frame that is complete raises FIFOP, or waits behind one that did.
LEMMA ChipKeeps ==
  ASSUME IInv, FrameBegins \/ FrameEnds \/ TransmissionEnds
  PROVE  IInv'
<1> USE DEF IInv, lock, modes, irq, chip, rx
<1>1. CASE FrameBegins
  <2>1. Switches' /\ ReceivesOn'
    BY <1>1 DEF FrameBegins, Switches, ReceivesOn
  <2>2. Place' /\ LockHeld' /\ Buffer'
    BY <1>1 DEF FrameBegins, Place, LockHeld, Buffer
  <2>3. NoFrameStranded' /\ ModeQuiet'
    BY <1>1 DEF FrameBegins, NoFrameStranded, ModeQuiet, FIFOP
  <2>4. QED
    BY <2>1, <2>2, <2>3
<1>2. CASE FrameEnds
  <2>1. Buffer'
    <3>1. CASE overflow \/ Len(fifo) = FifoFrames
      BY <1>2, <3>1 DEF FrameEnds, Buffer
    <3>2. CASE ~(overflow \/ Len(fifo) = FifoFrames)
      BY <1>2, <3>2, BufferAppend DEF FrameEnds
    <3>3. QED
      BY <3>1, <3>2
  <2>2. Switches' /\ ReceivesOn'
    <3>1. UNCHANGED <<lock, receive_on, modes, op, ie, polled>> /\ rf' \in {"rx", "tx"}
      BY <1>2 DEF FrameEnds
    <3>2. sfd' \in BOOLEAN /\ ~sfd'
      BY <1>2 DEF FrameEnds
    <3>3. ifg' \in BOOLEAN
      BY <1>2 DEF FrameEnds
    <3>4. QED
      BY <3>1, <3>2, <3>3 DEF Switches, ReceivesOn
  <2>3. Place' /\ LockHeld'
    BY <1>2 DEF FrameEnds, Place, LockHeld
  <2>4. NoFrameStranded'
    BY <1>2 DEF FrameEnds, NoFrameStranded, FIFOP
  <2>5. ModeQuiet'
    BY <1>2 DEF FrameEnds, ModeQuiet, ReceivesOn
  <2>6. QED
    BY <2>1, <2>2, <2>3, <2>4, <2>5
<1>3. CASE TransmissionEnds
  <2>1. Switches' /\ ReceivesOn'
    BY <1>3 DEF TransmissionEnds, Switches, ReceivesOn
  <2>2. Place' /\ LockHeld' /\ Buffer'
    BY <1>3 DEF TransmissionEnds, Place, LockHeld, Buffer
  <2>3. NoFrameStranded' /\ ModeQuiet'
    BY <1>3 DEF TransmissionEnds, NoFrameStranded, ModeQuiet, FIFOP
  <2>4. QED
    BY <2>1, <2>2, <2>3
<1>4. QED
  BY <1>1, <1>2, <1>3

\* Interrupts leave the step of main alone, and switch the radio only while the
\* lock is free, which it is not while the poll mode is set.
LEMMA InterruptsKeep ==
  ASSUME IInv, Interrupt \/ DeferOn \/ DeferOff \/ Switch(0) \/ Switch(1)
  PROVE  IInv'
<1> USE DEF IInv, lock, modes, irq, chip, rx
<1>1. CASE Interrupt
  <2>1. Switches' /\ ReceivesOn'
    <3>1. UNCHANGED <<lock, receive_on, modes, op, ie, chip>>
      BY <1>1 DEF Interrupt
    <3>2. ifg' \in BOOLEAN /\ polled' \in BOOLEAN
      BY <1>1 DEF Interrupt
    <3>3. QED
      BY <3>1, <3>2 DEF Switches, ReceivesOn
  <2>2. Place' /\ LockHeld' /\ Buffer'
    BY <1>1 DEF Interrupt, Place, LockHeld, Buffer
  <2>3. NoFrameStranded' /\ ModeQuiet'
    BY <1>1 DEF Interrupt, NoFrameStranded, ModeQuiet, FIFOP
  <2>4. QED
    BY <2>1, <2>2, <2>3
<1>2. CASE DeferOn \/ DeferOff
  <2>1. Switches' /\ ReceivesOn'
    BY <1>2 DEF DeferOn, DeferOff, Switches, ReceivesOn
  <2>2. Place' /\ LockHeld' /\ Buffer'
    BY <1>2 DEF DeferOn, DeferOff, Place, LockHeld, Buffer
  <2>3. NoFrameStranded' /\ ModeQuiet'
    BY <1>2 DEF DeferOn, DeferOff, NoFrameStranded, ModeQuiet, FIFOP
  <2>4. QED
    BY <2>1, <2>2, <2>3
<1>3. ASSUME NEW on \in {0, 1}, Switch(on)
      PROVE  IInv'
  <2>1. Settled(on) \in {0, 1}
    BY DEF Settled
  <2>2. Switches' /\ ReceivesOn'
    BY <1>3, <2>1 DEF Switch, Switches, ReceivesOn
  <2>3. Place' /\ LockHeld' /\ Buffer'
    BY <1>3 DEF Switch, Place, LockHeld, Buffer
  <2>4. "mode" \in Inside
    BY DEF Inside
  <2>5. pc # "mode"
    BY <1>3, <2>4 DEF Switch, LockHeld
  <2>6. NoFrameStranded' /\ ModeQuiet'
    BY <1>3, <2>5 DEF Switch, NoFrameStranded, ModeQuiet, FIFOP
  <2>7. QED
    BY <2>2, <2>3, <2>6
<1>4. QED
  BY <1>1, <1>2, <1>3

\* A step of main that stays inside an operation, or outside, and touches neither
\* the FIFO nor the notices of it.
LEMMA StepKeeps ==
  ASSUME IInv, NEW p, NEW q, Step(p, q),
         p \in Inside <=> q \in Inside, q \in Inside \cup Outside, q # "mode",
         p \notin {"read", "check"},
         UNCHANGED <<locked, ifg, polled, rx, poll_mode>>,
         Switches', ReceivesOn'
  PROVE  IInv'
<1> USE DEF IInv, rx
<1>1. pc = p /\ pc' = q
  BY DEF Step
<1>2. Place'
  BY <1>1 DEF Place
<1>3. LockHeld'
  BY <1>1 DEF LockHeld
<1>4. NoFrameStranded' /\ Buffer'
  BY <1>1 DEF NoFrameStranded, FIFOP, Buffer
<1>5. QED
  BY <1>1, <1>2, <1>3, <1>4 DEF ModeQuiet

\* on() and off(): each step stays where it was, inside or outside.
LEMMA SwitchingKeeps ==
  ASSUME IInv, Switching
  PROVE  IInv'
<1> USE DEF IInv, lock, modes, irq, chip, rx
<1>1. ASSUME NEW p, NEW q,
             \/ p = "on" /\ q = "listen"
             \/ p = "deferred_on" /\ q = "deferred_listen"
             \/ p = "test_on" /\ q = "test_listen",
             Receiver(p, q)
      PROVE  IInv'
  <2>0. Receiver(p, q)
    BY <1>1
  <2>1. Step(p, q) /\ p \notin {"read", "check"} /\ q # "mode"
    BY <1>1 DEF Receiver
  <2>2. (p \in Inside <=> q \in Inside) /\ q \in Inside \cup Outside
    BY <1>1 DEF Inside, Outside
  <2>3. Switches' /\ ReceivesOn'
    <3>1. UNCHANGED <<lock, receive_on, modes, op, ifg, polled>> /\ rf' = "rx"
      BY <2>0 DEF Receiver
    <3>2. sfd' \in BOOLEAN /\ ~sfd' /\ ie' \in BOOLEAN
      BY <2>0 DEF Receiver, Switches
    <3>3. QED
      BY <3>1, <3>2 DEF Switches, ReceivesOn
  <2>4. UNCHANGED <<locked, ifg, polled, rx, poll_mode>>
    BY <2>0 DEF Receiver
  <2>5. QED
    BY <2>1, <2>2, <2>3, <2>4, StepKeeps
<1>2. ASSUME NEW p, NEW q,
             \/ p = "listen" /\ q = "release"
             \/ p = "deferred_listen" /\ q = "served_on"
             \/ p = "test_listen" /\ q = "idle",
             Listen(p, q)
      PROVE  IInv'
  <2>0. Listen(p, q)
    BY <1>2
  <2>1. Step(p, q) /\ p \notin {"read", "check"} /\ q # "mode"
    BY <1>2 DEF Listen
  <2>2. (p \in Inside <=> q \in Inside) /\ q \in Inside \cup Outside
    BY <1>2 DEF Inside, Outside
  <2>3. Switches' /\ ReceivesOn'
    <3>1. Switches'
      BY <2>0 DEF Listen, Switches
    <3>2. ReceivesOn'
      BY <2>0 DEF Listen, ReceivesOn
    <3>3. QED
      BY <3>1, <3>2
  <2>4. UNCHANGED <<locked, ifg, polled, rx, poll_mode>>
    BY <2>0 DEF Listen
  <2>5. QED
    BY <2>1, <2>2, <2>3, <2>4, StepKeeps
<1>3. ASSUME NEW p, NEW q,
             \/ p = "off" /\ q = "silence"
             \/ p = "deferred_off" /\ q = "deferred_silence"
             \/ p = "test_off" /\ q = "test_silence",
             Off(p, q)
      PROVE  IInv'
  <2>0. Off(p, q)
    BY <1>3
  <2>1. Step(p, q) /\ p \notin {"read", "check"} /\ q # "mode"
    BY <1>3 DEF Off
  <2>2. (p \in Inside <=> q \in Inside) /\ q \in Inside \cup Outside
    BY <1>3 DEF Inside, Outside
  <2>3. Switches' /\ ReceivesOn'
    <3>1. Switches'
      BY <2>0 DEF Off, Switches
    <3>2. ReceivesOn'
      BY <2>0 DEF Off, ReceivesOn
    <3>3. QED
      BY <3>1, <3>2
  <2>4. UNCHANGED <<locked, ifg, polled, rx, poll_mode>>
    BY <2>0 DEF Off
  <2>5. QED
    BY <2>1, <2>2, <2>3, <2>4, StepKeeps
<1>4. ASSUME NEW p, NEW q,
             \/ p = "silence" /\ q = "release"
             \/ p = "deferred_silence" /\ q = "served_off"
             \/ p = "test_silence" /\ q = "carrier",
             Silence(p, q)
      PROVE  IInv'
  <2>0. Silence(p, q)
    BY <1>4
  <2>1. Step(p, q) /\ p \notin {"read", "check"} /\ q # "mode"
    BY <1>4 DEF Silence
  <2>2. (p \in Inside <=> q \in Inside) /\ q \in Inside \cup Outside
    BY <1>4 DEF Inside, Outside
  <2>3. Switches' /\ ReceivesOn'
    <3>1. UNCHANGED <<lock, receive_on, modes, op, ifg, polled>> /\ rf' = "off"
      BY <2>0 DEF Silence
    <3>2. sfd' \in BOOLEAN /\ ~sfd' /\ ie' \in BOOLEAN
      BY <2>0 DEF Silence, Switches
    <3>3. QED
      BY <3>1, <3>2 DEF Switches, ReceivesOn
  <2>4. UNCHANGED <<locked, ifg, polled, rx, poll_mode>>
    BY <2>0 DEF Silence
  <2>5. QED
    BY <2>1, <2>2, <2>3, <2>4, StepKeeps
<1>5. CASE \/ Receiver("on", "listen")
           \/ Receiver("deferred_on", "deferred_listen")
           \/ Receiver("test_on", "test_listen")
  BY <1>1, <1>5
<1>6. CASE \/ Listen("listen", "release")
           \/ Listen("deferred_listen", "served_on")
           \/ Listen("test_listen", "idle")
  BY <1>2, <1>6
<1>7. CASE \/ Off("off", "silence")
           \/ Off("deferred_off", "deferred_silence")
           \/ Off("test_off", "test_silence")
  BY <1>3, <1>7
<1>8. CASE \/ Silence("silence", "release")
           \/ Silence("deferred_silence", "served_off")
           \/ Silence("test_silence", "carrier")
  BY <1>4, <1>8
<1>9. QED
  BY <1>5, <1>6, <1>7, <1>8 DEF Switching

\* Taking the lock: main is outside, so the lock is free.
LEMMA GetLockKeeps ==
  ASSUME IInv, NEW from \in Outside, NEW o \in Inside, GetLock(from, o),
         o = "mode" => rf = "off" /\ ~FIFOP
  PROVE  IInv'
<1> USE DEF IInv, modes, irq, chip, rx
<1>1. pc = from /\ pc' = o
  BY DEF GetLock, Step
<1>2. from \notin Inside /\ from \notin {"read", "check"}
  BY DEF Inside, Outside
<1>3. Switches' /\ ReceivesOn'
  BY DEF GetLock, Switches, ReceivesOn
<1>4. Place' /\ LockHeld'
  BY <1>1, <1>2 DEF GetLock, Place, LockHeld
<1>5. Buffer' /\ NoFrameStranded' /\ ModeQuiet'
  BY <1>1, <1>2 DEF GetLock, Buffer, NoFrameStranded, ModeQuiet, FIFOP
<1>6. QED
  BY <1>3, <1>4, <1>5

LEMMA CallsKeep ==
  ASSUME IInv, Call \/ CallPollMode \/ PollModeRead
  PROVE  IInv'
<1>1. "idle" \in Outside
  BY DEF Outside
<1>2. CASE Call
  <2>1. PICK o \in {"prepare", "setting", "channel", "transmit", "rssi", "cca", "on", "to_off"} :
          GetLock("idle", o)
    BY <1>2 DEF Call
  <2>2. o \in Inside /\ o # "mode"
    BY DEF Inside
  <2>3. QED
    BY <1>1, <2>1, <2>2, GetLockKeeps
<1>3. CASE CallPollMode
  <2>1. "mode" \in Inside
    BY DEF Inside
  <2>2. QED
    BY <1>1, <1>3, <2>1, GetLockKeeps DEF CallPollMode
<1>4. CASE PollModeRead
  <2>1. "read" \in Inside /\ "read" # "mode"
    BY DEF Inside
  <2>2. QED
    BY <1>1, <1>4, <2>1, GetLockKeeps DEF PollModeRead
<1>5. QED
  BY <1>2, <1>3, <1>4

\* The release of the lock, up to its last step, stays inside; that step leaves.
LEMMA ReleasingKeeps ==
  ASSUME IInv, ReleaseOn \/ ServedOn \/ ReleaseOff \/ ServedOff \/ Unlock
  PROVE  IInv'
<1> USE DEF IInv, lock, modes, irq, chip, rx
<1>1. CASE ReleaseOn
  <2>1. PICK q \in {"deferred_on", "release_off"} : Step("release", q)
    BY <1>1 DEF ReleaseOn
  <2>2. ("release" \in Inside <=> q \in Inside) /\ q \in Inside \cup Outside /\ q # "mode"
    BY DEF Inside, Outside
  <2>3. Switches'
    BY <1>1 DEF ReleaseOn, Switches
  <2>4. ReceivesOn'
    BY <1>1 DEF ReleaseOn, ReceivesOn
  <2>5. UNCHANGED <<locked, ifg, polled, rx, poll_mode>>
    BY <1>1 DEF ReleaseOn
  <2>6. QED
    BY <2>1, <2>2, <2>3, <2>4, <2>5, StepKeeps
<1>2. CASE ServedOn
  <2>1. PICK q \in {"release_off"} : Step("served_on", q)
    BY <1>2 DEF ServedOn
  <2>2. ("served_on" \in Inside <=> q \in Inside) /\ q \in Inside \cup Outside /\ q # "mode"
    BY DEF Inside, Outside
  <2>3. Switches'
    BY <1>2 DEF ServedOn, Switches
  <2>4. ReceivesOn'
    BY <1>2 DEF ServedOn, ReceivesOn
  <2>5. UNCHANGED <<locked, ifg, polled, rx, poll_mode>>
    BY <1>2 DEF ServedOn
  <2>6. QED
    BY <2>1, <2>2, <2>3, <2>4, <2>5, StepKeeps
<1>3. CASE ReleaseOff
  <2>1. PICK q \in {"deferred_off", "unlock"} : Step("release_off", q)
    BY <1>3 DEF ReleaseOff
  <2>2. ("release_off" \in Inside <=> q \in Inside) /\ q \in Inside \cup Outside /\ q # "mode"
    BY DEF Inside, Outside
  <2>3. Switches'
    BY <1>3 DEF ReleaseOff, Switches
  <2>4. ReceivesOn'
    BY <1>3 DEF ReleaseOff, ReceivesOn
  <2>5. UNCHANGED <<locked, ifg, polled, rx, poll_mode>>
    BY <1>3 DEF ReleaseOff
  <2>6. QED
    BY <2>1, <2>2, <2>3, <2>4, <2>5, StepKeeps
<1>4. CASE ServedOff
  <2>1. PICK q \in {"unlock"} : Step("served_off", q)
    BY <1>4 DEF ServedOff
  <2>2. ("served_off" \in Inside <=> q \in Inside) /\ q \in Inside \cup Outside /\ q # "mode"
    BY DEF Inside, Outside
  <2>3. Switches'
    BY <1>4 DEF ServedOff, Switches
  <2>4. ReceivesOn'
    BY <1>4 DEF ServedOff, ReceivesOn
  <2>5. UNCHANGED <<locked, ifg, polled, rx, poll_mode>>
    BY <1>4 DEF ServedOff
  <2>6. QED
    BY <2>1, <2>2, <2>3, <2>4, <2>5, StepKeeps
<1>5. CASE Unlock
  <2>1. pc = "unlock" /\ pc' \in {"after_cca", "idle"}
    BY <1>5 DEF Unlock, Step
  <2>2. pc \in Inside /\ pc' \notin Inside /\ pc' \in Outside
    BY <2>1 DEF Inside, Outside
  <2>3. locked = 1 /\ locked' = 0
    BY <1>5, <2>2 DEF Unlock, LockHeld
  <2>4. Place' /\ LockHeld' /\ ModeQuiet'
    BY <2>1, <2>2, <2>3 DEF Place, LockHeld, ModeQuiet
  <2>5. Switches'
    BY <1>5 DEF Unlock, Switches
  <2>6. Buffer' /\ ReceivesOn'
    BY <1>5 DEF Unlock, Buffer, ReceivesOn
  <2>7. NoFrameStranded'
    BY <1>5, <2>1 DEF Unlock, NoFrameStranded, FIFOP
  <2>8. QED
    BY <2>4, <2>5, <2>6, <2>7
<1>6. QED
  BY <1>1, <1>2, <1>3, <1>4, <1>5

\* The operations under the lock, except for the poll mode and the transmission.
LEMMA LockedOperationsKeep ==
  ASSUME IInv, Prepare \/ Setting \/ SetChannel \/ TurnOff \/ Rssi \/ Cca
  PROVE  IInv'
<1> USE DEF IInv, lock, modes, irq, chip, rx
<1>1. CASE Prepare
  <2>1. PICK q \in {"release"} : Step("prepare", q)
    BY <1>1 DEF Prepare
  <2>2. ("prepare" \in Inside <=> q \in Inside) /\ q \in Inside \cup Outside /\ q # "mode"
    BY DEF Inside, Outside
  <2>3. Switches'
    BY <1>1 DEF Prepare, Switches
  <2>4. ReceivesOn'
    BY <1>1 DEF Prepare, ReceivesOn
  <2>5. UNCHANGED <<locked, ifg, polled, rx, poll_mode>>
    BY <1>1 DEF Prepare
  <2>6. QED
    BY <2>1, <2>2, <2>3, <2>4, <2>5, StepKeeps
<1>2. CASE Setting
  <2>1. PICK q \in {"release"} : Step("setting", q)
    BY <1>2 DEF Setting
  <2>2. ("setting" \in Inside <=> q \in Inside) /\ q \in Inside \cup Outside /\ q # "mode"
    BY DEF Inside, Outside
  <2>3. Switches'
    BY <1>2 DEF Setting, Switches
  <2>4. ReceivesOn'
    BY <1>2 DEF Setting, ReceivesOn
  <2>5. UNCHANGED <<locked, ifg, polled, rx, poll_mode>>
    BY <1>2 DEF Setting
  <2>6. QED
    BY <2>1, <2>2, <2>3, <2>4, <2>5, StepKeeps
<1>3. CASE SetChannel
  <2>1. PICK q \in {"release"} : Step("channel", q)
    BY <1>3 DEF SetChannel
  <2>2. ("channel" \in Inside <=> q \in Inside) /\ q \in Inside \cup Outside /\ q # "mode"
    BY DEF Inside, Outside
  <2>3. Switches'
    <3>1. UNCHANGED <<lock, receive_on, modes, op, irq, rx>>
      BY <1>3 DEF SetChannel
    <3>2. rf' \in {"off", "rx", "tx"} /\ sfd' \in BOOLEAN
      BY <1>3 DEF SetChannel, Switches
    <3>3. QED
      BY <3>1, <3>2 DEF Switches
  <2>4. ReceivesOn'
    BY <1>3 DEF SetChannel, ReceivesOn
  <2>5. UNCHANGED <<locked, ifg, polled, rx, poll_mode>>
    BY <1>3 DEF SetChannel
  <2>6. QED
    BY <2>1, <2>2, <2>3, <2>4, <2>5, StepKeeps
<1>4. CASE TurnOff
  <2>1. PICK q \in {"release", "off"} : Step("to_off", q)
    BY <1>4 DEF TurnOff
  <2>2. ("to_off" \in Inside <=> q \in Inside) /\ q \in Inside \cup Outside /\ q # "mode"
    BY DEF Inside, Outside
  <2>3. Switches'
    BY <1>4 DEF TurnOff, Switches
  <2>4. ReceivesOn'
    BY <1>4 DEF TurnOff, ReceivesOn
  <2>5. UNCHANGED <<locked, ifg, polled, rx, poll_mode>>
    BY <1>4 DEF TurnOff
  <2>6. QED
    BY <2>1, <2>2, <2>3, <2>4, <2>5, StepKeeps
<1>5. CASE Rssi
  <2>1. PICK q \in {"release"} : Step("rssi", q)
    BY <1>5 DEF Rssi
  <2>2. ("rssi" \in Inside <=> q \in Inside) /\ q \in Inside \cup Outside /\ q # "mode"
    BY DEF Inside, Outside
  <2>3. Switches'
    BY <1>5 DEF Rssi, Switches
  <2>4. ReceivesOn'
    BY <1>5 DEF Rssi, ReceivesOn
  <2>5. UNCHANGED <<locked, ifg, polled, rx, poll_mode>>
    BY <1>5 DEF Rssi
  <2>6. QED
    BY <2>1, <2>2, <2>3, <2>4, <2>5, StepKeeps
<1>6. CASE Cca
  <2>1. PICK q \in {"release"} : Step("cca", q)
    BY <1>6 DEF Cca
  <2>2. ("cca" \in Inside <=> q \in Inside) /\ q \in Inside \cup Outside /\ q # "mode"
    BY DEF Inside, Outside
  <2>3. Switches'
    BY <1>6 DEF Cca, Switches
  <2>4. ReceivesOn'
    BY <1>6 DEF Cca, ReceivesOn
  <2>5. UNCHANGED <<locked, ifg, polled, rx, poll_mode>>
    BY <1>6 DEF Cca
  <2>6. QED
    BY <2>1, <2>2, <2>3, <2>4, <2>5, StepKeeps
<1>7. QED
  BY <1>1, <1>2, <1>3, <1>4, <1>5, <1>6

LEMMA AfterCcaKeeps ==
  ASSUME IInv, AfterCca
  PROVE  IInv'
<1> USE DEF IInv, lock, modes, irq, chip, rx
<1>1. CASE GetLock("after_cca", "to_off")
  <2>1. "after_cca" \in Outside /\ "to_off" \in Inside
    BY DEF Inside, Outside
  <2>2. QED
    BY <1>1, <2>1, GetLockKeeps
<1>2. CASE ~GetLock("after_cca", "to_off")
  <2>1. Step("after_cca", "idle") /\ UNCHANGED <<lock, receive_on, modes, op, irq, chip, rx>>
    BY <1>2 DEF AfterCca
  <2>2. ("after_cca" \in Inside <=> "idle" \in Inside) /\ "idle" \in Inside \cup Outside
    BY DEF Inside, Outside
  <2>3. Switches'
    BY <2>1 DEF Switches
  <2>4. ReceivesOn'
    BY <2>1 DEF ReceivesOn
  <2>5. QED
    BY <2>1, <2>2, <2>3, <2>4, StepKeeps
<1>3. QED
  BY <1>1, <1>2

\* The interrupt flag is cleared while the radio is off and the FIFO empty.
LEMMA SetPollModeKeeps ==
  ASSUME IInv, SetPollMode
  PROVE  IInv'
<1> USE DEF IInv, lock, chip, rx
<1>1. pc = "mode" /\ pc' = "release"
  BY DEF SetPollMode, Step
<1>2. "mode" \in Inside /\ "release" \in Inside
  BY DEF Inside
<1>3. Switches'
  <2>1. UNCHANGED <<lock, receive_on, send_on_cca, carrier, was_on, op, polled, chip>>
    BY DEF SetPollMode
  <2>2. poll_mode' \in BOOLEAN /\ ie' \in BOOLEAN /\ ifg' \in BOOLEAN
    BY DEF SetPollMode
  <2>3. QED
    BY <2>1, <2>2 DEF Switches
<1>4. Place' /\ LockHeld' /\ Buffer'
  BY <1>1, <1>2 DEF SetPollMode, Place, LockHeld, Buffer
<1>5. ~FIFOP'
  BY <1>1 DEF SetPollMode, ModeQuiet, FIFOP
<1>6. NoFrameStranded' /\ ModeQuiet'
  BY <1>1, <1>5 DEF NoFrameStranded, ModeQuiet
<1>7. ReceivesOn'
  BY DEF SetPollMode, ReceivesOn
<1>8. QED
  BY <1>3, <1>4, <1>6, <1>7

\* What runs without the lock.
LEMMA UnlockedOperationsKeep ==
  ASSUME IInv, SetSendOnCca \/ StartTest \/ StartCarrier \/ StopTest
  PROVE  IInv'
<1> USE DEF IInv, lock, modes, irq, chip, rx
<1>1. CASE SetSendOnCca
  <2>1. PICK q \in {"idle"} : Step("idle", q)
    BY <1>1 DEF SetSendOnCca
  <2>2. ("idle" \in Inside <=> q \in Inside) /\ q \in Inside \cup Outside /\ q # "mode"
    BY DEF Inside, Outside
  <2>3. Switches'
    BY <1>1 DEF SetSendOnCca, Switches
  <2>4. ReceivesOn'
    BY <1>1 DEF SetSendOnCca, ReceivesOn
  <2>5. UNCHANGED <<locked, ifg, polled, rx, poll_mode>>
    BY <1>1 DEF SetSendOnCca
  <2>6. QED
    BY <2>1, <2>2, <2>3, <2>4, <2>5, StepKeeps
<1>2. CASE StartTest
  <2>1. PICK q \in {"test_off"} : Step("idle", q)
    BY <1>2 DEF StartTest
  <2>2. ("idle" \in Inside <=> q \in Inside) /\ q \in Inside \cup Outside /\ q # "mode"
    BY DEF Inside, Outside
  <2>3. Switches'
    BY <1>2 DEF StartTest, Switches
  <2>4. ReceivesOn'
    BY <1>2 DEF StartTest, ReceivesOn
  <2>5. UNCHANGED <<locked, ifg, polled, rx, poll_mode>>
    BY <1>2 DEF StartTest
  <2>6. QED
    BY <2>1, <2>2, <2>3, <2>4, <2>5, StepKeeps
<1>3. CASE StartCarrier
  <2>1. PICK q \in {"idle"} : Step("carrier", q)
    BY <1>3 DEF StartCarrier
  <2>2. ("carrier" \in Inside <=> q \in Inside) /\ q \in Inside \cup Outside /\ q # "mode"
    BY DEF Inside, Outside
  <2>3. Switches'
    <3>1. UNCHANGED <<lock, receive_on, poll_mode, send_on_cca, was_on, op, irq>>
      BY <1>3 DEF StartCarrier
    <3>2. carrier' \in BOOLEAN /\ rf' = "tx" /\ sfd' \in BOOLEAN
      BY <1>3 DEF StartCarrier
    <3>3. QED
      BY <3>1, <3>2 DEF Switches
  <2>4. ReceivesOn'
    BY <1>3 DEF StartCarrier, ReceivesOn
  <2>5. UNCHANGED <<locked, ifg, polled, rx, poll_mode>>
    BY <1>3 DEF StartCarrier
  <2>6. QED
    BY <2>1, <2>2, <2>3, <2>4, <2>5, StepKeeps
<1>4. CASE StopTest
  <2>1. PICK q \in {"test_on", "idle"} : Step("idle", q)
    BY <1>4 DEF StopTest
  <2>2. ("idle" \in Inside <=> q \in Inside) /\ q \in Inside \cup Outside /\ q # "mode"
    BY DEF Inside, Outside
  <2>3. Switches'
    <3>1. UNCHANGED <<lock, receive_on, poll_mode, send_on_cca, was_on, op, irq>>
          /\ rf' = "off"
      BY <1>4 DEF StopTest
    <3>2. carrier' \in BOOLEAN /\ sfd' \in BOOLEAN
      BY <1>4 DEF StopTest
    <3>3. QED
      BY <3>1, <3>2 DEF Switches
  <2>4. ReceivesOn'
    BY <1>4 DEF StopTest, ReceivesOn
  <2>5. UNCHANGED <<locked, ifg, polled, rx, poll_mode>>
    BY <1>4 DEF StopTest
  <2>6. QED
    BY <2>1, <2>2, <2>3, <2>4, <2>5, StepKeeps
<1>5. QED
  BY <1>1, <1>2, <1>3, <1>4

\* A transmission.
LEMMA TransmissionKeeps ==
  ASSUME IInv, Transmit \/ Strobe \/ Started \/ Collision \/ Sent
  PROVE  IInv'
<1> USE DEF IInv, lock, modes, irq, chip, rx
<1>1. CASE Transmit
  <2>1. PICK q \in {"strobe", "await"} : Step("transmit", q)
    BY <1>1 DEF Transmit
  <2>2. ("transmit" \in Inside <=> q \in Inside) /\ q \in Inside \cup Outside /\ q # "mode"
    BY DEF Inside, Outside
  <2>3. Switches'
    <3>1. UNCHANGED <<lock, receive_on, modes, op, irq>> /\ rf' \in {"rx", "tx"}
      BY <1>1 DEF Transmit
    <3>2. sfd' \in BOOLEAN
      BY <1>1 DEF Transmit
    <3>3. QED
      BY <3>1, <3>2 DEF Switches
  <2>4. ReceivesOn'
    BY <1>1 DEF Transmit, ReceivesOn
  <2>5. UNCHANGED <<locked, ifg, polled, rx, poll_mode>>
    BY <1>1 DEF Transmit
  <2>6. QED
    BY <2>1, <2>2, <2>3, <2>4, <2>5, StepKeeps
<1>2. CASE Strobe
  <2>1. PICK q \in {"await"} : Step("strobe", q)
    BY <1>2 DEF Strobe
  <2>2. ("strobe" \in Inside <=> q \in Inside) /\ q \in Inside \cup Outside /\ q # "mode"
    BY DEF Inside, Outside
  <2>3. Switches'
    BY <1>2 DEF Strobe, Switches
  <2>4. ReceivesOn'
    BY <1>2 DEF Strobe, ReceivesOn
  <2>5. UNCHANGED <<locked, ifg, polled, rx, poll_mode>>
    BY <1>2 DEF Strobe
  <2>6. QED
    BY <2>1, <2>2, <2>3, <2>4, <2>5, StepKeeps
<1>3. CASE Started
  <2>1. PICK q \in {"sending"} : Step("await", q)
    BY <1>3 DEF Started
  <2>2. ("await" \in Inside <=> q \in Inside) /\ q \in Inside \cup Outside /\ q # "mode"
    BY DEF Inside, Outside
  <2>3. Switches'
    BY <1>3 DEF Started, Switches
  <2>4. ReceivesOn'
    BY <1>3 DEF Started, ReceivesOn
  <2>5. UNCHANGED <<locked, ifg, polled, rx, poll_mode>>
    BY <1>3 DEF Started
  <2>6. QED
    BY <2>1, <2>2, <2>3, <2>4, <2>5, StepKeeps
<1>4. CASE Collision
  <2>1. PICK q \in {"release"} : Step("await", q)
    BY <1>4 DEF Collision
  <2>2. ("await" \in Inside <=> q \in Inside) /\ q \in Inside \cup Outside /\ q # "mode"
    BY DEF Inside, Outside
  <2>3. Switches'
    BY <1>4 DEF Collision, Switches
  <2>4. ReceivesOn'
    BY <1>4 DEF Collision, ReceivesOn
  <2>5. UNCHANGED <<locked, ifg, polled, rx, poll_mode>>
    BY <1>4 DEF Collision
  <2>6. QED
    BY <2>1, <2>2, <2>3, <2>4, <2>5, StepKeeps
<1>5. CASE Sent
  <2>1. PICK q \in {"release", "off"} : Step("sending", q)
    BY <1>5 DEF Sent
  <2>2. ("sending" \in Inside <=> q \in Inside) /\ q \in Inside \cup Outside /\ q # "mode"
    BY DEF Inside, Outside
  <2>3. Switches'
    BY <1>5 DEF Sent, Switches
  <2>4. ReceivesOn'
    BY <1>5 DEF Sent, ReceivesOn
  <2>5. UNCHANGED <<locked, ifg, polled, rx, poll_mode>>
    BY <1>5 DEF Sent
  <2>6. QED
    BY <2>1, <2>2, <2>3, <2>4, <2>5, StepKeeps
<1>6. QED
  BY <1>1, <1>2, <1>3, <1>4, <1>5

\* Reception: what is left in the FIFO is polled for, or flushed.
LEMMA PollKeeps ==
  ASSUME IInv, Poll
  PROVE  IInv'
<1> USE DEF IInv, modes, chip, rx
<1>1. Switches'
  <2>1. UNCHANGED <<lock_on, lock_off, receive_on, modes, ie, ifg, chip>> /\ op' \in {op, "none"}
    BY DEF Poll
  <2>2. polled' \in BOOLEAN
    BY DEF Poll
  <2>3. QED
    BY <2>1, <2>2 DEF Switches
<1>2. ReceivesOn' /\ Buffer'
  BY DEF Poll, ReceivesOn, Buffer
<1>3. "idle" \notin Inside /\ "idle" \in Outside /\ "read" \in Inside
  BY DEF Inside, Outside
<1>4. CASE ~poll_mode /\ FIFOP
  <2>1. pc = "idle" /\ pc' = "read" /\ locked' = locked + 1
    BY <1>4 DEF Poll, Step
  <2>2. Place' /\ LockHeld' /\ ModeQuiet' /\ NoFrameStranded'
    BY <2>1, <1>3 DEF Place, LockHeld, ModeQuiet, NoFrameStranded
  <2>3. QED
    BY <1>1, <1>2, <2>2
<1>5. CASE ~(~poll_mode /\ FIFOP)
  <2>1. pc = "idle" /\ pc' = "idle" /\ UNCHANGED <<op, locked, poll_mode, fifo, overflow>>
    BY <1>5 DEF Poll, Step
  <2>2. Place' /\ LockHeld' /\ ModeQuiet'
    BY <2>1, <1>3 DEF Place, LockHeld, ModeQuiet
  <2>3. NoFrameStranded'
    BY <1>5, <2>1 DEF NoFrameStranded, FIFOP
  <2>4. QED
    BY <1>1, <1>2, <2>2, <2>3
<1>6. QED
  BY <1>4, <1>5

LEMMA ReadingKeeps ==
  ASSUME IInv, ReadFrame \/ ReadOutOfSync \/ Check
  PROVE  IInv'
<1> USE DEF IInv, lock, modes, irq, chip, rx
<1>1. {"read", "check", "release"} \subseteq Inside
  BY DEF Inside
<1>2. CASE ReadFrame
  <2>1. pc = "read" /\ pc' = "check"
    BY <1>2 DEF ReadFrame, Step
  <2>2. Buffer'
    <3>1. overflow' = overflow /\ fifo' = IF fifo = <<>> THEN fifo ELSE Tail(fifo)
      BY <1>2 DEF ReadFrame
    <3>2. CASE fifo = <<>>
      BY <3>1, <3>2 DEF Buffer
    <3>3. CASE fifo # <<>>
      <4>1. fifo' \in Seq(Frames) /\ Len(fifo') = Len(fifo) - 1 /\ Len(fifo) \in Nat
        BY <3>1, <3>3 DEF Buffer
      <4>2. QED
        BY <3>1, <4>1, FifoAssumption DEF Buffer
    <3>4. QED
      BY <3>2, <3>3
  <2>3. Switches'
    BY <1>2 DEF ReadFrame, Switches
  <2>4. ReceivesOn'
    BY <1>2 DEF ReadFrame, ReceivesOn
  <2>5. Place' /\ LockHeld' /\ ModeQuiet' /\ NoFrameStranded'
    BY <1>1, <1>2, <2>1 DEF ReadFrame, Place, LockHeld, ModeQuiet, NoFrameStranded
  <2>6. QED
    BY <2>2, <2>3, <2>4, <2>5
<1>3. CASE ReadOutOfSync
  <2>1. pc = "read" /\ pc' = "release"
    BY <1>3 DEF ReadOutOfSync, Step
  <2>2. fifo' = <<>> /\ overflow' = FALSE
    BY <1>3 DEF ReadOutOfSync, Flush
  <2>3. Buffer'
    BY <2>2, EmptyBuffer
  <2>4. Switches'
    <3>1. UNCHANGED <<lock, receive_on, modes, op, irq, rf>>
      BY <1>3 DEF ReadOutOfSync
    <3>2. sfd' \in BOOLEAN
      BY <1>3 DEF ReadOutOfSync, Flush
    <3>3. QED
      BY <3>1, <3>2 DEF Switches
  <2>5. ReceivesOn'
    BY <1>3 DEF ReadOutOfSync, Flush, ReceivesOn
  <2>6. NoFrameStranded'
    BY <2>2 DEF NoFrameStranded, FIFOP
  <2>7. Place' /\ LockHeld' /\ ModeQuiet'
    BY <1>1, <1>3, <2>1 DEF ReadOutOfSync, Place, LockHeld, ModeQuiet
  <2>8. QED
    BY <2>3, <2>4, <2>5, <2>6, <2>7
<1>4. CASE Check
  <2>1. pc = "check" /\ pc' = "release"
    BY <1>4 DEF Check, Step
  <2>2. Switches'
    <3>1. UNCHANGED <<lock, receive_on, modes, op, ie, ifg, rf>>
      BY <1>4 DEF Check
    <3>2. sfd' \in BOOLEAN
      BY <1>4 DEF Check, Flush, Switches
    <3>3. polled' \in BOOLEAN
      BY <1>4 DEF Check
    <3>4. QED
      BY <3>1, <3>2, <3>3 DEF Switches
  <2>3. Place' /\ LockHeld' /\ ModeQuiet'
    BY <1>1, <1>4, <2>1 DEF Check, Place, LockHeld, ModeQuiet
  <2>4. CASE ~poll_mode /\ overflow
    <3>1. fifo' = <<>> /\ overflow' = FALSE /\ sfd' = FALSE
      BY <1>4, <2>4 DEF Check, Flush
    <3>2. NoFrameStranded' /\ ReceivesOn'
      BY <3>1 DEF NoFrameStranded, FIFOP, ReceivesOn
    <3>3. QED
      BY <2>2, <2>3, <3>1, <3>2, EmptyBuffer
  <2>5. CASE ~(~poll_mode /\ overflow)
    <3>1. UNCHANGED <<poll_mode, rf, sfd, fifo, overflow>>
      BY <1>4, <2>5 DEF Check
    <3>2. Buffer' /\ ReceivesOn'
      BY <3>1 DEF Buffer, ReceivesOn
    <3>3. ~poll_mode /\ FIFOP => polled'
      BY <1>4, <2>5 DEF Check
    <3>4. NoFrameStranded'
      BY <3>1, <3>3 DEF NoFrameStranded, FIFOP
    <3>5. QED
      BY <2>2, <2>3, <3>2, <3>4
  <2>6. QED
    BY <2>4, <2>5
<1>5. QED
  BY <1>2, <1>3, <1>4

LEMMA IInvStutters == IInv /\ UNCHANGED vars => IInv'
<1> SUFFICES ASSUME IInv, UNCHANGED vars PROVE IInv'
  OBVIOUS
<1> USE DEF IInv, vars, lock, modes, irq, chip, rx
<1>1. Switches'
  BY DEF Switches
<1>2. Place' /\ LockHeld' /\ Buffer'
  BY DEF Place, LockHeld, Buffer
<1>3. NoFrameStranded' /\ ModeQuiet' /\ ReceivesOn'
  BY DEF NoFrameStranded, ModeQuiet, ReceivesOn, FIFOP
<1>4. QED
  BY <1>1, <1>2, <1>3

LEMMA NextKeeps == IInv /\ [Next]_vars => IInv'
<1> SUFFICES ASSUME IInv, [Next]_vars PROVE IInv'
  OBVIOUS
<1>1. CASE FrameBegins \/ FrameEnds \/ TransmissionEnds
  BY <1>1, ChipKeeps
<1>2. CASE Interrupt \/ DeferOn \/ DeferOff \/ Switch(0) \/ Switch(1)
  BY <1>2, InterruptsKeep
<1>3. CASE Proceed
  <2>1. CASE Switching \/ Releasing
    BY <2>1, SwitchingKeeps, ReleasingKeeps DEF Releasing
  <2>2. CASE Prepare \/ Setting \/ SetChannel \/ TurnOff \/ Rssi \/ Cca
    BY <2>2, LockedOperationsKeep
  <2>3. CASE AfterCca \/ SetPollMode
    BY <2>3, AfterCcaKeeps, SetPollModeKeeps
  <2>4. CASE StartCarrier
    BY <2>4, UnlockedOperationsKeep
  <2>5. CASE Transmit \/ Strobe \/ Started \/ Collision \/ Sent
    BY <2>5, TransmissionKeeps
  <2>6. CASE ReadFrame \/ ReadOutOfSync \/ Check
    BY <2>6, ReadingKeeps
  <2>7. QED
    BY <1>3, <2>1, <2>2, <2>3, <2>4, <2>5, <2>6 DEF Proceed
<1>4. CASE Call \/ CallPollMode \/ PollModeRead
  BY <1>4, CallsKeep
<1>5. CASE SetSendOnCca \/ StartTest \/ StopTest
  BY <1>5, UnlockedOperationsKeep
<1>6. CASE Poll
  BY <1>6, PollKeeps
<1>7. CASE UNCHANGED vars
  BY <1>7, IInvStutters
<1>8. QED
  BY <1>1, <1>2, <1>3, <1>4, <1>5, <1>6, <1>7 DEF Next

-------------------------------------------------------------------------------
\* The inductive invariant holds in every behaviour, whatever the chip and the
\* interrupts do between two steps of main.
THEOREM RadioInvariance == Spec => []IInv
<1>1. Init => IInv
  BY IInvInit
<1>2. IInv /\ [Next]_vars => IInv'
  BY NextKeeps
<1>3. QED
  BY <1>1, <1>2, PTL DEF Spec

\* The variables have their types: the lock is never taken twice (GET_LOCK only
\* counts), and the FIFO keeps its bound.
THEOREM RadioTypes == Spec => []TypeOK
<1>1. IInv => TypeOK
  <2>1. LockHeld => locked \in {0, 1}
    BY DEF LockHeld
  <2>2. QED
    BY <2>1 DEF IInv, Switches, Place, Buffer, TypeOK
<1>2. QED
  BY <1>1, RadioInvariance, PTL

\* RELEASE_LOCK is on every way out of every operation that began with GET_LOCK.
THEOREM LockHeldExactly == Spec => []LockHeld
<1>1. IInv => LockHeld
  BY DEF IInv
<1>2. QED
  BY <1>1, RadioInvariance, PTL

\* cc2420_read never leaves a frame behind without a notice of it, although FIFOP
\* rises only for the first of several, provided the poll mode is only set with
\* the radio off and nothing to read.
THEOREM NoFrameLeft == Spec => []NoFrameStranded
<1>1. IInv => NoFrameStranded
  BY DEF IInv
<1>2. QED
  BY <1>1, RadioInvariance, PTL

-------------------------------------------------------------------------------
(* The radio is switched as recorded *)

\* The operations judged by SwitchedAsRecorded, and where main is during one.
Judged == {"on", "to_off", "sent"}
JudgedInside ==
  op \in Judged =>
    pc \in {"on", "listen", "to_off", "off", "silence", "sending",
            "release", "deferred_on", "deferred_listen", "served_on", "release_off",
            "deferred_off", "deferred_silence", "served_off", "unlock"}

\* on() switches the chip before it records it, off() records it first; in between
\* only one of the two is as it will be.  RELEASE_LOCK may start with them apart
\* when it has a request to serve that will bring them together.
Matches == rf = "off" <=> receive_on = 0
SwitchingDone ==
  op \in Judged =>
    /\ pc \in {"listen", "deferred_listen", "sending"} => rf # "off"
    /\ pc \in {"silence", "deferred_silence"} => receive_on = 0
    /\ pc = "release" => Matches \/ lock_on = 1 \/ lock_off = 1
    /\ pc = "release_off" => Matches \/ lock_off = 1
    /\ pc \in {"served_on", "served_off", "unlock"} => Matches

SwitchInv == JudgedInside /\ SwitchingDone

\* Nothing is claimed of any other operation.
LEMMA NotJudged == op' \notin Judged => SwitchInv'
BY DEF SwitchInv, JudgedInside, SwitchingDone

\* What main does not do itself: the chip never turns itself on or off, and while
\* main holds the lock an interrupt only adds a request.
LEMMA OthersKeepSwitching ==
  ASSUME IInv, SwitchInv,
         \/ FrameBegins \/ FrameEnds \/ TransmissionEnds
         \/ Interrupt \/ DeferOn \/ DeferOff \/ Switch(0) \/ Switch(1)
  PROVE  SwitchInv'
<1> USE DEF lock, modes, irq, chip, rx
<1>1. ASSUME UNCHANGED <<receive_on, pc, op>>, rf' = "off" <=> rf = "off",
             lock_on' = lock_on \/ lock_on' = 1, lock_off' = lock_off \/ lock_off' = 1
      PROVE  SwitchInv'
  BY <1>1 DEF SwitchInv, JudgedInside, SwitchingDone, Matches
<1>2. CASE FrameBegins \/ FrameEnds \/ TransmissionEnds
  <2>1. UNCHANGED <<lock, receive_on, pc, op>>
    BY <1>2 DEF FrameBegins, FrameEnds, TransmissionEnds
  <2>2. rf' = "off" <=> rf = "off"
    BY <1>2 DEF FrameBegins, FrameEnds, TransmissionEnds, IInv, ReceivesOn
  <2>3. QED
    BY <1>1, <2>1, <2>2
<1>3. CASE Interrupt
  BY <1>1, <1>3 DEF Interrupt
<1>4. CASE DeferOn \/ DeferOff
  BY <1>1, <1>4 DEF DeferOn, DeferOff
<1>5. CASE Switch(0) \/ Switch(1)
  <2>1. locked = 0 /\ UNCHANGED <<pc, op>>
    BY <1>5 DEF Switch
  <2>2. pc \notin Inside
    BY <2>1 DEF IInv, LockHeld
  <2>3. op \notin Judged
    BY <2>2 DEF SwitchInv, JudgedInside, Inside
  <2>4. QED
    BY <2>1, <2>3, NotJudged
<1>6. QED
  BY <1>2, <1>3, <1>4, <1>5

\* on() and off(), also when RELEASE_LOCK calls them.
LEMMA SwitchingSwitches ==
  ASSUME IInv, SwitchInv, Switching
  PROVE  SwitchInv'
<1> USE DEF lock, modes, irq, chip, rx, Step
<1>1. op \in Judged => pc \notin {"test_on", "test_listen", "test_off", "test_silence"}
  BY DEF SwitchInv, JudgedInside
<1>2. ASSUME NEW p, NEW q, Receiver(p, q), q \in {"listen", "deferred_listen"}
      PROVE  SwitchInv'
  BY <1>2 DEF Receiver, SwitchInv, JudgedInside, SwitchingDone
<1>3. ASSUME NEW p, NEW q, Listen(p, q), q \in {"release", "served_on"},
             p \in {"listen", "deferred_listen"}
      PROVE  SwitchInv'
  BY <1>3 DEF Listen, SwitchInv, JudgedInside, SwitchingDone, Matches
<1>4. ASSUME NEW p, NEW q, Off(p, q), q \in {"silence", "deferred_silence"}
      PROVE  SwitchInv'
  BY <1>4 DEF Off, SwitchInv, JudgedInside, SwitchingDone
<1>5. ASSUME NEW p, NEW q, Silence(p, q), q \in {"release", "served_off"},
             p \in {"silence", "deferred_silence"}
      PROVE  SwitchInv'
  BY <1>5 DEF Silence, SwitchInv, JudgedInside, SwitchingDone, Matches
<1>6. CASE op \notin Judged
  <2>1. op' = op
    BY DEF Switching, Receiver, Listen, Off, Silence
  <2>2. QED
    BY <1>6, <2>1, NotJudged
<1>7. CASE op \in Judged
  <2>1. ASSUME NEW p \in {"test_on", "test_listen", "test_off", "test_silence"}, NEW q, Step(p, q)
        PROVE  FALSE
    BY <1>1, <1>7, <2>1
  <2>2. \/ Receiver("on", "listen") \/ Listen("listen", "release")
        \/ Receiver("deferred_on", "deferred_listen") \/ Listen("deferred_listen", "served_on")
        \/ Off("off", "silence") \/ Silence("silence", "release")
        \/ Off("deferred_off", "deferred_silence") \/ Silence("deferred_silence", "served_off")
    BY <2>1 DEF Switching, Receiver, Listen, Off, Silence
  <2>3. QED
    BY <1>2, <1>3, <1>4, <1>5, <2>2
<1>8. QED
  BY <1>6, <1>7

\* RELEASE_LOCK: an on, then an off; the chip follows the last one served.
LEMMA ReleasingSwitches ==
  ASSUME IInv, SwitchInv, Releasing
  PROVE  SwitchInv'
<1> USE DEF lock, modes, irq, chip, rx, Step
<1>1. pc \in Inside => locked = 1
  BY DEF IInv, LockHeld
<1>2. lock_on \in {0, 1} /\ lock_off \in {0, 1}
  BY DEF IInv, Switches
<1>3. CASE ReleaseOn
  BY <1>1, <1>3 DEF ReleaseOn, SwitchInv, JudgedInside, SwitchingDone, Matches, Inside
<1>4. CASE ServedOn
  BY <1>4 DEF ServedOn, SwitchInv, JudgedInside, SwitchingDone, Matches
<1>5. CASE ReleaseOff
  BY <1>1, <1>5 DEF ReleaseOff, SwitchInv, JudgedInside, SwitchingDone, Matches, Inside
<1>6. CASE ServedOff
  BY <1>6 DEF ServedOff, SwitchInv, JudgedInside, SwitchingDone, Matches
<1>7. CASE Unlock
  BY <1>7, NotJudged DEF Unlock, Judged
<1>8. QED
  BY <1>3, <1>4, <1>5, <1>6, <1>7 DEF Releasing

\* A transmission that went out leaves a chip that listens; cc2420_off puts itself
\* off while one is going out.
LEMMA TransmissionSwitches ==
  ASSUME IInv, SwitchInv, Started \/ Sent \/ TurnOff
  PROVE  SwitchInv'
<1> USE DEF lock, modes, irq, chip, rx, Step
<1>1. CASE Started
  BY <1>1 DEF Started, SwitchInv, JudgedInside, SwitchingDone
<1>2. CASE Sent
  <2>1. receive_on \in {0, 1}
    BY DEF IInv, Switches
  <2>2. QED
    BY <1>2, <2>1 DEF Sent, SwitchInv, JudgedInside, SwitchingDone, Matches
<1>3. CASE TurnOff
  BY <1>3 DEF TurnOff, SwitchInv, JudgedInside, SwitchingDone
<1>4. QED
  BY <1>1, <1>2, <1>3

\* Taking the lock is the start of an operation.
LEMMA GetLockSwitches ==
  ASSUME NEW from, NEW o, GetLock(from, o), o \notin {"sent"}
  PROVE  SwitchInv'
BY DEF GetLock, Step, Followed, SwitchInv, JudgedInside, SwitchingDone, Judged

\* Every other step belongs to an operation that is not judged.
LEMMA OtherOperationsSwitch ==
  ASSUME IInv, SwitchInv,
         \/ Prepare \/ Setting \/ SetChannel \/ Rssi \/ Cca \/ AfterCca
         \/ SetPollMode \/ StartCarrier \/ Transmit \/ Strobe \/ Collision
         \/ ReadFrame \/ ReadOutOfSync \/ Check
         \/ Call \/ CallPollMode \/ SetSendOnCca \/ StartTest \/ StopTest
         \/ Poll \/ PollModeRead
  PROVE  SwitchInv'
<1> DEFINE Unjudged == {"prepare", "setting", "channel", "rssi", "cca", "after_cca", "mode",
                        "carrier", "transmit", "strobe", "await", "read", "check", "idle"}
<1>1. pc \in Unjudged => op \notin Judged
  BY DEF SwitchInv, JudgedInside
<1>2. ASSUME pc \in Unjudged, op' = op \/ op' = "none"
      PROVE  SwitchInv'
  BY <1>1, <1>2, NotJudged DEF Judged
<1>3. CASE Prepare \/ Setting \/ SetChannel \/ Rssi \/ Cca
  BY <1>2, <1>3 DEF Prepare, Setting, SetChannel, Rssi, Cca, Step
<1>4. CASE SetPollMode \/ StartCarrier \/ Transmit \/ Strobe \/ Collision
  BY <1>2, <1>4 DEF SetPollMode, StartCarrier, Transmit, Strobe, Collision, Step
<1>5. CASE ReadFrame \/ ReadOutOfSync \/ Check \/ Poll
  BY <1>2, <1>5 DEF ReadFrame, ReadOutOfSync, Check, Poll, Step
<1>6. CASE SetSendOnCca \/ StartTest \/ StopTest
  BY <1>2, <1>6 DEF SetSendOnCca, StartTest, StopTest, Step
<1>7. CASE AfterCca
  <2>1. CASE GetLock("after_cca", "to_off")
    BY <2>1, GetLockSwitches
  <2>2. CASE Step("after_cca", "idle") /\ op' = op
    BY <1>2, <2>2 DEF Step
  <2>3. QED
    BY <1>7, <2>1, <2>2 DEF AfterCca
<1>8. CASE Call \/ CallPollMode \/ PollModeRead
  BY <1>8, GetLockSwitches DEF Call, CallPollMode, PollModeRead
<1>9. QED
  BY <1>3, <1>4, <1>5, <1>6, <1>7, <1>8

LEMMA NextSwitches == IInv /\ SwitchInv /\ [Next]_vars => SwitchInv'
<1> SUFFICES ASSUME IInv, SwitchInv, [Next]_vars PROVE SwitchInv'
  OBVIOUS
<1>1. CASE Proceed
  BY <1>1, SwitchingSwitches, ReleasingSwitches, TransmissionSwitches, OtherOperationsSwitch
     DEF Proceed
<1>2. CASE UNCHANGED vars
  BY <1>2 DEF vars, lock, chip, SwitchInv, JudgedInside, SwitchingDone, Matches
<1>3. QED
  BY <1>1, <1>2, OthersKeepSwitching, OtherOperationsSwitch DEF Next

\* After cc2420_on, cc2420_off and a transmission the chip listens exactly when
\* receive_on says so, whatever on and off requests interrupts deferred meanwhile
\* and in whatever order RELEASE_LOCK found them.
THEOREM RadioSwitched == Spec => []SwitchedAsRecorded
<1>1. Init => SwitchInv
  BY DEF Init, SwitchInv, JudgedInside, SwitchingDone, Judged
<1>2. SwitchInv => SwitchedAsRecorded
  BY DEF SwitchInv, SwitchingDone, SwitchedAsRecorded, Matches, Judged
<1>3. QED
  BY <1>1, <1>2, NextSwitches, RadioInvariance, PTL DEF Spec
===============================================================================
