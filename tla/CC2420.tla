-------------------------------- MODULE CC2420 --------------------------------
(***************************************************************************)
(* The radio driver dev/cc2420.c: a lock that defers requests to turn the  *)
(* radio on or off, transmission, and reception from the chip's FIFO.      *)
(*                                                                         *)
(* Two contexts run driver code.  The processes ("main") execute one       *)
(* operation after the other, in steps; "pc" says which comes next.        *)
(* Interrupts run to completion between any two steps of main: the FIFOP   *)
(* interrupt of the chip, and calls of cc2420_on and cc2420_off by a MAC   *)
(* that works from timer interrupts, which the driver's comments expect.   *)
(***************************************************************************)
EXTENDS Naturals, Sequences

CONSTANT FifoFrames    \* bound: frames the receive FIFO holds
ASSUME FifoAssumption == FifoFrames \in Nat \ {0}

VARIABLES
  locked, lock_on, lock_off,  \* the lock, and what was asked for while it was held
  receive_on,                 \* 1 when the radio is to listen
  poll_mode,                  \* no interrupts: the MAC looks for frames itself
  send_on_cca,                \* transmit only when the channel is clear
  carrier, was_on,            \* set_test_mode: in test mode; receive_on before it
  pc, op,                     \* the next step of main, and what operation it is in
  ie, ifg,                    \* FIFOP interrupt enabled; an edge of FIFOP to be served
  polled,                     \* process_poll(&cc2420_process) was called
  rf, sfd,                    \* the chip: "off", "rx" or "tx"; a frame is being received
  fifo, overflow              \* complete frames not read yet; a frame did not fit

lock  == <<locked, lock_on, lock_off>>
modes == <<poll_mode, send_on_cca, carrier, was_on>>
irq   == <<ie, ifg, polled>>
chip  == <<rf, sfd>>
rx    == <<fifo, overflow>>
vars  == <<lock, receive_on, modes, pc, op, irq, chip, rx>>

Frames == {"frame", "out_of_sync"}   \* by their length byte: sensible or not

\* CC2420_FIFOP_IS_1: a complete frame waits, or the FIFO has overflowed.
FIFOP == fifo # <<>> \/ overflow

\* After cc2420_init: off, in interrupt mode.
Init ==
  /\ locked = 0 /\ lock_on = 0 /\ lock_off = 0 /\ receive_on = 0
  /\ poll_mode = FALSE /\ send_on_cca = TRUE /\ carrier = FALSE /\ was_on = 0
  /\ pc = "idle" /\ op = "none"
  /\ ie = TRUE /\ ifg = FALSE /\ polled = FALSE
  /\ rf = "off" /\ sfd = FALSE /\ fifo = <<>> /\ overflow = FALSE

-------------------------------------------------------------------------------
(* The chip and the air *)

FrameBegins ==
  /\ rf = "rx" /\ ~sfd
  /\ sfd' = TRUE
  /\ UNCHANGED <<lock, receive_on, modes, pc, op, irq, rf, rx>>

\* A frame is complete: it is kept when it fits, and one of full length overflows
\* the FIFO.  FIFOP rises when nothing waited before.  The chip may answer with
\* an acknowledgement of its own.
FrameEnds ==
  /\ sfd
  /\ sfd' = FALSE
  /\ rf' \in {"rx", "tx"}
  /\ IF overflow \/ Len(fifo) = FifoFrames
     THEN fifo' = fifo /\ overflow' = TRUE
     ELSE /\ \E f \in Frames : fifo' = Append(fifo, f)
          /\ overflow' \in BOOLEAN
  /\ ifg' = (ifg \/ ~FIFOP)
  /\ UNCHANGED <<lock, receive_on, modes, pc, op, ie, polled>>

\* After a transmission the chip listens.
TransmissionEnds ==
  /\ rf = "tx" /\ ~carrier
  /\ rf' = "rx"
  /\ UNCHANGED <<lock, receive_on, modes, pc, op, irq, sfd, rx>>

-------------------------------------------------------------------------------
(* Interrupts *)

\* cc2420_interrupt
Interrupt ==
  /\ ie /\ ifg
  /\ ifg' = FALSE /\ polled' = TRUE
  /\ UNCHANGED <<lock, receive_on, modes, pc, op, ie, chip, rx>>

\* cc2420_on and cc2420_off while main holds the lock: the request is deferred.
DeferOn ==
  /\ receive_on = 0 /\ locked # 0
  /\ lock_on' = 1
  /\ UNCHANGED <<locked, lock_off, receive_on, modes, pc, op, irq, chip, rx>>

DeferOff ==
  /\ receive_on = 1 /\ locked # 0
  /\ lock_off' = 1
  /\ UNCHANGED <<locked, lock_on, receive_on, modes, pc, op, irq, chip, rx>>

\* The same calls while the lock is free: on() or off(), and then RELEASE_LOCK,
\* which serves a request left over from before.
Settled(on) == IF lock_off = 1 THEN 0 ELSE IF lock_on = 1 THEN 1 ELSE on

Switch(on) ==
  /\ receive_on # on /\ locked = 0
  /\ on = 1 \/ rf # "tx"
  /\ receive_on' = Settled(on)
  /\ lock_on' = 0 /\ lock_off' = 0
  /\ rf' = (IF Settled(on) = 1 THEN "rx" ELSE "off") /\ sfd' = FALSE
  /\ ie' = (IF poll_mode THEN ie ELSE Settled(on) = 1)
  /\ UNCHANGED <<locked, modes, pc, op, ifg, polled, rx>>

-------------------------------------------------------------------------------
(* The steps of main: from p to q, unless an interrupt comes first *)

Step(p, q) == pc = p /\ pc' = q /\ ~(ie /\ ifg)

\* on(): interrupts and the receiver, and then the record of it.
Receiver(p, q) ==
  /\ Step(p, q)
  /\ ie' = (ie \/ ~poll_mode)
  /\ rf' = "rx" /\ sfd' = FALSE
  /\ UNCHANGED <<lock, receive_on, modes, op, ifg, polled, rx>>

Listen(p, q) ==
  /\ Step(p, q)
  /\ receive_on' = 1
  /\ UNCHANGED <<lock, modes, op, irq, chip, rx>>

\* off(): the record; and, once a transmission is over (a wait that is given up
\* after a while, so the carrier does not hold it), the receiver and interrupts.
\* Complete frames stay in the FIFO.
Off(p, q) ==
  /\ Step(p, q)
  /\ receive_on' = 0
  /\ UNCHANGED <<lock, modes, op, irq, chip, rx>>

TransmissionOver == rf # "tx" \/ carrier

Silence(p, q) ==
  /\ Step(p, q)
  /\ TransmissionOver
  /\ rf' = "off" /\ sfd' = FALSE
  /\ ie' = (ie /\ poll_mode)
  /\ UNCHANGED <<lock, receive_on, modes, op, ifg, polled, rx>>

Switching ==
  \/ Receiver("on", "listen") \/ Listen("listen", "release")
  \/ Receiver("deferred_on", "deferred_listen") \/ Listen("deferred_listen", "served_on")
  \/ Receiver("test_on", "test_listen") \/ Listen("test_listen", "idle")
  \/ Off("off", "silence") \/ Silence("silence", "release")
  \/ Off("deferred_off", "deferred_silence") \/ Silence("deferred_silence", "served_off")
  \/ Off("test_off", "test_silence") \/ Silence("test_silence", "carrier")

\* A fault: a deferred off is forgotten rather than served.
ForgetOff ==
  /\ pc = "release_off" /\ pc' = "unlock" /\ ~(ie /\ ifg)
  /\ lock_off' = 0
  /\ UNCHANGED <<locked, lock_on, receive_on, modes, op, irq, chip, rx>>

\* RELEASE_LOCK: serve a deferred on, then a deferred off, then free the lock.
ReleaseOn ==
  /\ Step("release", IF locked = 1 /\ lock_on = 1 THEN "deferred_on" ELSE "release_off")
  /\ UNCHANGED <<lock, receive_on, modes, op, irq, chip, rx>>

ServedOn ==
  /\ Step("served_on", "release_off")
  /\ lock_on' = 0
  /\ UNCHANGED <<locked, lock_off, receive_on, modes, op, irq, chip, rx>>

ReleaseOff ==
  /\ Step("release_off", IF locked = 1 /\ lock_off = 1 THEN "deferred_off" ELSE "unlock")
  /\ UNCHANGED <<lock, receive_on, modes, op, irq, chip, rx>>

ServedOff ==
  /\ Step("served_off", "unlock")
  /\ lock_off' = 0
  /\ UNCHANGED <<locked, lock_on, receive_on, modes, op, irq, chip, rx>>

Unlock ==
  /\ Step("unlock", IF op = "cca" THEN "after_cca" ELSE "idle")
  /\ locked' = locked - 1 /\ op' = "none"
  /\ UNCHANGED <<lock_on, lock_off, receive_on, modes, irq, chip, rx>>

Releasing == ReleaseOn \/ ServedOn \/ ReleaseOff \/ ServedOff \/ Unlock

-------------------------------------------------------------------------------
(* Operations *)

\* Operations whose end depends on, or is judged by, how they began.
Followed == {"on", "to_off", "cca"}

\* GET_LOCK
GetLock(from, o) ==
  /\ Step(from, o)
  /\ op' = (IF o \in Followed THEN o ELSE "none") /\ locked' = locked + 1
  /\ UNCHANGED <<lock_on, lock_off, receive_on, modes, irq, chip, rx>>

\* A process calls an operation of the driver; cc2420_on and cc2420_off return at
\* once when there is nothing to do.
Call ==
  \/ \E o \in {"prepare", "setting", "channel", "transmit", "rssi", "cca"} : GetLock("idle", o)
  \/ receive_on = 0 /\ GetLock("idle", "on")
  \/ receive_on = 1 /\ GetLock("idle", "to_off")

\* cc2420_prepare: writes the frame to be sent.
Prepare ==
  /\ Step("prepare", "release")
  /\ UNCHANGED <<lock, receive_on, modes, op, irq, chip, rx>>

\* set_auto_ack, set_frame_filtering and the like: only read and write registers
\* that nothing here depends on.
Setting ==
  /\ Step("setting", "release")
  /\ UNCHANGED <<lock, receive_on, modes, op, irq, chip, rx>>

\* cc2420_set_channel: calibrates a receiver that is on.
SetChannel ==
  /\ Step("channel", "release")
  /\ TransmissionOver
  /\ IF receive_on = 1 THEN rf' = "rx" /\ sfd' = FALSE ELSE UNCHANGED chip
  /\ UNCHANGED <<lock, receive_on, modes, op, irq, rx>>

\* cc2420_off: during a transmission it asks for what RELEASE_LOCK does next.
TurnOff ==
  /\ Step("to_off", IF rf = "tx" THEN "release" ELSE "off")
  /\ lock_off' = IF rf = "tx" THEN 1 ELSE lock_off
  /\ UNCHANGED <<locked, lock_on, receive_on, modes, op, irq, chip, rx>>

\* cc2420_rssi: with the radio off, its cc2420_on is deferred by its own lock and
\* its cc2420_off finds the radio off.
Rssi ==
  /\ Step("rssi", "release")
  /\ lock_on' = IF receive_on = 0 THEN 1 ELSE lock_on
  /\ UNCHANGED <<locked, lock_off, receive_on, modes, op, irq, chip, rx>>

\* cc2420_cca: likewise, but its cc2420_off comes after RELEASE_LOCK.
Cca ==
  /\ Step("cca", "release")
  /\ IF receive_on = 0 THEN lock_on' = 1 /\ op' = op ELSE lock_on' = lock_on /\ op' = "none"
  /\ UNCHANGED <<locked, lock_off, receive_on, modes, irq, chip, rx>>

AfterCca ==
  \/ receive_on = 1 /\ GetLock("after_cca", "to_off")
  \/ /\ Step("after_cca", "idle") /\ receive_on = 0
     /\ UNCHANGED <<lock, receive_on, modes, op, irq, chip, rx>>

\* set_poll_mode.  It clears the interrupt flag, so it is only safe to call with
\* nothing to read; a MAC sets the mode before it turns the radio on.
CallPollMode == rf = "off" /\ ~FIFOP /\ GetLock("idle", "mode")

SetPollMode ==
  /\ Step("mode", "release")
  /\ poll_mode' \in BOOLEAN
  /\ ie' = ~poll_mode' /\ ifg' = FALSE
  /\ UNCHANGED <<lock, receive_on, send_on_cca, carrier, was_on, op, polled, chip, rx>>

\* set_send_on_cca
SetSendOnCca ==
  /\ Step("idle", "idle")
  /\ send_on_cca' = ~send_on_cca
  /\ UNCHANGED <<lock, receive_on, poll_mode, carrier, was_on, op, irq, chip, rx>>

\* set_test_mode, without the lock.
StartTest ==
  /\ Step("idle", "test_off") /\ ~carrier
  /\ was_on' = receive_on
  /\ UNCHANGED <<lock, receive_on, poll_mode, send_on_cca, carrier, op, irq, chip, rx>>

StartCarrier ==
  /\ Step("carrier", "idle")
  /\ carrier' = TRUE /\ rf' = "tx" /\ sfd' = FALSE
  /\ UNCHANGED <<lock, receive_on, poll_mode, send_on_cca, was_on, op, irq, rx>>

StopTest ==
  /\ Step("idle", IF was_on = 1 THEN "test_on" ELSE "idle") /\ carrier
  /\ carrier' = FALSE /\ rf' = "off" /\ sfd' = FALSE
  /\ UNCHANGED <<lock, receive_on, poll_mode, send_on_cca, was_on, op, irq, rx>>

-------------------------------------------------------------------------------
(* cc2420_transmit *)

\* With CCA the receiver is turned on to listen first.
Transmit ==
  /\ Step("transmit", IF send_on_cca THEN "strobe" ELSE "await")
  /\ rf' = (IF send_on_cca THEN "rx" ELSE "tx") /\ sfd' = FALSE
  /\ UNCHANGED <<lock, receive_on, modes, op, irq, rx>>

\* STXONCCA: nothing is sent when the channel is busy.
Strobe ==
  /\ Step("strobe", "await")
  /\ \/ rf = "rx" /\ ~sfd /\ rf' = "tx"
     \/ rf' = rf
  /\ UNCHANGED <<lock, receive_on, modes, op, irq, sfd, rx>>

\* SFD tells a transmission under way from one that never started or that a
\* reception came before (RADIO_TX_COLLISION).
Started ==
  /\ Step("await", "sending") /\ rf = "tx"
  /\ op' = "sent"
  /\ UNCHANGED <<lock, receive_on, modes, irq, chip, rx>>

\* A fault: this return forgets RELEASE_LOCK.
CollisionKeepsLock ==
  /\ pc = "await" /\ pc' = "idle" /\ ~(ie /\ ifg)
  /\ rf # "tx"
  /\ UNCHANGED <<lock, receive_on, modes, op, irq, chip, rx>>

Collision ==
  /\ Step("await", "release") /\ rf # "tx"
  /\ UNCHANGED <<lock, receive_on, modes, op, irq, chip, rx>>

\* A fault: the receiver is left on after a transmission.
SentStaysOn ==
  /\ pc = "sending" /\ pc' = "release" /\ ~(ie /\ ifg)
  /\ TransmissionOver
  /\ UNCHANGED <<lock, receive_on, modes, op, irq, chip, rx>>

\* The chip listens after a transmission, so a radio that was off is turned off.
Sent ==
  /\ Step("sending", IF receive_on = 1 THEN "release" ELSE "off")
  /\ TransmissionOver
  /\ UNCHANGED <<lock, receive_on, modes, op, irq, chip, rx>>

-------------------------------------------------------------------------------
(* Reception *)

\* The driver's process takes up a poll; in poll mode the event is discarded.
Poll ==
  /\ polled /\ polled' = FALSE
  /\ IF ~poll_mode /\ FIFOP
     THEN Step("idle", "read") /\ op' = "none" /\ locked' = locked + 1
     ELSE Step("idle", "idle") /\ UNCHANGED <<op, locked>>
  /\ UNCHANGED <<lock_on, lock_off, receive_on, modes, ie, ifg, chip, rx>>

\* In poll mode the MAC calls cc2420_read itself.
PollModeRead == poll_mode /\ FIFOP /\ GetLock("idle", "read")

\* flushrx: empties the FIFO and abandons a reception.
Flush == fifo' = <<>> /\ overflow' = FALSE /\ sfd' = FALSE

\* The frame read next is of kind f.
Waits(f) == fifo # <<>> /\ Head(fifo) = f

\* cc2420_read, up to the frame: a length out of bounds flushes the FIFO.  What
\* an overflow left behind the last complete frame may look like either.
ReadFrame ==
  /\ Step("read", "check")
  /\ ~Waits("out_of_sync")
  /\ fifo' = IF fifo = <<>> THEN fifo ELSE Tail(fifo)
  /\ UNCHANGED <<lock, receive_on, modes, op, irq, chip, overflow>>

ReadOutOfSync ==
  /\ Step("read", "release")
  /\ ~Waits("frame")
  /\ Flush
  /\ UNCHANGED <<lock, receive_on, modes, op, irq, rf>>

\* Faults: the next frame is left to its interrupt; an overflow is not noticed.
CheckNothing ==
  /\ pc = "check" /\ pc' = "release" /\ ~(ie /\ ifg)
  /\ UNCHANGED <<lock, receive_on, modes, op, irq, chip, rx>>

\* cc2420_read after the frame: an overflow is cleared, and a further frame, which
\* raises no interrupt, is polled for.
Check ==
  /\ Step("check", "release")
  /\ IF ~poll_mode /\ overflow THEN Flush ELSE UNCHANGED <<sfd, rx>>
  /\ polled' = (polled \/ (~poll_mode /\ FIFOP /\ ~overflow))
  /\ UNCHANGED <<lock, receive_on, modes, op, ie, ifg, rf>>

Reading == Poll \/ PollModeRead \/ ReadFrame \/ ReadOutOfSync \/ Check

-------------------------------------------------------------------------------
\* The step main takes next inside an operation.
Proceed ==
  \/ Switching \/ Releasing
  \/ Prepare \/ Setting \/ SetChannel \/ TurnOff \/ Rssi \/ Cca \/ AfterCca
  \/ SetPollMode \/ StartCarrier
  \/ Transmit \/ Strobe \/ Started \/ Collision \/ Sent
  \/ ReadFrame \/ ReadOutOfSync \/ Check

Next ==
  \/ FrameBegins \/ FrameEnds \/ TransmissionEnds
  \/ Interrupt \/ DeferOn \/ DeferOff \/ Switch(0) \/ Switch(1)
  \/ Proceed
  \/ Call \/ CallPollMode \/ SetSendOnCca \/ StartTest \/ StopTest
  \/ Poll \/ PollModeRead

Spec == Init /\ [][Next]_vars

\* A transmission ends and an interrupt is served; main finishes what it began;
\* Contiki takes up a poll between any two events of other processes; and the
\* device keeps using its radio: it always has a next frame to send.
FairSpec ==
  /\ Spec
  /\ WF_vars(TransmissionEnds) /\ WF_vars(Interrupt) /\ SF_vars(Proceed)
  /\ SF_vars(Poll) /\ SF_vars(GetLock("idle", "prepare"))

-------------------------------------------------------------------------------
\* Program points where main holds the lock, and where it does not.
Inside == {"on", "listen", "to_off", "off", "silence", "prepare", "setting", "channel",
           "rssi", "cca", "mode", "transmit", "strobe", "await", "sending", "read", "check",
           "release", "deferred_on", "deferred_listen", "served_on", "release_off",
           "deferred_off", "deferred_silence", "served_off", "unlock"}
Outside == {"idle", "after_cca", "test_off", "test_silence", "carrier", "test_on",
            "test_listen"}
\* The variables have their types: the lock is never taken twice, and the FIFO
\* never holds more than fits.
TypeOK ==
  /\ locked \in {0, 1} /\ lock_on \in {0, 1} /\ lock_off \in {0, 1} /\ receive_on \in {0, 1}
  /\ poll_mode \in BOOLEAN /\ send_on_cca \in BOOLEAN /\ carrier \in BOOLEAN
  /\ was_on \in {0, 1}
  /\ pc \in Inside \cup Outside /\ op \in Followed \cup {"none", "sent"}
  /\ ie \in BOOLEAN /\ ifg \in BOOLEAN /\ polled \in BOOLEAN
  /\ rf \in {"off", "rx", "tx"} /\ sfd \in BOOLEAN
  /\ fifo \in Seq(Frames) /\ Len(fifo) <= FifoFrames /\ overflow \in BOOLEAN

\* Every way out of every operation gives the lock back, once: main holds it
\* exactly inside an operation, so requests are deferred only there.
LockHeld == locked = IF pc \in Inside THEN 1 ELSE 0

\* No lost wake-up: in interrupt mode, a frame (or an overflow) in the FIFO has an
\* edge still to be served, or the process is polled, or it is reading right now.
\* FIFOP does not rise again for a second frame, and a frame may arrive at any
\* point of cc2420_read, of off() and of the lock's release.
NoFrameStranded ==
  FIFOP /\ ~poll_mode => ifg \/ polled \/ pc \in {"read", "check"}

\* After cc2420_on, cc2420_off and a transmission that went out, the chip listens
\* exactly when receive_on says so, whatever was deferred meanwhile: "We need to
\* explicitly turn off the radio" after a transmission.
SwitchedAsRecorded ==
  pc = "unlock" /\ op \in {"on", "to_off", "sent"} => (rf = "off" <=> receive_on = 0)

\* A frame in the FIFO is read in the end, unless the radio is turned off first.
FrameTaken == (FIFOP /\ ie /\ ~poll_mode) ~> (pc = "check" \/ ~FIFOP \/ ~ie)

\* A request deferred by the lock is served in the end, also one that came after
\* RELEASE_LOCK had looked for it: then by the operation after it.
RequestServed ==
  /\ (lock_on = 1) ~> (receive_on = 1)
  /\ (lock_off = 1) ~> (receive_on = 0)
===============================================================================
