------------------------------ MODULE DeviceLoop ------------------------------
(***************************************************************************)
(* The process of one device other than a gateway: the loop that asks for  *)
(* a parent or sends keep-alives, driven by two etimers, and the LED of a  *)
(* valve or a bulb, switched off by a ctimer.  Whether the device has a    *)
(* parent is decided by the routing (module Routing): an offer may be      *)
(* adopted at any time, and any counted packet may cost the parent.        *)
(*                                                                         *)
(* Time is counted in ticks and passes only when no timer is due and no    *)
(* timer event is queued: a handler takes much less than a tick.           *)
(***************************************************************************)
EXTENDS Integers

CONSTANTS
  SendInterval,       \* SEND_INTERVAL
  KeepAliveInterval,  \* KEEP_ALIVE_INTERVAL
  Durations,          \* times a command may ask for
  Horizon             \* bound: when the clock stops

ASSUME IntervalAssumption ==
  /\ SendInterval \in Nat \ {0} /\ KeepAliveInterval \in Nat
  /\ SendInterval <= KeepAliveInterval
ASSUME BoundAssumption == Durations \subseteq Nat /\ Horizon \in Nat

VARIABLES
  program,     \* which program the device runs; it never changes
  setup,       \* 1 when the routing has a parent
  pc,          \* what the loop waits for
  queries,     \* nb_queries of mobile.c
  setupTimer,  \* periodic_timer_setup: when it is due, and whether it is pending
  keepTimer,   \* periodic_timer
  events,      \* timer events queued for the process
  now,         \* the time
  sent,        \* when the device last sent a packet of its own
  asked,       \* when it last broadcast a SETUP
  led,         \* the LED that stands for the water or the light
  offTimer,    \* the ctimer that switches it off
  until        \* how long the commands so far ask it to be on

loop == <<pc, queries, setupTimer, keepTimer, events, asked>>
lamp == <<led, offTimer, until>>
vars == <<program, setup, loop, now, sent, lamp>>

\* Programs that restart their etimers with etimer_reset, and with etimer_set.
ResetBased == {"sub-gateway", "node", "light-sensor"}
SetBased == {"light-bulb", "mobile"}
Programs == ResetBased \cup SetBased \cup {"irrigation-valve"}

\* The sensor reports at every SEND_INTERVAL, the others keep alive.
KeepAlive == IF program = "light-sensor" THEN SendInterval ELSE KeepAliveInterval

-------------------------------------------------------------------------------
(* Timers *)

Due(t) == t.state = "pending" /\ t.due <= now

\* etimer_set: from now.
Set(interval) == [due |-> now + interval, state |-> "pending"]

\* etimer_reset: one interval from when the timer was due, which may be past; a
\* timer that is not due goes on as it was.
Reset(t, interval) ==
  [due |-> IF t.due <= now THEN t.due + interval ELSE t.due, state |-> "pending"]

\* A fault: every program resets its timers.
AlwaysReset(t, interval) == Reset(t, interval)

Again(t, interval) == IF program \in ResetBased THEN Reset(t, interval) ELSE Set(interval)

Expired(t) == IF Due(t) THEN [t EXCEPT !.state = "expired"] ELSE t
Posted(t) == IF Due(t) THEN 1 ELSE 0

\* The etimer process: every timer that is due expires, with an event for its
\* process; etimer_expired is true from then on.
Expire ==
  /\ Due(setupTimer) \/ Due(keepTimer)
  /\ setupTimer' = Expired(setupTimer)
  /\ keepTimer' = Expired(keepTimer)
  /\ events' = events + Posted(setupTimer) + Posted(keepTimer)
  /\ UNCHANGED <<program, setup, pc, queries, now, sent, asked, lamp>>

Tick ==
  /\ now < Horizon
  /\ events = 0
  /\ ~Due(setupTimer) /\ ~Due(keepTimer) /\ ~Due(offTimer)
  /\ now' = now + 1
  /\ UNCHANGED <<program, setup, loop, sent, lamp>>

-------------------------------------------------------------------------------
(* The loop of every program but the valve's *)

\* The process has run up to its first wait: it has broadcast a SETUP.
Init ==
  /\ program \in Programs
  /\ setup = 0 /\ pc = "asking" /\ queries = 0
  /\ now = 0 /\ sent = 0 /\ asked = 0 /\ events = 0
  /\ setupTimer = [due |-> SendInterval, state |-> "pending"]
  /\ keepTimer = IF program \in SetBased THEN [due |-> 0, state |-> "expired"]
                 ELSE [due |-> KeepAlive, state |-> "pending"]
  /\ led = "off" /\ offTimer = [due |-> 0, state |-> "expired"] /\ until = 0

\* The timer of PROCESS_WAIT_EVENT_UNTIL.
Waited == IF pc = "resting" THEN keepTimer ELSE setupTimer

Woken == program # "irrigation-valve" /\ events > 0 /\ events' = events - 1

\* send_data_packet with ack = 1.
Counted == setup' \in {0, setup}

\* The process is called with an event it does not wait for.
Yield ==
  /\ Woken /\ Waited.state = "pending"
  /\ UNCHANGED <<program, setup, pc, queries, setupTimer, keepTimer, now, sent, asked, lamp>>

\* The inner loop: not set up, so ask again and wait.
Ask ==
  /\ Woken /\ Waited.state = "expired"
  /\ pc # "querying" /\ setup = 0
  /\ pc' = "asking" /\ asked' = now /\ sent' = now
  /\ setupTimer' = Again(setupTimer, SendInterval)
  /\ keepTimer' = IF program \in ResetBased THEN Reset(keepTimer, KeepAlive) ELSE keepTimer
  /\ UNCHANGED <<program, setup, queries, now, lamp>>

\* A fault: one query more.
QueryOnceMore ==
  /\ Woken /\ Waited.state = "expired" /\ program = "mobile"
  /\ \/ pc # "querying" /\ setup = 1 /\ queries' = 1
     \/ pc = "querying" /\ queries <= 3 /\ queries' = queries + 1
  /\ pc' = "querying" /\ sent' = now
  /\ setupTimer' = Again(setupTimer, SendInterval)
  /\ UNCHANGED <<program, setup, keepTimer, now, asked, lamp>>

\* The mobile's three queries, one per SEND_INTERVAL.
Query ==
  /\ Woken /\ Waited.state = "expired" /\ program = "mobile"
  /\ \/ pc # "querying" /\ setup = 1 /\ queries' = 1
     \/ pc = "querying" /\ queries < 3 /\ queries' = queries + 1
  /\ pc' = "querying" /\ sent' = now
  /\ setupTimer' = Again(setupTimer, SendInterval)
  /\ UNCHANGED <<program, setup, keepTimer, now, asked, lamp>>

\* keep_alive, or the sensor's reading; then wait for the next.
Report ==
  /\ Woken /\ Waited.state = "expired"
  /\ IF program = "mobile" THEN pc = "querying" /\ queries = 3 ELSE setup = 1
  /\ Counted
  /\ pc' = "resting" /\ sent' = now
  /\ setupTimer' = IF program \in ResetBased THEN Reset(setupTimer, SendInterval) ELSE setupTimer
  /\ keepTimer' = Again(keepTimer, KeepAlive)
  /\ UNCHANGED <<program, queries, now, asked, lamp>>

-------------------------------------------------------------------------------
(* The valve's loop, which is woken by any timer event and looks at both timers *)

ValveWoken == program = "irrigation-valve" /\ events > 0 /\ events' = events - 1

ValveAsk ==
  /\ ValveWoken /\ setup = 0
  /\ setupTimer.state = "expired" \/ keepTimer.state = "expired"
  /\ setupTimer' = Set(SendInterval)
  /\ asked' = now /\ sent' = now
  /\ UNCHANGED <<program, setup, pc, queries, keepTimer, now, lamp>>

\* A fault: the keep-alive timer is not set again.
ValveReportOnce ==
  /\ ValveWoken /\ setup = 1 /\ keepTimer.state = "expired"
  /\ Counted
  /\ sent' = now
  /\ UNCHANGED <<program, pc, queries, setupTimer, keepTimer, now, asked, lamp>>

ValveReport ==
  /\ ValveWoken /\ setup = 1 /\ keepTimer.state = "expired"
  /\ Counted
  /\ keepTimer' = Set(KeepAlive) /\ sent' = now
  /\ UNCHANGED <<program, pc, queries, setupTimer, now, asked, lamp>>

ValveYield ==
  /\ ValveWoken
  /\ keepTimer.state = "pending"
  /\ setup = 1 \/ setupTimer.state = "pending"
  /\ UNCHANGED <<program, setup, pc, queries, setupTimer, keepTimer, now, sent, asked, lamp>>

-------------------------------------------------------------------------------
(* Packets received *)

\* check_parent_node or check_parent_sub_gateway adopts an offer.
Adopt ==
  /\ setup = 0 /\ setup' = 1
  /\ UNCHANGED <<program, loop, now, sent, lamp>>

\* A fault: a ctimer that runs is not set again.
OnUnlessOn(t) ==
  /\ led' = "on"
  /\ offTimer' = IF offTimer.state = "pending" THEN offTimer ELSE Set(t)
  /\ until' = now + t

\* The LED goes on for a time: the ctimer starts afresh.
OnFor(t) ==
  /\ led' = "on"
  /\ offTimer' = Set(t)
  /\ until' = now + t

\* A fault: the valve returns early when its acknowledgement costs the parent.
IrrigateAttached(t) ==
  /\ program = "irrigation-valve"
  /\ Counted /\ sent' = now
  /\ led' = "on" /\ until' = now + t
  /\ offTimer' = IF setup' = 0 THEN offTimer ELSE Set(t)
  /\ UNCHANGED <<program, loop, now>>

\* An irrigation command: water, and acknowledge it with a counted packet.
Irrigate(t) ==
  /\ program = "irrigation-valve"
  /\ Counted /\ sent' = now
  /\ OnFor(t)
  /\ UNCHANGED <<program, loop, now>>

\* "on" and "off" leave the ctimer alone; "on?t" sets it.
SwitchOn ==
  /\ program = "light-bulb"
  /\ led' = "on"
  /\ UNCHANGED <<program, setup, loop, now, sent, offTimer, until>>

SwitchOff ==
  /\ program = "light-bulb"
  /\ led' = "off" /\ until' = now
  /\ UNCHANGED <<program, setup, loop, now, sent, offTimer>>

SwitchOnFor(t) ==
  /\ program = "light-bulb"
  /\ OnFor(t)
  /\ UNCHANGED <<program, setup, loop, now, sent>>

\* The ctimer's callback.
TurnOff ==
  /\ Due(offTimer)
  /\ led' = "off"
  /\ offTimer' = Expired(offTimer)
  /\ UNCHANGED <<program, setup, loop, now, sent, until>>

-------------------------------------------------------------------------------
Loop == Yield \/ Ask \/ Query \/ Report
Valve == ValveAsk \/ ValveReport \/ ValveYield
Command ==
  \/ \E t \in Durations : Irrigate(t) \/ SwitchOnFor(t)
  \/ SwitchOn \/ SwitchOff

Next == Tick \/ Expire \/ Loop \/ Valve \/ Adopt \/ Command \/ TurnOff

Spec == Init /\ [][Next]_vars

-------------------------------------------------------------------------------
(* Properties *)

Timer == [due : Nat, state : {"pending", "expired"}]

\* Types; the mobile never sends more than three queries in a row.
TypeOK ==
  /\ program \in Programs /\ setup \in {0, 1}
  /\ pc \in {"asking", "querying", "resting"} /\ queries \in 0..3
  /\ setupTimer \in Timer /\ keepTimer \in Timer /\ offTimer \in Timer
  /\ events \in Nat /\ now \in Nat /\ sent \in Nat /\ asked \in Nat /\ until \in Nat
  /\ led \in {"on", "off"}

\* No device is ever silent for longer than its keep-alive interval, whatever it
\* waits for when it gains or loses its parent: the loops never wait for a timer
\* nobody set, nor the valve for two.  So a device that lost its parent asks for
\* another within that time.
NeverSilent == now - sent <= KeepAlive

\* A light bulb or a mobile never broadcasts two SETUPs within SEND_INTERVAL.
\* (The programs that use etimer_reset do: after a long attachment the set-up
\* timer is behind by all the time it was not looked at.)
SetupsSpaced ==
  [][Ask /\ program \in SetBased => now >= asked + SendInterval]_vars

\* Neither water nor light goes off before the end of the last command that set
\* a time, unless by an "off": a command that finds the ctimer running
\* renews it.
OnInFull == [][led = "on" /\ led' = "off" => now >= until']_vars

\* A valve never waters beyond the time of its last command, also when the
\* acknowledgement of that command costs it its parent.
WateringEnds == program = "irrigation-valve" /\ led = "on" => now <= until
===============================================================================
