------------------------------ MODULE FieldBus ------------------------------
(***************************************************************************)
(* The field bus of the gateway (field.rs): one task per Modbus device     *)
(* that connects and keeps reconnecting, arms the device's own watchdog,   *)
(* and then reads the device and writes its setpoint every control period. *)
(* The tasks share nothing but the board of readings and the latest        *)
(* setpoints, so one task with its device is modelled, of any kind.        *)
(*                                                                         *)
(* One action is what the task does with the answer of one Modbus request, *)
(* up to the next one.  The network falls silent, devices are power-cycled *)
(* and the gateway is killed at any of these points.  A period is a second *)
(* (control_period_ms), so that a request times out within one (0.8 s) and *)
(* a connect within two (1.6 s); a device that is there answers in time.   *)
(***************************************************************************)
EXTENDS DeviceSim, Sequences

CONSTANTS
  Setpoints,       \* [kind -> setpoints, in 0.01 A, kW, %]
  FailsafeA,       \* failsafe_current_a
  FailsafeTimeout, \* failsafe_timeout_s
  WatchdogS,       \* watchdog_s
  Refresh,         \* INVERTER_REFRESH
  Stale,           \* stale_after_ms
  ReconnectDelay,  \* RECONNECT_DELAY
  Settle, Notice, FallBack  \* the periods the properties allow

ASSUME FieldBusAssumption ==
  \* Config::load, and devices that have a watchdog; a negative failsafe
  \* current, which Config::load lets pass, is left out
  /\ Stale \in Nat /\ Stale >= 2 /\ FailsafeA \in Nat
  /\ FailsafeTimeout \in Nat \ {0} /\ WatchdogS \in Nat \ {0}
  /\ ReconnectDelay \in Nat /\ ReconnectDelay >= 2 /\ Refresh \in Nat
  /\ {Settle, Notice, FallBack} \subseteq Nat

\* No limit or current is negative; a battery discharges below 0.
ASSUME SetpointAssumption ==
  /\ Setpoints["inverter"] \subseteq Nat /\ Setpoints["charger"] \subseteq Nat
  /\ Setpoints["battery"] \subseteq Int /\ Setpoints["meter"] \subseteq Int
  /\ Setpoints["heat_pump"] \subseteq [limit : Nat, ext : Nat \cup {None}]
  /\ None \notin [limit : Nat, ext : Nat \cup {None}]
  /\ None \notin [pct : Nat, at : Nat]

VARIABLES
  kind,      \* DeviceId
  dev,       \* the device
  net,       \* requests reach the device, and its answers the gateway
  link,      \* the device has its end of the TCP connection
  up,        \* the gateway runs
  pc, step,  \* what the task waits for: an answer, its tick, the end of sleep
  wait,      \* for how long
  due,       \* the interval has ticked
  setpoint,  \* the watch channel, this device's part
  target,    \* what the task has borrowed from it
  written,   \* Some((pct, at)) of an inverter session
  slot,      \* age of the reading on the board; None: no reading
  \* history, ages:
  span,      \* since the last fault, or how long the device is out of reach
  calm,      \* since the setpoint changed
  told       \* since its power-up the device has had "nothing", has been
             \* "armed" by a new session, and has then had a "setpoint"

task == <<pc, step, wait, due, target, written, slot>>
fvars == <<kind, dev, net, link, up, task, setpoint, span, calm, told>>

Older(age, max) == IF age = None THEN None ELSE AtMost(age + 1, max)
SpanMax == IF Settle > FallBack THEN Settle ELSE FallBack

\* Slot: the age of the reading, and whether there is one.
Slots == {None} \cup 0 .. Stale + 1

\* Mutant: a reading is fresh within its period only.
FreshForNone == slot # None /\ slot < 1

\* Slot::fresh.  For the controller a device without a fresh reading is offline.
Fresh == slot # None /\ slot <= Stale

RoundTenths(x) == IF x >= 0 THEN (x + 5) \div 10 ELSE -((5 - x) \div 10)

\* The setpoints until the first cycle has run; the saved feed-in limit of an
\* inverter is any.
InitialSetpoints ==
  CASE kind = "charger" -> {10 * FailsafeA}
    [] kind = "heat_pump" -> {[limit |-> 4 * Rated[kind], ext |-> None]}
    [] kind = "battery" -> {0}
    [] OTHER -> Setpoints[kind]

\* Mutant: a session arms the current but not the timeout, nor the inverter.
ArmingHalf ==
  IF kind = "charger" THEN <<<<"FAILSAFE_CURRENT", FailsafeA>>>> ELSE <<>>

\* What a session writes before it first reads.
Arming ==
  CASE kind = "inverter" -> <<<<"RVRT_TMS", 0>>>>
    [] kind = "charger" -> <<<<"FAILSAFE_CURRENT", FailsafeA>>,
                             <<"FAILSAFE_TIMEOUT", FailsafeTimeout>>>>
    [] kind = "battery" -> <<<<"WATCHDOG_S", WatchdogS>>>>
    [] OTHER -> <<>>

\* The setpoint as a session writes it, after each reading.
Writes(sp) ==
  CASE kind = "inverter" -> <<<<"W_MAX_LIM_PCT", RoundTenths(sp)>>,
                              <<"W_MAX_LIM_ENA", 1>>>>
    [] kind = "charger" -> <<<<"CURRENT_LIMIT", RoundTenths(sp)>>>>
    [] kind = "heat_pump" ->
         <<<<"POWER_LIMIT", sp.limit \div 10>>,
           <<"EXT_POWER", IF sp.ext = None THEN None ELSE RoundTenths(sp.ext)>>>>
    [] kind = "battery" -> <<<<"SETPOINT", RoundTenths(sp)>>>>
    [] OTHER -> <<>>

\* Mutant: the limit is written on change only.
DueOnChangeOnly(now) ==
  kind # "inverter" \/ written = None \/ written.pct # now

\* An inverter is written when its limit moved, or after a while.
Due(now) ==
  kind # "inverter" \/ written = None
  \/ (IF written.pct > now THEN written.pct - now ELSE now - written.pct) > 5
  \/ written.at > Refresh

-----------------------------------------------------------------------------
\* supervise, and the sessions it runs.

Goto(where, k) == pc' = where /\ step' = k /\ wait' = 0

\* Mutant: the reading of a lost device stays until it is stale.
LostKeepsReading == Goto("sleep", 0) /\ UNCHANGED slot /\ target' = None

\* A session's end: on_lost clears the reading, then sleep(RECONNECT_DELAY).
Lost == Goto("sleep", 0) /\ slot' = None /\ target' = None

Awaits == {"connect", "discover", "arm", "read", "write"}
Answered == up /\ net /\ pc \in Awaits
Keep == UNCHANGED <<kind, net, up, setpoint, span, calm>>

\* The next request after the k-th of the arming, or of the setpoint.
Arm(k) ==
  IF k > Len(Arming)
    THEN Goto("tick", 0) /\ told' = IF told = "nothing" THEN "armed" ELSE told
    ELSE Goto("arm", k) /\ UNCHANGED told
Told == IF told = "armed" THEN "setpoint" ELSE told
Write(k) == IF k > Len(Writes(target))
              THEN Goto("tick", 0) /\ target' = None
              ELSE Goto("write", k) /\ UNCHANGED target

Connected ==
  /\ Answered /\ pc = "connect"
  /\ link' = TRUE /\ due' = TRUE /\ written' = None
  /\ IF kind \in {"inverter", "meter"}
       THEN Goto("discover", 0) /\ UNCHANGED told ELSE Arm(1)
  /\ Keep /\ UNCHANGED <<dev, target, slot>>

\* The SunSpec model chain, and what the session needs of its models.
Discovered ==
  /\ Answered /\ link /\ pc = "discover"
  /\ Arm(1)
  /\ Keep /\ UNCHANGED <<dev, link, due, target, written, slot>>

Armed ==
  /\ Answered /\ link /\ pc = "arm"
  /\ dev' = Written(kind, dev, Arming[step][1], Arming[step][2])
  /\ Arm(step + 1)
  /\ Keep /\ UNCHANGED <<link, due, target, written, slot>>

Ticked ==
  /\ up /\ pc = "tick" /\ due
  /\ due' = FALSE /\ Goto("read", 0)
  /\ Keep /\ UNCHANGED <<dev, link, target, written, slot, told>>

\* The reading goes on the board, the setpoint is borrowed once.  An inverter
\* session puts the reading there only when it has also written.
Read ==
  /\ Answered /\ link /\ pc = "read"
  /\ IF Writes(setpoint) # <<>> /\ Due(setpoint)
       THEN /\ Goto("write", 1) /\ target' = setpoint
            /\ slot' = IF kind = "inverter" THEN slot ELSE 0
       ELSE Goto("tick", 0) /\ slot' = 0 /\ UNCHANGED target
  /\ Keep /\ UNCHANGED <<dev, link, due, written, told>>

Wrote ==
  /\ Answered /\ link /\ pc = "write"
  /\ dev' = Written(kind, dev, Writes(target)[step][1], Writes(target)[step][2])
  /\ Write(step + 1)
  /\ IF step = Len(Writes(target))
       THEN /\ told' = Told
            /\ IF kind = "inverter"
                 THEN written' = [pct |-> target, at |-> 0] /\ slot' = 0
                 ELSE UNCHANGED <<written, slot>>
       ELSE UNCHANGED <<told, written, slot>>
  /\ Keep /\ UNCHANGED <<link, due>>

\* A request times out, is refused or is answered with a reset.
Fails ==
  /\ up /\ pc \in Awaits
  /\ ~net \/ (~link /\ pc # "connect")
  /\ Lost
  /\ Keep /\ UNCHANGED <<dev, link, due, written, told>>

Awake ==
  /\ up /\ pc = "sleep" /\ wait = ReconnectDelay
  /\ Goto("connect", 0)
  /\ Keep /\ UNCHANGED <<dev, link, due, target, written, slot, told>>

-----------------------------------------------------------------------------
\* The control loop, faults and time.

\* The cycle publishes new setpoints (setpoints_tx).
Publish ==
  /\ up
  /\ \E sp \in Setpoints[kind] : sp # setpoint /\ setpoint' = sp
  /\ calm' = 0
  /\ UNCHANGED <<kind, dev, net, link, up, task, span, told>>

InReach == up /\ net

NetworkFails ==
  /\ net /\ net' = FALSE /\ span' = IF up THEN 0 ELSE span
  /\ UNCHANGED <<kind, dev, link, up, task, setpoint, calm, told>>

NetworkBack ==
  /\ ~net /\ net' = TRUE /\ span' = IF up THEN 0 ELSE span
  /\ UNCHANGED <<kind, dev, link, up, task, setpoint, calm, told>>

\* The write lands but its answer does not arrive.
AnswerLost ==
  /\ Answered /\ link /\ pc \in {"arm", "write"}
  /\ LET r == IF pc = "arm" THEN Arming[step] ELSE Writes(target)[step]
     IN  dev' = Written(kind, dev, r[1], r[2])
  /\ told' = IF pc = "write" /\ step = Len(Writes(target)) THEN Told ELSE told
  /\ Lost /\ span' = 0
  /\ UNCHANGED <<kind, net, link, up, due, written, setpoint, calm>>

\* A device reboots.  Its connection goes with it, except that an inverter
\* may be behind a data logger, which keeps the connection; its RVRT_TMS is a
\* stored setting.
PowerCycle ==
  /\ dev' = IF kind = "inverter"
              THEN [PoweredUp(kind) EXCEPT !.revert = dev.revert]
              ELSE PoweredUp(kind)
  /\ told' = "nothing"
  /\ link' \in {FALSE} \cup IF kind = "inverter" THEN {link} ELSE {}
  /\ span' = IF InReach THEN 0 ELSE span
  /\ UNCHANGED <<kind, net, up, task, setpoint, calm>>

Crash ==
  /\ up /\ up' = FALSE /\ link' = FALSE
  /\ Lost /\ due' = FALSE /\ written' = None
  /\ span' = IF net THEN 0 ELSE span
  /\ UNCHANGED <<kind, dev, net, setpoint, calm, told>>

\* main: the board is empty, and the tasks start before the first cycle.
Restart ==
  /\ ~up /\ up' = TRUE
  /\ setpoint' \in InitialSetpoints /\ calm' = 0
  /\ Goto("connect", 0)
  /\ span' = IF net THEN 0 ELSE span
  /\ UNCHANGED <<kind, dev, net, link, due, target, written, slot, told>>

\* A period passes when the task has nothing left to do in it.
Blocked ==
  \/ ~up
  \/ (pc = "tick" /\ ~due)
  \/ (pc = "sleep" /\ wait < ReconnectDelay)
  \/ (pc \in Awaits /\ ~net /\ wait < IF pc = "connect" THEN 2 ELSE 1)

Clock ==
  /\ Blocked
  /\ dev' \in Stepped(kind, dev)
  /\ wait' = IF pc = "tick" \/ ~up THEN 0 ELSE wait + 1
  /\ due' = (up /\ pc \in Awaits \cup {"tick"})
  /\ slot' = Older(slot, Stale + 1)
  /\ written' = IF written = None THEN None
                ELSE [written EXCEPT !.at = Older(@, Refresh + 1)]
  /\ span' = Older(span, SpanMax) /\ calm' = Older(calm, Settle)
  /\ UNCHANGED <<kind, net, link, up, pc, step, setpoint, target, told>>

FInit ==
  /\ kind \in Kinds /\ dev = PoweredUp(kind)
  /\ net = TRUE /\ link = FALSE /\ up = TRUE
  /\ pc = "connect" /\ step = 0 /\ wait = 0 /\ due = FALSE
  /\ setpoint \in InitialSetpoints /\ target = None /\ written = None
  /\ slot = None /\ span = 0 /\ calm = 0 /\ told = "nothing"

FNext ==
  \/ Connected \/ Discovered \/ Armed \/ Ticked \/ Read \/ Wrote \/ Fails
  \/ Awake \/ Publish \/ NetworkFails \/ NetworkBack \/ AnswerLost
  \/ PowerCycle \/ Crash \/ Restart \/ Clock

FieldSpec == FInit /\ [][FNext]_fvars

-----------------------------------------------------------------------------
\* Properties.

\* What the board, the task and the device hold is what they can hold: a
\* reading has an age, a request that awaits an answer has one to await, and
\* a battery is charged neither past full nor below empty.
FieldType ==
  /\ slot \in Slots /\ wait \in 0 .. ReconnectDelay
  /\ pc \in Awaits \cup {"tick", "sleep"}
  /\ pc = "arm" => step \in 1 .. Len(Arming)
  /\ pc = "write" => target # None /\ step \in 1 .. Len(Writes(target))
  /\ dev \in Devices(kind)

Applied ==
  CASE kind = "inverter" -> dev.enabled /\ dev.limit = RoundTenths(setpoint)
    [] kind = "charger" ->
         dev.limit = AtMost(RoundTenths(setpoint), Rated[kind]) /\ ~InFailsafe(dev)
    [] kind = "heat_pump" ->
         /\ dev.limit = AtMost(setpoint.limit \div 10, Rated[kind])
         /\ External(dev) <=> setpoint.ext # None
    [] kind = "battery" ->
         dev.setpoint = RoundTenths(setpoint) /\ ~InWatchdog(dev)
    [] OTHER -> TRUE

\* A setpoint that stands is in force on a device that is there, whatever
\* was lost, rebooted or killed on the way: a lost answer, a limit written
\* but not enabled, an inverter that forgot it behind its data logger.
SetpointReachesDevice ==
  InReach /\ span >= Settle /\ calm >= Settle => Applied

\* A device armed by a session that then had a setpoint falls back by itself when the
\* gateway or the network is gone: a charger to its failsafe current, a
\* battery to nothing, a heat pump to its thermostat, and an inverter keeps
\* its last limit instead of reverting to none.
OrphanFallsBack ==
  ~InReach /\ span >= FallBack /\ told = "setpoint" =>
    CASE kind = "inverter" -> dev.enabled /\ dev.output <= dev.limit
      [] kind = "charger" -> dev.current <= FailsafeA
      [] kind = "heat_pump" -> ~External(dev)
      [] kind = "battery" -> dev.power = 0
      [] OTHER -> TRUE

\* A device that does not answer is offline on the board within Notice
\* periods, before its last reading goes stale.
OfflineIsNoticed == up /\ ~net /\ span >= Notice => ~Fresh

\* A device that is back is online again, and stays so.
OnlineComesBack == InReach /\ span >= Settle => Fresh

\* The board says of a device what is so.
BoardIsTrue == FieldType /\ OfflineIsNoticed /\ OnlineComesBack
=============================================================================
