----------------------------- MODULE DeviceSim -----------------------------
(***************************************************************************)
(* The devices of the field bus as their simulation implements them        *)
(* (devices/src/sim.rs, which the gateway's tests and the study run        *)
(* against): the registers each keeps, what a write does to them, and what *)
(* the device does in one control period, its own fallbacks included.      *)
(*                                                                         *)
(* A device is a record of its registers and its physical state.  Values   *)
(* are register units (0.1 A, 0.1 kW, 0.1 %), time is control periods, and *)
(* `age` counts them since the write that the device's watchdog watches.   *)
(***************************************************************************)
EXTENDS Integers

CONSTANTS
  None,        \* Option::None
  Rated,       \* [kind -> most it can draw, charge or feed in]
  Revert,      \* RVRT_TMS the inverter comes with, periods; 0 is never
  ExtTimeout,  \* EXT_TIMEOUT_S
  RampStep,    \* INVERTER_RAMP_PER_S over a period
  Suns,        \* solar_fraction, 0.1 %
  AgeMax       \* bound: ages count up to it

EvMin == 60                     \* 6 A
HeatPumpMin == 30               \* min_kw
Fractions == 0 .. 1000          \* 0.1 %
Kinds == {"inverter", "meter", "charger", "heat_pump", "battery"}

ASSUME DeviceAssumption ==
  /\ \A kind \in Kinds : Rated[kind] \in Nat
  /\ Revert \in Nat /\ ExtTimeout \in Nat /\ RampStep \in Nat /\ AgeMax \in Nat
  /\ Suns \subseteq Fractions
  /\ None \notin Int /\ None \notin [max : Nat, hungry : BOOLEAN]

AtMost(a, b) == IF a < b THEN a ELSE b
Within(lo, hi, x) == IF x < lo THEN lo ELSE IF x > hi THEN hi ELSE x

\* What a device keeps.
Ages == 0 .. AgeMax
InverterSims ==
  [enabled : BOOLEAN, limit : Nat, revert : Nat, age : Ages, output : Fractions]
CarsHere == [max : {160, Rated["charger"]}, hungry : BOOLEAN]
ChargerSims ==
  [limit : 0 .. Rated["charger"], failsafe : 0 .. Rated["charger"], timeout : Nat,
   age : Ages, car : CarsHere \cup {None}, current : 0 .. Rated["charger"]]
HeatPumpSims ==
  [limit : 0 .. Rated["heat_pump"], ext : Nat \cup {None}, age : Ages,
   indoor : -2 .. 2, cycle_on : BOOLEAN, power : 0 .. Rated["heat_pump"]]
BatterySims ==
  [setpoint : Int, watchdog : Nat, age : Ages, soc : 0 .. 2,
   power : -Rated["battery"] .. Rated["battery"]]

Devices(kind) ==
  CASE kind = "inverter" -> InverterSims [] kind = "charger" -> ChargerSims
    [] kind = "heat_pump" -> HeatPumpSims [] kind = "battery" -> BatterySims
    [] kind = "meter" -> [age : Ages]

\* The device after its power-up: no limit, no watchdog, no car.
PoweredUp(kind) ==
  CASE kind = "inverter" ->
         [enabled |-> FALSE, limit |-> 1000, revert |-> Revert, age |-> 0,
          output |-> 0]
    [] kind = "meter" -> [age |-> 0]
    [] kind = "charger" ->
         [limit |-> Rated[kind], failsafe |-> Rated[kind], timeout |-> 0,
          age |-> 0, car |-> None, current |-> 0]
    [] kind = "heat_pump" ->
         [limit |-> Rated[kind], ext |-> None, age |-> AgeMax, indoor |-> 0,
          cycle_on |-> FALSE, power |-> 0]
    [] kind = "battery" ->
         [setpoint |-> 0, watchdog |-> 0, age |-> 0, soc |-> 1, power |-> 0]

-----------------------------------------------------------------------------
\* SiteSim::write.  The registers whose write is the heartbeat reset `age`.

Written(kind, d, register, v) ==
  CASE register = "W_MAX_LIM_PCT" -> [d EXCEPT !.limit = v, !.age = 0]
    [] register = "RVRT_TMS" -> [d EXCEPT !.revert = v]
    [] register = "W_MAX_LIM_ENA" -> [d EXCEPT !.enabled = v = 1, !.age = 0]
    [] register = "CURRENT_LIMIT" ->
         [d EXCEPT !.limit = AtMost(v, Rated[kind]), !.age = 0]
    [] register = "FAILSAFE_CURRENT" ->
         [d EXCEPT !.failsafe = AtMost(v, Rated[kind])]
    [] register = "FAILSAFE_TIMEOUT" -> [d EXCEPT !.timeout = v]
    [] register = "POWER_LIMIT" -> [d EXCEPT !.limit = AtMost(v, Rated[kind])]
    [] register = "EXT_POWER" -> [d EXCEPT !.ext = v, !.age = 0]
    [] register = "SETPOINT" -> [d EXCEPT !.setpoint = v, !.age = 0]
    [] register = "WATCHDOG_S" -> [d EXCEPT !.watchdog = v]

InFailsafe(c) == c.timeout > 0 /\ c.age > c.timeout
InWatchdog(b) == b.watchdog > 0 /\ b.age > b.watchdog
External(h) == h.ext # None /\ h.age <= ExtTimeout

-----------------------------------------------------------------------------
\* SiteSim::step: what the device may do in the next period.

\* Inverters follow the sun, their limit and a ramp rate.
Ramped(output, to) == output + Within(-RampStep, RampStep, to - output)
InverterStep(d) ==
  LET enabled == d.enabled /\ ~(d.revert > 0 /\ d.age > d.revert)
      cap == IF enabled THEN d.limit ELSE 1000
  IN  {[d EXCEPT !.enabled = enabled, !.output = Ramped(@, AtMost(sun, cap))] :
         sun \in Suns}

\* A car leaves at its departure time, full or not; one arrives at a free
\* charger; the one that is there may have been filled.
Cars(car) ==
  {None, car} \cup
  IF car = None
    THEN [max : {160, Rated["charger"]}, hungry : {TRUE}]
    ELSE {[car EXCEPT !.hungry = FALSE]}

ChargerStep(d) ==
  LET limit == IF InFailsafe(d) THEN d.failsafe ELSE d.limit
  IN  {[d EXCEPT !.car = car,
          !.current = IF car = None THEN 0
                      ELSE IF car.hungry /\ limit >= EvMin
                           THEN AtMost(limit, car.max) ELSE 0] :
         car \in Cars(d.car)}

\* Mutant: the state of charge does not stop the battery.
BatteryStepUnguarded(d) ==
  LET p == IF InWatchdog(d) THEN 0 ELSE d.setpoint
  IN  {[d EXCEPT !.power = p, !.soc = soc] :
         soc \in {d.soc} \cup IF p > 0 THEN {d.soc + 1}
                             ELSE IF p < 0 THEN {d.soc - 1} ELSE {}}

\* Setpoint within power and state of charge (0 empty, 2 full); idle when
\* the controller stops writing.
BatteryStep(d) ==
  LET wanted == IF InWatchdog(d) THEN 0
                ELSE Within(-Rated["battery"], Rated["battery"], d.setpoint)
      p == IF (wanted > 0 /\ d.soc = 2) \/ (wanted < 0 /\ d.soc = 0)
             THEN 0 ELSE wanted
  IN  {[d EXCEPT !.power = p, !.soc = soc] :
         soc \in {d.soc} \cup IF p > 0 THEN {d.soc + 1}
                             ELSE IF p < 0 THEN {d.soc - 1} ELSE {}}

\* `indoor` is where the building is against the thermostat's setpoint: -2
\* below the unit's comfort guard, -1 and 1 outside the hysteresis, 2 above
\* 24 degrees.  What the thermostat asks for depends on the outdoor air too.
Steered(h) == External(h) /\ h.indoor \notin {-2, 2}
Demands(h) == IF Steered(h) THEN {AtMost(h.ext, Rated["heat_pump"])}
              ELSE {0, HeatPumpMin - 10, Rated["heat_pump"]}

\* Below its minimum the unit cycles, or rounds the power it is told.
CycleOn(h, demand) ==
  IF Steered(h) \/ demand >= HeatPumpMin THEN h.cycle_on
  ELSE h.indoor < 0 \/ (h.indoor = 0 /\ h.cycle_on)
Run(h, demand) ==
  IF demand >= HeatPumpMin THEN demand
  ELSE IF IF Steered(h) THEN 2 * demand >= HeatPumpMin ELSE CycleOn(h, demand)
       THEN HeatPumpMin ELSE 0

HeatPumpAt(h, demand, indoor) ==
  [h EXCEPT !.cycle_on = CycleOn(h, demand), !.indoor = indoor,
     !.power = IF h.limit >= HeatPumpMin THEN AtMost(Run(h, demand), h.limit)
               ELSE 0]
HeatPumpStep(h) ==
  {HeatPumpAt(h, demand, indoor) :
     demand \in Demands(h), indoor \in {i \in -2 .. 2 : i - h.indoor \in -1 .. 1}}

Stepped(kind, was) ==
  LET d == [was EXCEPT !.age = AtMost(@ + 1, AgeMax)]
  IN  CASE kind = "inverter" -> InverterStep(d)
        [] kind = "meter" -> {d}
        [] kind = "charger" -> ChargerStep(d)
        [] kind = "heat_pump" -> HeatPumpStep(d)
        [] kind = "battery" -> BatteryStep(d)
=============================================================================
