--------------------------- MODULE FieldBus_proof ---------------------------
(***************************************************************************)
(* A device that a session has armed falls back by itself once the gateway *)
(* or the network is gone, for any ratings, timeouts and setpoints,        *)
(* whatever answers were lost and whatever rebooted before.  The argument  *)
(* is about the age of the last write: out of reach it grows with the time *)
(* out of reach, and each fallback bounds the device once it is old.       *)
(***************************************************************************)
EXTENDS FieldBus, TLAPS

\* What a session can be told to write to a device.
SetpointsOf(k) ==
  CASE k \in {"inverter", "charger"} -> Nat
    [] k = "heat_pump" -> [limit : Nat, ext : Nat \cup {None}]
    [] k \in {"battery", "meter"} -> Int

\* The types the argument needs.
Typed ==
  /\ kind \in Kinds /\ setpoint \in SetpointsOf(kind)
  /\ target \in SetpointsOf(kind) \cup {None}
  /\ net \in BOOLEAN /\ up \in BOOLEAN /\ link \in BOOLEAN
  /\ span \in 0 .. SpanMax /\ told \in {"nothing", "armed", "setpoint"}
  /\ step \in Nat
  /\ FieldType

Failsafe == AtMost(FailsafeA, Rated["charger"])

\* What the arming leaves behind in the device, and stays until it reboots.
ArmedDevice ==
  CASE kind = "inverter" -> dev.revert = 0
    [] kind = "charger" -> dev.failsafe = Failsafe /\ dev.timeout = FailsafeTimeout
    [] kind = "battery" -> dev.watchdog = WatchdogS
    [] OTHER -> TRUE

\* The arming: a charger's first register is written when the second is next,
\* and has not rebooted since, because its connection would be gone.
ArmingInv ==
  /\ told # "nothing" => ArmedDevice
  /\ kind = "charger" /\ pc = "arm" /\ step = 2 /\ link =>
       dev.failsafe = Failsafe

\* The write a device's watchdog watches is as old as the device is out of
\* reach; when it is too old, the device is in its fallback.
FallbackInv ==
  told = "setpoint" =>
    /\ kind # "meter" /\ ~InReach => dev.age >= AtMost(span, AgeMax)
    /\ kind = "inverter" =>
         /\ dev.enabled = TRUE
         /\ ~InReach => \/ dev.output <= dev.limit
                        \/ dev.output <= 1000 - RampStep * span
    /\ kind = "charger" /\ dev.age > FailsafeTimeout => dev.current <= FailsafeA
    /\ kind = "battery" /\ dev.age > WatchdogS => dev.power = 0

FInv == Typed /\ ArmingInv /\ FallbackInv

\* The periods after which the last watchdog has run out and an inverter has
\* come down its ramp.
LongEnough ==
  /\ FallBack > FailsafeTimeout /\ FallBack > ExtTimeout /\ FallBack > WatchdogS
  /\ RampStep * FallBack >= 1000
  /\ AgeMax > FailsafeTimeout /\ AgeMax > ExtTimeout /\ AgeMax > WatchdogS
-----------------------------------------------------------------------------
\* What is written, by kind of device.

LEMMA RoundType ==
  ASSUME NEW x \in Int
  PROVE  RoundTenths(x) \in Int /\ (x >= 0 => RoundTenths(x) \in Nat)
BY DEF RoundTenths

LEMMA KindsAre ==
  ASSUME kind \in Kinds
  PROVE  \/ kind = "inverter" \/ kind = "meter" \/ kind = "charger"
         \/ kind = "heat_pump" \/ kind = "battery"
BY DEF Kinds

\* Devices, one kind at a time.
LEMMA DevicesAre ==
  /\ Devices("inverter") = InverterSims /\ Devices("charger") = ChargerSims
  /\ Devices("heat_pump") = HeatPumpSims /\ Devices("battery") = BatterySims
  /\ Devices("meter") = [age : Ages]
BY DEF Devices

LEMMA RatedType == \A k \in Kinds : Rated[k] \in Nat
BY DeviceAssumption

LEMMA ArmingIs ==
  /\ kind = "inverter" => Arming = <<<<"RVRT_TMS", 0>>>>
  /\ kind = "charger" => Arming = <<<<"FAILSAFE_CURRENT", FailsafeA>>,
                                    <<"FAILSAFE_TIMEOUT", FailsafeTimeout>>>>
  /\ kind = "battery" => Arming = <<<<"WATCHDOG_S", WatchdogS>>>>
  /\ kind \in {"meter", "heat_pump"} => Arming = <<>>
BY DEF Arming

LEMMA WritesAre ==
  ASSUME NEW sp
  PROVE  /\ kind = "inverter" =>
              Writes(sp) = <<<<"W_MAX_LIM_PCT", RoundTenths(sp)>>,
                             <<"W_MAX_LIM_ENA", 1>>>>
         /\ kind = "charger" =>
              Writes(sp) = <<<<"CURRENT_LIMIT", RoundTenths(sp)>>>>
         /\ kind = "heat_pump" =>
              Writes(sp) =
                <<<<"POWER_LIMIT", sp.limit \div 10>>,
                  <<"EXT_POWER", IF sp.ext = None THEN None
                                 ELSE RoundTenths(sp.ext)>>>>
         /\ kind = "battery" => Writes(sp) = <<<<"SETPOINT", RoundTenths(sp)>>>>
         /\ kind = "meter" => Writes(sp) = <<>>
BY DEF Writes

\* SiteSim::write, one register at a time.
LEMMA InverterRevertWrite ==
  ASSUME NEW d \in InverterSims, NEW v \in Nat
  PROVE  /\ Written("inverter", d, "RVRT_TMS", v)
              = [d EXCEPT !.revert = v]
         /\ Written("inverter", d, "RVRT_TMS", v) \in InverterSims
<1>2. Written("inverter", d, "RVRT_TMS", v)
        = [d EXCEPT !.revert = v]
  BY DEF Written
<1> QED
  BY <1>2 DEF InverterSims

LEMMA InverterLimitWrite ==
  ASSUME NEW d \in InverterSims, NEW v \in Nat
  PROVE  /\ Written("inverter", d, "W_MAX_LIM_PCT", v)
              = [d EXCEPT !.limit = v, !.age = 0]
         /\ Written("inverter", d, "W_MAX_LIM_PCT", v) \in InverterSims
<1>1. 0 \in Ages
  BY DeviceAssumption DEF Ages
<1>2. Written("inverter", d, "W_MAX_LIM_PCT", v)
        = [d EXCEPT !.limit = v, !.age = 0]
  BY DEF Written
<1>3. [d EXCEPT !.limit = v, !.age = 0] \in InverterSims
  BY <1>1 DEF InverterSims
<1> QED
  BY <1>2, <1>3

LEMMA InverterEnableWrite ==
  ASSUME NEW d \in InverterSims, NEW v \in Nat
  PROVE  /\ Written("inverter", d, "W_MAX_LIM_ENA", v)
              = [d EXCEPT !.enabled = (v = 1), !.age = 0]
         /\ Written("inverter", d, "W_MAX_LIM_ENA", v) \in InverterSims
<1>1. 0 \in Ages
  BY DeviceAssumption DEF Ages
<1>2. Written("inverter", d, "W_MAX_LIM_ENA", v)
        = [d EXCEPT !.enabled = (v = 1), !.age = 0]
  BY DEF Written
<1>3. \A b \in BOOLEAN : [d EXCEPT !.enabled = b, !.age = 0] \in InverterSims
  BY <1>1 DEF InverterSims
<1>4. [d EXCEPT !.enabled = (v = 1), !.age = 0] \in InverterSims
  BY <1>3
<1> QED
  BY <1>2, <1>4

LEMMA AtMostType ==
  ASSUME NEW v \in Nat, NEW r \in Nat
  PROVE  AtMost(v, r) \in 0 .. r /\ AtMost(v, r) <= v
BY DEF AtMost

LEMMA ChargerFailsafeWrite ==
  ASSUME NEW d \in ChargerSims, NEW v \in Nat
  PROVE  /\ Written("charger", d, "FAILSAFE_CURRENT", v)
              = [d EXCEPT !.failsafe = AtMost(v, Rated["charger"])]
         /\ Written("charger", d, "FAILSAFE_CURRENT", v) \in ChargerSims
<1>2. Written("charger", d, "FAILSAFE_CURRENT", v)
        = [d EXCEPT !.failsafe = AtMost(v, Rated["charger"])]
  BY DEF Written
<1>3. AtMost(v, Rated["charger"]) \in 0 .. Rated["charger"]
  BY RatedType, AtMostType DEF Kinds
<1> QED
  BY <1>2, <1>3 DEF ChargerSims

LEMMA ChargerTimeoutWrite ==
  ASSUME NEW d \in ChargerSims, NEW v \in Nat
  PROVE  /\ Written("charger", d, "FAILSAFE_TIMEOUT", v)
              = [d EXCEPT !.timeout = v]
         /\ Written("charger", d, "FAILSAFE_TIMEOUT", v) \in ChargerSims
<1>2. Written("charger", d, "FAILSAFE_TIMEOUT", v)
        = [d EXCEPT !.timeout = v]
  BY DEF Written
<1> QED
  BY <1>2 DEF ChargerSims

LEMMA ChargerLimitWrite ==
  ASSUME NEW d \in ChargerSims, NEW v \in Nat
  PROVE  /\ Written("charger", d, "CURRENT_LIMIT", v)
              = [d EXCEPT !.limit = AtMost(v, Rated["charger"]), !.age = 0]
         /\ Written("charger", d, "CURRENT_LIMIT", v) \in ChargerSims
<1>1. 0 \in Ages
  BY DeviceAssumption DEF Ages
<1>2. Written("charger", d, "CURRENT_LIMIT", v)
        = [d EXCEPT !.limit = AtMost(v, Rated["charger"]), !.age = 0]
  BY DEF Written
<1>3. AtMost(v, Rated["charger"]) \in 0 .. Rated["charger"]
  BY RatedType, AtMostType DEF Kinds
<1> QED
  BY <1>1, <1>2, <1>3 DEF ChargerSims

LEMMA HeatPumpLimitWrite ==
  ASSUME NEW d \in HeatPumpSims, NEW v \in Nat
  PROVE  /\ Written("heat_pump", d, "POWER_LIMIT", v)
              = [d EXCEPT !.limit = AtMost(v, Rated["heat_pump"])]
         /\ Written("heat_pump", d, "POWER_LIMIT", v) \in HeatPumpSims
<1>1. AtMost(v, Rated["heat_pump"]) \in 0 .. Rated["heat_pump"]
  BY RatedType, AtMostType DEF Kinds
<1>2. Written("heat_pump", d, "POWER_LIMIT", v)
        = [d EXCEPT !.limit = AtMost(v, Rated["heat_pump"])]
  BY DEF Written
<1> QED
  BY <1>1, <1>2 DEF HeatPumpSims

LEMMA HeatPumpPowerWrite ==
  ASSUME NEW d \in HeatPumpSims, NEW x \in Nat \cup {None}
  PROVE  /\ Written("heat_pump", d, "EXT_POWER", x) = [d EXCEPT !.ext = x, !.age = 0]
         /\ Written("heat_pump", d, "EXT_POWER", x) \in HeatPumpSims
<1>1. 0 \in Ages
  BY DeviceAssumption DEF Ages
<1>2. Written("heat_pump", d, "EXT_POWER", x) = [d EXCEPT !.ext = x, !.age = 0]
  BY DEF Written
<1> QED
  BY <1>1, <1>2 DEF HeatPumpSims

LEMMA BatteryWatchdogWrite ==
  ASSUME NEW d \in BatterySims, NEW v \in Nat
  PROVE  /\ Written("battery", d, "WATCHDOG_S", v) = [d EXCEPT !.watchdog = v]
         /\ Written("battery", d, "WATCHDOG_S", v) \in BatterySims
<1>1. Written("battery", d, "WATCHDOG_S", v) = [d EXCEPT !.watchdog = v]
  BY DEF Written
<1> QED
  BY <1>1 DEF BatterySims

LEMMA BatterySetpointWrite ==
  ASSUME NEW d \in BatterySims, NEW x \in Int
  PROVE  /\ Written("battery", d, "SETPOINT", x)
              = [d EXCEPT !.setpoint = x, !.age = 0]
         /\ Written("battery", d, "SETPOINT", x) \in BatterySims
<1>1. 0 \in Ages
  BY DeviceAssumption DEF Ages
<1>2. Written("battery", d, "SETPOINT", x) = [d EXCEPT !.setpoint = x, !.age = 0]
  BY DEF Written
<1> QED
  BY <1>1, <1>2 DEF BatterySims

-----------------------------------------------------------------------------
\* What a write of a session leaves in the device.

\* The i-th register of the arming turns d into e.
ArmedTo(d, e, i) ==
  /\ e \in Devices(kind) /\ e.age = d.age
  /\ kind = "inverter" =>
       /\ e.revert = 0 /\ e.enabled = d.enabled
       /\ e.limit = d.limit /\ e.output = d.output
  /\ kind = "charger" =>
       /\ i = 1 \/ i = 2
       /\ e.current = d.current
       /\ i = 1 => e.failsafe = Failsafe /\ e.timeout = d.timeout
       /\ i = 2 => e.failsafe = d.failsafe /\ e.timeout = FailsafeTimeout
  /\ kind = "battery" => e.watchdog = WatchdogS /\ e.power = d.power

LEMMA ArmWrites ==
  ASSUME kind \in Kinds, NEW d \in Devices(kind), NEW i \in 1 .. Len(Arming),
         NEW e, e = Written(kind, d, Arming[i][1], Arming[i][2])
  PROVE  ArmedTo(d, e, i)
<1>1. CASE kind = "inverter"
  <2>1. i = 1 /\ Arming[i][1] = "RVRT_TMS" /\ Arming[i][2] = 0
    BY <1>1, ArmingIs
  <2>2. d \in InverterSims /\ Devices(kind) = InverterSims
    BY <1>1, DevicesAre
  <2>3. e = [d EXCEPT !.revert = 0] /\ e \in InverterSims
    <3>1. e = Written("inverter", d, "RVRT_TMS", 0)
      BY <1>1, <2>1
    <3> QED
      BY <2>2, <3>1, InverterRevertWrite
  <2>4. e.revert = 0 /\ e.enabled = d.enabled /\ e.limit = d.limit
        /\ e.output = d.output /\ e.age = d.age
    BY <2>2, <2>3 DEF InverterSims
  <2> QED
    BY <1>1, <2>2, <2>3, <2>4 DEF ArmedTo
<1>2. CASE kind = "charger"
  <2>1. \/ i = 1 /\ Arming[i][1] = "FAILSAFE_CURRENT" /\ Arming[i][2] = FailsafeA
        \/ i = 2 /\ Arming[i][1] = "FAILSAFE_TIMEOUT"
           /\ Arming[i][2] = FailsafeTimeout
    <3>1. Arming = <<<<"FAILSAFE_CURRENT", FailsafeA>>,
                     <<"FAILSAFE_TIMEOUT", FailsafeTimeout>>>>
      BY <1>2, ArmingIs
    <3>2. i = 1 \/ i = 2
      BY <3>1
    <3> QED
      BY <3>1, <3>2
  <2>2. d \in ChargerSims /\ Devices(kind) = ChargerSims
    BY <1>2, DevicesAre
  <2>3. FailsafeA \in Nat /\ FailsafeTimeout \in Nat
    BY FieldBusAssumption
  <2>4. CASE i = 1
    <3>1. e = [d EXCEPT !.failsafe = Failsafe] /\ e \in ChargerSims
      <4>1. e = Written("charger", d, "FAILSAFE_CURRENT", FailsafeA)
        BY <1>2, <2>1, <2>4
      <4> QED
        BY <2>2, <2>3, <4>1, ChargerFailsafeWrite DEF Failsafe
    <3>2. e.failsafe = Failsafe /\ e.timeout = d.timeout
          /\ e.current = d.current /\ e.age = d.age
      BY <2>2, <3>1 DEF ChargerSims
    <3> QED
      BY <1>2, <2>2, <2>4, <3>1, <3>2 DEF ArmedTo
  <2>5. CASE i = 2
    <3>1. e = [d EXCEPT !.timeout = FailsafeTimeout] /\ e \in ChargerSims
      <4>1. e = Written("charger", d, "FAILSAFE_TIMEOUT", FailsafeTimeout)
        BY <1>2, <2>1, <2>5
      <4> QED
        BY <2>2, <2>3, <4>1, ChargerTimeoutWrite
    <3>2. e.timeout = FailsafeTimeout /\ e.failsafe = d.failsafe
          /\ e.current = d.current /\ e.age = d.age
      BY <2>2, <3>1 DEF ChargerSims
    <3> QED
      BY <1>2, <2>2, <2>5, <3>1, <3>2 DEF ArmedTo
  <2> QED
    BY <2>1, <2>4, <2>5
<1>3. CASE kind = "battery"
  <2>1. Arming[i][1] = "WATCHDOG_S" /\ Arming[i][2] = WatchdogS
    BY <1>3, ArmingIs
  <2>2. d \in BatterySims /\ Devices(kind) = BatterySims
    BY <1>3, DevicesAre
  <2>3. e = [d EXCEPT !.watchdog = WatchdogS] /\ e \in BatterySims
    <3>1. e = Written("battery", d, "WATCHDOG_S", WatchdogS)
      BY <1>3, <2>1
    <3> QED
      BY <2>2, FieldBusAssumption, <3>1, BatteryWatchdogWrite
  <2>4. e.watchdog = WatchdogS /\ e.power = d.power /\ e.age = d.age
    BY <2>2, <2>3 DEF BatterySims
  <2> QED
    BY <1>3, <2>2, <2>3, <2>4 DEF ArmedTo
<1>4. CASE kind \in {"meter", "heat_pump"}
  BY <1>4, ArmingIs
<1> QED
  BY <1>1, <1>2, <1>3, <1>4, KindsAre

\* The power a heat pump is told to draw.
Steering(sp) == IF sp.ext = None THEN None ELSE RoundTenths(sp.ext)

\* The i-th register of the setpoint sp turns d into e.
SetTo(sp, d, e, i) ==
  /\ e \in Devices(kind) /\ e.age \in Nat
  /\ kind = "inverter" =>
       /\ e.revert = d.revert /\ e.output = d.output /\ e.age = 0
       /\ e.enabled = d.enabled \/ e.enabled = TRUE
       /\ i = 1 => e.limit = RoundTenths(sp)
       /\ i = 2 => e.enabled = TRUE /\ e.limit = d.limit
  /\ kind = "charger" =>
       /\ e.failsafe = d.failsafe /\ e.timeout = d.timeout
       /\ e.current = d.current /\ e.age = 0
       /\ e.limit = AtMost(RoundTenths(sp), Rated[kind])
  /\ kind = "heat_pump" =>
       /\ i = 1 => /\ e.limit = AtMost(sp.limit \div 10, Rated[kind])
                    /\ e.ext = d.ext /\ e.age = d.age
       /\ i = 2 => e.limit = d.limit /\ e.ext = Steering(sp) /\ e.age = 0
  /\ kind = "battery" =>
       /\ e.watchdog = d.watchdog /\ e.power = d.power /\ e.age = 0
       /\ e.setpoint = RoundTenths(sp)

LEMMA SetWrites ==
  ASSUME kind \in Kinds, NEW d \in Devices(kind), NEW sp \in SetpointsOf(kind),
         NEW i \in 1 .. Len(Writes(sp)),
         NEW e, e = Written(kind, d, Writes(sp)[i][1], Writes(sp)[i][2])
  PROVE  SetTo(sp, d, e, i)
<1>1. CASE kind = "inverter"
  <2>1. \/ /\ i = 1 /\ Writes(sp)[i][1] = "W_MAX_LIM_PCT"
           /\ Writes(sp)[i][2] = RoundTenths(sp)
        \/ i = 2 /\ Writes(sp)[i][1] = "W_MAX_LIM_ENA" /\ Writes(sp)[i][2] = 1
    BY <1>1, WritesAre
  <2>2. d \in InverterSims /\ Devices(kind) = InverterSims
    BY <1>1, DevicesAre
  <2>3. sp \in Nat /\ RoundTenths(sp) \in Nat
    <3>1. sp \in Nat
      BY <1>1 DEF SetpointsOf
    <3> QED
      BY <3>1, RoundType
  <2>4. CASE i = 1
    <3>1. e = [d EXCEPT !.limit = RoundTenths(sp), !.age = 0] /\ e \in InverterSims
      <4>1. e = Written("inverter", d, "W_MAX_LIM_PCT", RoundTenths(sp))
        BY <1>1, <2>1, <2>4
      <4> QED
        BY <2>2, <2>3, <4>1, InverterLimitWrite
    <3>2. e.revert = d.revert /\ e.output = d.output /\ e.age = 0
          /\ e.enabled = d.enabled /\ e.limit = RoundTenths(sp)
      BY <2>2, <3>1 DEF InverterSims
    <3> QED
      BY <1>1, <2>2, <2>4, <3>1, <3>2 DEF SetTo
  <2>5. CASE i = 2
    <3>1. e = [d EXCEPT !.enabled = (1 = 1), !.age = 0] /\ e \in InverterSims
      <4>1. e = Written("inverter", d, "W_MAX_LIM_ENA", 1)
        BY <1>1, <2>1, <2>5
      <4> QED
        BY <2>2, <4>1, InverterEnableWrite
    <3>2. e.revert = d.revert /\ e.output = d.output /\ e.age = 0
          /\ e.limit = d.limit
      BY <2>2, <3>1 DEF InverterSims
    <3>3. e.enabled = TRUE
      <4>1. e.enabled = (1 = 1)
        BY <2>2, <3>1 DEF InverterSims
      <4> QED
        BY <4>1
    <3> QED
      BY <1>1, <2>2, <2>5, <3>1, <3>2, <3>3 DEF SetTo
  <2> QED
    BY <2>1, <2>4, <2>5
<1>2. CASE kind = "charger"
  <2>1. i = 1 /\ Writes(sp)[i][1] = "CURRENT_LIMIT"
        /\ Writes(sp)[i][2] = RoundTenths(sp)
    BY <1>2, WritesAre
  <2>2. d \in ChargerSims /\ Devices(kind) = ChargerSims
    BY <1>2, DevicesAre
  <2>3. RoundTenths(sp) \in Nat
    <3>1. sp \in Nat
      BY <1>2 DEF SetpointsOf
    <3> QED
      BY <3>1, RoundType
  <2>4. e = [d EXCEPT !.limit = AtMost(RoundTenths(sp), Rated["charger"]), !.age = 0]
        /\ e \in ChargerSims
    <3>1. e = Written("charger", d, "CURRENT_LIMIT", RoundTenths(sp))
      BY <1>2, <2>1
    <3> QED
      BY <2>2, <2>3, <3>1, ChargerLimitWrite
  <2>5. e.failsafe = d.failsafe /\ e.timeout = d.timeout
        /\ e.current = d.current /\ e.age = 0
        /\ e.limit = AtMost(RoundTenths(sp), Rated["charger"])
    BY <2>2, <2>4 DEF ChargerSims
  <2> QED
    BY <1>2, <2>2, <2>4, <2>5 DEF SetTo
<1>3. CASE kind = "heat_pump"
  <2>1. \/ i = 1 /\ Writes(sp)[i][1] = "POWER_LIMIT"
           /\ Writes(sp)[i][2] = sp.limit \div 10
        \/ i = 2 /\ Writes(sp)[i][1] = "EXT_POWER"
           /\ Writes(sp)[i][2] = Steering(sp)
    <3>1. Writes(sp) = <<<<"POWER_LIMIT", sp.limit \div 10>>,
                         <<"EXT_POWER", IF sp.ext = None THEN None
                                        ELSE RoundTenths(sp.ext)>>>>
      BY <1>3, WritesAre
    <3>2. i = 1 \/ i = 2
      BY <3>1
    <3> QED
      BY <3>1, <3>2 DEF Steering
  <2>2. d \in HeatPumpSims /\ Devices(kind) = HeatPumpSims
    BY <1>3, DevicesAre
  <2>3. sp.limit \in Nat /\ sp.ext \in Nat \cup {None}
    BY <1>3 DEF SetpointsOf
  <2>4. sp.limit \div 10 \in Nat
    BY <2>3
  <2>5. d.age \in Nat
    BY <2>2, DeviceAssumption DEF HeatPumpSims, Ages
  <2>6. CASE i = 1
    <3>1. e = Written("heat_pump", d, "POWER_LIMIT", sp.limit \div 10)
      BY <1>3, <2>1, <2>6
    <3>2. /\ e = [d EXCEPT !.limit = AtMost(sp.limit \div 10, Rated["heat_pump"])]
          /\ e \in HeatPumpSims
      BY <2>2, <2>4, <3>1, HeatPumpLimitWrite
    <3>3. /\ e.age = d.age /\ e.ext = d.ext
          /\ e.limit = AtMost(sp.limit \div 10, Rated["heat_pump"])
      BY <2>2, <3>2 DEF HeatPumpSims
    <3> QED
      BY <1>3, <2>2, <2>5, <2>6, <3>2, <3>3 DEF SetTo
  <2>7. CASE i = 2
    <3>1. e = Written("heat_pump", d, "EXT_POWER", Steering(sp))
      BY <1>3, <2>1, <2>7
    <3>2. Steering(sp) \in Nat \cup {None}
      <4>1. CASE sp.ext = None
        BY <4>1 DEF Steering
      <4>2. CASE sp.ext # None
        <5>1. sp.ext \in Nat
          BY <2>3, <4>2
        <5>2. RoundTenths(sp.ext) \in Nat
          <6>1. PICK n \in Nat : n = sp.ext
            BY <5>1
          <6>2. RoundTenths(n) \in Nat
            BY DEF RoundTenths
          <6> QED
            BY <6>1, <6>2
        <5> QED
          BY <4>2, <5>2 DEF Steering
      <4> QED
        BY <4>1, <4>2
    <3>3. e = [d EXCEPT !.ext = Steering(sp), !.age = 0] /\ e \in HeatPumpSims
      BY <2>2, <3>1, <3>2, HeatPumpPowerWrite
    <3>4. e.age = 0 /\ e.limit = d.limit /\ e.ext = Steering(sp)
      BY <2>2, <3>3 DEF HeatPumpSims
    <3> QED
      BY <1>3, <2>2, <2>7, <3>3, <3>4 DEF SetTo
  <2> QED
    BY <2>1, <2>6, <2>7
<1>4. CASE kind = "battery"
  <2>1. Writes(sp)[i][1] = "SETPOINT" /\ Writes(sp)[i][2] = RoundTenths(sp)
    BY <1>4, WritesAre
  <2>2. d \in BatterySims /\ Devices(kind) = BatterySims
    BY <1>4, DevicesAre
  <2>3. RoundTenths(sp) \in Int
    <3>1. sp \in Int
      BY <1>4 DEF SetpointsOf
    <3> QED
      BY <3>1, RoundType
  <2>4. e = [d EXCEPT !.setpoint = RoundTenths(sp), !.age = 0] /\ e \in BatterySims
    <3>1. e = Written("battery", d, "SETPOINT", RoundTenths(sp))
      BY <1>4, <2>1
    <3> QED
      BY <2>2, <2>3, <3>1, BatterySetpointWrite
  <2>5. e.watchdog = d.watchdog /\ e.power = d.power /\ e.age = 0
        /\ e.setpoint = RoundTenths(sp)
    BY <2>2, <2>4 DEF BatterySims
  <2> QED
    BY <1>4, <2>2, <2>4, <2>5 DEF SetTo
<1>5. CASE kind = "meter"
  BY <1>5, WritesAre
<1> QED
  BY <1>1, <1>2, <1>3, <1>4, <1>5, KindsAre
-----------------------------------------------------------------------------
\* A period of each device (SiteSim::step).

LEMMA AgesUp ==
  ASSUME NEW a \in Ages
  PROVE  /\ AtMost(a + 1, AgeMax) \in Ages /\ a \in Nat
         /\ AtMost(a + 1, AgeMax) \in Nat
BY DeviceAssumption DEF Ages, AtMost

\* An output follows its target by at most the ramp.
LEMMA RampTo ==
  \A o \in Fractions, to \in Fractions :
    /\ Ramped(o, to) \in Fractions
    /\ Ramped(o, to) <= to \/ Ramped(o, to) = o - RampStep
BY DeviceAssumption DEF Within, Ramped, Fractions

LEMMA InverterFields ==
  \A d \in InverterSims, b \in BOOLEAN, x \in Fractions :
    [d EXCEPT !.enabled = b, !.output = x] \in InverterSims
<1> SUFFICES ASSUME NEW d \in InverterSims, NEW b \in BOOLEAN, NEW x \in Fractions
             PROVE  [d EXCEPT !.enabled = b, !.output = x] \in InverterSims
  OBVIOUS
<1> DEFINE e == [d EXCEPT !.enabled = b, !.output = x]
<1>1. /\ e = [f \in {"enabled", "limit", "revert", "age", "output"} |-> e[f]]
  BY DEF InverterSims
<1>2. e.enabled = b /\ e.output = x /\ e.limit = d.limit /\ e.revert = d.revert
      /\ e.age = d.age
  BY DEF InverterSims
<1>3. d.limit \in Nat /\ d.revert \in Nat /\ d.age \in Ages
  BY DEF InverterSims
<1> HIDE DEF e
<1>4. e.enabled \in BOOLEAN /\ e.output \in Fractions
      /\ e.limit \in Nat /\ e.revert \in Nat /\ e.age \in Ages
  BY <1>2, <1>3
<1>5. e \in InverterSims
  BY <1>1, <1>4 DEF InverterSims
<1> QED
  BY <1>5 DEF e

LEMMA InverterSteps ==
  ASSUME NEW was \in InverterSims, NEW e \in Stepped("inverter", was)
  PROVE  /\ e \in InverterSims
         /\ e.age = AtMost(was.age + 1, AgeMax)
         /\ e.limit = was.limit /\ e.revert = was.revert
         /\ was.revert = 0 /\ was.enabled = TRUE =>
              /\ e.enabled = TRUE
              /\ e.output <= e.limit \/ e.output = was.output - RampStep
<1> DEFINE a == AtMost(was.age + 1, AgeMax)
           d == [was EXCEPT !.age = a]
<1>1. a \in Ages
  <2>1. was.age \in Ages
    BY DEF InverterSims
  <2> QED
    BY <2>1, AgesUp
<1>2. /\ was.enabled \in BOOLEAN /\ was.limit \in Nat /\ was.revert \in Nat
      /\ was.output \in Fractions
  BY DEF InverterSims
<1>3. e \in InverterStep(d)
  BY DEF Stepped
<1> HIDE DEF a
<1>4. /\ d \in InverterSims /\ d.age = a /\ d.enabled = was.enabled
      /\ d.limit = was.limit /\ d.revert = was.revert /\ d.output = was.output
  BY <1>1 DEF InverterSims
<1> HIDE DEF d
<1> DEFINE on == d.enabled /\ ~(d.revert > 0 /\ d.age > d.revert)
           cap == IF on THEN d.limit ELSE 1000
<1>5. PICK sun \in Suns :
        e = [d EXCEPT !.enabled = on, !.output = Ramped(@, AtMost(sun, cap))]
  BY <1>3 DEF InverterStep
<1>6. on \in BOOLEAN
  BY <1>2, <1>4
<1>7. cap \in Nat
  BY <1>2, <1>4
<1>8. was.revert = 0 /\ was.enabled = TRUE => on = TRUE /\ cap = was.limit
  BY <1>4
<1> HIDE DEF on, cap
<1> DEFINE t == AtMost(sun, cap)
           o == d.output
           out == Ramped(o, t)
<1>9. t \in Fractions /\ t <= cap
  BY <1>7, DeviceAssumption DEF AtMost, Fractions
<1>10. e = [d EXCEPT !.enabled = on, !.output = out]
  BY <1>4, <1>5 DEF InverterSims
<1> HIDE DEF t
<1>11. out = Ramped(o, t) /\ o = d.output
  OBVIOUS
<1> HIDE DEF out, o
<1>12. out \in Fractions /\ (out <= t \/ out = d.output - RampStep)
  <2>1. o \in Fractions /\ t \in Fractions
    BY <1>2, <1>4, <1>9, <1>11
  <2>2. Ramped(o, t) \in Fractions
        /\ (Ramped(o, t) <= t \/ Ramped(o, t) = o - RampStep)
    BY <2>1, RampTo, Zenon
  <2> QED
    BY <1>11, <2>2
<1>13. e \in InverterSims
  <2>1. d \in InverterSims
    BY <1>4
  <2>2. \A b \in BOOLEAN, x \in Fractions :
          [d EXCEPT !.enabled = b, !.output = x] \in InverterSims
    BY <2>1, InverterFields, Zenon
  <2>3. [d EXCEPT !.enabled = on, !.output = out] \in InverterSims
    BY <1>6, <1>12, <2>2, Zenon
  <2> QED
    BY <1>10, <2>3
<1>14. /\ e.age = d.age /\ e.limit = d.limit /\ e.revert = d.revert
       /\ e.enabled = on /\ e.output = out
  BY <1>4, <1>10 DEF InverterSims
<1>15. cap = was.limit => out <= was.limit \/ out = was.output - RampStep
  <2>1. t <= cap /\ t \in Nat /\ cap \in Nat /\ out \in Nat
    BY <1>7, <1>9, <1>12 DEF Fractions
  <2>2. out <= t => out <= cap
    BY <2>1
  <2> QED
    BY <1>4, <1>12, <2>2
<1> QED
  BY <1>4, <1>8, <1>13, <1>14, <1>15 DEF a

LEMMA CarsAre ==
  ASSUME NEW car \in CarsHere \cup {None}, NEW next \in Cars(car)
  PROVE  next \in CarsHere \cup {None}
<1>1. CASE next \in {None, car}
  BY <1>1
<1>2. CASE car = None /\ next \in [max : {160, Rated["charger"]}, hungry : {TRUE}]
  BY <1>2 DEF CarsHere
<1>3. CASE car # None /\ next = [car EXCEPT !.hungry = FALSE]
  BY <1>3 DEF CarsHere
<1> QED
  BY <1>1, <1>2, <1>3 DEF Cars

LEMMA ChargerSteps ==
  ASSUME NEW was \in ChargerSims, NEW e \in Stepped("charger", was)
  PROVE  /\ e \in ChargerSims
         /\ e.age = AtMost(was.age + 1, AgeMax)
         /\ e.failsafe = was.failsafe /\ e.timeout = was.timeout
         /\ e.limit = was.limit
         /\ e.timeout > 0 /\ e.age > e.timeout => e.current <= e.failsafe
<1> DEFINE a == AtMost(was.age + 1, AgeMax)
           d == [was EXCEPT !.age = a]
<1>1. a \in Ages
  <2>1. was.age \in Ages
    BY DEF ChargerSims
  <2> QED
    BY <2>1, AgesUp
<1>2. e \in ChargerStep(d)
  BY DEF Stepped
<1> HIDE DEF a
<1>3. /\ d \in ChargerSims /\ d.age = a
      /\ d.failsafe = was.failsafe /\ d.timeout = was.timeout
      /\ d.limit = was.limit
  BY <1>1 DEF ChargerSims
<1> HIDE DEF d
<1>4. /\ d.limit \in 0 .. Rated["charger"] /\ d.failsafe \in 0 .. Rated["charger"]
      /\ d.car \in CarsHere \cup {None} /\ Rated["charger"] \in Nat
  BY <1>3, RatedType DEF ChargerSims, Kinds
<1> DEFINE limit == IF InFailsafe(d) THEN d.failsafe ELSE d.limit
<1>5. PICK car \in Cars(d.car) :
        e = [d EXCEPT !.car = car,
               !.current = IF car = None THEN 0
                           ELSE IF car.hungry /\ limit >= EvMin
                                THEN AtMost(limit, car.max) ELSE 0]
  BY <1>2 DEF ChargerStep
<1>6. limit \in 0 .. Rated["charger"]
  BY <1>4
<1>7. InFailsafe(d) => limit = d.failsafe
  OBVIOUS
<1> HIDE DEF limit
<1> DEFINE drawn == IF car = None THEN 0
                    ELSE IF car.hungry /\ limit >= EvMin
                         THEN AtMost(limit, car.max) ELSE 0
<1>8. car \in CarsHere \cup {None}
  BY <1>4, CarsAre
<1>9. drawn \in 0 .. Rated["charger"] /\ drawn <= limit
  <2>1. CASE car = None
    BY <1>4, <1>6, <2>1
  <2>2. CASE car # None
    <3>1. car.max \in Nat
      BY <1>4, <1>8, <2>2 DEF CarsHere
    <3>2. AtMost(limit, car.max) \in 0 .. Rated["charger"]
          /\ AtMost(limit, car.max) <= limit
      BY <1>4, <1>6, <3>1 DEF AtMost
    <3> QED
      BY <1>4, <1>6, <2>2, <3>2
  <2> QED
    BY <2>1, <2>2
<1>10. e = [d EXCEPT !.car = car, !.current = drawn]
  BY <1>5
<1> HIDE DEF drawn
<1>11. e \in ChargerSims
  BY <1>3, <1>8, <1>9, <1>10 DEF ChargerSims
<1>12. /\ e.age = d.age /\ e.failsafe = d.failsafe /\ e.timeout = d.timeout
       /\ e.current = drawn /\ e.limit = d.limit
  BY <1>3, <1>10 DEF ChargerSims
<1>13. d.timeout > 0 /\ d.age > d.timeout => InFailsafe(d)
  BY DEF InFailsafe
<1> QED
  BY <1>3, <1>7, <1>9, <1>11, <1>12, <1>13 DEF a

LEMMA BatterySteps ==
  ASSUME NEW was \in BatterySims, NEW e \in Stepped("battery", was)
  PROVE  /\ e \in BatterySims
         /\ e.age = AtMost(was.age + 1, AgeMax)
         /\ e.watchdog = was.watchdog /\ e.setpoint = was.setpoint
         /\ e.watchdog > 0 /\ e.age > e.watchdog => e.power = 0
<1> DEFINE a == AtMost(was.age + 1, AgeMax)
           d == [was EXCEPT !.age = a]
           R == Rated["battery"]
<1>1. a \in Ages
  <2>1. was.age \in Ages
    BY DEF BatterySims
  <2> QED
    BY <2>1, AgesUp
<1>2. e \in BatteryStep(d)
  BY DEF Stepped
<1> HIDE DEF a
<1>3. d \in BatterySims /\ d.age = a /\ d.watchdog = was.watchdog
      /\ d.setpoint = was.setpoint
  BY <1>1 DEF BatterySims
<1> HIDE DEF d
<1>4. d.setpoint \in Int /\ d.soc \in 0 .. 2 /\ R \in Nat
  BY <1>3, RatedType DEF BatterySims, Kinds
<1> DEFINE wanted == IF InWatchdog(d) THEN 0 ELSE Within(-R, R, d.setpoint)
           p == IF (wanted > 0 /\ d.soc = 2) \/ (wanted < 0 /\ d.soc = 0)
                THEN 0 ELSE wanted
<1>5. PICK soc \in {d.soc} \cup IF p > 0 THEN {d.soc + 1}
                               ELSE IF p < 0 THEN {d.soc - 1} ELSE {} :
        e = [d EXCEPT !.power = p, !.soc = soc]
  BY <1>2 DEF BatteryStep
<1>6. wanted \in -R .. R /\ (InWatchdog(d) => wanted = 0)
  BY <1>4 DEF Within
<1> HIDE DEF wanted
<1>7. /\ p \in -R .. R /\ (wanted = 0 => p = 0)
      /\ p > 0 => d.soc # 2
      /\ p < 0 => d.soc # 0
  BY <1>4, <1>6
<1> HIDE DEF p
<1>8. soc \in 0 .. 2
  BY <1>4, <1>5, <1>7
<1>9. e \in BatterySims
  BY <1>3, <1>5, <1>7, <1>8 DEF BatterySims
<1>10. e.age = d.age /\ e.watchdog = d.watchdog /\ e.power = p
       /\ e.setpoint = d.setpoint
  BY <1>3, <1>5 DEF BatterySims
<1>11. d.watchdog > 0 /\ d.age > d.watchdog => InWatchdog(d)
  BY DEF InWatchdog
<1> QED
  BY <1>3, <1>6, <1>7, <1>9, <1>10, <1>11 DEF a

LEMMA HeatPumpSteps ==
  ASSUME NEW was \in HeatPumpSims, NEW e \in Stepped("heat_pump", was)
  PROVE  /\ e \in HeatPumpSims
         /\ e.age = AtMost(was.age + 1, AgeMax)
         /\ e.limit = was.limit /\ e.ext = was.ext
<1> DEFINE a == AtMost(was.age + 1, AgeMax)
           d == [was EXCEPT !.age = a]
           R == Rated["heat_pump"]
<1>1. a \in Ages
  <2>1. was.age \in Ages
    BY DEF HeatPumpSims
  <2> QED
    BY <2>1, AgesUp
<1>2. e \in HeatPumpStep(d)
  BY DEF Stepped
<1> HIDE DEF a
<1>3. d \in HeatPumpSims /\ d.age = a /\ d.limit = was.limit /\ d.ext = was.ext
  BY <1>1 DEF HeatPumpSims
<1> HIDE DEF d
<1>4. /\ d.limit \in 0 .. R /\ d.ext \in Nat \cup {None} /\ R \in Nat
      /\ d.indoor \in -2 .. 2 /\ d.cycle_on \in BOOLEAN
  BY <1>3, RatedType DEF HeatPumpSims, Kinds
<1>5. PICK demand \in Demands(d), indoor \in -2 .. 2 :
        e = HeatPumpAt(d, demand, indoor)
  BY <1>2 DEF HeatPumpStep
<1>6. demand \in Nat
  <2>1. Steered(d) => d.ext \in Nat
    BY <1>4 DEF External, Steered
  <2>2. Steered(d) => AtMost(d.ext, R) \in Nat
    BY <1>4, <2>1 DEF AtMost
  <2> QED
    BY <1>4, <2>2 DEF HeatPumpMin, Demands
<1> DEFINE on == CycleOn(d, demand)
           run == Run(d, demand)
           p == IF d.limit >= HeatPumpMin THEN AtMost(run, d.limit) ELSE 0
<1>7. run \in Nat
  BY <1>6 DEF HeatPumpMin, Run
<1>8. on \in BOOLEAN
  BY <1>4 DEF CycleOn
<1> HIDE DEF run, on
<1>9. p \in 0 .. R
  BY <1>4, <1>7 DEF AtMost
<1>10. e = [d EXCEPT !.cycle_on = on, !.indoor = indoor, !.power = p]
  BY <1>5 DEF HeatPumpAt, run, on
<1> HIDE DEF p
<1>11. e \in HeatPumpSims /\ e.age = d.age /\ e.limit = d.limit /\ e.ext = d.ext
  <2>1. \A b \in BOOLEAN, i \in -2 .. 2, x \in 0 .. R :
          [d EXCEPT !.cycle_on = b, !.indoor = i, !.power = x] \in HeatPumpSims
    BY <1>3 DEF HeatPumpSims
  <2>2. e \in HeatPumpSims
    BY <1>8, <1>9, <1>10, <2>1
  <2>3. e.age = d.age /\ e.limit = d.limit /\ e.ext = d.ext
    BY <1>3, <1>10 DEF HeatPumpSims
  <2> QED
    BY <2>2, <2>3
<1> QED
  BY <1>3, <1>11 DEF a

LEMMA MeterSteps ==
  ASSUME NEW was \in [age : Ages], NEW e \in Stepped("meter", was)
  PROVE  e \in [age : Ages]
<1>1. AtMost(was.age + 1, AgeMax) \in Ages
  BY AgesUp
<1>2. e = [was EXCEPT !.age = AtMost(@ + 1, AgeMax)]
  BY DEF Stepped
<1> QED
  BY <1>1, <1>2

LEMMA PoweredUpType ==
  ASSUME NEW k \in Kinds
  PROVE  PoweredUp(k) \in Devices(k)
<1>1. Rated[k] \in Nat /\ 0 \in Ages /\ AgeMax \in Ages /\ Revert \in Nat
  BY RatedType, DeviceAssumption DEF Ages
<1>2. CASE k = "inverter"
  <2>1. PoweredUp(k) = [enabled |-> FALSE, limit |-> 1000, revert |-> Revert,
                        age |-> 0, output |-> 0]
    BY <1>2 DEF PoweredUp
  <2>2. PoweredUp(k) \in InverterSims
    BY <1>1, <2>1 DEF InverterSims, Fractions
  <2> QED
    BY <1>2, <2>2, DevicesAre
<1>3. CASE k = "charger"
  <2>1. PoweredUp(k) = [limit |-> Rated[k], failsafe |-> Rated[k], timeout |-> 0,
                        age |-> 0, car |-> None, current |-> 0]
    BY <1>3 DEF PoweredUp
  <2>2. PoweredUp(k) \in ChargerSims
    BY <1>1, <1>3, <2>1 DEF ChargerSims
  <2> QED
    BY <1>3, <2>2, DevicesAre
<1>4. CASE k = "heat_pump"
  <2>1. PoweredUp(k) = [limit |-> Rated[k], ext |-> None, age |-> AgeMax,
                        indoor |-> 0, cycle_on |-> FALSE, power |-> 0]
    BY <1>4 DEF PoweredUp
  <2>2. Rated[k] \in 0 .. Rated["heat_pump"] /\ 0 \in 0 .. Rated["heat_pump"]
    BY <1>1, <1>4
  <2>3. 0 \in -2 .. 2 /\ None \in Nat \cup {None} /\ FALSE \in BOOLEAN
    OBVIOUS
  <2>4. PoweredUp(k) \in HeatPumpSims
    BY <1>1, <2>1, <2>2, <2>3 DEF HeatPumpSims
  <2> QED
    BY <1>4, <2>4, DevicesAre
<1>5. CASE k = "battery"
  <2>1. PoweredUp(k) = [setpoint |-> 0, watchdog |-> 0, age |-> 0, soc |-> 1,
                        power |-> 0]
    BY <1>5 DEF PoweredUp
  <2>2. PoweredUp(k) \in BatterySims
    BY <1>1, <1>5, <2>1 DEF BatterySims
  <2> QED
    BY <1>5, <2>2, DevicesAre
<1>6. CASE k = "meter"
  <2>1. PoweredUp(k) = [age |-> 0]
    BY <1>6 DEF PoweredUp
  <2> QED
    BY <1>1, <1>6, <2>1, DevicesAre
<1> QED
  BY <1>2, <1>3, <1>4, <1>5, <1>6 DEF Kinds
-----------------------------------------------------------------------------
\* What the helpers of the task do to its state.

LEMMA NewSetpoints ==
  ASSUME kind \in Kinds
  PROVE  /\ Setpoints[kind] \subseteq SetpointsOf(kind)
         /\ InitialSetpoints \subseteq SetpointsOf(kind)
         /\ None \notin SetpointsOf(kind)
<1>1. Rated[kind] \in Nat /\ FailsafeA \in Nat
  BY RatedType, FieldBusAssumption
<1>2. CASE kind = "inverter" \/ kind = "meter"
  BY <1>2, SetpointAssumption, DeviceAssumption DEF SetpointsOf, InitialSetpoints
<1>3. CASE kind = "charger"
  BY <1>1, <1>3, SetpointAssumption, DeviceAssumption
     DEF SetpointsOf, InitialSetpoints
<1>4. CASE kind = "heat_pump"
  BY <1>1, <1>4, SetpointAssumption DEF SetpointsOf, InitialSetpoints
<1>5. CASE kind = "battery"
  BY <1>5, SetpointAssumption, DeviceAssumption DEF SetpointsOf, InitialSetpoints
<1> QED
  BY <1>2, <1>3, <1>4, <1>5, KindsAre

LEMMA ArmingStays ==
  ASSUME kind' = kind
  PROVE  Arming' = Arming
BY DEF Arming

LEMMA WritesStay ==
  ASSUME kind' = kind, target' = target
  PROVE  Writes(target)' = Writes(target)
BY DEF Writes

LEMMA LengthsAre ==
  ASSUME kind \in Kinds, NEW sp
  PROVE  /\ Len(Arming) \in 0 .. 2 /\ Len(Writes(sp)) \in 0 .. 2
         /\ kind = "inverter" => Len(Arming) = 1 /\ Len(Writes(sp)) = 2
         /\ kind = "charger" => Len(Arming) = 2 /\ Len(Writes(sp)) = 1
         /\ kind = "battery" => Len(Arming) = 1 /\ Len(Writes(sp)) = 1
<1>1. CASE kind = "inverter"
  BY <1>1, ArmingIs, WritesAre
<1>2. CASE kind = "charger"
  BY <1>2, ArmingIs, WritesAre
<1>3. CASE kind = "battery"
  BY <1>3, ArmingIs, WritesAre
<1>4. CASE kind = "meter"
  BY <1>4, ArmingIs, WritesAre
<1>5. CASE kind = "heat_pump"
  <2>1. Arming = <<>>
    BY <1>5, ArmingIs
  <2>2. Writes(sp) = <<<<"POWER_LIMIT", sp.limit \div 10>>,
                       <<"EXT_POWER", IF sp.ext = None THEN None
                                      ELSE RoundTenths(sp.ext)>>>>
    BY <1>5, WritesAre
  <2> QED
    BY <1>5, <2>1, <2>2
<1> QED
  BY <1>1, <1>2, <1>3, <1>4, <1>5, KindsAre

LEMMA ArmTo ==
  ASSUME kind \in Kinds, kind' = kind, told \in {"nothing", "armed", "setpoint"},
         NEW k \in Nat, k >= 1, Arm(k)
  PROVE  /\ wait' = 0 /\ step' \in Nat /\ pc' \in {"arm", "tick"}
         /\ pc' = "arm" => step' = k /\ step' \in 1 .. Len(Arming')
         /\ told' \in {"nothing", "armed", "setpoint"}
         /\ told' = "setpoint" => told = "setpoint"
         /\ told' # told => k > Len(Arming)
<1>1. Arming' = Arming /\ Len(Arming) \in 0 .. 2
  BY ArmingStays, LengthsAre
<1>2. CASE k > Len(Arming)
  BY <1>2 DEF Arm, Goto
<1>3. CASE ~(k > Len(Arming))
  BY <1>1, <1>3 DEF Arm, Goto
<1> QED
  BY <1>2, <1>3

LEMMA WriteTo ==
  ASSUME kind \in Kinds, kind' = kind, target \in SetpointsOf(kind),
         NEW k \in Nat, k >= 1, Write(k)
  PROVE  /\ wait' = 0 /\ step' \in Nat /\ pc' \in {"write", "tick"}
         /\ target' \in SetpointsOf(kind) \cup {None}
         /\ pc' = "write" => /\ target' # None
                             /\ step' \in 1 .. Len(Writes(target)')
<1>1. Len(Writes(target)) \in 0 .. 2
  BY LengthsAre
<1>2. CASE k > Len(Writes(target))
  BY <1>2 DEF Write, Goto
<1>3. CASE ~(k > Len(Writes(target)))
  <2>1. Writes(target)' = Writes(target) /\ target' = target
    BY <1>3, WritesStay DEF Write
  <2> QED
    BY <1>1, <1>3, <2>1, NewSetpoints DEF Write, Goto
<1> QED
  BY <1>2, <1>3
-----------------------------------------------------------------------------
\* The invariant, one kind of step at a time.

LEMMA SpansAre ==
  /\ SpanMax \in Nat /\ FallBack \in Nat /\ 0 \in 0 .. SpanMax
  /\ ReconnectDelay \in Nat /\ ReconnectDelay >= 2 /\ Stale \in Nat
BY FieldBusAssumption DEF SpanMax

LEMMA DeviceFields ==
  ASSUME NEW k \in Kinds, NEW d \in Devices(k)
  PROVE  /\ d.age \in Ages /\ d.age \in Nat
         /\ k = "inverter" => d.output <= 1000 /\ d.output \in Nat /\ d.limit \in Nat
<1>1. CASE k = "inverter"
  <2>1. d \in InverterSims
    BY <1>1, DevicesAre
  <2> QED
    BY <1>1, <2>1, AgesUp DEF InverterSims, Fractions
<1>2. CASE k = "charger"
  <2>1. d \in ChargerSims
    BY <1>2, DevicesAre
  <2> QED
    BY <1>2, <2>1, AgesUp DEF ChargerSims
<1>3. CASE k = "heat_pump"
  <2>1. d \in HeatPumpSims
    BY <1>3, DevicesAre
  <2> QED
    BY <1>3, <2>1, AgesUp DEF HeatPumpSims
<1>4. CASE k = "battery"
  <2>1. d \in BatterySims
    BY <1>4, DevicesAre
  <2> QED
    BY <1>4, <2>1, AgesUp DEF BatterySims
<1>5. CASE k = "meter"
  <2>1. d \in [age : Ages]
    BY <1>5, DevicesAre
  <2> QED
    BY <1>5, <2>1, AgesUp
<1> QED
  BY <1>1, <1>2, <1>3, <1>4, <1>5 DEF Kinds

\* Typed, conjunct by conjunct.
LEMMA TypedAgain ==
  ASSUME kind \in Kinds, kind' = kind, setpoint' \in SetpointsOf(kind),
         target' \in SetpointsOf(kind) \cup {None},
         net' \in BOOLEAN, up' \in BOOLEAN, link' \in BOOLEAN,
         span' \in 0 .. SpanMax, told' \in {"nothing", "armed", "setpoint"},
         step' \in Nat, slot' \in Slots, wait' \in 0 .. ReconnectDelay,
         pc' \in Awaits \cup {"tick", "sleep"},
         pc' = "arm" => step' \in 1 .. Len(Arming'),
         pc' = "write" => target' # None /\ step' \in 1 .. Len(Writes(target)'),
         dev' \in Devices(kind)
  PROVE  Typed'
<1>1. dev' \in Devices(kind')
  OBVIOUS
<1>2. FieldType'
  BY <1>1 DEF FieldType
<1> QED
  BY <1>2 DEF Typed

\* A step that touches neither the device nor what it has been told.
LEMMA SameDevice ==
  ASSUME ArmingInv, FallbackInv, Typed, kind' = kind, dev' = dev, told' = told,
         InReach' \/ span' = 0 \/ ((InReach' <=> InReach) /\ span' = span),
         kind = "charger" /\ pc' = "arm" /\ step' = 2 /\ link' =>
           dev.failsafe = Failsafe
  PROVE  ArmingInv' /\ FallbackInv'
<1>1. ArmingInv'
  BY DEF ArmingInv, ArmedDevice
<1>2. dev \in Devices(kind) /\ kind \in Kinds
  BY DEF Typed, FieldType
<1>3. kind # "meter" /\ ~InReach' => dev.age >= AtMost(span', AgeMax)
      \/ told # "setpoint"
  <2>1. CASE span' = 0
    <3>1. dev.age \in Nat
      BY <1>2, DeviceFields
    <3>2. AtMost(span', AgeMax) = 0
      BY <2>1, DeviceAssumption DEF AtMost
    <3> QED
      BY <3>1, <3>2
  <2>2. CASE span' = span /\ (InReach' <=> InReach)
    BY <2>2 DEF FallbackInv
  <2> QED
    BY <2>1, <2>2
<1>4. told = "setpoint" /\ kind = "inverter" /\ ~InReach' =>
        dev.output <= dev.limit \/ dev.output <= 1000 - RampStep * span'
  <2>1. CASE span' = 0
    <3>1. kind = "inverter" => dev.output <= 1000
      BY <1>2, DeviceFields
    <3>2. RampStep * span' = 0
      BY <2>1, DeviceAssumption
    <3> QED
      BY <3>1, <3>2
  <2>2. CASE span' = span /\ (InReach' <=> InReach)
    BY <2>2 DEF FallbackInv
  <2> QED
    BY <2>1, <2>2
<1>5. FallbackInv'
  BY <1>3, <1>4 DEF FallbackInv
<1> QED
  BY <1>1, <1>5

\* The steps of a session that write nothing.
LEMMA SessionStep ==
  ASSUME FInv, Connected \/ Discovered
  PROVE  FInv'
<1> USE DEF FInv
<1>1. Typed /\ ArmingInv /\ FallbackInv
  OBVIOUS
<1>2. /\ kind' = kind /\ dev' = dev /\ net' = net /\ up' = up /\ span' = span
      /\ setpoint' = setpoint /\ target' = target /\ slot' = slot
      /\ link' \in BOOLEAN
  BY <1>1 DEF Connected, Discovered, Keep, Typed
<1>3. kind \in Kinds /\ told \in {"nothing", "armed", "setpoint"}
  BY <1>1 DEF Typed
<1>4. \/ Arm(1)
      \/ wait' = 0 /\ step' = 0 /\ pc' = "discover" /\ told' = told
  BY DEF Connected, Discovered, Goto
<1>5. /\ wait' = 0 /\ step' \in Nat /\ pc' \in {"arm", "tick", "discover"}
      /\ pc' = "arm" => step' = 1 /\ step' \in 1 .. Len(Arming')
      /\ told' \in {"nothing", "armed", "setpoint"}
      /\ told' = "setpoint" => told = "setpoint"
      /\ told' # told => 1 > Len(Arming)
  <2>1. CASE Arm(1)
    BY <1>2, <1>3, <2>1, ArmTo
  <2>2. CASE wait' = 0 /\ step' = 0 /\ pc' = "discover" /\ told' = told
    BY <1>3, <2>2
  <2> QED
    BY <1>4, <2>1, <2>2
<1>6. Typed'
  <2>1. /\ kind \in Kinds /\ setpoint' \in SetpointsOf(kind)
        /\ target' \in SetpointsOf(kind) \cup {None} /\ slot' \in Slots
        /\ net' \in BOOLEAN /\ up' \in BOOLEAN /\ span' \in 0 .. SpanMax
        /\ dev' \in Devices(kind)
    BY <1>1, <1>2 DEF Typed, FieldType
  <2>2. /\ wait' \in 0 .. ReconnectDelay /\ pc' \in Awaits \cup {"tick", "sleep"}
        /\ pc' # "write"
    BY <1>5, SpansAre DEF Awaits
  <2> QED
    BY <1>2, <1>5, <2>1, <2>2, TypedAgain
<1>7. InReach' = InReach /\ InReach
  BY <1>2 DEF InReach, Connected, Discovered, Answered
<1>8. told' # told => ArmedDevice
  BY <1>3, <1>5, LengthsAre DEF ArmedDevice
<1>9. ArmingInv'
  BY <1>1, <1>2, <1>5, <1>8 DEF ArmingInv, ArmedDevice
<1>10. FallbackInv'
  BY <1>1, <1>2, <1>5, <1>7 DEF FallbackInv
<1> QED
  BY <1>6, <1>9, <1>10

LEMMA QuietStep ==
  ASSUME FInv, Ticked \/ Read \/ Fails \/ Awake
  PROVE  FInv'
<1> USE DEF FInv
<1>1. Typed /\ ArmingInv /\ FallbackInv
  OBVIOUS
<1>2. /\ kind' = kind /\ dev' = dev /\ net' = net /\ up' = up /\ span' = span
      /\ setpoint' = setpoint /\ link' = link /\ told' = told
  BY DEF Ticked, Read, Fails, Awake, Keep
<1>3. wait' = 0 /\ step' \in Nat /\ pc' \in {"read", "tick", "write", "sleep", "connect"}
  BY DEF Ticked, Read, Fails, Awake, Goto, Lost
<1>4. slot' \in Slots
  BY <1>1, SpansAre DEF Typed, FieldType, Ticked, Read, Fails, Awake, Lost, Slots
<1>5. target' \in SetpointsOf(kind) \cup {None}
  BY <1>1 DEF Typed, FieldType, Ticked, Read, Fails, Awake, Lost
<1>6. pc' = "write" => target' # None /\ step' \in 1 .. Len(Writes(target)')
  <2>1. SUFFICES ASSUME pc' = "write"
                 PROVE  target' # None /\ step' \in 1 .. Len(Writes(target)')
    OBVIOUS
  <2>2. Read /\ Writes(setpoint) # <<>> /\ step' = 1 /\ target' = setpoint
    BY <2>1 DEF Ticked, Read, Fails, Awake, Goto, Lost
  <2>3. Writes(target)' = Writes(setpoint)
    BY <1>2, <2>2 DEF Writes
  <2>4. Len(Writes(setpoint)) \in 0 .. 2 /\ setpoint \in SetpointsOf(kind)
    BY <1>1, LengthsAre DEF Typed
  <2>5. Len(Writes(setpoint)) # 0
    BY <1>1, <2>2, WritesAre, KindsAre DEF Typed
  <2> QED
    BY <1>1, <2>2, <2>3, <2>4, <2>5, NewSetpoints DEF Typed
<1>7. Typed'
  <2>1. /\ kind \in Kinds /\ setpoint' \in SetpointsOf(kind)
        /\ net' \in BOOLEAN /\ up' \in BOOLEAN /\ link' \in BOOLEAN
        /\ span' \in 0 .. SpanMax /\ dev' \in Devices(kind)
        /\ told' \in {"nothing", "armed", "setpoint"}
    BY <1>1, <1>2 DEF Typed, FieldType
  <2>2. /\ wait' \in 0 .. ReconnectDelay /\ pc' \in Awaits \cup {"tick", "sleep"}
        /\ pc' # "arm"
    BY <1>3, SpansAre DEF Awaits
  <2> QED
    BY <1>2, <1>3, <1>4, <1>5, <1>6, <2>1, <2>2, TypedAgain
<1>8. InReach' = InReach
  BY <1>2 DEF InReach
<1> QED
  BY <1>1, <1>2, <1>3, <1>7, <1>8, SameDevice
\* Publications, the network, a crash and a restart.
LEMMA OutsideStep ==
  ASSUME FInv, Publish \/ NetworkFails \/ NetworkBack \/ Crash \/ Restart
  PROVE  FInv'
<1> USE DEF FInv
<1>1. Typed /\ ArmingInv /\ FallbackInv
  OBVIOUS
<1>2. kind' = kind /\ dev' = dev /\ told' = told /\ kind \in Kinds
  BY <1>1 DEF Publish, NetworkFails, NetworkBack, Crash, Restart, Typed
<1>3. net' \in BOOLEAN /\ up' \in BOOLEAN /\ link' \in BOOLEAN
  BY <1>1 DEF Publish, NetworkFails, NetworkBack, Crash, Restart, Typed
<1>4. \/ /\ pc' = pc /\ step' = step /\ wait' = wait /\ link' = link
         /\ target' = target /\ slot' = slot
      \/ /\ pc' \in {"sleep", "connect"} /\ step' = 0 /\ wait' = 0
         /\ target' \in {None, target} /\ slot' \in {None, slot}
  BY DEF Publish, NetworkFails, NetworkBack, Crash, Restart, task, Lost, Goto
<1>5. setpoint' \in SetpointsOf(kind)
  BY <1>1, <1>2, NewSetpoints
     DEF Publish, NetworkFails, NetworkBack, Crash, Restart, Typed
<1>6. span' = span \/ span' = 0
  BY DEF Publish, NetworkFails, NetworkBack, Crash, Restart
<1>7. InReach' \/ span' = 0 \/ ((InReach' <=> InReach) /\ span' = span)
  BY <1>1 DEF Publish, NetworkFails, NetworkBack, Crash, Restart, InReach, Typed
<1>8. Typed'
  <2>1. /\ span' \in 0 .. SpanMax /\ dev' \in Devices(kind) /\ slot' \in Slots
        /\ target' \in SetpointsOf(kind) \cup {None}
        /\ told' \in {"nothing", "armed", "setpoint"}
    BY <1>1, <1>2, <1>4, <1>6, SpansAre DEF Typed, FieldType, Slots
  <2>2. CASE /\ pc' = pc /\ step' = step /\ wait' = wait /\ target' = target
    <3>1. Arming' = Arming /\ Writes(target)' = Writes(target)
      BY <1>2, <2>2, ArmingStays, WritesStay
    <3>2. step' \in Nat /\ wait' \in 0 .. ReconnectDelay
          /\ pc' \in Awaits \cup {"tick", "sleep"}
      BY <1>1, <2>2 DEF Typed, FieldType
    <3>3. /\ pc' = "arm" => step' \in 1 .. Len(Arming')
          /\ pc' = "write" => target' # None /\ step' \in 1 .. Len(Writes(target)')
      BY <1>1, <2>2, <3>1 DEF Typed, FieldType
    <3> QED
      BY <1>2, <1>3, <1>5, <2>1, <3>2, <3>3, TypedAgain
  <2>3. CASE pc' \in {"sleep", "connect"} /\ step' = 0 /\ wait' = 0
    <3>1. /\ step' \in Nat /\ wait' \in 0 .. ReconnectDelay
          /\ pc' \in Awaits \cup {"tick", "sleep"} /\ pc' # "arm" /\ pc' # "write"
      BY <2>3, SpansAre DEF Awaits
    <3> QED
      BY <1>2, <1>3, <1>5, <2>1, <3>1, TypedAgain
  <2> QED
    BY <1>4, <2>2, <2>3
<1>9. kind = "charger" /\ pc' = "arm" /\ step' = 2 /\ link' =>
        dev.failsafe = Failsafe
  BY <1>1, <1>4 DEF ArmingInv
<1> QED
  BY <1>1, <1>2, <1>7, <1>8, <1>9, SameDevice

\* What the i-th write of the arming establishes.
LEMMA ArmingStep ==
  ASSUME FInv, kind' = kind, pc = "arm", link = TRUE, InReach' = TRUE,
         ArmedTo(dev, dev', step),
         told' = "setpoint" => told = "setpoint",
         told' # told => step = Len(Arming),
         pc' = "arm" => step' = step + 1
  PROVE  ArmingInv' /\ FallbackInv'
<1> USE DEF FInv
<1>1. Typed /\ ArmingInv /\ FallbackInv
  OBVIOUS
<1>2. kind \in Kinds /\ step \in Nat
  BY <1>1 DEF Typed
<1>3. told # "nothing" => ArmedDevice'
  BY <1>1 DEF ArmingInv, ArmedDevice, ArmedTo
<1>4. step = Len(Arming) => ArmedDevice'
  <2>1. CASE kind = "charger"
    <3>1. step = Len(Arming) => step = 2
      BY <1>2, <2>1, LengthsAre
    <3> QED
      BY <1>1, <2>1, <3>1 DEF ArmingInv, ArmedDevice, ArmedTo
  <2>2. CASE kind # "charger"
    BY <2>2 DEF ArmedDevice, ArmedTo
  <2> QED
    BY <2>1, <2>2
<1>5. kind = "charger" /\ pc' = "arm" /\ step' = 2 => dev'.failsafe = Failsafe
  <2>1. step + 1 = 2 => step = 1
    BY <1>2
  <2> QED
    BY <2>1 DEF ArmedTo
<1>6. ArmingInv'
  <2>1. told' # "nothing" => ArmedDevice'
    BY <1>3, <1>4
  <2> QED
    BY <1>5, <2>1 DEF ArmingInv
<1>7. FallbackInv'
  BY <1>1 DEF FallbackInv, ArmedTo
<1> QED
  BY <1>6, <1>7

\* What the i-th write of a setpoint establishes.
LEMMA SettingStep ==
  ASSUME FInv, kind' = kind, InReach' = TRUE, SetTo(target, dev, dev', step),
         pc' # "arm", told # "nothing" \/ told' = told,
         told' # told => step = Len(Writes(target)) /\ told' = "setpoint"
  PROVE  ArmingInv' /\ FallbackInv'
<1> USE DEF FInv
<1>1. Typed /\ ArmingInv /\ FallbackInv
  OBVIOUS
<1>2. kind \in Kinds /\ told \in {"nothing", "armed", "setpoint"}
  BY <1>1 DEF Typed
<1>3. told' # "nothing" => told # "nothing"
  BY <1>2
<1>4. ArmingInv'
  BY <1>1, <1>3 DEF ArmingInv, ArmedDevice, SetTo
<1>5. told' = "setpoint" /\ kind = "inverter" => dev'.enabled = TRUE
  <2>1. CASE told = "setpoint"
    BY <1>1, <2>1 DEF FallbackInv, SetTo
  <2>2. CASE told' # told
    BY <1>2, <2>2, LengthsAre DEF SetTo
  <2> QED
    BY <2>1, <2>2
<1>6. /\ kind = "charger" => ~(dev'.age > FailsafeTimeout)
      /\ kind = "battery" => ~(dev'.age > WatchdogS)
  BY FieldBusAssumption DEF SetTo
<1>7. FallbackInv'
  BY <1>5, <1>6 DEF FallbackInv
<1> QED
  BY <1>4, <1>7
LEMMA ArmedStep ==
  ASSUME FInv, Armed
  PROVE  FInv'
<1> USE DEF FInv
<1>1. Typed /\ ArmingInv /\ FallbackInv
  OBVIOUS
<1>2. /\ kind \in Kinds /\ dev \in Devices(kind) /\ step \in Nat
      /\ step \in 1 .. Len(Arming) /\ pc = "arm" /\ link = TRUE
      /\ told \in {"nothing", "armed", "setpoint"}
  BY <1>1 DEF Typed, FieldType, Armed
<1>3. /\ kind' = kind /\ net' = net /\ up' = up /\ span' = span
      /\ setpoint' = setpoint /\ link' = link /\ target' = target /\ slot' = slot
  BY DEF Armed, Keep
<1>4. ArmedTo(dev, dev', step)
  <2>1. dev' = Written(kind, dev, Arming[step][1], Arming[step][2])
    BY DEF Armed
  <2> QED
    BY <1>2, <2>1, ArmWrites
<1>5. /\ wait' = 0 /\ step' \in Nat /\ pc' \in {"arm", "tick"}
      /\ pc' = "arm" => step' = step + 1 /\ step' \in 1 .. Len(Arming')
      /\ told' \in {"nothing", "armed", "setpoint"}
      /\ told' = "setpoint" => told = "setpoint"
      /\ told' # told => step + 1 > Len(Arming)
  <2>1. Arm(step + 1) /\ step + 1 \in Nat /\ step + 1 >= 1
    BY <1>2 DEF Armed
  <2> QED
    BY <1>2, <1>3, <2>1, ArmTo
<1>6. told' # told => step = Len(Arming)
  BY <1>2, <1>5, LengthsAre
<1>7. InReach' = TRUE
  BY <1>3 DEF InReach, Armed, Answered
<1>8. ArmingInv' /\ FallbackInv'
  BY <1>2, <1>3, <1>4, <1>5, <1>6, <1>7, ArmingStep
<1>9. Typed'
  <2>1. /\ setpoint' \in SetpointsOf(kind) /\ slot' \in Slots
        /\ target' \in SetpointsOf(kind) \cup {None}
        /\ net' \in BOOLEAN /\ up' \in BOOLEAN /\ link' \in BOOLEAN
        /\ span' \in 0 .. SpanMax
    BY <1>1, <1>3 DEF Typed, FieldType
  <2>2. /\ wait' \in 0 .. ReconnectDelay /\ pc' \in Awaits \cup {"tick", "sleep"}
        /\ pc' # "write"
    BY <1>5, SpansAre DEF Awaits
  <2>3. dev' \in Devices(kind)
    BY <1>4 DEF ArmedTo
  <2> QED
    BY <1>2, <1>3, <1>5, <2>1, <2>2, <2>3, TypedAgain
<1> QED
  BY <1>8, <1>9

LEMMA WroteStep ==
  ASSUME FInv, Wrote
  PROVE  FInv'
<1> USE DEF FInv
<1>1. Typed /\ ArmingInv /\ FallbackInv
  OBVIOUS
<1>2. /\ kind \in Kinds /\ dev \in Devices(kind) /\ step \in Nat
      /\ target \in SetpointsOf(kind) /\ step \in 1 .. Len(Writes(target))
      /\ pc = "write" /\ told \in {"nothing", "armed", "setpoint"}
  BY <1>1 DEF Typed, FieldType, Wrote
<1>3. /\ kind' = kind /\ net' = net /\ up' = up /\ span' = span
      /\ setpoint' = setpoint /\ link' = link /\ slot' \in {slot, 0}
  BY DEF Wrote, Keep
<1>4. SetTo(target, dev, dev', step)
  <2>1. dev' = Written(kind, dev, Writes(target)[step][1], Writes(target)[step][2])
    BY DEF Wrote
  <2> QED
    BY <1>2, <2>1, SetWrites
<1>5. /\ wait' = 0 /\ step' \in Nat /\ pc' \in {"write", "tick"}
      /\ target' \in SetpointsOf(kind) \cup {None}
      /\ pc' = "write" => target' # None /\ step' \in 1 .. Len(Writes(target)')
  <2>1. Write(step + 1) /\ step + 1 \in Nat /\ step + 1 >= 1
    BY <1>2 DEF Wrote
  <2> QED
    BY <1>2, <1>3, <2>1, WriteTo
<1>6. /\ told' \in {"nothing", "armed", "setpoint"}
      /\ told # "nothing" \/ told' = told
      /\ told' # told => step = Len(Writes(target)) /\ told' = "setpoint"
  BY <1>2 DEF Wrote, Told
<1>7. InReach' = TRUE
  BY <1>3 DEF InReach, Wrote, Answered
<1>8. ArmingInv' /\ FallbackInv'
  BY <1>3, <1>4, <1>5, <1>6, <1>7, SettingStep
<1>9. Typed'
  <2>1. /\ setpoint' \in SetpointsOf(kind) /\ slot' \in Slots
        /\ net' \in BOOLEAN /\ up' \in BOOLEAN /\ link' \in BOOLEAN
        /\ span' \in 0 .. SpanMax
    BY <1>1, <1>3, SpansAre DEF Typed, FieldType, Slots
  <2>2. /\ wait' \in 0 .. ReconnectDelay /\ pc' \in Awaits \cup {"tick", "sleep"}
        /\ pc' # "arm"
    BY <1>5, SpansAre DEF Awaits
  <2>3. dev' \in Devices(kind)
    BY <1>4 DEF SetTo
  <2> QED
    BY <1>2, <1>3, <1>5, <1>6, <2>1, <2>2, <2>3, TypedAgain
<1> QED
  BY <1>8, <1>9

LEMMA AnswerLostStep ==
  ASSUME FInv, AnswerLost
  PROVE  FInv'
<1> USE DEF FInv
<1>1. Typed /\ ArmingInv /\ FallbackInv
  OBVIOUS
<1>2. /\ kind \in Kinds /\ dev \in Devices(kind) /\ link = TRUE
      /\ told \in {"nothing", "armed", "setpoint"}
  BY <1>1 DEF Typed, FieldType, AnswerLost
<1>3. /\ kind' = kind /\ net' = net /\ up' = up /\ span' = 0 /\ pc' = "sleep"
      /\ setpoint' = setpoint /\ link' = link /\ slot' = None /\ target' = None
      /\ wait' = 0 /\ step' = 0
  BY DEF AnswerLost, Lost, Goto
<1>4. InReach' = TRUE
  BY <1>3 DEF InReach, AnswerLost, Answered
<1>5. dev' \in Devices(kind) /\ told' \in {"nothing", "armed", "setpoint"} => Typed'
  <2>1. /\ setpoint' \in SetpointsOf(kind) /\ slot' \in Slots
        /\ target' \in SetpointsOf(kind) \cup {None}
        /\ net' \in BOOLEAN /\ up' \in BOOLEAN /\ link' \in BOOLEAN
        /\ span' \in 0 .. SpanMax /\ step' \in Nat
    BY <1>1, <1>3, SpansAre DEF Typed, Slots
  <2>2. /\ wait' \in 0 .. ReconnectDelay /\ pc' \in Awaits \cup {"tick", "sleep"}
        /\ pc' # "write" /\ pc' # "arm"
    BY <1>3, SpansAre DEF Awaits
  <2> QED
    BY <1>2, <1>3, <2>1, <2>2, TypedAgain
<1>6. CASE pc = "arm"
  <2>1. step \in 1 .. Len(Arming) /\ told' = told
    BY <1>1, <1>6 DEF Typed, FieldType, AnswerLost
  <2>2. dev' = Written(kind, dev, Arming[step][1], Arming[step][2])
    BY <1>6 DEF AnswerLost
  <2>3. ArmedTo(dev, dev', step)
    BY <1>2, <2>1, <2>2, ArmWrites
  <2>4. ArmingInv' /\ FallbackInv'
    BY <1>2, <1>3, <1>4, <1>6, <2>1, <2>3, ArmingStep
  <2>5. dev' \in Devices(kind) /\ told' \in {"nothing", "armed", "setpoint"}
    BY <1>2, <2>1, <2>3 DEF ArmedTo
  <2> QED
    BY <1>5, <2>4, <2>5
<1>7. CASE pc = "write"
  <2>1. target \in SetpointsOf(kind) /\ step \in 1 .. Len(Writes(target))
    BY <1>1, <1>7 DEF Typed, FieldType
  <2>2. dev' = Written(kind, dev, Writes(target)[step][1], Writes(target)[step][2])
    BY <1>7 DEF AnswerLost
  <2>3. SetTo(target, dev, dev', step)
    BY <1>2, <2>1, <2>2, SetWrites
  <2>4. /\ told' \in {"nothing", "armed", "setpoint"}
        /\ told # "nothing" \/ told' = told
        /\ told' # told => step = Len(Writes(target)) /\ told' = "setpoint"
    BY <1>2, <1>7 DEF AnswerLost, Told
  <2>5. ArmingInv' /\ FallbackInv'
    BY <1>3, <1>4, <2>3, <2>4, SettingStep
  <2>6. dev' \in Devices(kind)
    BY <2>3 DEF SetTo
  <2> QED
    BY <1>5, <2>4, <2>5, <2>6
<1> QED
  BY <1>6, <1>7 DEF AnswerLost

LEMMA PowerCycleStep ==
  ASSUME FInv, PowerCycle
  PROVE  FInv'
<1> USE DEF FInv
<1>1. Typed /\ ArmingInv /\ FallbackInv
  OBVIOUS
<1>2. /\ kind \in Kinds /\ dev \in Devices(kind) /\ kind' = kind /\ net' = net
      /\ up' = up /\ setpoint' = setpoint /\ told' = "nothing"
      /\ pc' = pc /\ step' = step /\ wait' = wait /\ target' = target
      /\ slot' = slot
  BY <1>1 DEF Typed, FieldType, PowerCycle, task
<1>3. dev' \in Devices(kind)
  <2>1. CASE kind = "inverter"
    <3>1. PoweredUp(kind) \in InverterSims /\ dev \in InverterSims
      BY <1>2, <2>1, PoweredUpType, DevicesAre
    <3>2. dev.revert \in Nat
      BY <3>1 DEF InverterSims
    <3>3. [PoweredUp(kind) EXCEPT !.revert = dev.revert] \in InverterSims
      BY <3>1, <3>2 DEF InverterSims
    <3> QED
      BY <2>1, <3>3, DevicesAre DEF PowerCycle
  <2>2. CASE kind # "inverter"
    BY <1>2, <2>2, PoweredUpType DEF PowerCycle
  <2> QED
    BY <2>1, <2>2
<1>4. link' \in BOOLEAN /\ (kind = "charger" => link' = FALSE)
  BY <1>1 DEF Typed, PowerCycle
<1>5. ArmingInv' /\ FallbackInv'
  BY <1>2, <1>4 DEF ArmingInv, FallbackInv
<1>6. Typed'
  <2>1. Arming' = Arming /\ Writes(target)' = Writes(target)
    BY <1>2, ArmingStays, WritesStay
  <2>2. /\ setpoint' \in SetpointsOf(kind) /\ slot' \in Slots
        /\ target' \in SetpointsOf(kind) \cup {None}
        /\ net' \in BOOLEAN /\ up' \in BOOLEAN /\ step' \in Nat
        /\ wait' \in 0 .. ReconnectDelay /\ pc' \in Awaits \cup {"tick", "sleep"}
    BY <1>1, <1>2 DEF Typed, FieldType
  <2>3. /\ pc' = "arm" => step' \in 1 .. Len(Arming')
        /\ pc' = "write" => target' # None /\ step' \in 1 .. Len(Writes(target)')
    BY <1>1, <1>2, <2>1 DEF Typed, FieldType
  <2>4. span' \in 0 .. SpanMax
    BY <1>1, SpansAre DEF Typed, PowerCycle
  <2> QED
    BY <1>2, <1>3, <1>4, <2>2, <2>3, <2>4, TypedAgain
<1> QED
  BY <1>5, <1>6
\* A period passes: the device steps, everything ages.
LEMMA Spans ==
  ASSUME NEW n \in 0 .. SpanMax
  PROVE  /\ Older(n, SpanMax) \in 0 .. SpanMax
         /\ Older(n, SpanMax) = n \/ Older(n, SpanMax) = n + 1
BY SpansAre, DeviceAssumption DEF Older, AtMost

LEMMA AgeFollows ==
  ASSUME NEW age \in Nat, NEW n \in Nat, NEW m \in Nat, m = n \/ m = n + 1,
         age >= AtMost(n, AgeMax)
  PROVE  AtMost(age + 1, AgeMax) >= AtMost(m, AgeMax)
BY DeviceAssumption DEF AtMost

LEMMA RampFollows ==
  ASSUME NEW x \in Int, NEW n \in Nat, NEW m \in Nat, m = n \/ m = n + 1,
         x <= 1000 - RampStep * n
  PROVE  x - RampStep <= 1000 - RampStep * m
<1>1. RampStep \in Nat
  BY DeviceAssumption
<1>2. RampStep * (n + 1) = RampStep * n + RampStep /\ RampStep * n \in Int
  BY <1>1
<1>3. RampStep * m = RampStep * n \/ RampStep * m = RampStep * n + RampStep
  BY <1>2
<1> DEFINE r == RampStep * n
           q == RampStep * m
<1>4. r \in Int /\ (q = r \/ q = r + RampStep) /\ x <= 1000 - r
  BY <1>2, <1>3
<1> HIDE DEF r, q
<1>5. x - RampStep <= 1000 - q
  BY <1>1, <1>4
<1> QED
  BY <1>5 DEF q

\* What a period does to the device of the argument.
SteppedTo(d, e) ==
  /\ e \in Devices(kind)
  /\ kind # "meter" => e.age = AtMost(d.age + 1, AgeMax)
  /\ kind = "inverter" =>
       /\ e.limit = d.limit /\ e.revert = d.revert
       /\ d.revert = 0 /\ d.enabled = TRUE =>
            /\ e.enabled = TRUE
            /\ e.output <= e.limit \/ e.output = d.output - RampStep
  /\ kind = "charger" =>
       /\ e.failsafe = d.failsafe /\ e.timeout = d.timeout
       /\ e.limit = d.limit
       /\ e.timeout > 0 /\ e.age > e.timeout => e.current <= e.failsafe
  /\ kind = "heat_pump" => e.limit = d.limit /\ e.ext = d.ext
  /\ kind = "battery" =>
       /\ e.watchdog = d.watchdog /\ e.setpoint = d.setpoint
       /\ e.watchdog > 0 /\ e.age > e.watchdog => e.power = 0

LEMMA DeviceSteps ==
  ASSUME kind \in Kinds, NEW d \in Devices(kind), NEW e \in Stepped(kind, d)
  PROVE  SteppedTo(d, e)
<1>1. CASE kind = "inverter"
  <2>1. d \in InverterSims /\ e \in Stepped("inverter", d)
        /\ Devices(kind) = InverterSims
    BY <1>1, DevicesAre
  <2> QED
    BY <1>1, <2>1, InverterSteps DEF SteppedTo
<1>2. CASE kind = "charger"
  <2>1. d \in ChargerSims /\ e \in Stepped("charger", d)
        /\ Devices(kind) = ChargerSims
    BY <1>2, DevicesAre
  <2> QED
    BY <1>2, <2>1, ChargerSteps DEF SteppedTo
<1>3. CASE kind = "battery"
  <2>1. d \in BatterySims /\ e \in Stepped("battery", d)
        /\ Devices(kind) = BatterySims
    BY <1>3, DevicesAre
  <2> QED
    BY <1>3, <2>1, BatterySteps DEF SteppedTo
<1>4. CASE kind = "heat_pump"
  <2>1. d \in HeatPumpSims /\ e \in Stepped("heat_pump", d)
        /\ Devices(kind) = HeatPumpSims
    BY <1>4, DevicesAre
  <2> QED
    BY <1>4, <2>1, HeatPumpSteps DEF SteppedTo
<1>5. CASE kind = "meter"
  <2>1. d \in [age : Ages] /\ e \in Stepped("meter", d)
        /\ Devices(kind) = [age : Ages]
    BY <1>5, DevicesAre
  <2> QED
    BY <1>5, <2>1, MeterSteps DEF SteppedTo
<1> QED
  BY <1>1, <1>2, <1>3, <1>4, <1>5, KindsAre

LEMMA ClockStep ==
  ASSUME FInv, Clock
  PROVE  FInv'
<1> USE DEF FInv
<1>1. Typed /\ ArmingInv /\ FallbackInv
  OBVIOUS
<1>2. /\ kind \in Kinds /\ dev \in Devices(kind) /\ kind' = kind /\ net' = net
      /\ up' = up /\ link' = link /\ setpoint' = setpoint /\ told' = told
      /\ pc' = pc /\ step' = step /\ target' = target
  BY <1>1 DEF Typed, FieldType, Clock
<1>3. span \in 0 .. SpanMax /\ span \in Nat
  BY <1>1, SpansAre DEF Typed
<1>4. /\ span' \in 0 .. SpanMax /\ span' \in Nat
      /\ span' = span \/ span' = span + 1
  <2>1. span' = Older(span, SpanMax)
    BY DEF Clock
  <2> QED
    BY <1>3, <2>1, Spans, SpansAre
<1>5. SteppedTo(dev, dev')
  BY <1>2, DeviceSteps DEF Clock
<1>6. InReach' = InReach
  BY <1>2 DEF InReach
<1>7. ArmingInv'
  BY <1>1, <1>2, <1>5 DEF ArmingInv, ArmedDevice, SteppedTo
<1>8. FallbackInv'
  <2>0. told # "setpoint" => FallbackInv'
    BY <1>2, Zenon DEF FallbackInv
  <2> SUFFICES ASSUME told = "setpoint"
               PROVE  FallbackInv'
    BY <2>0
  <2>1. ArmedDevice
    BY <1>1 DEF ArmingInv
  <2>2. kind # "meter" /\ ~InReach' => dev'.age >= AtMost(span', AgeMax)
    <3> SUFFICES ASSUME kind # "meter", ~InReach
                 PROVE  dev'.age >= AtMost(span', AgeMax)
      BY <1>6
    <3>1. dev.age >= AtMost(span, AgeMax) /\ dev.age \in Nat
      BY <1>1, <1>2, DeviceFields DEF FallbackInv
    <3>2. dev'.age = AtMost(dev.age + 1, AgeMax)
      BY <1>5 DEF SteppedTo
    <3> QED
      BY <1>3, <1>4, <3>1, <3>2, AgeFollows
  <2>3. kind = "inverter" =>
          /\ dev'.enabled = TRUE
          /\ ~InReach' => \/ dev'.output <= dev'.limit
                          \/ dev'.output <= 1000 - RampStep * span'
    <3> SUFFICES ASSUME kind = "inverter"
                 PROVE  /\ dev'.enabled = TRUE
                        /\ ~InReach => \/ dev'.output <= dev'.limit
                                       \/ dev'.output <= 1000 - RampStep * span'
      BY <1>6
    <3>1. dev.revert = 0 /\ dev.enabled = TRUE
      BY <1>1, <2>1 DEF FallbackInv, ArmedDevice
    <3>2. /\ dev'.enabled = TRUE /\ dev'.limit = dev.limit
          /\ dev'.output <= dev'.limit \/ dev'.output = dev.output - RampStep
      BY <1>5, <3>1 DEF SteppedTo
    <3>3. dev.output \in Nat /\ dev.limit \in Nat /\ RampStep \in Nat
      BY <1>2, DeviceFields, DeviceAssumption
    <3>4. CASE InReach \/ dev'.output <= dev'.limit
      BY <3>2, <3>4
    <3>5. CASE ~InReach /\ dev'.output = dev.output - RampStep
      <4>1. CASE dev.output <= dev.limit
        BY <3>2, <3>3, <3>5, <4>1
      <4>2. CASE dev.output <= 1000 - RampStep * span
        <5>1. dev'.output <= 1000 - RampStep * span'
          BY <1>3, <1>4, <3>3, <3>5, <4>2, RampFollows
        <5> QED
          BY <3>2, <5>1
      <4>3. \/ dev.output <= dev.limit
            \/ dev.output <= 1000 - RampStep * span
        BY <1>1, <3>5 DEF FallbackInv
      <4> QED
        BY <4>1, <4>2, <4>3
    <3> QED
      BY <3>2, <3>4, <3>5
  <2>4. kind = "charger" /\ dev'.age > FailsafeTimeout => dev'.current <= FailsafeA
    <3> SUFFICES ASSUME kind = "charger", dev'.age > FailsafeTimeout
                 PROVE  dev'.current <= FailsafeA
      OBVIOUS
    <3>1. dev.failsafe = Failsafe /\ dev.timeout = FailsafeTimeout
      BY <2>1 DEF ArmedDevice
    <3>2. FailsafeTimeout > 0
      BY FieldBusAssumption
    <3>3. dev'.current <= Failsafe
      BY <1>5, <3>1, <3>2 DEF SteppedTo
    <3>4. dev'.current \in Int
      <4>1. dev' \in ChargerSims
        BY <1>5, DevicesAre DEF SteppedTo
      <4> QED
        BY <4>1 DEF ChargerSims
    <3>5. Failsafe <= FailsafeA /\ Failsafe \in Int /\ FailsafeA \in Int
      <4>1. Rated["charger"] \in Nat /\ FailsafeA \in Nat
        BY RatedType, FieldBusAssumption DEF Kinds
      <4> QED
        BY <4>1 DEF Failsafe, AtMost
    <3> QED
      BY <3>3, <3>4, <3>5
  <2>5. kind = "battery" /\ dev'.age > WatchdogS => dev'.power = 0
    BY <1>5, <2>1, FieldBusAssumption DEF ArmedDevice, SteppedTo
  <2> QED
    BY <1>2, <2>2, <2>3, <2>4, <2>5 DEF FallbackInv
<1>9. Typed'
  <2>1. Arming' = Arming /\ Writes(target)' = Writes(target)
    BY <1>2, ArmingStays, WritesStay
  <2>2. /\ setpoint' \in SetpointsOf(kind) /\ step' \in Nat
        /\ target' \in SetpointsOf(kind) \cup {None}
        /\ net' \in BOOLEAN /\ up' \in BOOLEAN /\ link' \in BOOLEAN
        /\ told' \in {"nothing", "armed", "setpoint"}
        /\ pc' \in Awaits \cup {"tick", "sleep"}
    BY <1>1, <1>2 DEF Typed, FieldType
  <2>3. /\ pc' = "arm" => step' \in 1 .. Len(Arming')
        /\ pc' = "write" => target' # None /\ step' \in 1 .. Len(Writes(target)')
    BY <1>1, <1>2, <2>1 DEF Typed, FieldType
  <2>4. slot' \in Slots
    <3>1. slot \in Slots /\ slot' = Older(slot, Stale + 1) /\ Stale \in Nat
      BY <1>1, SpansAre DEF Typed, FieldType, Clock
    <3>2. CASE slot = None
      BY <3>1, <3>2 DEF Slots, Older
    <3>3. CASE slot # None
      <4>1. slot \in 0 .. Stale + 1
        BY <3>1, <3>3 DEF Slots
      <4>2. slot' \in 0 .. Stale + 1
        BY <3>1, <3>3, <4>1 DEF Older, AtMost
      <4> QED
        BY <4>2 DEF Slots
    <3> QED
      BY <3>2, <3>3
  <2>5. wait' \in 0 .. ReconnectDelay
    BY <1>1, SpansAre DEF Typed, FieldType, Clock, Blocked, Awaits
  <2>6. dev' \in Devices(kind)
    BY <1>5 DEF SteppedTo
  <2> QED
    BY <1>2, <1>4, <2>2, <2>3, <2>4, <2>5, <2>6, TypedAgain
<1> QED
  BY <1>7, <1>8, <1>9
LEMMA FInitially ==
  ASSUME FInit
  PROVE  FInv
<1>1. kind \in Kinds /\ dev \in Devices(kind)
  BY PoweredUpType DEF FInit
<1>2. setpoint \in SetpointsOf(kind)
  BY <1>1, NewSetpoints DEF FInit
<1>3. FieldType
  BY <1>1, SpansAre DEF FInit, FieldType, Awaits, Slots
<1>4. Typed
  BY <1>1, <1>2, <1>3, SpansAre DEF Typed, FInit
<1>5. ArmingInv /\ FallbackInv
  BY DEF FInit, ArmingInv, FallbackInv
<1> QED
  BY <1>4, <1>5 DEF FInv

LEMMA FKeeps ==
  ASSUME FInv, [FNext]_fvars
  PROVE  FInv'
<1>1. CASE FNext
  BY <1>1, SessionStep, QuietStep, OutsideStep, ArmedStep, WroteStep,
     AnswerLostStep, PowerCycleStep, ClockStep DEF FNext
<1>2. CASE UNCHANGED fvars
  <2>1. /\ kind' = kind /\ dev' = dev /\ told' = told /\ net' = net /\ up' = up
        /\ link' = link /\ setpoint' = setpoint /\ span' = span /\ pc' = pc
        /\ step' = step /\ wait' = wait /\ target' = target /\ slot' = slot
    BY <1>2 DEF fvars, task
  <2>2. Arming' = Arming /\ Writes(target)' = Writes(target)
    BY <2>1, ArmingStays, WritesStay
  <2>3. Typed'
    BY <2>1, <2>2 DEF FInv, Typed, FieldType
  <2>4. ArmingInv' /\ FallbackInv'
    BY <2>1 DEF FInv, ArmingInv, ArmedDevice, FallbackInv, InReach
  <2> QED
    BY <2>3, <2>4 DEF FInv
<1> QED
  BY <1>1, <1>2

LEMMA FieldInvariant == FieldSpec => []FInv
<1>1. FInit => FInv
  BY FInitially
<1>2. FInv /\ [FNext]_fvars => FInv'
  BY FKeeps
<1> QED
  BY <1>1, <1>2, PTL DEF FieldSpec

\* Out of reach for FallBack periods, every ramp has come down.
LEMMA RampedDown ==
  ASSUME NEW n \in Nat, NEW m \in Nat, NEW r \in Nat, n >= m, r * m >= 1000
  PROVE  1000 - r * n <= 0
<1>1. PICK k \in Nat : n = m + k
  <2>1. n - m \in Nat /\ n = m + (n - m)
    OBVIOUS
  <2> QED
    BY <2>1
<1>2. r * n = r * m + r * k /\ r * k \in Nat /\ r * m \in Nat
  BY <1>1
<1> DEFINE a == r * m
           b == r * k
           c == r * n
<1>3. c = a + b /\ b \in Nat /\ a \in Nat /\ a >= 1000
  BY <1>2
<1> HIDE DEF a, b, c
<1>4. 1000 - c <= 0
  BY <1>3
<1> QED
  BY <1>4 DEF c

\* What the task and the device hold is what they can hold, for all values of
\* the constants: the request that awaits an answer exists, a reading has an
\* age, a battery is charged neither past full nor below empty (field.rs:
\* supervise and the sessions; sim.rs: SiteSim::write and step).
THEOREM FieldTypeHolds == FieldSpec => []FieldType
<1>1. FInv => FieldType
  BY DEF FInv, Typed
<1> QED
  BY <1>1, FieldInvariant, PTL

\* A device that a session has armed and given a setpoint falls back by itself
\* when the gateway or the network is gone for FallBack periods, whatever was
\* lost and rebooted on the way: a charger to its failsafe current, a battery
\* to nothing, a heat pump to its thermostat, an inverter down its ramp to the
\* last limit and not to none (field.rs: the arming writes of each session;
\* sim.rs: the fallbacks in SiteSim::step).
THEOREM OrphanFallsBackHolds ==
  ASSUME LongEnough
  PROVE  FieldSpec => []OrphanFallsBack
<1>1. FInv => OrphanFallsBack
  <2> SUFFICES ASSUME FInv, ~InReach, span >= FallBack, told = "setpoint"
               PROVE  CASE kind = "inverter" -> dev.enabled /\ dev.output <= dev.limit
                        [] kind = "charger" -> dev.current <= FailsafeA
                        [] kind = "heat_pump" -> ~External(dev)
                        [] kind = "battery" -> dev.power = 0
                        [] OTHER -> TRUE
    BY DEF OrphanFallsBack
  <2>1. /\ kind \in Kinds /\ dev \in Devices(kind) /\ span \in Nat
        /\ FallBack \in Nat
    BY SpansAre DEF FInv, Typed, FieldType
  <2>2. kind # "meter" => dev.age >= AtMost(span, AgeMax) /\ dev.age \in Nat
    BY <2>1, DeviceFields DEF FInv, FallbackInv
  <2>3. kind # "meter" => /\ dev.age > FailsafeTimeout /\ dev.age > ExtTimeout
                          /\ dev.age > WatchdogS
    BY <2>1, <2>2, DeviceAssumption, FieldBusAssumption DEF LongEnough, AtMost
  <2>4. CASE kind = "inverter"
    <3>1. dev.output \in Nat /\ dev.limit \in Nat
      BY <2>1, <2>4, DeviceFields
    <3>2. 1000 - RampStep * span <= 0
      BY <2>1, DeviceAssumption, RampedDown DEF LongEnough
    <3>3. RampStep * span \in Int
      BY <2>1, DeviceAssumption
    <3>4. dev.output <= dev.limit \/ dev.output <= 1000 - RampStep * span
      BY <2>4 DEF FInv, FallbackInv
    <3> DEFINE c == RampStep * span
    <3>5. c \in Int /\ 1000 - c <= 0 /\ (dev.output <= dev.limit \/ dev.output <= 1000 - c)
      BY <3>2, <3>3, <3>4
    <3> HIDE DEF c
    <3>6. dev.output <= dev.limit
      BY <3>1, <3>5
    <3>7. dev.enabled = TRUE
      BY <2>4 DEF FInv, FallbackInv
    <3> QED
      BY <2>4, <3>6, <3>7
  <2>5. CASE kind = "charger"
    BY <2>3, <2>5 DEF FInv, FallbackInv
  <2>6. CASE kind = "heat_pump"
    BY <2>1, <2>2, <2>3, <2>6, DeviceAssumption DEF External
  <2>7. CASE kind = "battery"
    BY <2>3, <2>7 DEF FInv, FallbackInv
  <2>8. CASE kind = "meter"
    BY <2>8
  <2> QED
    BY <2>1, <2>4, <2>5, <2>6, <2>7, <2>8, KindsAre
<1> QED
  BY <1>1, FieldInvariant, PTL
-----------------------------------------------------------------------------
\* The second argument: how long ago the last fault was bounds where a task
\* in reach of its device can be, and a task that has got through a whole
\* cycle since has set the device.  Each part is about one thing the cycle
\* leaves behind.

\* A connection that a fault has cost is back, at the latest.
Back == ReconnectDelay + 1
InSession == pc \in {"tick", "read", "write"}

Counted ==
  /\ calm \in Nat /\ due \in BOOLEAN
  /\ written \in {None} \cup [pct : Nat, at : 0 .. Refresh + 1]

\* Where the task can be.
TimingInv ==
  /\ ~up => pc = "sleep"
  /\ pc \in Awaits \ {"connect"} => wait <= 1
  /\ pc \in {"discover", "arm"} => due = TRUE
  /\ InReach =>
       /\ pc = "sleep" => span <= wait + 1
       /\ pc \in {"connect", "discover", "arm"} => span <= Back
       /\ pc \in {"read", "write"} /\ due => span = 0
       /\ ~link /\ pc \notin {"sleep", "connect"} => span <= 1
       /\ ~link /\ pc = "tick" /\ ~due => span = 0

\* How old the reading is.
BoardInv ==
  /\ slot # None => pc \notin {"sleep", "connect"}
  /\ pc = "tick" /\ ~due => slot = 0
  /\ pc = "write" /\ ~due /\ kind # "inverter" => slot = 0
  /\ InReach /\ InSession => span <= Back \/ slot \in {0, 1}
  /\ up /\ ~net /\ slot # None =>
       span <= IF pc = "tick" THEN IF due THEN 1 ELSE 0 ELSE wait + 1

\* A write that is still of its period writes the setpoint that stands.
BorrowInv == pc = "write" /\ ~due => calm = 0 \/ target = setpoint

\* What a charger, a heat pump or a battery holds when its session is there.
Holds(d, sp) ==
  /\ kind = "charger" => d.limit = AtMost(RoundTenths(sp), Rated[kind])
  /\ kind = "heat_pump" => /\ d.limit = AtMost(sp.limit \div 10, Rated[kind])
                           /\ d.ext = Steering(sp)
  /\ kind = "battery" => d.setpoint = RoundTenths(sp)

SettingInv ==
  kind \in {"charger", "heat_pump", "battery"} /\ link =>
    /\ pc = "tick" /\ ~due => dev.age = 0 /\ (calm = 0 \/ Holds(dev, setpoint))
    /\ kind = "heat_pump" /\ pc = "write" /\ step = 2 =>
         dev.limit = AtMost(target.limit \div 10, Rated[kind])
    /\ InReach /\ InSession =>
         span <= Back \/ (dev.age <= 1 /\ (calm <= 1 \/ Holds(dev, setpoint)))

\* What an inverter holds: it is not written every period, and keeps its
\* connection when it forgets.
Sent(n) == dev.limit = RoundTenths(n)
Kept ==
  /\ dev.enabled = TRUE
  /\ Sent(written.pct) \/ (pc = "write" /\ step = 2 /\ Sent(target))
  /\ calm <= written.at \/ written.pct = setpoint
InverterInv ==
  kind = "inverter" =>
    /\ pc \in {"discover", "arm"} => written = None
    /\ InSession => dev.revert = 0
    /\ pc = "tick" /\ ~due => written # None /\ written.at <= Refresh
    /\ InReach /\ InSession /\ written = None => span <= Back
    /\ InReach /\ pc = "write" /\ step = 2 => span = 0 \/ Sent(target)
    /\ InReach /\ InSession /\ written # None => span <= written.at \/ Kept

CycleInv ==
  Counted /\ TimingInv /\ BoardInv /\ BorrowInv /\ SettingInv /\ InverterInv

\* The periods after which the last of it is over.
LongSettled == Settle > Back /\ Settle > Refresh + 1 /\ ExtTimeout >= 1

LEMMA Numbers ==
  ASSUME FInv, Counted
  PROVE  /\ span \in Nat /\ wait \in 0 .. ReconnectDelay /\ calm \in Nat
         /\ net \in BOOLEAN /\ up \in BOOLEAN /\ link \in BOOLEAN
         /\ due \in BOOLEAN /\ kind \in Kinds
         /\ Back \in Nat /\ Back >= 3 /\ Back = ReconnectDelay + 1
         /\ pc \in Awaits \cup {"tick", "sleep"}
BY SpansAre DEF FInv, Typed, FieldType, Counted, Back

LEMMA TimingStep ==
  ASSUME FInv, Counted, TimingInv, FNext
  PROVE  TimingInv'
<1> USE Numbers DEF TimingInv, InReach, Awaits
<1>1. CASE Connected
  BY <1>1 DEF Connected, Answered, Keep, Arm, Goto
<1>2. CASE Discovered
  BY <1>2 DEF Discovered, Answered, Keep, Arm, Goto
<1>3. CASE Armed
  BY <1>3 DEF Armed, Answered, Keep, Arm, Goto
<1>4. CASE Ticked
  BY <1>4 DEF Ticked, Keep, Goto
<1>5. CASE Read
  BY <1>5 DEF Read, Answered, Keep, Goto
<1>6. CASE Wrote
  BY <1>6 DEF Wrote, Answered, Keep, Write, Goto
<1>7. CASE Fails
  BY <1>7 DEF Fails, Lost, Keep, Goto
<1>8. CASE Awake
  BY <1>8 DEF Awake, Keep, Goto
<1>9. CASE Publish
  BY <1>9 DEF Publish, task
<1>10. CASE NetworkFails \/ NetworkBack
  BY <1>10 DEF NetworkFails, NetworkBack, task
<1>11. CASE AnswerLost
  BY <1>11 DEF AnswerLost, Answered, Lost, Goto
<1>12. CASE PowerCycle
  BY <1>12 DEF PowerCycle, task
<1>13. CASE Crash
  BY <1>13 DEF Crash, Lost, Goto
<1>14. CASE Restart
  BY <1>14 DEF Restart, Goto
<1>15. CASE Clock
  <2>1. span' \in Nat /\ (span' = span \/ span' = span + 1)
    BY <1>15, Spans, SpansAre DEF Clock, FInv, Typed
  <2> QED
    BY <1>15, <2>1 DEF Clock, Blocked
<1> QED
  BY <1>1, <1>2, <1>3, <1>4, <1>5, <1>6, <1>7, <1>8, <1>9, <1>10, <1>11, <1>12,
     <1>13, <1>14, <1>15 DEF FNext
LEMMA CountedStep ==
  ASSUME FInv, Counted, FNext
  PROVE  Counted'
<1>1. /\ Settle \in Nat /\ Refresh \in Nat /\ None \notin Nat
      /\ None \notin [pct : Nat, at : Nat]
  BY FieldBusAssumption, DeviceAssumption, SetpointAssumption
<1>2. calm' \in Nat
  <2>1. CASE Clock
    <3>1. calm' = Older(calm, Settle)
      BY <2>1 DEF Clock
    <3> QED
      BY <1>1, <3>1 DEF Counted, Older, AtMost
  <2>2. CASE Publish \/ Restart
    BY <2>2 DEF Publish, Restart
  <2>3. CASE ~(Clock \/ Publish \/ Restart)
    BY <2>3 DEF Counted, FNext, Connected, Discovered, Armed, Ticked, Read, Wrote,
                Fails, Awake, NetworkFails, NetworkBack, AnswerLost, PowerCycle,
                Crash, Keep
  <2> QED
    BY <2>1, <2>2, <2>3
<1>3. due' \in BOOLEAN
  BY DEF Counted, FNext, Connected, Discovered, Armed, Ticked, Read, Wrote, Fails,
         Awake, Publish, NetworkFails, NetworkBack, AnswerLost, PowerCycle, Crash,
         Restart, Clock, Keep, task
<1>4. written' \in {None} \cup [pct : Nat, at : 0 .. Refresh + 1]
  <2>1. CASE Clock
    <3>1. CASE written = None
      BY <2>1, <3>1 DEF Clock
    <3>2. CASE written # None
      <4>1. written \in [pct : Nat, at : 0 .. Refresh + 1]
        BY <3>2 DEF Counted
      <4>2. Older(written.at, Refresh + 1) \in 0 .. Refresh + 1
        BY <1>1, <4>1 DEF Older, AtMost
      <4> DEFINE a == Older(written.at, Refresh + 1)
      <4>3. written' = [written EXCEPT !.at = a]
        BY <2>1, <3>2 DEF Clock
      <4> HIDE DEF a
      <4> QED
        BY <4>1, <4>2, <4>3 DEF a
    <3> QED
      BY <3>1, <3>2
  <2>2. CASE Wrote /\ written' # written
    <3>1. kind = "inverter" /\ written' = [pct |-> target, at |-> 0]
      BY <2>2 DEF Wrote
    <3>2. target \in Nat
      BY <2>2, <3>1 DEF FInv, Typed, FieldType, SetpointsOf, Wrote
    <3> QED
      BY <1>1, <3>1, <3>2
  <2>3. CASE Connected \/ Crash
    BY <2>3 DEF Connected, Crash
  <2>4. CASE ~(Clock \/ Connected \/ Crash) /\ (Wrote => written' = written)
    BY <2>4 DEF Counted, FNext, Discovered, Armed, Ticked, Read,
                Fails, Awake, Publish, NetworkFails, NetworkBack, AnswerLost,
                PowerCycle, Restart, Keep, task
  <2> QED
    BY <2>1, <2>2, <2>3, <2>4
<1> QED
  BY <1>2, <1>3, <1>4 DEF Counted

LEMMA BorrowStep ==
  ASSUME FInv, Counted, TimingInv, BorrowInv, FNext
  PROVE  BorrowInv'
<1> USE Numbers DEF BorrowInv, Awaits
<1>1. CASE Connected \/ Discovered \/ Armed
  BY <1>1 DEF Connected, Discovered, Armed, Arm, Goto
<1>2. CASE Ticked \/ Fails \/ Awake \/ Crash \/ Restart \/ AnswerLost
  BY <1>2 DEF Ticked, Fails, Awake, Crash, Restart, AnswerLost, Lost, Goto
<1>3. CASE Read
  BY <1>3 DEF Read, Keep, Goto
<1>4. CASE Wrote
  BY <1>4 DEF Wrote, Write, Keep, Goto
<1>5. CASE Publish
  BY <1>5 DEF Publish, task
<1>6. CASE NetworkFails \/ NetworkBack \/ PowerCycle
  BY <1>6 DEF NetworkFails, NetworkBack, PowerCycle, task
<1>7. CASE Clock
  BY <1>7 DEF Clock, Blocked, TimingInv
<1> QED
  BY <1>1, <1>2, <1>3, <1>4, <1>5, <1>6, <1>7 DEF FNext

LEMMA BoardStep ==
  ASSUME FInv, Counted, TimingInv, BoardInv, FNext
  PROVE  BoardInv'
<1> USE Numbers DEF BoardInv, InReach, InSession, Awaits
<1>0. slot \in Slots /\ None \notin Int /\ Stale \in Nat /\ Stale >= 2
  BY FieldBusAssumption, DeviceAssumption DEF FInv, Typed, FieldType
<1>1. CASE Connected
  BY <1>0, <1>1 DEF Connected, Answered, Keep, Arm, Goto, TimingInv
<1>2. CASE Discovered
  BY <1>0, <1>2 DEF Discovered, Answered, Keep, Arm, Goto, TimingInv
<1>3. CASE Armed
  BY <1>0, <1>3 DEF Armed, Answered, Keep, Arm, Goto, TimingInv
<1>4. CASE Ticked
  BY <1>0, <1>4 DEF Ticked, Keep, Goto
<1>5. CASE Read
  BY <1>0, <1>5 DEF Read, Answered, Keep, Goto
<1>6. CASE Wrote
  <2>1. step \in Nat /\ step \in 1 .. Len(Writes(target)) /\ kind \in Kinds
    BY <1>6 DEF Wrote, FInv, Typed, FieldType
  <2>2. Len(Writes(target)) \in 0 .. 2
    BY <2>1, LengthsAre
  <2>3. step + 1 > Len(Writes(target)) => step = Len(Writes(target))
    BY <2>1, <2>2
  <2>4. /\ kind' = kind /\ net' = net /\ up' = up /\ span' = span
        /\ link' = link /\ due' = due /\ net = TRUE /\ pc = "write"
        /\ slot' \in {slot, 0} /\ pc' \in {"tick", "write"}
        /\ kind # "inverter" => slot' = slot
    BY <1>6 DEF Wrote, Answered, Keep, Write, Goto
  <2>5. pc' = "tick" /\ kind = "inverter" => slot' = 0
    BY <1>6, <2>3 DEF Wrote, Write, Goto
  <2> QED
    BY <1>0, <2>4, <2>5
<1>7. CASE Fails \/ Crash \/ AnswerLost
  BY <1>0, <1>7 DEF Fails, Crash, AnswerLost, Lost, Keep, Goto
<1>8. CASE Awake
  BY <1>0, <1>8 DEF Awake, Keep, Goto
<1>9. CASE Publish
  BY <1>0, <1>9 DEF Publish, task
<1>10. CASE NetworkFails \/ NetworkBack
  BY <1>0, <1>10 DEF NetworkFails, NetworkBack, task
<1>11. CASE PowerCycle
  BY <1>0, <1>11 DEF PowerCycle, task
<1>12. CASE Restart
  BY <1>0, <1>12 DEF Restart, Goto, TimingInv
<1>13. CASE Clock
  <2>1. span' \in Nat /\ (span' = span \/ span' = span + 1)
    BY <1>13, Spans, SpansAre DEF Clock, FInv, Typed
  <2>2. slot = 0 => slot' = 1
    BY <1>0, <1>13 DEF Clock, Older, AtMost
  <2>3. slot = None => slot' = None
    BY <1>0, <1>13 DEF Clock, Older
  <2> QED
    BY <1>0, <1>13, <2>1, <2>2, <2>3 DEF Clock, Blocked, TimingInv
<1> QED
  BY <1>1, <1>2, <1>3, <1>4, <1>5, <1>6, <1>7, <1>8, <1>9, <1>10, <1>11, <1>12,
     <1>13 DEF FNext
\* A write completes what a charger, a heat pump or a battery is to hold.
LEMMA WriteHolds ==
  ASSUME FInv, Counted, TimingInv, BorrowInv, SettingInv, Wrote,
         kind \in {"charger", "heat_pump", "battery"}
  PROVE  SettingInv'
<1>1. /\ step \in Nat /\ step \in 1 .. Len(Writes(target)) /\ kind \in Kinds
      /\ target \in SetpointsOf(kind) /\ dev \in Devices(kind)
  BY DEF Wrote, FInv, Typed, FieldType
<1>2. SetTo(target, dev, dev', step)
  <2>1. dev' = Written(kind, dev, Writes(target)[step][1], Writes(target)[step][2])
    BY DEF Wrote
  <2> QED
    BY <1>1, <2>1, SetWrites
<1>3. /\ kind' = kind /\ net' = net /\ up' = up /\ span' = span /\ calm' = calm
      /\ link' = link /\ due' = due /\ setpoint' = setpoint /\ link = TRUE
      /\ net = TRUE /\ up = TRUE /\ pc = "write"
  BY Numbers DEF Wrote, Answered, Keep
<1>4. \/ step = Len(Writes(target)) /\ pc' = "tick"
      \/ step = 1 /\ pc' = "write" /\ step' = 2 /\ target' = target
  <2>1. Len(Writes(target)) \in 0 .. 2
    BY <1>1, LengthsAre
  <2>2. CASE step + 1 > Len(Writes(target))
    BY <1>1, <2>1, <2>2 DEF Wrote, Write, Goto
  <2>3. CASE ~(step + 1 > Len(Writes(target)))
    <3>1. step = 1
      <4> DEFINE n == Len(Writes(target))
      <4>1. n \in 0 .. 2 /\ step \in Nat /\ step \in 1 .. n /\ ~(step + 1 > n)
        BY <1>1, <2>1, <2>3
      <4> HIDE DEF n
      <4> QED
        BY <4>1
    <3>2. pc' = "write" /\ step' = 2 /\ target' = target
      BY <2>3, <3>1 DEF Wrote, Write, Goto
    <3> QED
      BY <3>1, <3>2
  <2> QED
    BY <2>2, <2>3
<1>5. due => span <= Back
  BY <1>3, Numbers DEF TimingInv, InReach
<1>6. ~due => calm = 0 \/ target = setpoint
  BY <1>3 DEF BorrowInv
<1>7. span <= Back \/ (dev.age <= 1 /\ (calm <= 1 \/ Holds(dev, setpoint)))
  BY <1>3 DEF SettingInv, InReach, InSession
<1>8. CASE step = Len(Writes(target)) /\ pc' = "tick"
  <2>1. dev'.age = 0 /\ Holds(dev', target)
    <3>1. CASE kind = "charger"
      BY <1>2, <3>1 DEF SetTo, Holds
    <3>2. CASE kind = "battery"
      BY <1>2, <3>2 DEF SetTo, Holds
    <3>3. CASE kind = "heat_pump"
      <4>1. step = 2
        <5>1. Writes(target) = <<<<"POWER_LIMIT", target.limit \div 10>>,
                                 <<"EXT_POWER", IF target.ext = None THEN None
                                                ELSE RoundTenths(target.ext)>>>>
          BY <3>3, WritesAre
        <5> QED
          BY <1>8, <5>1
      <4>2. dev.limit = AtMost(target.limit \div 10, Rated[kind])
        BY <1>3, <3>3, <4>1 DEF SettingInv
      <4> QED
        BY <1>2, <3>3, <4>1, <4>2 DEF SetTo, Holds
    <3> QED
      BY <3>1, <3>2, <3>3
  <2>2. ~due => calm = 0 \/ Holds(dev', setpoint)
    BY <1>6, <2>1
  <2>3. span <= Back \/ calm <= 1 \/ Holds(dev', setpoint)
    BY <1>5, <2>2, Numbers
  <2> QED
    BY <1>3, <1>8, <2>1, <2>2, <2>3 DEF SettingInv, Holds, InReach, Back
<1>9. CASE step = 1 /\ pc' = "write" /\ step' = 2 /\ target' = target
  <2>1. kind = "heat_pump"
    <3>1. Len(Writes(target)) # 1
      <4>1. ~(step + 1 > Len(Writes(target)))
        BY <1>9 DEF Wrote, Write, Goto
      <4> QED
        BY <1>9, <4>1
    <3>2. kind # "charger" /\ kind # "battery"
      BY <1>1, <3>1, LengthsAre
    <3> QED
      BY <3>2
  <2>2. /\ dev'.limit = AtMost(target.limit \div 10, Rated[kind])
        /\ dev'.ext = dev.ext /\ dev'.age = dev.age
    BY <1>2, <1>9, <2>1 DEF SetTo
  <2>3. target = setpoint /\ Holds(dev, setpoint) => Holds(dev', setpoint)
    BY <2>1, <2>2 DEF Holds
  <2>4. span <= Back \/ (dev'.age <= 1 /\ (calm <= 1 \/ Holds(dev', setpoint)))
    BY <1>5, <1>6, <1>7, <2>2, <2>3, Numbers
  <2> QED
    BY <1>3, <1>9, <2>1, <2>2, <2>4 DEF SettingInv, Holds, InReach, Back
<1> QED
  BY <1>4, <1>8, <1>9
\* A period ages what the device holds by one.
LEMMA PeriodHolds ==
  ASSUME FInv, Counted, TimingInv, SettingInv, Clock,
         kind \in {"charger", "heat_pump", "battery"}
  PROVE  SettingInv'
<1>1. /\ kind \in Kinds /\ dev \in Devices(kind) /\ dev.age \in Nat
      /\ kind' = kind /\ net' = net /\ up' = up /\ link' = link /\ pc' = pc
      /\ step' = step /\ setpoint' = setpoint /\ target' = target
  BY DeviceFields DEF FInv, Typed, FieldType, Clock
<1>2. SteppedTo(dev, dev')
  BY <1>1, DeviceSteps DEF Clock
<1>3. pc' = "tick" => due' = TRUE
  BY <1>1, Numbers DEF Clock, TimingInv
<1>4. pc = "tick" => ~due
  BY Numbers DEF Clock, Blocked, TimingInv, Awaits
<1>5. InReach => pc \notin {"read", "write"}
  BY DEF InReach, Clock, Blocked, Awaits
<1>6. kind = "heat_pump" => dev'.limit = dev.limit
  BY <1>2 DEF SteppedTo
<1>7. dev.age = 0 => dev'.age <= 1
  <2>1. dev'.age = AtMost(dev.age + 1, AgeMax)
    BY <1>2 DEF SteppedTo
  <2> QED
    BY <1>1, <2>1, DeviceAssumption DEF AtMost
<1>8. calm = 0 => calm' <= 1
  BY FieldBusAssumption, DeviceAssumption DEF Clock, Older, AtMost
<1>9. Holds(dev, setpoint) => Holds(dev', setpoint)
  BY <1>2 DEF Holds, SteppedTo
<1>10. link /\ InReach /\ InSession =>
         dev'.age <= 1 /\ (calm' <= 1 \/ Holds(dev', setpoint))
  BY <1>4, <1>5, <1>7, <1>8, <1>9 DEF SettingInv, InSession
<1>11. kind = "heat_pump" /\ link /\ pc = "write" /\ step = 2 =>
         dev'.limit = AtMost(target.limit \div 10, Rated[kind])
  BY <1>6 DEF SettingInv
<1> QED
  BY <1>1, <1>3, <1>10, <1>11 DEF SettingInv, Holds, InReach, InSession

LEMMA SettingCycle ==
  ASSUME FInv, Counted, TimingInv, BorrowInv, SettingInv, FNext
  PROVE  SettingInv'
<1> SUFFICES ASSUME kind \in {"charger", "heat_pump", "battery"}
             PROVE  SettingInv'
  BY DEF SettingInv, FNext, Connected, Discovered, Armed, Ticked, Read, Wrote, Fails,
         Awake, Publish, NetworkFails, NetworkBack, AnswerLost, PowerCycle, Crash,
         Restart, Clock, Keep
<1>1. CASE Connected \/ Discovered \/ Armed
  <2>1. /\ due' = TRUE /\ pc' \in {"discover", "arm", "tick"}
        /\ InReach /\ span' = span
    BY <1>1, Numbers
       DEF Connected, Discovered, Armed, Arm, Goto, Keep, Answered, InReach, TimingInv
  <2>2. span <= Back
    BY <1>1, <2>1, Numbers DEF Connected, Discovered, Armed, TimingInv, InReach
  <2> QED
    BY <2>1, <2>2 DEF SettingInv, InReach, InSession, Back
<1>2. CASE Ticked
  BY <1>2 DEF Ticked, Keep, Goto, SettingInv, InReach, InSession, Holds, Back
<1>3. CASE Read
  <2>1. pc' = "write" /\ step' = 1
    <3>1. Writes(setpoint) # <<>>
      <4>1. kind = "charger" => Writes(setpoint) # <<>>
        BY WritesAre
      <4>2. kind = "heat_pump" => Writes(setpoint) # <<>>
        BY WritesAre
      <4>3. kind = "battery" => Writes(setpoint) # <<>>
        BY WritesAre
      <4> QED
        BY <4>1, <4>2, <4>3
    <3>2. Due(setpoint)
      BY DEF Due
    <3> QED
      BY <1>3, <3>1, <3>2 DEF Read, Goto
  <2> QED
    BY <1>3, <2>1 DEF Read, Keep, SettingInv, InReach, InSession, Holds, Back
<1>4. CASE Wrote
  BY <1>4, WriteHolds
<1>5. CASE Fails \/ Awake \/ AnswerLost \/ Crash \/ Restart
  BY <1>5 DEF Fails, Awake, AnswerLost, Crash, Restart, Lost, Goto, SettingInv,
              InSession
<1>6. CASE Publish
  BY <1>6 DEF Publish, task, SettingInv, InReach, InSession, Holds, Back
<1>7. CASE NetworkFails
  BY <1>7 DEF NetworkFails, task, SettingInv, InReach, InSession, Holds, Back
<1>8. CASE NetworkBack
  <2>1. InReach' => span' <= Back
    BY <1>8, Numbers DEF NetworkBack, InReach, Back
  <2> QED
    BY <1>8, <2>1 DEF NetworkBack, task, SettingInv, InReach, InSession, Holds, Back
<1>9. CASE PowerCycle
  BY <1>9 DEF PowerCycle, SettingInv
<1>10. CASE Clock
  BY <1>10, PeriodHolds
<1> QED
  BY <1>1, <1>2, <1>3, <1>4, <1>5, <1>6, <1>7, <1>8, <1>9, <1>10 DEF FNext

\* Which write of an inverter's two is next.
LEMMA InverterWrites ==
  ASSUME FInv, kind = "inverter", Wrote
  PROVE  /\ SetTo(target, dev, dev', step) /\ target \in Nat
         /\ \/ step = 2 /\ pc' = "tick" /\ written' = [pct |-> target, at |-> 0]
            \/ /\ step = 1 /\ pc' = "write" /\ step' = 2 /\ target' = target
               /\ written' = written
<1>1. /\ step \in Nat /\ step \in 1 .. Len(Writes(target)) /\ kind \in Kinds
      /\ target \in SetpointsOf(kind) /\ dev \in Devices(kind)
  BY DEF Wrote, FInv, Typed, FieldType
<1>2. SetTo(target, dev, dev', step)
  <2>1. dev' = Written(kind, dev, Writes(target)[step][1], Writes(target)[step][2])
    BY DEF Wrote
  <2> QED
    BY <1>1, <2>1, SetWrites
<1>3. Len(Writes(target)) = 2 /\ step \in 1 .. 2
  BY <1>1, LengthsAre
<1>4. CASE step = 1
  BY <1>2, <1>1, <1>3, <1>4 DEF Wrote, Write, Goto, SetpointsOf
<1>5. CASE step = 2
  BY <1>2, <1>1, <1>3, <1>5 DEF Wrote, Write, Goto, SetpointsOf
<1> QED
  BY <1>3, <1>4, <1>5

LEMMA InverterCycle ==
  ASSUME FInv, Counted, TimingInv, BorrowInv, InverterInv, FNext
  PROVE  InverterInv'
<1> SUFFICES ASSUME kind = "inverter"
             PROVE  InverterInv'
  BY DEF InverterInv, FNext, Connected, Discovered, Armed, Ticked, Read, Wrote, Fails,
         Awake, Publish, NetworkFails, NetworkBack, AnswerLost, PowerCycle, Crash,
         Restart, Clock, Keep
<1>0. /\ Refresh \in Nat /\ None \notin [pct : Nat, at : Nat]
      /\ written # None => written.at \in Nat /\ written.at <= Refresh + 1
  BY FieldBusAssumption, SetpointAssumption DEF Counted
<1>1. CASE Connected
  BY <1>1 DEF Connected, Goto, InverterInv, InSession, InReach
<1>2. CASE Discovered
  <2>1. pc' = "arm" /\ written' = written /\ written = None
    BY <1>2, LengthsAre DEF Discovered, Arm, Goto, InverterInv, FInv, Typed
  <2> QED
    BY <2>1 DEF InverterInv, InSession, InReach
<1>3. CASE Armed
  <2>1. /\ step \in 1 .. Len(Arming) /\ kind \in Kinds /\ dev \in Devices(kind)
        /\ step \in Nat
    BY <1>3 DEF Armed, FInv, Typed, FieldType
  <2>2. step = 1 /\ Len(Arming) = 1
    BY <2>1, LengthsAre
  <2>3. dev'.revert = 0
    <3>1. ArmedTo(dev, dev', step)
      BY <1>3, <2>1, ArmWrites DEF Armed
    <3> QED
      BY <3>1 DEF ArmedTo
  <2>4. pc' = "tick" /\ written' = None /\ due' = TRUE /\ kind' = kind
    BY <1>3, <2>2, Numbers DEF Armed, Arm, Goto, InverterInv, Keep, TimingInv
  <2>5. span' <= Back
    BY <1>3, Numbers DEF Armed, Answered, Keep, TimingInv, InReach
  <2> QED
    BY <2>3, <2>4, <2>5 DEF InverterInv, InSession, InReach, Back
<1>4. CASE Ticked
  BY <1>4 DEF Ticked, Keep, Goto, InverterInv, Kept, Sent, InSession, InReach, Back
<1>5. CASE Read
  <2>1. \/ pc' = "write" /\ step' = 1
        \/ pc' = "tick" /\ written # None /\ written.at <= Refresh
    <3>1. Writes(setpoint) # <<>>
      BY WritesAre
    <3>2. ~Due(setpoint) => written # None /\ ~(written.at > Refresh)
      BY DEF Due
    <3> QED
      BY <1>0, <1>5, <3>1, <3>2 DEF Read, Goto
  <2> QED
    BY <1>5, <2>1
       DEF Read, Keep, InverterInv, Kept, Sent, InSession, InReach, Back
<1>6. CASE Wrote
  <2>1. /\ kind' = kind /\ net' = net /\ up' = up /\ span' = span /\ calm' = calm
        /\ due' = due /\ setpoint' = setpoint /\ net = TRUE /\ up = TRUE
        /\ pc = "write"
    BY <1>6, Numbers DEF Wrote, Answered, Keep
  <2>2. dev'.revert = 0
    BY <1>6, <2>1, InverterWrites DEF InverterInv, InSession, SetTo
  <2>3. CASE step = 2 /\ pc' = "tick" /\ written' = [pct |-> target, at |-> 0]
    <3>1. written' # None /\ written'.at = 0 /\ written'.pct = target
      BY <1>0, <1>6, <2>3, InverterWrites
    <3>2. dev'.enabled = TRUE /\ dev'.limit = dev.limit
      BY <1>6, <2>3, InverterWrites DEF SetTo
    <3>3. span = 0 \/ dev.limit = RoundTenths(target)
      BY <2>1, <2>3 DEF InverterInv, InReach, Sent
    <3>4. span = 0 \/ calm = 0 \/ target = setpoint
      BY <2>1, Numbers DEF TimingInv, BorrowInv, InReach
    <3>5. span' <= 0 \/ Kept'
      BY <2>1, <3>1, <3>2, <3>3, <3>4, Numbers DEF Kept, Sent
    <3> QED
      BY <1>0, <2>1, <2>2, <2>3, <3>1, <3>5 DEF InverterInv, InSession, InReach
  <2>4. CASE /\ step = 1 /\ pc' = "write" /\ step' = 2 /\ target' = target
             /\ written' = written
    <3>1. dev'.limit = RoundTenths(target)
          /\ (dev'.enabled = dev.enabled \/ dev'.enabled = TRUE)
      BY <1>6, <2>4, InverterWrites DEF SetTo
    <3>2. Kept => Kept'
      BY <2>1, <2>4, <3>1 DEF Kept, Sent
    <3> QED
      BY <2>1, <2>2, <2>4, <3>1, <3>2 DEF InverterInv, InSession, InReach, Sent, Back
  <2> QED
    BY <1>6, <2>3, <2>4, InverterWrites
<1>7. CASE Fails \/ AnswerLost \/ Crash \/ Awake \/ Restart
  BY <1>7 DEF Fails, AnswerLost, Crash, Awake, Restart, Lost, Goto, InverterInv,
              InSession
<1>8. CASE Publish
  BY <1>0, <1>8 DEF Publish, task, InverterInv, Kept, Sent, InSession, InReach, Back
<1>9. CASE NetworkFails
  BY <1>9 DEF NetworkFails, task, InverterInv, InSession, InReach, Back
<1>10. CASE NetworkBack
  <2>1. InReach' => span' = 0 /\ span' <= Back
    BY <1>10, Numbers DEF NetworkBack, InReach
  <2> QED
    BY <1>0, <1>10, <2>1
       DEF NetworkBack, task, InverterInv, InSession, InReach, Back
<1>11. CASE PowerCycle
  <2>1. dev'.revert = dev.revert
    <3>1. PoweredUp(kind) \in InverterSims
      BY PoweredUpType, DevicesAre DEF FInv, Typed
    <3> QED
      BY <1>11, <3>1 DEF PowerCycle, InverterSims
  <2>2. InReach' = InReach /\ (InReach => span' = 0 /\ span' <= Back)
    BY <1>11, Numbers DEF PowerCycle, InReach
  <2> QED
    BY <1>0, <1>11, <2>1, <2>2 DEF PowerCycle, task, InverterInv, InSession, Back
<1>12. CASE Clock
  <2>1. /\ kind' = kind /\ net' = net /\ up' = up /\ pc' = pc
        /\ step' = step /\ setpoint' = setpoint /\ target' = target
    BY <1>12 DEF Clock
  <2>2. SteppedTo(dev, dev')
    BY <1>12, DeviceSteps DEF Clock, FInv, Typed, FieldType
  <2>3. dev'.revert = dev.revert /\ dev'.limit = dev.limit
        /\ (dev.revert = 0 /\ dev.enabled = TRUE => dev'.enabled = TRUE)
    BY <2>2 DEF SteppedTo
  <2>4. pc' = "tick" => due' = TRUE
    BY <1>12, <2>1, Numbers DEF Clock, TimingInv
  <2>5. InReach /\ InSession => pc = "tick" /\ ~due
    BY <1>12, Numbers DEF InReach, InSession, Clock, Blocked, Awaits, TimingInv
  <2>6. written = None => written' = None
    BY <1>12 DEF Clock
  <2>7. InReach /\ InSession =>
          /\ written # None /\ written' # None /\ written'.pct = written.pct
          /\ written'.at = written.at + 1
    <3> SUFFICES ASSUME InReach, InSession
                 PROVE  /\ written # None /\ written' # None
                        /\ written'.pct = written.pct
                        /\ written'.at = written.at + 1
      OBVIOUS
    <3>1. written # None /\ written.at <= Refresh
      BY <2>5 DEF InverterInv
    <3>2. written \in [pct : Nat, at : 0 .. Refresh + 1]
      BY <3>1 DEF Counted
    <3>3. Older(written.at, Refresh + 1) = written.at + 1
      BY <1>0, <3>1, <3>2, DeviceAssumption DEF Older, AtMost
    <3>4. written' = [written EXCEPT !.at = written.at + 1]
      BY <1>12, <3>1, <3>3 DEF Clock
    <3> QED
      BY <1>0, <3>1, <3>2, <3>4
  <2>8. calm' \in Nat /\ calm' <= calm + 1 /\ span' \in Nat /\ span' <= span + 1
    <3>1. calm' <= calm + 1 /\ calm' \in Nat
      BY <1>12, FieldBusAssumption, DeviceAssumption
         DEF Clock, Counted, Older, AtMost
    <3>2. span' \in Nat /\ (span' = span \/ span' = span + 1)
      BY <1>12, Spans, SpansAre DEF Clock, FInv, Typed
    <3> QED
      BY <3>1, <3>2, Numbers
  <2>9. InReach /\ InSession => span' <= written'.at \/ Kept'
    <3> SUFFICES ASSUME InReach, InSession
                 PROVE  span' <= written'.at \/ Kept'
      OBVIOUS
    <3>1. span <= written.at \/ Kept
      BY <2>7 DEF InverterInv
    <3>2. CASE span <= written.at
      BY <1>0, <2>7, <2>8, <3>2, Numbers
    <3>3. CASE Kept
      <4>1. dev'.enabled = TRUE
        BY <2>3, <3>3 DEF Kept, InverterInv
      <4>2. Sent(written.pct)
        BY <2>5, <3>3 DEF Kept
      <4>3. calm' <= written'.at \/ written'.pct = setpoint'
        <5>1. calm <= written.at \/ written.pct = setpoint
          BY <3>3 DEF Kept
        <5> QED
          BY <1>0, <2>1, <2>7, <2>8, <5>1, Numbers
      <4> QED
        BY <2>3, <2>7, <4>1, <4>2, <4>3 DEF Kept, Sent
    <3> QED
      BY <3>1, <3>2, <3>3
  <2> QED
    BY <2>1, <2>3, <2>4, <2>5, <2>6, <2>7, <2>9
       DEF InverterInv, InSession, InReach, Back
<1> QED
  BY <1>1, <1>2, <1>3, <1>4, <1>5, <1>6, <1>7, <1>8, <1>9, <1>10, <1>11, <1>12
     DEF FNext
LEMMA CycleInitially ==
  ASSUME FInit
  PROVE  CycleInv
<1>1. Counted
  BY DEF FInit, Counted
<1>2. TimingInv /\ BoardInv /\ BorrowInv
  BY FInitially, SpansAre
     DEF FInit, TimingInv, BoardInv, BorrowInv, InReach, InSession, Awaits, Back
<1>3. SettingInv /\ InverterInv
  BY DEF FInit, SettingInv, InverterInv, InReach, InSession
<1> QED
  BY <1>1, <1>2, <1>3 DEF CycleInv

LEMMA CycleKeeps ==
  ASSUME FInv, CycleInv, [FNext]_fvars
  PROVE  CycleInv'
<1>1. CASE FNext
  BY <1>1, CountedStep, TimingStep, BoardStep, BorrowStep, SettingCycle,
     InverterCycle DEF CycleInv
<1>2. CASE UNCHANGED fvars
  <2>1. Counted' /\ TimingInv' /\ BoardInv' /\ BorrowInv'
    BY <1>2 DEF fvars, task, CycleInv, Counted, TimingInv, BoardInv, BorrowInv,
                InReach, InSession, Back
  <2>2. SettingInv'
    BY <1>2 DEF fvars, task, CycleInv, SettingInv, Holds, InReach, InSession, Back
  <2>3. InverterInv'
    BY <1>2 DEF fvars, task, CycleInv, InverterInv, Kept, Sent, InReach, InSession,
                Back
  <2> QED
    BY <2>1, <2>2, <2>3 DEF CycleInv
<1> QED
  BY <1>1, <1>2

LEMMA CycleInvariant == FieldSpec => [](FInv /\ CycleInv)
<1>1. FInit => FInv /\ CycleInv
  BY FInitially, CycleInitially
<1>2. FInv /\ CycleInv /\ [FNext]_fvars => (FInv /\ CycleInv)'
  BY FKeeps, CycleKeeps
<1> QED
  BY <1>1, <1>2, PTL DEF FieldSpec

\* The device of a task that a fault has long left alone is in a session, and
\* its connection stands.
LEMMA LongInSession ==
  ASSUME LongSettled, FInv, CycleInv, InReach, span >= Settle
  PROVE  InSession /\ link = TRUE /\ span > Back /\ span > Refresh + 1
<1>1. Settle \in Nat /\ Refresh \in Nat
  BY FieldBusAssumption
<1>2. span > Back /\ span > Refresh + 1 /\ span \in Nat
  BY <1>1, Numbers DEF LongSettled, CycleInv
<1>3. pc # "sleep"
  <2>1. pc = "sleep" => span <= wait + 1
    BY DEF CycleInv, TimingInv
  <2>2. wait \in Nat /\ wait + 1 <= Back /\ Back \in Nat
    BY SpansAre, Numbers DEF CycleInv
  <2> QED
    BY <1>2, <2>1, <2>2
<1>4. InSession
  BY <1>2, <1>3, Numbers DEF CycleInv, TimingInv, InSession, Awaits
<1>5. link = TRUE
  BY <1>2, <1>4, Numbers DEF CycleInv, TimingInv, InSession
<1> QED
  BY <1>2, <1>4, <1>5

\* A setpoint that stands for Settle periods is in force on a device that has
\* been in reach for as long, whatever was lost, rebooted or killed before: the
\* answer to a write, a limit written but not enabled, the inverter that forgot
\* it behind its data logger (field.rs: the write and refresh rules of the
\* sessions; sim.rs: SiteSim::write and step).
THEOREM SetpointReachesDeviceHolds ==
  ASSUME LongSettled
  PROVE  FieldSpec => []SetpointReachesDevice
<1>1. FInv /\ CycleInv => SetpointReachesDevice
  <2> SUFFICES ASSUME FInv, CycleInv, InReach, span >= Settle, calm >= Settle
               PROVE  Applied
    BY DEF SetpointReachesDevice
  <2>1. InSession /\ link = TRUE /\ span > Back /\ span > Refresh + 1
    BY LongInSession
  <2>2. /\ kind \in Kinds /\ dev \in Devices(kind) /\ dev.age \in Nat
        /\ Settle \in Nat /\ Refresh \in Nat /\ Settle > Refresh + 1
        /\ Settle >= 2 /\ ExtTimeout \in Nat
    BY DeviceFields, FieldBusAssumption, DeviceAssumption, Numbers
       DEF FInv, Typed, FieldType, LongSettled, CycleInv
  <2>3. kind \in {"charger", "heat_pump", "battery"} =>
          dev.age <= 1 /\ Holds(dev, setpoint)
    BY <2>1, <2>2, Numbers DEF CycleInv, SettingInv
  <2>4. CASE kind = "inverter"
    <3>1. written # None
      BY <2>1, <2>4, Numbers DEF CycleInv, InverterInv
    <3>2. written.at \in Nat /\ written.at <= Refresh + 1
      BY <2>2, <3>1 DEF CycleInv, Counted
    <3>3. Kept
      BY <2>1, <2>2, <2>4, <3>1, <3>2, Numbers DEF CycleInv, InverterInv
    <3>4. written.pct = setpoint /\ span # 0
      BY <2>1, <2>2, <3>2, <3>3, Numbers DEF Kept, CycleInv
    <3>5. CASE pc = "write" /\ step = 2 /\ Sent(target)
      <4>1. CASE due
        BY <2>1, <3>4, <3>5, <4>1 DEF CycleInv, TimingInv
      <4>2. CASE ~due
        BY <2>2, <2>4, <3>3, <3>5, <4>2, Numbers
           DEF CycleInv, BorrowInv, Kept, Sent, Applied
      <4> QED
        BY <4>1, <4>2
    <3>6. CASE Sent(written.pct)
      BY <2>4, <3>3, <3>4, <3>6 DEF Kept, Sent, Applied
    <3> QED
      BY <3>3, <3>5, <3>6 DEF Kept
  <2>5. CASE kind = "charger"
    <3>1. dev \in ChargerSims
      BY <2>2, <2>5, DevicesAre
    <3>2. ~InFailsafe(dev)
      BY <2>2, <2>3, <2>5, <3>1 DEF InFailsafe, ChargerSims
    <3> QED
      BY <2>3, <2>5, <3>2 DEF Applied, Holds
  <2>6. CASE kind = "heat_pump"
    <3>1. dev.age <= ExtTimeout
      BY <2>2, <2>3, <2>6 DEF LongSettled
    <3>2. dev.ext # None <=> setpoint.ext # None
      <4>1. setpoint.ext \in Nat \cup {None}
        BY <2>6 DEF FInv, Typed, SetpointsOf
      <4>2. setpoint.ext # None => Steering(setpoint) # None
        <5> SUFFICES ASSUME setpoint.ext # None
                     PROVE  Steering(setpoint) # None
          OBVIOUS
        <5>1. PICK n \in Nat : n = setpoint.ext
          BY <4>1
        <5>2. RoundTenths(n) \in Nat
          BY DEF RoundTenths
        <5>3. Steering(setpoint) = RoundTenths(n)
          BY <5>1 DEF Steering
        <5> QED
          BY <5>2, <5>3, DeviceAssumption
      <4> QED
        BY <2>3, <2>6, <4>2 DEF Holds, Steering
    <3> QED
      BY <2>3, <2>6, <3>1, <3>2 DEF Applied, Holds, External
  <2>7. CASE kind = "battery"
    <3>1. dev \in BatterySims
      BY <2>2, <2>7, DevicesAre
    <3>2. ~InWatchdog(dev)
      BY <2>2, <2>3, <2>7, <3>1 DEF InWatchdog, BatterySims
    <3> QED
      BY <2>3, <2>7, <3>2 DEF Applied, Holds
  <2>8. CASE kind = "meter"
    BY <2>8 DEF Applied
  <2> QED
    BY <2>2, <2>4, <2>5, <2>6, <2>7, <2>8, KindsAre
<1> QED
  BY <1>1, CycleInvariant, PTL

\* The board says of a device what is so: within Notice periods a device that
\* does not answer is offline, and a device that is back is online, with a
\* reading that never goes stale while it answers (field.rs: supervise,
\* on_lost, Slot::fresh).
THEOREM BoardIsTrueHolds ==
  ASSUME LongSettled, Notice > 2
  PROVE  FieldSpec => []BoardIsTrue
<1>1. FInv /\ CycleInv => BoardIsTrue
  <2> SUFFICES ASSUME FInv, CycleInv
               PROVE  BoardIsTrue
    OBVIOUS
  <2>1. slot \in Slots /\ None \notin Int /\ Stale \in Nat /\ Stale >= 2
        /\ Notice \in Nat
    BY FieldBusAssumption, DeviceAssumption DEF FInv, Typed, FieldType
  <2>2. OfflineIsNoticed
    <3> SUFFICES ASSUME up, ~net, span >= Notice, slot # None
                 PROVE  FALSE
      BY DEF OfflineIsNoticed, Fresh
    <3>1. pc \notin {"sleep", "connect"}
      BY DEF CycleInv, BoardInv
    <3>2. pc # "tick" => wait <= 1
      BY <3>1, Numbers DEF CycleInv, TimingInv, Awaits
    <3> QED
      BY <2>1, <3>2, Numbers DEF CycleInv, BoardInv
  <2>3. OnlineComesBack
    <3> SUFFICES ASSUME InReach, span >= Settle
                 PROVE  Fresh
      BY DEF OnlineComesBack
    <3>1. InSession /\ span > Back
      BY LongInSession
    <3>2. slot \in {0, 1}
      BY <3>1, Numbers DEF CycleInv, BoardInv
    <3> QED
      BY <2>1, <3>2 DEF Fresh
  <2> QED
    BY <2>2, <2>3 DEF BoardIsTrue, FInv, Typed
<1> QED
  BY <1>1, CycleInvariant, PTL
=============================================================================
