----------------------------- MODULE Registers -----------------------------
(***************************************************************************)
(* What the gateway and a device say to each other in holding registers:   *)
(* the SunSpec model chain and its discovery, scale factors and signs, the *)
(* register maps of chargers, heat pumps and batteries (sunspec.rs,        *)
(* maps.rs), the image a device presents and what it takes from a write    *)
(* (sim.rs), and what a session of the gateway makes of it (field.rs).     *)
(* When requests are sent, lost or repeated is module FieldBus's.          *)
(*                                                                         *)
(* The devices are those of sim.rs, and inverters and meters of others:    *)
(* other models around the ones needed, other scale factors, a chain that  *)
(* does not end.                                                           *)
(*                                                                         *)
(* A register is 0 .. 65535.  SunSpec powers are W; other quantities of a  *)
(* device, and the setpoints, are 0.01 of their unit (A, kW, %, degrees    *)
(* and kWh), so that what registers round to 0.1 can be seen.              *)
(***************************************************************************)
EXTENDS Integers, Sequences, FiniteSets, SequencesExt

CONSTANTS
  Absent,         \* Option::None
  Units,          \* devices as they are found
  Moves(_),       \* what a device does by itself
  Targets(_),     \* setpoints, by kind
  Configured      \* failsafe (0.01 A), failsafe_timeout, watchdog (s)

VARIABLES
  unit,     \* the device
  phase,    \* where the session is
  at,       \* the register its discovery has reached
  models,   \* the models found, in their order
  reading,  \* what it last stored of the device; Absent: nothing
  seen,     \* history: the device it read, and the setpoint it then sent
  why       \* why the last session ended

regvars == <<unit, phase, at, models, reading, seen, why>>

-----------------------------------------------------------------------------
\* Registers.

Signed(r) == IF r >= 32768 THEN r - 65536 ELSE r
ToWord(n) == n % 65536

\* `as u16` of a float, which saturates.
Saturated(n) == IF n < 0 THEN 0 ELSE IF n > 65535 THEN 65535 ELSE n

AsInt16(n) == IF n < -32768 THEN -32768 ELSE IF n > 32767 THEN 32767 ELSE n

\* f64::round of n/d: half away from zero.
Rounded(n, d) ==
  IF n >= 0 THEN ((2 * n) + d) \div (2 * d) ELSE -(((-2 * n) + d) \div (2 * d))

Tenths(n) == Rounded(n, 10)

\* u32_to_regs, regs_to_u32
TwoWords(n) == <<n \div 65536, n % 65536>>
\* Mutant: low word first.
Long32Swapped(r, i) == (65536 * r[i + 2]) + r[i + 1]
Long32(r, i) == (65536 * r[i + 1]) + r[i + 2]

\* scaled and its inverse, of hundredths; sf is -2 .. 2.
Power10 == <<1, 10, 100, 1000, 10000>>
Scaled(r, sf) == r * Power10[sf + 3]
\* Mutant: the scale factor of the sample device is taken for granted.
UnscaledSame(x, sf) == Rounded(x, 10)
Unscaled(x, sf) ==
  LET n == Rounded(x, Power10[sf + 3])
  IN  IF n < -32767 THEN -32767 ELSE IF n > 32767 THEN 32767 ELSE n

-----------------------------------------------------------------------------
\* Layouts.

BASE == 40000
MARKER == <<21365, 28243>>
END_ID == 65535
NI_INT16 == 32768

Common == [id |-> 1, len |-> 66, device_address |-> 64]
Inverter == [id |-> 103, len |-> 50, w |-> 12, w_sf |-> 13, hz |-> 14, hz_sf |-> 15,
             wh |-> 22, wh_sf |-> 24, st |-> 36]
Nameplate == [id |-> 120, len |-> 26, der_type |-> 0, w_rtg |-> 1, w_rtg_sf |-> 2]
Controls == [id |-> 123, len |-> 24, conn |-> 2, w_max_lim_pct |-> 3, rvrt_tms |-> 5,
             w_max_lim_ena |-> 7, w_max_lim_pct_sf |-> 21]
Meter == [id |-> 203, len |-> 105, hz |-> 14, hz_sf |-> 15, w |-> 16, w_sf |-> 20]
Available == [id |-> 64900, len |-> 2, w_avail |-> 0, w_avail_sf |-> 1]
SunSpecModels == {Common, Inverter, Nameplate, Controls, Meter, Available}

Evse == [status |-> 0, current_limit |-> 1, current |-> 2, power |-> 3,
         session_energy |-> 5, max_current |-> 7, failsafe_current |-> 8,
         failsafe_timeout |-> 9, heartbeat |-> 10, energy_request |-> 11,
         departure_min |-> 13, car_max_current |-> 14, len |-> 15]
NO_DEPARTURE == 65535

HeatPumpMap == [status |-> 0, power_limit |-> 1, power |-> 2, demand |-> 3, rated |-> 4,
                indoor |-> 5, outdoor |-> 6, setpoint |-> 7, ext_power |-> 8, len |-> 9]
EXT_NONE == 65535

BatteryMap == [status |-> 0, setpoint |-> 1, power |-> 2, soc |-> 3, capacity |-> 4,
               max_charge |-> 5, max_discharge |-> 6, watchdog_s |-> 7, len |-> 8]

-----------------------------------------------------------------------------
\* What a device presents.

\* A body of registers that hold `blank` but for those of `fields`, a
\* function of offsets.
Body(len, blank, fields) ==
  [i \in 1 .. len |-> IF i - 1 \in DOMAIN fields THEN fields[i - 1] ELSE blank]

\* Registers one after the other from an offset, as such a function.
From(offset, words) == [k \in offset .. offset + Len(words) - 1 |-> words[k - offset + 1]]
Fields(fs) == [k \in UNION {DOMAIN f : f \in fs} |-> (CHOOSE f \in fs : k \in DOMAIN f)[k]]

InverterState(u) ==
  IF u.output < 50 THEN 1 ELSE IF u.enabled /\ u.limit < 10000 THEN 5 ELSE 4

InverterBody(u) ==
  Body(Inverter.len, NI_INT16,
       Fields({From(Inverter.w, <<ToWord(Unscaled(100 * u.output, u.w_sf)), ToWord(u.w_sf)>>),
               From(Inverter.hz, <<5000, ToWord(-2)>>),
               From(Inverter.wh, TwoWords(u.energy) \o <<0>>),
               From(Inverter.st, <<InverterState(u)>>)}))

NameplateBody(u) ==
  Body(Nameplate.len, NI_INT16,
       From(Nameplate.der_type, <<4, ToWord(Unscaled(100 * u.rated, u.w_sf)), ToWord(u.w_sf)>>))

ControlsBody(u) ==
  Body(Controls.len, 0,
       Fields({From(Controls.conn, <<1, ToWord(Unscaled(u.limit, u.pct_sf))>>),
               From(Controls.rvrt_tms, <<u.revert>>),
               From(Controls.w_max_lim_ena, <<IF u.enabled THEN 1 ELSE 0>>),
               From(Controls.w_max_lim_pct_sf, <<ToWord(u.pct_sf)>>)}))

AvailableBody(u) ==
  <<ToWord(Unscaled(100 * u.available, u.w_sf)), ToWord(u.w_sf)>>

\* grid_kw, import positive
MeterBody(u) ==
  Body(Meter.len, NI_INT16,
       Fields({From(Meter.hz, <<5000, ToWord(-2)>>),
               From(Meter.w, <<ToWord(Unscaled(100 * u.output, u.w_sf))>>),
               From(Meter.w_sf, <<ToWord(u.w_sf)>>)}))

\* A model without a body here is a vendor's, of two registers.
BodyOf(u, id) ==
  CASE id = Common.id -> Body(Common.len, 0, From(Common.device_address, <<1>>))
    [] id = Inverter.id -> InverterBody(u)
    [] id = Nameplate.id -> NameplateBody(u)
    [] id = Controls.id -> ControlsBody(u)
    [] id = Available.id -> AvailableBody(u)
    [] id = Meter.id -> MeterBody(u)
    [] OTHER -> <<0, 0>>

\* build_image.  The last model's length may be wrong, on a faulty device.
BuildImage(u) ==
  MARKER
  \o FlattenSeq([i \in DOMAIN u.chain |->
       LET body == BodyOf(u, u.chain[i])
           len == IF i = Len(u.chain) /\ u.wrong_len # Absent THEN u.wrong_len ELSE Len(body)
       IN  <<u.chain[i], len>> \o body])
  \o <<END_ID, 0>>

ChargerState(u) ==
  IF u.car = Absent THEN 0
  ELSE IF u.car.charged >= u.car.needs THEN 4
  ELSE IF u.current > 0 THEN (IF u.quiet THEN 3 ELSE 2)
  ELSE 1

\* charger_image.  A car has charged and needs Wh, and leaves in s.
ChargerImage(u) ==
  LET car == u.car IN
  Body(Evse.len, 0,
       Fields({From(Evse.status, <<ChargerState(u), Tenths(u.limit), Tenths(u.current)>>),
               From(Evse.power, TwoWords(Tenths(69 * u.current))),
               From(Evse.session_energy, TwoWords(IF car = Absent THEN 0 ELSE car.charged)),
               From(Evse.max_current, <<u.max \div 10, u.failsafe \div 10, u.timeout>>),
               From(Evse.energy_request, TwoWords(IF car = Absent THEN 0 ELSE car.needs)),
               From(Evse.departure_min,
                    <<IF car = Absent THEN NO_DEPARTURE
                      ELSE LET min == car.leaves \div 60
                           IN  IF min < 0 THEN 0
                               ELSE IF min > NO_DEPARTURE - 1 THEN NO_DEPARTURE - 1 ELSE min,
                      IF car = Absent THEN 0 ELSE car.max \div 10>>)}))

HeatPumpState(u) ==
  IF u.power = 0 THEN 0 ELSE IF u.ext # Absent /\ ~u.quiet THEN 3
  ELSE IF u.power < u.demand - 5 THEN 2 ELSE 1

\* tenths_i16
TenthsInt16(n) == ToWord(AsInt16(Tenths(n)))

HeatPumpImage(u) ==
  <<HeatPumpState(u), Tenths(u.limit), Tenths(u.power), Tenths(u.demand), Tenths(u.rated),
    TenthsInt16(u.indoor), TenthsInt16(u.outdoor), TenthsInt16(u.setpoint),
    IF u.ext # Absent /\ ~u.quiet THEN Tenths(u.ext) ELSE EXT_NONE>>

BatteryState(u) ==
  IF u.quiet THEN 3 ELSE IF u.power > 5 THEN 1 ELSE IF u.power < -5 THEN 2 ELSE 0

BatteryImage(u) ==
  <<BatteryState(u), ToWord(Tenths(u.setpoint)), ToWord(Tenths(u.power)), Tenths(u.soc),
    Tenths(u.capacity), Tenths(u.max), Tenths(u.max), u.watchdog>>

HasSunSpec(u) == u.kind \in {"inverter", "meter"}

\* SiteSim::image
ImageOf(u) ==
  CASE HasSunSpec(u) -> BuildImage(u)
    [] u.kind = "charger" -> ChargerImage(u)
    [] u.kind = "heat_pump" -> HeatPumpImage(u)
    [] u.kind = "battery" -> BatteryImage(u)

\* SiteSim::read: n registers from an address; Absent is an exception, or
\* no answer.
Answer(u, address, n) ==
  LET image == ImageOf(u)
      from == address - (IF HasSunSpec(u) THEN BASE ELSE 0)
  IN  IF ~u.online \/ from < 0 \/ from + n > Len(image) THEN Absent
      ELSE SubSeq(image, from + 1, from + n)

\* The body of a model in a device's chain; inverter_controls_body of the
\* sample device.
BodyAddress(u, id) ==
  LET i == CHOOSE i \in DOMAIN u.chain : u.chain[i] = id
  IN  BASE + Len(BuildImage([u EXCEPT !.chain = SubSeq(@, 1, i - 1)]))

\* SiteSim::write of one register: what the device is then, or Absent.
Written16(u, address, v) ==
  LET capped(n) == IF 10 * n < u.max THEN 10 * n ELSE u.max
      offset == IF u.kind = "inverter" THEN address - BodyAddress(u, Controls.id) ELSE address
  IN  CASE ~u.online -> Absent
        [] u.kind = "inverter" /\ offset = Controls.w_max_lim_pct ->
             IF Scaled(v, u.pct_sf) > 10000 THEN Absent
             ELSE [u EXCEPT !.limit = Scaled(v, u.pct_sf)]
        [] u.kind = "inverter" /\ offset = Controls.rvrt_tms -> [u EXCEPT !.revert = v]
        [] u.kind = "inverter" /\ offset = Controls.w_max_lim_ena -> [u EXCEPT !.enabled = v = 1]
        [] u.kind = "inverter" /\ offset = Controls.conn -> u
        [] u.kind = "charger" /\ offset = Evse.current_limit ->
             [u EXCEPT !.limit = capped(v), !.quiet = FALSE]
        [] u.kind = "charger" /\ offset = Evse.failsafe_current -> [u EXCEPT !.failsafe = capped(v)]
        [] u.kind = "charger" /\ offset = Evse.failsafe_timeout -> [u EXCEPT !.timeout = v]
        [] u.kind = "charger" /\ offset = Evse.heartbeat -> [u EXCEPT !.quiet = FALSE]
        [] u.kind = "heat_pump" /\ offset = HeatPumpMap.power_limit -> [u EXCEPT !.limit = capped(v)]
        [] u.kind = "heat_pump" /\ offset = HeatPumpMap.ext_power ->
             [u EXCEPT !.ext = IF v = EXT_NONE THEN Absent ELSE 10 * v, !.quiet = FALSE]
        [] u.kind = "battery" /\ offset = BatteryMap.setpoint ->
             [u EXCEPT !.setpoint = 10 * Signed(v), !.quiet = FALSE]
        [] u.kind = "battery" /\ offset = BatteryMap.watchdog_s -> [u EXCEPT !.watchdog = v]
        [] OTHER -> Absent

\* One write after the other, up to the first that is refused.
AfterWrites(u, writes) ==
  FoldLeft(LAMBDA d, w : IF d = Absent THEN Absent ELSE Written16(d, w[1], w[2]), u, writes)

-----------------------------------------------------------------------------
\* A session of the gateway.

\* A model in a device's chain (ModelLocation).
ModelLocation == [id : 0 .. 65535, body : 0 .. 65535, len : 0 .. 65535]

Offered == {models[i].id : i \in DOMAIN models}

\* find: the first of its kind.
Find(id) == models[CHOOSE i \in DOMAIN models :
                     models[i].id = id /\ \A j \in 1 .. i - 1 : models[j].id # id].body

Needed == CASE unit.kind = "inverter" -> {Inverter.id, Controls.id, Nameplate.id}
            [] unit.kind = "meter" -> {Meter.id}
            [] OTHER -> {}

\* What a session writes before it first reads.  The failsafe current is
\* truncated to the register, not rounded.
SetUpWrites ==
  CASE unit.kind = "inverter" -> <<<<Find(Controls.id) + Controls.rvrt_tms, 0>>>>
    [] unit.kind = "charger" ->
         <<<<Evse.failsafe_current, Saturated(Configured.failsafe \div 10)>>,
           <<Evse.failsafe_timeout, Configured.failsafe_timeout>>>>
    [] unit.kind = "battery" -> <<<<BatteryMap.watchdog_s, Configured.watchdog>>>>
    [] OTHER -> <<>>

\* The power in a body of int16 with its scale factor.
PowerIn(body, w, w_sf) == Scaled(Signed(body[w + 1]), Signed(body[w_sf + 1]))

\* What the session makes of a poll's answers; powers of SunSpec 0.01 W.
InverterRead(u) ==
  [power |-> PowerIn(Answer(u, Find(Inverter.id), Inverter.len), Inverter.w, Inverter.w_sf),
   rated |-> PowerIn(Answer(u, Find(Nameplate.id), Nameplate.len),
                     Nameplate.w_rtg, Nameplate.w_rtg_sf),
   available |-> IF Available.id \notin Offered THEN Absent
                 ELSE PowerIn(Answer(u, Find(Available.id), Available.len),
                              Available.w_avail, Available.w_avail_sf)]

MeterRead(u) ==
  [power |-> PowerIn(Answer(u, Find(Meter.id), Meter.len), Meter.w, Meter.w_sf)]

ChargerRead(u) ==
  LET r == Answer(u, 0, Evse.len)
      request == Long32(r, Evse.energy_request)
      departure == r[Evse.departure_min + 1]
      most == r[Evse.car_max_current + 1]
  IN  [status |-> r[Evse.status + 1], current |-> 10 * r[Evse.current + 1],
       power |-> Long32(r, Evse.power), session |-> Long32(r, Evse.session_energy),
       request |-> IF request > 0 THEN request ELSE Absent,
       departure |-> IF departure = NO_DEPARTURE THEN Absent ELSE 60 * departure,
       most |-> IF most > 0 THEN 10 * most ELSE Absent]

HeatPumpRead(u) ==
  LET r == Answer(u, 0, HeatPumpMap.len)
  IN  [power |-> 10 * r[HeatPumpMap.power + 1], demand |-> 10 * r[HeatPumpMap.demand + 1],
       indoor |-> 10 * Signed(r[HeatPumpMap.indoor + 1]),
       outdoor |-> 10 * Signed(r[HeatPumpMap.outdoor + 1])]

BatteryRead(u) ==
  LET r == Answer(u, 0, BatteryMap.len)
  IN  [status |-> r[BatteryMap.status + 1], power |-> 10 * Signed(r[BatteryMap.power + 1]),
       soc |-> 10 * r[BatteryMap.soc + 1]]

ReadingIn(u) ==
  CASE u.kind = "inverter" -> InverterRead(u)
    [] u.kind = "meter" -> MeterRead(u)
    [] u.kind = "charger" -> ChargerRead(u)
    [] u.kind = "heat_pump" -> HeatPumpRead(u)
    [] u.kind = "battery" -> BatteryRead(u)

\* Mutant: the limit of a heat pump is rounded as the others are.
HeatPumpWritesRounded(sp) ==
  <<<<HeatPumpMap.power_limit, Saturated(Tenths(sp.limit))>>,
    <<HeatPumpMap.ext_power,
      IF sp.ext = Absent THEN EXT_NONE
      ELSE LET n == Tenths(sp.ext) IN IF n > 65000 THEN 65000 ELSE Saturated(n)>>>>

\* The limit of a heat pump is rounded down; a request is never EXT_NONE.
HeatPumpWrites(sp) ==
  <<<<HeatPumpMap.power_limit, Saturated(sp.limit \div 10)>>,
    <<HeatPumpMap.ext_power,
      IF sp.ext = Absent THEN EXT_NONE
      ELSE LET n == Tenths(sp.ext) IN IF n > 65000 THEN 65000 ELSE Saturated(n)>>>>

InverterWrites(sp) ==
  LET body == Find(Controls.id)
      k == Answer(unit, body, Controls.len)
  IN  <<<<body + Controls.w_max_lim_pct,
          ToWord(Unscaled(sp, Signed(k[Controls.w_max_lim_pct_sf + 1])))>>,
        <<body + Controls.w_max_lim_ena, 1>>>>

ChargerWrites(sp) == <<<<Evse.current_limit, Saturated(Tenths(sp))>>>>

BatteryWrites(sp) == <<<<BatteryMap.setpoint, ToWord(AsInt16(Tenths(sp)))>>>>

\* What it then writes.
PollWrites(sp) ==
  CASE unit.kind = "inverter" -> InverterWrites(sp)
    [] unit.kind = "charger" -> ChargerWrites(sp)
    [] unit.kind = "heat_pump" -> HeatPumpWrites(sp)
    [] unit.kind = "battery" -> BatteryWrites(sp)
    [] unit.kind = "meter" -> <<>>

\* What it stores: InverterReading, the meter's power, ChargerReading,
\* HeatPumpReading, BatteryReading.
InverterReading == [power : Int, rated : Int, available : Int \cup {Absent}]
ChargerReading ==
  [status : 0 .. 65535, current : Nat, power : Nat, session : Nat, request : Nat \cup {Absent},
   departure : Nat \cup {Absent}, most : Nat \cup {Absent}]
HeatPumpReading == [power : Nat, demand : Nat, indoor : Int, outdoor : Int]
BatteryReading == [status : 0 .. 65535, power : Int, soc : Nat]

FirstPhase == IF HasSunSpec(unit) THEN "marker" ELSE "set up"

\* The session ends with an error, and its reading with it.
Ends(reason) ==
  /\ phase' = "ended" /\ why' = reason /\ reading' = Absent
  /\ UNCHANGED <<unit, at, models, seen>>

\* discover
ReadMarker ==
  /\ phase = "marker"
  /\ IF Answer(unit, BASE, 2) = MARKER
     THEN /\ phase' = "chain" /\ at' = BASE + 2 /\ models' = <<>>
          /\ UNCHANGED <<unit, reading, seen, why>>
     ELSE Ends(IF unit.online THEN "chain" ELSE "offline")

\* The address wraps at 2^16, as in the release build.
ReadHeader ==
  /\ phase = "chain"
  /\ \E h \in {Answer(unit, at, 2)} :
       IF h = Absent THEN Ends(IF unit.online THEN "chain" ELSE "offline")
       ELSE IF h[1] = END_ID
       THEN phase' = "set up" /\ UNCHANGED <<unit, at, models, reading, seen, why>>
       ELSE IF Len(models) + 1 > 32 THEN Ends("chain")
       ELSE /\ models' = Append(models, [id |-> h[1], body |-> at + 2, len |-> h[2]])
            /\ at' = ToWord(at + 2 + h[2])
            /\ UNCHANGED <<unit, phase, reading, seen, why>>

SetUp ==
  /\ phase = "set up"
  /\ IF ~(Needed \subseteq Offered) THEN Ends("chain")
     ELSE \E u \in {AfterWrites(unit, SetUpWrites)} :
            IF u = Absent THEN Ends(IF unit.online THEN "refused" ELSE "offline")
            ELSE /\ unit' = u /\ phase' = "poll"
                 /\ UNCHANGED <<at, models, reading, seen, why>>

\* A tick: read, store, and write the setpoint, if it is due (FieldBus).
Poll ==
  /\ phase = "poll"
  /\ \E sp \in Targets(unit.kind) :
       IF ~unit.online THEN Ends("offline")
       ELSE \E u \in {AfterWrites(unit, PollWrites(sp))} :
              IF u = Absent THEN Ends("refused")
              ELSE /\ unit' = u /\ reading' = ReadingIn(unit)
                   /\ seen' = [unit |-> unit, setpoint |-> sp]
                   /\ UNCHANGED <<phase, at, models, why>>

\* supervise
Reconnect ==
  /\ phase = "ended" /\ phase' = FirstPhase /\ at' = BASE /\ models' = <<>>
  /\ UNCHANGED <<unit, reading, seen, why>>

\* The device goes its way, or is lost and back.
Moved ==
  /\ \E u \in Moves(unit) : u # unit /\ unit' = u
  /\ UNCHANGED <<phase, at, models, reading, seen, why>>

RegInit ==
  /\ unit \in Units /\ phase = FirstPhase /\ at = BASE /\ models = <<>>
  /\ reading = Absent /\ seen = Absent /\ why = "none"

RegNext == ReadMarker \/ ReadHeader \/ SetUp \/ Poll \/ Reconnect \/ Moved

-----------------------------------------------------------------------------
\* Properties.

Near(x, y, tolerance) == x - y <= tolerance /\ y - x <= tolerance

\* A model the session uses is where the device has it, whatever stands
\* before it; a session on a device that has what it needs is not given up.
ModelsAreFound ==
  /\ phase = "poll" /\ HasSunSpec(unit) =>
       \A id \in Needed \cup (Offered \cap {Available.id}) : Find(id) = BodyAddress(unit, id)
  /\ why = "chain" =>
       \/ ~(Needed \subseteq Range(unit.chain))
       \/ Len(unit.chain) > 32 \/ unit.wrong_len # Absent

\* What a session keeps is of its type.
SessionType ==
  /\ {models[i] : i \in DOMAIN models} \subseteq ModelLocation
  /\ phase \in {"marker", "chain", "set up", "poll", "ended"} /\ at \in 0 .. 65535
  /\ reading # Absent =>
       CASE unit.kind = "inverter" -> reading \in InverterReading
         [] unit.kind = "meter" -> reading \in [power : Int]
         [] unit.kind = "charger" -> reading \in ChargerReading
         [] unit.kind = "heat_pump" -> reading \in HeatPumpReading
         [] unit.kind = "battery" -> reading \in BatteryReading

\* The reading is the device's quantity within half of what its register
\* can tell, of either sign, in whatever scale.
ReadingIsTrue ==
  reading # Absent =>
    \E u \in {seen.unit} :
      /\ HasSunSpec(u) =>
           /\ Near(reading.power, 100 * u.output, Power10[u.w_sf + 3] \div 2)
           /\ u.kind = "inverter" =>
                /\ Near(reading.rated, 100 * u.rated, Power10[u.w_sf + 3] \div 2)
                /\ reading.available # Absent =>
                     Near(reading.available, 100 * u.available, Power10[u.w_sf + 3] \div 2)
                /\ reading.available = Absent <=> Available.id \notin Range(u.chain)
      /\ u.kind = "charger" =>
           /\ Near(reading.current, u.current, 5) /\ Near(reading.power, (69 * u.current) \div 10, 1)
           /\ u.car = Absent => {reading.request, reading.departure, reading.most} = {Absent}
           /\ u.car # Absent =>
                /\ reading.session = u.car.charged
                /\ reading.request = IF u.car.needs = 0 THEN Absent ELSE u.car.needs
                /\ reading.departure <= (IF u.car.leaves > 0 THEN u.car.leaves ELSE 0) /\ reading.most <= u.car.max
      /\ u.kind = "heat_pump" =>
           /\ Near(reading.power, u.power, 5) /\ Near(reading.demand, u.demand, 5)
           /\ Near(reading.indoor, u.indoor, 5) /\ Near(reading.outdoor, u.outdoor, 5)
      /\ u.kind = "battery" => Near(reading.power, u.power, 5) /\ Near(reading.soc, u.soc, 5)

\* What is written means to the device what the setpoint says: nearer than
\* half of what its register can tell; a heat pump is never allowed more, and
\* a request is not taken for none; no device refuses it.
SetpointIsMeant ==
  /\ why # "refused"
  /\ reading # Absent =>
       \E sp \in {seen.setpoint} :
         /\ unit.kind = "inverter" =>
              unit.enabled /\ unit.revert = 0
              /\ Near(unit.limit, sp, (Power10[unit.pct_sf + 3] \div 2) + 1)
         /\ unit.kind = "charger" =>
              /\ Near(unit.limit, IF sp < unit.max THEN sp ELSE unit.max, 5)
              /\ unit.failsafe <= Configured.failsafe /\ unit.timeout = Configured.failsafe_timeout
         /\ unit.kind = "heat_pump" =>
              /\ unit.limit <= sp.limit /\ Near(unit.limit, IF sp.limit < unit.max THEN sp.limit ELSE unit.max, 10)
              /\ unit.ext = Absent <=> sp.ext = Absent
         /\ unit.kind = "battery" =>
              Near(unit.setpoint, sp, 5) /\ unit.watchdog = Configured.watchdog

\* What is said in registers is what is meant.
RegistersAreTrue == SessionType /\ ModelsAreFound /\ ReadingIsTrue /\ SetpointIsMeant
=============================================================================
