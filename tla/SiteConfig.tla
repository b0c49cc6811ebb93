----------------------------- MODULE SiteConfig -----------------------------
(***************************************************************************)
(* What a site is configured to be: the country's rules (policy.rs,        *)
(* rules.rs), the deviations the gateway's file may make from them         *)
(* (config.rs) and the checks a configuration must pass before the         *)
(* controller runs on it (SiteConfig::validate).                           *)
(*                                                                         *)
(* Powers are W, currents A, shares whole %.                               *)
(***************************************************************************)
EXTENDS Integers, Sequences, Functions

CONSTANT None  \* Option::None

EvMinCurrentA == 6

\* three_phase_kw: 3 x 230 V.
ThreePhaseW(amps) == 690 * amps

\* three_phase_current_a, the whole amperes of it.
ThreePhaseA(w) == w \div 690

-----------------------------------------------------------------------------
\* The legal minimum while dimmed (BK6-22-300, 4.5.2).

\* The simultaneity factor (GZF), %.
SimultaneityFactor(n) ==
  IF n <= 1 THEN 0
  ELSE IF n >= 9 THEN 45
  ELSE <<80, 75, 70, 65, 60, 55, 50>>[n - 1]

\* Pmin,14a: one device in full, or 40 % of large heat pumps, and the
\* others by the factor.
PminW(counted, heatPumpsW) ==
  LET n == counted + Len(heatPumpsW)
      large == \E i \in DOMAIN heatPumpsW : heatPumpsW[i] > 11000
      base == IF large THEN (2 * SumFunction(heatPumpsW)) \div 5 ELSE 4200
  IN  IF n = 0 THEN 0 ELSE base + (n - 1) * 42 * SimultaneityFactor(n)

-----------------------------------------------------------------------------
\* Rules of a country and what a site may change of them.  A contract is the
\* consumption rule outside Germany; `contract` is None where 14a applies.

Jurisdictions == {"DE", "AT", "CH"}

Percent == 0 .. 100
OptPercent == Percent \cup {None}

NoDayLimit == [min_w |-> 0, max_minutes |-> 0]

\* Policy::for_country
ForCountry(country) ==
  [country |-> country,
   contract |-> IF country = "DE" THEN None ELSE NoDayLimit,
   static_cap |-> IF country = "AT" THEN 70 ELSE None,
   budget |-> IF country = "CH" THEN 3 ELSE None,
   enforce |-> country = "CH"]

OrElse(option, default) == IF option = None THEN default ELSE option

\* Config::policy: the overrides of the file; contract terms are an error
\* where the law leaves no contract.
PolicyOf(country, o) ==
  LET p == ForCountry(country)
  IN  IF p.contract = None /\ (o.min_w # None \/ o.max_minutes # None)
      THEN None
      ELSE [p EXCEPT
              !.static_cap = OrElse(o.static_cap, @),
              !.budget = OrElse(o.budget, @),
              !.enforce = OrElse(o.enforce, @),
              !.contract =
                IF @ = None THEN None
                ELSE [min_w |-> OrElse(o.min_w, @.min_w),
                      max_minutes |-> OrElse(o.max_minutes, @.max_minutes)]]

\* Policy::validate
ValidPolicy(p) ==
  /\ {p.static_cap, p.budget} \subseteq OptPercent
  /\ p.contract # None =>
       /\ p.contract.min_w >= 0
       /\ p.contract.max_minutes \in 0 .. 1440
  /\ p.country = "DE" => p.contract = None

ValidHeatPump(h) == h.rated > 0 /\ 0 <= h.min /\ h.min <= h.rated

ValidCharger(c) ==
  /\ c.max \in EvMinCurrentA .. 63
  /\ c.failsafe <= c.max
  /\ c.failsafe > 0 => c.failsafe >= EvMinCurrentA

ValidBattery(b) ==
  /\ b.capacity > 0 /\ b.charge >= 0 /\ b.discharge >= 0
  /\ b.min_soc \in Percent /\ b.max_soc <= 100 /\ b.min_soc < b.max_soc

\* SiteConfig::validate
ValidSite(s) ==
  /\ ValidPolicy(s.policy)
  /\ s.pv_installed > 0 /\ s.connection > 0 /\ s.pv_ramp > 0
  /\ \A v \in {s.margin, s.min_dwell, s.pv_follow_timeout} : v >= 0
  /\ \A i \in DOMAIN s.chargers : ValidCharger(s.chargers[i])
  /\ \A i \in DOMAIN s.heat_pumps : ValidHeatPump(s.heat_pumps[i])
  /\ \A i \in DOMAIN s.batteries : ValidBattery(s.batteries[i])

-----------------------------------------------------------------------------
\* What the controller is given.  Times are seconds; which devices there are,
\* and what they can do, never changes.

ChargerSpecs == [max : Int, failsafe : Int, opted_out : BOOLEAN]
HeatPumpSpecs == [rated : Int, min : Int, opted_out : BOOLEAN]
BatterySpecs ==
  [capacity : Int, charge : Int, discharge : Int, min_soc : Int, max_soc : Int]

ConsumptionRules == {None} \cup [min_w : Int, max_minutes : Int]
Policies ==
  [country : Jurisdictions, contract : ConsumptionRules,
   static_cap : OptPercent, budget : OptPercent, enforce : BOOLEAN]

\* Part of SiteConfig: what the cycle reads.  Its other fields are constants of
\* the modules Dimming and Compliance; `inverters` are the ratings the plant
\* is built from, `patience` is the model's own.
SiteConfigs ==
  [name : STRING, policy : Policies, pv_installed : Int, connection : Int,
   pv_ramp : Int, margin : Int, min_dwell : Int, pv_follow_timeout : Int,
   deadline_guard : Int, import_target : Int, at_connection : BOOLEAN,
   chargers : Seq(ChargerSpecs), heat_pumps : Seq(HeatPumpSpecs),
   batteries : Seq(BatterySpecs), inverters : Seq(Nat), patience : Int]

\* Controller::new: the floor of the consumption rule.
FloorW(s) ==
  IF s.policy.contract # None THEN s.policy.contract.min_w
  ELSE PminW(Len(s.chargers) + Len(s.batteries),
             [i \in DOMAIN s.heat_pumps |-> s.heat_pumps[i].rated])

=============================================================================
