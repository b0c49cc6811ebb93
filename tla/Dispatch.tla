------------------------------ MODULE Dispatch ------------------------------
(***************************************************************************)
(* Setpoints: what one control cycle (Controller::step) sends to every     *)
(* device once the budget of the controllable loads is known, closed over  *)
(* the devices that obey, ignore or never hear them.  The budget itself,   *)
(* its release and the daily limit are module Dimming's; here it is any    *)
(* value that module allows.                                               *)
(*                                                                         *)
(* Powers are W, currents A, shares whole %, rounded down.  A battery's    *)
(* room up and down is Wh.  Ages are kept up to where they stop mattering. *)
(***************************************************************************)
EXTENDS SiteConfig, FiniteSets, SequencesExt

CONSTANTS
  Sites,            \* sites to look at, valid or not
  Environments(_),  \* what may happen to a site in a cycle
  Infinity          \* f64::INFINITY

ASSUME DispatchAssumption ==
  /\ None \notin Int /\ Infinity \notin Int /\ None # Infinity

\* A number that may be missing.
OptInt == Int \cup {None}

\* What a cycle may meet at a site: what the devices report, the DSO commands
\* and the plan wants, and how long the cycle before is ago.
EnvironmentsOf(s) ==
  [dt : Nat, base : Int, sun : Percent, sun_reported : BOOLEAN,
   meter : {"ok", "wrong", "off"}, dim : BOOLEAN, feed_in : Percent,
   emergency : BOOLEAN, exhausted : BOOLEAN,
   grid_plan : OptInt, dim_expected : BOOLEAN,
   inverters : [DOMAIN s.inverters -> {"ok", "stuck", "off"}],
   cars : [DOMAIN s.chargers ->
             [online : BOOLEAN, waiting : BOOLEAN, laxity : Int, plan : OptInt]],
   pumps : [DOMAIN s.heat_pumps -> [online : BOOLEAN, demand : Int, plan : OptInt]],
   bats : [DOMAIN s.batteries -> [online : BOOLEAN, below : Nat, above : Nat]]]

ASSUME SitesAssumption ==
  \A s \in Sites : ValidSite(s) =>
    s \in SiteConfigs /\ s.patience \in Nat /\ Environments(s) \subseteq EnvironmentsOf(s)

VARIABLES
  site,       \* the configuration; never changes
  charger_on, switched_age,  \* who charges, and since when
  pv_pct,     \* last_pv_pct
  sent_pct, over_age,        \* inverter_sent_pct, inverter_over_since
  setpoints,  \* what the devices were sent last
  status,     \* what the last cycle reported
  session,    \* session_kwh of each charger above the lowest
  truth,      \* history: the true flows behind the last readings
  waited      \* history: how long each car has waited for its turn

dvars == <<site, charger_on, switched_age, pv_pct, sent_pct, over_age,
           setpoints, status, session, truth, waited>>

Chargers == DOMAIN site.chargers
HeatPumps == DOMAIN site.heat_pumps
Batteries == DOMAIN site.batteries
Inverters == DOMAIN site.inverters

Least(a, b) == IF a < b THEN a ELSE b
Most(a, b) == IF a > b THEN a ELSE b
Positive(a) == Most(a, 0)
Clamp(x, low, high) == Least(Most(x, low), high)
SumOver(f(_), S) == SumFunction([i \in S |-> f(i)])

\* Only a contract leaves devices out.
Exempt(spec) == site.policy.contract # None /\ spec.opted_out

-----------------------------------------------------------------------------
\* The plant (external): what the devices do with what they were sent, seen
\* through the meter.  e is what the environment chose for this cycle.

\* A charger that is not reached falls back to its failsafe current.
ChargerDraw(e, i) ==
  IF ~e.cars[i].waiting THEN 0
  ELSE ThreePhaseW(IF e.cars[i].online THEN setpoints.charger_a[i]
                   ELSE site.chargers[i].failsafe)

\* A heat pump that is not reached draws what it likes.
HeatPumpDraw(e, i) ==
  IF ~e.pumps[i].online THEN site.heat_pumps[i].rated
  ELSE Least(setpoints.heat_pump_limit[i],
             OrElse(setpoints.heat_pump_ext[i], e.pumps[i].demand))

BatteryFlow(e, i) == IF e.bats[i].online THEN setpoints.battery[i] ELSE 0

SunOn(e, i) == (site.inverters[i] * e.sun) \div 100

\* A stuck inverter, and one that is not reached, ignores its limit.
InverterOutput(e, i) ==
  IF e.inverters[i] # "ok" THEN SunOn(e, i)
  ELSE Least(SunOn(e, i), (site.inverters[i] * sent_pct[i]) \div 100)

Flows(e) ==
  LET loads == SumOver(LAMBDA i : ChargerDraw(e, i), Chargers)
               + SumOver(LAMBDA i : HeatPumpDraw(e, i), HeatPumps)
      flow  == SumOver(LAMBDA i : BatteryFlow(e, i), Batteries)
      pv    == SumOver(LAMBDA i : InverterOutput(e, i), Inverters)
  IN  [loads |-> loads, battery |-> flow, pv |-> pv, base |-> e.base,
       grid |-> e.base + loads + flow - pv]

OnlineLoads(e) ==
  SumOver(LAMBDA i : ChargerDraw(e, i), {i \in Chargers : e.cars[i].online})
  + SumOver(LAMBDA i : HeatPumpDraw(e, i), {i \in HeatPumps : e.pumps[i].online})

\* readings::collect: totals are known only if every inverter answers.
ReadingsOf(e, flows) ==
  LET all == \A i \in Inverters : e.inverters[i] # "off"
      seen(i) == [online |-> e.inverters[i] # "off", w |-> InverterOutput(e, i)]
  IN  [grid |-> CASE e.meter = "ok" -> flows.grid
                  [] e.meter = "wrong" -> 2 * site.connection
                  [] e.meter = "off" -> None,
       pv |-> IF all THEN flows.pv ELSE None,
       loads |-> OnlineLoads(e), battery |-> flows.battery,
       available |-> IF all /\ e.sun_reported
                     THEN SumOver(LAMBDA i : SunOn(e, i), Inverters) ELSE None,
       inverters |-> [i \in Inverters |-> seen(i)]]

-----------------------------------------------------------------------------
\* Readings beyond belief count as none.

Plausible(r) ==
  [r EXCEPT
     !.grid = IF @ # None /\ (2 * @ > 3 * site.connection
                              \/ 2 * @ < -3 * site.connection)
              THEN None ELSE @,
     !.pv = IF @ # None /\ (@ < -1000 \/ 4 * @ > 5 * site.pv_installed)
            THEN None ELSE IF @ = None THEN None ELSE Positive(@)]

\* Mutant: a device that does not answer draws nothing.
OfflineReserveNone(e) == 0

\* A device that does not answer is assumed to draw what it would on its own.
OfflineReserve(e) ==
  SumOver(LAMBDA i : ThreePhaseW(site.chargers[i].failsafe),
          {i \in Chargers : ~e.cars[i].online /\ ~Exempt(site.chargers[i])})
  + SumOver(LAMBDA i : site.heat_pumps[i].rated,
            {i \in HeatPumps : ~e.pumps[i].online /\ ~Exempt(site.heat_pumps[i])})

\* Everything the meter sees that is neither PV nor a controllable device.
BaseLoad(r) ==
  IF None \in {r.grid, r.pv} THEN None
  ELSE r.grid + r.pv - r.loads - r.battery

Surplus(r) ==
  IF BaseLoad(r) = None THEN None ELSE Positive(r.pv - BaseLoad(r))

-----------------------------------------------------------------------------
\* Feed-in.

\* Mutant: with the budget used up the standing cap is lifted too.
FeedInPctNoCap(e) ==
  IF e.exhausted /\ ~e.emergency /\ site.policy.enforce THEN 100
  ELSE Least(e.feed_in, OrElse(site.policy.static_cap, 100))

\* The limit in force: the DSO's, unless the year's free curtailment is used
\* up and that is enforced, under the standing cap.
FeedInPct(e) ==
  Least(IF e.exhausted /\ ~e.emergency /\ site.policy.enforce THEN 100
        ELSE e.feed_in,
        OrElse(site.policy.static_cap, 100))

AllowedExport(pct) == (site.pv_installed * pct) \div 100

\* Mutant: the batteries count as they were.
TargetPctAsBefore(pct, r, planned) ==
  LET used == Positive(r.pv + r.grid)
      room == AllowedExport(pct) + used - site.margin
  IN  IF pct >= 100 THEN 100
      ELSE IF ~site.at_connection \/ None \in {r.grid, r.pv} THEN pct
      ELSE Clamp((room * 100) \div site.pv_installed, pct, 100)

\* With the limit at the connection, PV may also cover what the site uses,
\* the batteries as they will be.
TargetPct(pct, r, planned) ==
  LET used == Positive(r.pv + r.grid - r.battery + planned)
      room == AllowedExport(pct) + used - site.margin
  IN  IF pct >= 100 THEN 100
      ELSE IF ~site.at_connection \/ None \in {r.grid, r.pv} THEN pct
      ELSE Clamp((room * 100) \div site.pv_installed, pct, 100)

\* Down at once, up along the ramp.
Ramped(target, dt) ==
  IF target > pv_pct THEN Least(pv_pct + site.pv_ramp * dt, target) ELSE target

\* How long each inverter has produced more than it was sent.
OverAge(r, dt) ==
  [i \in Inverters |->
     LET over == /\ r.inverters[i].online /\ sent_pct[i] < 100
                 /\ r.inverters[i].w * 100 > site.inverters[i] * sent_pct[i]
                      + Most(site.margin * 100, 2 * site.inverters[i])
     IN  IF ~over THEN None
         ELSE IF over_age[i] = None THEN 0
         ELSE Least(over_age[i] + dt, site.pv_follow_timeout)]

Ignoring(age) ==
  {i \in Inverters : /\ site.pv_follow_timeout > 0
                     /\ age[i] # None /\ age[i] >= site.pv_follow_timeout}

\* Mutant: the others may be sent less than nothing.
InverterPctUnclamped(pct, r, age) ==
  LET stuck == Ignoring(age)
      free == {i \in Inverters \ stuck : r.inverters[i].online}
      left == AllowedExport(pct) - SumOver(LAMBDA i : r.inverters[i].w, stuck)
  IN  [i \in Inverters |->
         IF pct >= 100 \/ stuck = {} \/ i \in stuck \/ free = {} THEN pct
         ELSE Least((left * 100)
                    \div SumOver(LAMBDA k : site.inverters[k], free), pct)]

\* The others make up for the inverters that ignore their limit.
InverterPct(pct, r, age) ==
  LET stuck == Ignoring(age)
      free == {i \in Inverters \ stuck : r.inverters[i].online}
      left == AllowedExport(pct) - SumOver(LAMBDA i : r.inverters[i].w, stuck)
      rated == SumOver(LAMBDA i : site.inverters[i], free)
      share == IF rated > 0 THEN Clamp((left * 100) \div rated, 0, pct) ELSE pct
  IN  [i \in Inverters |->
         IF pct >= 100 \/ stuck = {} \/ i \in stuck THEN pct ELSE share]

-----------------------------------------------------------------------------
\* Batteries.

\* Mutant: the plan may charge from the grid while consumption is dimmed.
NotFromTheGridEver(want, surplus, constrained) == want

\* While dimmed, no more than the surplus goes in.
NotFromTheGrid(want, surplus, constrained) ==
  IF constrained THEN Least(want, surplus) ELSE want

\* What the batteries together should take (+) or give (-).
Wanted(e, r, constrained, floor, limit) ==
  LET base == BaseLoad(r)
      idle == r.grid - r.battery
      reference == IF r.available # None THEN r.available ELSE r.pv
      \* the grid exchange with idle batteries and PV unconstrained
      free == IF None \in {base, r.available} THEN None
              ELSE base + r.loads - r.available
      surplus == IF None \in {base, reference} THEN 0
                 ELSE Positive(reference - base - r.loads)
      blind == limit < 100 /\ free = None
      planned == e.grid_plan - idle
      stored == IF free # None /\ limit < 100
                THEN Most(planned, -free - AllowedExport(limit)) ELSE planned
      guided == IF blind THEN Positive(stored) ELSE stored
      net == IF free # None THEN free ELSE idle
  IN  IF e.grid_plan # None /\ (~constrained \/ e.dim_expected)
      THEN NotFromTheGrid(guided, surplus, constrained)
      ELSE IF constrained
      THEN -Positive(floor + IF None \in {base, reference} THEN 0
                             ELSE base - reference)
      ELSE IF net < 0 THEN -net
      ELSE IF blind THEN 0
      ELSE -Positive(net - site.import_target)

\* One battery takes what it can of the power wanted, tapered near the ends of
\* its window.
Share(e, acc, i) ==
  LET low == -Least(site.batteries[i].discharge, 4 * e.bats[i].below)
      high == Least(site.batteries[i].charge, 4 * e.bats[i].above)
      p == IF e.bats[i].online THEN Clamp(acc.want, low, high) ELSE 0
  IN  [want |-> acc.want - p, power |-> [acc.power EXCEPT ![i] = p]]

\* plan_batteries: one after the other; without a meter they hold still.
PlanBatteries(e, r, constrained, floor, limit) ==
  LET still == [i \in Batteries |-> 0]
      want == Wanted(e, r, constrained, floor, limit)
  IN  IF r.grid = None THEN still
      ELSE FoldLeft(LAMBDA acc, i : Share(e, acc, i), [want |-> want, power |-> still],
                    [i \in Batteries |-> i]).power

-----------------------------------------------------------------------------
\* Loads.

\* Mutant: the plan also decides for a car about to miss its departure.
CapANoGuard(e, i) ==
  LET max == site.chargers[i].max
      plan == e.cars[i].plan
  IN  IF plan = None THEN max
      ELSE IF 2 * plan < ThreePhaseW(EvMinCurrentA) THEN 0
      ELSE Clamp((2 * plan + 690) \div 1380, EvMinCurrentA, max)

\* The most a charger may get: the plan's power as whole amperes, unless the
\* car is about to miss its departure.
CapA(e, i) ==
  LET max == site.chargers[i].max
      plan == e.cars[i].plan
  IN  IF plan = None \/ e.cars[i].laxity <= site.deadline_guard THEN max
      ELSE IF 2 * plan < ThreePhaseW(EvMinCurrentA) THEN 0
      ELSE Clamp((2 * plan + 690) \div 1380, EvMinCurrentA, max)

Waiting(e) ==
  {i \in Chargers : e.cars[i].online /\ e.cars[i].waiting /\ CapA(e, i) > 0}

Demand(e, i) ==
  IF ~e.pumps[i].online THEN 0
  ELSE Least(OrElse(e.pumps[i].plan, e.pumps[i].demand), site.heat_pumps[i].rated)

Locked(i, dt) == switched_age[i] + dt < site.min_dwell

\* Mutant: the dwell time is forgotten.
RankNoDwell(i, dt) == 1

\* Inside its dwell time a charger keeps its state.
Rank(i, dt) ==
  IF ~Locked(i, dt) THEN 1 ELSE IF charger_on[i] THEN 0 ELSE 2

\* Mutant: among equals the first in the list always wins.
BeforeByIndex(e, i, j) ==
  LET ri == Rank(i, e.dt)  rj == Rank(j, e.dt)
      li == e.cars[i].laxity  lj == e.cars[j].laxity
  IN  \/ ri < rj
      \/ ri = rj /\ li < lj
      \/ ri = rj /\ li = lj /\ i < j

\* Who charges first: the dwell time, then the least slack before departure,
\* then the least energy so far.
Before(e, i, j) ==
  LET ri == Rank(i, e.dt)  rj == Rank(j, e.dt)
      li == e.cars[i].laxity  lj == e.cars[j].laxity
  IN  \/ ri < rj
      \/ ri = rj /\ li < lj
      \/ ri = rj /\ li = lj /\ session[i] < session[j]
      \/ ri = rj /\ li = lj /\ session[i] = session[j] /\ i < j

\* What one car gets of the spare amperes; it stays open while it can take more.
TopUp(e, share, acc, i) ==
  LET room == CapA(e, i) - acc.amps[i]
      add == Least(share, Least(room, acc.spare))
  IN  [amps |-> [acc.amps EXCEPT ![i] = @ + add],
       spare |-> acc.spare - add,
       open |-> IF room - add >= 1 THEN Append(acc.open, i) ELSE acc.open]

\* One round of the loop that shares them out, while there is something to
\* share and a charger to take it.
FillRound(e, s) ==
  LET share == Most(s.spare \div Len(s.open), 1)
  IN  IF s.spare < 1 \/ s.open = <<>> THEN s
      ELSE FoldLeft(LAMBDA acc, i : TopUp(e, share, acc, i), [s EXCEPT !.open = <<>>], s.open)

\* Water-filling.  A round closes a charger, or leaves less than an ampere
\* for each; the round after that leaves nothing.
Filled(e, start) ==
  FoldLeft(LAMBDA s, k : FillRound(e, s), start,
           [k \in 1 .. Len(start.open) + 2 |-> k]).amps

\* Mutant: a heat pump's limit is not rounded down to off.
AsModulatedAny(i, w) == w

\* A compressor cannot run below its minimum: lower means off.
AsModulated(i, w) == IF w < site.heat_pumps[i].min THEN 0 ELSE w

\* Draw of the devices the owner keeps to himself.
ExemptDraw(e) ==
  SumOver(LAMBDA i : Demand(e, i), {i \in HeatPumps : Exempt(site.heat_pumps[i])})
  + SumOver(LAMBDA i : ChargerDraw(e, i),
            {i \in Waiting(e) : Exempt(site.chargers[i])})

\* Heat pumps first: each up to 40 % of its rating, while there is anything left.
Guarantee(e, acc, i) ==
  LET share == (2 * site.heat_pumps[i].rated) \div 5
      g == AsModulated(i, Least(Least(Demand(e, i), share), acc.left))
  IN  IF Exempt(site.heat_pumps[i]) THEN acc
      ELSE [heat |-> [acc.heat EXCEPT ![i] = g], left |-> acc.left - g]

HeatGuaranteed(e, left) ==
  FoldLeft(LAMBDA acc, i : Guarantee(e, acc, i),
           [heat |-> [i \in HeatPumps |-> site.heat_pumps[i].rated], left |-> left],
           [i \in HeatPumps |-> i])

\* The cars that share the budget, and in which order they get their turn.
Sharing(e) == {i \in Waiting(e) : ~Exempt(site.chargers[i])}

Order(e) ==
  CHOOSE order \in [1 .. Cardinality(Sharing(e)) -> Sharing(e)] :
    \A j, k \in DOMAIN order : j < k => Before(e, order[j], order[k])

\* 6 A for those that fit, nothing for the others.
MinimumAmps(e, active) ==
  [i \in Chargers |-> IF Exempt(site.chargers[i]) THEN CapA(e, i)
                      ELSE IF i \in Range(active) THEN EvMinCurrentA ELSE 0]

\* Heat pumps up to their demand, unless it is less than their minimum.
RaiseToDemand(e, acc, i) ==
  LET extra == Least(Positive(Demand(e, i) - acc.heat[i]), acc.left)
      g == acc.heat[i] + extra
  IN  IF Exempt(site.heat_pumps[i]) \/ g < site.heat_pumps[i].min THEN acc
      ELSE [heat |-> [acc.heat EXCEPT ![i] = g], left |-> acc.left - extra]

HeatToppedUp(e, shared) ==
  FoldLeft(LAMBDA acc, i : RaiseToDemand(e, acc, i), shared, [i \in HeatPumps |-> i])

\* allocate, with a limit: heat pumps to 40 %, 6 A for as many cars as fit,
\* heat pumps to their demand, the rest to the cars.
AllocateLimited(e, budget) ==
  LET shared == HeatGuaranteed(e, Positive(Positive(budget) - ExemptDraw(e)))
      fit == Least(shared.left \div ThreePhaseW(EvMinCurrentA), Len(Order(e)))
      active == SubSeq(Order(e), 1, fit)
      topped == HeatToppedUp(e, [shared EXCEPT !.left = @ - fit * ThreePhaseW(EvMinCurrentA)])
  IN  [amps |-> Filled(e, [amps |-> MinimumAmps(e, active), open |-> active,
                           spare |-> ThreePhaseA(topped.left)]),
       heat |-> topped.heat]

Allocate(e, budget) ==
  IF budget = Infinity
  THEN [amps |-> [i \in Chargers |-> CapA(e, i)],
        heat |-> [i \in HeatPumps |-> site.heat_pumps[i].rated]]
  ELSE AllocateLimited(e, budget)

-----------------------------------------------------------------------------
\* The cycle.

\* Budgets of the loads: under a dimming the floor and a surplus that has
\* lasted, in a release anything from the last budget to full power.
Budgets(e, surplus) ==
  LET full == SumOver(LAMBDA i : ThreePhaseW(site.chargers[i].max), Chargers)
              + SumOver(LAMBDA i : site.heat_pumps[i].rated, HeatPumps)
      held == IF surplus = None THEN {0}
              ELSE {surplus, Least(surplus, OrElse(status.surplus, 0))}
  IN  IF e.dim
      THEN {[mode |-> "dimmed", w |-> FloorW(site) + h - site.margin] : h \in held}
      ELSE {[mode |-> "normal", w |-> Infinity]} \cup
           (IF status.budget = Infinity THEN {}
            ELSE {[mode |-> "releasing", w |-> b] :
                    b \in {status.budget, Most(full, status.budget)}})

\* Mutant: charging a battery leaves the loads their whole budget.
LoadsBudgetNoCharge(budget, planned) ==
  IF budget = Infinity THEN Infinity ELSE budget + Positive(-planned)

\* What the batteries give or take changes what the loads may draw.
LoadsBudget(budget, planned) ==
  IF budget = Infinity THEN Infinity ELSE budget - planned

Less(a, b) == IF a = Infinity THEN Infinity ELSE a - b

\* set_charger_on, for every charger.
Switch(on, dt) ==
  /\ charger_on' = on
  /\ switched_age' = [i \in Chargers |->
       IF on[i] # charger_on[i] THEN 0
       ELSE Least(switched_age[i] + dt, site.min_dwell)]

\* The energy of a session, kept above the lowest of the waiting cars.
Charged(e) ==
  LET raw == [i \in Chargers |->
                IF ~e.cars[i].waiting THEN 0
                ELSE session[i] + IF ChargerDraw(e, i) > 0 THEN e.dt ELSE 0]
      low == CHOOSE x \in Range(raw) : \A y \in Range(raw) : x <= y
  IN  [i \in Chargers |-> Least(raw[i] - low, site.patience + 2)]

\* What a cycle sends, keeps and reports of what it computed.
Sent(e, flows, r, age, pct, reserve, budget, bat, loads, limit) ==
  /\ Switch([i \in Chargers |-> loads.amps[i] > 0 /\ i \in Waiting(e)], e.dt)
  /\ pv_pct' = limit
  /\ over_age' = age
  /\ sent_pct' = InverterPct(limit, r, age)
  /\ setpoints' =
       [charger_a |-> loads.amps, heat_pump_limit |-> loads.heat,
        battery |-> bat,
        heat_pump_ext |-> [i \in HeatPumps |->
          IF e.pumps[i].plan = None THEN None
          ELSE Positive(Least(e.pumps[i].plan, loads.heat[i]))]]
  /\ status' =
       [mode |-> budget.mode, budget |-> budget.w, feed_in |-> pct,
        surplus |-> Surplus(r), reserve |-> reserve, ignoring |-> Ignoring(age)]
  /\ session' = Charged(e)
  /\ truth' = [flows |-> flows, exempt |-> ExemptDraw(e), env |-> e]
  /\ waited' = [i \in Chargers |->
       IF charger_on'[i] \/ ~e.cars[i].waiting THEN 0
       ELSE Least(waited[i] + e.dt, site.patience + 1)]
  /\ UNCHANGED site

\* One cycle of the controller; its results are bound in the order the code
\* computes them.
Cycle(e) ==
  \E flows \in {Flows(e)} :
  \E r \in {Plausible(ReadingsOf(e, flows))} :
  \E age \in {OverAge(r, e.dt)}, pct \in {FeedInPct(e)}, reserve \in {OfflineReserve(e)} :
  \E budget \in Budgets(e, Surplus(r)) :
  \E bat \in {PlanBatteries(e, r, budget.mode # "normal", FloorW(site), pct)} :
  \E planned \in {SumFunction(bat)} :
  \E loads \in {Allocate(e, Less(LoadsBudget(budget.w, planned), reserve))},
     limit \in {Ramped(TargetPct(pct, r, planned), e.dt)} :
    Sent(e, flows, r, age, pct, reserve, budget, bat, loads, limit)

\* main.rs: until the first cycle the devices get conservative setpoints.
DInit ==
  /\ site \in {s \in Sites : ValidSite(s)}
  /\ charger_on = [i \in Chargers |-> FALSE]
  /\ switched_age = [i \in Chargers |-> site.min_dwell]
  /\ pv_pct = 100
  /\ sent_pct = [i \in Inverters |-> 100]
  /\ over_age = [i \in Inverters |-> None]
  /\ setpoints = [charger_a |-> [i \in Chargers |-> site.chargers[i].failsafe],
                  heat_pump_limit |-> [i \in HeatPumps |->
                                         (2 * site.heat_pumps[i].rated) \div 5],
                  battery |-> [i \in Batteries |-> 0],
                  heat_pump_ext |-> [i \in HeatPumps |-> None]]
  /\ status = [mode |-> "normal", budget |-> Infinity, feed_in |-> 100,
               surplus |-> None, reserve |-> 0, ignoring |-> {}]
  /\ session = [i \in Chargers |-> 0]
  /\ truth = None
  /\ waited = [i \in Chargers |-> 0]

DNext == \E e \in Environments(site) : Cycle(e)

DSpec == DInit /\ [][DNext]_dvars

-----------------------------------------------------------------------------
\* Properties.

\* What is sent to the devices, one entry for each.
Setpoints ==
  [charger_a : [Chargers -> Nat], heat_pump_limit : [HeatPumps -> Nat],
   battery : [Batteries -> Int], heat_pump_ext : [HeatPumps -> OptInt]]

Modes == {"normal", "dimmed", "releasing"}

\* Part of Status: what the next cycle or a property reads; `reserve` is not
\* reported, `ignoring` are the inverters among the fallbacks.
Statuses ==
  [mode : Modes, budget : Int \cup {Infinity}, feed_in : Percent,
   surplus : Nat \cup {None}, reserve : Nat, ignoring : SUBSET Inverters]

\* Every device has its setpoint, its state and its place in the report, in the
\* range it understands, however devices come and go.
DTypeOK ==
  /\ site \in SiteConfigs /\ ValidSite(site)
  /\ charger_on \in [Chargers -> BOOLEAN]
  /\ switched_age \in [Chargers -> 0 .. site.min_dwell]
  /\ pv_pct \in Percent /\ sent_pct \in [Inverters -> Percent]
  /\ over_age \in [Inverters -> (0 .. site.pv_follow_timeout) \cup {None}]
  /\ setpoints \in Setpoints /\ status \in Statuses
  /\ session \in [Chargers -> 0 .. site.patience + 2]

LoadsGranted(e) ==
  SumOver(LAMBDA i : ThreePhaseW(setpoints.charger_a[i]),
          Sharing(e))
  + SumOver(LAMBDA i : setpoints.heat_pump_limit[i],
            {i \in HeatPumps : ~Exempt(site.heat_pumps[i])})

\* "Every value is rounded down" (allocate): what a limited cycle grants the
\* loads and puts into batteries, with what unreachable and exempt devices
\* may draw, never exceeds the budget and what the batteries give, however
\* the loops share it out, as long as there is anything to share.
BudgetIsKept ==
  truth # None /\ status.budget # Infinity =>
    LET e == truth.env
        shared == status.budget - SumFunction(setpoints.battery) - status.reserve
    IN  LoadsGranted(e) + truth.exempt <= Most(Positive(shared), truth.exempt)

\* A device gets a limit it can follow: no current a car cannot charge with,
\* no power below a compressor's minimum ("go to the next lower possible
\* one", 4.6), whatever valid site and plan.
LimitsCanBeFollowed ==
  truth # None =>
    /\ \A i \in Chargers :
         setpoints.charger_a[i] \in {0} \cup (EvMinCurrentA .. site.chargers[i].max)
    /\ \A i \in HeatPumps :
         \/ setpoints.heat_pump_limit[i] = 0
         \/ setpoints.heat_pump_limit[i]
              \in site.heat_pumps[i].min .. site.heat_pumps[i].rated

Reached(e) == {i \in Chargers : e.cars[i].online} \cup
              {-i : i \in {j \in HeatPumps : e.pumps[j].online}}

\* What the devices under the floor take from the grid, all of them, as the
\* law counts it: beyond the PV surplus and what the batteries give.
TrueGridDraw(e, flows) ==
  LET all == flows.loads
  IN  Positive(all + flows.battery - Positive(flows.pv - flows.base))

\* A curtailed plant hides surplus that only its inverters know of.
SunHidden == \E i \in Inverters : sent_pct[i] < 100

\* What the sun, not held back by a limit, leaves for the batteries.
OpenSunLeft(e, flows) ==
  SumOver(LAMBDA i : SunOn(e, i), Inverters) - flows.base - flows.loads

\* The floor over two cycles, devices included: in a dimming, once a cycle
\* has set its limits, the controllable devices draw no more from the grid
\* than the floor, or than the unreachable ones draw on their own, unless
\* the surplus counted on, by the loads or by a plan for the batteries, has
\* gone or a device is lost or found.
FloorIsKept ==
  [][LET e == truth'.env
         f == truth'.flows
         counted == OrElse(status.surplus, 0)
     IN  /\ status.mode = "dimmed" /\ status'.mode = "dimmed"
         /\ truth # None
         /\ site.policy.contract = None
         /\ f.pv - f.base >= counted
         /\ truth.env.grid_plan # None =>
              f.pv - f.base >= OpenSunLeft(truth.env, truth.flows)
         /\ Reached(truth.env) = Reached(e)
         /\ \A i \in Batteries : e.bats[i].online
         => TrueGridDraw(e, f) <= Most(FloorW(site), status.reserve)]_dvars

\* "never charges from the grid while the consumption is dimmed"
\* (plan_batteries), two cycles in the same conditions on: what goes into
\* batteries is PV the site does not use.
NoGridCharging(e, f) ==
  f.battery > 0 => f.battery <= Positive(f.pv - f.base - f.loads)

Settled(old, new) ==
  old # None /\ old.env = new.env
    /\ old.flows.loads = new.flows.loads /\ old.flows.pv = new.flows.pv

NoGridChargingWhileDimmed ==
  [][status.mode = "dimmed" /\ status'.mode = "dimmed"
       /\ Settled(truth, truth') /\ truth.env.meter = "ok"
     => NoGridCharging(truth'.env, truth'.flows)]_dvars

\* The same where no feed-in limit hides PV from the meter.
NoGridChargingFromTheOpenSun ==
  [][status.mode = "dimmed" /\ status'.mode = "dimmed"
       /\ Settled(truth, truth') /\ truth.env.meter = "ok" /\ ~SunHidden
     => NoGridCharging(truth'.env, truth'.flows)]_dvars

\* min_dwell_s: a charger that has just started is stopped for a shrunken
\* budget alone, never in favour of a charger that may be switched, and one
\* that has just stopped does not start in place of one that waits longer.
DwellKept ==
  [][LET e == truth'.env
     IN  status'.budget # Infinity =>
         \A i, j \in Sharing(e) :
           /\ charger_on[i] /\ Locked(i, e.dt) /\ ~charger_on'[i] /\ charger_on'[j]
                => charger_on[j] /\ Locked(j, e.dt)
           /\ ~charger_on[i] /\ Locked(i, e.dt) /\ charger_on'[i]
                => charger_on'[j] \/ (~charger_on[j] /\ Locked(j, e.dt))]_dvars

\* No car leaves late for the plan's sake: one about to miss its departure
\* gets all its charger has when nothing limits, and none with more slack
\* goes before it when something does, unless by its dwell time.
DepartureBeforePlan ==
  [][LET e == truth'.env
         late == {i \in Chargers : /\ e.cars[i].online /\ e.cars[i].waiting
                                   /\ e.cars[i].laxity <= site.deadline_guard
                                   /\ ~Exempt(site.chargers[i])}
     IN  \A i \in late :
           /\ status'.budget = Infinity =>
                setpoints'.charger_a[i] = site.chargers[i].max
           /\ \A j \in Waiting(e) :
                /\ charger_on'[j] /\ ~charger_on'[i]
                /\ ~Exempt(site.chargers[j])
                => \/ e.cars[j].laxity <= e.cars[i].laxity
                   \/ Locked(i, e.dt) \/ Locked(j, e.dt)]_dvars

\* The rotation: where only one of two cars fits the floor, they take turns
\* (fewest kWh first, after the dwell time) and neither waits longer than
\* the site's patience.  Other sites have none to lose.
EveryCarGetsATurn ==
  [][site.name = "rotation" =>
       \A i \in Chargers : waited'[i] <= site.patience]_dvars

\* The limit the rules put on feed-in: the standing cap always, the DSO's
\* limit unless the year's free curtailment is used up, which an emergency
\* overrides.
LegalPct(e) ==
  Least(OrElse(site.policy.static_cap, 100),
        IF e.emergency \/ ~e.exhausted \/ ~site.policy.enforce
        THEN e.feed_in ELSE 100)

\* A limit on the plant's output holds for the plant: one cycle after the
\* inverters that ignore it are known, the plant produces no more than the
\* limit, or than those that cannot be made to follow.
PlantStaysUnderLimit ==
  [][LET e == truth'.env
         f == truth'.flows
         deaf == {i \in Inverters : e.inverters[i] # "ok"}
         limit == AllowedExport(LegalPct(truth.env))
         loud == SumOver(LAMBDA i : InverterOutput(e, i), deaf)
     IN  /\ truth # None
         /\ ~site.at_connection
         /\ truth.env.inverters = e.inverters /\ truth.env.sun = e.sun
         /\ \A i \in Inverters : e.inverters[i] # "off"
         /\ \A i \in deaf : i \in status.ignoring
                \/ InverterOutput(e, i) * 100 <= site.inverters[i] * sent_pct[i]
         => f.pv <= Most(limit, loud)]_dvars

\* A limit at the connection: with inverters that follow, a site that does
\* not use less than the cycle before exports no more than it may, unless the
\* sun rises while its batteries give more than it uses.
ExportStaysUnderLimit ==
  [][LET e == truth'.env
         f == truth'.flows
         old == truth.flows
     IN  /\ truth # None /\ site.at_connection
         /\ status.mode = "normal" /\ truth.env.meter = "ok"
         /\ LegalPct(truth.env) < 100
         /\ \A i \in Inverters :
              e.inverters[i] = "ok" /\ truth.env.inverters[i] = "ok"
         /\ \A i \in Batteries : e.bats[i].online
         /\ old.base + old.loads >= 0
         /\ f.base + f.loads >= old.base + old.loads
         /\ old.base + old.loads + SumFunction(setpoints.battery) < 0 => e.sun <= truth.env.sun
         => -f.grid <= AllowedExport(LegalPct(truth.env))]_dvars

\* What a cycle sends fits the budget and can be followed by who receives it.
SetpointsFit == DTypeOK /\ BudgetIsKept /\ LimitsCanBeFollowed

\* Who charges first: by departure, by dwell time, by turns.
CarsAreServedInTurn == EveryCarGetsATurn /\ DwellKept /\ DepartureBeforePlan

\* A feed-in limit holds where it is measured, at the plant or the connection.
FeedInLimitIsKept == PlantStaysUnderLimit /\ ExportStaysUnderLimit
=============================================================================
