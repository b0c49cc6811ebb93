------------------------------ MODULE Planner ------------------------------
(***************************************************************************)
(* Planning and following a plan: the problem the gateway builds for the   *)
(* site as it is (planning/input.rs), its constraints (planner/model.rs),  *)
(* and the guidance of the plan in force (planning/record.rs), quarter     *)
(* after quarter.  Time is steps of a quarter-hour; powers and energies    *)
(* are whole multiples of one unit, efficiencies are one.                  *)
(*                                                                         *)
(* The solver is external: it fails, or finds a feasible plan.  Costs are   *)
(* left open but one: ev_unmet_eur_per_kwh is above what energy costs, so  *)
(* a car leaves with as little missing as can be, unless the price of the  *)
(* battery's soft envelope, paid anew in every step, competes with it.     *)
(* There is no demand charge.  The comfort of the building is all cost and *)
(* no constraint: a heat pump is any load, and a building with a car is    *)
(* one that stays in its comfort band anyway.                              *)
(***************************************************************************)
EXTENDS Integers, Sequences, FiniteSetsExt, Functions

CONSTANTS
  Scenarios,    \* sites with their forecasts, one chosen in Init
  Horizon,      \* STEPS
  FollowedFor,  \* PLAN_MAX_AGE_S
  DimExpected,  \* DIM_EXPECTED_S
  Recovery,     \* recovery_steps
  Nothing

VARIABLES
  case,    \* the scenario
  step,    \* the step that begins
  stored,  \* in the battery
  left,    \* remaining_kwh
  dimmed,  \* the site is dimmed
  record,  \* the plan record in force
  solving, \* the step's plan is still to be made
  promise, \* history: energy the car's first plan leaves it without
  kept,    \* history: nothing has come otherwise than that plan assumed
  ran      \* history: how the step before went, or Nothing

planvars == <<case, step, stored, left, dimmed, record, solving, promise, kept, ran>>

Ahead == 1 .. Horizon
Lower(a, b) == IF a < b THEN a ELSE b
Higher(a, b) == IF a > b THEN a ELSE b
Above0(a) == Higher(a, 0)
Upto(f, k) == SumFunction([i \in 1 .. k |-> f[i]])
Between(f, j, k) == SumFunction([i \in j .. k |-> f[i]])

-----------------------------------------------------------------------------
\* The problem.

\* A car that has left, or needs nothing, is not planned for.
CarHere == /\ case.car # Nothing /\ left > 0
           /\ case.car.departs # Nothing => step < case.car.departs

\* Mutant: the whole time until departure is planned with.
DepartureNoBuffer(departs) ==
  IF departs = Nothing THEN Nothing ELSE Higher(departs - step, 1)

\* departure_buffer_h is one step.
Departure(departs) ==
  IF departs = Nothing THEN Nothing ELSE Higher(departs - step - 1, 1)

\* Only a contract leaves loads out of a dimming.
CarLeftOut == case.contract /\ case.car # Nothing /\ case.car.opted_out
HeatLeftOut == case.contract /\ case.heat_opted_out

\* A dimming in force is expected to last; the windows are by the clock.
ExpectDim ==
  [k \in Ahead |-> \/ dimmed /\ k <= DimExpected
                   \/ step + k - 1 \in case.windows]

\* build_input, with the forecasts of horizon().
BuildInput ==
  [pv |-> [k \in Ahead |-> case.pv[step + k]],
   pv_worst |-> [k \in Ahead |-> case.pv_worst[step + k]],
   base |-> [k \in Ahead |-> case.base[step + k]],
   base_worst |-> case.base_error,
   dim |-> ExpectDim,
   dim_floor |-> case.floor - case.margin,
   import_limit |-> case.import_limit, export_limit |-> case.export_limit,
   uncertainty |-> case.uncertainty,
   battery |-> IF case.battery = Nothing THEN Nothing
               ELSE [case.battery EXCEPT !.energy = stored],
   ev |-> IF ~CarHere THEN Nothing
          ELSE [remaining |-> left, max |-> case.car.max,
                departure |-> Departure(case.car.departs),
                dimmable |-> ~CarLeftOut],
   heat |-> case.heat, heat_dimmable |-> ~HeatLeftOut]

\* Energy the car should get within the horizon, pro rata if it stays longer.
Need(ev) ==
  IF ev.departure # Nothing /\ ev.departure > Horizon
  THEN (ev.remaining * Horizon + ev.departure - 1) \div ev.departure
  ELSE ev.remaining

\* What may be counted on where a shortfall would hurt.
PvLow(inp, k) ==
  IF inp.uncertainty = "robust" THEN Lower(inp.pv_worst[k], inp.pv[k]) ELSE inp.pv[k]

BaseHigh(inp, k) ==
  inp.base[k] + IF inp.uncertainty = "robust" THEN inp.base_worst ELSE 0

\* Mutant: the surplus of a dimmed step is the expected one.
DimBudgetExpected(inp, k) ==
  inp.dim_floor + Above0(inp.pv[k] - inp.base[k])

DimBudget(inp, k) ==
  inp.dim_floor + Above0(PvLow(inp, k) - BaseHigh(inp, k))

\* Mutant: the errors of a dimming are those of its last step.
WindowStartHere(inp, k) == k

\* Errors count from the start of the dimming the step is in, and for as
\* long before it as making them up takes.
WindowStart(inp, k) ==
  LET first == CHOOSE s \in 1 .. k :
                 /\ \A i \in s + 1 .. k : inp.dim[i] /\ inp.dim[i - 1]
                 /\ s > 1 => ~(inp.dim[s] /\ inp.dim[s - 1])
  IN  Higher(first + 1 - Recovery, 1)

\* How far the battery may be below its plan at the end of a step.
Tightening(inp, k) ==
  LET error == [i \in Ahead |->
                  Above0(inp.pv[i] - inp.pv_worst[i]) + inp.base_worst]
      at_risk == \E i \in k .. Lower(k + Recovery - 1, Horizon) : inp.dim[i]
  IN  IF inp.uncertainty = "robust" /\ at_risk
      THEN Between(error, WindowStart(inp, k), k) ELSE 0

-----------------------------------------------------------------------------
\* A plan: powers of the car, the heat pump and the battery (+ charging).

\* Mutant: the last step of a car's stay is not used, the one after it is.
AvailableLate(ev, k) == ev.departure = Nothing \/ k - 2 < ev.departure

\* The car is there for the step.
Available(ev, k) == ev.departure = Nothing \/ k - 1 < ev.departure

Candidates(inp) ==
  [ev : IF inp.ev = Nothing THEN {[k \in Ahead |-> 0]}
        ELSE {x \in [Ahead -> 0 .. inp.ev.max] :
                \A k \in Ahead : x[k] > 0 => Available(inp.ev, k)},
   heat : [Ahead -> 0 .. inp.heat],
   battery : IF inp.battery = Nothing THEN {[k \in Ahead |-> 0]}
             ELSE [Ahead -> -inp.battery.discharge .. inp.battery.charge]]

\* Mutant: a battery below its window must be back in it at once.
LowestStrict(b) == b.min

\* A battery outside its window may stay where it is.
Lowest(b) == Lower(b.min, b.energy)

\* PV is used as far as the export limit allows.
Grid(inp, p, k) ==
  Higher(inp.base[k] + p.ev[k] + p.heat[k] + p.battery[k] - inp.pv[k],
         -inp.export_limit)

HasDimmable(inp) ==
  \/ inp.battery # Nothing
  \/ inp.heat > 0 /\ inp.heat_dimmable
  \/ inp.ev # Nothing /\ inp.ev.dimmable

Feasible(inp, p) ==
  /\ inp.battery # Nothing =>
       \A k \in Ahead : inp.battery.energy + Upto(p.battery, k)
                          \in Lowest(inp.battery) ..
                              Higher(inp.battery.max, inp.battery.energy)
  /\ \A k \in Ahead :
       /\ Grid(inp, p, k) <= inp.import_limit
       /\ inp.base[k] + p.ev[k] + p.heat[k] + p.battery[k] >= -inp.export_limit
       /\ inp.dim[k] /\ HasDimmable(inp) =>
            p.battery[k] + (IF inp.heat_dimmable THEN p.heat[k] ELSE 0)
              + (IF inp.ev # Nothing /\ inp.ev.dimmable THEN p.ev[k] ELSE 0)
              <= DimBudget(inp, k)

Unmet(inp, p) ==
  IF inp.ev = Nothing THEN 0 ELSE Above0(Need(inp.ev) - Upto(p.ev, Horizon))

\* The soft envelope holds.
Envelope(inp, p) ==
  inp.battery # Nothing =>
    \A k \in Ahead :
      Tightening(inp, k) > 0 =>
        inp.battery.energy + Upto(p.battery, k) >= inp.battery.min + Tightening(inp, k)

\* Nothing is dearer than a car that leaves without its energy.
CarFirst(inp) == inp.uncertainty = "deterministic" \/ inp.battery = Nothing

\* What the solver may answer.
Solutions(inp) ==
  LET all == {p \in Candidates(inp) : Feasible(inp, p)}
      least == Min({Unmet(inp, p) : p \in all})
  IN  IF all = {} \/ ~CarFirst(inp) THEN all ELSE {p \in all : Unmet(inp, p) = least}

-----------------------------------------------------------------------------
\* The plan in force.

Record(inp, p) ==
  [start |-> step, ev |-> p.ev, heat |-> p.heat, battery |-> p.battery,
   grid |-> [k \in Ahead |-> Grid(inp, p, k)],
   dim |-> inp.dim, enveloped |-> Envelope(inp, p)]

\* Mutant: a plan is read a step ahead.
StepAtNext(t) == t - record.start + 2

\* step_at
StepAt(t) == t - record.start + 1

\* guidance_at
Guided == record # Nothing /\ step - record.start < FollowedFor /\ StepAt(step) \in Ahead

Guide ==
  LET k == StepAt(step)
  IN  [ev |-> record.ev[k], heat |-> record.heat[k], grid |-> record.grid[k],
       battery |-> record.battery[k], dim |-> record.dim[k]]

\* accept: the plan of this step, for the readings of this step.
FoundPlan ==
  /\ solving /\ solving' = FALSE
  /\ \E inp \in {BuildInput} :
     \E p \in Solutions(inp) :
       /\ record' = Record(inp, p)
       /\ promise' = IF promise = Nothing /\ inp.ev # Nothing THEN Unmet(inp, p) ELSE promise
       \* the horizon sees the car's whole stay; only windows are expected
       /\ kept' = (kept /\ CarFirst(inp)
                        /\ (inp.ev # Nothing /\ promise = Nothing =>
                               /\ inp.ev.departure \in Ahead
                               /\ step < case.car.departs - 1)
                        /\ \A k \in Ahead : inp.dim[k] => step + k - 1 \in case.windows)
  /\ UNCHANGED <<case, step, stored, left, dimmed, ran>>

\* The solver fails, or finds nothing: the plan before stays in force.
Unsolved ==
  /\ solving /\ solving' = FALSE
  /\ case.fails \/ Solutions(BuildInput) = {}
  /\ UNCHANGED <<case, step, stored, left, dimmed, record, promise, kept, ran>>

-----------------------------------------------------------------------------
\* The real-time layer follows it (module Dispatch, external here).

InWindow(b, e) == Higher(Lower(b, Lower(case.battery.charge, case.battery.max - e)),
                         -Lower(case.battery.discharge, Above0(e - case.battery.min)))

\* The step under a plan: the battery holds the plan's exchange with the
\* grid, while dimmed with no more than the surplus; the loads get what was
\* planned as far as the budget of a dimming goes.  A load left out of it is
\* not limited, but what it draws is taken from the budget of the others.
Follow(g, pv, base) ==
  LET car == IF CarHere THEN Lower(g.ev, left) ELSE 0
      loads == car + g.heat
      exempt == (IF CarLeftOut THEN car ELSE 0) + (IF HeatLeftOut THEN g.heat ELSE 0)
      idle == base + loads - pv
      want == IF dimmed THEN Lower(g.grid - idle, Above0(pv - base - loads))
              ELSE g.grid - idle
      flow == IF case.battery = Nothing THEN 0 ELSE InWindow(want, stored)
      budget == case.floor - case.margin + Above0(pv - base) - flow
      fits == ~dimmed \/ loads = exempt \/ loads <= budget
  IN  /\ ran' = [dimmed |-> dimmed, expected |-> g.dim, fits |-> fits, exempt |-> exempt,
                 lasts |-> case.battery # Nothing =>
                             idle + flow <= g.grid \/ flow = -case.battery.discharge,
                 enveloped |-> record.enveloped]
      /\ stored' = stored + flow
      /\ left' \in (IF fits \/ CarLeftOut THEN {left - car} ELSE (left - car) .. left)

\* The step by rules alone, whatever they do.
ByRules ==
  /\ ran' = Nothing
  /\ stored' \in IF case.battery = Nothing THEN {stored}
                 ELSE {stored + InWindow(b, stored) : b \in {-1, 0, 1}}
  /\ left' \in IF CarHere THEN Above0(left - case.car.max) .. left ELSE {left}

\* A step passes.  The weather, the base load and the DSO do as they like
\* within the scenario.
Pass ==
  /\ ~solving /\ step < case.until
  /\ \E pv \in case.pv_worst[step + 1] .. case.pv[step + 1],
        base \in case.base[step + 1] .. case.base[step + 1] + case.base_error :
       /\ IF Guided THEN Follow(Guide, pv, base) ELSE ByRules
       /\ kept' = (kept /\ Guided /\ pv = case.pv[step + 1]
                    /\ base = case.base[step + 1] /\ (dimmed => Guide.dim /\ ~(HeatLeftOut /\ Guide.heat > 0)))
  /\ step' = step + 1
  /\ dimmed' \in {FALSE, step + 1 \in case.dims}
  /\ solving' = TRUE
  /\ UNCHANGED <<case, record, promise>>

Over == ~solving /\ step = case.until /\ UNCHANGED planvars

PlanInit ==
  /\ case \in Scenarios
  /\ step = 0
  /\ stored = IF case.battery = Nothing THEN 0 ELSE case.battery.energy
  /\ left = IF case.car = Nothing THEN 0 ELSE case.car.remaining
  /\ dimmed \in {FALSE, 0 \in case.dims}
  /\ record = Nothing /\ solving = TRUE
  /\ promise = Nothing /\ kept = TRUE /\ ran = Nothing

PlanNext == FoundPlan \/ Unsolved \/ Pass \/ Over

-----------------------------------------------------------------------------
\* Properties.

\* A car planned for from now to its departure has what its first plan
\* promised a step before it leaves, however often the problem is solved
\* anew, or is not, and whichever of the best plans is found, as long as the
\* car comes first, all comes as forecast, and no heat pump left out of a
\* dimming takes from its budget what the plan had for the car.
PromiseIsKept ==
  kept /\ promise # Nothing /\ step >= case.car.departs - 1 => left <= promise

\* In a dimming the plan expects, the loads get what was planned: the worst
\* day of the uncertainty set leaves them that much budget.  Not so beside a
\* load that a contract leaves out: the controller takes its draw from the
\* budget, the planner does not.
PlanFitsTheDimming ==
  ran # Nothing /\ ran.dimmed /\ ran.expected /\ ran.exempt = 0
    /\ case.uncertainty = "robust"
  => ran.fits

\* And where the plan kept the battery's envelope, the battery lasts: the
\* site never draws more from the grid than planned for want of energy, on
\* the worst day too.  (The envelope keeps no power in reserve.)
BatteryLastsTheDimming ==
  ran # Nothing /\ ran.dimmed /\ ran.expected /\ ran.enveloped
    /\ case.uncertainty = "robust"
  => ran.lasts

\* A site whose base load its connection carries, and whose floor is above
\* its margin, always has a plan, whatever state it got into.
AlwaysSolvable ==
  case.floor >= case.margin
    /\ (\A k \in Ahead : case.base[step + k] <= case.import_limit)
  => Solutions(BuildInput) # {}

PlansAreGood ==
  PromiseIsKept /\ PlanFitsTheDimming /\ BatteryLastsTheDimming
    /\ (solving => AlwaysSolvable)
=============================================================================
