----------------------------- MODULE MCDispatch -----------------------------
(* Control cycles, plans made and followed quarter after quarter, and the  *)
(* configuration file loaded, each on its own: which one runs is chosen at *)
(* the start.                                                              *)
EXTENDS Dispatch, Planner, Setup

VARIABLE part

NoOverrides ==
  [static_cap |-> None, budget |-> None, enforce |-> None,
   min_w |-> None, max_minutes |-> None]

Bare ==
  [name |-> "bare", policy |-> PolicyOf("DE", NoOverrides),
   pv_installed |-> 20000, connection |-> 60000, pv_ramp |-> 10, margin |-> 500,
   min_dwell |-> 2, pv_follow_timeout |-> 2, deadline_guard |-> 9, patience |-> 0,
   import_target |-> 0, at_connection |-> FALSE,
   chargers |-> <<>>, heat_pumps |-> <<>>, batteries |-> <<>>,
   inverters |-> <<20000>>]

Charger(max, opted) == [max |-> max, failsafe |-> EvMinCurrentA, opted_out |-> opted]
HeatPump(rated, min, opted) == [rated |-> rated, min |-> min, opted_out |-> opted]
Battery == [capacity |-> 10000, charge |-> 8000, discharge |-> 8000,
            min_soc |-> 10, max_soc |-> 95]

\* Two cars and a large heat pump under the floor of 14a.
Street == [Bare EXCEPT !.name = "street",
             !.chargers = <<Charger(16, FALSE), Charger(11, FALSE)>>,
             !.heat_pumps = <<HeatPump(12000, 3000, FALSE)>>]

\* A contract that leaves some devices out.
Swiss == [Bare EXCEPT !.name = "swiss",
            !.policy = PolicyOf("CH", [NoOverrides EXCEPT !.min_w = 9000]),
            !.chargers = <<Charger(16, FALSE), Charger(10, TRUE)>>,
            !.heat_pumps = <<HeatPump(6000, 2000, TRUE), HeatPump(5000, 1500, FALSE)>>]

\* One place for two cars.
Rotation == [Bare EXCEPT !.name = "rotation", !.patience = 7,
               !.policy = PolicyOf("AT", [NoOverrides EXCEPT !.min_w = 6000]),
               !.chargers = <<Charger(16, FALSE), Charger(16, FALSE)>>]

\* Inverters that may not follow.
Plant == [Bare EXCEPT !.name = "plant", !.pv_installed = 40000,
            !.policy = PolicyOf("CH", [NoOverrides EXCEPT !.static_cap = 70]),
            !.inverters = <<20000, 20000>>]

\* A battery at the connection, and one behind a limited plant.
Store(at) == [Bare EXCEPT !.name = "store", !.at_connection = at, !.pv_ramp = 50,
                !.policy = PolicyOf("DE", [NoOverrides EXCEPT !.static_cap = 60]),
                !.chargers = <<Charger(16, FALSE)>>, !.batteries = <<Battery>>]

\* Sites that a configuration may describe and the gateway refuses.
Refused ==
  {[Street EXCEPT !.chargers[1].max = 5],
   [Street EXCEPT !.heat_pumps[1].min = 13000],
   [Street EXCEPT !.policy = [ForCountry("DE") EXCEPT !.contract = NoDayLimit]]}

MCSites == {Street, Swiss, Rotation, Plant, Store(TRUE), Store(FALSE)} \cup Refused

Never == 100000

Quiet ==
  [dt |-> 1, base |-> 1000, sun |-> 0, sun_reported |-> FALSE, meter |-> "ok",
   dim |-> FALSE, feed_in |-> 100, emergency |-> FALSE, exhausted |-> FALSE,
   grid_plan |-> None, dim_expected |-> FALSE,
   inverters |-> <<"ok">>, cars |-> <<>>, pumps |-> <<>>, bats |-> <<>>]

Car(online, waiting, laxity, plan) ==
  [online |-> online, waiting |-> waiting, laxity |-> laxity, plan |-> plan]
Gone == Car(TRUE, FALSE, Never, None)
Parked == Car(TRUE, TRUE, Never, None)
Pump(demand, plan) == [online |-> TRUE, demand |-> demand, plan |-> plan]
DeadPump == [online |-> FALSE, demand |-> 0, plan |-> None]
Bat(below, above) == [online |-> TRUE, below |-> below, above |-> above]

\* Sun and clouds under a dimming and after it, with a heat pump that is
\* lost, a charger that is lost, or a car whose plan says "not now".
StreetEnvironments ==
  {[Quiet EXCEPT !.sun = c[1], !.dim = dim, !.cars = <<c[2], c[3]>>, !.pumps = <<c[4]>>] :
     dim \in BOOLEAN,
     c \in {<<0, Parked, Gone, Pump(9000, None)>>,
           <<60, Parked, Parked, Pump(9000, None)>>,
           <<60, Parked, Parked, DeadPump>>,
           <<0, Car(TRUE, TRUE, Never, 1000), Car(TRUE, TRUE, 5, 1000), Pump(9000, 4000)>>,
           <<60, Car(FALSE, TRUE, Never, None), Parked, Pump(2000, None)>>}}

SwissEnvironments ==
  {[Quiet EXCEPT !.dim = dim, !.cars = <<c[1], c[2]>>, !.pumps = <<c[3], c[4]>>] :
     dim \in BOOLEAN,
     c \in {<<Parked, Parked, Pump(1000, None), Pump(4000, None)>>,
           <<Gone, Parked, Pump(5000, None), Pump(4000, 1800)>>,
           <<Parked, Gone, DeadPump, Pump(1000, None)>>,
           <<Car(TRUE, TRUE, Never, 6000), Gone, Pump(1000, None), DeadPump>>}}

RotationEnvironments ==
  {[Quiet EXCEPT !.dim = TRUE, !.dt = dt, !.cars = <<Parked, Parked>>] : dt \in {1, 2}}

PlantEnvironments ==
  {[Quiet EXCEPT !.sun = sun, !.feed_in = c[1], !.emergency = c[2],
                 !.exhausted = c[3], !.inverters = <<i1, i2>>] :
     sun \in {0, 80},
     c \in {<<100, FALSE, FALSE>>, <<30, FALSE, FALSE>>, <<30, FALSE, TRUE>>, <<30, TRUE, TRUE>>},
     i1 \in {"ok", "stuck"}, i2 \in {"ok", "stuck", "off"}}

\* Sun behind a feed-in limit, seen by the inverters or not, with plans that
\* import or export, and nights with an empty battery or a wrong meter.
StoreEnvironments ==
  {[Quiet EXCEPT !.sun = 90, !.sun_reported = c[1], !.feed_in = c[2], !.grid_plan = c[3],
                 !.dim = c[4], !.dim_expected = TRUE,
                 !.cars = <<IF c[4] THEN Parked ELSE Gone>>, !.bats = <<Bat(5000, 5000)>>] :
     c \in {<<TRUE, 0, 4000, TRUE>>, <<TRUE, 0, None, TRUE>>, <<TRUE, 100, 4000, TRUE>>,
           <<TRUE, 0, None, FALSE>>, <<FALSE, 0, -20000, FALSE>>, <<TRUE, 0, -20000, FALSE>>}}
  \cup
  {[Quiet EXCEPT !.dim = TRUE, !.cars = <<c[1]>>, !.bats = <<Bat(c[2], 5000)>>, !.meter = c[3]] :
     c \in {<<Gone, 5000, "ok">>, <<Parked, 100, "ok">>, <<Parked, 5000, "wrong">>}}

MCEnvironments(s) ==
  CASE s.name = "street" -> StreetEnvironments
    [] s.name = "swiss" -> SwissEnvironments
    [] s.name = "rotation" -> RotationEnvironments
    [] s.name = "plant" -> PlantEnvironments
    [] s.name = "store" -> StoreEnvironments

-----------------------------------------------------------------------------
\* Forecasts, dimmings and devices to plan for.

Flat(x) == [k \in 1 .. 8 |-> x]
Plain ==
  [pv |-> Flat(0), pv_worst |-> Flat(0), base |-> Flat(1), base_error |-> 0,
   windows |-> {}, dims |-> {}, floor |-> 1, margin |-> 0, contract |-> FALSE,
   import_limit |-> 4, export_limit |-> 3, uncertainty |-> "deterministic",
   battery |-> Nothing, car |-> Nothing, heat |-> 0, heat_opted_out |-> FALSE,
   fails |-> TRUE, until |-> 4]
CarFor(n, departs) == [remaining |-> n, max |-> 1, departs |-> departs, opted_out |-> FALSE]
Cells(e, min) == [energy |-> e, min |-> min, max |-> 3, charge |-> 1, discharge |-> 1]
MCScenarios ==
  {\* a car through a dimming window, its departure in the horizon
   [Plain EXCEPT !.car = CarFor(2, 4), !.windows = {1}, !.dims = {1}, !.floor = 0, !.battery = Cells(1, 0)],
   [Plain EXCEPT !.car = CarFor(1, 3), !.windows = {1, 2}, !.dims = {0, 1, 2}, !.floor = 1],
   [Plain EXCEPT !.car = CarFor(3, Nothing), !.heat = 1, !.dims = {2}, !.windows = {2}],
   \* cloudy days
   [Plain EXCEPT !.pv = Flat(3), !.pv_worst = Flat(2), !.windows = {1, 2}, !.dims = {1, 2},
                 !.uncertainty = "robust", !.battery = Cells(2, 0), !.car = CarFor(2, 4), !.until = 3],
   [Plain EXCEPT !.pv = Flat(3), !.pv_worst = Flat(2), !.windows = {1}, !.dims = {1}, !.floor = 0,
                 !.uncertainty = "robust", !.heat = 1, !.car = CarFor(2, 4)],
   [Plain EXCEPT !.base_error = 1, !.windows = {1, 2}, !.dims = {1, 2}, !.floor = 0,
                 !.uncertainty = "robust", !.battery = Cells(2, 0)],
   [Plain EXCEPT !.battery = Cells(0, 1), !.windows = {0, 1}, !.dims = {0, 1}, !.floor = 0],
   \* a contract that leaves the heat pump out, or the car
   [Plain EXCEPT !.contract = TRUE, !.heat = 1, !.heat_opted_out = TRUE, !.uncertainty = "robust",
                 !.windows = {1}, !.dims = {1}, !.car = CarFor(2, 4)],
   [Plain EXCEPT !.contract = TRUE, !.heat = 1, !.floor = 0, !.uncertainty = "robust", !.windows = {1},
                 !.dims = {1}, !.car = [CarFor(3, 4) EXCEPT !.opted_out = TRUE]]}

-----------------------------------------------------------------------------
\* Files to load.

PlainFile ==
  [site |-> [jurisdiction |-> None, pv_installed |-> 120000, connection |-> 100000, yield |-> None,
             feed_in_reference |-> "plant_output", release_ramp |-> 300, pv_ramp |-> None,
             margin |-> 500, min_dwell |-> 300, deadline_guard |-> None, surplus_hold |-> None,
             import_target |-> None, release_delay_max |-> None, pv_follow_timeout |-> None,
             compliance_grace |-> None, period_ms |-> 1000, stale_ms |-> 3000],
   policy |-> NoOverrides, inverters |-> 2,
   chargers |-> <<[max |-> 32, failsafe |-> 6, failsafe_timeout |-> 60, opted_out |-> None]>>,
   heat_pumps |-> <<[rated |-> 14000, min |-> 3000, opted_out |-> TRUE]>>,
   batteries |-> <<[capacity |-> 100000, charge |-> 50000, discharge |-> 50000,
                    min_soc |-> 10, max_soc |-> 95, watchdog |-> 30]>>,
   iec104 |-> [common_address |-> 1, deadband |-> 500, on_link_loss |-> None, link_loss_release |-> None],
   relay |-> [input |-> 3, active_when |-> None, debounce_ms |-> None, on_input_loss |-> None, input_loss |-> None],
   eebus |-> [loopback |-> TRUE, timeout |-> None],
   planner |->
     [enabled |-> None, uncertainty |-> None, epsilon |-> None,
      dim_windows |-> {<<<<17, 30>>, <<19, 30>>>>},
      prices |-> [sources |-> {"entsoe", "energy-charts"}, bidding_zone |-> None, adder |-> 12,
                  fixed |-> None, file |-> FALSE, refresh |-> None],
      weather |-> [latitude |-> 49, longitude |-> 7, tilt |-> 15, azimuth |-> 0,
                   performance_ratio |-> None, refresh |-> None],
      demand_charge |-> [per_kw_year |-> 10000, billing |-> None, peak_floor |-> None],
      building |-> [ua |-> 1200, cap |-> 18000, day_min |-> 20, night_min |-> 17, max |-> 23,
                    day_start |-> <<6, 0>>, day_end |-> <<22, 0>>]]]

\* One key, or two that belong together, say something else.
Edits(f) ==
  {[f EXCEPT !.site.jurisdiction = j, !.policy.min_w = m, !.policy.static_cap = cap] :
     j \in {None, "AT", "CH", "FR"}, m \in {None, -1, 8000}, cap \in {None, 60, 120}}
  \cup {[f EXCEPT !.site.period_ms = t, !.site.stale_ms = 1000] : t \in {99, 100, 500, 501}}
  \cup {[f EXCEPT !.site.compliance_grace = t, !.site.pv_follow_timeout = u] : t \in {-1, 0}, u \in {-1, 0}}
  \cup {[f EXCEPT !.chargers[1].max = m, !.chargers[1].failsafe = a] : m \in {5, 6, 63, 64}, a \in {-1, 0, 5, 6, 32}}
  \cup {[f EXCEPT !.heat_pumps[1].rated = r, !.heat_pumps[1].min = m] : r \in {0, 3000}, m \in {-1, 0, 3000, 3001}}
  \cup {[f EXCEPT !.batteries[1].capacity = c, !.batteries[1].max_soc = m] : c \in {0, 1}, m \in {10, 11, 101}}
  \cup {[f EXCEPT !.batteries = <<>>, !.heat_pumps = hs, !.inverters = n] : hs \in {<<>>, f.heat_pumps}, n \in {0, 1}}
  \cup {[f EXCEPT !.relay.debounce_ms = d, !.relay.input_loss = l] : d \in {10000, 10001}, l \in {0, 1}}
  \cup {[f EXCEPT !.eebus = e] : e \in [loopback : BOOLEAN, timeout : {0, 1}]}
  \cup {[f EXCEPT !.relay = None, !.eebus = None, !.planner = None]}
  \cup {[f EXCEPT !.planner.uncertainty = u, !.planner.epsilon = e] :
          u \in {"chance", "robust", "stochastic"}, e \in {None, 0, 1, 499, 500}}
  \cup {[f EXCEPT !.planner.dim_windows = {<<a, z>>, <<<<6, 0>>, <<7, 0>>>>}] :
          a \in {<<0, 0>>, <<17, 30>>, <<17, 60>>}, z \in {<<17, 30>>, <<24, 0>>, <<24, 1>>, <<25, 0>>}}
  \cup {[f EXCEPT !.planner.prices.sources = s, !.planner.prices.file = on, !.planner.prices.bidding_zone = z] :
          s \in {{}, {"file"}, {"nordpool", "entsoe"}}, on \in BOOLEAN, z \in {None, "AT", "FR"}}
  \cup {[f EXCEPT !.planner.weather = w] :
          w \in {None} \cup {[f.planner.weather EXCEPT ![k] = x] :
                               k \in {"latitude", "longitude", "tilt", "azimuth", "performance_ratio"},
                               x \in {-181, -91, 0, 31, 100, 181}}}
  \cup {[f EXCEPT !.planner.demand_charge = d] :
          d \in {None} \cup [per_kw_year : {-1, 0}, billing : {"month", "week"}, peak_floor : {None, -1}]}
  \cup {[f EXCEPT !.planner.building.ua = u, !.planner.building.cap = c] : u \in {0, 1200}, c \in {0, 300, 301, 1200, 1201}}
  \cup {[f EXCEPT !.planner.building.night_min = n, !.planner.building.max = m] : n \in {20, 21}, m \in {20, 21}}
  \cup {[f EXCEPT !.planner.building.day_start = a, !.planner.building.day_end = z] :
          a \in {<<6, 0>>, <<22, 0>>}, z \in {<<22, 0>>, <<24, 30>>}}

MCFiles == {PlainFile} \cup Edits(PlainFile)

-----------------------------------------------------------------------------
MCInit ==
  /\ part \in {"cycles", "plans", "setup"}
  /\ DInit /\ (part # "cycles" => site = Plant)
  /\ PlanInit /\ (part # "plans" => case.heat = 1 /\ case.uncertainty = "deterministic" /\ ~dimmed)
  /\ SetupInit /\ (part # "setup" => file = PlainFile)

\* The file is loaded once.
Started == part = "setup" /\ loaded /\ UNCHANGED <<part, dvars, planvars, setupvars>>

MCNext ==
  \/ part = "cycles" /\ DNext /\ UNCHANGED <<part, planvars, setupvars>>
  \/ part = "plans" /\ PlanNext /\ UNCHANGED <<part, dvars, setupvars>>
  \/ part = "setup" /\ SetupNext /\ UNCHANGED <<part, dvars, planvars>>
  \/ Started

MCSpec == MCInit /\ [][MCNext]_<<part, dvars, planvars, setupvars>>
=============================================================================
