------------------------------- MODULE Setup -------------------------------
(***************************************************************************)
(* From gateway.toml to the parts that run on it (config.rs): what the     *)
(* file may say, what a missing key means, what Config::load refuses, and  *)
(* what main, the planning layer and the planner take for granted later.   *)
(*                                                                         *)
(* A key that is missing is None.  Text is what it is parsed to: times of  *)
(* day are <<hours, minutes>>.  Powers are W, times s but for the two      *)
(* periods (ms), shares %, epsilon and efficiencies 0.1 %, money cents.    *)
(***************************************************************************)
EXTENDS SiteConfig, FiniteSets

CONSTANT Files  \* files to load

VARIABLES
  file,    \* what gateway.toml says
  loaded,  \* Config::load has returned
  config   \* its Config; None: an error

setupvars == <<file, loaded, config>>

-----------------------------------------------------------------------------
\* The sections of a file.

Opt(S) == S \cup {None}
U16 == 0 .. 65535

References == {"plant_output", "grid_connection_point"}

SiteSection ==
  [jurisdiction : Opt({"DE", "AT", "CH", "FR"}), pv_installed : Int, connection : Int,
   yield : Opt(Int), feed_in_reference : References,
   release_ramp : Int, pv_ramp : Opt(Int), margin : Int, min_dwell : Int,
   deadline_guard : Opt(Int), surplus_hold : Opt(Int), import_target : Opt(Int),
   release_delay_max : Opt(Int), pv_follow_timeout : Opt(Int),
   compliance_grace : Opt(Int), period_ms : Nat, stale_ms : Nat]

PolicySection ==
  [static_cap : Opt(Int), budget : Opt(Int), enforce : Opt(BOOLEAN),
   min_w : Opt(Int), max_minutes : Opt(Int)]

ChargerSection ==
  [max : Int, failsafe : Int, failsafe_timeout : U16, opted_out : Opt(BOOLEAN)]

HeatPumpSection == [rated : Int, min : Int, opted_out : Opt(BOOLEAN)]

BatterySection ==
  [capacity : Int, charge : Int, discharge : Int, min_soc : Int, max_soc : Int,
   watchdog : U16]

LinkSection ==
  [common_address : U16, deadband : Int, on_link_loss : Opt({"hold", "release"}),
   link_loss_release : Opt(Nat)]

RelaySection ==
  [input : U16, active_when : Opt({"closed", "open"}), debounce_ms : Opt(Nat),
   on_input_loss : Opt({"hold", "dim"}), input_loss : Opt(Nat)]

EebusSection == [loopback : BOOLEAN, timeout : Opt(Nat)]

PricesSection ==
  [sources : SUBSET {"entsoe", "energy-charts", "file", "nordpool"},
   bidding_zone : Opt({"DE-LU", "AT", "CH", "FR"}), adder : Int,
   fixed : Opt(Int), file : BOOLEAN, refresh : Opt(Nat)]

WeatherSection ==
  [latitude : Int, longitude : Int, tilt : Int, azimuth : Int,
   performance_ratio : Opt(Int), refresh : Opt(Nat)]

DemandSection == [per_kw_year : Int, billing : Opt({"year", "month", "week"}), peak_floor : Opt(Int)]

BuildingSection ==
  [ua : Int, cap : Int, day_min : Int, night_min : Int, max : Int,
   day_start : Nat \X Nat, day_end : Nat \X Nat]

PlannerSection ==
  [enabled : Opt(BOOLEAN),
   uncertainty : Opt({"deterministic", "chance", "robust", "stochastic"}),
   epsilon : Opt(Int), dim_windows : SUBSET ((Nat \X Nat) \X (Nat \X Nat)),
   prices : PricesSection, weather : Opt(WeatherSection),
   demand_charge : Opt(DemandSection), building : Opt(BuildingSection)]

\* Config.  Addresses are left out, but for how many inverters there are.
FileSection ==
  [site : SiteSection, policy : PolicySection, inverters : Nat,
   chargers : Seq(ChargerSection), heat_pumps : Seq(HeatPumpSection),
   batteries : Seq(BatterySection), iec104 : LinkSection,
   relay : Opt(RelaySection), eebus : Opt(EebusSection), planner : Opt(PlannerSection)]

WellFormed(f) ==
  /\ f \in FileSection
  /\ f.planner # None => IsFiniteSet(f.planner.dim_windows)

-----------------------------------------------------------------------------
\* Keys that may be missing.

Defaults ==
  [enabled |-> TRUE, uncertainty |-> "deterministic", epsilon |-> 50,
   refresh |-> 3600, performance_ratio |-> 85, billing |-> "year",
   jurisdiction |-> "DE", deadline_guard |-> 900, surplus_hold |-> 30,
   on_link_loss |-> "hold", link_loss_release |-> 900, active_when |-> "closed",
   debounce_ms |-> 500, on_input_loss |-> "hold", input_loss |-> 5, timeout |-> 15]

\* Those whose default stands apart in config.rs, or is the type's own.
MoreDefaults ==
  [pv_ramp |-> 10, pv_follow_timeout |-> 30, compliance_grace |-> 60,
   import_target |-> 0, release_delay_max |-> 0, opted_out |-> FALSE, peak_floor |-> 0]

\* Files say what a configuration may say; a key that is missing has no value.
ASSUME SetupAssumption ==
  /\ \A f \in Files : WellFormed(f)
  /\ None \notin Int /\ None \notin References /\ None \notin Int \X Int
  /\ \A k \in DOMAIN Defaults : Defaults[k] # None
  /\ \A k \in DOMAIN MoreDefaults : MoreDefaults[k] # None

\* serde: a section with its missing keys filled in.
WithDefaults(section) ==
  [k \in DOMAIN section |->
     IF section[k] # None THEN section[k]
     ELSE IF k \in DOMAIN Defaults THEN Defaults[k]
     ELSE IF k \in DOMAIN MoreDefaults THEN MoreDefaults[k] ELSE None]

\* A section that may be missing itself.
IfGiven(section) == IF section = None THEN None ELSE WithDefaults(section)

EachWithDefaults(sections) == [i \in DOMAIN sections |-> WithDefaults(sections[i])]

PlannerWithDefaults(p) ==
  [WithDefaults(p) EXCEPT !.prices = WithDefaults(@), !.weather = IfGiven(@),
                          !.demand_charge = IfGiven(@)]

Parsed(f) ==
  [f EXCEPT !.site = WithDefaults(@), !.chargers = EachWithDefaults(@), !.heat_pumps = EachWithDefaults(@),
            !.iec104 = WithDefaults(@), !.relay = IfGiven(@), !.eebus = IfGiven(@),
            !.planner = IF @ = None THEN None ELSE PlannerWithDefaults(@)]

-----------------------------------------------------------------------------
\* What a file is made into.

\* parse_hhmm: minutes after midnight, or None.
ParseHhmm(t) ==
  IF t[1] <= 24 /\ t[2] < 60 /\ 60 * t[1] + t[2] <= 1440 THEN 60 * t[1] + t[2] ELSE None

\* Mutant: a window may be empty, or end before it starts.
ParseWindowAny(w) ==
  LET a == ParseHhmm(w[1])
      b == ParseHhmm(w[2])
  IN  IF None \notin {a, b} THEN <<a, b>> ELSE None

\* parse_window
ParseWindow(w) ==
  LET a == ParseHhmm(w[1])
      b == ParseHhmm(w[2])
  IN  IF None \notin {a, b} /\ a < b THEN <<a, b>> ELSE None

\* Planner::bidding_zone
BiddingZone(p, jurisdiction) ==
  OrElse(p.prices.bidding_zone, IF jurisdiction = "DE" THEN "DE-LU" ELSE jurisdiction)

\* Config::site_config; None where the policy is an error.
SiteOf(f) ==
  LET policy == IF f.site.jurisdiction \in Jurisdictions
                THEN PolicyOf(f.site.jurisdiction, f.policy) ELSE None
  IN  IF policy = None THEN None
      ELSE [policy |-> policy, pv_installed |-> f.site.pv_installed,
            connection |-> f.site.connection,
            yield |-> OrElse(f.site.yield, f.site.pv_installed),
            chargers |-> f.chargers, heat_pumps |-> f.heat_pumps, batteries |-> f.batteries,
            at_connection |-> f.site.feed_in_reference = "grid_connection_point",
            release_ramp |-> f.site.release_ramp, pv_ramp |-> f.site.pv_ramp,
            margin |-> f.site.margin, min_dwell |-> f.site.min_dwell,
            deadline_guard |-> f.site.deadline_guard, surplus_hold |-> f.site.surplus_hold,
            import_target |-> f.site.import_target,
            release_delay_max |-> f.site.release_delay_max,
            pv_follow_timeout |-> f.site.pv_follow_timeout,
            compliance_grace |-> f.site.compliance_grace]

-----------------------------------------------------------------------------
\* What is refused.

\* SiteConfig::validate, with the times ValidSite leaves out.
ValidTimes(s) ==
  \A t \in {s.release_ramp, s.surplus_hold, s.release_delay_max, s.compliance_grace} : t >= 0

\* The sources fetch_one knows, and what they need.
ValidPrices(p) ==
  /\ p.sources # {}
  /\ p.sources \subseteq {"entsoe", "energy-charts", "file"}
  /\ "file" \in p.sources => p.file

ValidWeather(w) ==
  /\ w.latitude \in -90 .. 90 /\ w.longitude \in -180 .. 180
  /\ w.tilt \in 0 .. 90 /\ w.azimuth \in -180 .. 180
  /\ w.performance_ratio \in 31 .. 100

ValidDemand(d) == d.per_kw_year >= 0 /\ d.peak_floor >= 0 /\ d.billing \in {"year", "month"}

\* The capacity is to exceed ua x 15 min.
ValidBuilding(b) ==
  /\ b.ua > 0 /\ b.cap > b.ua
  /\ b.night_min <= b.day_min /\ b.day_min < b.max
  /\ LET a == ParseHhmm(b.day_start)
         z == ParseHhmm(b.day_end)
     IN  None \notin {a, z} /\ a < z

\* market::eic: the zones that have a code.
Zones == {"DE-LU", "AT", "CH"}

\* Mutant: any building will do.
ValidPlannerNoBuilding(p, jurisdiction) ==
  /\ p.uncertainty \in {"deterministic", "chance", "robust"}
  /\ 0 < p.epsilon /\ p.epsilon < 500
  /\ \A w \in p.dim_windows : ParseWindow(w) # None
  /\ ValidPrices(p.prices)
  /\ BiddingZone(p, jurisdiction) \in Zones
  /\ p.weather # None => ValidWeather(p.weather)
  /\ p.demand_charge # None => ValidDemand(p.demand_charge)

\* Planner::validate
ValidPlanner(p, jurisdiction) ==
  /\ p.uncertainty \in {"deterministic", "chance", "robust"}
  /\ 0 < p.epsilon /\ p.epsilon < 500
  /\ \A w \in p.dim_windows : ParseWindow(w) # None
  /\ ValidPrices(p.prices)
  /\ BiddingZone(p, jurisdiction) \in Zones
  /\ p.weather # None => ValidWeather(p.weather)
  /\ p.demand_charge # None => ValidDemand(p.demand_charge)
  /\ p.building # None => ValidBuilding(p.building)

\* Config::load, of a file with all its keys.
Accepted(f) ==
  /\ f.inverters > 0
  /\ f.site.period_ms >= 100 /\ f.site.stale_ms >= 2 * f.site.period_ms
  /\ \E s \in {SiteOf(f)} : s # None /\ ValidSite(s) /\ ValidTimes(s)
  /\ f.relay # None => f.relay.debounce_ms <= 10000 /\ f.relay.input_loss > 0
  /\ f.eebus # None => f.eebus.loopback /\ f.eebus.timeout > 0
  /\ f.planner # None => ValidPlanner(f.planner, f.site.jurisdiction)

-----------------------------------------------------------------------------
\* What runs on it.

\* Ems::new: windows and hours that cannot be parsed are dropped silently.
EmsOf(p, jurisdiction) ==
  [uncertainty |-> IF p.uncertainty \in {"chance", "robust"} THEN p.uncertainty
                   ELSE "deterministic",
   epsilon |-> p.epsilon,
   building |-> IF p.building = None THEN None
                ELSE [ua |-> p.building.ua, cap |-> p.building.cap],
   zone |-> BiddingZone(p, jurisdiction),
   dim_windows |-> {ParseWindow(w) : w \in p.dim_windows} \ {None},
   day |-> IF p.building = None THEN None
           ELSE LET hours == <<ParseHhmm(p.building.day_start), ParseHhmm(p.building.day_end)>>
                IN  IF None \in {hours[1], hours[2]} THEN None ELSE hours]

\* planner::check, of the input built for this site with the efficiencies and
\* the quarter-hour steps it is always given; its series have the same length.
PlannerTakes(ems, s, demand) ==
  /\ ems.building # None /\ s.heat_pumps # <<>> =>
       ems.building.cap > 0 /\ ems.building.ua < 4 * ems.building.cap
  /\ s.batteries # <<>> =>
       SumFunction([i \in DOMAIN s.batteries |-> s.batteries[i].capacity]) > 0
  /\ ems.uncertainty = "chance" => 0 < ems.epsilon /\ ems.epsilon < 500
  /\ demand # None => demand.per_kw_year >= 0

\* main: what the devices are sent until the first cycle has run, after a
\* restart with the feed-in limit that was saved.
FirstSetpoints(f, s, saved_pct) ==
  [pv |-> IF OrElse(s.policy.static_cap, 100) < saved_pct THEN s.policy.static_cap ELSE saved_pct,
   chargers |-> [i \in DOMAIN f.chargers |-> f.chargers[i].failsafe],
   heat_pumps |-> [i \in DOMAIN f.heat_pumps |-> (2 * f.heat_pumps[i].rated) \div 5],
   batteries |-> [i \in DOMAIN f.batteries |-> 0]]

SetupInit == file \in Files /\ loaded = FALSE /\ config = None

Load ==
  /\ ~loaded /\ loaded' = TRUE
  /\ \E f \in {Parsed(file)} : config' = IF Accepted(f) THEN f ELSE None
  /\ UNCHANGED file

SetupNext == Load

-----------------------------------------------------------------------------
\* Properties.

\* What load accepts, no later part refuses, drops or cannot do: main expects
\* the site, the planner takes its problem, every window and the hours of the
\* day are in force, every price source can be asked, and the first setpoints
\* keep the standing cap and the devices' limits.
AcceptedIsUsable ==
  config # None =>
    /\ SiteOf(config) # None
    /\ \E s \in {SiteOf(config)} :
         /\ FloorW(s) >= 0
         /\ \A pct \in {0, 60, 100} : \E first \in {FirstSetpoints(config, s, pct)} :
              /\ first.pv <= pct /\ first.pv <= OrElse(s.policy.static_cap, 100)
              /\ \A i \in DOMAIN s.chargers : first.chargers[i] <= s.chargers[i].max
         /\ config.planner # None =>
              \E p \in {config.planner} : \E ems \in {EmsOf(p, config.site.jurisdiction)} :
                /\ PlannerTakes(ems, s, p.demand_charge)
                /\ Cardinality(ems.dim_windows) = Cardinality(p.dim_windows)
                /\ \A w \in ems.dim_windows : 0 <= w[1] /\ w[1] < w[2] /\ w[2] <= 1440
                /\ p.building # None => ems.day # None
                /\ ems.zone \in Zones
                /\ "file" \in p.prices.sources => p.prices.file

\* Nothing that runs meets a missing key that has a default.
NothingMissing ==
  config # None =>
    /\ None \notin {config.site[k] : k \in DOMAIN config.site \ {"yield"}}
    /\ None \notin {config.iec104[k] : k \in DOMAIN config.iec104}
    /\ config.planner # None =>
         None \notin {config.planner.enabled, config.planner.uncertainty, config.planner.epsilon}

\* A file says what a configuration may say.
AcceptedFilesRun == WellFormed(file) /\ AcceptedIsUsable /\ NothingMissing
=============================================================================
