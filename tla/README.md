# Verification of grid-edge-gateway

TLA+ modules of the gateway's own logic, the TLC runs that check them on small
instances, and theorems about them checked by TLAPS. The definitions are
translated from the code under `crates/` and `eebus-bridge/`; where each
definition comes from is listed in `PROJECT.json` under `map`. Line numbers
are those of the commit this directory accompanies.

## 1. The system

The gateway sits between a distribution system operator (DSO) and the devices
of a site (inverters, chargers, heat pumps, batteries). The DSO may reduce the
consumption of the controllable devices ("dim") and limit the feed-in. It does
so over IEC 104, over the relay of a control box, or over EEBUS.

| Component | State | Operations | Talks to |
|---|---|---|---|
| Controller (`control/controller.rs`, `accounting.rs`, `policy.rs`) | budget, release in progress, surplus window, totals, last setpoints | `step`, once per control cycle | called by the loop; feeds the recorder |
| Compliance recorder (`control/compliance.rs`, `gateway/reports.rs`) | open event, number and digest of the last report; files | `observe`, `close`, `write`, `resume` | called by `step`; files outlive it |
| IEC 104 session (`iec104/session.rs`) | sequence numbers, windows, queue, timers | `send_raw`, `on_apdu`, `on_tick` | driven by `connection.rs` |
| Connection driver (`iec104/connection.rs`) | stream buffer, bounded channels | `run` | TCP stream, DSO station task |
| DSO station (`gateway/dso.rs`) | selections, values reported so far | `handle`, `command`, `spontaneous` | commands (watch channel), snapshot |
| Control loop (`gateway/main.rs`, `persist.rs`) | link age, last saved commands, state file | one cycle: link loss, read, step, save, publish | everything |
| Inputs (`gateway/inputs.rs`) | relay debounce, EEBUS view | poll, bridge messages, loss policies | merged into the commands each cycle |
| EEBUS bridge (`eebus-bridge/*.go`) | limit, duration, heartbeat, failsafe | EEBUS events, a line per change | `inputs.rs` over a local socket |
| Field bus (`gateway/field.rs`, `readings.rs`) | one slot per device with its age | one task per device: connect, arm watchdog, read, write | Modbus; readings to the loop |
| Planner in the gateway (`gateway/ems.rs`) | feeds with retry times, plan, wanted solve | `observe`, `prepare`, `accept` | guidance to the controller |
| Prices, weather, meters, local time (`market.rs`, `weather.rs`, `planning/meters.rs`, `localtime.rs`) | prices, forecast of the sky, quarter-hour peak, learned load | `fetch`, `merge`, `at_or_before`, `at_end`, `observe` | called by `ems.rs` |
| Optimiser (`planner`, `planning/input.rs`, `record.rs`) | the plan in force | `build_input`, a quadratic program, `guidance_at` | called by `ems.rs` |
| Configuration (`gateway/config.rs`) | none after the start | `load`, defaults, checks | read by every part |
| Octets (`iec104/apci.rs`, `asdu.rs`, `time.rs`; `devices/sunspec.rs`, `maps.rs`) | none | encode, decode, discover | the stream; the field bus |
| Everything else | | API, TLS, HTTP clients, simulators, study, web demo | |

What is hard: the loop, the station tasks, the input tasks, the planner's task
and the device tasks run concurrently on a multi-threaded runtime; the process
may stop between any two steps and has two files to continue from; links and
devices time out and come back; sequence numbers wrap; bounded channels fill
up; the release after a dimming is a small protocol with a random wait, a ramp
and commands that interrupt it. `PROJECT.json`, `hazards`, lists each place
with the properties that cover it, or the reason why none does.

What makes each component correct:

- *Controller*: a dimmed site is granted the floor and a surplus that lasts;
  power returns gradually and in bounded time; contract limits hold; device
  setpoints fit the budget and can be followed.
- *Recorder*: the verdict is what the cycles saw; one chain of files.
- *Session*: windows k and w, timers t1 to t3, order, nothing lost unseen.
- *Loop*: what the devices obey survives a power cut; only the DSO's commands
  are saved; the link-loss policy lifts when, and only when, it should.
- *Station*: a command is executed once, selected or direct; the control
  centre ends up with the current values; an ended connection is given up.
- *Inputs, bridge*: loss of a source leads to its failsafe, and back.
- *Field bus*: no stale reading is used; a silent gateway leaves devices safe.
- *Planner*: a plan that is followed is one of the present; prices, weather and
  meters say what the sources and the readings said; a plan keeps the promises
  it was made for when a dimming comes.
- *Configuration*: what is accepted runs, what is refused could not.
- *Octets*: both ends read the same meaning, whatever the stream is cut into.

## 2. Modules

| Module | Models | Checked by | Proved in |
|---|---|---|---|
| `Dimming` | the consumption part of `Controller::step`, accounting | `MCDimming` | `Dimming_proof` |
| `SiteConfig` | country rules, overrides, Pmin,14a, what a valid site is | with `Dispatch` | - |
| `Setup` | `gateway.toml` from its keys to the parts that run on it | `MCDispatch` | `Dispatch_proof` |
| `Planner` | the problem of a plan, its constraints, following it quarter after quarter | `MCDispatch` | - |
| `Dispatch` | the rest of `step`: batteries, allocation, feed-in, inverters, closed over the devices | `MCDispatch` | `Dispatch_proof` |
| `Session` | `iec104/session.rs` with an arbitrary peer | `MCSession` | `Session_proof` |
| `Wire` | frames, ASDUs and time tags in octets; a stream cut anywhere | `MCSession` | - |
| `Calendar` | dates, local time and billing periods | `MCSession` | `Ems_proof` |
| `SessionLink` | `Session` + driver + TCP streams + a conforming controlling station | `MCSessionLink` | `Session_proof` |
| `ReportChannel` | abstract: what the link promises of the ASDUs handed to it | implemented by `SessionLink` | `Session_proof` |
| `DsoStation` | `dso.rs` for one connection, the driver task and the two bounded channels | `MCDsoStation` | `Inputs_proof` |
| `Compliance` | recorder, report files, restarts | `MCCompliance` | `Compliance_proof` |
| `Gateway` | control loop, commands, state file, link loss, crashes | `MCGateway` | `Gateway_proof` |
| `ControlBoxRelay` | the relay's polling task | `MCInputs` | `Inputs_proof` |
| `EebusBridge` | guard, bridge process, its socket, the reading task | `MCInputs` | `Inputs_proof` |
| `DeviceSim` | registers, limits, ramps and watchdogs of the simulated devices | with `FieldBus` | with `FieldBus` |
| `FieldBus` | a device task with its device | `MCFieldBus` | `FieldBus_proof` |
| `Registers` | the SunSpec chain, scale factors and register maps, both ends | `MCFieldBus` | - |
| `Ems` | the planner's task against the loop: feeds, plan, saving | `MCEms` | `Ems_proof` |
| `PriceBook` | day-ahead prices: sources, files, resolutions, the book | `MCEms` | - |
| `Weather` | the forecast of the sky, its book, the power expected of it | `MCEms` | - |
| `Meters` | quarter-hour peak and learned base load | `MCEms` | `Ems_proof` |

**Dimming.** One action per control cycle (`NextCycle`), because `step` runs
under no lock and nobody else touches the controller: the clock, the day, the
commands and the surplus of the cycle are inputs. `Dim`, `Wait`, `RampUp` and
`Unlimited` are the four outcomes of `controller.rs` 557-585, preceded by the
day limit (`DayLimitReached`) and followed by the accounting (`Account`). The
random wait is any number up to the maximum. Power is in whole kW and time in
seconds of a coarse grid; the ramp is integer division, which is why
`GradualRelease` is stated by cross-multiplication.

**Dispatch.** One action, `Cycle`: the plant answers the setpoints sent last
(`Flows`, external), `Plausible` and `ReadingsOf` are what the controller makes
of it, and its results are bound in the order of the code. What `Dimming`
decides is an input here (`Budgets`: any budget that module allows in the
mode). The operators carry the names of the code's functions (`PlanBatteries`,
`Allocate`, `TargetPct`, `InverterPct`). `truth` remembers the real flows, so
that properties speak of the site and not of what the gateway believes.

**Setup.** The state is a file and what became of it. Each section of the file
is a record of its keys, `None` where a key is missing (`WithDefaults`); a file
is `Accepted` or refused; `EmsOf`, `PlannerTakes` and `FirstSetpoints` are what
later parts do with it without checking again. The types of the controller's
own configuration (`SiteConfigs`, `Policies`) are in `SiteConfig`.

**Planner.** A quarter-hour begins (`Pass`), its problem is solved or not
(`FoundPlan`, `Unsolved`), the site follows the plan in force (`Follow`,
external: what `Dispatch` does) or the rules. The problem (`BuildInput`) is
the code's; the solver finds any feasible plan (`Solutions`). Costs are left
open except that nothing is dearer than a car that leaves without its energy.

**Session.** One action per handler: `SendRaw`, `OnApdu`, `Tick`. The driver
runs one handler at a time, so a handler is one step, with the outputs it adds.
The driver drains them when every frame of a read is handled
(`connection.rs:94-106`), and drops them all if a later frame of that read is
malformed or closes the session; the session's own state, which the properties
of this module are about, is the same. What is lost with them is in `DsoStation`:
a chunk of requests is read at once, and `Ends` may drop it. The driver ticks
between two handlers: while it is blocked in `write_all` or `send_event` a timer
runs out unseen, which is outside of this module. at the end of each of them, as in the code, and is a
helper of the action. `Advance` and `SeqDistance` work modulo `Modulo`
(2^15 in the code, small here so that wrap-around happens within the bound).
The code's `Instant`s are ticks.

**Wire, Calendar.** A letter is octets with what they mean, written by hand from
the standard's tables; `Wire` feeds letters to the driver's buffer in pieces of
any size and compares what comes out, and encodes again what the station sends.
`Calendar` walks day by day beside a calendar that only knows how long a month
is.

**SessionLink** adds the two byte streams as sequences of frames and a
controlling station that follows the standard (external: it is no code of this
repository). It never misses a frame and respects its own window; it may start,
stop and test at will. `ImplementsChannel` maps the link to **ReportChannel**:
an ordered channel with a bounded queue, which drops what does not fit and
everything not acknowledged when it stops. The data and the acknowledgements in
a stream are picked out by a recursive function (`OfType`), so that proofs can
reason about them.

**DsoStation.** The station task is cut where it awaits: an event taken, each
ASDU it sends (room in `out`), the snapshot read in between. The driver is cut
where its `select!` awaits, and where it waits for room in `events`. A mix
says what a centre sends and how many requests it has under way; where these are
more than `events` holds, driver and station can come to wait on each other
(`MutualWait`). Selections carry their age; the connection may end at any time,
from either side. The centre remembers what it was told and what it commanded.

**Compliance.** `Cycle` is `observe` with all that the loop does with the
result (`take_reports`, `write`); `Restart` may come at any time. Samples are
kept and thinned as in the code; exceeded and unverified seconds are reduced to
whether there are any, which is what the verdict uses. SHA-256 is an injective
function (the report itself). File names are ordered as strings: `Leading` is
the first digits of the number, which is also what `resume` parses.
The history variables record what *every* cycle saw, kept as a sample or not,
and with which floor, so that the verdict can be compared with it.

**Gateway.** The loop is cut where other tasks can act: the look at the
connection count, the lifting of the commands, the reading of commands and
inputs, the saving, the publishing. Stations connect, disconnect and execute
commands in between; the process crashes in between. `saved` is the state file.
Ages stop growing where the code stops distinguishing them, so the state space
is finite without a bound on time, and liveness can be checked.

**ControlBoxRelay, EebusBridge.** A poll, and a round of the bridge's loop, is
an action; so is everything the other side may do in between: the contact
moves, the module vanishes; the guard sends limits, its heartbeat stops, the
bridge is killed or hangs, the socket breaks. Histories (`*_age`) count how
long the outside has been as it is; the properties bound what the gateway may
still believe after that long.

**FieldBus, DeviceSim.** One action is what a device task does with the answer
to one Modbus request, up to the next. A device is a record of its registers;
`Written` and `Stepped` are its own logic from `sim.rs`. Any kind of device is
modelled, one task at a time, since tasks share nothing but the board.

**Registers.** A session of the gateway discovers a device, reads and writes it,
all in registers of 16 bits; the device's image is that of `sim.rs`, or one of
another make (`Units` in `MCFieldBus`: other models in between, scale factors,
chains in another order, without an end or without a needed model). What the
device meant is compared with what the gateway read, within the rounding of the
registers.

**Ems, PriceBook, Weather, Meters.** `Ems` cuts the task where it gives the lock up (a
source, the solver, the disk); `Observe` is the loop's. The solver and the
sources are external: they answer or fail, after any number of cycles. A price
is named by the fetch it came from, so that a property can say which fetch a
time's price should be from. `Weather` keeps the last answer as it was sent,
gaps included, and compares what the planner takes from the book with it; the
decay of the nowcast (`exp`) is any decreasing factor, its smoothing weight
nothing in the first cycle and one half later. `Meters` compares the code's running sums with
what was metered, sample by sample, quarter by quarter.

## 3. Runs

| Run | Question | Bounds |
|---|---|---|
| `dimming` | Is a reduction safe, its release gradual and in time, a contract's daily limit kept? | limits, surpluses and blindness, hold/ramp/wait of a few cycles, stalls longer than the accounted step, emergencies, two days |
| `session_any_peer` | Can any sequence of frames break windows, timers or queue? Are octets and dates read as they are meant? | k, w, queue of 2, modulus 4 so that numbers wrap several times; letters of every type, cut anywhere; each day of 2000-2002, 2023-2025, 2098-2100 |
| `link` | Is there ever a reason to close? Does the queue drain, does the link implement `ReportChannel`? | 4 ASDUs, 2 commands, 2 start/stop/test frames, a clock that reaches every timer |
| `station` | Is the centre told the truth, and in the end all of it? Are commands executed as selected? Does a closed connection end? | channels of one, one request under way or three, a queue of four that overflows; complete |
| `compliance` | Is every verdict right under one floor, and is there one chain, whatever fails? | 12 ticks, 3 samples so that some are dropped; 4 reports, any restarts and failing writes |
| `compliance_floor` | And if the limit changes within an event? (violated) | two floors |
| `gateway` | What survives a power cut? Do commands reach the disk, does link loss release? | one or two centres, both inputs, stalls, failing saves; complete |
| `dispatch` | Do setpoints fit budget, floor, feed-in limit, dwell times and departures? Are plans kept when a dimming comes? Which files run? | six sites, four to thirty environments each; nine scenarios, a horizon of three quarters; 192 files |
| `grid_charging` | May a plan charge a battery from the grid while dimmed? (violated) | the same |
| `inputs` | Is the contact, is the guard followed, whatever fails in between? | debounce 2, lost after 5 polls; keep-alive, failsafe of 2 seconds |
| `field` | Do setpoints arrive, do orphans fall back, is the board true, do registers mean the same at both ends? | each kind of device, watchdogs of 3 periods, complete; eighteen devices in registers |
| `ems` | Is a followed plan of the present, are prices, sky and meters true? | quarters of 2 ticks, prices refetched after 6 and published 1 or 3 ticks ahead, 4 ticks to be in the book, 5 to be on the disk, saves that fail, no device but the dimming; two fetches of prices, files of two lines; two answers of three steps with any gaps, on and off the planner's grid, two cycles; 13 units of metered time |

The bounds are chosen so that each comparison in the code is met from both
sides (a window full and not, a timer just before, at and after its limit, a
cycle that is on time and one that is late) and each interrupting event can
come at each place. Larger values repeat the same comparisons. Where one MC
module runs several independent modules (`MCSession`, `MCDispatch`, `MCInputs`,
`MCFieldBus`, `MCEms`) the part is chosen in the initial state, so their state spaces
add and do not multiply.

The properties of each run, by name (each is stated in words in its module):

- `dimming`: `SurplusMustLast`, `ReleaseOnTime`, `ContractDayLimit`, `GradualRelease`.
- `session_any_peer`: `SendWindow`, `AckDiscipline`, `NoTimerMissed`, `NoIdleWindow`, `WireIsFaithful`, `CalendarIsRight`.
- `link`: `ImplementsChannel`, `NoReasonToClose`, `QueueDrains`.
- `compliance`: `VerdictIsTrue`, `ChainOnDisk`, `EndedReductionsReported`, `ChainContinues`.
- `compliance_floor`: `FollowedMeansWithinFloor`.
- `gateway`: `ObeyedSurvivesPowerCut`, `InputsLeaveNoTrace`, `LossLiftsAllButEmergencies`, `CommandsReachTheDisk`.
- `dispatch`: `SetpointsFit`, `CarsAreServedInTurn`, `FloorIsKept`, `NoGridChargingFromTheOpenSun`, `FeedInLimitIsKept`, `PlansAreGood`, `AcceptedFilesRun`.
- `grid_charging`: `NoGridChargingWhileDimmed`.
- `station`: `CentreIsToldTheTruth`, `ServeEnds`, `CentreCatchesUp`.
- `inputs`: `RelayIsFollowed`, `GuardIsFollowed`.
- `field`: `FieldIsTrue`, `SetpointReachesDevice`, `OrphanFallsBack`.
- `ems`: `PlanIsOfNow`, `PricesAreKept`, `ForecastsAreTrue`, `MetersAreTrue`.

A run's property is often a conjunction of named parts, each a sentence of its
own in the module (`CentreIsToldTheTruth`, `FieldIsTrue`, `ForecastsAreTrue`,
`PlansAreGood`, ...).

The two violated properties are disagreements between a comment and the code,
described in `PROJECT.json`, `findings`:

1. The floor of a report is frozen when the event starts (`compliance.rs:151`,
   `:213`), so a lower limit in the same event is not what is verified.
2. A dimmed battery may charge by the sun that curtailed inverters could give
   and do not give yet (`controller.rs:791`), that is, from the grid.

Each passing run's properties have mutants (operators marked "Mutant" in the
modules, listed in `PROJECT.json`): a plausible mistake in one definition that
makes TLC find the property violated; a conjunction has one for each part.

### Fairness

Safety needs none. `LinkFairSpec`, assumed by
`QueueDrains` alone, which also says that the abstract channel delivers
(`ChArrives`; the refinement itself, `ImplementsChannel`, is a safety property
and needs no fairness): the stream delivers (TCP), the driver
reads what arrives (its `select!` loop never stops), and the controlling
station acknowledges what it has received, as its own w and t2 oblige it to.
Sending, commands and start/stop are not fair. `MCFairSpec` of `MCGateway`: the
control loop takes its steps (a tokio interval; no step waits for anyone), and
a save that is attempted again and again succeeds some time (strong fairness,
since attempts are a minute apart). That commands stop changing, or that the
process stays up, is an antecedent of the property and not assumed.
`StFairSpec` of `DsoStation`: the two tasks are scheduled (weak fairness of
their steps); a branch of a `select!` that is ready again and again is taken
some time (strong fairness: tokio picks a ready branch at random); the stream
moves. A centre need not send, nor stay.

## 4. Disagreements without a run

Met while modelling, and modelled as the code has them:

- The queue of a *started* session drops ASDUs when it is full
  (`session.rs:138`; the comment at line 28 names a stopped one).
- From report 10000 on, file names no longer sort by number
  (`reports.rs:21-23` against 3-4), and a restart forks the chain. The
  theorems assume `NumbersFit`.
- A centre that comes and goes between two cycles does not refresh `link_seen`
  (`main.rs:181` against `config.rs:156-162`): under the release policy a
  dimming it commanded is lifted at once.
- An event of the compliance record is in memory until it ends
  (`compliance.rs:89`): a power cut in a dimming leaves no record of it.
- `PriceBook::merge` forgets prices in the holes of the fresh series, and keeps
  eight days (`market.rs:301-306`; the doc: "what they overlap", "a week").
  A fine series that overlaps part of an hourly product drops the whole hour
  (59-69), a price before a gap of an hour or less is stretched over it
  (124-137).
- After a failed solve the old plan stays in force for up to an hour, while
  the head of `ems.rs` (7-9) promises the rules alone; prices that change
  without reaching further trigger no new plan (`ems.rs:308`); the billing
  quarter being metered is lost in a restart (546-556).
- The bridge forgets its failsafe state in a restart (`state.go:22-25`), the
  gateway what relay and EEBUS said last. A line the gateway cannot parse
  counts as a sign of life (`inputs.rs:307`); the debounce candidate survives
  the loss of the module (`inputs.rs:183`).
- The offline reserve of a charger is its failsafe current from the first
  cycle it is missed (`controller.rs:493-495`), though it falls back only after
  its watchdog: `FloorIsKept` starts when the devices reached stay the same.
- An `import_target_kw` below zero is accepted (`config.rs:63`): batteries give
  to reach it, beyond the export that a limit at the connection allows. Nor is
  the ratings' sum of the inverters compared with `pv_installed_kw`, of which
  every limit on feed-in is a share (`controller.rs:603`).
- Batteries that give more than the site uses leave no room for a sun that
  rises before the next cycle (`controller.rs:741-810`): the export is above its
  limit for that cycle, and `ExportStaysUnderLimit` excepts it.
- With more requests under way than `events` holds (512), driver and station
  can wait on each other for good: one for room in `events`
  (`connection.rs:83`), the other for room in `out` (`dso.rs`, `out_tx.send`).
  Then nobody reads the stream, so a peer that has gone is not noticed, the
  connection stays counted and the loss of the link is never seen. A centre of
  `MCDsoStation` does it, with three requests and channels of one; `MutualWait`
  is the one exception in `ServeEnds` and `CentreCatchesUp`, and `ServeEnds` says
  that it takes more requests than `events` holds.
- A planner's save that fails is only logged, and counts as saved all the same
  (`ems.rs:611-617`, `:661`): it is not tried again for 300 s.
- A controller takes what a load left out of a contract draws from the budget
  of the others (`controller.rs:896-903`); a plan leaves such a load out of its
  dimmed constraint and keeps the budget whole (`planner/model.rs:438`, `:451`).
  Beside one, the loads may get less than planned in a dimming that the plan
  expects: `PlanFitsTheDimming` and `PromiseIsKept` except it, and are violated
  without the exception.
- Account day and year are those of UTC (`main.rs:203-205`).
- The decoder reads the address of the first object before it looks at how
  many there are (`asdu.rs:284-287`); no letter of `Wire` is an ASDU without
  objects. The list of points in the head of `dso.rs` lacks 2008, which the
  station sends (98).
- A negative failsafe current is accepted, though the message asks for 0 or
  6 A up to max (`controller.rs:144-145`); offline, that charger is a negative
  reserve (506).
- A plan's budget in an expected dimming is the floor less the margin: where
  a contract's floor is below the margin (its default is 0) no plan exists as
  long as a dimming is expected, and the rules alone apply. `AlwaysSolvable`
  has the precondition floor >= margin.
- A SunSpec value that is not implemented (0x8000) is read as -32768 steps of
  power (`field.rs:265`); a chain whose lengths run past 65535 overflows the
  address in discovery (`field.rs:134-147`). Setpoints are rounded to the
  nearest step of the register, so a charger's or an inverter's may exceed the
  limit by half a step; a heat pump's is rounded down.
- The devices' own watchdogs are never compared with the control period, and
  0 switches them off (`config.rs:117-156`).
- A price whose next one is more than an hour away is dropped
  (`market.rs:124-137`). A header is one only in the first line of a file, so
  a comment before it refuses the file, and a first line of data that cannot
  be read passes as a header (167); of two lines for one time the later wins.
- The nowcast keeps its last ratio while there is no forecast (`ems.rs:229`).
  `merge` of both books takes the first and last point of an answer for its
  ends, so it relies on answers in order of time, as their sources send them.

## 5. Proofs

All theorems are checked by `tlapm` for every value of the constants that
satisfies the named assumptions of the modules, and the hypotheses a theorem
states itself. Each rests on an inductive invariant: it holds initially, every
action keeps it, and it implies the property. The constants of the runs satisfy
all the hypotheses, except where a run is meant to violate its property.

| Module | Theorems | Inductive invariant | Hypotheses |
|---|---|---|---|
| `Dimming_proof` | `TypeCorrect`, `SurplusMustLastHolds`, `ReleaseOnTimeHolds`, `ContractDayLimitHolds` | `IInv` | - |
| | `GradualReleaseHolds` | `IInv`, `RampInv` | `RampIsExact` |
| `Session_proof` | `SessionTypeCorrect`, `SendWindowHolds`, `AckDisciplineHolds` | `Windows` | - |
| | `NoTimerMissedHolds`, `NoIdleWindowHolds` | `Prompt` | - |
| | `NoReasonToCloseHolds`, `LinkImplementsChannel` | `LinkInv` | - |
| `Inputs_proof` | `RelayIsFollowedHolds` | `RelayInv` | - |
| | `GuardIsFollowedHolds` | `EebusInv` | - |
| | `CentreIsToldTheTruthHolds` | `StInv` | `NeverFull` |
| `Gateway_proof` | `ObeyedSurvives`, `InputsUnsaved`, `GatewayTypeCorrect`, `EmergencyStays` | `GInv`, with `GTypeOK` | - |
| `Ems_proof` | `PlanIsOfNowHolds` | `PlanInv` | - |
| | `PricesAreKeptHolds` | `PlanInv`, `FeedsInv(n)`, `Saving` | waits that fit the bounds |
| | `MetersAreAlwaysTrue` | `PeakInv`, `LoadsInv` | - |
| | `CalendarIsAlwaysRight` | `OnTheWall` | `StartsRight` |
| `Dispatch_proof` | `SetpointsFitAlways`, `DwellKeptAlways`, `DepartureBeforePlanAlways` | `Fits` | `NoNegativeFailsafe` |
| | `FloorIsAlwaysKept`, `NoGridChargingAlways` | `Told` | `NoNegativeFailsafe` |
| | `FeedInLimitAlwaysKept` | `LimitTold` | `NoNegativeFailsafe`, `PlantAsConfigured`, `NoExportTarget` |
| | `AcceptedFilesAlwaysRun` | `SetupInv` | - |
| `Compliance_proof` | `ChainIntact`, `AllReported`, `RestartContinues` | `CInv` | `NumbersFit` |
| | `VerdictIsTrueHolds` | `CInv`, `VerdictInv` | `NumbersFit`, `OneFloor` |
| `FieldBus_proof` | `FieldTypeHolds` | `FInv` | - |
| | `OrphanFallsBackHolds` | `FInv` | `LongEnough` |
| | `SetpointReachesDeviceHolds`, `BoardIsTrueHolds` | `FInv`, `CycleInv` | `LongSettled` (and `Notice > 2`) |

- **Dimming.** Besides the types, `IInv` says which modes go with which
  `release` (`ModeInv`), that a release starts no earlier than the dimming ended
  and no later than the longest wait after it (`ReleaseInv`), that the window
  contains every surplus measured within the hold time (`WindowInv`) and that
  the contract's share of the dimmed seconds is part of the total (`CountInv`).
  None of the properties is inductive without these. For the ramp, `RampInv`
  says what its budget is at each time. `RampIsExact`: a ramp from any budget a
  dimming can end with gains whole units in every second. The code computes with
  floats; in whole units that are too coarse the integer division of the model
  adds up to one unit of its own, so the property is stated for units that are
  fine enough, as those of the run are.
- **Session.** Any peer, any k and w below the modulus. Send window, discipline
  of acknowledgement and types are inductive together (`Windows`); four lemmas
  on `SeqDistance` do the arithmetic of sequence numbers, and `FlushWindows`
  proves once what every handler ends with. The timers need that the times in
  the window are in order (`Ordered`), so that its oldest frame stands for all
  of them: the tick looks at that one alone.
- **SessionLink.** Both directions are one situation, `OneWay`: frames sent and
  not acknowledged, the acknowledgement told last, data and acknowledgements
  under way, each number in its place. Four lemmas (a frame sent, received,
  acknowledged, an acknowledgement received) serve reports and commands alike.
  `Timely` says when commands under way were sent, which is why t2 runs out in
  nobody's window. From `OneWay` follows that no step finds a wrong number or
  an unexpected acknowledgement (`NoReasonToClose`), and that each step is a
  step of `ReportChannel` or none (`LinkImplementsChannel`): what is in the
  channel is the data of the stream and what has been received from it.
  Statements about every sequence (what `OfType` makes of a concatenation) are
  proved through the well-founded order of lengths, by instances stated for a
  set of sequences (`SeqInduction`).
- **Inputs.** The relay's contact is read as it is (`Settled`), not read yet
  (`Unread`) or waiting for its debounce (`Candidate`), and each of the two
  has an age no greater than the phases of the polling task it has been through.
  For EEBUS, `Delivers` and `Redials` follow the line the bridge told last
  from the bridge through its socket to the gateway, `Alone` and `Silent` the
  two ways to lose the guard. For the station, `StInv` reads the queue of the
  session, the station's output channel and what the task has yet to put there as
  one sequence, in the order in which it will reach the centre. `Promised`: a
  centre that has all of it knows of every point what the station counts as
  reported; `Kept`: the last execute it will have seen confirmed is the command that
  the control loop reads. Since the last value of a point is named by the largest index at which it
  is (`Told`), two lemmas are enough: what a concatenation tells (`ToldByTwo`), and that
  a report handed from one queue to the next changes nothing (`HandedOver`). A
  general interrogation reports each point once, in whatever order. `NeverFull`: a
  full queue forgets its oldest ASDU (`session.rs`, `send_raw`) while the station
  counts it as reported. With two points and a queue of one, TLC finds the
  centre left with an old value. The run's queue of four overflows too, while data
  transfer is stopped, but with one point the newest report is behind any that is
  forgotten: the run shows the property without `NeverFull`, for one point.
- **Gateway.** `GInv` follows the commands through a cycle: what was handed to
  `save` last is on disk or the save failed, and is what the last cycle
  published. The types need it too: a cycle saves what it has read, never
  nothing.
- **Ems.** `PlanInv`: a plan is as old as the readings it rests on, and a
  quarter that was begun has been tried. For prices, the book is within `n` of
  its source when the task has looked (`LooksWithin(n)`: the retry, the quarter
  and the refresh or what is published are no longer than that), and behind by
  what the task has waited for since: the solver and the disk at most `MaxBlock`
  each, the weather another (`Waiting`). A save counts from the time before the
  solver was waited for, whether it succeeds or not, so when the task has looked
  for prices, what was known `SavedBy` before has met a save (`Saving`); what is on the disk stays there through one that fails, and
  prices it would have saved for the first time are on the disk by the next that
  does not (`known` is counted anew). The theorem says for which bounds
  `ServedFor` and `KnownFor` this is enough; smaller ones are not.
- **Meters.** What is imported in a quarter is in up to three places: the
  running sum, the highest quarter of the period, the state file. A sample counts
  to the quarter of its middle, so half a sample's energy may be on the wrong
  side at each end (`EnergyMetered`). A quarter that has ended stays in the
  running sum until the next sample closes it, so "the highest quarter is
  counted" is not inductive without "or waits to be" (`CountedNotBelow`), and the
  meter may be in the next billing period before the clock is
  (`CountedNotAbove`). What is saved is not too high (`SavedNotAbove`), since a
  restart takes it up. `LoadsInv` says of every learned mean, the running one
  included, that it lies between loads metered in its quarter of the day, which
  needs that a weighted mean lies between its terms. Any length of a quarter, a day
  and a period, with a sample no longer than a quarter.
- **Calendar.** `OnTheWall`: the day number the code computes is that of the
  calendar on the wall, and the day after has the number after. The proof cuts
  a date into its year of the 400-year era and its day of the year, counted from
  March, as the code does, and goes from day to day by cases: within a month, its
  end, a leap day, the end of an era. The last Sunday of a month is found in its last
  seven days. `StartsRight` says of one 1 January that its number and weekday are
  right; `EpochIsRight` proves it for that of 1970, and a walk may go to any year,
  so the calendar is right for every later day.
- **Dispatch.** `Fits` is the property with the types of what a cycle keeps
  (`Known`). A cycle is a chain of folds over devices whose number is not bounded,
  so the work is in lemmas on folds: what holds at the start and is kept by each
  step holds at the end (`SetInduction`, `SubsetInduction`). The budget that is left is
  kept not negative by each charger served and by each heat pump raised, the sum
  over a set is the sum over its parts, and a charger's guarantee, minimum and
  share each lie between nothing and its cap. The other two theorems are of the
  order in which chargers are served: rank, then slack before departure, then energy
  so far. They need the sorted sequence to have all chargers once,
  each before those it comes before. `NoNegativeFailsafe`: a failsafe current below zero is
  accepted by the code and frees budget that others are given (section 4, a
  listed hazard), so the property is false without the hypothesis.
  `SitesAssumption` says that what a site meets is of the types of
  `EnvironmentsOf`; no number of devices, limit or age is bounded.
  The floor, the charging and the limits on feed-in are about two cycles: the
  first sends, the devices act in the second. `Told` keeps what a dimmed cycle
  told: the batteries together no more than the open sun leaves
  (`WantedFromTheSun`, and `BatteriesShareIt` for the loop that shares it out),
  those that do not answer nothing, the loads no more than floor and surplus,
  cars that do not share the budget nothing. `LoadsStayUnder` splits the true
  draw of the second cycle into the devices that answer, which draw at most
  their grants, and the others, which draw at most the reserve. `LimitTold`
  keeps what the inverters were told: only one that does not follow is found
  to ignore its limit (`IgnoringIsDeaf`), so the limits sent are those of
  `SentAround`, and the plant that follows them gives at most the limit or what
  cannot be made to follow (`PlantIsHeld`, by sums compared in proportion). At
  the connection, `ExportTold` says what the limit counted on: the site's use
  with the batteries as they will be, or batteries that give only what the
  sun leaves of the allowed export (`WantedUnderLimit`). `PlantAsConfigured`: the
  inverters together are rated no higher than `pv_installed`; in the simulators it is
  their sum (`sim.rs:366`). `NoExportTarget`: no negative import target (section 4).
- **Setup.** `SetupInv`: a configuration that is loaded is a file within the types
  of its keys, with the missing ones filled in, that was accepted. Each promise to a
  later part is then a lemma: the floor is a sum of naturals, batteries that are
  there have a capacity together, the first setpoints lie under the cap and under each
  charger's limit, and windows the file tells apart are told apart in minutes
  (`WindowsApart`), so that none is lost in a set. Any number of devices and
  windows; `SetupAssumption` says what the types are and that a missing key is none
  of their values.
- **Compliance.** `CInv`: the report written last is the newest in number and
  time, and the recorder is never behind it; from this the `CHOOSE` in `Newest`
  is determined. For the verdict, `VerdictInv` relates what every cycle saw
  (history) to the samples kept: samples are `KeepEvery` apart, so what was bad
  for long is in one of them unless samples were dropped (`Noticed`), and
  nothing is in a sample that no cycle saw. `OneFloor` is needed: with two
  floors the property is false (run `compliance_floor`).
- **FieldBus.** What the arming leaves in the device stays until it reboots
  (`ArmingInv`); the watched write is as old as the device is out of reach, and
  past its time each fallback bounds the device (`FallbackInv`). `LongEnough`:
  `FallBack` is beyond every watchdog, and an inverter has come down its ramp.
  For the other direction, `CycleInv` follows a session in reach through its
  period: where it can be after so many periods (`TimingInv`), how old the
  reading is (`BoardInv`), what the device holds (`SettingInv`), and what an
  inverter holds that is written only on a change, at a refresh, and keeps its
  connection when it forgets (`InverterInv`). `LongSettled`: `Settle` is beyond a
  reconnect and a refresh. A failsafe current is a natural number here (section
  4 has the negative one).

What stays with TLC:

- Liveness (`QueueDrains`, `ServeEnds`, `CentreCatchesUp`,
  `CommandsReachTheDisk`, `LossOfEveryLinkReleases`): fairness and ENABLED are
  outside the prover's reach.
- `WireIsFaithful`, `PlansAreGood`, `ForecastsAreTrue` and the registers' part of
  `FieldIsTrue`: what recursive definitions compute from given letters, scenarios,
  answers and register maps, or what a solver's plan implies.
- Of `Dispatch`: that every car gets its turn (a part of
  `CarsAreServedInTurn`), which is said of one site and its own patience.

## 6. Not modelled, and what is open

Not modelled, and why:

- The optimiser's costs, its demand charge, the chance variant, the building's
  temperature and the solver itself: a quadratic program over reals. `Planner`
  keeps the constraints and leaves the costs open. The soft envelope may keep
  energy in reserve but no power, so nothing is said of peaks above the plan.
- Text formats (TOML, XML, JSON, CSV fields), HTTP, TLS, addresses and paths:
  the libraries'. Models begin with what is parsed.
- The API and its snapshot: read-only views.
- The study, the web demo, the interoperability tests, embedded data series.
- Sun, building and household loads of the plant model: nondeterministic.
- What the disk does after the rename: `persist.rs:56` and `save` of `ems.rs`
  write a new file and rename it without `fsync`, so a power cut soon after may
  lose it. `Gateway`, `Ems` and `Compliance` take a file to be on the disk once it is
  renamed: what is shown is about a process that is killed between any two steps,
  and about a power cut on a file system that keeps the order.
- A report file without a digest as the newest: `reports.rs:27-31` starts a new
  chain there. The gateway writes a file whole and renames it, so it leaves none.
- A kill between the end of an event (`main.rs:211`) and the writing of its
  report (213): `End` is one step, so this is the kill just before the end, as
  far as the files are concerned.
- The bridge's `SetFailsafe` (`state.go:60-63`): the failsafe limit and its
  minimum duration are constants, one value of each for a run.
- An inverter whose reversion time (`RVRT_TMS`) does not survive its own power
  cycle. The gateway writes 0, never to revert, once for a connection
  (`field.rs:257`), and an inverter behind a data logger may reboot under one.
  `FieldBus.PowerCycle` keeps the value, as a stored setting; nothing in `field.rs`
  ensures it, and for one that forgets it, that its last limit stays is not shown.
- Series the planner gets for the building (COP, gains, comfort band), and the
  views of `ems.rs`.
- A wall clock that is set back, edits of the files by hand, and the persisted
  part of the totals; a restart in a release forgets the ramp (`main.rs:71`),
  which `Dimming` does not model. Numbers are assumed finite: an infinite demand
  charge passes `config.rs:398` and is refused by `planner/model.rs:272-275`.

Open:

- How long a car waits for its turn, as a function of the cars and the dwell
  time instead of the run's.
