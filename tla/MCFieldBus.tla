----------------------------- MODULE MCFieldBus -----------------------------
(* A task and its device through losses and restarts, and a session reading *)
(* and writing registers, each on its own: which one runs is chosen at the  *)
(* start.  Depot devices; setpoints at their ends and around a rounding.    *)
EXTENDS FieldBus, Registers

VARIABLE part

MCRated == [k \in Kinds |->
  CASE k = "charger" -> 320 [] k = "heat_pump" -> 140 [] k = "battery" -> 500
    [] OTHER -> 1000]

MCSetpoints == [k \in Kinds |->
  CASE k = "inverter" -> {0, 5000, 5005}
    [] k = "charger" -> {0, 1604, 3200}
    [] k = "heat_pump" -> {[limit |-> 309, ext |-> None],
                           [limit |-> 1400, ext |-> 196]}
    [] k = "battery" -> {-2504, 2505}
    [] k = "meter" -> {0}]
-----------------------------------------------------------------------------
\* Devices found on the bus.
SampleInverter ==
  [kind |-> "inverter", online |-> TRUE, chain |-> <<1, 103, 120, 123, 64900>>, wrong_len |-> Absent,
   w_sf |-> 1, pct_sf |-> -1, output |-> 0, rated |-> 60000, available |-> 0, energy |-> 70000,
   limit |-> 10000, enabled |-> FALSE, revert |-> 60]
SampleMeter ==
  [kind |-> "meter", online |-> TRUE, chain |-> <<1, 203>>, wrong_len |-> Absent, w_sf |-> 1, output |-> 0]
SampleCharger ==
  [kind |-> "charger", online |-> TRUE, max |-> 3200, limit |-> 3200, failsafe |-> 3200, timeout |-> 0,
   current |-> 0, car |-> Absent, quiet |-> FALSE]
SampleHeatPump ==
  [kind |-> "heat_pump", online |-> TRUE, max |-> 1400, rated |-> 1400, limit |-> 1400, power |-> 0,
   demand |-> 0, indoor |-> 2100, outdoor |-> 0, setpoint |-> 2100, ext |-> Absent, quiet |-> TRUE]
SampleBattery ==
  [kind |-> "battery", online |-> TRUE, max |-> 5000, capacity |-> 10000, setpoint |-> 0, power |-> 0,
   soc |-> 5000, watchdog |-> 0, quiet |-> FALSE]
MCUnits ==
  {SampleInverter, SampleMeter, SampleCharger, SampleHeatPump, SampleBattery}
  \cup {[SampleInverter EXCEPT !.chain = c, !.w_sf = sf[1], !.pct_sf = sf[2], !.rated = 30000] :
          c \in {<<1, 120, 64001, 123, 103>>, <<123, 64900, 120, 103>>},
          sf \in {<<2, 0>>, <<0, -2>>, <<1, -1>>}}
  \cup {[SampleInverter EXCEPT !.chain = c] :
          c \in {<<1, 103, 120>>, <<>>, [i \in 1 .. 33 |-> 64001]}}
  \cup {[SampleInverter EXCEPT !.wrong_len = n] : n \in {3, 65535}}
  \cup {[SampleMeter EXCEPT !.chain = <<1, 64001, 203>>, !.w_sf = sf] : sf \in {0, 2}}
MCMoves(u) ==
  {[u EXCEPT !.online = ~@]} \cup
  CASE u.kind = "inverter" -> {[u EXCEPT !.output = w, !.available = w] : w \in {0, 49, 30004}}
    [] u.kind = "meter" -> {[u EXCEPT !.output = w] : w \in {-29996, 12345}}
    [] u.kind = "charger" ->
         {[u EXCEPT !.current = IF car = Absent THEN 0 ELSE u.limit, !.car = car] :
            car \in {Absent, [charged |-> 70000, needs |-> 80001, leaves |-> 7259, max |-> 1600],
                     [charged |-> 500, needs |-> 0, leaves |-> -60, max |-> 3200]}}
         \cup {[u EXCEPT !.quiet = TRUE, !.current = u.failsafe]}
    [] u.kind = "heat_pump" ->
         {[u EXCEPT !.power = c[1], !.demand = 604, !.outdoor = c[2], !.quiet = TRUE] :
            c \in {<<0, 305>>, <<304, -1234>>, <<596, -1234>>}}
    [] u.kind = "battery" ->
         {[u EXCEPT !.power = c[1], !.soc = c[2], !.quiet = c[3]] :
            c \in {<<-4996, 996, FALSE>>, <<2504, 9504, FALSE>>, <<0, 9504, TRUE>>}}

MCTargets(k) ==
  CASE k = "inverter" -> {0, 3005, 6996, 10000}
    [] k = "meter" -> {0}
    [] k = "charger" -> {0, 600, 1604, 3200}
    [] k = "heat_pump" ->
         {[limit |-> c[1], ext |-> c[2]] :
            c \in {<<0, Absent>>, <<308, 0>>, <<308, 296>>, <<1000000, 700000>>}}
    [] k = "battery" -> {-2504, 0, 4997}
MCConfigured == [failsafe |-> 609, failsafe_timeout |-> 60, watchdog |-> 30]
-----------------------------------------------------------------------------
MCInit ==
  /\ part \in {"task", "registers"}
  /\ FInit /\ (part = "registers" => kind = "meter")
  /\ RegInit /\ (part = "task" => unit = SampleMeter)

MCNext ==
  \/ part = "task" /\ FNext /\ UNCHANGED <<part, regvars>>
  \/ part = "registers" /\ RegNext /\ UNCHANGED <<part, fvars>>

MCSpec == MCInit /\ [][MCNext]_<<part, fvars, regvars>>

-----------------------------------------------------------------------------
\* The board says of a device what is so (FieldBus), and what is read and
\* written means to the gateway what it means to the device (Registers).
FieldIsTrue == BoardIsTrue /\ RegistersAreTrue
=============================================================================
