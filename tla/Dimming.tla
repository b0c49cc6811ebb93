------------------------------- MODULE Dimming -------------------------------
(***************************************************************************)
(* Consumption dimming in crates/control: how one control cycle            *)
(* (Controller::step) turns the grid operator's command into the budget of *)
(* the controllable loads.  While dimmed the loads get the legal floor and *)
(* the PV surplus that has lasted for the hold time; afterwards power      *)
(* comes back after a random wait along a linear ramp; a contract's daily  *)
(* limit refuses a dimming that is not an emergency.                       *)
(*                                                                         *)
(* Powers are whole units and times whole seconds.  What the cycle reads   *)
(* (the wall clock, the merged command, the surplus seen by the meter) is  *)
(* chosen afresh in every cycle.                                           *)
(***************************************************************************)
EXTENDS Integers

CONSTANTS
  FloorKw,          \* Pmin,14a or the contract's min_kw
  MarginKw,         \* margin_kw, headroom below every limit
  RatedLoadsKw,     \* rated_loads_kw(), all controllable loads at full power
  SurplusHoldS,     \* surplus_hold_s
  ReleaseRampS,     \* release_ramp_s
  ReleaseDelayMaxS, \* release_delay_max_s
  IsContract,       \* the consumption rule is Contract, not De14a
  DayLimitS,        \* max_minutes_per_day * 60; 0 = no daily limit
  MaxStepS,         \* MAX_STEP_S, the longest gap that is accounted
  LimitsKw,         \* values of cmd.limit_kw; 0 also stands for None
  SurplusesKw,      \* surpluses the meter can show
  StepLengths,      \* seconds between two cycles, stalls included
  MaxTime,          \* bound: the clock stops here
  MaxDay,           \* bound: calendar days
  None,             \* Option::None
  Infinity          \* f64::INFINITY, the budget when nothing is limited

ASSUME PowerAssumption ==
  /\ FloorKw \in Nat /\ MarginKw \in Nat /\ RatedLoadsKw \in Nat
  /\ LimitsKw \subseteq Nat /\ SurplusesKw \subseteq Nat

ASSUME TimeAssumption ==
  /\ SurplusHoldS \in Nat /\ ReleaseRampS \in Nat /\ ReleaseDelayMaxS \in Nat
  /\ DayLimitS \in Nat /\ MaxStepS \in Nat
  /\ StepLengths \subseteq Nat \ {0}
  /\ MaxTime \in Nat /\ MaxDay \in Nat

ASSUME OptionAssumption ==
  /\ IsContract \in BOOLEAN
  /\ None \notin Int
  /\ None \notin [at : Int, from : Int]
  /\ Infinity \notin Int

VARIABLES
  last_t,          \* time of the last cycle
  totals,          \* Accounting.totals: the day and the seconds dimmed in it
  surplus_seen,    \* surpluses measured within the hold window
  was_dimmed,      \* the last cycle dimmed
  last_budget_kw,  \* budget of the last cycle
  release,         \* Option of start time and starting budget of the ramp
  status,          \* the Status the last cycle reported
  ended_at,        \* history: when the last dimming ended
  last_seen,       \* history: when each surplus was last measured
  contract_s       \* history: today's counted seconds without emergency

history == <<ended_at, last_seen, contract_s>>
vars == <<last_t, totals, surplus_seen, was_dimmed, last_budget_kw, release,
          status, history>>

Commands == [dim : BOOLEAN, emergency : BOOLEAN, limit_kw : LimitsKw]

-----------------------------------------------------------------------------
\* Operators of the cycle.  The operators marked "Mutant" are mistakes the
\* properties must find; nothing refers to them.

\* Mutant: the limit of the command alone.
FloorForWithoutMinimum(limit) == limit

\* floor_for: the limit sent with the command, never below the legal minimum.
FloorFor(limit) == IF limit > FloorKw THEN limit ELSE FloorKw

\* The time a cycle accounts for: none in the first one, and never more
\* than MaxStepS after a stall.
Elapsed(t) ==
  IF last_t = None THEN 0
  ELSE IF t - last_t > MaxStepS THEN MaxStepS ELSE t - last_t

\* Accounting::roll: the seconds dimmed so far on this calendar day.
Rolled(day) == IF totals.day = day THEN totals.dimmed_s_today ELSE 0

\* Mutant: the window ends one measurement early.
RememberedTooShort(t) == {m \in surplus_seen : t - m.t < SurplusHoldS}

\* What is left of the hold window at time t.
Remembered(t) == {m \in surplus_seen : m.t <= t /\ t - m.t <= SurplusHoldS}

\* The window after this cycle's measurement; without one nothing is added.
Measured(t, surplus) ==
  Remembered(t) \cup
    (IF surplus = None THEN {} ELSE {[t |-> t, kw |-> surplus]})

\* The surplus a dimmed site may count on: the lowest of the window, and
\* none when this cycle has no measurement.
HeldSurplus(t, surplus) ==
  IF surplus = None THEN {0}
  ELSE LET kws == {m.kw : m \in Measured(t, surplus)}
       IN  {kw \in kws : \A other \in kws : kw <= other}

\* Mutant: the day's limit itself is still allowed.
DayLimitReachedLate(cmd, today) ==
  IsContract /\ cmd.dim /\ ~cmd.emergency /\ DayLimitS > 0 /\ today > DayLimitS

\* The contract's time for today is used up and nobody declared an emergency.
DayLimitReached(cmd, today) ==
  /\ IsContract
  /\ cmd.dim
  /\ ~cmd.emergency
  /\ DayLimitS > 0
  /\ today >= DayLimitS

\* The random wait before the ramp: xorshift gives [0, 1) of the maximum.
ReleaseWaits ==
  IF ReleaseDelayMaxS = 0 THEN {0} ELSE 0 .. (ReleaseDelayMaxS - 1)

\* The release in force in an undimmed cycle: a new one right after a
\* dimming, otherwise the one under way.
ReleaseAfter(t, wait) ==
  IF was_dimmed THEN [at |-> t + wait, from |-> last_budget_kw] ELSE release

\* Mutant: the slope of a ramp that starts from nothing.
RampTooSteep(rel, t) ==
  rel.from + (RatedLoadsKw * (t - rel.at)) \div ReleaseRampS

\* The ramp: linear from the last dimmed budget to the rated power.
Ramp(rel, t) ==
  rel.from + ((RatedLoadsKw - rel.from) * (t - rel.at)) \div ReleaseRampS

-----------------------------------------------------------------------------
\* The consumption part of Controller::step.

StatusOf(mode, cmd, surplus) ==
  [mode |-> mode, floor_kw |-> FloorFor(cmd.limit_kw), pv_surplus_kw |-> surplus]

\* A reduction is in force: the floor plus the held surplus less the margin.
Dim(t, cmd, surplus) ==
  /\ release' = None
  /\ \E held \in HeldSurplus(t, surplus) :
        last_budget_kw' = FloorFor(cmd.limit_kw) + held - MarginKw
  /\ status' = StatusOf("Dimmed", cmd, surplus)
  /\ ended_at' = ended_at

\* The random wait: the last dimmed budget stays in force.
Wait(t, rel, cmd, surplus) ==
  /\ rel # None
  /\ t < rel.at
  /\ release' = rel
  /\ last_budget_kw' = rel.from
  /\ status' = StatusOf("Releasing", cmd, surplus)

\* The ramp back to the rated power.
RampUp(t, rel, cmd, surplus) ==
  /\ rel # None
  /\ t >= rel.at
  /\ t - rel.at < ReleaseRampS
  /\ release' = rel
  /\ last_budget_kw' = Ramp(rel, t)
  /\ status' = StatusOf("Releasing", cmd, surplus)

\* Mutant: nothing is left of the ramp once the wait is over.
UnlimitedAfterWait(t, rel, cmd, surplus) ==
  /\ \/ rel = None
     \/ rel # None /\ t >= rel.at
  /\ release' = None
  /\ last_budget_kw' = Infinity
  /\ status' = StatusOf("Normal", cmd, surplus)

\* No limit: never dimmed, or the ramp is over.
Unlimited(t, rel, cmd, surplus) ==
  /\ \/ rel = None
     \/ rel # None /\ t - rel.at >= ReleaseRampS
  /\ release' = None
  /\ last_budget_kw' = Infinity
  /\ status' = StatusOf("Normal", cmd, surplus)

\* Undimmed, by command or because the day's limit refuses the dimming.
Undim(t, cmd, surplus) ==
  /\ \E wait \in IF was_dimmed THEN ReleaseWaits ELSE {0} :
       LET rel == ReleaseAfter(t, wait)
       IN  \/ Wait(t, rel, cmd, surplus)
           \/ RampUp(t, rel, cmd, surplus)
           \/ Unlimited(t, rel, cmd, surplus)
  /\ ended_at' = IF was_dimmed THEN t ELSE ended_at

\* Accounting::advance at the end of the cycle.
Account(t, day, dim, emergency) ==
  /\ totals' = [day |-> day,
                dimmed_s_today |-> Rolled(day) + (IF dim THEN Elapsed(t) ELSE 0)]
  /\ contract_s' = (IF totals.day = day THEN contract_s ELSE 0)
                    + (IF dim /\ ~emergency THEN Elapsed(t) ELSE 0)

\* One control cycle at time t.
Step(t, day, cmd, surplus) ==
  LET dim == cmd.dim /\ ~DayLimitReached(cmd, Rolled(day))
  IN  /\ last_t' = t
      /\ surplus_seen' = Measured(t, surplus)
      /\ was_dimmed' = dim
      /\ Account(t, day, dim, cmd.emergency)
      /\ IF dim THEN Dim(t, cmd, surplus) ELSE Undim(t, cmd, surplus)
      /\ last_seen' = IF surplus = None THEN last_seen
                      ELSE [last_seen EXCEPT ![surplus] = t]

-----------------------------------------------------------------------------

\* Controller::new, and the totals a first start restores (none).
Init ==
  /\ last_t = None
  /\ totals = [day |-> 0, dimmed_s_today |-> 0]
  /\ surplus_seen = {}
  /\ was_dimmed = FALSE
  /\ last_budget_kw = Infinity
  /\ release = None
  /\ status = [mode |-> "Normal", floor_kw |-> FloorKw, pv_surplus_kw |-> None]
  /\ ended_at = None
  /\ last_seen = [kw \in SurplusesKw |-> None]
  /\ contract_s = 0

\* The next tick of the main loop, after a whole number of seconds.
NextCycle ==
  \E cmd \in Commands, surplus \in SurplusesKw \cup {None},
     day \in {totals.day, totals.day + 1} :
    /\ day <= MaxDay
    /\ \/ last_t = None /\ Step(0, day, cmd, surplus)
       \/ \E d \in StepLengths :
             /\ last_t # None
             /\ last_t + d <= MaxTime
             /\ Step(last_t + d, day, cmd, surplus)

\* The bound of the clock is reached.
EndOfTime ==
  /\ last_t # None
  /\ \A d \in StepLengths : last_t + d > MaxTime
  /\ UNCHANGED vars

Next == NextCycle \/ EndOfTime

Spec == Init /\ [][Next]_vars

-----------------------------------------------------------------------------
\* Properties.

Release == [at : Nat, from : Int]

\* The state has its types, and a dimmed site is never granted less than the
\* legal floor (less the margin), whatever limit was sent with the command.
TypeOK ==
  /\ last_t \in Nat \cup {None}
  /\ totals \in [day : Nat, dimmed_s_today : Nat]
  /\ surplus_seen \in SUBSET [t : Nat, kw : SurplusesKw]
  /\ was_dimmed \in BOOLEAN
  /\ last_budget_kw \in Int \cup {Infinity}
  /\ was_dimmed => last_budget_kw \in Int /\ last_budget_kw >= FloorKw - MarginKw
  /\ release \in Release \cup {None}
  /\ status \in [mode : {"Normal", "Dimmed", "Releasing"}, floor_kw : Nat,
                 pv_surplus_kw : SurplusesKw \cup {None}]
  /\ ended_at \in Nat \cup {None}
  /\ last_seen \in [SurplusesKw -> Nat \cup {None}]
  /\ contract_s \in Nat

\* While dimmed, power above the floor is granted only for surplus that has
\* lasted: every measurement of the last surplus_hold_s seconds, however many
\* cycles and stalls ago, was at least as high, and there is one this cycle.
SurplusMustLast ==
  status.mode = "Dimmed" =>
    LET extra == last_budget_kw + MarginKw - status.floor_kw
    IN  /\ status.pv_surplus_kw = None => extra = 0
        /\ \A kw \in SurplusesKw :
             last_seen[kw] # None /\ last_t - last_seen[kw] <= SurplusHoldS
               => status.pv_surplus_kw = None \/ extra <= kw

\* After a dimming the site is unlimited no earlier than the ramp allows, and
\* is back no later than the longest wait and the ramp, through refusals,
\* repeated dimmings and stalls of the loop.
ReleaseOnTime ==
  ended_at # None =>
    /\ status.mode = "Normal" => last_t >= ended_at + ReleaseRampS
    /\ status.mode = "Releasing"
         => last_t < ended_at + ReleaseDelayMaxS + ReleaseRampS

\* What the loads may draw: a budget above their rated power is no limit.
UsableKw == IF status.mode = "Normal" THEN RatedLoadsKw ELSE last_budget_kw

\* The budget the release under way, or the one a lift would start, begins at.
ReleaseFromKw == IF was_dimmed THEN last_budget_kw ELSE release.from

\* The return to normal is gradual: between any two cycles after a dimming,
\* also over the end of the wait, of the ramp, or both at once, the loads gain
\* no more than the ramp's slope times the time that passed.
GradualRelease ==
  [][ status.mode # "Normal" /\ status'.mode # "Dimmed" =>
        (UsableKw' - UsableKw) * ReleaseRampS
          <= (IF RatedLoadsKw > ReleaseFromKw
              THEN (RatedLoadsKw - ReleaseFromKw) * (last_t' - last_t) ELSE 0)
    ]_vars

\* A contract is never used beyond its daily limit: the seconds of dimming
\* without an emergency counted in one day stay below the limit plus one
\* cycle, however emergencies, refusals and midnights are interleaved.
ContractDayLimit ==
  IsContract /\ DayLimitS > 0 => contract_s < DayLimitS + MaxStepS
=============================================================================
