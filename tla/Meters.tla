------------------------------- MODULE Meters -------------------------------
(***************************************************************************)
(* What the gateway learns and meters for the planner (meters.rs, fed by   *)
(* Ems::observe): the highest quarter-hour of import of the billing        *)
(* period, and the usual load of each quarter-hour of the day.             *)
(*                                                                         *)
(* A sample is the power over the time since the sample before, which      *)
(* ends anywhere, may straddle two quarters, may be missing, and counts    *)
(* for at most DtMax.  Energies are power times time; peaks are energies   *)
(* of a quarter.                                                           *)
(***************************************************************************)
EXTENDS Integers, FiniteSetsExt

CONSTANTS
  Nil,
  QuarterLen,    \* QUARTER_S, in units of time
  DtMax,         \* the clamp of a sample's time
  DaySlots,      \* quarters of a day
  Weekend,       \* the days of the run that are weekends
  PeriodLen,     \* quarters of a billing period
  Powers,        \* kW of a sample
  Steps,         \* times between samples
  EndOfTime      \* bound on time

ASSUME MetersAssumption ==
  /\ QuarterLen \in Nat \ {0} /\ DtMax \in 1 .. QuarterLen
  /\ DaySlots \in Nat \ {0} /\ PeriodLen \in Nat \ {0}
  /\ Steps \subseteq Nat \ {0}
  /\ Powers \subseteq Nat /\ \E top \in Powers : \A p \in Powers : p <= top
  /\ Nil \notin [q : Nat, e : Nat]

VARIABLES
  time,      \* unix_s of the last sample
  peak,      \* QuarterPeak; current is [q, e] or Nil
  profile,   \* BaseLoadProfile; current is [q, e, secs] or Nil
  stored,    \* what is saved of both
  \* history:
  energy,    \* imported in this quarter so far, exactly
  seen_all,  \* every sample of this quarter was taken, none of them clamped
  least,     \* highest such quarter of the period, and whether this process
             \* saw it all
  most,      \* highest quarter of the period
  touched    \* [slot -> the powers of samples that touched it]

metervars == <<time, peak, profile, stored, energy, seen_all, least, most, touched>>

Slots == {"work", "weekend"} \X (0 .. DaySlots - 1)

QuarterAt(t) == t \div QuarterLen
PeriodAt(t) == QuarterAt(t) \div PeriodLen

\* slot: of the local day, by kind of day.
Slot(q) ==
  <<IF q \div DaySlots \in Weekend THEN "weekend" ELSE "work", q % DaySlots>>

\* The quarter of the sample's middle.
QuarterOf(dt) == (2 * time' - dt) \div (2 * QuarterLen)

\* Mutant: a new period keeps the peak of the old one.
MeteredNoReset(kw, dt) ==
  LET q == QuarterOf(dt)
      cur == peak.current
  IN  IF dt <= 0 THEN peak
      ELSE IF cur # Nil /\ cur.q = q
        THEN [peak EXCEPT !.current.e = @ + kw * dt]
        ELSE [period |-> PeriodAt(time'),
              high |-> IF cur = Nil THEN peak.high ELSE Max({peak.high, cur.e}),
              current |-> [q |-> q, e |-> kw * dt]]

\* QuarterPeak::observe.
Metered(kw, dt) ==
  LET q == QuarterOf(dt)
      cur == peak.current
      counted == IF cur = Nil THEN peak.high ELSE Max({peak.high, cur.e})
  IN  IF dt <= 0 THEN peak
      ELSE IF cur # Nil /\ cur.q = q
        THEN [peak EXCEPT !.current.e = @ + kw * dt]
        ELSE [period |-> PeriodAt(time'),
              high |-> IF PeriodAt(time') # peak.period THEN 0 ELSE counted,
              current |-> [q |-> q, e |-> kw * dt]]

\* Mutant: the load of a quarter goes to the slot in which it is closed.
ClosedLate(p) ==
  IF p.current = Nil \/ 2 * p.current.secs < QuarterLen THEN p
  ELSE LET x == p.current.e \div p.current.secs
           s == Slot(QuarterAt(time'))
       IN  [p EXCEPT !.last = x,
                     !.mean[s] = IF @ = Nil THEN x ELSE @ + (x - @) \div 2]

\* BaseLoadProfile::close: half the way to the mean of a quarter that was
\* seen for half its time.
Closed(p) ==
  IF p.current = Nil \/ 2 * p.current.secs < QuarterLen THEN p
  ELSE LET x == p.current.e \div p.current.secs
           s == Slot(p.current.q)
       IN  [p EXCEPT !.last = x,
                     !.mean[s] = IF @ = Nil THEN x ELSE @ + (x - @) \div 2]

OtherDay(s) == <<IF s[1] = "work" THEN "weekend" ELSE "work", s[2]>>

\* Mutant: a slot nothing was learned of is the last quarter again.
ExpectedOfLast(s) == IF profile.mean[s] # Nil THEN profile.mean[s] ELSE profile.last

\* BaseLoadProfile::expected: as learned, or as on the other kind of day, or as
\* in the last quarter.
ExpectedLoad(s) ==
  IF profile.mean[s] # Nil THEN profile.mean[s]
  ELSE IF profile.mean[OtherDay(s)] # Nil THEN profile.mean[OtherDay(s)]
  ELSE profile.last

\* BaseLoadProfile::observe.
Learned(kw, dt) ==
  LET q == QuarterOf(dt)
      cur == profile.current
  IN  IF dt <= 0 THEN profile
      ELSE IF cur # Nil /\ cur.q = q
        THEN [profile EXCEPT !.current.e = @ + kw * dt, !.current.secs = @ + dt]
        ELSE [Closed(profile) EXCEPT !.current = [q |-> q, e |-> kw * dt, secs |-> dt]]

-----------------------------------------------------------------------------

\* The part of the last `span` that is in the quarter of now.
Inside(span) == Min({span, time' - QuarterLen * ((time' - 1) \div QuarterLen)})

\* Ems::observe; without a reading of the meter nothing is counted.
Sample ==
  \E span \in Steps, kw \in Powers, read \in BOOLEAN :
    LET dt == Min({span, DtMax})
        now == (time + span - 1) \div QuarterLen
        was == IF time = 0 THEN 0 ELSE (time - 1) \div QuarterLen
        total == energy + kw * (span - Inside(span))
        anew == now \div PeriodLen # was \div PeriodLen
        good == read /\ span <= DtMax
    IN
    /\ time + span <= EndOfTime
    /\ time' = time + span
    /\ IF read THEN peak' = Metered(kw, dt) /\ profile' = Learned(kw, dt)
               ELSE UNCHANGED <<peak, profile>>
    /\ IF now = was
         THEN /\ energy' = energy + kw * span /\ seen_all' = (seen_all /\ good)
              /\ UNCHANGED <<least, most>>
         ELSE /\ energy' = kw * Inside(span) /\ seen_all' = good
              /\ most' = IF anew THEN 0 ELSE Max({most, total, kw * QuarterLen})
              /\ least' = IF anew THEN 0
                          ELSE IF seen_all /\ good THEN Max({least, total}) ELSE least
    /\ touched' = [s \in Slots |->
                     IF \E q \in QuarterAt(time) .. now : Slot(q) = s
                       THEN touched[s] \cup {kw} ELSE touched[s]]
    /\ UNCHANGED stored

\* Ems::saved.
SaveMeters ==
  /\ stored' = [period |-> peak.period, high |-> peak.high, mean |-> profile.mean]
  /\ UNCHANGED <<time, peak, profile, energy, seen_all, least, most, touched>>

\* Ems::new, with what was saved: the peak only of the period it is.
RestartMeters ==
  /\ peak' = [period |-> PeriodAt(time),
              high |-> IF stored # Nil /\ stored.period = PeriodAt(time) THEN stored.high ELSE 0,
              current |-> Nil]
  /\ profile' = [mean |-> IF stored = Nil THEN [s \in Slots |-> Nil] ELSE stored.mean,
                 last |-> Nil, current |-> Nil]
  /\ seen_all' = FALSE /\ least' = 0
  /\ UNCHANGED <<time, stored, energy, most, touched>>

MeterInit ==
  /\ time = 0 /\ stored = Nil
  /\ peak = [period |-> 0, high |-> 0, current |-> Nil]
  /\ profile = [mean |-> [s \in Slots |-> Nil], last |-> Nil, current |-> Nil]
  /\ energy = 0 /\ seen_all = TRUE /\ least = 0 /\ most = 0
  /\ touched = [s \in Slots |-> {}]

\* The bound is reached.
MetersDone == time + Min(Steps) > EndOfTime /\ UNCHANGED metervars

MeterNext == Sample \/ SaveMeters \/ RestartMeters \/ MetersDone

-----------------------------------------------------------------------------
\* Properties.

Slack == DtMax * Max(Powers)

\* While the meter is at the quarter of now, the peak is the highest quarter of
\* this billing period, give or take the sample that straddled its ends:
\* never a quarter of the period before, and never less than a quarter that
\* this process has seen whole.
PeakIsOfThePeriod ==
  peak.current # Nil /\ peak.current.q = (time - 1) \div QuarterLen
    /\ peak.period = peak.current.q \div PeriodLen =>
      least - Slack <= peak.high /\ peak.high <= most + Slack

Within(x, seen) == (\E y \in seen : y <= x) /\ (\E y \in seen : x <= y)

\* What is expected of a quarter of the day lies between loads seen in it, on
\* that kind of day once one was learned there, else on the other; where neither
\* was, between all loads seen.
ExpectedWasSeen ==
  \A s \in Slots :
    /\ profile.mean[s] # Nil => Within(ExpectedLoad(s), touched[s])
    /\ profile.mean[s] = Nil /\ profile.mean[OtherDay(s)] # Nil =>
         Within(ExpectedLoad(s), touched[OtherDay(s)])
    /\ ExpectedLoad(s) # Nil => Within(ExpectedLoad(s), UNION {touched[u] : u \in Slots})

\* Peak and profile are of loads that were metered in their time.
MetersAreTrue == PeakIsOfThePeriod /\ ExpectedWasSeen
=============================================================================
