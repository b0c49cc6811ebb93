------------------------------ MODULE Weather ------------------------------
(***************************************************************************)
(* The weather forecast (weather.rs) and what the planner makes of it      *)
(* (ems.rs): from an answer with gaps to the sunshine expected in each     *)
(* step, corrected by how today's sky compares with the forecast.          *)
(*                                                                         *)
(* Time is counted in half steps, so that a file's points may lie between  *)
(* the planner's.  Power is in tenths of a kilowatt, ratios in thousandths.*)
(***************************************************************************)
EXTENDS Integers, Sequences, SequencesExt, FiniteSetsExt

CONSTANTS
  Missing,     \* null, or nothing
  KeepSky,     \* two days: older points are forgotten
  SkyStarts,   \* where an answer may start
  SkySteps,    \* how many steps it has
  Answers,     \* bound: number of fetches
  Looks,       \* bound: number of control cycles looked at
  Installed,   \* pv_installed_kw, tenths
  Ratio,       \* performance_ratio, thousandths
  Seen         \* powers the inverters may report, tenths

Step == 2      \* 15 minutes
NextHours == 3 \* bound: steps of the horizon

ASSUME WeatherAssumption == Installed \in Nat \ {0} /\ Ratio \in 1 .. 1000

VARIABLES
  sky,         \* WeatherBook::points
  now,         \* the time of the last fetch or cycle
  answers, looks,
  pv_ratio,    \* how the sky compares with the forecast
  \* history:
  answer,      \* the last answer: [end, gti, temp] in its order
  parsed,      \* what was made of it; Missing: an error
  had,         \* the book before it
  judged       \* the last cycle that had a forecast: what was expected, seen

weathervars == <<sky, now, answers, looks, pv_ratio, answer, parsed, had, judged>>

Bounded(x, lo, hi) == Max({lo, Min({x, hi})})
Distance(a, b) == IF a < b THEN b - a ELSE a - b

-----------------------------------------------------------------------------
\* The answer.

\* Mutant: a missing temperature is that of the next step that has one.
FilledAhead(read) ==
  [i \in DOMAIN read |->
     LET next == {j \in i .. Len(read) : read[j].temp # Missing}
     IN  IF next = {} THEN Missing ELSE read[Min(next)].temp]

\* A missing temperature repeats the one before.
Filled(read) ==
  [i \in DOMAIN read |->
     LET before == {j \in 1 .. i : read[j].temp # Missing}
     IN  IF before = {} THEN Missing ELSE read[Max(before)].temp]

\* parse_open_meteo: steps without irradiance are left out, and so are those
\* no temperature is known for; nothing left is an error.
ParseOpenMeteo(read) ==
  LET temps == Filled(read)
      whole == SelectSeq([i \in DOMAIN read |-> i],
                         LAMBDA i : read[i].gti # Missing /\ temps[i] # Missing)
  IN  IF whole = <<>> THEN Missing
      ELSE [k \in DOMAIN whole |->
              [end |-> read[whole[k]].end, gti |-> Max({read[whole[k]].gti, 0}),
               temp |-> temps[whole[k]]]]

\* fetch, from Open-Meteo or a file in its format: an error without points.
FetchWeather(read, reachable) == IF reachable THEN ParseOpenMeteo(read) ELSE Missing

\* Mutant: older points stay though the fresh answer has their time.
MergeAll(book, fresh, t) == {p \in book : p.end > t - KeepSky} \cup ToSet(fresh)

\* Mutant: a fresh answer replaces the book.
MergeFresh(book, fresh, t) == ToSet(fresh)

\* WeatherBook::merge: replaces the forecast from the first fresh step on.
MergeSky(book, fresh, t) ==
  {p \in book : p.end < fresh[1].end /\ p.end > t - KeepSky} \cup ToSet(fresh)

\* min_by_key, over points by time: of two as near the earlier.
Nearest(near, t) ==
  LET d == Min({Distance(p.end, t) : p \in near})
      at == Min({p.end : p \in {p \in near : Distance(p.end, t) = d}})
  IN  CHOOSE p \in near : p.end = at

\* Mutant: the last step known stands for all that follow.
AtEndOpen(book, t) ==
  LET near == {p \in book : p.end <= t + Step}
  IN  IF near = {} THEN Missing ELSE Nearest(near, t)

\* at_end: the step ending at t, or the nearest within a step.
AtEnd(book, t) ==
  LET near == {p \in book : Distance(p.end, t) <= Step}
  IN  IF near = {} THEN Missing ELSE Nearest(near, t)

-----------------------------------------------------------------------------
\* The power expected of it.

\* Mutant: more sun than the inverters can feed counts in full.
PvUnlimited(gti, temp) ==
  (((Installed * gti) \div 1000) * Ratio) \div 1000

\* pv_kw: irradiance and performance, less 0.4 % per kelvin the cells are
\* above 25 degrees, never above the installed power.
PvPower(gti, temp) ==
  LET cell == temp + gti \div 40
      derate == Bounded(1000 - 4 * (cell - 25), 750, 1100)
      plain == (((Installed * gti) \div 1000) * Ratio) \div 1000
  IN  Bounded((plain * derate) \div 1000, 0, Installed)

EndOfStep(t) == (t \div Step + 1) * Step

\* pv_forecast_raw: of the step t is in.
PvForecastRaw(book, t) ==
  IF AtEnd(book, EndOfStep(t)) = Missing THEN Missing
  ELSE PvPower(AtEnd(book, EndOfStep(t)).gti, AtEnd(book, EndOfStep(t)).temp)

\* Mutant: what the sky was like is kept through the night.
LookedKept(expected, seen, old, weight) ==
  IF expected = Missing \/ seen = Missing \/ 20 * expected <= Installed THEN old
  ELSE LET r == Bounded((1000 * seen) \div expected, 100, 1600)
       IN  IF old = Missing THEN r ELSE old + (weight * (r - old)) \div 1000

\* Mutant: a sky far from the forecast is taken as it is.
LookedWide(expected, seen, old, weight) ==
  IF expected = Missing THEN old
  ELSE IF seen = Missing \/ 20 * expected <= Installed THEN Missing
  ELSE LET r == (1000 * seen) \div expected
       IN  IF old = Missing THEN r ELSE old + (weight * (r - old)) \div 1000

\* observe, the nowcast: smoothed while the sun is high enough to judge.
Looked(expected, seen, old, weight) ==
  IF expected = Missing THEN old
  ELSE IF seen = Missing \/ 20 * expected <= Installed THEN Missing
  ELSE LET r == Bounded((1000 * seen) \div expected, 100, 1600)
       IN  IF old = Missing THEN r ELSE old + (weight * (r - old)) \div 1000

\* exp(-t / NOWCAST_TAU_S), a time ahead of t half steps: how much of today's
\* sky still counts.
Fading(t) == 1000 \div (t + 1)

\* nowcast.
Nowcast(ratio, ahead) ==
  IF ratio = Missing THEN 1000 ELSE 1000 + ((ratio - 1000) * Fading(ahead)) \div 1000

\* Mutant: the correction may expect more than the modules can give.
ExpectedAbove(book, ratio, t, k) ==
  LET end == (t \div Step + k) * Step
      p == AtEnd(book, end)
  IN  IF p = Missing THEN 0
      ELSE (PvPower(p.gti, p.temp) * Nowcast(ratio, Max({end - Step \div 2 - t, 0}))) \div 1000

\* horizon: the PV of the k-th step from t on; none without a forecast.
Expected(book, ratio, t, k) ==
  LET end == (t \div Step + k) * Step
      p == AtEnd(book, end)
      corrected(power) ==
        (power * Nowcast(ratio, Max({end - Step \div 2 - t, 0}))) \div 1000
  IN  IF p = Missing THEN 0 ELSE Min({corrected(PvPower(p.gti, p.temp)), Installed})

-----------------------------------------------------------------------------
\* The sun of an hour as the n-th answer has it: it is dark up to 2.
Sun(t, n) == IF t <= 2 THEN -1 ELSE 300 + 200 * n + 100 * t
Air(t, n) == 10 * n + t

\* store_weather: an answer, or an error, which changes no point.
Hear ==
  /\ answers < Answers /\ answers' = answers + 1
  /\ \E start \in SkyStarts, reachable \in BOOLEAN :
       \E suns, airs \in SUBSET (1 .. SkySteps) :
         LET end(i) == start + i * Step
             read == [i \in 1 .. SkySteps |->
                        [end |-> end(i),
                         gti |-> IF i \in suns THEN Sun(end(i), answers') ELSE Missing,
                         temp |-> IF i \in airs THEN Air(end(i), answers') ELSE Missing]]
         IN  /\ start + Step >= now /\ now' = start + Step
             /\ reachable \/ (suns = {} /\ airs = {})
             /\ answer' = read
             /\ parsed' = FetchWeather(read, reachable)
  /\ had' = sky
  /\ sky' = IF parsed' = Missing THEN sky ELSE MergeSky(sky, parsed', now')
  /\ UNCHANGED <<looks, pv_ratio, judged>>

\* observe: a cycle with what the inverters report; the first has no weight.
Look ==
  /\ answers > 0 /\ looks < Looks /\ looks' = looks + 1
  /\ \E seen \in Seen \cup {Missing} :
       LET weight == IF looks = 0 THEN 0 ELSE 500
       IN  /\ now' = now + 1
           /\ pv_ratio' = Looked(PvForecastRaw(sky, now'), seen, pv_ratio, weight)
           /\ judged' = IF PvForecastRaw(sky, now') = Missing THEN judged
                        ELSE [expected |-> PvForecastRaw(sky, now'), seen |-> seen]
  /\ UNCHANGED <<sky, answers, answer, parsed, had>>

WeatherInit ==
  /\ sky = {} /\ now = 0 /\ answers = 0 /\ looks = 0 /\ pv_ratio = Missing
  /\ answer = <<>> /\ parsed = Missing /\ had = {} /\ judged = Missing

\* All there is to hear and to look at has passed.
WeatherDone ==
  /\ looks = Looks /\ (answers = Answers \/ now > Max(SkyStarts) + Step)
  /\ UNCHANGED weathervars

WeatherNext == Hear \/ Look \/ WeatherDone

-----------------------------------------------------------------------------
\* Properties.

SkyTimes == Min(SkyStarts) - Step .. Max(SkyStarts) + (SkySteps + 2) * Step

\* What an answer said of a step is what the book has of it from then on: its
\* own sun, and its own temperature or one read before it.
AnswerIsKept ==
  parsed # Missing =>
    \A i \in DOMAIN answer :
      LET p == {q \in sky : q.end = answer[i].end}
          known == {j \in 1 .. i : answer[j].temp # Missing}
      IN  answer[i].end >= parsed[1].end =>
            IF answer[i].gti = Missing \/ known = {} THEN p = {}
            ELSE \E j \in known :
                   /\ p = {[end |-> answer[i].end, gti |-> Max({answer[i].gti, 0}),
                            temp |-> answer[j].temp]}
                   /\ \A l \in known : l <= j

\* A time has one point, none is lost that the answer says nothing of, and an
\* answer that is none changes nothing.
SkyIsKept ==
  /\ \A p, q \in sky : p = q \/ p.end # q.end
  /\ \A p \in had : IF parsed = Missing THEN p \in sky
                    ELSE p.end < parsed[1].end /\ p.end > now => p \in sky

\* The point of a step is a nearest one, and one that is about that time.
StepHasItsWeather ==
  \A t \in SkyTimes :
    LET p == AtEnd(sky, t)
    IN  /\ p = Missing <=> \A q \in sky : q.end > t + Step \/ q.end < t - Step
        /\ p # Missing => \A q \in sky : Distance(p.end, t) <= Distance(q.end, t)

\* The planner never counts on more sun than the modules can give, on none it
\* has no forecast for, and never further from the forecast than the sky is.
NoInventedSun ==
  \A k \in 1 .. NextHours :
    LET e == Expected(sky, pv_ratio, now, k)
        raw == PvForecastRaw(sky, (now \div Step + k - 1) * Step)
    IN  /\ e \in 0 .. Installed
        /\ raw = Missing => e = 0
        /\ LET r == IF pv_ratio = Missing THEN 1000 ELSE pv_ratio
           IN  raw # Missing => /\ Min({1000, r}) * raw <= 1000 * (e + 1)
                                /\ 1000 * e <= Max({1000, r}) * raw

\* A correction is about a sky somebody saw: there is one only while the last
\* cycle with a forecast had sun to judge it by.
SkyWasSeen ==
  pv_ratio # Missing =>
    /\ pv_ratio \in 100 .. 1600
    /\ judged # Missing /\ judged.seen # Missing /\ 20 * judged.expected > Installed

\* The planner's sky is the last one heard of, as far as the one seen bears
\* it out.
SkyIsTrue ==
  answers > 0 =>
    AnswerIsKept /\ SkyIsKept /\ StepHasItsWeather /\ NoInventedSun /\ SkyWasSeen
=============================================================================
