----------------------------- MODULE PriceBook -----------------------------
(***************************************************************************)
(* Day-ahead prices (market.rs): from what two kinds of source send to the *)
(* price of a time.  Time is counted in the finest product; a price is     *)
(* named by the fetch it came with and the product it was given for.       *)
(***************************************************************************)
EXTENDS Integers, Sequences, SequencesExt, FiniteSetsExt, TLC

CONSTANTS
  NoPrice,
  Hour,      \* 3600 s
  Day,       \* 86_400 s
  Keep,      \* older prices are forgotten
  Window,    \* a fetch asks for so long, from a day before it
  Starts,    \* where a fetch may start
  Fetches    \* bound: number of fetches

ASSUME PriceBookAssumption == Hour \in Nat \ {0} /\ Day > 0 /\ Keep >= Day

VARIABLES
  points,    \* PriceBook::points
  clock,     \* the time of the last fetch
  fetches,   \* how many there were
  \* history:
  fresh,     \* what the last fetch gave
  given,     \* the products its source sent
  before     \* points before it

bookvars == <<points, clock, fetches, fresh, given, before>>

End(p) == p.start + p.dur
Overlap(p, q) == p.start < End(q) /\ q.start < End(p)
ByStart(p, q) == p.start < q.start

\* with_durations: the spacing of start times, at most an hour; the last
\* repeats the one before.
WithDurations(pairs) ==
  LET Dur(out, i) == IF i < Len(pairs) THEN pairs[i + 1].start - pairs[i].start
                     ELSE IF out = <<>> THEN Hour ELSE Last(out).dur
      Add(out, i) ==
        IF Dur(out, i) \in 1 .. Hour
          THEN Append(out, [start |-> pairs[i].start, dur |-> Dur(out, i),
                            price |-> pairs[i].price])
          ELSE out
  IN  FoldLeft(Add, <<>>, [i \in 1 .. Len(pairs) |-> i])

Positions(start, res) == {start + k * res : k \in 0 .. Window \div res - 1}

\* Mutant: a missing position repeats the first price.
PeriodFirst(at, curve, start, res) ==
  {[start |-> t, dur |-> res, price |-> at[Min({s \in DOMAIN at : s <= t})]] :
     t \in {t \in Positions(start, res) :
              IF curve = "A03" THEN \E s \in DOMAIN at : s <= t ELSE t \in DOMAIN at}}

\* A period of an ENTSO-E series, `at` the price of each position given: with
\* curve type A03 a missing position repeats the previous price.
Period(at, curve, start, res) ==
  {[start |-> t, dur |-> res, price |-> at[Max({s \in DOMAIN at : s <= t})]] :
     t \in {t \in Positions(start, res) :
              IF curve = "A03" THEN \E s \in DOMAIN at : s <= t ELSE t \in DOMAIN at}}

\* merge_finest: keeps the finest resolution where series overlap.
MergeFinest(ps) ==
  LET Finer(p, q) == p.dur < q.dur \/ (p.dur = q.dur /\ p.start < q.start)
      Pick(kept, p) == IF \E k \in kept : Overlap(p, k) THEN kept ELSE kept \cup {p}
  IN  SetToSortSeq(FoldLeft(Pick, {}, SetToSortSeq(ps, Finer)), ByStart)

Young(p, now) == p.start > now - Keep
Clear(p, new) == End(p) <= new[1].start \/ p.start >= End(Last(new))

\* Mutant: what reaches past the fresh prices' end is kept.
MergeEnds(book, new, now) ==
  IF new = <<>> THEN book
  ELSE {p \in book : (Clear(p, new) \/ End(p) > End(Last(new))) /\ Young(p, now)}
         \cup ToSet(new)

\* Mutant: what touches the fresh prices goes with what they overlap.
MergeTouching(book, new, now) ==
  IF new = <<>> THEN book
  ELSE {p \in book : /\ End(p) < new[1].start \/ p.start > End(Last(new))
                     /\ Young(p, now)} \cup ToSet(new)

\* Mutant: a fresh price is taken where there is none.
MergeOldest(book, new, now) ==
  IF new = <<>> THEN book
  ELSE {p \in book : Young(p, now)}
         \cup {p \in ToSet(new) : \A q \in book : ~Overlap(p, q)}

\* PriceBook::merge: forgets what the fresh prices span, and what is old.
Merge(book, new, now) ==
  IF new = <<>> THEN book
  ELSE {p \in book : Clear(p, new) /\ Young(p, now)} \cup ToSet(new)

\* PriceBook::at: the price of the product that contains t.
At(book, t) ==
  IF \E p \in book : p.start <= t
    THEN LET last == CHOOSE p \in book :
                       p.start <= t /\ \A q \in book : q.start <= t => q.start <= p.start
         IN  IF t < End(last) THEN last.price ELSE NoPrice
    ELSE NoPrice

\* at_or_before: or of the same time one, two or seven days earlier.
AtOrBefore(book, t) ==
  LET days == {d \in {0, 1, 2, 7} : At(book, t - d * Day) # NoPrice}
  IN  IF days = {} THEN NoPrice ELSE At(book, t - Min(days) * Day)

-----------------------------------------------------------------------------
\* What a source sends, any price of it left out, and what is made of that:
\* no series is an error.

Price(t, res) == [fetch |-> fetches + 1, at |-> t, res |-> res]
Prices(ts, res) == [t \in ts |-> Price(t, res)]
NoAnswer == [given |-> {}, series |-> <<>>]

\* What Energy-Charts sends: products in order; parse_energy_charts leaves
\* nulls out.
Sent(ts) == SetToSortSeq({[start |-> t, price |-> Price(t, 1)] : t \in ts}, ByStart)
ParseEnergyCharts(pairs) == [given |-> {p.price : p \in ToSet(pairs)}, series |-> WithDurations(pairs)]

\* The same day may come in the finest and in hourly products.
Series(start, curve, fine, hourly) ==
  [given |-> {Price(t, 1) : t \in fine} \cup {Price(t, Hour) : t \in hourly},
   series |-> MergeFinest(Period(Prices(fine, 1), curve, start, 1)
                            \cup Period(Prices(hourly, Hour), curve, start, Hour))]

\* A line of a file is a price, or cannot be read: NoPrice, or not even this.
NoComma == [comma |-> FALSE]

\* sort_by_key: the lines that can be read, by time, those of one time in
\* their order.
InOrder(lines) ==
  LET read == {i \in DOMAIN lines : lines[i] \notin {NoPrice, NoComma}}
      Before(i, j) == lines[i].start < lines[j].start
                      \/ (lines[i].start = lines[j].start /\ i < j)
      order == SetToSortSeq(read, Before)
  IN  [k \in DOMAIN order |-> lines[order[k]]]

\* Mutant: the lines are taken in their order.
ParseCsvUnsorted(lines) ==
  IF lines[1] = NoComma \/ \E i \in DOMAIN lines \ {1} : lines[i] = NoPrice THEN <<>>
  ELSE WithDurations(SelectSeq(lines, LAMBDA l : l # NoPrice))

\* Mutant: a line that cannot be read is skipped.
ParseCsvSkipping(lines) == WithDurations(InOrder(lines))

\* parse_csv: the first line may be a header, with a comma; any other that
\* cannot be read refuses the file.
ParseCsv(lines) ==
  IF lines[1] = NoComma \/ \E i \in DOMAIN lines \ {1} : lines[i] = NoPrice THEN <<>>
  ELSE WithDurations(InOrder(lines))

\* A file: two lines, `heads` before them.
CsvFile(heads, times) ==
  LET Line(i) == IF times[i] = NoPrice THEN NoPrice
                 ELSE [start |-> times[i], price |-> Price(times[i], 1) @@ [line |-> i]]
      lines == [i \in 1 .. 2 |-> Line(i)]
      whole == /\ heads # <<NoComma>> /\ lines[2] # NoPrice
               /\ heads # <<>> => lines[1] # NoPrice
  IN  [given |-> IF whole THEN {l.price : l \in ToSet(lines) \ {NoPrice}} ELSE {},
       series |-> ParseCsv(heads \o lines)]

\* Mutant: what Energy-Charts sends with an error counts.
FetchOneAny(source, ok, answer) == answer

\* fetch_one: of Energy-Charts' answers only those without an HTTP error
\* count, of ENTSO-E's all that hold prices.
FetchOne(source, ok, answer) ==
  IF source = "energy-charts" /\ ~ok THEN NoAnswer ELSE answer

\* Mutant: the last source that answers.
FirstAnswerLast(answers) ==
  LET ok == {i \in DOMAIN answers : answers[i].series # <<>>}
  IN  IF ok = {} THEN <<>> ELSE answers[Max(ok)].series

\* fetch: the prices of the first source that answers.
FirstAnswer(answers) ==
  LET ok == {i \in DOMAIN answers : answers[i].series # <<>>}
  IN  IF ok = {} THEN <<>> ELSE answers[Min(ok)].series

\* store_prices: answers, in the order the sources are asked in; `sent` what
\* the first of them gave that gave any.
Answered(start, answers, sent) ==
  /\ fetches' = fetches + 1
  /\ start + Day >= clock /\ clock' = start + Day  \* from_s: a day before now
  /\ fresh' = FirstAnswer(answers) /\ given' = sent /\ before' = points
  /\ points' = Merge(points, fresh', clock')

\* ENTSO-E answers, and so would Energy-Charts.
Entsoe ==
  /\ fetches < Fetches
  /\ \E start \in Starts : \E pairs \in {Sent(Positions(start, 1))} :
       \E charts \in {ParseEnergyCharts(pairs)}, curve \in {"A01", "A03"} :
         \E fine \in SUBSET Positions(start, 1), hourly \in SUBSET Positions(start, Hour) :
           \E e \in {Series(start, curve, fine, hourly)} :
             /\ e.given # {}
             /\ Answered(start, <<FetchOne("entsoe", TRUE, e),
                                  FetchOne("energy-charts", TRUE, charts)>>, e.given)

\* Only Energy-Charts answers, perhaps with an error.
EnergyCharts ==
  /\ fetches < Fetches
  /\ \E start \in Starts, ok \in BOOLEAN : \E sent \in SUBSET Positions(start, 1) :
       \E pairs \in {Sent(sent)} : \E charts \in {ParseEnergyCharts(pairs)} :
         Answered(start, <<FetchOne("entsoe", FALSE, NoAnswer), FetchOne("energy-charts", ok, charts)>>,
                  IF ok THEN charts.given ELSE {})

\* The only source is a file.
File ==
  /\ fetches < Fetches
  /\ \E start \in Starts, heads \in {<<>>, <<NoPrice>>, <<NoComma>>} :
       \E times \in [1 .. 2 -> Positions(Min(Starts), 1) \cup {NoPrice}] :
         \E f \in {CsvFile(heads, times)} :
           Answered(start, <<FetchOne("file", TRUE, f)>>, f.given)

BookInit ==
  /\ points = {} /\ clock = 0 /\ fetches = 0
  /\ fresh = <<>> /\ given = {} /\ before = {}

\* All fetches are done.
BookDone == fetches = Fetches /\ UNCHANGED bookvars

BookNext == Entsoe \/ EnergyCharts \/ File \/ BookDone

-----------------------------------------------------------------------------
\* Properties.

AllTimes == Min(Starts) .. Max(Starts) + Window + Day

\* A time has one price, however series and fetches overlap.
OnePriceAtATime == \A p, q \in points : p = q \/ ~Overlap(p, q)

\* Where the last answer has a price, it is the one in force.
NewestWins ==
  \A t \in AllTimes :
    At(ToSet(fresh), t) # NoPrice => AtOrBefore(points, t) = At(ToSet(fresh), t)

\* A price is in force from its own time on, and not past a later one of the
\* same resolution that its source gave.
PriceOfItsTime ==
  \A t \in AllTimes :
    LET p == At(ToSet(fresh), t)
    IN  p # NoPrice =>
          p.at <= t /\ \A q \in given : q.res = p.res /\ p.at < q.at => t < q.at

\* What is in the book is what the first source that gave any gave for it;
\* and a price given is in force at its time, unless another given for that
\* time stands in for it or it is followed by nothing within an hour.
SourceIsHeard ==
  /\ \A p \in ToSet(fresh) : p.price \in given
  /\ \A p \in given :
       \/ At(points, p.at) = p
       \/ \E q \in given \ {p} : q.at = p.at \/ q.res < p.res
       \/ /\ \E q \in given : q.at > p.at
          /\ \A q \in given : q.at > p.at => q.at > p.at + Hour

\* What lies outside the times a fetch answers for stays as long as the
\* planner may take it for a later day's.
RestIsKept ==
  fresh # <<>> =>
    \A t \in AllTimes : \A p \in before :
      p.start <= t /\ t < End(p) /\ Young(p, clock) /\ Clear(p, fresh) =>
        At(points, t) = p.price

\* At any time the book has the one price that was last given for it.
BookIsTrue ==
  fetches > 0 =>
    OnePriceAtATime /\ NewestWins /\ PriceOfItsTime /\ SourceIsHeard /\ RestIsKept
=============================================================================
