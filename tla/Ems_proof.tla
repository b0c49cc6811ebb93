------------------------------ MODULE Ems_proof ------------------------------
(* The planning layer: no change is forgotten, guidance is recent, and what *)
(* the sources publish is known in time and kept, however the task, the     *)
(* control loop and the clock interleave and wherever the process is killed.*)
(* The peak and the loads it meters, and the local time it plans by.        *)
EXTENDS Ems, Meters, Calendar, TLAPS

-----------------------------------------------------------------------------
\* The inductive invariant of PlanIsOfNow.

AgeOrNone == Nat \cup {None}
Ahead == [Feeds -> Int \cup {None}]

EmsTypeOK ==
  /\ loop \in {"tick", "fetching", "plan", "solving", "save", "prices", "weather"}
  /\ loop = "weather" => "weather" \in Feeds
  /\ fetching \in Feeds \cup {None} /\ blocked \in 0 .. MaxBlock
  /\ ticked \in BOOLEAN /\ wanted \in BOOLEAN /\ planned \in BOOLEAN
  /\ feed \in [Feeds -> [fetched : AgeOrNone, tried : AgeOrNone, error : BOOLEAN]]
  /\ book \in Ahead /\ source \in Ahead /\ disk \in Ahead
  /\ answering \in [Feeds -> Nat] /\ known \in AgeOrNone
  /\ latest \in Site \cup {None}
  /\ attempted \in [site : Site, here : BOOLEAN] \cup {None}
  /\ prepared \in AgeOrNone /\ plan \in AgeOrNone /\ saved_age \in AgeOrNone
  /\ begun \in {"no", "begun", "ended"}

\* What the task keeps of a plan: it is as old as the readings it rests on, a
\* quarter-hour has been tried exactly if its problem was taken here, and a
\* pass that has looked at the plan leaves it tried.
Planning ==
  /\ evidence = plan
  /\ attempted # None => latest # None
  /\ planned <=> attempted # None /\ attempted.here
  /\ attempted # None /\ ~wanted => attempted.site = latest
  /\ begun = "begun" /\ loop \in {"solving", "save"} => attempted = None \/ planned
  /\ begun = "ended" => attempted = None \/ planned

PlanInv == EmsType /\ EmsTypeOK /\ Planning

-----------------------------------------------------------------------------
\* The inductive invariant of PricesAreKept.

\* How long the other waits of a pass may take.
WeatherWait == IF "weather" \in Feeds THEN MaxBlock ELSE 0
Waiting == WeatherWait + 2 * MaxBlock

\* A look that finds no fetch due finds the book within n of its source.
LooksWithin(n) ==
  /\ Retry <= n + 1 /\ Quarter <= n + 1
  /\ \/ Refresh <= n + 1
     \/ \A f \in Feeds : \A ahead \in Published[f] : ahead - ShortBelow[f] <= n

\* The book is within n of what the source gives, or it gives that for n only.
Found(f, n) ==
  source[f] # None =>
    answering[f] <= n \/ (book[f] # None /\ source[f] - book[f] <= n)

\* The same of the next state.
FoundThen(f, n) ==
  source'[f] # None =>
    answering'[f] <= n \/ (book'[f] # None /\ source'[f] - book'[f] <= n)

\* The ages of a feed are at least as old as its book is behind.
Ages(f) ==
  /\ source[f] # None => source[f] \in Published[f]
  /\ feed[f].fetched # None => feed[f].tried # None
  /\ feed[f].fetched # None => feed[f].fetched >= Refresh \/ Found(f, feed[f].fetched)
  /\ feed[f].tried # None =>
       fetching = f \/ feed[f].tried >= Retry \/ Found(f, feed[f].tried)

\* No time has passed since the task woke, and it has looked.
AtOnce(f) ==
  /\ ~ticked
  /\ loop \in {"plan", "solving", "save", "tick"}
     \/ (f = "prices" /\ (loop = "weather" \/ fetching = "weather"))

\* What the task has waited for since it last looked at prices, at weather.
PricesLooked(n) ==
  /\ loop = "weather" => Found("prices", n)
  /\ fetching = "weather" => Found("prices", n + blocked)
  /\ loop = "plan" => Found("prices", n + WeatherWait)
  /\ loop = "solving" => Found("prices", n + WeatherWait + blocked)
  /\ loop \in {"save", "tick", "prices"} => Found("prices", n + WeatherWait + MaxBlock)
  /\ fetching = "prices" => Found("prices", n + WeatherWait + MaxBlock + blocked)

WeatherLooked(n) ==
  "weather" \in Feeds =>
    /\ loop = "plan" => Found("weather", n)
    /\ loop = "solving" => Found("weather", n + blocked)
    /\ loop \in {"save", "tick", "prices"} => Found("weather", n + MaxBlock)
    /\ fetching = "prices" => Found("weather", n + MaxBlock + blocked)
    /\ loop = "weather" => Found("weather", n + 2 * MaxBlock)
    /\ fetching = "weather" => Found("weather", n + 2 * MaxBlock + blocked)

FeedsInv(n) ==
  /\ \A f \in Feeds : Ages(f) /\ (AtOnce(f) => Found(f, n))
  /\ PricesLooked(n) /\ WeatherLooked(n)

\* Prices are on the disk, or have been known for n only.
SavedWithin(n) == known # None => disk["prices"] # None \/ known <= n

\* How long prices may have been known at the start of a pass: one that was
\* not due yet by the time before its solve.
SavedBy == SaveEvery + MaxBlock - 1

Saving ==
  /\ known # None => book["prices"] # None
  /\ loop = "tick" \/ ~ticked => blocked = 0
  /\ saved_age # None => saved_age >= SaveEvery + MaxBlock \/ SavedWithin(saved_age)
  /\ loop = "tick" /\ ~ticked /\ known # None => disk["prices"] # None \/ known < SaveEvery
  /\ loop \in {"tick", "prices"} => SavedWithin(SavedBy)
  /\ fetching = "prices" => SavedWithin(SavedBy + blocked)
  /\ loop = "weather" => SavedWithin(SavedBy + MaxBlock)
  /\ fetching = "weather" => SavedWithin(SavedBy + MaxBlock + blocked)
  /\ loop = "plan" => SavedWithin(SavedBy + MaxBlock + WeatherWait)
  /\ loop = "solving" => SavedWithin(SavedBy + MaxBlock + WeatherWait + blocked)
  /\ loop = "save" => SavedWithin(SavedBy + 2 * MaxBlock + WeatherWait)

-----------------------------------------------------------------------------
LEMMA ElderType ==
  ASSUME NEW a \in AgeOrNone, NEW m \in Nat
  PROVE  /\ Elder(a, m) \in AgeOrNone
         /\ a = None <=> Elder(a, m) = None
         /\ a # None => /\ a \in Nat /\ Elder(a, m) \in Nat
                        /\ a <= Elder(a, m) /\ Elder(a, m) <= a + 1
                        /\ a < m => Elder(a, m) = a + 1
                        /\ a >= m => Elder(a, m) = a
BY NoneAssumption DEF Elder, AgeOrNone

LEMMA SinkType ==
  ASSUME NEW a \in Int \cup {None}
  PROVE  /\ Sink(a) \in Int \cup {None}
         /\ a = None <=> Sink(a) = None
         /\ a # None => Sink(a) \in Int /\ a - 1 <= Sink(a) /\ Sink(a) <= a
BY NoneAssumption, EmsAssumption DEF Sink

LEMMA FeedsAre ==
  /\ "prices" \in Feeds /\ None \notin Feeds /\ None # "prices" /\ None # "weather"
  /\ \A f \in Feeds : f = "prices" \/ f = "weather"
BY EmsAssumption, NoneAssumption

\* What an age counts as far as it is compared.
LEMMA ElderLess ==
  ASSUME NEW a \in AgeOrNone, NEW m \in Nat, NEW n \in Nat, n <= m
  PROVE  (Elder(a, m) # None /\ Elder(a, m) < n) => (a # None /\ a < n)
BY ElderType DEF AgeOrNone

-----------------------------------------------------------------------------
\* PlanIsOfNow.

LEMMA InitPlan == EInit => PlanInv
<1> SUFFICES ASSUME EInit PROVE PlanInv
  OBVIOUS
<1> USE DEF EInit
<1>1. /\ NewFeeds \in [Feeds -> [fetched : AgeOrNone, tried : AgeOrNone, error : BOOLEAN]]
      /\ [f \in Feeds |-> None] \in Ahead /\ [f \in Feeds |-> 0] \in [Feeds -> Nat]
  BY DEF NewFeeds, AgeOrNone, Ahead
<1>2. EmsTypeOK
  <2>1. None \in AgeOrNone /\ 0 \in 0 .. MaxBlock
    BY EmsAssumption DEF AgeOrNone
  <2> QED
    BY <1>1, <2>1 DEF EmsTypeOK
<1>3. EmsType
  BY EmsAssumption DEF EmsType
<1>4. Planning
  BY DEF Planning
<1> QED
  BY <1>2, <1>3, <1>4 DEF PlanInv

LEMMA ObservePlan ==
  ASSUME PlanInv, Observe
  PROVE  PlanInv'
<1>1. PICK plugged \in SUBSET Chargers, dimmed \in BOOLEAN :
        LET before == IF latest = None THEN [plugged |-> {}, dimmed |-> FALSE] ELSE latest
        IN  /\ latest' = [plugged |-> plugged, dimmed |-> dimmed]
            /\ wanted' = (wanted \/ latest' # before)
            /\ latest' # latest
  BY DEF Observe
<1>2. UNCHANGED <<phase, loop, fetching, blocked, ticked, feed, book, source, answering, known,
                  planned, prepared, plan, attempted, evidence, saved_age, disk, begun>>
  BY DEF Observe, place, feeds
<1>3. latest' \in Site /\ latest' # None /\ wanted' \in BOOLEAN
  BY <1>1, NoneAssumption DEF Site
<1>4. latest # None => wanted'
  BY <1>1
<1>5. EmsTypeOK'
  BY <1>2, <1>3 DEF PlanInv, EmsTypeOK
<1>6. EmsType'
  BY <1>2 DEF PlanInv, EmsType
<1>7. Planning'
  BY <1>2, <1>3, <1>4 DEF PlanInv, Planning
<1> QED
  BY <1>5, <1>6, <1>7 DEF PlanInv

LEMMA WakePlan ==
  ASSUME PlanInv, Wake
  PROVE  PlanInv'
<1>1. /\ loop = "tick" /\ ticked' = FALSE /\ loop' = "prices" /\ begun' = "begun"
      /\ UNCHANGED <<phase, fetching, blocked, feed, book, source, answering, known, latest,
                     wanted, planned, prepared, plan, attempted, evidence, saved_age, disk>>
  BY DEF Wake, feeds, plans
<1>2. EmsTypeOK'
  BY <1>1 DEF PlanInv, EmsTypeOK
<1>3. EmsType'
  BY <1>1, FeedsAre DEF PlanInv, EmsType
<1>4. Planning'
  BY <1>1 DEF PlanInv, Planning
<1> QED
  BY <1>2, <1>3, <1>4 DEF PlanInv

LEMMA AfterIs ==
  ASSUME NEW f \in Feeds
  PROVE  /\ After(f) \in {"weather", "plan"} /\ (After(f) = "weather" => "weather" \in Feeds)
         /\ f = "prices" /\ "weather" \in Feeds => After(f) = "weather"
         /\ f = "weather" \/ "weather" \notin Feeds => After(f) = "plan"
BY FeedsAre DEF After

LEMMA FetchPlan ==
  ASSUME PlanInv, NEW f \in Feeds, Fetch(f)
  PROVE  PlanInv'
<1>1. /\ loop = f
      /\ UNCHANGED <<phase, blocked, ticked, book, source, answering, known, latest, wanted,
                     planned, prepared, plan, attempted, evidence, saved_age, disk, begun>>
  BY DEF Fetch, plans
<1>2. fetching = None /\ prepared = None /\ f \in {"prices", "weather"}
  BY <1>1, FeedsAre DEF PlanInv, EmsType
<1>3. CASE feed' = [feed EXCEPT ![f].tried = 0] /\ loop' = "fetching" /\ fetching' = f
  <2>1. feed' \in [Feeds -> [fetched : AgeOrNone, tried : AgeOrNone, error : BOOLEAN]]
    BY <1>3 DEF PlanInv, EmsTypeOK, AgeOrNone
  <2>2. EmsTypeOK'
    BY <1>1, <1>3, <2>1 DEF PlanInv, EmsTypeOK
  <2>3. EmsType'
    BY <1>1, <1>2, <1>3, FeedsAre DEF PlanInv, EmsType
  <2>4. Planning'
    BY <1>1, <1>3 DEF PlanInv, Planning
  <2> QED
    BY <2>2, <2>3, <2>4 DEF PlanInv
<1>4. CASE loop' = After(f) /\ UNCHANGED <<feed, fetching>>
  <2>1. EmsTypeOK'
    BY <1>1, <1>4, AfterIs DEF PlanInv, EmsTypeOK
  <2>2. EmsType'
    BY <1>1, <1>2, <1>4, AfterIs DEF PlanInv, EmsType
  <2>3. Planning'
    BY <1>1, <1>4, AfterIs DEF PlanInv, Planning
  <2> QED
    BY <2>1, <2>2, <2>3 DEF PlanInv
<1> QED
  BY <1>3, <1>4 DEF Fetch, Try

LEMMA FetchedPlan ==
  ASSUME PlanInv, Fetched
  PROVE  PlanInv'
<1> DEFINE f == fetching
<1>1. /\ loop = "fetching" /\ Store(f)
      /\ loop' = After(f) /\ fetching' = None /\ blocked' = 0
      /\ UNCHANGED <<phase, ticked, source, answering, latest, planned, prepared, plan,
                     attempted, evidence, saved_age, disk, begun>>
  BY DEF Fetched
<1>2. f \in Feeds /\ prepared = None
  BY <1>1 DEF PlanInv, EmsType, EmsTypeOK
<1> HIDE DEF f
<1>3. /\ feed' \in [Feeds -> [fetched : AgeOrNone, tried : AgeOrNone, error : BOOLEAN]]
      /\ book' \in Ahead /\ wanted' \in BOOLEAN /\ known' \in AgeOrNone
      /\ wanted => wanted'
  <2>1. CASE source[f] = None
    <3>1. feed' = [feed EXCEPT ![f].error = TRUE] /\ UNCHANGED <<book, wanted, known>>
      BY <1>1, <2>1 DEF Store
    <3>2. feed' \in [Feeds -> [fetched : AgeOrNone, tried : AgeOrNone, error : BOOLEAN]]
      BY <1>2, <3>1 DEF PlanInv, EmsTypeOK
    <3> QED
      BY <3>1, <3>2 DEF PlanInv, EmsTypeOK
  <2>2. CASE source[f] # None
    <3>1. /\ feed' = [feed EXCEPT ![f] = [fetched |-> 0, tried |-> 0, error |-> FALSE]]
          /\ book' = [book EXCEPT ![f] = Reach(f, source[f])]
          /\ wanted' = (wanted \/ (f = "prices" /\ book'[f] # book[f]))
          /\ known' = IF f = "prices" /\ known = None THEN 0 ELSE known
      BY <1>1, <2>2 DEF Store
    <3>2. feed' \in [Feeds -> [fetched : AgeOrNone, tried : AgeOrNone, error : BOOLEAN]]
      BY <1>2, <3>1 DEF PlanInv, EmsTypeOK, AgeOrNone
    <3>3. Reach(f, source[f]) \in Int \cup {None}
      BY <1>2 DEF Reach, PlanInv, EmsTypeOK, Ahead
    <3>4. book' \in Ahead
      BY <3>1, <3>3 DEF PlanInv, EmsTypeOK, Ahead
    <3> QED
      BY <3>1, <3>2, <3>4 DEF PlanInv, EmsTypeOK, AgeOrNone
  <2> QED
    BY <2>1, <2>2
<1>4. EmsTypeOK'
  BY <1>1, <1>2, <1>3, AfterIs, EmsAssumption DEF PlanInv, EmsTypeOK
<1>5. EmsType'
  BY <1>1, <1>2, AfterIs DEF PlanInv, EmsType
<1>6. Planning'
  BY <1>1, <1>2, <1>3, AfterIs DEF PlanInv, Planning
<1> QED
  BY <1>4, <1>5, <1>6 DEF PlanInv

LEMMA PlanPlan ==
  ASSUME PlanInv, Plan
  PROVE  PlanInv'
<1>1. /\ loop = "plan"
      /\ UNCHANGED <<phase, fetching, blocked, ticked, feed, book, source, answering, known,
                     latest, plan, evidence, saved_age, disk, begun>>
  BY DEF Plan, feeds
<1>2. fetching = None /\ prepared = None
  BY <1>1 DEF PlanInv, EmsType
<1>3. CASE ReplanDue
  <2>1. /\ planned' = TRUE /\ wanted' = FALSE
        /\ attempted' = [site |-> latest, here |-> TRUE]
        /\ \/ prepared' = 0 /\ loop' = "solving"
           \/ loop' = "save" /\ UNCHANGED prepared
    BY <1>3 DEF Plan, Prepare
  <2>2. latest \in Site
    BY <1>3 DEF ReplanDue, PlanInv, EmsTypeOK
  <2>3. attempted' \in [site : Site, here : BOOLEAN] /\ attempted' # None
    <3>1. attempted' \in [site : Site, here : BOOLEAN]
      <4> DEFINE t == TRUE
      <4>1. t \in BOOLEAN /\ attempted' = [site |-> latest, here |-> t]
        BY <2>1
      <4> HIDE DEF t
      <4> QED
        BY <2>2, <4>1
    <3> QED
      BY <3>1, NoneAssumption
  <2>4. EmsTypeOK'
    <3>1. prepared' \in AgeOrNone
      BY <1>2, <2>1 DEF AgeOrNone
    <3>2. planned' \in BOOLEAN /\ wanted' \in BOOLEAN /\ loop' \in {"solving", "save"}
      BY <2>1
    <3> QED
      BY <1>1, <2>3, <3>1, <3>2 DEF PlanInv, EmsTypeOK
  <2>5. EmsType'
    BY <1>1, <1>2, <2>1, NoneAssumption DEF PlanInv, EmsType
  <2>6. Planning'
    BY <1>1, <2>1, <2>2, <2>3, NoneAssumption DEF PlanInv, Planning
  <2> QED
    BY <2>4, <2>5, <2>6 DEF PlanInv
<1>4. CASE ~ReplanDue
  <2>1. loop' = "save" /\ UNCHANGED <<wanted, planned, prepared, attempted>>
    BY <1>4 DEF Plan
  <2>2. attempted = None \/ planned
    BY <1>4 DEF ReplanDue, PlanInv, Planning
  <2>3. EmsTypeOK'
    BY <1>1, <2>1 DEF PlanInv, EmsTypeOK
  <2>4. EmsType'
    BY <1>1, <1>2, <2>1 DEF PlanInv, EmsType
  <2>5. Planning'
    BY <1>1, <2>1, <2>2 DEF PlanInv, Planning
  <2> QED
    BY <2>3, <2>4, <2>5 DEF PlanInv
<1> QED
  BY <1>3, <1>4

LEMMA SolvedPlan ==
  ASSUME PlanInv, Solved
  PROVE  PlanInv'
<1>1. /\ loop = "solving"
      /\ prepared' = None /\ loop' = "save"
      /\ UNCHANGED <<phase, fetching, blocked, ticked, feed, book, source, answering, known, latest,
                     attempted, saved_age, disk, begun, wanted, planned>>
      /\ (plan' = prepared /\ evidence' = prepared) \/ UNCHANGED <<plan, evidence>>
  BY DEF Solved, feeds, Accept
<1>2. fetching = None
  BY <1>1 DEF PlanInv, EmsType
<1>3. EmsTypeOK'
  BY <1>1, EmsAssumption DEF PlanInv, EmsTypeOK, AgeOrNone
<1>4. EmsType'
  BY <1>1, <1>2 DEF PlanInv, EmsType
<1>5. Planning'
  BY <1>1 DEF PlanInv, Planning
<1> QED
  BY <1>3, <1>4, <1>5 DEF PlanInv

LEMMA SavePlan ==
  ASSUME PlanInv, Save
  PROVE  PlanInv'
<1>1. /\ loop = "save"
      /\ disk' = book \/ UNCHANGED disk
      /\ saved_age' = blocked \/ UNCHANGED saved_age
      /\ known' = (IF known = None \/ disk["prices"] # None THEN known ELSE 0) \/ UNCHANGED known
      /\ loop' = "tick" /\ blocked' = 0
      /\ begun' = IF begun = "begun" THEN "ended" ELSE begun
      /\ UNCHANGED <<phase, fetching, ticked, feed, book, source, answering,
                     latest, wanted, planned, prepared, plan, attempted, evidence>>
  BY DEF Save, SaveFails, plans
<1>2. EmsTypeOK'
  <2>1. blocked \in 0 .. MaxBlock /\ MaxBlock \in Nat
    BY EmsAssumption DEF PlanInv, EmsTypeOK
  <2>2. disk' \in Ahead /\ saved_age' \in AgeOrNone /\ known' \in AgeOrNone
    BY <1>1, <2>1 DEF PlanInv, EmsTypeOK, AgeOrNone
  <2>3. blocked' \in 0 .. MaxBlock
    BY <1>1, <2>1
  <2> QED
    BY <1>1, <2>2, <2>3 DEF PlanInv, EmsTypeOK
<1>3. EmsType'
  BY <1>1 DEF PlanInv, EmsType
<1>4. Planning'
  BY <1>1 DEF PlanInv, Planning, EmsTypeOK
<1> QED
  BY <1>2, <1>3, <1>4 DEF PlanInv

LEMMA SourcePlan ==
  ASSUME PlanInv, SourceChanges
  PROVE  PlanInv'
<1>1. PICK f \in Feeds : \E ahead \in {None} \cup Published[f] :
        /\ source' = [source EXCEPT ![f] = ahead]
        /\ answering' = [answering EXCEPT ![f] = 0]
  BY DEF SourceChanges
<1>2. PICK ahead \in {None} \cup Published[f] :
        /\ source' = [source EXCEPT ![f] = ahead]
        /\ answering' = [answering EXCEPT ![f] = 0]
  BY <1>1
<1>3. UNCHANGED <<phase, loop, fetching, blocked, ticked, feed, book, known, latest, wanted,
                  planned, prepared, plan, attempted, evidence, saved_age, disk, begun>>
  BY DEF SourceChanges, place, plans
<1>4. ahead \in Int \cup {None}
  BY EmsAssumption
<1>5. source' \in Ahead /\ answering' \in [Feeds -> Nat]
  BY <1>2, <1>4 DEF PlanInv, EmsTypeOK, Ahead
<1>6. EmsTypeOK'
  BY <1>3, <1>5 DEF PlanInv, EmsTypeOK
<1>7. EmsType' /\ Planning'
  BY <1>3 DEF PlanInv, EmsType, Planning
<1> QED
  BY <1>6, <1>7 DEF PlanInv
LEMMA ClockPlan ==
  ASSUME PlanInv, Clock
  PROVE  PlanInv'
<1>1. /\ (loop = "tick" /\ ~ticked) \/ (Waits /\ blocked < MaxBlock)
      /\ phase' = (phase + 1) % Quarter
      /\ planned' = (planned /\ phase' # 0)
      /\ begun' = IF phase' = 0 THEN "no" ELSE begun
      /\ ticked' = TRUE /\ blocked' = IF Waits THEN blocked + 1 ELSE 0
      /\ feed' = [f \in Feeds |-> [feed[f] EXCEPT !.fetched = Elder(@, Refresh),
                                                  !.tried = Elder(@, Retry)]]
      /\ book' = [f \in Feeds |-> Sink(book[f])]
      /\ disk' = [f \in Feeds |-> Sink(disk[f])]
      /\ prepared' = Elder(prepared, PlanMaxAge) /\ plan' = Elder(plan, PlanMaxAge)
      /\ evidence' = Elder(evidence, PlanMaxAge) /\ saved_age' = Elder(saved_age, SaveEvery + MaxBlock)
      /\ answering' = [f \in Feeds |-> Elder(answering[f], ServedFor)]
      /\ known' = Elder(known, KnownFor)
      /\ attempted' = IF attempted = None THEN None
                      ELSE [attempted EXCEPT !.here = @ /\ phase' # 0]
      /\ UNCHANGED <<loop, fetching, source, latest, wanted>>
  BY DEF Clock
<1>2. feed' \in [Feeds -> [fetched : AgeOrNone, tried : AgeOrNone, error : BOOLEAN]]
  <2> SUFFICES ASSUME NEW f \in Feeds
               PROVE  [feed[f] EXCEPT !.fetched = Elder(@, Refresh), !.tried = Elder(@, Retry)]
                        \in [fetched : AgeOrNone, tried : AgeOrNone, error : BOOLEAN]
    BY <1>1
  <2>1. /\ feed[f] \in [fetched : AgeOrNone, tried : AgeOrNone, error : BOOLEAN]
        /\ feed[f].fetched \in AgeOrNone /\ feed[f].tried \in AgeOrNone
    BY DEF PlanInv, EmsTypeOK
  <2>2. Elder(feed[f].fetched, Refresh) \in AgeOrNone /\ Elder(feed[f].tried, Retry) \in AgeOrNone
    BY <2>1, ElderType, EmsAssumption
  <2> QED
    BY <2>1, <2>2
<1>3. book' \in Ahead /\ disk' \in Ahead
  BY <1>1, SinkType DEF PlanInv, EmsTypeOK, Ahead
<1>4. answering' \in [Feeds -> Nat]
  <2> SUFFICES ASSUME NEW f \in Feeds PROVE Elder(answering[f], ServedFor) \in Nat
    BY <1>1
  <2>1. answering[f] \in Nat /\ answering[f] \in AgeOrNone /\ answering[f] # None
    BY NoneAssumption DEF PlanInv, EmsTypeOK, AgeOrNone
  <2> QED
    BY <2>1, ElderType, EmsAssumption
<1>5. /\ known' \in AgeOrNone /\ prepared' \in AgeOrNone /\ plan' \in AgeOrNone
      /\ saved_age' \in AgeOrNone
      /\ prepared = None <=> prepared' = None
      /\ plan = None <=> plan' = None
  <2>1. SaveEvery + MaxBlock \in Nat
    BY EmsAssumption
  <2> QED
    BY <1>1, <2>1, ElderType, EmsAssumption DEF PlanInv, EmsTypeOK
<1>6. blocked' \in 0 .. MaxBlock
  <2>1. blocked \in Nat /\ MaxBlock \in Nat
    BY EmsAssumption DEF PlanInv, EmsTypeOK
  <2>2. Waits => blocked < MaxBlock
    BY <1>1 DEF Waits
  <2>3. blocked' = IF Waits THEN blocked + 1 ELSE 0
    BY <1>1
  <2> QED
    BY <2>1, <2>2, <2>3
<1>7. planned \in BOOLEAN /\ planned' \in BOOLEAN /\ begun' \in {"no", "begun", "ended"}
      /\ ticked' \in BOOLEAN
  BY <1>1 DEF PlanInv, EmsTypeOK
<1>8. /\ attempted' \in [site : Site, here : BOOLEAN] \cup {None}
      /\ attempted' = None <=> attempted = None
      /\ attempted # None => /\ attempted'.site = attempted.site
                             /\ attempted'.here <=> attempted.here /\ phase' # 0
  <2>1. CASE attempted = None
    BY <1>1, <2>1
  <2>2. CASE attempted # None
    <3> DEFINE h == attempted.here /\ phase' # 0
    <3>1. h \in BOOLEAN
      BY DEF h
    <3>2. attempted \in [site : Site, here : BOOLEAN] /\ attempted' = [attempted EXCEPT !.here = h]
      BY <1>1, <2>2 DEF PlanInv, EmsTypeOK
    <3> HIDE DEF h
    <3>3. attempted' \in [site : Site, here : BOOLEAN] /\ attempted'.site = attempted.site
          /\ attempted'.here = h
      BY <3>1, <3>2
    <3> QED
      BY <2>2, <3>1, <3>3, NoneAssumption DEF h
  <2> QED
    BY <2>1, <2>2
<1>9. EmsTypeOK'
  BY <1>1, <1>2, <1>3, <1>4, <1>5, <1>6, <1>7, <1>8 DEF PlanInv, EmsTypeOK
<1>10. evidence' = plan'
  BY <1>1 DEF PlanInv, Planning
<1>11. EmsType'
  <2>1. phase' \in 0 .. Quarter - 1
    <3>1. phase \in Int /\ Quarter \in Nat /\ Quarter > 0
      BY EmsAssumption DEF PlanInv, EmsType
    <3>2. (phase + 1) % Quarter \in 0 .. Quarter - 1
      BY <3>1
    <3> QED
      BY <1>1, <3>2
  <2> QED
    BY <1>1, <1>5, <1>10, <2>1 DEF PlanInv, EmsType
<1>12. Planning'
  <2>1. planned' <=> attempted' # None /\ attempted'.here
    BY <1>1, <1>7, <1>8 DEF PlanInv, Planning
  <2>2. begun' # "no" => phase' # 0 /\ begun' = begun
    BY <1>1
  <2>3. phase' # 0 => planned' = planned
    BY <1>1, <1>7
  <2> QED
    BY <1>1, <1>8, <1>10, <2>1, <2>2, <2>3 DEF PlanInv, Planning
<1> QED
  BY <1>9, <1>11, <1>12 DEF PlanInv

LEMMA RestartPlan ==
  ASSUME PlanInv, Restart
  PROVE  PlanInv'
<1>1. /\ loop' = "tick" /\ fetching' = None /\ blocked' = 0
      /\ ticked' = TRUE /\ feed' = NewFeeds
      /\ book' = disk /\ known' = IF disk["prices"] = None THEN None ELSE 0
      /\ latest' = None /\ wanted' = FALSE /\ planned' = FALSE /\ prepared' = None
      /\ plan' = None /\ saved_age' = None
      /\ attempted' = None /\ evidence' = None /\ begun' = "no"
      /\ answering' = [f \in Feeds |-> 0]
      /\ UNCHANGED <<phase, disk, source>>
  BY DEF Restart
<1>2. /\ feed' \in [Feeds -> [fetched : AgeOrNone, tried : AgeOrNone, error : BOOLEAN]]
      /\ answering' \in [Feeds -> Nat]
  BY <1>1 DEF NewFeeds, AgeOrNone
<1>3. None \in AgeOrNone /\ known' \in AgeOrNone /\ 0 \in 0 .. MaxBlock
  BY <1>1, EmsAssumption DEF AgeOrNone
<1>4. EmsTypeOK'
  BY <1>1, <1>2, <1>3 DEF PlanInv, EmsTypeOK
<1>5. EmsType'
  BY <1>1 DEF PlanInv, EmsType
<1>6. Planning'
  BY <1>1 DEF Planning
<1> QED
  BY <1>4, <1>5, <1>6 DEF PlanInv

LEMMA NextPlan == PlanInv /\ [ENext]_emsvars => PlanInv'
<1> SUFFICES ASSUME PlanInv, [ENext]_emsvars PROVE PlanInv'
  OBVIOUS
<1>1. CASE UNCHANGED emsvars
  BY <1>1 DEF emsvars, place, feeds, plans, PlanInv, EmsType, EmsTypeOK, Planning
<1>2. CASE \E f \in Feeds : Fetch(f)
  BY <1>2, FetchPlan
<1>3. CASE Observe \/ Wake \/ Fetched \/ Plan \/ Solved \/ Save
  BY <1>3, ObservePlan, WakePlan, FetchedPlan, PlanPlan, SolvedPlan, SavePlan
<1>4. CASE SourceChanges \/ Clock \/ Restart
  BY <1>4, SourcePlan, ClockPlan, RestartPlan
<1> QED
  BY <1>1, <1>2, <1>3, <1>4 DEF ENext

\* The plan in force is of this quarter-hour, of this site and of recent
\* readings, or has been tried: replan_due, prepare and accept (ems.rs).
THEOREM PlanIsOfNowHolds == ESpec => []PlanIsOfNow
<1>1. PlanInv => PlanIsOfNow
  BY ElderType, EmsAssumption
     DEF PlanInv, PlanIsOfNow, Planning, EmsTypeOK, NoChangeForgotten, GuidanceIsRecent, Guidance,
         QuarterIsPlanned
<1> QED
  BY <1>1, InitPlan, NextPlan, PTL DEF ESpec
-----------------------------------------------------------------------------
\* PricesAreKept.

LEMMA FeedTypes ==
  ASSUME PlanInv, NEW f \in Feeds
  PROVE  /\ answering[f] \in Nat /\ book[f] \in Int \cup {None} /\ source[f] \in Int \cup {None}
         /\ feed[f].fetched \in Nat \cup {None} /\ feed[f].tried \in Nat \cup {None}
         /\ feed[f].error \in BOOLEAN
         /\ blocked \in Nat /\ blocked <= MaxBlock
         /\ MaxBlock \in Nat /\ WeatherWait \in Nat
         /\ (WeatherWait = MaxBlock \/ "weather" \notin Feeds)
<1>1. feed[f] \in [fetched : AgeOrNone, tried : AgeOrNone, error : BOOLEAN]
      /\ answering[f] \in Nat /\ book[f] \in Int \cup {None} /\ source[f] \in Int \cup {None}
      /\ blocked \in 0 .. MaxBlock
  BY DEF PlanInv, EmsTypeOK, Ahead
<1>2. MaxBlock \in Nat /\ WeatherWait \in Nat
      /\ (WeatherWait = MaxBlock \/ "weather" \notin Feeds)
  BY EmsAssumption DEF WeatherWait
<1> QED
  BY <1>1, <1>2 DEF AgeOrNone

LEMMA FoundMore ==
  ASSUME PlanInv, NEW f \in Feeds, NEW a \in Nat, NEW b \in Nat, a <= b, Found(f, a)
  PROVE  Found(f, b)
<1>1. answering[f] \in Nat /\ book[f] \in Int \cup {None} /\ source[f] \in Int \cup {None}
  BY FeedTypes
<1> QED
  BY <1>1 DEF Found

\* A look that finds nothing due.
LEMMA NotDueWithin ==
  ASSUME PlanInv, NEW n \in Nat, LooksWithin(n), NEW f \in Feeds, Ages(f), fetching # f, ~Due(f)
  PROVE  Found(f, n)
<1> DEFINE x == feed[f]
<1>1. /\ x.fetched \in Nat \cup {None} /\ x.tried \in Nat \cup {None} /\ x.error \in BOOLEAN
      /\ book[f] \in Int \cup {None} /\ source[f] \in Int \cup {None} /\ answering[f] \in Nat
  BY FeedTypes
<1>2. /\ Retry \in Nat /\ MinRefetch \in Nat /\ Refresh \in Nat /\ Quarter \in Nat
      /\ MinRefetch <= Retry /\ ShortBelow[f] \in Int
      /\ Retry <= n + 1 /\ Quarter <= n + 1
      /\ Refresh <= n + 1 \/ \A ahead \in Published[f] : ahead - ShortBelow[f] <= n
  BY EmsAssumption DEF LooksWithin
<1>3. /\ x.tried # None => x.tried >= Retry \/ Found(f, x.tried)
      /\ x.fetched # None => x.fetched >= Refresh \/ Found(f, x.fetched)
      /\ source[f] # None => source[f] \in Published[f]
  BY DEF Ages
<1>4. \/ x.tried # None /\ ~(x.tried >= IF x.error THEN Retry ELSE MinRefetch)
      \/ /\ x.fetched # None /\ ~(x.fetched >= Refresh)
         /\ (book[f] # None /\ ~(book[f] < ShortBelow[f])) \/ ~(x.fetched >= Quarter)
  BY DEF Due
<1> HIDE DEF x
<1>5. CASE x.tried # None /\ ~(x.tried >= IF x.error THEN Retry ELSE MinRefetch)
  <2>1. x.tried \in Nat /\ x.tried < Retry /\ x.tried <= n
    BY <1>1, <1>2, <1>5
  <2>2. Found(f, x.tried)
    BY <1>2, <1>3, <2>1, <1>5
  <2> QED
    BY <2>1, <2>2, FoundMore
<1>6. CASE x.fetched # None /\ ~(x.fetched >= Refresh)
  <2>1. x.fetched \in Nat /\ Found(f, x.fetched)
    BY <1>1, <1>3, <1>6
  <2>2. CASE x.fetched <= n
    BY <2>1, <2>2, FoundMore
  <2>3. CASE ~(x.fetched <= n)
    <3>1. x.fetched >= Quarter /\ ~(Refresh <= n + 1)
      BY <1>1, <1>2, <1>6, <2>1, <2>3
    <3>2. (book[f] # None /\ ~(book[f] < ShortBelow[f])) \/ (x.tried # None /\ ~(x.tried >= IF x.error THEN Retry ELSE MinRefetch))
      BY <1>4, <3>1
    <3>3. CASE book[f] # None /\ ~(book[f] < ShortBelow[f])
      <4>1. source[f] # None => source[f] - ShortBelow[f] <= n
        BY <1>2, <1>3, <3>1
      <4>2. book[f] \in Int
        BY <1>1, <3>3
      <4> QED
        BY <1>1, <1>2, <3>3, <4>1, <4>2 DEF Found
    <3> QED
      BY <1>5, <3>2, <3>3
  <2> QED
    BY <2>2, <2>3
<1> QED
  BY <1>4, <1>5, <1>6
\* A step that leaves a feed and its source alone.
FeedKept(f) == /\ answering'[f] = answering[f] /\ book'[f] = book[f] /\ source'[f] = source[f]

LEMMA KeptWithin ==
  ASSUME PlanInv, NEW f \in Feeds, FeedKept(f), NEW a \in Nat, NEW b \in Nat, a <= b, Found(f, a)
  PROVE  FoundThen(f, b)
<1>1. Found(f, b)
  BY FoundMore
<1> QED
  BY <1>1 DEF Found, FoundThen, FeedKept

\* What the feeds' invariant says of the next state, told by FoundThen.
LEMMA FeedsThen ==
  ASSUME NEW n \in Nat,
         \A f \in Feeds :
           /\ source'[f] # None => source'[f] \in Published[f]
           /\ feed'[f].fetched # None => feed'[f].tried # None
           /\ feed'[f].fetched # None =>
                feed'[f].fetched >= Refresh \/ FoundThen(f, feed'[f].fetched)
           /\ feed'[f].tried # None =>
                fetching' = f \/ feed'[f].tried >= Retry \/ FoundThen(f, feed'[f].tried)
           /\ /\ ~ticked'
              /\ loop' \in {"plan", "solving", "save", "tick"}
                 \/ (f = "prices" /\ (loop' = "weather" \/ fetching' = "weather"))
              => FoundThen(f, n),
         loop' = "weather" => FoundThen("prices", n),
         fetching' = "weather" => FoundThen("prices", n + blocked'),
         loop' = "plan" => FoundThen("prices", n + WeatherWait),
         loop' = "solving" => FoundThen("prices", n + WeatherWait + blocked'),
         loop' \in {"save", "tick", "prices"} => FoundThen("prices", n + WeatherWait + MaxBlock),
         fetching' = "prices" => FoundThen("prices", n + WeatherWait + MaxBlock + blocked'),
         "weather" \in Feeds =>
           /\ loop' = "plan" => FoundThen("weather", n)
           /\ loop' = "solving" => FoundThen("weather", n + blocked')
           /\ loop' \in {"save", "tick", "prices"} => FoundThen("weather", n + MaxBlock)
           /\ fetching' = "prices" => FoundThen("weather", n + MaxBlock + blocked')
           /\ loop' = "weather" => FoundThen("weather", n + 2 * MaxBlock)
           /\ fetching' = "weather" => FoundThen("weather", n + 2 * MaxBlock + blocked')
  PROVE  FeedsInv(n)'
<1>1. WeatherWait' = WeatherWait
  BY DEF WeatherWait
<1>2. PricesLooked(n)'
  BY <1>1 DEF PricesLooked, Found, FoundThen
<1>3. WeatherLooked(n)'
  BY DEF WeatherLooked, Found, FoundThen
<1>4. (\A f \in Feeds : Ages(f) /\ (AtOnce(f) => Found(f, n)))'
  <2> SUFFICES ASSUME NEW f \in Feeds PROVE (Ages(f) /\ (AtOnce(f) => Found(f, n)))'
    OBVIOUS
  <2>1. Ages(f)'
    BY DEF Ages, Found, FoundThen
  <2>2. (AtOnce(f) => Found(f, n))'
    BY DEF AtOnce, Found, FoundThen
  <2> QED
    BY <2>1, <2>2
<1> QED
  BY <1>2, <1>3, <1>4 DEF FeedsInv

\* The same of this state.
LEMMA FeedsNow ==
  ASSUME PlanInv, NEW n \in Nat, FeedsInv(n)
  PROVE  /\ \A f \in Feeds :
              /\ Ages(f)
              /\ (~ticked /\ (loop \in {"plan", "solving", "save", "tick"}
                    \/ (f = "prices" /\ (loop = "weather" \/ fetching = "weather"))))
                 => Found(f, n)
         /\ PricesLooked(n) /\ WeatherLooked(n)
         /\ loop = "fetching" <=> fetching # None
         /\ fetching = None \/ fetching = "prices" \/ (fetching = "weather" /\ "weather" \in Feeds)
         /\ loop = "weather" => "weather" \in Feeds
         /\ "prices" \in Feeds /\ n \in Nat
         /\ blocked \in Nat /\ blocked <= MaxBlock /\ MaxBlock \in Nat /\ WeatherWait \in Nat
         /\ (WeatherWait = MaxBlock \/ "weather" \notin Feeds)
<1>1. fetching \in Feeds \cup {None} /\ (loop = "fetching" <=> fetching # None)
  BY DEF PlanInv, EmsType, EmsTypeOK
<1>2. "prices" \in Feeds
  BY FeedsAre
<1> QED
  BY <1>1, <1>2, FeedsAre, FeedTypes DEF PlanInv, EmsTypeOK, FeedsInv, AtOnce

LEMMA KeptAges ==
  ASSUME PlanInv, NEW f \in Feeds, FeedKept(f), Ages(f), feed'[f] = feed[f],
         fetching = f => fetching' = f
  PROVE  /\ source'[f] # None => source'[f] \in Published[f]
         /\ feed'[f].fetched # None => feed'[f].tried # None
         /\ feed'[f].fetched # None =>
              feed'[f].fetched >= Refresh \/ FoundThen(f, feed'[f].fetched)
         /\ feed'[f].tried # None =>
              fetching' = f \/ feed'[f].tried >= Retry \/ FoundThen(f, feed'[f].tried)
<1>1. feed[f].fetched \in Nat \cup {None} /\ feed[f].tried \in Nat \cup {None}
  BY FeedTypes
<1>2. \A a \in Nat : Found(f, a) => FoundThen(f, a)
  BY KeptWithin
<1> QED
  BY <1>1, <1>2 DEF Ages, FeedKept

\* Steps of the task that do not wait and do not touch a feed.
LEMMA GoesOnFeeds ==
  ASSUME PlanInv, NEW n \in Nat, FeedsInv(n),
         UNCHANGED <<feed, book, source, answering, fetching>>,
         \/ UNCHANGED <<loop, blocked, ticked>>
         \/ loop = "tick" /\ loop' = "prices" /\ UNCHANGED blocked
         \/ loop = "plan" /\ loop' \in {"solving", "save"} /\ UNCHANGED <<blocked, ticked>>
         \/ loop = "solving" /\ loop' = "save" /\ UNCHANGED <<blocked, ticked>>
         \/ loop = "save" /\ loop' = "tick" /\ blocked' = 0 /\ UNCHANGED ticked
  PROVE  FeedsInv(n)'
<1>1. \A f \in Feeds : FeedKept(f)
  BY DEF FeedKept
<1>2. \A f \in Feeds : \A a, b \in Nat : a <= b /\ Found(f, a) => FoundThen(f, b)
  BY <1>1, KeptWithin
<1>3. /\ \A f \in Feeds :
           /\ Ages(f)
           /\ (~ticked /\ (loop \in {"plan", "solving", "save", "tick"}
                 \/ (f = "prices" /\ (loop = "weather" \/ fetching = "weather"))))
              => Found(f, n)
      /\ PricesLooked(n) /\ WeatherLooked(n)
      /\ loop = "fetching" <=> fetching # None
      /\ "prices" \in Feeds
      /\ blocked \in Nat /\ blocked <= MaxBlock /\ MaxBlock \in Nat /\ WeatherWait \in Nat
  BY FeedsNow
<1>4. None # "weather" /\ None # "prices"
  BY FeedsAre
<1>5. ASSUME NEW f \in Feeds
      PROVE  /\ source'[f] # None => source'[f] \in Published[f]
             /\ feed'[f].fetched # None => feed'[f].tried # None
             /\ feed'[f].fetched # None =>
                  feed'[f].fetched >= Refresh \/ FoundThen(f, feed'[f].fetched)
             /\ feed'[f].tried # None =>
                  fetching' = f \/ feed'[f].tried >= Retry \/ FoundThen(f, feed'[f].tried)
    BY <1>1, <1>3, KeptAges
<1>6. ASSUME NEW f \in Feeds, ~ticked',
             loop' \in {"plan", "solving", "save", "tick"}
               \/ (f = "prices" /\ (loop' = "weather" \/ fetching' = "weather"))
      PROVE  FoundThen(f, n)
  <2>1. Found(f, n)
    BY <1>3, <1>4, <1>6
  <2> QED
    BY <1>2, <2>1
<1>7. FeedsInv(n)' BY <1>2, <1>3, <1>4, <1>5, <1>6, FeedsThen DEF PricesLooked, WeatherLooked
<1> QED
  BY <1>7
LEMMA FetchFeeds ==
  ASSUME PlanInv, NEW n \in Nat, LooksWithin(n), FeedsInv(n), NEW f \in Feeds, Fetch(f)
  PROVE  FeedsInv(n)'
<1>1. loop = f /\ UNCHANGED <<blocked, ticked, book, source, answering>>
  BY DEF Fetch
<1>2. /\ \A g \in Feeds :
           /\ Ages(g)
           /\ (~ticked /\ (loop \in {"plan", "solving", "save", "tick"}
                 \/ (g = "prices" /\ (loop = "weather" \/ fetching = "weather"))))
              => Found(g, n)
      /\ PricesLooked(n) /\ WeatherLooked(n)
      /\ loop = "fetching" <=> fetching # None
      /\ "prices" \in Feeds
      /\ blocked \in Nat /\ blocked <= MaxBlock /\ MaxBlock \in Nat /\ WeatherWait \in Nat
  BY FeedsNow
<1>3. None # "weather" /\ None # "prices" /\ (f = "prices" \/ f = "weather")
  BY FeedsAre
<1>4. fetching = None /\ \A g \in Feeds : fetching # g
  BY <1>1, <1>2, <1>3, FeedsAre
<1>5. \A g \in Feeds : FeedKept(g)
  BY <1>1 DEF FeedKept
<1>6. \A g \in Feeds : \A a, b \in Nat : a <= b /\ Found(g, a) => FoundThen(g, b)
  BY <1>5, KeptWithin
<1>7. CASE Due(f)
  <2>1. feed' = [feed EXCEPT ![f].tried = 0] /\ loop' = "fetching" /\ fetching' = f
    BY <1>7 DEF Fetch, Try
  <2>2. ASSUME NEW g \in Feeds
        PROVE  /\ source'[g] # None => source'[g] \in Published[g]
               /\ feed'[g].fetched # None => feed'[g].tried # None
               /\ feed'[g].fetched # None =>
                    feed'[g].fetched >= Refresh \/ FoundThen(g, feed'[g].fetched)
               /\ feed'[g].tried # None =>
                    fetching' = g \/ feed'[g].tried >= Retry \/ FoundThen(g, feed'[g].tried)
    <3>1. CASE g = f
      <4>1. feed \in [Feeds -> [fetched : AgeOrNone, tried : AgeOrNone, error : BOOLEAN]]
        BY DEF PlanInv, EmsTypeOK
      <4>2. feed'[f].fetched = feed[f].fetched /\ feed'[f].tried = 0 /\ 0 # None
        BY <2>1, <4>1, NoneAssumption
      <4>3. feed[f].fetched \in Nat \cup {None}
        BY FeedTypes
      <4> QED
        BY <1>1, <1>2, <1>6, <2>1, <3>1, <4>2, <4>3 DEF Ages
    <3>2. CASE g # f
      <4>1. feed'[g] = feed[g]
        BY <2>1, <3>2 DEF PlanInv, EmsTypeOK
      <4> QED
        BY <1>2, <1>4, <1>5, <4>1, KeptAges
    <3> QED
      BY <3>1, <3>2
  <2>3. ASSUME NEW g \in Feeds, ~ticked',
               loop' \in {"plan", "solving", "save", "tick"}
                 \/ (g = "prices" /\ (loop' = "weather" \/ fetching' = "weather"))
        PROVE  FoundThen(g, n)
    <3>1. Found(g, n)
      BY <1>1, <1>2, <2>1, <2>3
    <3> QED
      BY <1>6, <3>1
  <2>4. CASE f = "prices"
    <3>1. fetching' = "prices" => FoundThen("prices", n + WeatherWait + MaxBlock + blocked')
      BY <1>1, <1>2, <1>6, <2>4 DEF PricesLooked
    <3>2. "weather" \in Feeds => FoundThen("weather", n + MaxBlock + blocked')
      BY <1>1, <1>2, <1>6, <2>4 DEF WeatherLooked
    <3> QED
      BY <2>1, <2>2, <2>3, <2>4, <3>1, <3>2, FeedsThen
  <2>5. CASE f = "weather"
    <3>1. FoundThen("prices", n + blocked')
      BY <1>1, <1>2, <1>6, <2>5 DEF PricesLooked
    <3>2. FoundThen("weather", n + 2 * MaxBlock + blocked')
      BY <1>1, <1>2, <1>6, <2>5 DEF WeatherLooked
    <3> QED
      BY <2>1, <2>2, <2>3, <2>5, <3>1, <3>2, FeedsThen
  <2> QED
    BY <1>3, <2>4, <2>5
<1>8. CASE ~Due(f)
  <2>1. loop' = After(f) /\ UNCHANGED <<feed, fetching>>
    BY <1>8 DEF Fetch
  <2>2. Found(f, n)
    BY <1>2, <1>4, <1>8, NotDueWithin
  <2>3. ASSUME NEW g \in Feeds
        PROVE  /\ source'[g] # None => source'[g] \in Published[g]
               /\ feed'[g].fetched # None => feed'[g].tried # None
               /\ feed'[g].fetched # None =>
                    feed'[g].fetched >= Refresh \/ FoundThen(g, feed'[g].fetched)
               /\ feed'[g].tried # None =>
                    fetching' = g \/ feed'[g].tried >= Retry \/ FoundThen(g, feed'[g].tried)
    BY <1>2, <1>5, <2>1, KeptAges
  <2>4. /\ loop' \in {"weather", "plan"} /\ (loop' = "weather" => "weather" \in Feeds)
        /\ f = "prices" /\ "weather" \in Feeds => loop' = "weather"
        /\ f = "weather" \/ "weather" \notin Feeds => loop' = "plan"
    BY <2>1, AfterIs
  <2>5. ASSUME NEW g \in Feeds, ~ticked',
               loop' \in {"plan", "solving", "save", "tick"}
                 \/ (g = "prices" /\ (loop' = "weather" \/ fetching' = "weather"))
        PROVE  FoundThen(g, n)
    <3>1. Found(g, n)
      BY <1>1, <1>2, <1>3, <1>4, <2>1, <2>2, <2>4, <2>5, FeedsAre
    <3> QED
      BY <1>6, <3>1
  <2> QED
    BY <1>1, <1>2, <1>3, <1>4, <1>6, <2>1, <2>2, <2>3, <2>4, <2>5, FeedsThen DEF PricesLooked, WeatherLooked
<1> QED
  BY <1>7, <1>8
\* An answer that is stored leaves nothing behind the source.
LEMMA StoredWithin ==
  ASSUME PlanInv, NEW f \in Feeds, Store(f), UNCHANGED <<source, answering>>
  PROVE  /\ \A k \in Nat : FoundThen(f, k)
         /\ \A g \in Feeds : g # f => FeedKept(g) /\ feed'[g] = feed[g]
         /\ source[f] # None => feed'[f].tried # None
         /\ source[f] = None => feed'[f].fetched = feed[f].fetched /\ feed'[f].tried = feed[f].tried
         /\ feed'[f].fetched \in Nat \cup {None} /\ feed'[f].tried \in Nat \cup {None}
<1>1. /\ feed \in [Feeds -> [fetched : AgeOrNone, tried : AgeOrNone, error : BOOLEAN]]
      /\ book \in Ahead
  BY DEF PlanInv, EmsTypeOK
<1>2. feed[f].fetched \in Nat \cup {None} /\ feed[f].tried \in Nat \cup {None}
  BY FeedTypes
<1>3. CASE source[f] = None
  <2>1. feed' = [feed EXCEPT ![f].error = TRUE] /\ UNCHANGED book
    BY <1>3 DEF Store
  <2>2. feed'[f].fetched = feed[f].fetched /\ feed'[f].tried = feed[f].tried
    BY <1>1, <2>1
  <2>3. \A g \in Feeds : g # f => feed'[g] = feed[g]
    BY <1>1, <2>1
  <2> QED
    BY <1>2, <1>3, <2>1, <2>2, <2>3 DEF FoundThen, FeedKept
<1>4. CASE source[f] # None
  <2> DEFINE r == Reach(f, source[f])
  <2>1. /\ feed' = [feed EXCEPT ![f] = [fetched |-> 0, tried |-> 0, error |-> FALSE]]
        /\ book' = [book EXCEPT ![f] = r]
    BY <1>4 DEF Store
  <2>2. source[f] \in Int /\ book[f] \in Int \cup {None}
    BY <1>4, FeedTypes
  <2>3. r \in Int /\ r # None /\ source[f] - r <= 0
    BY <1>4, <2>2, NoneAssumption DEF Reach
  <2> HIDE DEF r
  <2>4. book'[f] = r /\ \A g \in Feeds : g # f => book'[g] = book[g]
    BY <1>1, <2>1 DEF Ahead
  <2>5. \A k \in Nat : FoundThen(f, k)
    BY <2>2, <2>3, <2>4 DEF FoundThen
  <2>6. feed'[f] = [fetched |-> 0, tried |-> 0, error |-> FALSE]
        /\ \A g \in Feeds : g # f => feed'[g] = feed[g]
    BY <1>1, <2>1
  <2>7. feed'[f].fetched = 0 /\ feed'[f].tried = 0 /\ 0 # None
    BY <2>6, NoneAssumption
  <2> QED
    BY <1>4, <2>4, <2>5, <2>6, <2>7 DEF FeedKept
<1> QED
  BY <1>3, <1>4

LEMMA FetchedFeeds ==
  ASSUME PlanInv, NEW n \in Nat, FeedsInv(n), Fetched
  PROVE  FeedsInv(n)'
<1> DEFINE f == fetching
<1>1. /\ loop = "fetching" /\ Store(f) /\ loop' = After(f) /\ fetching' = None /\ blocked' = 0
      /\ UNCHANGED <<ticked, source, answering>>
  BY DEF Fetched
<1>2. /\ \A g \in Feeds :
           /\ Ages(g)
           /\ (~ticked /\ (loop \in {"plan", "solving", "save", "tick"}
                 \/ (g = "prices" /\ (loop = "weather" \/ fetching = "weather"))))
              => Found(g, n)
      /\ PricesLooked(n) /\ WeatherLooked(n)
      /\ loop = "fetching" <=> fetching # None
      /\ "prices" \in Feeds
      /\ blocked \in Nat /\ blocked <= MaxBlock /\ MaxBlock \in Nat /\ WeatherWait \in Nat
      /\ (WeatherWait = MaxBlock \/ "weather" \notin Feeds)
  BY FeedsNow
<1>3. f \in Feeds
  BY <1>1 DEF PlanInv, EmsType, EmsTypeOK
<1>4. None # "weather" /\ None # "prices" /\ (f = "prices" \/ f = "weather")
      /\ \A g \in Feeds : g = "prices" \/ g = "weather"
  BY <1>3, FeedsAre
<1>5. /\ loop' \in {"weather", "plan"} /\ (loop' = "weather" => "weather" \in Feeds)
      /\ f = "prices" /\ "weather" \in Feeds => loop' = "weather"
      /\ f = "weather" \/ "weather" \notin Feeds => loop' = "plan"
  BY <1>1, <1>3, AfterIs
<1>6. /\ \A k \in Nat : FoundThen(f, k)
      /\ \A g \in Feeds : g # f => FeedKept(g) /\ feed'[g] = feed[g]
      /\ source[f] # None => feed'[f].tried # None
      /\ source[f] = None => feed'[f].fetched = feed[f].fetched /\ feed'[f].tried = feed[f].tried
      /\ feed'[f].fetched \in Nat \cup {None} /\ feed'[f].tried \in Nat \cup {None}
  BY <1>1, <1>3, StoredWithin
<1>7. \A g \in Feeds : \A a, b \in Nat : g # f /\ a <= b /\ Found(g, a) => FoundThen(g, b)
  BY <1>6, KeptWithin
<1>8. ASSUME NEW g \in Feeds
      PROVE  /\ source'[g] # None => source'[g] \in Published[g]
             /\ feed'[g].fetched # None => feed'[g].tried # None
             /\ feed'[g].fetched # None =>
                  feed'[g].fetched >= Refresh \/ FoundThen(g, feed'[g].fetched)
             /\ feed'[g].tried # None =>
                  fetching' = g \/ feed'[g].tried >= Retry \/ FoundThen(g, feed'[g].tried)
  <2>1. CASE g = f
    BY <1>1, <1>2, <1>3, <1>6, <2>1 DEF Ages
  <2>2. CASE g # f
    BY <1>2, <1>6, <2>2, KeptAges
  <2> QED
    BY <2>1, <2>2
<1> HIDE DEF f
<1>9. ASSUME NEW g \in Feeds, ~ticked',
             loop' \in {"plan", "solving", "save", "tick"}
               \/ (g = "prices" /\ (loop' = "weather" \/ fetching' = "weather"))
      PROVE  FoundThen(g, n)
  <2>1. CASE g = f
    BY <1>6, <2>1
  <2>2. CASE g # f
    <3>1. g = "prices" /\ f = "weather"
      BY <1>1, <1>3, <1>4, <1>5, <1>9, <2>2
    <3>2. Found(g, n)
      BY <1>1, <1>2, <1>9, <3>1 DEF f
    <3> QED
      BY <1>7, <2>2, <3>2
  <2> QED
    BY <2>1, <2>2
<1>10. CASE f = "prices"
  <2>1. "weather" \in Feeds => FoundThen("weather", n + 2 * MaxBlock)
    <3> SUFFICES ASSUME "weather" \in Feeds PROVE FoundThen("weather", n + 2 * MaxBlock)
      OBVIOUS
    <3>1. Found("weather", n + MaxBlock + blocked)
      BY <1>2, <1>10 DEF WeatherLooked, f
    <3> QED
      BY <1>2, <1>7, <1>10, <3>1
  <2>2. FoundThen("prices", n) /\ FoundThen("prices", n + WeatherWait)
    BY <1>2, <1>6, <1>10
  <2>3. loop' = "plan" => "weather" \notin Feeds
    BY <1>5, <1>10
  <2> QED
    BY <1>1, <1>4, <1>5, <1>8, <1>9, <2>1, <2>2, <2>3, FeedsThen
<1>11. CASE f = "weather"
  <2>1. FoundThen("prices", n + WeatherWait)
    <3>1. Found("prices", n + blocked) /\ WeatherWait = MaxBlock
      BY <1>2, <1>3, <1>11 DEF PricesLooked, f
    <3> QED
      BY <1>2, <1>7, <1>11, <3>1
  <2>2. FoundThen("weather", n)
    BY <1>6, <1>11
  <2>3. loop' = "plan"
    BY <1>5, <1>11
  <2> QED
    BY <1>1, <1>4, <1>8, <1>9, <2>1, <2>2, <2>3, FeedsThen
<1> QED
  BY <1>4, <1>10, <1>11

LEMMA RestartFeeds ==
  ASSUME PlanInv, NEW n \in Nat, FeedsInv(n), Restart
  PROVE  FeedsInv(n)'
<1>1. /\ loop' = "tick" /\ fetching' = None /\ blocked' = 0 /\ ticked' = TRUE
      /\ feed' = NewFeeds /\ answering' = [f \in Feeds |-> 0] /\ source' = source
  BY DEF Restart
<1>2. \A f \in Feeds : \A k \in Nat : FoundThen(f, k)
  BY <1>1 DEF FoundThen
<1>3. \A f \in Feeds : feed'[f].fetched = None /\ feed'[f].tried = None
  BY <1>1 DEF NewFeeds
<1>4. \A f \in Feeds : source'[f] # None => source'[f] \in Published[f]
  BY <1>1 DEF FeedsInv, Ages
<1>5. /\ None # "weather" /\ None # "prices" /\ "prices" \in Feeds
      /\ MaxBlock \in Nat /\ WeatherWait \in Nat
  BY FeedsAre, FeedsNow
<1> QED
  BY <1>1, <1>2, <1>3, <1>4, <1>5, FeedsThen

LEMMA InitFeeds ==
  ASSUME EInit, NEW n \in Nat
  PROVE  FeedsInv(n)
<1>1. \A f \in Feeds : source[f] = None /\ feed[f].fetched = None /\ feed[f].tried = None
  BY DEF EInit, NewFeeds
<1>2. \A f \in Feeds : \A k : Found(f, k)
  BY <1>1 DEF Found
<1>3. "prices" \in Feeds
  BY FeedsAre
<1> QED
  BY <1>1, <1>2, <1>3 DEF FeedsInv, Ages, AtOnce, PricesLooked, WeatherLooked

LEMMA SourceFeeds ==
  ASSUME PlanInv, NEW n \in Nat, FeedsInv(n), SourceChanges
  PROVE  FeedsInv(n)'
<1>1. PICK f \in Feeds, ahead \in Int \cup {None} :
        /\ ahead # None => ahead \in Published[f]
        /\ source' = [source EXCEPT ![f] = ahead]
        /\ answering' = [answering EXCEPT ![f] = 0]
        /\ UNCHANGED <<loop, fetching, blocked, ticked, feed, book>>
  BY EmsAssumption DEF SourceChanges, place
<1>2. /\ \A g \in Feeds :
           /\ Ages(g)
           /\ (~ticked /\ (loop \in {"plan", "solving", "save", "tick"}
                 \/ (g = "prices" /\ (loop = "weather" \/ fetching = "weather"))))
              => Found(g, n)
      /\ PricesLooked(n) /\ WeatherLooked(n)
      /\ "prices" \in Feeds
      /\ blocked \in Nat /\ blocked <= MaxBlock /\ MaxBlock \in Nat /\ WeatherWait \in Nat
  BY FeedsNow
<1>3. source \in Ahead /\ answering \in [Feeds -> Nat]
  BY DEF PlanInv, EmsTypeOK
<1>4. /\ source'[f] = ahead /\ answering'[f] = 0
      /\ \A g \in Feeds : g # f => FeedKept(g)
  BY <1>1, <1>3 DEF Ahead, FeedKept
<1>5. \A g \in Feeds : \A a \in Nat : Found(g, a) => FoundThen(g, a)
  <2> SUFFICES ASSUME NEW g \in Feeds, NEW a \in Nat, Found(g, a) PROVE FoundThen(g, a)
    OBVIOUS
  <2>1. CASE g = f
    BY <1>4, <2>1 DEF FoundThen
  <2>2. CASE g # f
    BY <1>4, <2>2, KeptWithin
  <2> QED
    BY <2>1, <2>2
<1>6. ASSUME NEW g \in Feeds
      PROVE  /\ source'[g] # None => source'[g] \in Published[g]
             /\ feed'[g].fetched # None => feed'[g].tried # None
             /\ feed'[g].fetched # None =>
                  feed'[g].fetched >= Refresh \/ FoundThen(g, feed'[g].fetched)
             /\ feed'[g].tried # None =>
                  fetching' = g \/ feed'[g].tried >= Retry \/ FoundThen(g, feed'[g].tried)
  <2>1. source'[g] # None => source'[g] \in Published[g]
    BY <1>1, <1>2, <1>4 DEF Ages, FeedKept
  <2>2. feed[g].fetched \in Nat \cup {None} /\ feed[g].tried \in Nat \cup {None} /\ feed'[g] = feed[g]
    BY <1>1, FeedTypes
  <2> QED
    BY <1>1, <1>2, <1>5, <2>1, <2>2 DEF Ages
<1>7. ASSUME NEW g \in Feeds, ~ticked',
             loop' \in {"plan", "solving", "save", "tick"}
               \/ (g = "prices" /\ (loop' = "weather" \/ fetching' = "weather"))
      PROVE  FoundThen(g, n)
  BY <1>1, <1>2, <1>5, <1>7
<1> QED
  BY <1>1, <1>2, <1>5, <1>6, <1>7, FeedsThen DEF PricesLooked, WeatherLooked
\* A tick leaves each book one further behind at most.
LEMMA ClockWithin ==
  ASSUME PlanInv, Clock, NEW f \in Feeds
  PROVE  /\ \A a, b \in Nat : a + 1 <= b /\ Found(f, a) => FoundThen(f, b)
         /\ feed'[f].fetched = Elder(feed[f].fetched, Refresh)
         /\ feed'[f].tried = Elder(feed[f].tried, Retry)
<1>1. /\ feed' = [g \in Feeds |-> [feed[g] EXCEPT !.fetched = Elder(@, Refresh),
                                                 !.tried = Elder(@, Retry)]]
      /\ book' = [g \in Feeds |-> Sink(book[g])]
      /\ answering' = [g \in Feeds |-> Elder(answering[g], ServedFor)]
      /\ source' = source
  BY DEF Clock
<1>2. answering[f] \in Nat /\ book[f] \in Int \cup {None} /\ source[f] \in Int \cup {None}
  BY FeedTypes
<1>3. answering'[f] \in Nat /\ answering'[f] <= answering[f] + 1
  <2>1. answering[f] \in AgeOrNone /\ answering[f] # None
    BY <1>2, NoneAssumption DEF AgeOrNone
  <2> QED
    BY <1>1, <2>1, ElderType, EmsAssumption
<1>4. /\ book[f] # None => book'[f] # None
      /\ book[f] # None => book[f] \in Int /\ book'[f] \in Int /\ book[f] - 1 <= book'[f]
  BY <1>1, <1>2, SinkType
<1>5. \A a, b \in Nat : a + 1 <= b /\ Found(f, a) => FoundThen(f, b)
  <2> SUFFICES ASSUME NEW a \in Nat, NEW b \in Nat, a + 1 <= b, Found(f, a), source'[f] # None
               PROVE  answering'[f] <= b \/ (book'[f] # None /\ source'[f] - book'[f] <= b)
    BY DEF FoundThen
  <2>1. source[f] \in Int /\ source'[f] = source[f]
    BY <1>1, <1>2
  <2>2. CASE answering[f] <= a
    BY <1>2, <1>3, <2>2
  <2>3. CASE book[f] # None /\ source[f] - book[f] <= a
    <3>1. book[f] \in Int /\ book'[f] # None /\ book'[f] \in Int /\ book[f] - 1 <= book'[f]
      BY <1>4, <2>3
    <3> QED
      BY <2>1, <2>3, <3>1
  <2> QED
    BY <2>1, <2>2, <2>3 DEF Found
<1>6. feed'[f] = [feed[f] EXCEPT !.fetched = Elder(@, Refresh), !.tried = Elder(@, Retry)]
  BY <1>1
<1>7. feed[f] \in [fetched : AgeOrNone, tried : AgeOrNone, error : BOOLEAN]
  BY DEF PlanInv, EmsTypeOK
<1> QED
  BY <1>5, <1>6, <1>7

LEMMA ClockFeeds ==
  ASSUME PlanInv, NEW n \in Nat, MaxBlock >= 1, FeedsInv(n), Clock
  PROVE  FeedsInv(n)'
<1>1. /\ (loop = "tick" /\ ~ticked) \/ (loop \in {"fetching", "solving"} /\ blocked < MaxBlock)
      /\ ticked' = TRUE /\ blocked' = IF loop \in {"fetching", "solving"} THEN blocked + 1 ELSE 0
      /\ UNCHANGED <<loop, fetching, source>>
  BY DEF Clock, Waits
<1>2. /\ \A g \in Feeds :
           /\ Ages(g)
           /\ (~ticked /\ (loop \in {"plan", "solving", "save", "tick"}
                 \/ (g = "prices" /\ (loop = "weather" \/ fetching = "weather"))))
              => Found(g, n)
      /\ PricesLooked(n) /\ WeatherLooked(n)
      /\ loop = "fetching" <=> fetching # None
      /\ fetching = None \/ fetching = "prices" \/ (fetching = "weather" /\ "weather" \in Feeds)
      /\ "prices" \in Feeds
      /\ blocked \in Nat /\ blocked <= MaxBlock /\ MaxBlock \in Nat /\ WeatherWait \in Nat
  BY FeedsNow
<1>3. None # "weather" /\ None # "prices"
  BY FeedsAre
<1>4. \A g \in Feeds : \A a, b \in Nat : a + 1 <= b /\ Found(g, a) => FoundThen(g, b)
  BY ClockWithin
<1>5. ASSUME NEW f \in Feeds
      PROVE  /\ source'[f] # None => source'[f] \in Published[f]
             /\ feed'[f].fetched # None => feed'[f].tried # None
             /\ feed'[f].fetched # None =>
                  feed'[f].fetched >= Refresh \/ FoundThen(f, feed'[f].fetched)
             /\ feed'[f].tried # None =>
                  fetching' = f \/ feed'[f].tried >= Retry \/ FoundThen(f, feed'[f].tried)
  <2> DEFINE x == feed[f].fetched
             y == feed[f].tried
  <2>1. x \in AgeOrNone /\ y \in AgeOrNone /\ Refresh \in Nat /\ Retry \in Nat
    BY FeedTypes, EmsAssumption DEF AgeOrNone
  <2>2. /\ source[f] # None => source[f] \in Published[f]
        /\ x # None => y # None
        /\ x # None => x >= Refresh \/ Found(f, x)
        /\ y # None => fetching = f \/ y >= Retry \/ Found(f, y)
    BY <1>2 DEF Ages
  <2>3. feed'[f].fetched = Elder(x, Refresh) /\ feed'[f].tried = Elder(y, Retry)
    BY ClockWithin
  <2> HIDE DEF x, y
  <2>4. /\ x = None <=> Elder(x, Refresh) = None
        /\ y = None <=> Elder(y, Retry) = None
        /\ x # None => /\ x \in Nat
                       /\ x < Refresh => Elder(x, Refresh) = x + 1
                       /\ x >= Refresh => Elder(x, Refresh) = x
        /\ y # None => /\ y \in Nat
                       /\ y < Retry => Elder(y, Retry) = y + 1
                       /\ y >= Retry => Elder(y, Retry) = y
    BY <2>1, ElderType
  <2>5. x # None => Elder(x, Refresh) >= Refresh \/ FoundThen(f, Elder(x, Refresh))
    BY <1>4, <2>1, <2>2, <2>4
  <2>6. y # None => fetching = f \/ Elder(y, Retry) >= Retry \/ FoundThen(f, Elder(y, Retry))
    BY <1>4, <2>1, <2>2, <2>4
  <2> QED
    BY <1>1, <2>2, <2>3, <2>4, <2>5, <2>6
<1>6. CASE loop = "tick" /\ ~ticked
  <2>1. \A g \in Feeds : Found(g, n)
    BY <1>2, <1>6
  <2>2. \A g \in Feeds : FoundThen(g, n + WeatherWait + MaxBlock) /\ FoundThen(g, n + MaxBlock)
    BY <1>2, <1>4, <2>1
  <2>3. fetching = None
    BY <1>2, <1>6
  <2> QED
    BY <1>1, <1>2, <1>3, <1>5, <1>6, <2>2, <2>3, FeedsThen
<1>7. CASE loop = "solving"
  <2>1. fetching = None /\ blocked' = blocked + 1
    BY <1>1, <1>2, <1>7
  <2>2. FoundThen("prices", n + WeatherWait + blocked')
    BY <1>2, <1>4, <1>7, <2>1 DEF PricesLooked
  <2>3. "weather" \in Feeds => FoundThen("weather", n + blocked')
    BY <1>2, <1>4, <1>7, <2>1 DEF WeatherLooked
  <2> QED
    BY <1>1, <1>2, <1>3, <1>5, <1>7, <2>1, <2>2, <2>3, FeedsThen
<1>8. CASE loop = "fetching" /\ fetching = "prices"
  <2>1. blocked' = blocked + 1
    BY <1>1, <1>8
  <2>2. FoundThen("prices", n + WeatherWait + MaxBlock + blocked')
    BY <1>2, <1>4, <1>8, <2>1 DEF PricesLooked
  <2>3. "weather" \in Feeds => FoundThen("weather", n + MaxBlock + blocked')
    BY <1>2, <1>4, <1>8, <2>1 DEF WeatherLooked
  <2> QED
    BY <1>1, <1>2, <1>3, <1>5, <1>8, <2>1, <2>2, <2>3, FeedsThen
<1>9. CASE loop = "fetching" /\ fetching = "weather" /\ "weather" \in Feeds
  <2>1. blocked' = blocked + 1
    BY <1>1, <1>9
  <2>2. FoundThen("prices", n + blocked')
    BY <1>2, <1>4, <1>9, <2>1 DEF PricesLooked
  <2>3. FoundThen("weather", n + 2 * MaxBlock + blocked')
    BY <1>2, <1>4, <1>9, <2>1 DEF WeatherLooked
  <2> QED
    BY <1>1, <1>2, <1>3, <1>5, <1>9, <2>1, <2>2, <2>3, FeedsThen
<1> QED
  BY <1>1, <1>2, <1>6, <1>7, <1>8, <1>9

LEMMA NextFeeds ==
  ASSUME PlanInv, NEW n \in Nat, LooksWithin(n), MaxBlock >= 1, FeedsInv(n), [ENext]_emsvars
  PROVE  FeedsInv(n)'
<1>1. CASE UNCHANGED emsvars
  BY <1>1, GoesOnFeeds DEF emsvars, place, feeds
<1>2. CASE Observe \/ Wake \/ Plan \/ Solved \/ Save
  <2>1. UNCHANGED <<feed, book, source, answering, fetching>>
    BY <1>2 DEF Observe, Wake, Plan, Solved, Save, feeds, place
  <2>2. \/ UNCHANGED <<loop, blocked, ticked>>
        \/ loop = "tick" /\ loop' = "prices" /\ UNCHANGED blocked
        \/ loop = "plan" /\ loop' \in {"solving", "save"} /\ UNCHANGED <<blocked, ticked>>
        \/ loop = "solving" /\ loop' = "save" /\ UNCHANGED <<blocked, ticked>>
        \/ loop = "save" /\ loop' = "tick" /\ blocked' = 0 /\ UNCHANGED ticked
    BY <1>2 DEF Observe, Wake, Plan, Solved, Save, place
  <2> QED
    BY <2>1, <2>2, GoesOnFeeds
<1>3. CASE (\E f \in Feeds : Fetch(f)) \/ Fetched
  BY <1>3, FetchFeeds, FetchedFeeds
<1>4. CASE SourceChanges \/ Clock \/ Restart
  BY <1>4, SourceFeeds, ClockFeeds, RestartFeeds
<1> QED
  BY <1>1, <1>2, <1>3, <1>4 DEF ENext
-----------------------------------------------------------------------------
\* Known prices reach the disk.

SavedThen(n) == known' # None => disk'["prices"] # None \/ known' <= n

LEMMA SavingTypes ==
  ASSUME PlanInv
  PROVE  /\ known \in Nat \cup {None} /\ saved_age \in Nat \cup {None}
         /\ book["prices"] \in Int \cup {None} /\ disk["prices"] \in Int \cup {None}
         /\ blocked \in Nat /\ blocked <= MaxBlock /\ MaxBlock \in Nat /\ WeatherWait \in Nat
         /\ SaveEvery \in Nat
         /\ (WeatherWait = MaxBlock \/ "weather" \notin Feeds)
         /\ loop = "fetching" <=> fetching # None
         /\ fetching = None \/ fetching = "prices" \/ (fetching = "weather" /\ "weather" \in Feeds)
         /\ loop = "weather" => "weather" \in Feeds
         /\ loop \in {"tick", "fetching", "plan", "solving", "save", "prices", "weather"}
         /\ "prices" \in Feeds /\ None # "weather" /\ None # "prices" /\ None \notin Int
<1>1. /\ known \in Nat \cup {None} /\ saved_age \in Nat \cup {None}
      /\ book \in Ahead /\ disk \in Ahead
      /\ fetching \in Feeds \cup {None} /\ (loop = "fetching" <=> fetching # None)
      /\ loop = "weather" => "weather" \in Feeds
      /\ loop \in {"tick", "fetching", "plan", "solving", "save", "prices", "weather"}
  BY DEF PlanInv, EmsType, EmsTypeOK, AgeOrNone
<1>2. "prices" \in Feeds /\ None # "weather" /\ None # "prices" /\ None \notin Int
      /\ SaveEvery \in Nat
  BY FeedsAre, NoneAssumption, EmsAssumption
<1>3. /\ blocked \in Nat /\ blocked <= MaxBlock /\ MaxBlock \in Nat /\ WeatherWait \in Nat
      /\ (WeatherWait = MaxBlock \/ "weather" \notin Feeds)
  BY <1>2, FeedTypes
<1>4. book["prices"] \in Int \cup {None} /\ disk["prices"] \in Int \cup {None}
  BY <1>1, <1>2 DEF Ahead
<1>5. fetching = None \/ fetching = "prices" \/ (fetching = "weather" /\ "weather" \in Feeds)
  BY <1>1, FeedsAre
<1> QED
  BY <1>1, <1>2, <1>3, <1>4, <1>5

LEMMA SavedMore ==
  ASSUME PlanInv, NEW a \in Nat, NEW b \in Nat, a <= b, SavedWithin(a)
  PROVE  SavedWithin(b)
<1>1. known \in Nat \cup {None}
  BY SavingTypes
<1> QED
  BY <1>1 DEF SavedWithin

\* What the saving's invariant says of the next state, told by SavedThen.
LEMMA SavingIsThen ==
  ASSUME known' # None => book'["prices"] # None,
         loop' = "tick" \/ ~ticked' => blocked' = 0,
         saved_age' # None => saved_age' >= SaveEvery + MaxBlock \/ SavedThen(saved_age'),
         loop' = "tick" /\ ~ticked' /\ known' # None =>
           disk'["prices"] # None \/ known' < SaveEvery,
         loop' \in {"tick", "prices"} => SavedThen(SavedBy),
         fetching' = "prices" => SavedThen(SavedBy + blocked'),
         loop' = "weather" => SavedThen(SavedBy + MaxBlock),
         fetching' = "weather" => SavedThen(SavedBy + MaxBlock + blocked'),
         loop' = "plan" => SavedThen(SavedBy + MaxBlock + WeatherWait),
         loop' = "solving" => SavedThen(SavedBy + MaxBlock + WeatherWait + blocked'),
         loop' = "save" => SavedThen(SavedBy + 2 * MaxBlock + WeatherWait)
  PROVE  Saving'
<1>1. WeatherWait' = WeatherWait /\ SavedBy' = SavedBy
  BY DEF WeatherWait, SavedBy
<1> QED
  BY <1>1 DEF Saving, SavedWithin, SavedThen

\* A step that neither saves nor lets time pass; prices may become known.
GoesOn ==
  \/ UNCHANGED <<loop, fetching, blocked, ticked, known>>
  \/ loop = "tick" /\ loop' = "prices" /\ UNCHANGED <<fetching, blocked>>
  \/ loop \in {"prices", "weather"} /\ loop' = "fetching" /\ fetching' = loop
     /\ UNCHANGED <<blocked, ticked>>
  \/ loop = "prices" /\ loop' \in {"weather", "plan"} /\ UNCHANGED <<fetching, blocked, ticked>>
  \/ loop = "weather" /\ loop' = "plan" /\ UNCHANGED <<fetching, blocked, ticked>>
  \/ fetching = "prices" /\ loop' \in {"weather", "plan"} /\ fetching' = None /\ blocked' = 0
  \/ fetching = "weather" /\ loop' = "plan" /\ fetching' = None /\ blocked' = 0
  \/ loop = "plan" /\ loop' \in {"solving", "save"} /\ UNCHANGED <<fetching, blocked, ticked>>
  \/ loop = "solving" /\ loop' = "save" /\ UNCHANGED <<fetching, blocked, ticked>>

LEMMA GoesOnSaving ==
  ASSUME PlanInv, Saving, MaxBlock >= 1, UNCHANGED <<disk, saved_age>>,
         known' = known \/ known' = 0,
         known' # None => book'["prices"] # None,
         GoesOn
  PROVE  Saving'
<1>1. \A a, b \in Nat : a <= b /\ SavedWithin(a) => SavedThen(b)
  <2> SUFFICES ASSUME NEW a \in Nat, NEW b \in Nat, a <= b, SavedWithin(a) PROVE SavedThen(b)
    OBVIOUS
  <2>1. SavedWithin(b)
    BY SavedMore
  <2> QED
    BY <2>1 DEF SavedWithin, SavedThen
<1>2. /\ known \in Nat \cup {None} /\ saved_age \in Nat \cup {None}
      /\ blocked \in Nat /\ blocked <= MaxBlock /\ MaxBlock \in Nat /\ WeatherWait \in Nat
      /\ SaveEvery \in Nat
      /\ (WeatherWait = MaxBlock \/ "weather" \notin Feeds)
      /\ loop = "fetching" <=> fetching # None
      /\ fetching = None \/ fetching = "prices" \/ (fetching = "weather" /\ "weather" \in Feeds)
      /\ loop = "weather" => "weather" \in Feeds
      /\ None # "weather" /\ None # "prices"
  BY SavingTypes
<1>3. saved_age' # None => saved_age' >= SaveEvery + MaxBlock \/ SavedThen(saved_age')
  BY <1>1, <1>2 DEF Saving
<1>4. loop' = "tick" \/ ~ticked' => blocked' = 0
  BY <1>2 DEF Saving, GoesOn
<1>5. loop' = "tick" => UNCHANGED <<loop, fetching, blocked, ticked, known>>
  BY DEF GoesOn
<1>6. loop' = "tick" /\ ~ticked' /\ known' # None => disk'["prices"] # None \/ known' < SaveEvery
  BY <1>5 DEF Saving
<1>7. SavedBy \in Nat
  BY <1>2 DEF SavedBy
<1>8. /\ loop' \in {"tick", "prices"} => SavedThen(SavedBy)
      /\ fetching' = "prices" => SavedThen(SavedBy + blocked')
      /\ loop' = "weather" => SavedThen(SavedBy + MaxBlock)
      /\ fetching' = "weather" => SavedThen(SavedBy + MaxBlock + blocked')
      /\ loop' = "plan" => SavedThen(SavedBy + MaxBlock + WeatherWait)
      /\ loop' = "solving" => SavedThen(SavedBy + MaxBlock + WeatherWait + blocked')
      /\ loop' = "save" => SavedThen(SavedBy + 2 * MaxBlock + WeatherWait)
  BY <1>1, <1>2, <1>7 DEF Saving, GoesOn
<1> QED
  BY <1>3, <1>4, <1>6, <1>8, SavingIsThen DEF Saving

LEMMA FetchSaving ==
  ASSUME PlanInv, Saving, MaxBlock >= 1, NEW f \in Feeds, Fetch(f)
  PROVE  Saving'
<1>1. loop = f /\ UNCHANGED <<blocked, ticked, book, known, disk, saved_age>>
  BY DEF Fetch
<1>2. known' # None => book'["prices"] # None
  BY <1>1 DEF Saving
<1>3. \/ loop' = "fetching" /\ fetching' = f
      \/ loop' = After(f) /\ UNCHANGED fetching
  BY DEF Fetch
<1> QED
  BY <1>1, <1>2, <1>3, AfterIs, FeedsAre, GoesOnSaving DEF GoesOn

LEMMA FetchedSaving ==
  ASSUME PlanInv, Saving, MaxBlock >= 1, Fetched
  PROVE  Saving'
<1> DEFINE f == fetching
<1>1. /\ loop = "fetching" /\ Store(f) /\ loop' = After(f) /\ fetching' = None
      /\ blocked' = 0 /\ UNCHANGED <<ticked, disk, saved_age>>
  BY DEF Fetched
<1>2. f \in Feeds /\ (f = "prices" \/ f = "weather")
  BY <1>1, FeedsAre DEF PlanInv, EmsType, EmsTypeOK
<1>3. /\ After(f) \in {"weather", "plan"}
      /\ f = "weather" => After(f) = "plan"
  BY <1>2, AfterIs
<1>4. known' = known \/ known' = 0
  BY <1>1 DEF Store
<1>5. known' # None => book'["prices"] # None
  <2>1. CASE source[f] = None
    BY <1>1, <2>1 DEF Store, Saving
  <2>2. CASE source[f] # None
    <3>1. /\ book' = [book EXCEPT ![f] = Reach(f, source[f])]
          /\ known' = IF f = "prices" /\ known = None THEN 0 ELSE known
      BY <1>1, <2>2 DEF Store
    <3>2. Reach(f, source[f]) # None
      BY <2>2 DEF Reach
    <3>3. book \in Ahead /\ "prices" \in Feeds
      BY FeedsAre DEF PlanInv, EmsTypeOK
    <3>4. /\ f = "prices" => book'["prices"] # None
          /\ f # "prices" => book'["prices"] = book["prices"] /\ known' = known
      BY <3>1, <3>2, <3>3 DEF Ahead
    <3> QED
      BY <3>4 DEF Saving
  <2> QED
    BY <2>1, <2>2
<1> QED
  BY <1>1, <1>2, <1>3, <1>4, <1>5, GoesOnSaving DEF GoesOn

LEMMA SaveSaving ==
  ASSUME PlanInv, Saving, MaxBlock >= 1, Save
  PROVE  Saving'
<1>1. /\ loop = "save" /\ loop' = "tick" /\ blocked' = 0
      /\ UNCHANGED <<fetching, book, ticked>>
      /\ \/ saved_age' = blocked /\ disk' = book /\ known' = known
         \/ saved_age' = blocked /\ disk' = disk /\ SaveFails
         \/ /\ UNCHANGED <<disk, saved_age, known>>
            /\ saved_age # None /\ ~(saved_age - blocked >= SaveEvery)
  BY DEF Save
<1>2. /\ known \in Nat \cup {None} /\ saved_age \in Nat \cup {None} /\ SaveEvery \in Nat
      /\ blocked \in Nat /\ blocked <= MaxBlock /\ MaxBlock \in Nat
      /\ None # "weather" /\ None # "prices" /\ fetching = None
  BY <1>1, SavingTypes
<1>3. SavedBy \in Nat /\ SavedBy = SaveEvery + MaxBlock - 1
  BY <1>2 DEF SavedBy
<1>4. known' # None => book'["prices"] # None
  BY <1>1 DEF Saving, SaveFails
<1>5. CASE saved_age' = blocked /\ disk' = book /\ known' = known
  <2>1. known' # None => disk'["prices"] # None
    BY <1>5 DEF Saving
  <2>2. \A k : SavedThen(k)
    BY <2>1 DEF SavedThen
  <2> QED
    BY <1>1, <1>2, <1>4, <2>1, <2>2, SavingIsThen
<1>6. CASE saved_age' = blocked /\ disk' = disk /\ SaveFails
  <2>1. \A k \in Nat : SavedThen(k)
    BY <1>6 DEF SavedThen, SaveFails
  <2>2. SavedThen(saved_age') /\ SavedThen(SavedBy)
    BY <1>2, <1>3, <1>6, <2>1
  <2>3. ~ticked' /\ known' # None => disk'["prices"] # None \/ known' < SaveEvery
    <3> SUFFICES ASSUME ~ticked', known' # None, disk["prices"] = None PROVE known' < SaveEvery
      BY <1>6
    <3>1. SaveEvery \in Nat /\ SaveEvery > 0 /\ known' = 0
      BY <1>6, EmsAssumption DEF SaveFails
    <3> QED
      BY <3>1
  <2> QED
    BY <1>1, <1>2, <1>4, <2>2, <2>3, SavingIsThen
<1>7. CASE /\ UNCHANGED <<disk, saved_age, known>>
           /\ saved_age # None /\ ~(saved_age - blocked >= SaveEvery)
  <2>1. saved_age \in Nat /\ saved_age < SaveEvery + blocked /\ saved_age < SaveEvery + MaxBlock
    BY <1>2, <1>7
  <2>2. SavedWithin(saved_age)
    BY <1>2, <1>7, <2>1 DEF Saving
  <2>3. SavedThen(SavedBy) /\ SavedThen(saved_age')
    BY <1>2, <1>3, <1>7, <2>1, <2>2 DEF SavedThen, SavedWithin
  <2>4. ~ticked' /\ known' # None => disk'["prices"] # None \/ known' < SaveEvery
    <3>1. ~ticked' => blocked = 0
      BY <1>1 DEF Saving
    <3> QED
      BY <1>2, <1>7, <2>1, <2>2, <3>1 DEF SavedWithin
  <2> QED
    BY <1>1, <1>2, <1>4, <2>3, <2>4, SavingIsThen
<1> QED
  BY <1>1, <1>5, <1>6, <1>7

LEMMA RestartSaving ==
  ASSUME PlanInv, Restart
  PROVE  Saving'
<1>1. /\ loop' = "tick" /\ fetching' = None /\ ticked' = TRUE /\ saved_age' = None
      /\ blocked' = 0
      /\ book' = disk /\ known' = IF disk["prices"] = None THEN None ELSE 0
      /\ UNCHANGED disk
  BY DEF Restart
<1>2. known' # None => book'["prices"] # None /\ disk'["prices"] # None
  BY <1>1
<1>3. \A k : SavedThen(k)
  BY <1>2 DEF SavedThen
<1> QED
  BY <1>1, <1>2, <1>3, SavingTypes, SavingIsThen

LEMMA ClockSaving ==
  ASSUME PlanInv, Saving, MaxBlock >= 1, Clock
  PROVE  Saving'
<1>1. /\ (loop = "tick" /\ ~ticked) \/ (loop \in {"fetching", "solving"} /\ blocked < MaxBlock)
      /\ ticked' = TRUE /\ blocked' = IF loop \in {"fetching", "solving"} THEN blocked + 1 ELSE 0
      /\ book' = [f \in Feeds |-> Sink(book[f])] /\ disk' = [f \in Feeds |-> Sink(disk[f])]
      /\ saved_age' = Elder(saved_age, SaveEvery + MaxBlock) /\ known' = Elder(known, KnownFor)
      /\ UNCHANGED <<loop, fetching>>
  BY DEF Clock, Waits
<1>2. /\ known \in AgeOrNone /\ saved_age \in AgeOrNone
      /\ book["prices"] \in Int \cup {None} /\ disk["prices"] \in Int \cup {None}
      /\ blocked \in Nat /\ blocked <= MaxBlock /\ MaxBlock \in Nat /\ WeatherWait \in Nat
      /\ SaveEvery \in Nat /\ KnownFor \in Nat
      /\ loop = "fetching" <=> fetching # None
      /\ fetching = None \/ fetching = "prices" \/ (fetching = "weather" /\ "weather" \in Feeds)
      /\ "prices" \in Feeds /\ None # "weather" /\ None # "prices"
  BY SavingTypes, EmsAssumption DEF AgeOrNone
<1>3. /\ book'["prices"] = Sink(book["prices"]) /\ disk'["prices"] = Sink(disk["prices"])
      /\ book["prices"] = None <=> book'["prices"] = None
      /\ disk["prices"] = None <=> disk'["prices"] = None
  BY <1>1, <1>2, SinkType
<1>4. /\ known = None <=> known' = None
      /\ known # None => known \in Nat /\ known' \in Nat /\ known' <= known + 1
  BY <1>1, <1>2, ElderType
<1>5. \A a, b \in Nat : a + 1 <= b /\ SavedWithin(a) => SavedThen(b)
  BY <1>3, <1>4 DEF SavedWithin, SavedThen
<1>6. known' # None => book'["prices"] # None
  BY <1>3, <1>4 DEF Saving
<1>7. saved_age' # None => saved_age' >= SaveEvery + MaxBlock \/ SavedThen(saved_age')
  <2>1. /\ saved_age = None <=> saved_age' = None
        /\ saved_age # None =>
             /\ saved_age \in Nat
             /\ saved_age < SaveEvery + MaxBlock => saved_age' = saved_age + 1
             /\ saved_age >= SaveEvery + MaxBlock => saved_age' = saved_age
    <3> DEFINE e == Elder(saved_age, SaveEvery + MaxBlock)
    <3>1. /\ saved_age = None <=> e = None
          /\ saved_age # None => /\ saved_age \in Nat
                                 /\ saved_age < SaveEvery + MaxBlock => e = saved_age + 1
                                 /\ saved_age >= SaveEvery + MaxBlock => e = saved_age
      BY <1>2, ElderType
    <3>2. saved_age' = e
      BY <1>1
    <3> HIDE DEF e
    <3> QED
      BY <3>1, <3>2
  <2> QED
    BY <1>2, <1>5, <2>1 DEF Saving
<1>8. loop' = "tick" \/ ~ticked' => blocked' = 0
  BY <1>1
<1>9. SavedBy \in Nat /\ SavedBy >= SaveEvery
  BY <1>2 DEF SavedBy
<1>10. CASE loop = "tick" /\ ~ticked
  <2>1. known # None => disk["prices"] # None \/ known < SaveEvery
    BY <1>10 DEF Saving
  <2>2. SavedThen(SavedBy)
    BY <1>2, <1>3, <1>4, <1>9, <2>1 DEF SavedThen
  <2> QED
    BY <1>1, <1>2, <1>6, <1>7, <1>10, <1>8, <2>2, SavingIsThen
<1>11. CASE loop = "solving"
  <2>1. fetching = None /\ blocked' = blocked + 1
    BY <1>1, <1>2, <1>11
  <2>2. SavedThen(SavedBy + MaxBlock + WeatherWait + blocked')
    BY <1>2, <1>5, <1>11, <1>9, <2>1 DEF Saving
  <2> QED
    BY <1>1, <1>2, <1>6, <1>7, <1>11, <1>8, <2>1, <2>2, SavingIsThen
<1>12. CASE loop = "fetching"
  <2>1. blocked' = blocked + 1
    BY <1>1, <1>12
  <2>2. fetching = "prices" => SavedThen(SavedBy + blocked')
    BY <1>2, <1>5, <1>9, <2>1 DEF Saving
  <2>3. fetching = "weather" => SavedThen(SavedBy + MaxBlock + blocked')
    BY <1>2, <1>5, <1>9, <2>1 DEF Saving
  <2> QED
    BY <1>1, <1>2, <1>6, <1>7, <1>8, <1>12, <2>2, <2>3, SavingIsThen
<1> QED
  BY <1>1, <1>10, <1>11, <1>12

LEMMA NextSaving ==
  ASSUME PlanInv, Saving, MaxBlock >= 1, [ENext]_emsvars
  PROVE  Saving'
<1>1. CASE UNCHANGED emsvars \/ Observe \/ SourceChanges
  <2>1. UNCHANGED <<loop, fetching, blocked, ticked, known, book, disk, saved_age>>
    BY <1>1 DEF emsvars, place, feeds, Observe, SourceChanges
  <2> QED
    BY <2>1, GoesOnSaving DEF Saving, GoesOn
<1>2. CASE Wake \/ Plan \/ Solved
  <2>1. UNCHANGED <<fetching, known, book, disk, saved_age>>
    BY <1>2 DEF Wake, Plan, Solved, feeds
  <2>2. \/ loop = "tick" /\ loop' = "prices" /\ UNCHANGED blocked
        \/ loop = "plan" /\ loop' \in {"solving", "save"} /\ UNCHANGED <<blocked, ticked>>
        \/ loop = "solving" /\ loop' = "save" /\ UNCHANGED <<blocked, ticked>>
    BY <1>2 DEF Wake, Plan, Solved
  <2> QED
    BY <2>1, <2>2, GoesOnSaving DEF Saving, GoesOn
<1>3. CASE (\E f \in Feeds : Fetch(f)) \/ Fetched
  BY <1>3, FetchSaving, FetchedSaving
<1>4. CASE Save \/ Clock \/ Restart
  BY <1>4, SaveSaving, ClockSaving, RestartSaving
<1> QED
  BY <1>1, <1>2, <1>3, <1>4 DEF ENext

LEMMA InitSaving == EInit => Saving
BY FeedsAre DEF EInit, Saving, SavedWithin
-----------------------------------------------------------------------------
LEMMA NextPrices ==
  ASSUME NEW n \in Nat, LooksWithin(n), MaxBlock >= 1,
         PlanInv, FeedsInv(n), Saving, [ENext]_emsvars
  PROVE  PlanInv' /\ FeedsInv(n)' /\ Saving'
BY NextPlan, NextFeeds, NextSaving

LEMMA FeedsAreWithin ==
  ASSUME PlanInv, NEW n \in Nat, FeedsInv(n), NEW f \in Feeds
  PROVE  Found(f, n + Waiting)
<1>1. /\ PricesLooked(n) /\ WeatherLooked(n)
      /\ blocked \in Nat /\ blocked <= MaxBlock /\ MaxBlock \in Nat /\ WeatherWait \in Nat
      /\ (WeatherWait = MaxBlock \/ "weather" \notin Feeds)
  BY FeedsNow
<1>2. /\ loop = "fetching" <=> fetching # None
      /\ fetching = None \/ fetching = "prices" \/ fetching = "weather"
      /\ loop \in {"tick", "fetching", "plan", "solving", "save", "prices", "weather"}
  BY SavingTypes
<1>3. PICK a \in Nat : a <= n + Waiting /\ Found(f, a)
  <2>1. CASE f = "prices"
    BY <1>1, <1>2, <2>1 DEF PricesLooked, Waiting
  <2>2. CASE f = "weather"
    <3>1. Waiting = 3 * MaxBlock
      BY <1>1, <2>2 DEF Waiting
    <3> QED
      BY <1>1, <1>2, <2>2, <3>1 DEF WeatherLooked
  <2> QED
    BY <2>1, <2>2, FeedsAre
<1>4. n + Waiting \in Nat
  BY <1>1 DEF Waiting
<1> QED
  BY <1>3, <1>4, FoundMore

LEMMA PricesAreWithin ==
  ASSUME PlanInv, Saving, MaxBlock >= 1
  PROVE  SavedWithin(SavedBy + Waiting)
<1>1. /\ blocked \in Nat /\ blocked <= MaxBlock /\ MaxBlock \in Nat /\ WeatherWait \in Nat
      /\ SaveEvery \in Nat
      /\ (WeatherWait = MaxBlock \/ "weather" \notin Feeds)
      /\ loop = "fetching" <=> fetching # None
      /\ fetching = None \/ fetching = "prices" \/ (fetching = "weather" /\ "weather" \in Feeds)
      /\ loop \in {"tick", "fetching", "plan", "solving", "save", "prices", "weather"}
  BY SavingTypes
<1>2. SavedBy \in Nat
  BY <1>1 DEF SavedBy
<1>3. PICK a \in Nat : a <= SavedBy + Waiting /\ SavedWithin(a)
  BY <1>1, <1>2 DEF Saving, Waiting
<1>4. SavedBy + Waiting \in Nat
  BY <1>1, <1>2 DEF Waiting
<1> QED
  BY <1>3, <1>4, SavedMore

\* What a source has had for a while is in the book, and what the book has had
\* for a while is on the disk, if the properties allow for the waits of one
\* pass of the task: price_job, weather_job, store_prices, store_weather and
\* save (ems.rs), whatever the sources answer and wherever the process is
\* killed.
THEOREM PricesAreKeptHolds ==
  ASSUME NEW n \in Nat, LooksWithin(n), MaxBlock >= 1,
         n + Waiting < ServedFor, SaveEvery + MaxBlock + Waiting <= KnownFor
  PROVE  ESpec => []PricesAreKept
<1>1. EInit => PlanInv /\ FeedsInv(n) /\ Saving
  BY InitPlan, InitFeeds, InitSaving
<1>2. PlanInv /\ FeedsInv(n) /\ Saving /\ [ENext]_emsvars
      => (PlanInv /\ FeedsInv(n) /\ Saving)'
  BY NextPrices
<1>3. PlanInv /\ FeedsInv(n) /\ Saving => PricesAreKept
  <2> SUFFICES ASSUME PlanInv, FeedsInv(n), Saving PROVE PricesAreKept
    OBVIOUS
  <2>1. /\ MaxBlock \in Nat /\ WeatherWait \in Nat /\ SaveEvery \in Nat
        /\ known \in Nat \cup {None}
        /\ ServedFor \in Nat /\ KnownFor \in Nat
    BY SavingTypes, EmsAssumption
  <2>2. Waiting \in Nat
    BY <2>1 DEF Waiting
  <2>3. PublishedIsKnown
    <3> SUFFICES ASSUME NEW f \in Feeds, answering[f] >= ServedFor, source[f] # None
                 PROVE  book[f] # None /\ book[f] >= source[f] - ServedFor
      BY DEF PublishedIsKnown
    <3>1. answering[f] \in Nat /\ book[f] \in Int \cup {None} /\ source[f] \in Int \cup {None}
      BY FeedTypes
    <3>2. answering[f] <= n + Waiting \/ (book[f] # None /\ source[f] - book[f] <= n + Waiting)
      BY FeedsAreWithin DEF Found
    <3> HIDE DEF Waiting
    <3> QED
      BY <2>1, <2>2, <3>1, <3>2
  <2>4. KnownPricesSurvive
    <3>1. known # None => disk["prices"] # None \/ known <= SavedBy + Waiting
      BY PricesAreWithin DEF SavedWithin
    <3> QED
      BY <2>1, <2>2, <3>1 DEF KnownPricesSurvive, SavedBy
  <2> QED
    BY <2>3, <2>4 DEF PricesAreKept
<1> QED
  BY <1>1, <1>2, <1>3, PTL DEF ESpec

-----------------------------------------------------------------------------
\* The inductive invariant of MetersAreTrue.

\* The quarter of now, and its billing period: a sample that ends with a
\* quarter belongs to it.
QuarterNow == IF time = 0 THEN 0 ELSE (time - 1) \div QuarterLen
PeriodNow == QuarterNow \div PeriodLen

Metering == peak.current

MeterTypes ==
  /\ time \in Nat
  /\ peak \in [period : Nat, high : Nat, current : [q : Nat, e : Nat] \cup {Nil}]
  /\ energy \in Nat /\ seen_all \in BOOLEAN /\ least \in Nat /\ most \in Nat
  /\ stored # Nil => stored.period \in Nat /\ stored.high \in Nat

\* What is metered of the quarter of now is what was imported in it, give or
\* take half a sample; if the meter is not there yet, only half a sample was.
EnergyMetered ==
  /\ Metering # Nil =>
       /\ time > 0 /\ Metering.q <= QuarterNow
       /\ Metering.q \div PeriodLen <= peak.period
  /\ peak.period <= PeriodAt(time)
  /\ Metering # Nil /\ Metering.q = QuarterNow =>
       /\ 2 * (Metering.e - energy) <= Slack
       /\ seen_all => 2 * (energy - Metering.e) <= Slack
  /\ seen_all /\ (Metering = Nil \/ Metering.q < QuarterNow) => 2 * energy <= Slack

\* No quarter of the period is counted too high, whether it is counted or
\* still waits to be.  The meter is ahead of the period only where they meet.
CountedNotAbove ==
  /\ Metering # Nil /\ Metering.q < QuarterNow /\ peak.period = PeriodNow =>
       Metering.e <= most + Slack
  /\ peak.period = PeriodNow => peak.high <= most + Slack
  /\ peak.period > PeriodNow => peak.high = 0 /\ (Metering # Nil => Metering.e <= Slack)

\* Nor too low: the highest quarter is counted or waits to be.
CountedNotBelow ==
  /\ peak.period = PeriodNow =>
       \/ least - Slack <= peak.high
       \/ Metering # Nil /\ Metering.q < QuarterNow /\ least - Slack <= Metering.e
  /\ peak.period < PeriodNow => least <= Slack

\* What is saved is not too high either.
SavedNotAbove ==
  stored # Nil =>
    /\ stored.period <= PeriodAt(time)
    /\ stored.period = PeriodNow => stored.high <= most + Slack
    /\ stored.period > PeriodNow => stored.high = 0

PeakInv ==
  MeterTypes /\ EnergyMetered /\ CountedNotAbove /\ CountedNotBelow /\ SavedNotAbove

-----------------------------------------------------------------------------
\* Quarters.

LEMMA QuotientIs ==
  ASSUME NEW n \in Nat \ {0}, NEW x \in Int, NEW q \in Int, n * q <= x, x < n * q + n
  PROVE  x \div n = q
  BY SMTT(30)

LEMMA QuotientBounds ==
  ASSUME NEW n \in Nat \ {0}, NEW x \in Int
  PROVE  x \div n \in Int /\ n * (x \div n) <= x /\ x < n * (x \div n) + n
  BY SMTT(30)

LEMMA QuotientMonotone ==
  ASSUME NEW n \in Nat \ {0}, NEW x \in Int, NEW y \in Int, x <= y
  PROVE  x \div n <= y \div n
<1> DEFINE a == x \div n
           b == y \div n
<1>1. a \in Int /\ n * a <= x /\ x < n * a + n /\ b \in Int /\ n * b <= y /\ y < n * b + n
  BY QuotientBounds
<1> HIDE DEF a, b
<1>2. SUFFICES ASSUME a > b PROVE FALSE
  BY <1>1 DEF a, b
<1>3. a >= b + 1
  BY <1>1, <1>2
<1>4. n * a >= n * (b + 1)
  BY <1>1, <1>3, SMTT(30)
<1>5. n * (b + 1) = n * b + n
  BY <1>1, SMTT(30)
<1> QED
  BY <1>1, <1>4, <1>5

LEMMA QuotientNat ==
  ASSUME NEW n \in Nat \ {0}, NEW x \in Nat
  PROVE  x \div n \in Nat
  BY SMTT(30)

LEMMA SmallerOfTwo ==
  ASSUME NEW a \in Int, NEW b \in Int
  PROVE  Min({a, b}) = IF a <= b THEN a ELSE b
  BY DEF Min

LEMMA LargerOfTwo ==
  ASSUME NEW a \in Int, NEW b \in Int
  PROVE  Max({a, b}) = IF a <= b THEN b ELSE a
  BY DEF Max

LEMMA LargestOfThree ==
  ASSUME NEW a \in Nat, NEW b \in Nat, NEW c \in Nat
  PROVE  /\ Max({a, b, c}) \in Nat
         /\ a <= Max({a, b, c}) /\ b <= Max({a, b, c})
<1>1. \E m \in {a, b, c} : \A y \in {a, b, c} : m >= y
  <2>1. CASE a >= b /\ a >= c
    BY <2>1
  <2>2. CASE b >= a /\ b >= c
    BY <2>2
  <2>3. CASE c >= a /\ c >= b
    BY <2>3
  <2> QED
    BY <2>1, <2>2, <2>3
<1>2. Max({a, b, c}) \in {a, b, c} /\ \A y \in {a, b, c} : Max({a, b, c}) >= y
  BY <1>1 DEF Max
<1> QED
  BY <1>2

LEMMA HighestPower ==
  Slack \in Nat /\ \A p \in Powers : p \in Nat /\ DtMax * p <= Slack
<1> DEFINE m == Max(Powers)
<1>1. \E n \in Powers : \A p \in Powers : n >= p
  BY MetersAssumption
<1>2. m \in Powers /\ \A p \in Powers : m >= p
  BY <1>1 DEF Max
<1> HIDE DEF m
<1>3. DtMax \in Nat /\ Powers \subseteq Nat
  BY MetersAssumption
<1>4. ASSUME NEW d \in Nat, NEW n \in Nat
      PROVE  d * n \in Nat /\ \A p \in Nat : p <= n => d * p <= d * n
  BY SMTT(30)
<1>5. DtMax * m \in Nat /\ \A p \in Nat : p <= m => DtMax * p <= DtMax * m
  BY <1>2, <1>3, <1>4
<1> QED
  BY <1>2, <1>3, <1>5 DEF Slack, m

\* The quarters a sample is in and between.
LEMMA QuartersOfSample ==
  ASSUME NEW t \in Nat, NEW span \in Nat \ {0}, NEW dt \in Nat \ {0},
         dt <= span, dt <= QuarterLen
  PROVE  LET was == IF t = 0 THEN 0 ELSE (t - 1) \div QuarterLen
             now == (t + span - 1) \div QuarterLen
             q == (2 * (t + span) - dt) \div (2 * QuarterLen)
             before == t \div QuarterLen
             after == (t + span) \div QuarterLen
         IN  /\ was \in Nat /\ now \in Nat /\ q \in Nat /\ before \in Nat /\ after \in Nat
             /\ was <= before /\ before <= q /\ q <= now /\ now <= after
             /\ now = was => before = was
             /\ span <= QuarterLen => now <= was + 1
<1> DEFINE n == QuarterLen
           u == t + span
           was == IF t = 0 THEN 0 ELSE (t - 1) \div n
           now == (u - 1) \div n
           m == 2 * n
           q == (2 * u - dt) \div m
           before == t \div n
           after == u \div n
<1>1. n \in Nat \ {0} /\ m \in Nat \ {0}
  BY MetersAssumption
<1> HIDE DEF n
<1>13. \A x \in Int : m * x = 2 * (n * x)
  BY <1>1, SMTT(30)
<1>14. dt <= n
  BY DEF n
<1> HIDE DEF m
<1>2. u \in Nat \ {0} /\ 2 * u - dt \in Int /\ 2 * u - 1 \in Int /\ 2 * t \in Int
  OBVIOUS
<1>3. now \in Nat /\ n * now <= u - 1 /\ u - 1 < n * now + n
  BY <1>1, <1>2, QuotientBounds, QuotientNat
<1>4. before \in Nat /\ n * before <= t /\ t < n * before + n
  BY <1>1, <1>2, QuotientBounds, QuotientNat
<1>5. after \in Nat /\ now <= after
  BY <1>1, <1>2, QuotientMonotone, QuotientNat
<1>6. was \in Nat /\ was <= before /\ (t > 0 => n * was <= t - 1 /\ t - 1 < n * was + n)
  <2>1. CASE t = 0
    BY <2>1, <1>4
  <2>2. CASE t # 0
    BY <2>2, <1>1, QuotientBounds, QuotientMonotone, QuotientNat
  <2> QED
    BY <2>1, <2>2
<1>7. q \in Int /\ m * q <= 2 * u - dt /\ 2 * u - dt < m * q + m
  BY <1>1, <1>2, QuotientBounds
<1>8. before <= q
  <2>1. (2 * t) \div m = before
    <3>1. m * before = 2 * (n * before) /\ m = 2 * n
      BY <1>4, <1>13 DEF m
    <3> QED
      BY <3>1, <1>1, <1>4, QuotientIs
  <2>2. (2 * t) \div m <= q
    BY <1>1, <1>2, QuotientMonotone
  <2> QED
    BY <2>1, <2>2
<1>9. q <= now
  <2>1. (2 * u - 1) \div m = now
    <3>1. m * now = 2 * (n * now) /\ m = 2 * n
      BY <1>3, <1>13 DEF m
    <3>2. (2 * u - 1) \div m = now
      <4> HIDE DEF u, now
      <4>1. m * now <= 2 * u - 1 /\ 2 * u - 1 < m * now + m
        BY <3>1, <1>1, <1>2, <1>3
      <4> QED
        BY <4>1, <1>1, <1>2, <1>3, QuotientIs
    <3> QED
      BY <3>2
  <2>2. q <= (2 * u - 1) \div m
    BY <1>1, <1>2, QuotientMonotone
  <2> QED
    BY <2>1, <2>2
<1>10. now = was => before = was
  <2>1. before <= now
    BY <1>1, <1>2, QuotientMonotone
  <2> QED
    BY <2>1, <1>3, <1>4, <1>6
<1>11. span <= n => now <= was + 1
  <2>1. CASE t = 0
    <3>1. span <= n => now = 0
      BY <2>1, <1>1, QuotientIs
    <3> QED
      BY <3>1, <1>6
  <2>2. CASE t # 0
    <3>1. span <= n => now <= (t - 1 + n) \div n
      BY <1>1, <1>2, QuotientMonotone
    <3>2. (t - 1 + n) \div n = was + 1
      <4> HIDE DEF was
      <4>1. n * (was + 1) = n * was + n /\ was + 1 \in Int
        BY <1>1, <1>6, SMTT(30)
      <4> QED
        BY <4>1, <2>2, <1>1, <1>6, QuotientIs
    <3> QED
      BY <3>1, <3>2
  <2> QED
    BY <2>1, <2>2
<1>12. q \in Nat
  BY <1>4, <1>7, <1>8
<1> QED
  BY <1>3, <1>4, <1>5, <1>6, <1>8, <1>9, <1>10, <1>11, <1>12 DEF n, m

\* The energy of a sample: all of it, what counts of it, and what of it is in
\* the quarter of now and before.
LEMMA EnergyOfSample ==
  ASSUME time \in Nat, NEW span \in Steps, NEW kw \in Powers, time' = time + span
  PROVE  LET dt == Min({span, DtMax})
             now == (time + span - 1) \div QuarterLen
         IN  /\ dt \in Nat \ {0} /\ dt <= span /\ dt <= QuarterLen
             /\ span <= DtMax => dt = span /\ span <= QuarterLen
             /\ Inside(span) \in Nat /\ kw * dt \in Nat /\ kw * span \in Nat
             /\ kw * Inside(span) \in Nat /\ kw * (span - Inside(span)) \in Nat
             /\ kw * span = kw * Inside(span) + kw * (span - Inside(span))
             /\ kw * dt <= kw * span /\ kw * dt <= Slack
             /\ QuarterOf(dt) = now => 2 * (kw * Inside(span)) >= kw * dt
             /\ QuarterOf(dt) = now /\ dt = span => 2 * (kw * (span - Inside(span))) <= kw * dt
             /\ QuarterOf(dt) < now =>
                  /\ 2 * (kw * Inside(span)) <= kw * dt
                  /\ 2 * (kw * (span - Inside(span))) >= kw * dt
<1> DEFINE n == QuarterLen
           u == time + span
           dt == Min({span, DtMax})
           now == (u - 1) \div n
           m == 2 * n
           q == (2 * u - dt) \div m
           in == Inside(span)
<1>1. n \in Nat \ {0} /\ m \in Nat \ {0} /\ m = 2 * n
  BY MetersAssumption
<1>2. span \in Nat \ {0} /\ kw \in Nat /\ DtMax \in Nat \ {0} /\ DtMax <= n
  BY MetersAssumption
<1>3. dt = IF span <= DtMax THEN span ELSE DtMax
  BY <1>2, SmallerOfTwo
<1> HIDE DEF n, m, dt
<1>4. dt \in Nat \ {0} /\ dt <= span /\ dt <= n /\ dt <= DtMax /\ (span <= DtMax => dt = span)
  BY <1>1, <1>2, <1>3
<1>5. now \in Int /\ n * now <= u - 1 /\ u - 1 < n * now + n
  BY <1>1, <1>2, QuotientBounds
<1>6. 2 * u - dt \in Int
  BY <1>2, <1>4
<1>7. q \in Int /\ m * q <= 2 * u - dt /\ 2 * u - dt < m * q + m
  BY <1>1, <1>6, QuotientBounds
<1>8. u \in Int /\ u = time + span
  BY <1>2
<1> HIDE DEF u, now, q
<1>9. in = IF span <= u - n * now THEN span ELSE u - n * now
  <2>1. n * now \in Int
    BY <1>1, <1>5, SMTT(30)
  <2>2. in = Min({span, u - n * now})
    BY DEF Inside, u, now, n
  <2> QED
    BY <2>1, <2>2, <1>2, <1>8, SmallerOfTwo
<1> HIDE DEF in
<1>10. n * now \in Int
  BY <1>1, <1>5, SMTT(30)
<1>11. in \in Nat /\ in <= span /\ span - in \in Nat
  BY <1>2, <1>5, <1>8, <1>9, <1>10
<1>12. q = now => 2 * in >= dt /\ (dt = span => 2 * (span - in) <= dt)
  <2>1. m * now = 2 * (n * now)
    BY <1>1, <1>5, SMTT(30)
  <2> QED
    BY <2>1, <1>2, <1>4, <1>7, <1>8, <1>9, <1>10
<1>13. q < now => 2 * in <= dt /\ 2 * (span - in) >= dt
  <2>1. SUFFICES ASSUME q < now PROVE 2 * (u - n * now) <= dt
    BY <1>2, <1>4, <1>8, <1>9, <1>10
  <2>2. m * (q + 1) <= m * now /\ m * (q + 1) = m * q + m /\ m * now = 2 * (n * now)
    BY <1>1, <1>5, <1>7, <2>1, SMTT(30)
  <2> QED
    BY <2>2, <1>1, <1>4, <1>5, <1>7, <1>8, <1>10, SMTT(30)
<1>14. \A a, b \in Nat :
         /\ kw * a \in Nat /\ 2 * (kw * a) = kw * (2 * a)
         /\ kw * (a + b) = kw * a + kw * b
         /\ a <= b => kw * a <= kw * b
  <2> TAKE a, b \in Nat
  <2>1. kw * a \in Nat /\ 2 * (kw * a) = kw * (2 * a)
    BY <1>2, SMTT(30)
  <2>2. kw * (a + b) = kw * a + kw * b
    BY <1>2, SMTT(30)
  <2>3. a <= b => kw * a <= kw * b
    BY <1>2, SMTT(30)
  <2> QED
    BY <2>1, <2>2, <2>3
<1> DEFINE out == span - in
<1>15. out \in Nat /\ in + out = span
  BY <1>11, <1>2
<1> HIDE DEF out
<1>16. /\ kw * dt \in Nat /\ kw * span \in Nat /\ kw * in \in Nat /\ kw * out \in Nat
       /\ kw * span = kw * in + kw * out /\ kw * dt <= kw * span
  BY <1>2, <1>4, <1>11, <1>14, <1>15
<1>17. kw * dt <= Slack
  <2>1. kw * dt <= kw * DtMax
    BY <1>2, <1>4, <1>14
  <2>2. kw * DtMax = DtMax * kw
    BY <1>2, SMTT(30)
  <2>3. kw * DtMax \in Int /\ Slack \in Int
    BY <1>2, <1>14, HighestPower
  <2> QED
    BY <2>1, <2>2, <2>3, <1>16, HighestPower
<1>18. q = now => 2 * (kw * in) >= kw * dt
  BY <1>4, <1>11, <1>12, <1>14, <1>16
<1>19. q = now /\ dt = span => 2 * (kw * out) <= kw * dt
  BY <1>4, <1>12, <1>14, <1>15, <1>16 DEF out
<1>20. q < now => 2 * (kw * in) <= kw * dt /\ 2 * (kw * out) >= kw * dt
  BY <1>4, <1>11, <1>13, <1>14, <1>15, <1>16 DEF out
<1>21. QuarterOf(dt) = q
  BY DEF QuarterOf, q, m, u, n
<1> QED
  BY <1>1, <1>2, <1>4, <1>11, <1>16, <1>17, <1>18, <1>19, <1>20, <1>21 DEF out, in, dt, u, now, n

\* The quarters and periods a sample is in and between, by name.
Spans(was, now, q, before, p, then, first, next) ==
  /\ was \in Nat /\ now \in Nat /\ q \in Nat
  /\ p \in Nat /\ then \in Nat /\ first \in Nat /\ next \in Nat
  /\ was <= q /\ q <= now
  /\ p <= first /\ (first > p => q > was /\ now > was)
  /\ (now > was => first <= then) /\ (now = was => then = p)
  /\ p <= then /\ then <= next /\ q \div PeriodLen <= next

LEMMA SampleSpans ==
  ASSUME time \in Nat, NEW span \in Steps, time' = time + span
  PROVE  LET dt == Min({span, DtMax})
         IN  /\ Spans(QuarterNow, QuarterNow', QuarterOf(dt), QuarterAt(time),
                      PeriodNow, PeriodNow', PeriodAt(time), PeriodAt(time'))
             /\ QuarterNow' = (time + span - 1) \div QuarterLen
             /\ QuarterAt(time) <= QuarterOf(dt)
             /\ span <= DtMax => QuarterNow' <= QuarterNow + 1
<1> DEFINE dt == Min({span, DtMax})
           was == IF time = 0 THEN 0 ELSE (time - 1) \div QuarterLen
           now == (time + span - 1) \div QuarterLen
           q == (2 * (time + span) - dt) \div (2 * QuarterLen)
           before == time \div QuarterLen
           after == (time + span) \div QuarterLen
<1>1. span \in Nat \ {0} /\ DtMax \in Nat \ {0} /\ DtMax <= QuarterLen /\ QuarterLen \in Nat
      /\ PeriodLen \in Nat \ {0}
  BY MetersAssumption
<1>2. dt = IF span <= DtMax THEN span ELSE DtMax
  BY <1>1, SmallerOfTwo
<1>3. dt \in Nat \ {0} /\ dt <= span /\ dt <= QuarterLen
  <2> HIDE DEF dt
  <2> QED
    BY <1>1, <1>2
<1> HIDE DEF dt
<1>4. /\ was \in Nat /\ now \in Nat /\ q \in Nat /\ before \in Nat /\ after \in Nat
      /\ was <= before /\ before <= q /\ q <= now /\ now <= after
      /\ now = was => before = was
      /\ span <= QuarterLen => now <= was + 1
  BY <1>1, <1>3, QuartersOfSample
<1>5. /\ QuarterNow = was /\ QuarterNow' = now /\ QuarterOf(dt) = q
      /\ QuarterAt(time) = before /\ QuarterAt(time') = after
  <2>1. time' # 0 /\ time' - 1 = time + span - 1
    BY <1>1
  <2> QED
    BY <2>1 DEF QuarterNow, QuarterOf, QuarterAt
<1> HIDE DEF was, now, q, before, after
<1>6. /\ PeriodNow = was \div PeriodLen /\ PeriodNow' = now \div PeriodLen
      /\ PeriodAt(time) = before \div PeriodLen /\ PeriodAt(time') = after \div PeriodLen
  BY <1>5 DEF PeriodNow, PeriodAt
<1>7. /\ was \div PeriodLen \in Nat /\ now \div PeriodLen \in Nat
      /\ before \div PeriodLen \in Nat /\ after \div PeriodLen \in Nat
  BY <1>1, <1>4, QuotientNat
<1>8. /\ was \div PeriodLen <= before \div PeriodLen /\ was \div PeriodLen <= now \div PeriodLen
      /\ before \div PeriodLen <= now \div PeriodLen /\ now \div PeriodLen <= after \div PeriodLen
      /\ q \div PeriodLen <= after \div PeriodLen
  <2>1. was <= now /\ before <= now /\ q <= after
    BY <1>4
  <2> QED
    BY <2>1, <1>1, <1>4, QuotientMonotone
<1>9. before \div PeriodLen > was \div PeriodLen => before > was /\ q > was /\ now > was
  <2>1. before = was => ~(before \div PeriodLen > was \div PeriodLen)
    BY <1>7
  <2> QED
    BY <2>1, <1>4
<1>10. Spans(was, now, q, before, was \div PeriodLen, now \div PeriodLen,
             before \div PeriodLen, after \div PeriodLen)
  BY <1>4, <1>7, <1>8, <1>9 DEF Spans
<1>11. span <= DtMax => now <= was + 1
  BY <1>1, <1>4
<1> QED
  BY <1>4, <1>5, <1>6, <1>10, <1>11 DEF dt, now

\* A sample's quarters, its energies, what was metered and what is, by name.
PeakStep(was, now, q, first, p, then, next, D, K, I, O, good) ==
  /\ D \in Nat /\ K \in Nat /\ I \in Nat /\ O \in Nat /\ good \in BOOLEAN
  /\ K = I + O /\ D <= K /\ D <= Slack
  /\ q = now => 2 * I >= D
  /\ q < now => 2 * I <= D /\ 2 * O >= D
  /\ good => D = K /\ now <= was + 1 /\ (q = now => 2 * O <= D)
  /\ was \in Nat /\ now \in Nat /\ q \in Nat
  /\ p \in Nat /\ then \in Nat /\ first \in Nat /\ next \in Nat
  /\ was <= q /\ q <= now
  /\ p <= first /\ (first > p => q > was /\ now > was)
  /\ (now > was => first <= then) /\ (now = was => then = p)
  /\ p <= then /\ then <= next /\ q \div PeriodLen <= next
  /\ now = was => energy' = energy + K /\ seen_all' = (seen_all /\ good)
                  /\ least' = least /\ most' = most
  /\ now > was =>
       /\ energy' = I /\ seen_all' = good
       /\ then # p => most' = 0 /\ least' = 0
       /\ then = p =>
            /\ most' \in Nat /\ most <= most' /\ energy + O <= most'
            /\ \/ least' = least
               \/ /\ seen_all /\ good
                  /\ least' = IF least <= energy + O THEN energy + O ELSE least

LEMMA SampleIsPeakStep ==
  ASSUME PeakInv, NEW span \in Steps, NEW kw \in Powers, NEW read \in BOOLEAN,
         time' = time + span,
         LET now == (time + span - 1) \div QuarterLen
             was == IF time = 0 THEN 0 ELSE (time - 1) \div QuarterLen
             total == energy + kw * (span - Inside(span))
             anew == now \div PeriodLen # was \div PeriodLen
             good == read /\ span <= DtMax
         IN  IF now = was
               THEN /\ energy' = energy + kw * span /\ seen_all' = (seen_all /\ good)
                    /\ UNCHANGED <<least, most>>
               ELSE /\ energy' = kw * Inside(span) /\ seen_all' = good
                    /\ most' = IF anew THEN 0 ELSE Max({most, total, kw * QuarterLen})
                    /\ least' = IF anew THEN 0
                                ELSE IF seen_all /\ good THEN Max({least, total}) ELSE least
  PROVE  LET dt == Min({span, DtMax})
         IN  /\ PeakStep(QuarterNow, QuarterNow', QuarterOf(dt), PeriodAt(time), PeriodNow,
                         PeriodNow', PeriodAt(time'), kw * dt, kw * span, kw * Inside(span),
                         kw * (span - Inside(span)), read /\ span <= DtMax)
             /\ dt > 0
<1> DEFINE dt == Min({span, DtMax})
           D == kw * dt
           K == kw * span
           I == kw * Inside(span)
           O == kw * (span - Inside(span))
           good == read /\ span <= DtMax
           was == QuarterNow
           now == QuarterNow'
           q == QuarterOf(dt)
           more == kw * QuarterLen
<1>1. time \in Nat /\ energy \in Nat /\ least \in Nat /\ most \in Nat /\ seen_all \in BOOLEAN
  BY DEF PeakInv, MeterTypes
<1>2. /\ Spans(was, now, q, QuarterAt(time), PeriodNow, PeriodNow', PeriodAt(time), PeriodAt(time'))
      /\ now = (time + span - 1) \div QuarterLen
      /\ span <= DtMax => now <= was + 1
  BY <1>1, SampleSpans
<1>3. /\ dt \in Nat \ {0} /\ dt <= span /\ (span <= DtMax => dt = span)
      /\ K \in Nat /\ I \in Nat /\ O \in Nat /\ D \in Nat
      /\ K = I + O /\ D <= K /\ D <= Slack
      /\ q = now => 2 * I >= D
      /\ q = now /\ dt = span => 2 * O <= D
      /\ q < now => 2 * I <= D /\ 2 * O >= D
  BY <1>1, <1>2, EnergyOfSample
<1>4. good => D = K
  BY <1>3
<1>5. more \in Nat
  <2>1. kw \in Nat /\ QuarterLen \in Nat
    BY MetersAssumption
  <2> QED
    BY <2>1, SMTT(30)
<1>6. /\ was = IF time = 0 THEN 0 ELSE (time - 1) \div QuarterLen
      /\ PeriodNow = was \div PeriodLen /\ PeriodNow' = now \div PeriodLen
  BY DEF QuarterNow, PeriodNow
<1>7. IF now = was
        THEN energy' = energy + K /\ seen_all' = (seen_all /\ good) /\ UNCHANGED <<least, most>>
        ELSE /\ energy' = I /\ seen_all' = good
             /\ most' = IF PeriodNow' # PeriodNow THEN 0 ELSE Max({most, energy + O, more})
             /\ least' = IF PeriodNow' # PeriodNow THEN 0
                         ELSE IF seen_all /\ good THEN Max({least, energy + O}) ELSE least
  BY <1>2, <1>6
<1>8. good \in BOOLEAN
  OBVIOUS
<1> HIDE DEF D, K, I, O, good, more, was, now, q, dt
<1>9. energy + O \in Nat
  BY <1>1, <1>3
<1>10. /\ Max({most, energy + O, more}) \in Nat /\ most <= Max({most, energy + O, more})
       /\ energy + O <= Max({most, energy + O, more})
       /\ Max({least, energy + O}) = IF least <= energy + O THEN energy + O ELSE least
  BY <1>1, <1>5, <1>9, LargestOfThree, LargerOfTwo
<1>11. now > was =>
         /\ energy' = I /\ seen_all' = good
         /\ PeriodNow' # PeriodNow => most' = 0 /\ least' = 0
         /\ PeriodNow' = PeriodNow =>
              /\ most' \in Nat /\ most <= most' /\ energy + O <= most'
              /\ \/ least' = least
                 \/ /\ seen_all /\ good
                    /\ least' = IF least <= energy + O THEN energy + O ELSE least
  <2>1. was \in Nat /\ now \in Nat
    BY <1>2 DEF Spans
  <2>2. SUFFICES ASSUME now > was
        PROVE /\ energy' = I /\ seen_all' = good
              /\ PeriodNow' # PeriodNow => most' = 0 /\ least' = 0
              /\ PeriodNow' = PeriodNow =>
                  /\ most' \in Nat /\ most <= most' /\ energy + O <= most'
                  /\ \/ least' = least
                     \/ /\ seen_all /\ good
                        /\ least' = IF least <= energy + O THEN energy + O ELSE least
    OBVIOUS
  <2> QED
    BY <1>7, <1>10, <2>1, <2>2
<1>12. now = was => energy' = energy + K /\ seen_all' = (seen_all /\ good)
                    /\ least' = least /\ most' = most
  BY <1>7
<1>13. good => now <= was + 1
  BY <1>2 DEF good
<1>14. good => (q = now => 2 * O <= D)
  BY <1>3 DEF good
<1>15. PeakStep(was, now, q, PeriodAt(time), PeriodNow, PeriodNow', PeriodAt(time'), D, K, I, O, good)
  BY <1>2, <1>3, <1>4, <1>8, <1>11, <1>12, <1>13, <1>14 DEF PeakStep, Spans
<1> QED
  BY <1>3, <1>15 DEF D, K, I, O, good, was, now, q, dt

\* What a sample makes of the meter: nothing, more of its quarter, or the
\* quarter counted and a new one begun.
NotRead(good) == peak' = peak /\ ~good

SameQuarter(q, D) ==
  /\ Metering # Nil /\ Metering.q = q
  /\ peak'.period = peak.period /\ peak'.high = peak.high
  /\ Metering' # Nil /\ Metering'.q = q /\ Metering'.e = Metering.e + D

NewQuarter(q, D, next) ==
  /\ ~(Metering # Nil /\ Metering.q = q)
  /\ peak'.period = next
  /\ next # peak.period => peak'.high = 0
  /\ next = peak.period =>
       peak'.high = IF Metering = Nil THEN peak.high
                    ELSE IF peak.high <= Metering.e THEN Metering.e ELSE peak.high
  /\ Metering' # Nil /\ Metering'.q = q /\ Metering'.e = D

LEMMA PeakKept ==
  ASSUME PeakInv, NEW D, NEW K, NEW I, NEW O, NEW good, NEW q,
         time' \in Nat, time' > 0, stored' = stored,
         PeakStep(QuarterNow, QuarterNow', q, PeriodAt(time), PeriodNow, PeriodNow',
                  PeriodAt(time'), D, K, I, O, good),
         peak' \in [period : Nat, high : Nat, current : [q : Nat, e : Nat] \cup {Nil}],
         NotRead(good) \/ SameQuarter(q, D) \/ NewQuarter(q, D, PeriodAt(time'))
  PROVE  PeakInv'
<1> DEFINE w == QuarterNow
           v == QuarterNow'
           p == PeriodNow
           r == PeriodNow'
           first == PeriodAt(time)
           next == PeriodAt(time')
           c == Metering
           d == Metering'
           P == peak.period
           R == peak'.period
           h == peak.high
           g == peak'.high
           S == Slack
<1>1. PeakStep(w, v, q, first, p, r, next, D, K, I, O, good)
  OBVIOUS
<1>2. /\ P \in Nat /\ h \in Nat /\ R \in Nat /\ g \in Nat /\ S \in Nat
      /\ energy \in Nat /\ seen_all \in BOOLEAN /\ least \in Nat /\ most \in Nat
      /\ c # Nil => c.q \in Nat /\ c.e \in Nat
      /\ d # Nil => d.q \in Nat /\ d.e \in Nat
  BY HighestPower DEF PeakInv, MeterTypes, Metering
<1>3. /\ c # Nil => c.q <= w /\ c.q \div PeriodLen <= P
      /\ P <= first
      /\ c # Nil /\ c.q = w => 2 * (c.e - energy) <= S /\ (seen_all => 2 * (energy - c.e) <= S)
      /\ seen_all /\ (c = Nil \/ c.q < w) => 2 * energy <= S
  BY DEF PeakInv, EnergyMetered
<1>4. /\ c # Nil /\ c.q < w /\ P = p => c.e <= most + S
      /\ P = p => h <= most + S
      /\ P > p => h = 0 /\ (c # Nil => c.e <= S)
  BY DEF PeakInv, CountedNotAbove
<1>5. /\ P = p => least - S <= h \/ (c # Nil /\ c.q < w /\ least - S <= c.e)
      /\ P < p => least <= S
  BY DEF PeakInv, CountedNotBelow
<1>6. c # Nil /\ c.q = w => P >= p
  BY <1>3 DEF PeriodNow
<1>7. NotRead(good) => R = P /\ g = h /\ d = c /\ ~good
  BY DEF NotRead, Metering
<1>8. SameQuarter(q, D) => c # Nil /\ c.q = q /\ R = P /\ g = h /\ d # Nil /\ d.q = q /\ d.e = c.e + D
  BY DEF SameQuarter
<1>9. NewQuarter(q, D, next) =>
        /\ ~(c # Nil /\ c.q = q) /\ R = next /\ (next # P => g = 0)
        /\ next = P => g = IF c = Nil THEN h ELSE IF h <= c.e THEN c.e ELSE h
        /\ d # Nil /\ d.q = q /\ d.e = D
  BY DEF NewQuarter
<1> HIDE DEF w, v, p, r, first, next, c, d, P, R, h, g, S
<1>18. /\ D \in Nat /\ K \in Nat /\ I \in Nat /\ O \in Nat /\ K = I + O /\ D <= K /\ D <= S
       /\ q = v => 2 * I >= D
       /\ q < v => 2 * I <= D /\ 2 * O >= D
       /\ good => D = K /\ v <= w + 1 /\ (q = v => 2 * O <= D)
       /\ w \in Nat /\ v \in Nat /\ q \in Nat /\ w <= q /\ q <= v
       /\ p \in Nat /\ r \in Nat /\ first \in Nat /\ next \in Nat
       /\ p <= first /\ (first > p => q > w /\ v > w) /\ p <= r /\ r <= next
       /\ q \div PeriodLen <= next
  BY <1>1 DEF PeakStep, S
<1>19. v = w => /\ q = w /\ energy' = energy + K /\ (seen_all' => seen_all /\ good)
                /\ least' = least /\ most' = most /\ r = p /\ first = p
  <2>1. SUFFICES ASSUME v = w
                 PROVE  /\ q = w /\ energy' = energy + K /\ (seen_all' => seen_all /\ good)
                        /\ least' = least /\ most' = most /\ r = p /\ first = p
    OBVIOUS
  <2>2. q = w /\ first = p
    BY <2>1, <1>18
  <2>3. energy' = energy + K /\ seen_all' = (seen_all /\ good) /\ least' = least /\ most' = most /\ r = p
    BY <2>1, <1>1, Zenon DEF PeakStep
  <2> QED
    BY <2>2, <2>3, Zenon
<1>20. v > w => energy' = I /\ (seen_all' => good) /\ first <= r
  BY <1>1 DEF PeakStep
<1>21. v > w /\ r # p => most' = 0 /\ least' = 0 /\ r > p
  BY <1>1, <1>18 DEF PeakStep
<1>22. v > w /\ r = p =>
         /\ most' \in Nat /\ most <= most' /\ energy + O <= most'
         /\ \/ least' = least
            \/ seen_all /\ good /\ least' = IF least <= energy + O THEN energy + O ELSE least
  BY <1>1 DEF PeakStep
<1>23. v = w \/ v > w
  BY <1>18
<1>10. MeterTypes'
  <2>1. energy' \in Nat /\ seen_all' \in BOOLEAN /\ least' \in Nat /\ most' \in Nat
    BY <1>1, <1>2 DEF PeakStep
  <2>2. stored' # Nil => stored'.period \in Nat /\ stored'.high \in Nat
    BY DEF PeakInv, MeterTypes
  <2> QED
    BY <2>1, <2>2 DEF MeterTypes
<1>11. /\ d # Nil => d.q <= v /\ d.q \div PeriodLen <= R
       /\ R <= next
       /\ d # Nil /\ d.q = v => 2 * (d.e - energy') <= S /\ (seen_all' => 2 * (energy' - d.e) <= S)
       /\ seen_all' /\ (d = Nil \/ d.q < v) => 2 * energy' <= S
  <2>1. CASE NotRead(good)
    <3>1. CASE v = w
      BY <3>1, <2>1, <1>2, <1>3, <1>7, <1>18, <1>19
    <3>2. CASE v > w /\ r = p
      BY <3>2, <2>1, <1>2, <1>3, <1>7, <1>18, <1>20, <1>22
    <3>3. CASE v > w /\ r # p
      BY <3>3, <2>1, <1>2, <1>3, <1>7, <1>18, <1>20, <1>21
    <3> QED
      BY <3>1, <3>2, <3>3, <1>23
  <2>2. CASE SameQuarter(q, D)
    <3>1. CASE v = w
      BY <3>1, <2>2, <1>2, <1>3, <1>8, <1>18, <1>19
    <3>2. CASE v > w /\ r = p
      BY <3>2, <2>2, <1>2, <1>3, <1>8, <1>18, <1>20, <1>22
    <3>3. CASE v > w /\ r # p
      BY <3>3, <2>2, <1>2, <1>3, <1>8, <1>18, <1>20, <1>21
    <3> QED
      BY <3>1, <3>2, <3>3, <1>23
  <2>3. CASE NewQuarter(q, D, next)
    <3>1. CASE v = w
      BY <3>1, <2>3, <1>2, <1>3, <1>9, <1>18, <1>19
    <3>2. CASE v > w /\ r = p
      BY <3>2, <2>3, <1>2, <1>3, <1>9, <1>18, <1>20, <1>22
    <3>3. CASE v > w /\ r # p
      BY <3>3, <2>3, <1>2, <1>3, <1>9, <1>18, <1>20, <1>21
    <3> QED
      BY <3>1, <3>2, <3>3, <1>23
  <2> QED
    BY <2>1, <2>2, <2>3 DEF next
<1>12. /\ d # Nil /\ d.q < v /\ R = r => d.e <= most' + S
       /\ R = r => g <= most' + S
       /\ R > r => g = 0 /\ (d # Nil => d.e <= S)
  <2>1. CASE NotRead(good)
    <3>1. CASE v = w
      BY <3>1, <2>1, <1>2, <1>3, <1>4, <1>7, <1>18, <1>19
    <3>2. CASE v > w /\ r = p
      BY <3>2, <2>1, <1>2, <1>3, <1>4, <1>7, <1>18, <1>20, <1>22
    <3>3. CASE v > w /\ r # p
      BY <3>3, <2>1, <1>2, <1>3, <1>4, <1>7, <1>18, <1>20, <1>21
    <3> QED
      BY <3>1, <3>2, <3>3, <1>23
  <2>2. CASE SameQuarter(q, D)
    <3>1. CASE v = w
      BY <3>1, <2>2, <1>2, <1>3, <1>4, <1>8, <1>18, <1>19
    <3>2. CASE v > w /\ r = p
      BY <3>2, <2>2, <1>2, <1>3, <1>4, <1>8, <1>18, <1>20, <1>22
    <3>3. CASE v > w /\ r # p
      BY <3>3, <2>2, <1>2, <1>3, <1>4, <1>8, <1>18, <1>20, <1>21
    <3> QED
      BY <3>1, <3>2, <3>3, <1>23
  <2>3. CASE NewQuarter(q, D, next)
    <3>1. CASE v = w
      BY <3>1, <2>3, <1>2, <1>3, <1>4, <1>9, <1>18, <1>19
    <3>2. CASE v > w /\ r = p
      BY <3>2, <2>3, <1>2, <1>3, <1>4, <1>9, <1>18, <1>20, <1>22
    <3>3. CASE v > w /\ r # p
      BY <3>3, <2>3, <1>2, <1>3, <1>4, <1>9, <1>18, <1>20, <1>21
    <3> QED
      BY <3>1, <3>2, <3>3, <1>23
  <2> QED
    BY <2>1, <2>2, <2>3 DEF next
<1>13. /\ R = r => least' - S <= g \/ (d # Nil /\ d.q < v /\ least' - S <= d.e)
       /\ R < r => least' <= S
  <2>1. CASE NotRead(good)
    <3>1. CASE v = w
      BY <3>1, <2>1, <1>2, <1>3, <1>5, <1>7, <1>18, <1>19
    <3>2. CASE v > w /\ r = p
      BY <3>2, <2>1, <1>2, <1>3, <1>5, <1>7, <1>18, <1>20, <1>22
    <3>3. CASE v > w /\ r # p
      BY <3>3, <2>1, <1>2, <1>3, <1>5, <1>7, <1>18, <1>20, <1>21
    <3> QED
      BY <3>1, <3>2, <3>3, <1>23
  <2>2. CASE SameQuarter(q, D)
    <3>1. CASE v = w
      BY <3>1, <2>2, <1>2, <1>3, <1>5, <1>6, <1>8, <1>18, <1>19
    <3>2. CASE v > w /\ r = p
      BY <3>2, <2>2, <1>2, <1>3, <1>5, <1>6, <1>8, <1>18, <1>20, <1>22
    <3>3. CASE v > w /\ r # p
      BY <3>3, <2>2, <1>2, <1>3, <1>5, <1>6, <1>8, <1>18, <1>20, <1>21
    <3> QED
      BY <3>1, <3>2, <3>3, <1>23
  <2>3. CASE NewQuarter(q, D, next)
    <3>1. CASE v = w
      BY <3>1, <2>3, <1>2, <1>3, <1>5, <1>6, <1>9, <1>18, <1>19
    <3>2. CASE v > w /\ r = p
      BY <3>2, <2>3, <1>2, <1>3, <1>5, <1>6, <1>9, <1>18, <1>20, <1>22
    <3>3. CASE v > w /\ r # p
      BY <3>3, <2>3, <1>2, <1>3, <1>5, <1>6, <1>9, <1>18, <1>20, <1>21
    <3> QED
      BY <3>1, <3>2, <3>3, <1>23
  <2> QED
    BY <2>1, <2>2, <2>3 DEF next
<1>14. SavedNotAbove'
  <2> DEFINE sp == stored.period
             sh == stored.high
  <2>1. SUFFICES ASSUME stored # Nil
                 PROVE  sp <= next /\ (sp = r => sh <= most' + S) /\ (sp > r => sh = 0)
    BY DEF SavedNotAbove, next, r, S, Slack
  <2>2. sp \in Nat /\ sh \in Nat /\ sp <= first /\ (sp = p => sh <= most + S) /\ (sp > p => sh = 0)
    BY <2>1 DEF PeakInv, MeterTypes, SavedNotAbove, first, p, S
  <2> HIDE DEF sp, sh
  <2> QED
    <3>1. CASE v = w
      BY <3>1, <2>2, <1>2, <1>18, <1>19
    <3>2. CASE v > w /\ r = p
      BY <3>2, <2>2, <1>2, <1>18, <1>20, <1>22
    <3>3. CASE v > w /\ r # p
      BY <3>3, <2>2, <1>2, <1>18, <1>20, <1>21
    <3> QED
      BY <3>1, <3>2, <3>3, <1>23
<1>15. EnergyMetered'
  BY <1>11 DEF EnergyMetered, v, d, R, next, S, Slack, Metering
<1>16. CountedNotAbove'
  BY <1>12 DEF CountedNotAbove, v, d, R, r, g, S, Slack
<1>17. CountedNotBelow'
  BY <1>13 DEF CountedNotBelow, v, d, R, r, g, S, Slack
<1> QED
  BY <1>10, <1>14, <1>15, <1>16, <1>17 DEF PeakInv

\* One sample.
SampleOf(span, kw, read) ==
  LET dt == Min({span, DtMax})
      now == (time + span - 1) \div QuarterLen
      was == IF time = 0 THEN 0 ELSE (time - 1) \div QuarterLen
      total == energy + kw * (span - Inside(span))
      anew == now \div PeriodLen # was \div PeriodLen
      good == read /\ span <= DtMax
  IN
  /\ time + span <= EndOfTime
  /\ time' = time + span
  /\ IF read THEN peak' = Metered(kw, dt) /\ profile' = Learned(kw, dt)
             ELSE UNCHANGED <<peak, profile>>
  /\ IF now = was
       THEN /\ energy' = energy + kw * span /\ seen_all' = (seen_all /\ good)
            /\ UNCHANGED <<least, most>>
       ELSE /\ energy' = kw * Inside(span) /\ seen_all' = good
            /\ most' = IF anew THEN 0 ELSE Max({most, total, kw * QuarterLen})
            /\ least' = IF anew THEN 0
                        ELSE IF seen_all /\ good THEN Max({least, total}) ELSE least
  /\ touched' = [s \in Slots |->
                   IF \E q \in QuarterAt(time) .. now : Slot(q) = s
                     THEN touched[s] \cup {kw} ELSE touched[s]]
  /\ UNCHANGED stored

LEMMA SampleKeepsPeak ==
  ASSUME PeakInv, Sample
  PROVE  PeakInv'
<1>1. PICK span \in Steps, kw \in Powers, read \in BOOLEAN : SampleOf(span, kw, read)
  BY Zenon DEF Sample, SampleOf
<1> DEFINE dt == Min({span, DtMax})
           D == kw * dt
           q == QuarterOf(dt)
           next == PeriodAt(time')
           good == read /\ span <= DtMax
<1>2. /\ PeakStep(QuarterNow, QuarterNow', q, PeriodAt(time), PeriodNow, PeriodNow', next,
                  D, kw * span, kw * Inside(span), kw * (span - Inside(span)), good)
      /\ dt > 0
  BY <1>1, SampleIsPeakStep DEF SampleOf
<1>3. D \in Nat /\ q \in Nat /\ next \in Nat
  BY <1>2 DEF PeakStep
<1>4. time' \in Nat /\ time' > 0
  BY <1>1, MetersAssumption DEF SampleOf, PeakInv, MeterTypes
<1>5. peak \in [period : Nat, high : Nat, current : [q : Nat, e : Nat] \cup {Nil}]
  BY DEF PeakInv, MeterTypes
<1>6. IF read THEN peak' = Metered(kw, dt) ELSE peak' = peak
  BY <1>1 DEF SampleOf
<1>7. ~(dt <= 0)
  <2> HIDE DEF dt
  <2>1. dt \in Int
    BY MetersAssumption, SmallerOfTwo DEF dt
  <2> QED
    BY <1>2, <2>1
<1> HIDE DEF D, q, next, good
<1>8. /\ peak' \in [period : Nat, high : Nat, current : [q : Nat, e : Nat] \cup {Nil}]
      /\ NotRead(good) \/ SameQuarter(q, D) \/ NewQuarter(q, D, next)
  <2>1. CASE ~read
    BY <2>1, <1>5, <1>6 DEF NotRead, good
  <2>2. CASE read /\ Metering # Nil /\ Metering.q = q
    <3>1. peak' = [peak EXCEPT !.current.e = @ + D]
      BY <2>2, <1>6, <1>7 DEF Metered, D, q, Metering
    <3>2. peak.current \in [q : Nat, e : Nat]
      BY <2>2, <1>5 DEF Metering
    <3>3. /\ peak'.period = peak.period /\ peak'.high = peak.high
          /\ peak'.current = [peak.current EXCEPT !.e = @ + D]
          /\ peak' \in [period : Nat, high : Nat, current : [q : Nat, e : Nat]]
      BY <3>1, <3>2, <1>3, <1>5
    <3>4. /\ Metering'.q = q /\ Metering'.e = Metering.e + D /\ Metering' # Nil
      BY <3>2, <3>3, <2>2, MetersAssumption DEF Metering
    <3> QED
      BY <2>2, <3>3, <3>4 DEF SameQuarter
  <2>3. CASE read /\ ~(Metering # Nil /\ Metering.q = q)
    <3>1. peak' = [period |-> next,
                   high |-> IF next # peak.period THEN 0
                            ELSE IF Metering = Nil THEN peak.high ELSE Max({peak.high, Metering.e}),
                   current |-> [q |-> q, e |-> D]]
      BY <2>3, <1>6, <1>7 DEF Metered, D, q, next, Metering
    <3>2. peak.high \in Nat /\ (Metering # Nil => Metering.e \in Nat)
      BY <1>5 DEF Metering
    <3>3. Metering # Nil =>
            Max({peak.high, Metering.e}) = IF peak.high <= Metering.e THEN Metering.e ELSE peak.high
      BY <3>2, LargerOfTwo
    <3> DEFINE higher == Max({peak.high, Metering.e})
    <3> HIDE DEF higher
    <3>4. /\ peak'.period = next
          /\ peak'.high = IF next # peak.period THEN 0
                          ELSE IF Metering = Nil THEN peak.high ELSE higher
          /\ Metering' = [q |-> q, e |-> D]
      BY <3>1 DEF Metering, higher
    <3>5. peak'.high \in Nat
      BY <3>2, <3>3, <3>4 DEF higher
    <3>6. peak' \in [period : Nat, high : Nat, current : [q : Nat, e : Nat] \cup {Nil}]
      BY <3>1, <3>4, <3>5, <1>3 DEF Metering
    <3>7. Metering' # Nil /\ Metering'.q = q /\ Metering'.e = D
      BY <3>4, <1>3, MetersAssumption
    <3>8. next = peak.period =>
            peak'.high = IF Metering = Nil THEN peak.high
                         ELSE IF peak.high <= Metering.e THEN Metering.e ELSE peak.high
      BY <3>3, <3>4 DEF higher
    <3> QED
      BY <2>3, <3>4, <3>6, <3>7, <3>8 DEF NewQuarter
  <2> QED
    BY <2>1, <2>2, <2>3
<1>9. stored' = stored
  BY <1>1 DEF SampleOf
<1> QED
  BY <1>2, <1>4, <1>8, <1>9, PeakKept DEF next

LEMMA RestartKeepsPeak ==
  ASSUME PeakInv, RestartMeters
  PROVE  PeakInv'
<1> DEFINE high == IF stored # Nil /\ stored.period = PeriodAt(time) THEN stored.high ELSE 0
<1>1. /\ peak' = [period |-> PeriodAt(time), high |-> high, current |-> Nil]
      /\ seen_all' = FALSE /\ least' = 0 /\ time' = time /\ stored' = stored /\ energy' = energy
      /\ most' = most
  BY DEF RestartMeters
<1>2. /\ time \in Nat /\ energy \in Nat /\ least \in Nat /\ most \in Nat
      /\ stored # Nil => stored.period \in Nat /\ stored.high \in Nat
  BY DEF PeakInv, MeterTypes
<1>3. PeriodAt(time) \in Nat
  <2>1. QuarterAt(time) \in Nat
    BY <1>2, QuotientNat, MetersAssumption DEF QuarterAt
  <2> QED
    BY <2>1, QuotientNat, MetersAssumption DEF PeriodAt
<1>4. QuarterNow' = QuarterNow /\ PeriodNow' = PeriodNow /\ PeriodAt(time)' = PeriodAt(time)
  BY <1>1 DEF QuarterNow, PeriodNow, PeriodAt, QuarterAt
<1>5. /\ PeriodAt(time) = PeriodNow => high <= most + Slack
      /\ PeriodAt(time) > PeriodNow => high = 0
      /\ high \in Nat /\ PeriodNow <= PeriodAt(time) /\ PeriodNow \in Nat
  <2>1. PeriodNow \in Nat /\ PeriodNow <= PeriodAt(time)
    <3>1. QuarterNow \in Nat /\ QuarterNow <= QuarterAt(time) /\ QuarterAt(time) \in Nat
      <4>1. CASE time = 0
        BY <4>1, QuotientIs, MetersAssumption DEF QuarterNow, QuarterAt
      <4>2. CASE time # 0
        BY <4>2, <1>2, QuotientMonotone, QuotientNat, MetersAssumption DEF QuarterNow, QuarterAt
      <4> QED
        BY <4>1, <4>2
    <3> QED
      BY <3>1, QuotientMonotone, QuotientNat, MetersAssumption DEF PeriodNow, PeriodAt
  <2> QED
    BY <2>1, <1>2, <1>3, HighestPower DEF PeakInv, SavedNotAbove
<1> HIDE DEF high
<1>6. Metering' = Nil /\ peak'.period = PeriodAt(time) /\ peak'.high = high
  BY <1>1 DEF Metering
<1>7. MeterTypes'
  BY <1>1, <1>2, <1>3, <1>5 DEF MeterTypes
<1>8. EnergyMetered'
  BY <1>1, <1>3, <1>4, <1>6 DEF EnergyMetered
<1>9. CountedNotAbove'
  BY <1>1, <1>2, <1>3, <1>4, <1>5, <1>6, HighestPower DEF CountedNotAbove, Slack
<1>10. CountedNotBelow'
  BY <1>1, <1>2, <1>3, <1>4, <1>5, <1>6, HighestPower DEF CountedNotBelow, Slack
<1>11. SavedNotAbove'
  BY <1>1, <1>4 DEF PeakInv, SavedNotAbove, Slack
<1> QED
  BY <1>7, <1>8, <1>9, <1>10, <1>11 DEF PeakInv

LEMMA SaveKeepsPeak ==
  ASSUME PeakInv, SaveMeters
  PROVE  PeakInv'
<1>1. /\ stored' = [period |-> peak.period, high |-> peak.high, mean |-> profile.mean]
      /\ UNCHANGED <<time, peak, energy, seen_all, least, most>>
  BY DEF SaveMeters
<1>2. stored'.period = peak.period /\ stored'.high = peak.high
  BY <1>1
<1>3. QuarterNow' = QuarterNow /\ PeriodNow' = PeriodNow /\ PeriodAt(time)' = PeriodAt(time)
      /\ Metering' = Metering
  BY <1>1 DEF QuarterNow, PeriodNow, PeriodAt, QuarterAt, Metering
<1>4. MeterTypes'
  BY <1>1, <1>2 DEF PeakInv, MeterTypes
<1>5. SavedNotAbove'
  BY <1>1, <1>2, <1>3 DEF PeakInv, SavedNotAbove, EnergyMetered, CountedNotAbove, Slack
<1>6. EnergyMetered' /\ CountedNotAbove' /\ CountedNotBelow'
  BY <1>1, <1>3 DEF PeakInv, EnergyMetered, CountedNotAbove, CountedNotBelow, Slack
<1> QED
  BY <1>4, <1>5, <1>6 DEF PeakInv

-----------------------------------------------------------------------------
\* The loads learned lie between loads seen.

LoadTypes ==
  /\ profile \in [mean : [Slots -> Int \cup {Nil}], last : Int \cup {Nil},
                  current : [q : Nat, e : Nat, secs : Nat] \cup {Nil}]
  /\ stored # Nil => stored.mean \in [Slots -> Int \cup {Nil}]
  /\ touched \in [Slots -> SUBSET Nat]

AllTouched == UNION {touched[u] : u \in Slots}

\* A load of e in secs is between loads of a set.
MeanWithin(e, secs, seen) ==
  (\E y \in seen : y * secs <= e) /\ (\E y \in seen : e <= y * secs)

MeansWithin(mean) == \A s \in Slots : mean[s] # Nil => Within(mean[s], touched[s])

LoadsInv ==
  /\ time \in Nat /\ LoadTypes
  /\ profile.current # Nil =>
       /\ profile.current.secs > 0
       /\ MeanWithin(profile.current.e, profile.current.secs, touched[Slot(profile.current.q)])
  /\ MeansWithin(profile.mean)
  /\ stored # Nil => MeansWithin(stored.mean)
  /\ profile.last # Nil => Within(profile.last, AllTouched)

LEMMA SlotOfQuarter ==
  ASSUME NEW q \in Nat
  PROVE  Slot(q) \in Slots
<1>1. q % DaySlots \in 0 .. DaySlots - 1
  BY MetersAssumption, SMTT(30)
<1> QED
  BY <1>1 DEF Slot, Slots

LEMMA OtherDayOfSlot ==
  ASSUME NEW s \in Slots
  PROVE  OtherDay(s) \in Slots
  BY DEF OtherDay, Slots

LEMMA WithinMoreLoads ==
  ASSUME NEW x \in Int, NEW A, NEW B, A \subseteq B, Within(x, A)
  PROVE  Within(x, B)
  BY DEF Within

LEMMA MeanWithinMore ==
  ASSUME NEW e \in Nat, NEW secs \in Nat, NEW A, NEW B, A \subseteq B, MeanWithin(e, secs, A)
  PROVE  MeanWithin(e, secs, B)
  BY DEF MeanWithin

LEMMA MeanOfOne ==
  ASSUME NEW kw \in Nat, NEW secs \in Nat, NEW A, kw \in A
  PROVE  MeanWithin(kw * secs, secs, A)
<1>1. kw * secs \in Nat
  BY SMTT(30)
<1> QED
  BY <1>1 DEF MeanWithin

LEMMA MeanWithOneMore ==
  ASSUME NEW e \in Nat, NEW secs \in Nat, NEW A \in SUBSET Nat, MeanWithin(e, secs, A),
         NEW kw \in Nat, NEW dt \in Nat, NEW B \in SUBSET Nat, A \subseteq B, kw \in B
  PROVE  MeanWithin(e + kw * dt, secs + dt, B)
<1>1. kw * dt \in Nat
  BY SMTT(30)
<1>2. \E y \in B : y * (secs + dt) <= e + kw * dt
  <2>1. PICK lo \in A : lo * secs <= e
    BY DEF MeanWithin
  <2>2. CASE lo <= kw
    <3>1. lo * (secs + dt) = lo * secs + lo * dt /\ lo * dt <= kw * dt /\ lo * secs \in Nat
          /\ lo * dt \in Nat
      BY <2>2, SMTT(30)
    <3> QED
      BY <3>1, <2>1, <1>1
  <2>3. CASE kw < lo
    <3>1. kw * (secs + dt) = kw * secs + kw * dt /\ kw * secs <= lo * secs /\ lo * secs \in Nat
          /\ kw * secs \in Nat
      BY <2>3, SMTT(30)
    <3> QED
      BY <3>1, <2>1, <1>1
  <2> QED
    BY <2>2, <2>3
<1>3. \E y \in B : e + kw * dt <= y * (secs + dt)
  <2>1. PICK hi \in A : e <= hi * secs
    BY DEF MeanWithin
  <2>2. CASE kw <= hi
    <3>1. hi * (secs + dt) = hi * secs + hi * dt /\ kw * dt <= hi * dt /\ hi * secs \in Nat
          /\ hi * dt \in Nat
      BY <2>2, SMTT(30)
    <3> QED
      BY <3>1, <2>1, <1>1
  <2>3. CASE hi < kw
    <3>1. kw * (secs + dt) = kw * secs + kw * dt /\ hi * secs <= kw * secs /\ hi * secs \in Nat
          /\ kw * secs \in Nat
      BY <2>3, SMTT(30)
    <3> QED
      BY <3>1, <2>1, <1>1
  <2> QED
    BY <2>2, <2>3
<1> QED
  BY <1>2, <1>3 DEF MeanWithin

LEMMA QuotientWithin ==
  ASSUME NEW e \in Nat, NEW secs \in Nat \ {0}, NEW A \in SUBSET Nat, MeanWithin(e, secs, A)
  PROVE  e \div secs \in Nat /\ Within(e \div secs, A)
<1> DEFINE x == e \div secs
<1>1. x \in Nat /\ secs * x <= e /\ e < secs * x + secs
  BY QuotientBounds, QuotientNat
<1> HIDE DEF x
<1>2. \E y \in A : y <= x
  <2>1. PICK lo \in A : lo * secs <= e
    BY DEF MeanWithin
  <2>2. SUFFICES ASSUME lo >= x + 1 PROVE FALSE
    BY <1>1
  <2>3. lo * secs >= secs * (x + 1) /\ secs * (x + 1) = secs * x + secs /\ lo * secs \in Nat
        /\ secs * x \in Nat
    BY <1>1, <2>2, SMTT(30)
  <2> QED
    BY <1>1, <2>1, <2>3
<1>3. \E y \in A : x <= y
  <2>1. PICK hi \in A : e <= hi * secs
    BY DEF MeanWithin
  <2>2. SUFFICES ASSUME hi + 1 <= x PROVE FALSE
    BY <1>1
  <2>3. secs * x >= secs * (hi + 1) /\ secs * (hi + 1) = hi * secs + secs /\ hi * secs \in Nat
        /\ secs * x \in Nat
    BY <1>1, <2>2, SMTT(30)
  <2> QED
    BY <1>1, <2>1, <2>3
<1> QED
  BY <1>1, <1>2, <1>3 DEF Within, x

HalfWay(old, x) == old + (x - old) \div 2

LEMMA HalfWayWithin ==
  ASSUME NEW x \in Int, NEW old \in Int, NEW A \in SUBSET Nat, Within(x, A), Within(old, A)
  PROVE  HalfWay(old, x) \in Int /\ Within(HalfWay(old, x), A)
<1> DEFINE h == (x - old) \div 2
<1>1. h \in Int /\ 2 * h <= x - old /\ x - old < 2 * h + 2
  OBVIOUS
<1> HIDE DEF h
<1>4. PICK z \in Int : z = old + h
  BY <1>1
<1>2. \E y \in A : y <= z
  <2>1. CASE x <= old
    <3>1. PICK y \in A : y <= x
      BY DEF Within
    <3> QED
      BY <2>1, <3>1, <1>1, <1>4
  <2>2. CASE old < x
    <3>1. PICK y \in A : y <= old
      BY DEF Within
    <3> QED
      BY <2>2, <3>1, <1>1, <1>4
  <2> QED
    BY <2>1, <2>2
<1>3. \E y \in A : z <= y
  <2>1. CASE x <= old
    <3>1. PICK y \in A : old <= y
      BY DEF Within
    <3> QED
      BY <2>1, <3>1, <1>1, <1>4
  <2>2. CASE old < x
    <3>1. PICK y \in A : x <= y
      BY DEF Within
    <3> QED
      BY <2>2, <3>1, <1>1, <1>4
  <2> QED
    BY <2>1, <2>2
<1>5. Within(z, A)
  BY <1>2, <1>3 DEF Within
<1>6. HalfWay(old, x) = z
  BY <1>4 DEF HalfWay, h
<1> QED
  BY <1>5, <1>6

Profiles == [mean : [Slots -> Int \cup {Nil}], last : Int \cup {Nil},
             current : [q : Nat, e : Nat, secs : Nat] \cup {Nil}]

LEMMA ClosedWithin ==
  ASSUME LoadsInv
  PROVE  /\ Closed(profile) \in Profiles
         /\ MeansWithin(Closed(profile).mean)
         /\ Closed(profile).last # Nil => Within(Closed(profile).last, AllTouched)
<1>1. CASE profile.current = Nil \/ 2 * profile.current.secs < QuarterLen
  BY <1>1 DEF Closed, LoadsInv, LoadTypes, Profiles
<1>2. CASE ~(profile.current = Nil \/ 2 * profile.current.secs < QuarterLen)
  <2> DEFINE c == profile.current
             x == c.e \div c.secs
             s == Slot(c.q)
             m == profile.mean
             old == m[s]
             half == HalfWay(old, x)
             new == IF old = Nil THEN x ELSE half
  <2>1. /\ profile \in Profiles /\ c \in [q : Nat, e : Nat, secs : Nat] /\ c # Nil /\ c.secs > 0
        /\ MeanWithin(c.e, c.secs, touched[s]) /\ touched \in [Slots -> SUBSET Nat]
        /\ MeansWithin(m)
    BY <1>2 DEF LoadsInv, LoadTypes, Profiles
  <2>2. s \in Slots /\ touched[s] \in SUBSET Nat /\ m \in [Slots -> Int \cup {Nil}]
    BY <2>1, SlotOfQuarter DEF Profiles
  <2>3. x \in Nat /\ Within(x, touched[s])
    BY <2>1, <2>2, QuotientWithin
  <2>4. old # Nil => old \in Int /\ Within(old, touched[s])
    BY <2>1, <2>2 DEF MeansWithin
  <2>5. Closed(profile) = [[profile EXCEPT !.last = x] EXCEPT !.mean[s] = new]
    <3>1. Closed(profile) = [profile EXCEPT !.last = x,
                               !.mean[s] = IF @ = Nil THEN x ELSE @ + (x - @) \div 2]
      BY <1>2 DEF Closed
    <3> QED
      BY <3>1, <2>1, <2>2 DEF Profiles, HalfWay
  <2> HIDE DEF x, s, old
  <2>6. old # Nil => half \in Int /\ Within(half, touched[s])
    BY <2>2, <2>3, <2>4, HalfWayWithin
  <2> HIDE DEF half
  <2>7. new \in Int /\ Within(new, touched[s])
    BY <2>3, <2>6
  <2> HIDE DEF new
  <2>8. /\ Closed(profile) \in Profiles /\ Closed(profile).last = x
        /\ Closed(profile).mean = [m EXCEPT ![s] = new]
    <3> DEFINE r == [profile EXCEPT !.last = x]
    <3>1. r \in Profiles /\ r.last = x /\ r.mean = m
      BY <2>1, <2>3 DEF Profiles
    <3> HIDE DEF r
    <3>2. [m EXCEPT ![s] = new] \in [Slots -> Int \cup {Nil}]
      BY <2>2, <2>7
    <3>3. Closed(profile) = [r EXCEPT !.mean = [m EXCEPT ![s] = new]]
      BY <2>5, <3>1 DEF r, Profiles
    <3> QED
      BY <3>1, <3>2, <3>3 DEF Profiles
  <2>9. MeansWithin([m EXCEPT ![s] = new])
    <3>1. SUFFICES ASSUME NEW u \in Slots, [m EXCEPT ![s] = new][u] # Nil
                   PROVE  Within([m EXCEPT ![s] = new][u], touched[u])
      BY DEF MeansWithin
    <3>2. CASE u = s
      BY <3>2, <2>2, <2>7
    <3>3. CASE u # s
      BY <3>1, <3>3, <2>1, <2>2 DEF MeansWithin
    <3> QED
      BY <3>2, <3>3
  <2>10. Within(x, AllTouched)
    <3>1. touched[s] \subseteq AllTouched
      BY <2>2 DEF AllTouched
    <3> QED
      BY <3>1, <2>3, WithinMoreLoads
  <2> QED
    BY <2>8, <2>9, <2>10
<1> QED
  BY <1>1, <1>2

LEMMA SampleKeepsLoads ==
  ASSUME LoadsInv, Sample
  PROVE  LoadsInv'
<1>1. PICK span \in Steps, kw \in Powers, read \in BOOLEAN : SampleOf(span, kw, read)
  BY Zenon DEF Sample, SampleOf
<1> DEFINE dt == Min({span, DtMax})
           D == kw * dt
           q == QuarterOf(dt)
           now == (time + span - 1) \div QuarterLen
<1>2. /\ time' = time + span /\ stored' = stored
      /\ IF read THEN profile' = Learned(kw, dt) ELSE profile' = profile
      /\ touched' = [s \in Slots |->
                       IF \E r \in QuarterAt(time) .. now : Slot(r) = s
                         THEN touched[s] \cup {kw} ELSE touched[s]]
  BY <1>1 DEF SampleOf
<1>3. time \in Nat /\ touched \in [Slots -> SUBSET Nat] /\ profile \in Profiles /\ kw \in Nat
  BY MetersAssumption DEF LoadsInv, LoadTypes, Profiles
<1>4. time' \in Nat
  BY <1>2, <1>3, MetersAssumption
<1>5. q \in Nat /\ QuarterAt(time) <= q /\ q <= now /\ QuarterAt(time) \in Int /\ now \in Int
  <2>1. Spans(QuarterNow, QuarterNow', q, QuarterAt(time), PeriodNow, PeriodNow',
              PeriodAt(time), PeriodAt(time'))
        /\ QuarterNow' = now /\ QuarterAt(time) <= q
    BY <1>2, <1>3, SampleSpans
  <2>2. QuarterAt(time) \in Int
    BY <1>3, QuotientNat, MetersAssumption DEF QuarterAt
  <2> QED
    BY <2>1, <2>2 DEF Spans
<1>6. dt \in Nat \ {0}
  BY <1>2, <1>3, EnergyOfSample
<1>7. D \in Nat
  <2> HIDE DEF dt
  <2> QED
    BY <1>3, <1>6, SMTT(30)
<1> HIDE DEF dt, D, q, now
<1>8. /\ touched' \in [Slots -> SUBSET Nat]
      /\ \A s \in Slots : touched[s] \subseteq touched'[s]
      /\ Slot(q) \in Slots /\ kw \in touched'[Slot(q)]
  <2>1. touched' \in [Slots -> SUBSET Nat] /\ \A s \in Slots : touched[s] \subseteq touched'[s]
    BY <1>2, <1>3
  <2>2. q \in QuarterAt(time) .. now /\ Slot(q) \in Slots
    BY <1>5, SlotOfQuarter
  <2> QED
    BY <2>1, <2>2, <1>2
<1>9. AllTouched \subseteq AllTouched'
  BY <1>8 DEF AllTouched
<1>10. ASSUME NEW m \in [Slots -> Int \cup {Nil}], MeansWithin(m)
       PROVE  \A s \in Slots : m[s] # Nil => Within(m[s], touched'[s])
  <2> TAKE s \in Slots
  <2>1. SUFFICES ASSUME m[s] # Nil PROVE Within(m[s], touched'[s])
    OBVIOUS
  <2>2. m[s] \in Int /\ Within(m[s], touched[s])
    BY <2>1, <1>10 DEF MeansWithin
  <2> QED
    BY <2>2, <1>8, WithinMoreLoads
<1>11. stored' # Nil => /\ stored'.mean \in [Slots -> Int \cup {Nil}]
                        /\ \A s \in Slots : stored'.mean[s] # Nil => Within(stored'.mean[s], touched'[s])
  BY <1>2, <1>10 DEF LoadsInv, LoadTypes
<1>12. \A l \in Int : Within(l, AllTouched) => Within(l, AllTouched')
  BY <1>9, WithinMoreLoads
<1> DEFINE c == profile.current
           d == profile'.current
<1>13. c # Nil => /\ c \in [q : Nat, e : Nat, secs : Nat] /\ c.secs > 0
                  /\ Slot(c.q) \in Slots /\ MeanWithin(c.e, c.secs, touched[Slot(c.q)])
                  /\ MeanWithin(c.e, c.secs, touched'[Slot(c.q)])
  <2>1. SUFFICES ASSUME c # Nil
                 PROVE  /\ c \in [q : Nat, e : Nat, secs : Nat] /\ c.secs > 0
                        /\ Slot(c.q) \in Slots /\ MeanWithin(c.e, c.secs, touched[Slot(c.q)])
                        /\ MeanWithin(c.e, c.secs, touched'[Slot(c.q)])
    OBVIOUS
  <2>2. /\ c \in [q : Nat, e : Nat, secs : Nat] /\ c.secs > 0
        /\ MeanWithin(c.e, c.secs, touched[Slot(c.q)])
    BY <2>1 DEF LoadsInv, LoadTypes
  <2>3. Slot(c.q) \in Slots
    BY <2>2, SlotOfQuarter
  <2> QED
    BY <2>2, <2>3, <1>8, MeanWithinMore
<1>14. /\ profile.mean \in [Slots -> Int \cup {Nil}] /\ MeansWithin(profile.mean)
       /\ profile.last \in Int \cup {Nil} /\ (profile.last # Nil => Within(profile.last, AllTouched))
  BY DEF LoadsInv, LoadTypes
<1>15. /\ profile' \in Profiles
       /\ \A s \in Slots : profile'.mean[s] # Nil => Within(profile'.mean[s], touched'[s])
       /\ profile'.last # Nil => Within(profile'.last, AllTouched')
       /\ d # Nil => d.secs > 0 /\ MeanWithin(d.e, d.secs, touched'[Slot(d.q)])
  <2>1. CASE ~read
    BY <2>1, <1>2, <1>3, <1>10, <1>12, <1>13, <1>14
  <2>2. CASE read /\ c # Nil /\ c.q = q
    <3>1. profile' = [profile EXCEPT !.current.e = @ + D, !.current.secs = @ + dt]
      BY <2>2, <1>2, <1>6 DEF Learned, D, q
    <3>2. /\ profile'.mean = profile.mean /\ profile'.last = profile.last
          /\ d = [q |-> q, e |-> c.e + D, secs |-> c.secs + dt]
          /\ profile' \in Profiles
      <4>1. c \in [q : Nat, e : Nat, secs : Nat] /\ c.q = q
        BY <2>2, <1>13
      <4>2. c.e + D \in Nat /\ c.secs + dt \in Nat
        BY <4>1, <1>6, <1>7
      <4>3. profile' = [profile EXCEPT !.current = [q |-> q, e |-> c.e + D, secs |-> c.secs + dt]]
        <5> DEFINE r == [profile EXCEPT !.current = [c EXCEPT !.e = @ + D]]
        <5>1. r \in Profiles /\ r.current = [c EXCEPT !.e = @ + D] /\ r.mean = profile.mean
              /\ r.last = profile.last
          BY <4>1, <4>2, <1>3 DEF Profiles
        <5>2. profile' = [r EXCEPT !.current = [[c EXCEPT !.e = @ + D] EXCEPT !.secs = @ + dt]]
          BY <3>1, <4>1, <1>3 DEF Profiles
        <5>3. [[c EXCEPT !.e = @ + D] EXCEPT !.secs = @ + dt] =
                [q |-> q, e |-> c.e + D, secs |-> c.secs + dt]
          <6> HIDE DEF c
          <6>1. PICK a \in Nat, b \in Nat : c = [q |-> q, e |-> a, secs |-> b]
            BY <4>1
          <6>2. [c EXCEPT !.e = @ + D] = [q |-> q, e |-> a + D, secs |-> b]
            BY <6>1
          <6>3. ASSUME NEW n \in Nat
                PROVE  [[q |-> q, e |-> n, secs |-> b] EXCEPT !.secs = @ + dt] =
                         [q |-> q, e |-> n, secs |-> b + dt]
            OBVIOUS
          <6>4. a + D \in Nat
            BY <6>1, <1>7
          <6>5. [[c EXCEPT !.e = @ + D] EXCEPT !.secs = @ + dt] =
                  [q |-> q, e |-> a + D, secs |-> b + dt]
            BY <6>2, <6>3, <6>4, Zenon
          <6>6. c.e = a /\ c.secs = b
            BY <6>1
          <6> QED
            BY <6>5, <6>6
        <5> QED
          BY <5>1, <5>2, <5>3, <1>3 DEF Profiles
      <4> QED
        BY <4>2, <4>3, <1>3, <1>5 DEF Profiles
    <3>3. MeanWithin(c.e + D, c.secs + dt, touched'[Slot(q)])
      <4>1. touched[Slot(q)] \in SUBSET Nat /\ touched'[Slot(q)] \in SUBSET Nat
        BY <1>3, <1>8
      <4> QED
        BY <4>1, <2>2, <1>3, <1>6, <1>8, <1>13, MeanWithOneMore DEF D
    <3>4. d.e = c.e + D /\ d.secs = c.secs + dt /\ d.q = q /\ d.secs > 0
      BY <3>2, <2>2, <1>6, <1>13
    <3>5. d # Nil => d.secs > 0 /\ MeanWithin(d.e, d.secs, touched'[Slot(d.q)])
      BY <3>3, <3>4
    <3> HIDE DEF d
    <3> QED
      BY <3>2, <3>5, <1>10, <1>12, <1>14
  <2>3. CASE read /\ ~(c # Nil /\ c.q = q)
    <3> DEFINE p == Closed(profile)
    <3>1. profile' = [p EXCEPT !.current = [q |-> q, e |-> D, secs |-> dt]]
      BY <2>3, <1>2, <1>6 DEF Learned, D, q
    <3>2. /\ p \in Profiles /\ MeansWithin(p.mean)
          /\ p.last # Nil => Within(p.last, AllTouched)
      BY ClosedWithin
    <3> HIDE DEF p
    <3>3. /\ profile' \in Profiles /\ profile'.mean = p.mean /\ profile'.last = p.last
          /\ d = [q |-> q, e |-> D, secs |-> dt]
          /\ p.mean \in [Slots -> Int \cup {Nil}] /\ p.last \in Int \cup {Nil}
      BY <3>1, <3>2, <1>5, <1>6, <1>7 DEF Profiles
    <3>4. MeanWithin(D, dt, touched'[Slot(q)])
      BY <1>3, <1>6, <1>8, MeanOfOne DEF D
    <3>5. d # Nil => d.secs > 0 /\ MeanWithin(d.e, d.secs, touched'[Slot(d.q)])
      BY <3>3, <3>4, <1>6
    <3> HIDE DEF d
    <3> QED
      BY <3>2, <3>3, <3>5, <1>10, <1>12
  <2> QED
    BY <2>1, <2>2, <2>3
<1>16. LoadTypes'
  BY <1>8, <1>11, <1>15 DEF LoadTypes, Profiles
<1> QED
  BY <1>4, <1>11, <1>15, <1>16 DEF LoadsInv, MeansWithin

LEMMA SaveKeepsLoads ==
  ASSUME LoadsInv, SaveMeters
  PROVE  LoadsInv'
<1>1. /\ stored' = [period |-> peak.period, high |-> peak.high, mean |-> profile.mean]
      /\ UNCHANGED <<time, profile, touched>>
  BY DEF SaveMeters
<1>2. stored'.mean = profile.mean
  BY <1>1
<1>3. LoadTypes'
  BY <1>1, <1>2 DEF LoadsInv, LoadTypes
<1> QED
  BY <1>1, <1>2, <1>3 DEF LoadsInv, MeansWithin, AllTouched

LEMMA RestartKeepsLoads ==
  ASSUME LoadsInv, RestartMeters
  PROVE  LoadsInv'
<1> DEFINE m == IF stored = Nil THEN [s \in Slots |-> Nil] ELSE stored.mean
<1>1. /\ profile' = [mean |-> m, last |-> Nil, current |-> Nil]
      /\ UNCHANGED <<time, stored, touched>>
  BY DEF RestartMeters
<1>2. m \in [Slots -> Int \cup {Nil}] /\ MeansWithin(m)
  BY DEF LoadsInv, LoadTypes, MeansWithin
<1> HIDE DEF m
<1>3. profile'.mean = m /\ profile'.last = Nil /\ profile'.current = Nil
  BY <1>1
<1>4. LoadTypes'
  BY <1>1, <1>2 DEF LoadsInv, LoadTypes
<1> QED
  BY <1>1, <1>2, <1>3, <1>4 DEF LoadsInv, MeansWithin, AllTouched

-----------------------------------------------------------------------------
\* Peak and profile are of loads metered in their time.

LEMMA PeakInvMeans ==
  ASSUME PeakInv
  PROVE  PeakIsOfThePeriod
<1>1. SUFFICES ASSUME Metering # Nil, Metering.q = (time - 1) \div QuarterLen,
                      peak.period = Metering.q \div PeriodLen
               PROVE  least - Slack <= peak.high /\ peak.high <= most + Slack
  BY DEF PeakIsOfThePeriod, Metering
<1>2. Metering.q = QuarterNow /\ peak.period = PeriodNow
  BY <1>1 DEF PeakInv, EnergyMetered, QuarterNow, PeriodNow
<1>3. Metering.q \in Nat
  BY <1>1 DEF PeakInv, MeterTypes, Metering
<1> QED
  BY <1>2, <1>3 DEF PeakInv, CountedNotAbove, CountedNotBelow

LEMMA LoadsInvMeans ==
  ASSUME LoadsInv
  PROVE  ExpectedWasSeen
<1>1. \A s \in Slots : profile.mean[s] # Nil =>
        Within(profile.mean[s], touched[s]) /\ profile.mean[s] \in Int /\ touched[s] \subseteq AllTouched
  BY DEF LoadsInv, LoadTypes, MeansWithin, AllTouched
<1>2. profile.last # Nil => Within(profile.last, AllTouched)
  BY DEF LoadsInv
<1>3. SUFFICES ASSUME NEW s \in Slots
               PROVE  /\ profile.mean[s] # Nil => Within(ExpectedLoad(s), touched[s])
                      /\ profile.mean[s] = Nil /\ profile.mean[OtherDay(s)] # Nil =>
                           Within(ExpectedLoad(s), touched[OtherDay(s)])
                      /\ ExpectedLoad(s) # Nil => Within(ExpectedLoad(s), AllTouched)
  BY DEF ExpectedWasSeen, AllTouched
<1>4. CASE profile.mean[s] # Nil
  <2>1. ExpectedLoad(s) = profile.mean[s]
    BY <1>4 DEF ExpectedLoad
  <2> QED
    BY <2>1, <1>1, <1>4, WithinMoreLoads
<1>5. CASE profile.mean[s] = Nil /\ profile.mean[OtherDay(s)] # Nil
  <2>1. ExpectedLoad(s) = profile.mean[OtherDay(s)]
    BY <1>5 DEF ExpectedLoad
  <2> QED
    BY <2>1, <1>1, <1>5, OtherDayOfSlot, WithinMoreLoads
<1>6. CASE profile.mean[s] = Nil /\ profile.mean[OtherDay(s)] = Nil
  <2>1. ExpectedLoad(s) = profile.last
    BY <1>6 DEF ExpectedLoad
  <2> QED
    BY <2>1, <1>2, <1>6
<1> QED
  BY <1>4, <1>5, <1>6

\* Between a quarter that straddling samples blur and a kill that forgets what
\* was not saved, the peak that a demand charge is reckoned with is that of the
\* billing period, give or take a sample, and what is expected of a quarter of
\* the day lies between loads that were metered in it (QuarterPeak and
\* BaseLoadProfile of meters.rs, Ems::observe and Ems::new): for all lengths of
\* a quarter, a day and a period, all powers and all times between samples.
THEOREM MetersAreAlwaysTrue ==
  MeterInit /\ [][MeterNext]_metervars => []MetersAreTrue
<1>1. MeterInit => PeakInv /\ LoadsInv
  <2>1. SUFFICES ASSUME MeterInit PROVE PeakInv /\ LoadsInv
    OBVIOUS
  <2>2. /\ time = 0 /\ peak.period = 0 /\ peak.high = 0 /\ Metering = Nil /\ stored = Nil
        /\ energy = 0 /\ seen_all = TRUE /\ least = 0 /\ most = 0
        /\ peak \in [period : Nat, high : Nat, current : [q : Nat, e : Nat] \cup {Nil}]
    BY <2>1 DEF MeterInit, Metering
  <2>3. QuarterNow = 0 /\ PeriodNow = 0 /\ PeriodAt(time) = 0
    <3>1. 0 \div QuarterLen = 0 /\ 0 \div PeriodLen = 0
      BY MetersAssumption, QuotientIs
    <3> QED
      BY <3>1, <2>2 DEF QuarterNow, PeriodNow, PeriodAt, QuarterAt
  <2>4. PeakInv
    BY <2>2, <2>3, HighestPower
    DEF PeakInv, MeterTypes, EnergyMetered, CountedNotAbove, CountedNotBelow, SavedNotAbove
  <2>5. LoadsInv
    BY <2>1, <2>2 DEF MeterInit, LoadsInv, LoadTypes, MeansWithin
  <2> QED
    BY <2>4, <2>5
<1>2. PeakInv /\ LoadsInv /\ [MeterNext]_metervars => (PeakInv /\ LoadsInv)'
  <2>1. SUFFICES ASSUME PeakInv, LoadsInv, [MeterNext]_metervars PROVE PeakInv' /\ LoadsInv'
    OBVIOUS
  <2>2. CASE Sample
    BY <2>1, <2>2, SampleKeepsPeak, SampleKeepsLoads
  <2>3. CASE SaveMeters
    BY <2>1, <2>3, SaveKeepsPeak, SaveKeepsLoads
  <2>4. CASE RestartMeters
    BY <2>1, <2>4, RestartKeepsPeak, RestartKeepsLoads
  <2>5. CASE UNCHANGED metervars
    <3>1. /\ UNCHANGED <<time, peak, profile, stored, energy, seen_all, least, most, touched>>
      BY <2>5 DEF metervars
    <3>2. QuarterNow' = QuarterNow /\ PeriodNow' = PeriodNow /\ PeriodAt(time)' = PeriodAt(time)
          /\ Metering' = Metering
      BY <3>1 DEF QuarterNow, PeriodNow, PeriodAt, QuarterAt, Metering
    <3>3. PeakInv'
      BY <2>1, <3>1, <3>2 DEF PeakInv, MeterTypes, EnergyMetered, CountedNotAbove, CountedNotBelow,
         SavedNotAbove, Slack
    <3>4. LoadsInv'
      BY <2>1, <3>1 DEF LoadsInv, LoadTypes, MeansWithin, AllTouched
    <3> QED
      BY <3>3, <3>4
  <2> QED
    BY <2>1, <2>2, <2>3, <2>4, <2>5 DEF MeterNext, MetersDone
<1>3. PeakInv /\ LoadsInv => MetersAreTrue
  BY PeakInvMeans, LoadsInvMeans DEF MetersAreTrue
<1> QED
  BY <1>1, <1>2, <1>3, PTL

-----------------------------------------------------------------------------
\* Dates.

\* The 1 March of a year, and the days from it to the first of a month.
FirstOfMarch(y) ==
  (y \div 400) * 146097 + (y % 400) * 365 + (y % 400) \div 4 - (y % 400) \div 100 - 719468

DaysBefore(m) == (153 * (IF m > 2 THEN m - 3 ELSE m + 9) + 2) \div 5

YearFromMarch(y, m) == IF m <= 2 THEN y - 1 ELSE y

IsDate(y, m, d) == y \in Nat /\ m \in 1 .. 12 /\ d \in 1 .. LengthOf(y, m)

LEMMA DaysFromMarch ==
  ASSUME NEW y \in Nat, NEW m \in 1 .. 12, NEW d \in Int
  PROVE  /\ DaysFromCivil(y, m, d) = FirstOfMarch(YearFromMarch(y, m)) + DaysBefore(m) + d - 1
         /\ FirstOfMarch(y) \in Int /\ DaysBefore(m) \in Int
         /\ FirstOfMarch(YearFromMarch(y, m)) \in Int
BY DEF DaysFromCivil, FirstOfMarch, DaysBefore, YearFromMarch

LEMMA DaysBeforeIs ==
  /\ DaysBefore(3) = 0 /\ DaysBefore(4) = 31 /\ DaysBefore(5) = 61 /\ DaysBefore(6) = 92
  /\ DaysBefore(7) = 122 /\ DaysBefore(8) = 153 /\ DaysBefore(9) = 184 /\ DaysBefore(10) = 214
  /\ DaysBefore(11) = 245 /\ DaysBefore(12) = 275 /\ DaysBefore(1) = 306 /\ DaysBefore(2) = 337
BY DEF DaysBefore

\* A year in parts, and its first of March.
Parts(y, era, c, q, r) ==
  /\ y \in Int /\ era \in Int /\ c \in Int /\ q \in Int /\ r \in Int
  /\ 0 <= c /\ c <= 3 /\ 0 <= q /\ q <= 24 /\ 0 <= r /\ r <= 3
  /\ y = 400 * era + 100 * c + 4 * q + r

March(era, c, q, r) == 146097 * era + 36524 * c + 1461 * q + 365 * r - 719468

\* The parts of a year: of the 400 years, the century, the leap cycle, the year.
LEMMA YearParts ==
  ASSUME NEW y \in Int
  PROVE  \E era, c, q, r \in Int : Parts(y, era, c, q, r)
<1> DEFINE k == y % 400
           era == y \div 400
           c == k \div 100
           q == (k % 100) \div 4
           r == k % 4
<1>1. era \in Int /\ k \in 0 .. 399 /\ y = 400 * era + k
  OBVIOUS
<1> HIDE DEF k, era
<1> DEFINE h == k % 100
<1>2. c \in 0 .. 3 /\ h \in 0 .. 99 /\ k = 100 * c + h
  BY <1>1
<1>3. q \in 0 .. 24 /\ h % 4 \in 0 .. 3 /\ h = 4 * q + (h % 4)
  <2> HIDE DEF c, h
  <2>1. h \div 4 \in 0 .. 24 /\ h % 4 \in 0 .. 3 /\ h = 4 * (h \div 4) + (h % 4)
    BY <1>2
  <2> QED
    BY <2>1 DEF h
<1>4. r = h % 4
  <2> HIDE DEF c, h
  <2> QED
    BY <1>1, <1>2
<1> HIDE DEF c, h, q, r
<1>5. era \in Int /\ c \in Int /\ q \in Int /\ r \in Int
  BY <1>1, <1>2, <1>3, <1>4
<1>6. Parts(y, era, c, q, r)
  BY <1>1, <1>2, <1>3, <1>4 DEF Parts
<1> QED
  BY <1>5, <1>6

LEMMA FirstOfMarchIs ==
  ASSUME NEW y \in Int, NEW era \in Int, NEW c \in Int, NEW q \in Int, NEW r \in Int,
         Parts(y, era, c, q, r)
  PROVE  FirstOfMarch(y) = March(era, c, q, r)
<1>0. /\ y \in Int /\ era \in Int /\ c \in Int /\ q \in Int /\ r \in Int
      /\ 0 <= c /\ c <= 3 /\ 0 <= q /\ q <= 24 /\ 0 <= r /\ r <= 3
      /\ y = 400 * era + 100 * c + 4 * q + r
  BY DEF Parts
<1>1. y \div 400 = era /\ y % 400 = 100 * c + 4 * q + r
  BY <1>0
<1>2. (100 * c + 4 * q + r) \div 4 = 25 * c + q /\ (100 * c + 4 * q + r) \div 100 = c
  BY <1>0
<1> QED
  BY <1>0, <1>1, <1>2 DEF FirstOfMarch, March

\* A leap day is at the end of a year that begins in March.
LEMMA LeapParts ==
  ASSUME NEW y \in Int, NEW era \in Int, NEW c \in Int, NEW q \in Int, NEW r \in Int,
         Parts(y, era, c, q, r)
  PROVE  IsLeap(y + 1) <=> r = 3 /\ (q = 24 => c = 3)
<1>0. /\ y \in Int /\ era \in Int /\ c \in Int /\ q \in Int /\ r \in Int
      /\ 0 <= c /\ c <= 3 /\ 0 <= q /\ q <= 24 /\ 0 <= r /\ r <= 3
      /\ y = 400 * era + 100 * c + 4 * q + r
  BY DEF Parts
<1>1. (y + 1) % 4 = 0 <=> r = 3
  BY <1>0
<1>2. r = 3 => ((y + 1) % 100 = 0 <=> q = 24)
  BY <1>0
<1>3. r = 3 /\ q = 24 => ((y + 1) % 400 = 0 <=> c = 3)
  BY <1>0
<1> QED
  BY <1>1, <1>2, <1>3 DEF IsLeap

\* From one March to the next.
LEMMA NextMarch ==
  ASSUME NEW y \in Int
  PROVE  FirstOfMarch(y + 1) = FirstOfMarch(y) + (IF IsLeap(y + 1) THEN 366 ELSE 365)
<1>1. PICK era, c, q, r \in Int : Parts(y, era, c, q, r)
  BY YearParts
<1>2. /\ y \in Int /\ era \in Int /\ c \in Int /\ q \in Int /\ r \in Int
      /\ 0 <= c /\ c <= 3 /\ 0 <= q /\ q <= 24 /\ 0 <= r /\ r <= 3
      /\ y = 400 * era + 100 * c + 4 * q + r
  BY <1>1 DEF Parts
<1>3. FirstOfMarch(y) = March(era, c, q, r)
  BY <1>1, FirstOfMarchIs
<1>4. IsLeap(y + 1) <=> r = 3 /\ (q = 24 => c = 3)
  BY <1>1, LeapParts
<1>5. CASE r # 3
  <2>1. Parts(y + 1, era, c, q, r + 1)
    BY <1>2, <1>5 DEF Parts
  <2>2. FirstOfMarch(y + 1) = March(era, c, q, r + 1)
    BY <2>1, FirstOfMarchIs
  <2> QED
    BY <1>2, <1>3, <1>4, <1>5, <2>2 DEF March
<1>6. CASE r = 3 /\ q # 24
  <2>1. Parts(y + 1, era, c, q + 1, 0)
    BY <1>2, <1>6 DEF Parts
  <2>2. FirstOfMarch(y + 1) = March(era, c, q + 1, 0)
    BY <2>1, FirstOfMarchIs
  <2> QED
    BY <1>2, <1>3, <1>4, <1>6, <2>2 DEF March
<1>7. CASE r = 3 /\ q = 24 /\ c # 3
  <2>1. Parts(y + 1, era, c + 1, 0, 0)
    BY <1>2, <1>7 DEF Parts
  <2>2. FirstOfMarch(y + 1) = March(era, c + 1, 0, 0)
    BY <2>1, FirstOfMarchIs
  <2> QED
    BY <1>2, <1>3, <1>4, <1>7, <2>2 DEF March
<1>8. CASE r = 3 /\ q = 24 /\ c = 3
  <2>1. Parts(y + 1, era + 1, 0, 0, 0)
    BY <1>2, <1>8 DEF Parts
  <2>2. FirstOfMarch(y + 1) = March(era + 1, 0, 0, 0)
    BY <2>1, FirstOfMarchIs
  <2> QED
    BY <1>2, <1>3, <1>4, <1>8, <2>2 DEF March
<1> QED
  BY <1>5, <1>6, <1>7, <1>8

\* How many days a month has before the next begins.
LEMMA MonthLengths ==
  ASSUME NEW y \in Int, NEW m \in 1 .. 12
  PROVE  /\ LengthOf(y, m) \in 28 .. 31
         /\ m # 2 /\ m # 12 => DaysBefore(m) + LengthOf(y, m) = DaysBefore(m + 1)
         /\ m = 12 => LengthOf(y, m) = 31
         /\ m = 2 => DaysBefore(m) + LengthOf(y, m) = IF IsLeap(y) THEN 366 ELSE 365
<1>1. /\ \A k \in {1, 3, 5, 7, 8, 10, 12} : LengthOf(y, k) = 31
      /\ \A k \in {4, 6, 9, 11} : LengthOf(y, k) = 30
      /\ LengthOf(y, 2) = IF IsLeap(y) THEN 29 ELSE 28
  BY DEF LengthOf
<1>2. m \in {1, 2, 3, 4, 5, 6, 7, 8, 9, 10, 11, 12}
  OBVIOUS
<1> QED
  BY <1>1, <1>2, DaysBeforeIs

\* The day of a year that begins in March, and the month it is in.
DayFromMarch(m, d) == DaysBefore(m) + d - 1
MonthFromMarch(doy) == (5 * doy + 2) \div 153

LEMMA DayOfYear ==
  ASSUME NEW y \in Nat, NEW m \in 1 .. 12, NEW d \in 1 .. LengthOf(y, m)
  PROVE  LET doy == DayFromMarch(m, d)
             mp == MonthFromMarch(doy)
         IN  /\ doy \in Int /\ 0 <= doy /\ doy <= 365 /\ mp \in Int
             /\ doy = 365 => IsLeap(YearFromMarch(y, m) + 1)
             /\ m = IF mp < 10 THEN mp + 3 ELSE mp - 9
             /\ d = doy - (153 * mp + 2) \div 5 + 1
<1> DEFINE doy == DayFromMarch(m, d)
           mp == MonthFromMarch(doy)
<1>0. doy \in Int /\ doy = DaysBefore(m) + d - 1 /\ mp \in Int /\ mp = (5 * doy + 2) \div 153
  <2>1. DaysBefore(m) \in Int /\ d \in Int
    BY DEF DaysBefore
  <2>2. doy \in Int /\ doy = DaysBefore(m) + d - 1
    BY <2>1 DEF DayFromMarch
  <2> HIDE DEF doy
  <2>3. mp \in Int /\ mp = (5 * doy + 2) \div 153
    BY <2>2 DEF MonthFromMarch
  <2> QED
    BY <2>2, <2>3
<1> HIDE DEF doy, mp
<1>1. /\ \A k \in {1, 3, 5, 7, 8, 10, 12} : LengthOf(y, k) = 31
      /\ \A k \in {4, 6, 9, 11} : LengthOf(y, k) = 30
      /\ LengthOf(y, 2) = IF IsLeap(y) THEN 29 ELSE 28
  BY DEF LengthOf
<1>2. d \in Int /\ DaysBefore(m) \in Int
  BY DEF DaysBefore
<1> DEFINE Right == /\ m = IF mp < 10 THEN mp + 3 ELSE mp - 9
                    /\ d = doy - (153 * mp + 2) \div 5 + 1
<1>3. ASSUME NEW p \in 0 .. 11, m = IF p < 10 THEN p + 3 ELSE p - 9,
             (153 * p + 2) \div 5 = DaysBefore(m),
             153 * p <= 5 * doy + 2, 5 * doy + 2 < 153 * p + 153
      PROVE  Right
  <2>1. doy \in Int /\ d = doy - DaysBefore(m) + 1
    BY <1>0, <1>2
  <2>2. mp = p
    BY <1>0, <1>3, <2>1
  <2> QED
    BY <1>0, <1>3, <2>1, <2>2 DEF Right
<1> HIDE DEF Right
<1> DEFINE All == 0 <= doy /\ doy <= 365 /\ (doy = 365 => IsLeap(YearFromMarch(y, m) + 1)) /\ Right
<1>4. ASSUME m = 3 PROVE All
  <2>1. DaysBefore(m) = 0 /\ d \in 1 .. 31
    BY <1>1, <1>4, DaysBeforeIs
  <2>2. 0 \in 0 .. 11 /\ (153 * 0 + 2) \div 5 = 0
    OBVIOUS
  <2>3. 153 * 0 <= 5 * doy + 2 /\ 5 * doy + 2 < 153 * 0 + 153 /\ doy \in 0 .. 365
        /\ (doy = 365 => FALSE)
    BY <1>0, <2>1
  <2>4. doy = 365 => IsLeap(YearFromMarch(y, m) + 1)
    BY <2>3
  <2>5. Right
    BY <1>3, <1>4, <2>1, <2>2, <2>3
  <2>6. 0 <= doy /\ doy <= 365
    BY <2>3
  <2> QED
    BY <2>4, <2>5, <2>6
<1>5. ASSUME m = 4 PROVE All
  <2>1. DaysBefore(m) = 31 /\ d \in 1 .. 30
    BY <1>1, <1>5, DaysBeforeIs
  <2>2. 1 \in 0 .. 11 /\ (153 * 1 + 2) \div 5 = 31
    OBVIOUS
  <2>3. 153 * 1 <= 5 * doy + 2 /\ 5 * doy + 2 < 153 * 1 + 153 /\ doy \in 0 .. 365
        /\ (doy = 365 => FALSE)
    BY <1>0, <2>1
  <2>4. doy = 365 => IsLeap(YearFromMarch(y, m) + 1)
    BY <2>3
  <2>5. Right
    BY <1>3, <1>5, <2>1, <2>2, <2>3
  <2>6. 0 <= doy /\ doy <= 365
    BY <2>3
  <2> QED
    BY <2>4, <2>5, <2>6
<1>6. ASSUME m = 5 PROVE All
  <2>1. DaysBefore(m) = 61 /\ d \in 1 .. 31
    BY <1>1, <1>6, DaysBeforeIs
  <2>2. 2 \in 0 .. 11 /\ (153 * 2 + 2) \div 5 = 61
    OBVIOUS
  <2>3. 153 * 2 <= 5 * doy + 2 /\ 5 * doy + 2 < 153 * 2 + 153 /\ doy \in 0 .. 365
        /\ (doy = 365 => FALSE)
    BY <1>0, <2>1
  <2>4. doy = 365 => IsLeap(YearFromMarch(y, m) + 1)
    BY <2>3
  <2>5. Right
    BY <1>3, <1>6, <2>1, <2>2, <2>3
  <2>6. 0 <= doy /\ doy <= 365
    BY <2>3
  <2> QED
    BY <2>4, <2>5, <2>6
<1>7. ASSUME m = 6 PROVE All
  <2>1. DaysBefore(m) = 92 /\ d \in 1 .. 30
    BY <1>1, <1>7, DaysBeforeIs
  <2>2. 3 \in 0 .. 11 /\ (153 * 3 + 2) \div 5 = 92
    OBVIOUS
  <2>3. 153 * 3 <= 5 * doy + 2 /\ 5 * doy + 2 < 153 * 3 + 153 /\ doy \in 0 .. 365
        /\ (doy = 365 => FALSE)
    BY <1>0, <2>1
  <2>4. doy = 365 => IsLeap(YearFromMarch(y, m) + 1)
    BY <2>3
  <2>5. Right
    BY <1>3, <1>7, <2>1, <2>2, <2>3
  <2>6. 0 <= doy /\ doy <= 365
    BY <2>3
  <2> QED
    BY <2>4, <2>5, <2>6
<1>8. ASSUME m = 7 PROVE All
  <2>1. DaysBefore(m) = 122 /\ d \in 1 .. 31
    BY <1>1, <1>8, DaysBeforeIs
  <2>2. 4 \in 0 .. 11 /\ (153 * 4 + 2) \div 5 = 122
    OBVIOUS
  <2>3. 153 * 4 <= 5 * doy + 2 /\ 5 * doy + 2 < 153 * 4 + 153 /\ doy \in 0 .. 365
        /\ (doy = 365 => FALSE)
    BY <1>0, <2>1
  <2>4. doy = 365 => IsLeap(YearFromMarch(y, m) + 1)
    BY <2>3
  <2>5. Right
    BY <1>3, <1>8, <2>1, <2>2, <2>3
  <2>6. 0 <= doy /\ doy <= 365
    BY <2>3
  <2> QED
    BY <2>4, <2>5, <2>6
<1>9. ASSUME m = 8 PROVE All
  <2>1. DaysBefore(m) = 153 /\ d \in 1 .. 31
    BY <1>1, <1>9, DaysBeforeIs
  <2>2. 5 \in 0 .. 11 /\ (153 * 5 + 2) \div 5 = 153
    OBVIOUS
  <2>3. 153 * 5 <= 5 * doy + 2 /\ 5 * doy + 2 < 153 * 5 + 153 /\ doy \in 0 .. 365
        /\ (doy = 365 => FALSE)
    BY <1>0, <2>1
  <2>4. doy = 365 => IsLeap(YearFromMarch(y, m) + 1)
    BY <2>3
  <2>5. Right
    BY <1>3, <1>9, <2>1, <2>2, <2>3
  <2>6. 0 <= doy /\ doy <= 365
    BY <2>3
  <2> QED
    BY <2>4, <2>5, <2>6
<1>10. ASSUME m = 9 PROVE All
  <2>1. DaysBefore(m) = 184 /\ d \in 1 .. 30
    BY <1>1, <1>10, DaysBeforeIs
  <2>2. 6 \in 0 .. 11 /\ (153 * 6 + 2) \div 5 = 184
    OBVIOUS
  <2>3. 153 * 6 <= 5 * doy + 2 /\ 5 * doy + 2 < 153 * 6 + 153 /\ doy \in 0 .. 365
        /\ (doy = 365 => FALSE)
    BY <1>0, <2>1
  <2>4. doy = 365 => IsLeap(YearFromMarch(y, m) + 1)
    BY <2>3
  <2>5. Right
    BY <1>3, <1>10, <2>1, <2>2, <2>3
  <2>6. 0 <= doy /\ doy <= 365
    BY <2>3
  <2> QED
    BY <2>4, <2>5, <2>6
<1>11. ASSUME m = 10 PROVE All
  <2>1. DaysBefore(m) = 214 /\ d \in 1 .. 31
    BY <1>1, <1>11, DaysBeforeIs
  <2>2. 7 \in 0 .. 11 /\ (153 * 7 + 2) \div 5 = 214
    OBVIOUS
  <2>3. 153 * 7 <= 5 * doy + 2 /\ 5 * doy + 2 < 153 * 7 + 153 /\ doy \in 0 .. 365
        /\ (doy = 365 => FALSE)
    BY <1>0, <2>1
  <2>4. doy = 365 => IsLeap(YearFromMarch(y, m) + 1)
    BY <2>3
  <2>5. Right
    BY <1>3, <1>11, <2>1, <2>2, <2>3
  <2>6. 0 <= doy /\ doy <= 365
    BY <2>3
  <2> QED
    BY <2>4, <2>5, <2>6
<1>12. ASSUME m = 11 PROVE All
  <2>1. DaysBefore(m) = 245 /\ d \in 1 .. 30
    BY <1>1, <1>12, DaysBeforeIs
  <2>2. 8 \in 0 .. 11 /\ (153 * 8 + 2) \div 5 = 245
    OBVIOUS
  <2>3. 153 * 8 <= 5 * doy + 2 /\ 5 * doy + 2 < 153 * 8 + 153 /\ doy \in 0 .. 365
        /\ (doy = 365 => FALSE)
    BY <1>0, <2>1
  <2>4. doy = 365 => IsLeap(YearFromMarch(y, m) + 1)
    BY <2>3
  <2>5. Right
    BY <1>3, <1>12, <2>1, <2>2, <2>3
  <2>6. 0 <= doy /\ doy <= 365
    BY <2>3
  <2> QED
    BY <2>4, <2>5, <2>6
<1>13. ASSUME m = 12 PROVE All
  <2>1. DaysBefore(m) = 275 /\ d \in 1 .. 31
    BY <1>1, <1>13, DaysBeforeIs
  <2>2. 9 \in 0 .. 11 /\ (153 * 9 + 2) \div 5 = 275
    OBVIOUS
  <2>3. 153 * 9 <= 5 * doy + 2 /\ 5 * doy + 2 < 153 * 9 + 153 /\ doy \in 0 .. 365
        /\ (doy = 365 => FALSE)
    BY <1>0, <2>1
  <2>4. doy = 365 => IsLeap(YearFromMarch(y, m) + 1)
    BY <2>3
  <2>5. Right
    BY <1>3, <1>13, <2>1, <2>2, <2>3
  <2>6. 0 <= doy /\ doy <= 365
    BY <2>3
  <2> QED
    BY <2>4, <2>5, <2>6
<1>14. ASSUME m = 1 PROVE All
  <2>1. DaysBefore(m) = 306 /\ d \in 1 .. 31
    BY <1>1, <1>14, DaysBeforeIs
  <2>2. 10 \in 0 .. 11 /\ (153 * 10 + 2) \div 5 = 306
    OBVIOUS
  <2>3. 153 * 10 <= 5 * doy + 2 /\ 5 * doy + 2 < 153 * 10 + 153 /\ doy \in 0 .. 365
        /\ (doy = 365 => FALSE)
    BY <1>0, <2>1
  <2>4. doy = 365 => IsLeap(YearFromMarch(y, m) + 1)
    BY <2>3
  <2>5. Right
    BY <1>3, <1>14, <2>1, <2>2, <2>3
  <2>6. 0 <= doy /\ doy <= 365
    BY <2>3
  <2> QED
    BY <2>4, <2>5, <2>6
<1>15. ASSUME m = 2 PROVE All
  <2>1. DaysBefore(m) = 337 /\ d \in 1 .. 29
    BY <1>1, <1>15, DaysBeforeIs
  <2>2. 11 \in 0 .. 11 /\ (153 * 11 + 2) \div 5 = 337
    OBVIOUS
  <2>3. 153 * 11 <= 5 * doy + 2 /\ 5 * doy + 2 < 153 * 11 + 153 /\ doy \in 0 .. 365
        /\ (doy = 365 => d = 29)
    BY <1>0, <2>1
  <2>4. doy = 365 => IsLeap(YearFromMarch(y, m) + 1)
    BY <1>1, <1>15, <2>3 DEF YearFromMarch
  <2>5. Right
    BY <1>3, <1>15, <2>1, <2>2, <2>3
  <2>6. 0 <= doy /\ doy <= 365
    BY <2>3
  <2> QED
    BY <2>4, <2>5, <2>6
<1>16. m \in {1, 2, 3, 4, 5, 6, 7, 8, 9, 10, 11, 12}
  OBVIOUS
<1>17. All
  <2> HIDE DEF All
  <2> QED
    BY <1>16, <1>4, <1>5, <1>6, <1>7, <1>8, <1>9, <1>10, <1>11, <1>12, <1>13, <1>14, <1>15
<1> QED
  BY <1>0, <1>17 DEF Right, doy, mp

\* The year is found again from the day of its 400 years.
LEMMA YearOfEra ==
  ASSUME NEW c \in Int, NEW q \in Int, NEW r \in Int, NEW doy \in Int, NEW doe \in Int,
         0 <= c, c <= 3, 0 <= q, q <= 24, 0 <= r, r <= 3, 0 <= doy, doy <= 365,
         doy = 365 => r = 3 /\ (q = 24 => c = 3),
         doe = 36524 * c + 1461 * q + 365 * r + doy
  PROVE  /\ 0 <= doe /\ doe <= 146096
         /\ (doe - doe \div 1460 + doe \div 36524 - doe \div 146096) \div 365
              = 100 * c + 4 * q + r
<1>1. 0 <= doe /\ doe <= 146096
  OBVIOUS
<1> DEFINE k == 100 * c + 4 * q + r
<1>2. PICK a \in Int : /\ doe \div 1460 = a
                       /\ a = (IF 24 * c + q + 365 * r + doy >= 1460 THEN 25 * c + q + 1 ELSE 25 * c + q)
  <2> DEFINE a == IF 24 * c + q + 365 * r + doy >= 1460 THEN 25 * c + q + 1 ELSE 25 * c + q
  <2>1. a \in Int /\ 1460 * a <= doe /\ doe < 1460 * a + 1460
    OBVIOUS
  <2> HIDE DEF a
  <2>2. doe \div 1460 = a
    BY <2>1
  <2> QED
    BY <2>1, <2>2 DEF a
<1>3. PICK b \in Int : doe \div 36524 = b /\ b = (IF doy = 365 /\ q = 24 THEN c + 1 ELSE c)
  <2> DEFINE b == IF doy = 365 /\ q = 24 THEN c + 1 ELSE c
  <2>1. b \in Int /\ 36524 * b <= doe /\ doe < 36524 * b + 36524
    OBVIOUS
  <2> HIDE DEF b
  <2>2. doe \div 36524 = b
    BY <2>1
  <2> QED
    BY <2>1, <2>2 DEF b
<1>4. PICK f \in Int : doe \div 146096 = f /\ f = (IF doy = 365 /\ q = 24 THEN 1 ELSE 0)
  <2> DEFINE f == IF doy = 365 /\ q = 24 THEN 1 ELSE 0
  <2>1. f \in Int /\ 146096 * f <= doe /\ doe < 146096 * f + 146096
    OBVIOUS
  <2> HIDE DEF f
  <2>2. doe \div 146096 = f
    BY <2>1
  <2> QED
    BY <2>1, <2>2 DEF f
<1>5. PICK z \in Int : z = doe - a + b - f
  OBVIOUS
<1>6. k \in Int /\ 365 * k <= z /\ z < 365 * k + 365
  BY <1>2, <1>3, <1>4, <1>5
<1>7. z \div 365 = k
  <2> HIDE DEF k
  <2> QED
    BY <1>6
<1> QED
  BY <1>1, <1>2, <1>3, <1>4, <1>5, <1>7

\* A date is found again from its day.
LEMMA DateOfDay ==
  ASSUME NEW y \in Nat, NEW m \in 1 .. 12, NEW d \in 1 .. LengthOf(y, m)
  PROVE  CivilFromDays(DaysFromCivil(y, m, d)) = [year |-> y, month |-> m, day |-> d]
<1> DEFINE w == YearFromMarch(y, m)
           doy == DayFromMarch(m, d)
           mp == MonthFromMarch(doy)
           days == DaysFromCivil(y, m, d)
<1>1. d \in Int /\ w \in Int
  BY DEF YearFromMarch
<1>2. /\ doy \in Int /\ 0 <= doy /\ doy <= 365 /\ mp \in Int /\ (doy = 365 => IsLeap(w + 1))
      /\ m = IF mp < 10 THEN mp + 3 ELSE mp - 9
      /\ d = doy - (153 * mp + 2) \div 5 + 1
  BY DayOfYear
<1> HIDE DEF mp
<1>3. days = FirstOfMarch(w) + doy
  <2>1. days = FirstOfMarch(w) + DaysBefore(m) + d - 1 /\ DaysBefore(m) \in Int /\ FirstOfMarch(w) \in Int
    BY <1>1, DaysFromMarch
  <2> HIDE DEF days, w
  <2> QED
    BY <1>1, <2>1 DEF DayFromMarch
<1> HIDE DEF doy
<1> HIDE DEF w, days
<1>4. PICK era, c, q, r \in Int : Parts(w, era, c, q, r)
  BY <1>1, YearParts
<1>5. /\ 0 <= c /\ c <= 3 /\ 0 <= q /\ q <= 24 /\ 0 <= r /\ r <= 3
      /\ w = 400 * era + 100 * c + 4 * q + r
  BY <1>4 DEF Parts
<1>6. FirstOfMarch(w) = March(era, c, q, r)
  BY <1>1, <1>4, FirstOfMarchIs
<1>7. doy = 365 => r = 3 /\ (q = 24 => c = 3)
  BY <1>1, <1>2, <1>4, LeapParts
<1> DEFINE doe == 36524 * c + 1461 * q + 365 * r + doy
           k == 100 * c + 4 * q + r
<1>8. /\ doe \in Int /\ 0 <= doe /\ doe <= 146096
      /\ (doe - doe \div 1460 + doe \div 36524 - doe \div 146096) \div 365 = k
  BY <1>2, <1>5, <1>7, YearOfEra
<1>9. k \div 4 = 25 * c + q /\ k \div 100 = c /\ k \in Int
  BY <1>5
<1>10. doe - (365 * k + k \div 4 - k \div 100) = doy
  <2>1. 365 * k + (25 * c + q) - c = 36524 * c + 1461 * q + 365 * r
    BY <1>5
  <2>2. k \div 4 \in Int /\ k \div 100 \in Int
    BY <1>5, <1>9
  <2> QED
    BY <1>2, <1>5, <1>9, <2>1, <2>2
<1>11. days + 719468 = 146097 * era + doe
  BY <1>2, <1>3, <1>5, <1>6 DEF March
<1>12. (days + 719468) \div 146097 = era /\ (days + 719468) % 146097 = doe
  <2> HIDE DEF doe
  <2> QED
    BY <1>5, <1>8, <1>11
<1>13. y = k + era * 400 + (IF m <= 2 THEN 1 ELSE 0)
  BY <1>1, <1>5 DEF w, YearFromMarch
<1> DEFINE m0 == IF mp < 10 THEN mp + 3 ELSE mp - 9
<1>14. CivilFromDays(days)
        = [year |-> k + era * 400 + (IF m0 <= 2 THEN 1 ELSE 0), month |-> m0,
           day |-> doy - (153 * mp + 2) \div 5 + 1]
  <2> HIDE DEF doe, k
  <2> QED
    BY <1>8, <1>10, <1>12 DEF CivilFromDays, mp, MonthFromMarch
<1> HIDE DEF k
<1> QED
  BY <1>2, <1>13, <1>14 DEF days

\* The day after a date.
NextDate(y, m, d) ==
  IF d < LengthOf(y, m) THEN [year |-> y, month |-> m, day |-> d + 1]
  ELSE IF m < 12 THEN [year |-> y, month |-> m + 1, day |-> 1]
  ELSE [year |-> y + 1, month |-> 1, day |-> 1]

LEMMA DayAfter ==
  ASSUME NEW y \in Nat, NEW m \in 1 .. 12, NEW d \in 1 .. LengthOf(y, m),
         NEW n, n = NextDate(y, m, d)
  PROVE  /\ IsDate(n.year, n.month, n.day)
         /\ DaysFromCivil(n.year, n.month, n.day) = DaysFromCivil(y, m, d) + 1
<1>1. d \in Int
  OBVIOUS
<1>2. /\ LengthOf(y, m) \in 28 .. 31
      /\ m # 2 /\ m # 12 => DaysBefore(m) + LengthOf(y, m) = DaysBefore(m + 1)
      /\ m = 12 => LengthOf(y, m) = 31
      /\ m = 2 => DaysBefore(m) + LengthOf(y, m) = IF IsLeap(y) THEN 366 ELSE 365
  BY <1>1, MonthLengths
<1>3. DaysFromCivil(y, m, d) = FirstOfMarch(YearFromMarch(y, m)) + DaysBefore(m) + d - 1
  BY <1>1, DaysFromMarch
<1>4. FirstOfMarch(YearFromMarch(y, m)) \in Int /\ DaysBefore(m) \in Int
  BY <1>1, DaysFromMarch
<1>5. CASE d < LengthOf(y, m)
  <2>1. n = [year |-> y, month |-> m, day |-> d + 1]
    BY <1>5 DEF NextDate
  <2>2. d + 1 \in 1 .. LengthOf(y, m)
    BY <1>1, <1>2, <1>5
  <2> DEFINE e == d + 1
  <2>3. DaysFromCivil(y, m, e) = FirstOfMarch(YearFromMarch(y, m)) + DaysBefore(m) + e - 1
    <3>1. e \in Int
      BY <1>1
    <3> HIDE DEF e
    <3> QED
      BY <3>1, DaysFromMarch
  <2> QED
    BY <1>1, <1>3, <1>4, <2>1, <2>2, <2>3 DEF IsDate
<1>6. CASE d = LengthOf(y, m) /\ m < 12
  <2>1. n = [year |-> y, month |-> m + 1, day |-> 1] /\ m + 1 \in 1 .. 12
    BY <1>1, <1>6 DEF NextDate
  <2>2. LengthOf(y, m + 1) \in 28 .. 31
    BY <1>1, <2>1, MonthLengths
  <2>3. IsDate(y, m + 1, 1)
    BY <1>1, <2>1, <2>2 DEF IsDate
  <2>4. /\ DaysFromCivil(y, m + 1, 1) = FirstOfMarch(YearFromMarch(y, m + 1)) + DaysBefore(m + 1) + 1 - 1
        /\ DaysBefore(m + 1) \in Int /\ FirstOfMarch(YearFromMarch(y, m + 1)) \in Int
    <3> DEFINE k == m + 1
    <3>1. k \in 1 .. 12 /\ 1 \in Int
      BY <2>1
    <3> HIDE DEF k
    <3>2. /\ DaysFromCivil(y, k, 1) = FirstOfMarch(YearFromMarch(y, k)) + DaysBefore(k) + 1 - 1
          /\ DaysBefore(k) \in Int /\ FirstOfMarch(YearFromMarch(y, k)) \in Int
      BY <3>1, DaysFromMarch
    <3> QED
      BY <3>2 DEF k
  <2>5. CASE m # 2
    <3>1. YearFromMarch(y, m + 1) = YearFromMarch(y, m)
      BY <1>1, <2>5 DEF YearFromMarch
    <3> QED
      BY <1>1, <1>2, <1>3, <1>4, <1>6, <2>1, <2>3, <2>4, <2>5, <3>1
  <2>6. CASE m = 2
    <3>1. YearFromMarch(y, m + 1) = y /\ YearFromMarch(y, m) = y - 1
      BY <1>1, <2>6 DEF YearFromMarch
    <3>2. FirstOfMarch((y - 1) + 1) = FirstOfMarch(y - 1) + (IF IsLeap((y - 1) + 1) THEN 366 ELSE 365)
      <4>1. y - 1 \in Int
        BY <1>1
      <4> QED
        BY <4>1, NextMarch
    <3>3. (y - 1) + 1 = y
      BY <1>1
    <3>4. FirstOfMarch(y) = FirstOfMarch(y - 1) + (IF IsLeap(y) THEN 366 ELSE 365)
      BY <3>2, <3>3
    <3>5. DaysBefore(m + 1) = 0
      BY <2>6, DaysBeforeIs
    <3> DEFINE leap == IF IsLeap(y) THEN 366 ELSE 365
               F == FirstOfMarch(y - 1)
               G == FirstOfMarch(y)
    <3>6. leap \in Int /\ F \in Int /\ G \in Int
      BY <1>4, <2>4, <3>1
    <3>7. DaysFromCivil(y, m, d) = F + leap - 1
      <4>1. DaysBefore(m) + d = leap
        BY <1>2, <1>6, <2>6
      <4>2. DaysFromCivil(y, m, d) = F + DaysBefore(m) + d - 1
        BY <1>3, <3>1
      <4> HIDE DEF leap, F
      <4> QED
        BY <1>1, <1>4, <3>6, <4>1, <4>2
    <3>8. DaysFromCivil(y, m + 1, 1) = G
      BY <2>4, <3>1, <3>5, <3>6
    <3>9. G = F + leap
      BY <3>4
    <3> HIDE DEF leap, F, G
    <3> QED
      BY <2>1, <2>3, <3>6, <3>7, <3>8, <3>9
  <2> QED
    BY <2>5, <2>6
<1>7. CASE d = LengthOf(y, m) /\ m = 12
  <2>1. n = [year |-> y + 1, month |-> 1, day |-> 1]
    BY <1>1, <1>7 DEF NextDate
  <2>2. LengthOf(y + 1, 1) \in 28 .. 31 /\ y + 1 \in Nat
    BY <1>1, MonthLengths
  <2>3. IsDate(y + 1, 1, 1)
    BY <2>2 DEF IsDate
  <2>4. DaysFromCivil(y + 1, 1, 1) = FirstOfMarch(YearFromMarch(y + 1, 1)) + DaysBefore(1) + 1 - 1
    BY <2>2, DaysFromMarch
  <2>5. YearFromMarch(y + 1, 1) = y /\ YearFromMarch(y, m) = y
    BY <1>1, <1>7 DEF YearFromMarch
  <2>6. DaysBefore(1) = 306 /\ DaysBefore(m) = 275 /\ d = 31
    BY <1>2, <1>7, DaysBeforeIs
  <2> QED
    BY <1>3, <1>4, <2>1, <2>3, <2>4, <2>5, <2>6
<1> QED
  BY <1>1, <1>2, <1>5, <1>6, <1>7

-----------------------------------------------------------------------------
\* Local time.

\* Where a day is beside the last Sunday of a month that ends on day `last`.
LEMMA BesideLastSunday ==
  ASSUME NEW t \in Int, NEW last \in Int, 0 <= last - t, last - t <= 30
  PROVE  LET sunday == last - ((Weekday(last) + 1) % 7)
         IN  /\ sunday \in Int /\ last - 6 <= sunday /\ sunday <= last
             /\ t > sunday <=> last - t < 6 - Weekday(t)
             /\ t = sunday <=> Weekday(t) = 6 /\ last - t < 7
             /\ Weekday(t) \in 0 .. 6
<1> DEFINE u == Weekday(last)
           wd == Weekday(t)
           sunday == last - ((u + 1) % 7)
<1>1. PICK a \in Int : t + 3 = 7 * a + wd /\ wd \in Int /\ 0 <= wd /\ wd <= 6
  <2>1. /\ (t + 3) \div 7 \in Int /\ (t + 3) % 7 \in Int
        /\ t + 3 = 7 * ((t + 3) \div 7) + ((t + 3) % 7)
        /\ 0 <= (t + 3) % 7 /\ (t + 3) % 7 <= 6
    OBVIOUS
  <2> QED
    BY <2>1 DEF Weekday
<1>2. PICK b \in Int : last + 3 = 7 * b + u /\ u \in Int /\ 0 <= u /\ u <= 6
  <2>1. /\ (last + 3) \div 7 \in Int /\ (last + 3) % 7 \in Int
        /\ last + 3 = 7 * ((last + 3) \div 7) + ((last + 3) % 7)
        /\ 0 <= (last + 3) % 7 /\ (last + 3) % 7 <= 6
    OBVIOUS
  <2> QED
    BY <2>1 DEF Weekday
<1> HIDE DEF u, wd
<1>3. PICK r \in Int : r = (u + 1) % 7 /\ r = (IF u = 6 THEN 0 ELSE u + 1)
  <2>1. u + 1 \in Int /\ 1 <= u + 1 /\ u + 1 <= 7
    BY <1>2
  <2>2. (u + 1) % 7 = IF u = 6 THEN 0 ELSE u + 1
    BY <1>2, <2>1
  <2> QED
    BY <1>2, <2>2
<1>4. PICK s \in Int : s = sunday /\ s = last - r
  BY <1>3
<1>5. last - 6 <= s /\ s <= last
  BY <1>2, <1>3, <1>4
<1>6. t > s <=> last - t < 6 - wd
  BY <1>1, <1>2, <1>3, <1>4
<1>7. t = s <=> wd = 6 /\ last - t < 7
  BY <1>1, <1>2, <1>3, <1>4
<1> QED
  BY <1>1, <1>4, <1>5, <1>6, <1>7 DEF u, wd

\* Before, on and after the day of a switch at one o'clock.
LEMMA BesideSwitch ==
  ASSUME NEW t \in Int, NEW s \in Int, NEW minute \in Int, 0 <= minute, minute < MinutesOfDay
  PROVE  /\ s * MinutesOfDay + 60 <= t * MinutesOfDay + minute <=> t > s \/ (t = s /\ minute >= 60)
         /\ t * MinutesOfDay + minute < s * MinutesOfDay + 60 <=> t < s \/ (t = s /\ minute < 60)
BY DEF MinutesOfDay

\* Summer time by the calendar on the wall.
OnSunday(d, wd) == wd = 6 /\ d > 31 - 7
PastSunday(d, wd) == d + (6 - wd) > 31
Summer(m, d, wd, minute) ==
  \/ m \in 4 .. 9
  \/ m = 3 /\ (PastSunday(d, wd) \/ (OnSunday(d, wd) /\ minute >= 60))
  \/ m = 10 /\ ~PastSunday(d, wd) /\ ~(OnSunday(d, wd) /\ minute >= 60)

LEMMA OffsetOfDate ==
  ASSUME NEW y \in Nat, NEW m \in 1 .. 12, NEW d \in 1 .. LengthOf(y, m),
         NEW t \in Int, t = DaysFromCivil(y, m, d),
         NEW minute \in Int, 0 <= minute, minute < MinutesOfDay
  PROVE  CetOffset(t, minute) = IF Summer(m, d, Weekday(t), minute) THEN 120 ELSE 60
<1> DEFINE F == FirstOfMarch(y)
           wd == Weekday(t)
           spring == LastSunday(y, 3)
           autumn == LastSunday(y, 10)
           after(s) == t > s \/ (t = s /\ minute >= 60)
<1>1. CivilFromDays(t).year = y
  <2>1. CivilFromDays(t) = [year |-> y, month |-> m, day |-> d]
    BY DateOfDay
  <2> QED
    BY <2>1
<1>2. /\ DaysFromCivil(y, 3, 31) = F + 30 /\ DaysFromCivil(y, 10, 31) = F + 244 /\ F \in Int
  <2>1. /\ DaysFromCivil(y, 3, 31) = FirstOfMarch(YearFromMarch(y, 3)) + DaysBefore(3) + 31 - 1
        /\ DaysFromCivil(y, 10, 31) = FirstOfMarch(YearFromMarch(y, 10)) + DaysBefore(10) + 31 - 1
        /\ F \in Int
    <3>1. 3 \in 1 .. 12 /\ 10 \in 1 .. 12 /\ 31 \in Int
      OBVIOUS
    <3> QED
      BY <3>1, DaysFromMarch
  <2>2. YearFromMarch(y, 3) = y /\ YearFromMarch(y, 10) = y
    BY DEF YearFromMarch
  <2> QED
    BY <2>1, <2>2, DaysBeforeIs
<1> HIDE DEF F
<1>3. /\ spring \in Int /\ F + 24 <= spring /\ spring <= F + 30
      /\ autumn \in Int /\ F + 238 <= autumn /\ autumn <= F + 244
  <2>1. ASSUME NEW last \in Int
        PROVE  LET sunday == last - ((Weekday(last) + 1) % 7)
               IN  sunday \in Int /\ last - 6 <= sunday /\ sunday <= last
    <3>1. 0 <= last - last /\ last - last <= 30
      OBVIOUS
    <3> QED
      BY <3>1, BesideLastSunday
  <2> DEFINE a == DaysFromCivil(y, 3, 31)
             b == DaysFromCivil(y, 10, 31)
  <2>2. a \in Int /\ b \in Int
    BY <1>2
  <2>3. spring = a - ((Weekday(a) + 1) % 7) /\ autumn = b - ((Weekday(b) + 1) % 7)
    BY DEF LastSunday
  <2> HIDE DEF a, b, spring, autumn
  <2>4. spring \in Int /\ a - 6 <= spring /\ spring <= a
    BY <2>1, <2>2, <2>3
  <2>5. autumn \in Int /\ b - 6 <= autumn /\ autumn <= b
    BY <2>1, <2>2, <2>3
  <2>6. a = F + 30 /\ b = F + 244 /\ F \in Int
    BY <1>2 DEF a, b
  <2> QED
    BY <2>4, <2>5, <2>6
<1>4. CetOffset(t, minute) = IF after(spring) /\ ~after(autumn) THEN 120 ELSE 60
  <2>1. CetOffset(t, minute) =
          IF /\ spring * MinutesOfDay + 60 <= t * MinutesOfDay + minute
             /\ t * MinutesOfDay + minute < autumn * MinutesOfDay + 60 THEN 120 ELSE 60
    BY <1>1 DEF CetOffset
  <2> HIDE DEF spring, autumn
  <2>2. spring * MinutesOfDay + 60 <= t * MinutesOfDay + minute <=> after(spring)
    BY <1>3, BesideSwitch
  <2>3. t * MinutesOfDay + minute < autumn * MinutesOfDay + 60 <=> ~after(autumn)
    <3>1. t * MinutesOfDay + minute < autumn * MinutesOfDay + 60
            <=> t < autumn \/ (t = autumn /\ minute < 60)
      BY <1>3, BesideSwitch
    <3> QED
      BY <1>3, <3>1
  <2> QED
    BY <2>1, <2>2, <2>3
<1>5. d \in Int /\ 1 <= d /\ LengthOf(y, m) \in 28 .. 31 /\ d <= LengthOf(y, m)
  BY MonthLengths
<1>6. t = FirstOfMarch(YearFromMarch(y, m)) + DaysBefore(m) + d - 1 /\ DaysBefore(m) \in Int
  BY <1>5, DaysFromMarch
<1>7. ASSUME m <= 2 PROVE t < F
  <2>1. YearFromMarch(y, m) = y - 1 /\ y - 1 \in Int /\ (y - 1) + 1 = y
    BY <1>7 DEF YearFromMarch
  <2> DEFINE G == FirstOfMarch(y - 1)
             leap == IF IsLeap(y) THEN 366 ELSE 365
  <2>2. F = G + leap
    BY <2>1, NextMarch DEF F
  <2>3. G \in Int
    BY <2>1 DEF FirstOfMarch
  <2>4. t = G + DaysBefore(m) + d - 1
    BY <1>6, <2>1
  <2>5. DaysBefore(m) + d - 1 < leap
    <3>1. CASE m = 1
      BY <1>5, <3>1, DaysBeforeIs
    <3>2. CASE m = 2
      <4>1. DaysBefore(m) + LengthOf(y, m) = leap
        BY <3>2, MonthLengths
      <4>2. leap \in Int
        OBVIOUS
      <4> HIDE DEF leap
      <4> QED
        BY <1>5, <1>6, <4>1, <4>2
    <3> QED
      BY <1>7, <3>1, <3>2
  <2>6. leap \in Int
    OBVIOUS
  <2> HIDE DEF G, leap
  <2> QED
    BY <1>5, <1>6, <2>2, <2>3, <2>4, <2>5, <2>6
<1>8. ASSUME m > 2 PROVE t = F + DaysBefore(m) + d - 1
  BY <1>6, <1>8 DEF YearFromMarch, F
<1>9. wd \in 0 .. 6
  BY DEF Weekday
<1>10. \A n \in Int : 0 <= n /\ n < 31 /\ t = F + n =>
         /\ t > spring <=> 30 - n < 6 - wd
         /\ t = spring <=> wd = 6 /\ 30 - n < 7
  <2> SUFFICES ASSUME NEW n \in Int, 0 <= n, n < 31, t = F + n
               PROVE  /\ t > spring <=> 30 - n < 6 - wd
                      /\ t = spring <=> wd = 6 /\ 30 - n < 7
    OBVIOUS
  <2> DEFINE a == DaysFromCivil(y, 3, 31)
  <2>1. a \in Int /\ a - t = 30 - n /\ 0 <= a - t /\ a - t <= 30
    BY <1>2
  <2>2. spring = a - ((Weekday(a) + 1) % 7)
    BY DEF LastSunday
  <2> HIDE DEF a, spring
  <2>3. /\ t > spring <=> a - t < 6 - wd
        /\ t = spring <=> wd = 6 /\ a - t < 7
    BY <2>1, <2>2, BesideLastSunday
  <2> QED
    BY <2>1, <2>3
<1>11. \A n \in Int : 0 <= n /\ n < 31 /\ t = F + 214 + n =>
         /\ t > autumn <=> 30 - n < 6 - wd
         /\ t = autumn <=> wd = 6 /\ 30 - n < 7
  <2> SUFFICES ASSUME NEW n \in Int, 0 <= n, n < 31, t = F + 214 + n
               PROVE  /\ t > autumn <=> 30 - n < 6 - wd
                      /\ t = autumn <=> wd = 6 /\ 30 - n < 7
    OBVIOUS
  <2> DEFINE a == DaysFromCivil(y, 10, 31)
  <2>1. a \in Int /\ a - t = 30 - n /\ 0 <= a - t /\ a - t <= 30
    BY <1>2
  <2>2. autumn = a - ((Weekday(a) + 1) % 7)
    BY DEF LastSunday
  <2> HIDE DEF a, autumn
  <2>3. /\ t > autumn <=> a - t < 6 - wd
        /\ t = autumn <=> wd = 6 /\ a - t < 7
    BY <2>1, <2>2, BesideLastSunday
  <2> QED
    BY <2>1, <2>3
<1> DEFINE ok == after(spring) /\ ~after(autumn) <=> Summer(m, d, wd, minute)
<1> HIDE DEF spring, autumn, wd
<1>12. ASSUME m <= 2 PROVE ok
  <2>1. t < spring /\ ~Summer(m, d, wd, minute)
    BY <1>2, <1>3, <1>7, <1>12 DEF Summer
  <2> QED
    BY <1>3, <2>1
<1>13. ASSUME m = 3 PROVE ok
  <2>1. t = F + (d - 1) /\ d - 1 \in Int /\ 0 <= d - 1 /\ d - 1 < 31 /\ t < autumn
    BY <1>2, <1>3, <1>5, <1>8, <1>13, DaysBeforeIs
  <2>2. /\ t > spring <=> 30 - (d - 1) < 6 - wd
        /\ t = spring <=> wd = 6 /\ 30 - (d - 1) < 7
    BY <1>10, <2>1
  <2>3. t > spring <=> PastSunday(d, wd)
    BY <1>5, <1>9, <2>2 DEF PastSunday
  <2>4. t = spring <=> OnSunday(d, wd)
    BY <1>5, <1>9, <2>2 DEF OnSunday
  <2>5. Summer(m, d, wd, minute) <=> after(spring)
    BY <1>13, <2>3, <2>4 DEF Summer
  <2>6. ~after(autumn)
    BY <1>3, <2>1
  <2> QED
    BY <2>5, <2>6
<1>14. ASSUME m \in 4 .. 9 PROVE ok
  <2>1. 31 <= DaysBefore(m) /\ DaysBefore(m) + LengthOf(y, m) <= 214
    <3>1. m \in {4, 5, 6, 7, 8, 9} /\ m # 2 /\ m # 12
      BY <1>14
    <3>2. DaysBefore(m) + LengthOf(y, m) = DaysBefore(m + 1)
      BY <3>1, MonthLengths
    <3> QED
      BY <3>1, <3>2, DaysBeforeIs
  <2>2. t > spring /\ t < autumn
    BY <1>2, <1>3, <1>5, <1>6, <1>8, <1>14, <2>1
  <2>3. Summer(m, d, wd, minute)
    BY <1>14 DEF Summer
  <2>4. after(spring) /\ ~after(autumn)
    BY <1>3, <2>2
  <2> QED
    BY <2>3, <2>4
<1>15. ASSUME m = 10 PROVE ok
  <2>1. t = F + 214 + (d - 1) /\ d - 1 \in Int /\ 0 <= d - 1 /\ d - 1 < 31 /\ t > spring
    BY <1>2, <1>3, <1>5, <1>8, <1>15, DaysBeforeIs
  <2>2. /\ t > autumn <=> 30 - (d - 1) < 6 - wd
        /\ t = autumn <=> wd = 6 /\ 30 - (d - 1) < 7
    BY <1>11, <2>1
  <2>3. t > autumn <=> PastSunday(d, wd)
    BY <1>5, <1>9, <2>2 DEF PastSunday
  <2>4. t = autumn <=> OnSunday(d, wd)
    BY <1>5, <1>9, <2>2 DEF OnSunday
  <2>5. Summer(m, d, wd, minute) <=> ~after(autumn)
    BY <1>15, <2>3, <2>4 DEF Summer
  <2> QED
    BY <2>1, <2>5
<1>16. ASSUME m > 10 PROVE ok
  <2>1. 245 <= DaysBefore(m)
    <3>1. m \in {11, 12}
      BY <1>16
    <3> QED
      BY <3>1, DaysBeforeIs
  <2>2. t > autumn
    BY <1>2, <1>3, <1>5, <1>6, <1>8, <1>16, <2>1
  <2>3. ~Summer(m, d, wd, minute)
    BY <1>16 DEF Summer
  <2> QED
    BY <2>2, <2>3
<1>17. ok
  <2>1. m <= 2 \/ m = 3 \/ m \in 4 .. 9 \/ m = 10 \/ m > 10
    OBVIOUS
  <2> HIDE DEF ok
  <2> QED
    BY <2>1, <1>12, <1>13, <1>14, <1>15, <1>16
<1> QED
  BY <1>4, <1>17 DEF wd

-----------------------------------------------------------------------------
\* The walk beside the wall.

\* The walks start on a 1 January as the wall has it.
StartsRight ==
  \A start \in NewYears :
    /\ DaysFromCivil(start.year, 1, 1) = start.day
    /\ Weekday(start.day) = start.weekday

\* The epoch was a Thursday: a walk may start there.
LEMMA EpochIsRight ==
  DaysFromCivil(1970, 1, 1) = 0 /\ Weekday(0) = 3
BY DEF DaysFromCivil, Weekday

\* The day walked to is the date on the wall.
OnTheWall ==
  /\ wall.year \in Nat /\ wall.month \in 1 .. 12 /\ wall.day \in 1 .. LengthOf(wall.year, wall.month)
  /\ today = DaysFromCivil(wall.year, wall.month, wall.day) /\ today \in Int
  /\ wall.weekday = Weekday(today)
  /\ wall = [year |-> wall.year, month |-> wall.month, day |-> wall.day, weekday |-> wall.weekday]

LEMMA InitOnTheWall ==
  ASSUME StartsRight, CalInit
  PROVE  OnTheWall
<1>1. PICK start \in NewYears :
        /\ today = start.day
        /\ wall = [year |-> start.year, month |-> 1, day |-> 1, weekday |-> start.weekday]
  BY DEF CalInit
<1>2. start.year \in Nat /\ start.day \in Int
  BY CalendarAssumption
<1>3. wall.year = start.year /\ wall.month = 1 /\ wall.day = 1 /\ wall.weekday = start.weekday
  BY <1>1
<1>4. 1 \in 1 .. LengthOf(start.year, 1)
  <2>1. LengthOf(start.year, 1) \in 28 .. 31
    BY <1>2, MonthLengths
  <2> QED
    BY <2>1
<1> QED
  BY <1>1, <1>2, <1>3, <1>4 DEF OnTheWall, StartsRight

\* At midnight both go to the next day.
LEMMA MidnightOnTheWall ==
  ASSUME OnTheWall, Midnight
  PROVE  OnTheWall'
<1> DEFINE y == wall.year
           m == wall.month
           d == wall.day
           n == NextDate(y, m, d)
<1>1. y \in Nat /\ m \in 1 .. 12 /\ d \in 1 .. LengthOf(y, m) /\ today \in Int /\ wall.weekday \in Int
  BY DEF OnTheWall, Weekday
<1>2. today' = today + 1
  BY DEF Midnight
<1>3. /\ wall' = [year |-> wall'.year, month |-> wall'.month, day |-> wall'.day, weekday |-> wall'.weekday]
      /\ wall'.year = n.year /\ wall'.month = n.month /\ wall'.day = n.day
      /\ wall'.weekday = (wall.weekday + 1) % 7
  <2> DEFINE w == (wall.weekday + 1) % 7
             len == LengthOf(y, m)
             v == wall.weekday
  <2>0. wall = [year |-> y, month |-> m, day |-> d, weekday |-> v]
    BY DEF OnTheWall
  <2>1. len \in 28 .. 31 /\ d \in Int /\ d <= len
    BY <1>1, MonthLengths
  <2>2. wall' = CASE d < len -> [wall EXCEPT !.day = d + 1, !.weekday = w]
                  [] d = len /\ m < 12 -> [wall EXCEPT !.day = 1, !.month = m + 1, !.weekday = w]
                  [] OTHER -> [year |-> y + 1, month |-> 1, day |-> 1, weekday |-> w]
    BY DEF Midnight
  <2> HIDE DEF y, m, d, w, len, v
  <2>3. CASE d < len
    <3>1. wall' = [wall EXCEPT !.day = d + 1, !.weekday = w]
      BY <2>1, <2>2, <2>3
    <3>2. wall' = [year |-> y, month |-> m, day |-> d + 1, weekday |-> w]
      BY <2>0, <3>1
    <3>3. n = [year |-> y, month |-> m, day |-> d + 1]
      BY <2>3 DEF NextDate, len
    <3> QED
      BY <3>2, <3>3 DEF w
  <2>4. CASE d = len /\ m < 12
    <3>1. wall' = [wall EXCEPT !.day = 1, !.month = m + 1, !.weekday = w]
      BY <2>1, <2>2, <2>4
    <3>2. wall' = [year |-> y, month |-> m + 1, day |-> 1, weekday |-> w]
      BY <2>0, <3>1
    <3>3. n = [year |-> y, month |-> m + 1, day |-> 1]
      BY <2>1, <2>4 DEF NextDate, len
    <3> QED
      BY <3>2, <3>3 DEF w
  <2>5. CASE d = len /\ ~(m < 12)
    <3>1. wall' = [year |-> y + 1, month |-> 1, day |-> 1, weekday |-> w]
      BY <2>1, <2>2, <2>5
    <3>2. n = [year |-> y + 1, month |-> 1, day |-> 1]
      BY <2>1, <2>5 DEF NextDate, len
    <3> QED
      BY <3>1, <3>2 DEF w
  <2> QED
    BY <2>1, <2>3, <2>4, <2>5
<1>4. /\ IsDate(n.year, n.month, n.day)
      /\ DaysFromCivil(n.year, n.month, n.day) = DaysFromCivil(y, m, d) + 1
  BY <1>1, DayAfter
<1>5. (wall.weekday + 1) % 7 = Weekday(today + 1)
  <2>1. wall.weekday = (today + 3) % 7
    BY DEF OnTheWall, Weekday
  <2>2. (((today + 3) % 7) + 1) % 7 = (today + 1 + 3) % 7
    BY <1>1
  <2> QED
    BY <2>1, <2>2 DEF Weekday
<1>6. today = DaysFromCivil(y, m, d)
  BY DEF OnTheWall
<1> HIDE DEF y, m, d, n
<1> QED
  BY <1>1, <1>2, <1>3, <1>4, <1>5, <1>6 DEF OnTheWall, IsDate

\* Splitting a time of day and putting it together again.
LEMMA TimeOfDay ==
  ASSUME NEW ms \in Int, 0 <= ms, ms < MsOfDay
  PROVE  (ms \div 3600000) * 3600000 + ((ms \div 60000) % 60) * 60000 + (ms % 60000) = ms
<1>1. PICK h \in Int : h = ms \div 3600000
  OBVIOUS
<1>2. PICK k \in Int : k = ms \div 60000 /\ ms % 60000 = ms - 60000 * k
  <2>1. ms \div 60000 \in Int /\ ms % 60000 = ms - 60000 * (ms \div 60000)
    OBVIOUS
  <2> QED
    BY <2>1
<1>3. 3600000 * h <= ms /\ ms < 3600000 * h + 3600000
  BY <1>1
<1>4. 60000 * k <= ms /\ ms < 60000 * k + 60000
  BY <1>2
<1>5. 60 * h <= k /\ k < 60 * h + 60
  BY <1>3, <1>4
<1>6. k % 60 = k - 60 * h
  BY <1>5
<1> QED
  BY <1>1, <1>2, <1>6

\* The algorithms name the days as the wall does.
LEMMA DatesOnTheWall ==
  ASSUME OnTheWall
  PROVE  DatesAreRight
<1> DEFINE y == wall.year
           m == wall.month
           d == wall.day
<1>1. y \in Nat /\ m \in 1 .. 12 /\ d \in 1 .. LengthOf(y, m) /\ today \in Int
      /\ today = DaysFromCivil(y, m, d) /\ wall.weekday = Weekday(today)
  BY DEF OnTheWall
<1>2. CivilFromDays(today) = [year |-> y, month |-> m, day |-> d]
  BY <1>1, DateOfDay
<1>3. ASSUME NEW ms \in {0, 59999, 60000, 3599999, 45912345, MsOfDay - 1}, y \in 2000 .. 2099
      PROVE  ToUnix(FromUnix(today, ms)) = [days |-> today, ms |-> ms]
  <2>1. ms \in Int /\ 0 <= ms /\ ms < MsOfDay
    BY DEF MsOfDay
  <2> DEFINE tag == FromUnix(today, ms)
             c == CivilFromDays(today)
             since == c.year - 2000
  <2>2. c.year = y /\ c.month = m /\ c.day = d
    BY <1>2
  <2>3. tag.year = IF since < 0 THEN 0 ELSE IF since > 99 THEN 99 ELSE since
    BY DEF FromUnix
  <2>4. /\ tag.month = c.month /\ tag.day = c.day /\ tag.hour = ms \div 3600000
        /\ tag.minute = (ms \div 60000) % 60 /\ tag.millisecond = ms % 60000
    BY DEF FromUnix
  <2> HIDE DEF tag
  <2>5. since = y - 2000 /\ tag.year = y - 2000
    BY <1>3, <2>2, <2>3
  <2> HIDE DEF since
  <2>6. 2000 + tag.year = y
    BY <1>1, <2>5
  <2>7. ToUnix(tag).days = today
    BY <1>1, <2>2, <2>4, <2>6 DEF ToUnix
  <2>8. ToUnix(tag).ms = ms
    <3>1. (ms \div 3600000) * 3600000 + ((ms \div 60000) % 60) * 60000 + (ms % 60000) = ms
      BY <2>1, TimeOfDay
    <3>2. ToUnix(tag).ms = tag.hour * 3600000 + tag.minute * 60000 + tag.millisecond
      BY DEF ToUnix
    <3> QED
      BY <2>4, <3>1, <3>2
  <2>9. ToUnix(tag) = [days |-> ToUnix(tag).days, ms |-> ToUnix(tag).ms]
    BY DEF ToUnix
  <2> QED
    BY <2>7, <2>8, <2>9 DEF tag
<1> QED
  BY <1>1, <1>2, <1>3 DEF DatesAreRight

\* The switch comes at one o'clock on the last Sunday, and at no other time.
Switches(m, d, wd, minute, before) ==
  \/ Summer(m, d, wd, minute) <=> Summer(m, d, wd, before)
  \/ /\ minute = 60 /\ OnSunday(d, wd) /\ m = 3
     /\ Summer(m, d, wd, minute) /\ ~Summer(m, d, wd, before)
  \/ /\ minute = 60 /\ OnSunday(d, wd) /\ m = 10
     /\ ~Summer(m, d, wd, minute) /\ Summer(m, d, wd, before)

LEMMA SummerChanges ==
  ASSUME NEW m \in 1 .. 12, NEW d \in Int, d <= 31, NEW wd \in 0 .. 6,
         NEW minute \in Int, NEW before \in Int,
         minute # 60 => (minute >= 60 <=> before >= 60), minute = 60 => before < 60
  PROVE  Switches(m, d, wd, minute, before)
<1>1. OnSunday(d, wd) => ~PastSunday(d, wd)
  BY DEF OnSunday, PastSunday
<1>2. minute # 60 => (minute >= 60 <=> before >= 60)
  OBVIOUS
<1>3. minute = 60 => minute >= 60 /\ ~(before >= 60)
  OBVIOUS
<1> DEFINE late == minute >= 60
           later == before >= 60
<1> HIDE DEF late, later
<1>4. /\ Summer(m, d, wd, minute) <=>
           \/ m \in 4 .. 9
           \/ m = 3 /\ (PastSunday(d, wd) \/ (OnSunday(d, wd) /\ late))
           \/ m = 10 /\ ~PastSunday(d, wd) /\ ~(OnSunday(d, wd) /\ late)
      /\ Summer(m, d, wd, before) <=>
           \/ m \in 4 .. 9
           \/ m = 3 /\ (PastSunday(d, wd) \/ (OnSunday(d, wd) /\ later))
           \/ m = 10 /\ ~PastSunday(d, wd) /\ ~(OnSunday(d, wd) /\ later)
  BY DEF Summer, late, later
<1>5. minute # 60 => (late <=> later)
  BY <1>2 DEF late, later
<1>6. minute = 60 => late /\ ~later
  BY <1>3 DEF late, later
<1>7. m = 3 => m \notin 4 .. 9 /\ m # 10
  OBVIOUS
<1>8. m = 10 => m \notin 4 .. 9 /\ m # 3
  OBVIOUS
<1> QED
  BY <1>1, <1>4, <1>5, <1>6, <1>7, <1>8 DEF Switches

\* Summer time, the local clock and the billing periods are the wall's.
LEMMA LocalTimeOnTheWall ==
  ASSUME OnTheWall
  PROVE  LocalTimeIsRight
<1> DEFINE y == wall.year
           m == wall.month
           d == wall.day
           wd == wall.weekday
           off(minute) == CetOffset(today, minute)
           S(minute) == Summer(m, d, wd, minute)
           next == NextDate(y, m, d)
<1>1. y \in Nat /\ m \in 1 .. 12 /\ d \in 1 .. LengthOf(y, m) /\ today \in Int
      /\ today = DaysFromCivil(y, m, d) /\ wd = Weekday(today)
  BY DEF OnTheWall
<1>2. d \in Int /\ d <= 31 /\ wd \in 0 .. 6
  <2>1. LengthOf(y, m) \in 28 .. 31
    BY <1>1, MonthLengths
  <2> QED
    BY <1>1, <2>1 DEF Weekday
<1>3. ASSUME NEW minute \in Int, 0 <= minute, minute < MinutesOfDay
      PROVE  off(minute) = IF S(minute) THEN 120 ELSE 60
  BY <1>1, <1>3, OffsetOfDate
<1>4. ASSUME NEW minute \in Int, 1 <= minute, minute < MinutesOfDay
      PROVE  /\ off(minute) \in {60, 120} /\ off(minute - 1) \in {60, 120}
             /\ \/ off(minute) = off(minute - 1)
                \/ minute = 60 /\ OnSunday(d, wd) /\ m = 3 /\ off(60) = 120
                \/ minute = 60 /\ OnSunday(d, wd) /\ m = 10 /\ off(60) = 60
  <2> DEFINE before == minute - 1
  <2>1. before \in Int /\ 0 <= before /\ before < MinutesOfDay /\ 0 <= minute /\ before = minute - 1
    BY <1>4 DEF MinutesOfDay
  <2> HIDE DEF before, off, S
  <2>2. off(minute) = IF S(minute) THEN 120 ELSE 60
    BY <1>3, <1>4, <2>1
  <2>3. off(before) = IF S(before) THEN 120 ELSE 60
    BY <1>3, <2>1
  <2>4. \/ S(minute) <=> S(before)
        \/ minute = 60 /\ OnSunday(d, wd) /\ m = 3 /\ S(minute) /\ ~S(before)
        \/ minute = 60 /\ OnSunday(d, wd) /\ m = 10 /\ ~S(minute) /\ S(before)
    <3> HIDE DEF m, d, wd
    <3>1. /\ m \in 1 .. 12 /\ d \in Int /\ d <= 31 /\ wd \in 0 .. 6 /\ before \in Int
          /\ minute # 60 => (minute >= 60 <=> before >= 60)
          /\ minute = 60 => before < 60
      BY <1>1, <1>2, <2>1
    <3>2. Switches(m, d, wd, minute, before)
      BY <1>4, <3>1, SummerChanges
    <3> QED
      BY <3>2 DEF S, Switches
  <2>5. off(before) = off(minute - 1)
    BY DEF before
  <2> QED
    BY <2>2, <2>3, <2>4, <2>5
<1>5. /\ CivilFromDays(today) = [year |-> y, month |-> m, day |-> d]
      /\ CivilFromDays(today + 1) = [year |-> next.year, month |-> next.month, day |-> next.day]
  <2>1. IsDate(next.year, next.month, next.day)
        /\ DaysFromCivil(next.year, next.month, next.day) = today + 1
    BY <1>1, DayAfter
  <2> DEFINE ny == next.year
             nm == next.month
             nd == next.day
  <2>2. /\ ny \in Nat /\ nm \in 1 .. 12 /\ nd \in 1 .. LengthOf(ny, nm)
        /\ DaysFromCivil(ny, nm, nd) = today + 1
    BY <2>1 DEF IsDate
  <2> HIDE DEF ny, nm, nd, next
  <2>3. CivilFromDays(DaysFromCivil(ny, nm, nd)) = [year |-> ny, month |-> nm, day |-> nd]
    BY <2>2, DateOfDay
  <2>4. CivilFromDays(today) = [year |-> y, month |-> m, day |-> d]
    BY <1>1, DateOfDay
  <2> QED
    BY <2>2, <2>3, <2>4 DEF ny, nm, nd
<1>6. next.day = 1 \/ (next.year = y /\ next.month = m)
  BY DEF NextDate
<1> DEFINE clock(minute) == LocalMinuteOfDay(today, minute)
           period(minute) == BillingPeriod("month", today, minute)
           sunday == OnSunday(d, wd)
           past == PastSunday(d, wd)
<1> HIDE DEF m, d, wd, y, next, off, S
<1>7. \A minute \in {0, 59, 60, 119, 720, MinutesOfDay - 1} :
        off(minute) = IF S(minute) THEN 120 ELSE 60
  BY <1>3 DEF MinutesOfDay
<1>8. ASSUME NEW minute \in {59, 60, 1319, 1320, 1379, 1380}
      PROVE  \/ clock(minute) = (clock(minute - 1) + 1) % MinutesOfDay
             \/ sunday /\ m = 3 /\ minute = 60 /\ clock(minute) = 180
             \/ sunday /\ m = 10 /\ minute = 60 /\ clock(minute) = 120
  <2>1. minute \in Int /\ 1 <= minute /\ minute < MinutesOfDay
    BY DEF MinutesOfDay
  <2>2. clock(minute) = (minute + off(minute)) % 1440
        /\ clock(minute - 1) = (minute - 1 + off(minute - 1)) % 1440
    BY DEF LocalMinuteOfDay, MinutesOfDay, off
  <2>3. /\ off(minute) \in {60, 120} /\ off(minute - 1) \in {60, 120}
        /\ \/ off(minute) = off(minute - 1)
           \/ minute = 60 /\ sunday /\ m = 3 /\ off(60) = 120
           \/ minute = 60 /\ sunday /\ m = 10 /\ off(60) = 60
    BY <1>4, <2>1
  <2> HIDE DEF clock, sunday
  <2>4. CASE off(minute) = off(minute - 1)
    <3>1. \A x \in Int : (x + 1) % 1440 = ((x % 1440) + 1) % 1440
      OBVIOUS
    <3>2. minute - 1 + off(minute) \in Int /\ minute + off(minute) = (minute - 1 + off(minute)) + 1
      BY <2>1, <2>3
    <3>3. (minute + off(minute)) % 1440 = (((minute - 1 + off(minute)) % 1440) + 1) % 1440
      BY <3>1, <3>2
    <3> QED
      BY <2>2, <2>4, <3>3 DEF MinutesOfDay
  <2>5. CASE minute = 60 /\ sunday /\ m = 3 /\ off(60) = 120
    BY <2>2, <2>5
  <2>6. CASE minute = 60 /\ sunday /\ m = 10 /\ off(60) = 60
    BY <2>2, <2>6
  <2> QED
    BY <2>3, <2>4, <2>5, <2>6
<1>9. ASSUME NEW minute \in 1 .. MinutesOfDay - 1, minute % 60 = 0, period(minute) # period(minute - 1)
      PROVE  clock(minute) = 0 /\ LocalCivil(today, minute).day = 1
  <2>1. minute \in Int /\ 1 <= minute /\ minute < MinutesOfDay
    BY DEF MinutesOfDay
  <2>2. /\ off(minute) \in {60, 120} /\ off(minute - 1) \in {60, 120}
        /\ (off(minute) = off(minute - 1) \/ minute = 60)
    BY <1>4, <2>1
  <2> DEFINE days(k) == (k + off(k)) \div 1440
             month(c) == c.year * 12 + c.month - 1
  <2>3. \A k : period(k) = month(CivilFromDays(today + days(k)))
    BY DEF BillingPeriod, LocalCivil, MinutesOfDay, off
  <2>4. LocalCivil(today, minute) = CivilFromDays(today + days(minute))
    BY DEF LocalCivil, MinutesOfDay, off
  <2>5. clock(minute) = (minute + off(minute)) % 1440
    BY DEF LocalMinuteOfDay, MinutesOfDay, off
  <2>6. days(minute) \in {0, 1} /\ days(minute - 1) \in {0, 1}
    BY <2>1, <2>2 DEF MinutesOfDay
  <2>7. days(minute) # days(minute - 1)
    BY <1>9, <2>3
  <2>8. minute + off(minute) = 1440
    <3>1. CASE minute = 60
      BY <2>2, <2>7, <3>1
    <3>2. CASE minute # 60
      <4>1. off(minute - 1) = off(minute)
        BY <2>2, <3>2
      <4>2. PICK x \in Int : x = minute + off(minute)
        BY <2>1, <2>2
      <4>3. x \div 1440 # (x - 1) \div 1440
        <5>1. minute - 1 + off(minute) = x - 1
          BY <2>1, <2>2, <4>2
        <5> QED
          BY <2>7, <4>1, <4>2, <5>1
      <4>4. 1 <= x /\ x < 2880
        BY <2>1, <2>2, <4>2 DEF MinutesOfDay
      <4> QED
        BY <4>2, <4>3, <4>4
    <3> QED
      BY <3>1, <3>2
  <2>9. clock(minute) = 0 /\ days(minute) = 1 /\ days(minute - 1) = 0
    <3>1. clock(minute) = 0 /\ days(minute) = 1
      BY <2>5, <2>8
    <3> HIDE DEF days
    <3> QED
      BY <2>6, <2>7, <3>1
  <2> HIDE DEF days
  <2>10. today + 0 = today
    BY <1>1
  <2>11. period(minute) = month(CivilFromDays(today + 1)) /\ period(minute - 1) = month(CivilFromDays(today))
    BY <2>3, <2>9, <2>10
  <2>12. next.day = 1
    <3>1. month(CivilFromDays(today + 1)) = next.year * 12 + next.month - 1
      BY <1>5
    <3>2. month(CivilFromDays(today)) = y * 12 + m - 1
      BY <1>5
    <3> QED
      BY <1>6, <1>9, <2>11, <3>1, <3>2
  <2> QED
    BY <1>5, <2>4, <2>9, <2>12
<1> HIDE DEF clock, period, sunday, past
<1>10. LocalTimeIsRight <=>
        /\ \A minute \in {0, 59, 60, 119, 720, MinutesOfDay - 1} :
             off(minute) = IF S(minute) THEN 120 ELSE 60
        /\ \A minute \in {59, 60, 1319, 1320, 1379, 1380} :
             \/ clock(minute) = (clock(minute - 1) + 1) % MinutesOfDay
             \/ sunday /\ m = 3 /\ minute = 60 /\ clock(minute) = 180
             \/ sunday /\ m = 10 /\ minute = 60 /\ clock(minute) = 120
        /\ \A minute \in 1 .. MinutesOfDay - 1 :
             minute % 60 = 0 /\ period(minute) # period(minute - 1)
               => clock(minute) = 0 /\ LocalCivil(today, minute).day = 1
  BY DEF LocalTimeIsRight, off, S, clock, period, sunday, m, d, wd, Summer, OnSunday, PastSunday
<1> QED
  BY <1>7, <1>8, <1>9, <1>10

\* Every day of a walk from a 1 January the wall has right, for any number of
\* years: CalendarIsRight, of civil_from_days and days_from_civil, the time tags
\* of IEC 104, Central European summer time and the billing periods.
THEOREM CalendarIsAlwaysRight ==
  ASSUME StartsRight
  PROVE  CalInit /\ [][CalNext]_calvars => []CalendarIsRight
<1>1. CalInit => OnTheWall
  BY InitOnTheWall
<1>2. OnTheWall /\ [CalNext]_calvars => OnTheWall'
  <2> SUFFICES ASSUME OnTheWall, [CalNext]_calvars PROVE OnTheWall'
    OBVIOUS
  <2>1. CASE Midnight
    BY <2>1, MidnightOnTheWall
  <2>2. CASE LastDay \/ UNCHANGED calvars
    BY <2>2 DEF LastDay, calvars, OnTheWall
  <2> QED
    BY <2>1, <2>2 DEF CalNext
<1>3. OnTheWall => CalendarIsRight
  BY DatesOnTheWall, LocalTimeOnTheWall DEF CalendarIsRight
<1> QED
  BY <1>1, <1>2, <1>3, PTL
=============================================================================
