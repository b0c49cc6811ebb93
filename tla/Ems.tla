-------------------------------- MODULE Ems --------------------------------
(***************************************************************************)
(* The planning layer in the gateway (ems.rs): the task that fetches       *)
(* prices and weather, solves and saves, against the control loop, which   *)
(* reports every cycle and reads the guidance of the plan in force.        *)
(*                                                                         *)
(* The task takes the lock for each step and lets it go while it waits for *)
(* a source, the solver or the disk; there the loop goes on observing, and *)
(* the process may be killed.  Time is the task's ticks (5 s), and         *)
(* instants are their ages.  What is only shown (plan_error, the feeds'    *)
(* errors as texts) is left out.                                           *)
(***************************************************************************)
EXTENDS Integers

CONSTANTS
  None,
  Chargers,
  Quarter,      \* STEP_S
  PlanMaxAge,   \* PLAN_MAX_AGE_S
  Retry, MinRefetch,  \* RETRY_S, MIN_REFETCH_S
  Refresh,      \* refresh_s, of prices and weather
  ShortBelow,   \* [feed -> the look ahead below which it is short]
  Feeds,        \* "prices", and "weather" where it is configured
  Published,    \* [feed -> how far ahead a source may know]
  Usable,       \* a price stands in for the same time of the next days
  SaveEvery,    \* the state is saved when this old
  MaxBlock,     \* bound: a fetch or a solve takes at most so long
  ServedFor, KnownFor  \* the ticks the properties allow

ASSUME EmsAssumption ==
  /\ Quarter \in Nat \ {0} /\ PlanMaxAge \in Nat /\ PlanMaxAge > Quarter
  /\ MinRefetch \in Nat /\ Retry \in Nat /\ Refresh \in Nat
  /\ MinRefetch <= Retry /\ Retry <= Refresh
  /\ "prices" \in Feeds /\ Feeds \subseteq {"prices", "weather"}
  /\ ShortBelow \in [Feeds -> Int] /\ Published \in [Feeds -> SUBSET Int]
  /\ Usable \in Nat /\ SaveEvery \in Nat \ {0} /\ MaxBlock \in Nat
  /\ ServedFor \in Nat /\ KnownFor \in Nat

\* Latest, as far as it is told apart.
Site == [plugged : SUBSET Chargers, dimmed : BOOLEAN]

ASSUME NoneAssumption ==
  /\ None \notin Int /\ None \notin {"prices", "weather"}
  /\ None \notin Site /\ None \notin [site : Site, here : BOOLEAN]

VARIABLES
  phase,     \* now in its quarter-hour
  loop,      \* where the task is: "tick", "prices", "weather", "fetching",
             \* "plan", "solving", "save"
  fetching,  \* the feed it waits for
  blocked,   \* for how long; kept until the save of the pass
  ticked,    \* the interval has ticked
  feed,      \* Feed of prices and of weather: ages, an error
  book,      \* [feed -> how far ahead it reaches; None: nothing known]
  latest,    \* Latest, as far as the planner tells cycles apart; None: none
  wanted,    \* wanted.is_some()
  planned,   \* planned_s is in this quarter-hour
  prepared,  \* age of the problem that is being solved
  plan,      \* age (made_at_s) of the last plan that was solved
  saved_age, \* of saved_at; None: f64::NEG_INFINITY
  disk,      \* the saved book, all None without a file
  source,    \* [feed -> what its sources would answer; None: an error]
  \* history:
  attempted, \* the site at the last prepare, and whether that was `here`,
             \* in this quarter-hour
  evidence,  \* age of the readings the plan in force was made from
  begun,     \* the task's pass began in this quarter-hour, or one has ended
  answering, \* [feed -> how long its sources have given the same answer to
             \* this process]
  known      \* how long there have been prices, in this process; counted
             \* anew when a save fails and the disk has none yet

feeds == <<feed, book, source, answering, known>>
plans == <<latest, wanted, planned, prepared, plan, attempted, evidence>>
place == <<loop, fetching, blocked>>
emsvars == <<phase, place, ticked, feeds, plans, saved_age, disk, begun>>

Elder(age, max) == IF age = None \/ age >= max THEN age ELSE age + 1

-----------------------------------------------------------------------------
\* Operations under the lock.

\* Mutant: a book that is short is not fetched before its time.
DueUnlessShort(f) ==
  LET x == feed[f]
  IN  /\ x.tried = None \/ x.tried >= IF x.error THEN Retry ELSE MinRefetch
      /\ x.fetched = None \/ x.fetched >= Refresh

\* Feed::due.
Due(f) ==
  LET x == feed[f]
      short == book[f] = None \/ book[f] < ShortBelow[f]
  IN  /\ x.tried = None \/ x.tried >= IF x.error THEN Retry ELSE MinRefetch
      /\ \/ x.fetched = None \/ x.fetched >= Refresh
         \/ short /\ x.fetched >= Quarter

\* price_job, weather_job.
Try(f) == feed' = [feed EXCEPT ![f].tried = 0]

\* PriceBook::merge and WeatherBook::merge, as far as they reach: what ends
\* after the fresh points is kept by prices, which overlap nothing, not by
\* weather.
Reach(f, ahead) ==
  IF f = "prices" /\ book[f] # None /\ book[f] > ahead THEN book[f] ELSE ahead

\* store_prices, store_weather.  Prices that reach further ask for a plan.
Store(f) ==
  IF source[f] = None
    THEN /\ feed' = [feed EXCEPT ![f].error = TRUE]
         /\ UNCHANGED <<book, wanted, known>>
    ELSE /\ feed' = [feed EXCEPT ![f] = [fetched |-> 0, tried |-> 0, error |-> FALSE]]
         /\ book' = [book EXCEPT ![f] = Reach(f, source[f])]
         /\ wanted' = (wanted \/ (f = "prices" /\ book'[f] # book[f]))
         /\ known' = IF f = "prices" /\ known = None THEN 0 ELSE known

\* observe: a car plugged in or left, a dimming started or ended.
Observe ==
  /\ \E plugged \in SUBSET Chargers, dimmed \in BOOLEAN :
       LET before == IF latest = None THEN [plugged |-> {}, dimmed |-> FALSE]
                     ELSE latest
       IN  /\ latest' = [plugged |-> plugged, dimmed |-> dimmed]
           /\ wanted' = (wanted \/ latest' # before)
           /\ latest' # latest
  /\ UNCHANGED <<phase, place, ticked, feeds, planned, prepared, plan,
                 attempted, evidence, saved_age, disk, begun>>

\* replan_due.
ReplanDue == latest # None /\ (wanted \/ ~planned)

\* horizon finds a price for every step: published, or of the same time one,
\* two or seven days earlier.
HorizonPriced == book["prices"] # None /\ book["prices"] >= -Usable

\* prepare takes the wish before it looks at the site.
Prepare == planned' = TRUE /\ wanted' = FALSE

\* Mutant: the wish for a plan is cleared when the plan is there.
AcceptClearsWish == plan' = prepared /\ wanted' = FALSE /\ UNCHANGED planned

\* Mutant: a plan is as old as its solution.
AcceptNew == plan' = 0 /\ UNCHANGED <<wanted, planned>>

\* Mutant: the quarter-hour that has its plan is the one it came in.
AcceptPlanned == plan' = prepared /\ planned' = TRUE /\ UNCHANGED wanted

\* accept: the plan is dated when it was prepared.
Accept == plan' = prepared /\ UNCHANGED <<wanted, planned>>

\* guidance (PlanRecord::guidance_at): a plan is in force within its age.
Guidance == plan # None /\ plan < PlanMaxAge

-----------------------------------------------------------------------------
\* The task (spawn).

Wake ==
  /\ loop = "tick" /\ ticked
  /\ ticked' = FALSE /\ loop' = "prices" /\ begun' = "begun"
  /\ UNCHANGED <<phase, fetching, blocked, feeds, plans, saved_age, disk>>

\* Mutant: the task goes on to the weather though none is configured.
AfterAlways(f) == IF f = "prices" THEN "weather" ELSE "plan"

After(f) == IF f = "prices" /\ "weather" \in Feeds THEN "weather" ELSE "plan"

Fetch(f) ==
  /\ loop = f
  /\ IF Due(f) THEN Try(f) /\ loop' = "fetching" /\ fetching' = f
               ELSE loop' = After(f) /\ UNCHANGED <<feed, fetching>>
  /\ UNCHANGED <<phase, blocked, ticked, book, source, answering, known, plans,
                 saved_age, disk, begun>>

Fetched ==
  /\ loop = "fetching"
  /\ Store(fetching)
  /\ loop' = After(fetching) /\ fetching' = None /\ blocked' = 0
  /\ UNCHANGED <<phase, ticked, source, answering, latest, planned, prepared,
                 plan, attempted, evidence, saved_age, disk, begun>>

Plan ==
  /\ loop = "plan"
  /\ IF ReplanDue
       THEN /\ Prepare /\ attempted' = [site |-> latest, here |-> TRUE]
            /\ IF HorizonPriced
                 THEN prepared' = 0 /\ loop' = "solving"
                 ELSE loop' = "save" /\ UNCHANGED prepared
       ELSE loop' = "save" /\ UNCHANGED <<wanted, planned, prepared, attempted>>
  /\ UNCHANGED <<phase, fetching, blocked, ticked, feeds, latest, plan, evidence,
                 saved_age, disk, begun>>

Solved ==
  /\ loop = "solving"
  /\ \/ Accept /\ evidence' = prepared
     \/ UNCHANGED <<plan, evidence, wanted, planned>>  \* the solve failed
  /\ prepared' = None /\ loop' = "save"
  /\ UNCHANGED <<phase, fetching, blocked, ticked, feeds, latest, attempted, saved_age,
                 disk, begun>>

SaveFails ==
  known' = IF known = None \/ disk["prices"] # None THEN known ELSE 0

\* Mutant: nothing is saved before there is a plan.
SaveWithPlan ==
  /\ loop = "save"
  /\ IF plan # None /\ (saved_age = None \/ saved_age - blocked >= SaveEvery)
       THEN disk' = book /\ saved_age' = blocked
       ELSE UNCHANGED <<disk, saved_age>>
  /\ loop' = "tick" /\ blocked' = 0
  /\ begun' = IF begun = "begun" THEN "ended" ELSE begun
  /\ UNCHANGED <<phase, fetching, ticked, feeds, plans>>

\* Mutant: the file is written in place; a write that fails leaves nothing in it.
SaveInPlace ==
  /\ loop = "save"
  /\ IF saved_age = None \/ saved_age - blocked >= SaveEvery
       THEN /\ saved_age' = blocked
            /\ \/ disk' = book /\ UNCHANGED known
               \/ disk' = [f \in Feeds |-> None] /\ SaveFails
       ELSE UNCHANGED <<disk, saved_age, known>>
  /\ loop' = "tick" /\ blocked' = 0
  /\ begun' = IF begun = "begun" THEN "ended" ELSE begun
  /\ UNCHANGED <<phase, fetching, ticked, feed, book, source, answering, plans>>

\* saved() and save(), atomic by the rename: the file is there or, with a
\* warning, the old one.  Both count as saved, at the time before the solver.
Save ==
  /\ loop = "save"
  /\ IF saved_age = None \/ saved_age - blocked >= SaveEvery
       THEN /\ saved_age' = blocked
            /\ \/ disk' = book /\ UNCHANGED known
               \/ UNCHANGED disk /\ SaveFails
       ELSE UNCHANGED <<disk, saved_age, known>>
  /\ loop' = "tick" /\ blocked' = 0
  /\ begun' = IF begun = "begun" THEN "ended" ELSE begun
  /\ UNCHANGED <<phase, fetching, ticked, feed, book, source, answering, plans>>

-----------------------------------------------------------------------------
\* Sources, time, the process.

\* What the sources would answer: nothing, or points that reach so far.
SourceChanges ==
  /\ \E f \in Feeds : \E ahead \in {None} \cup Published[f] :
       /\ ahead # source[f]
       /\ source' = [source EXCEPT ![f] = ahead]
       /\ answering' = [answering EXCEPT ![f] = 0]
  /\ UNCHANGED <<phase, place, ticked, feed, book, known, plans, saved_age, disk, begun>>

Waits == loop \in {"fetching", "solving"}

Sink(ahead) == IF ahead = None \/ ahead < -Usable THEN ahead ELSE ahead - 1

Clock ==
  /\ (loop = "tick" /\ ~ticked) \/ (Waits /\ blocked < MaxBlock)
  /\ phase' = (phase + 1) % Quarter
  /\ planned' = (planned /\ phase' # 0)
  /\ begun' = IF phase' = 0 THEN "no" ELSE begun
  /\ ticked' = TRUE /\ blocked' = IF Waits THEN blocked + 1 ELSE 0
  /\ feed' = [f \in Feeds |-> [feed[f] EXCEPT !.fetched = Elder(@, Refresh),
                                            !.tried = Elder(@, Retry)]]
  /\ book' = [f \in Feeds |-> Sink(book[f])]
  /\ disk' = [f \in Feeds |-> Sink(disk[f])]
  /\ prepared' = Elder(prepared, PlanMaxAge) /\ plan' = Elder(plan, PlanMaxAge)
  /\ evidence' = Elder(evidence, PlanMaxAge) /\ saved_age' = Elder(saved_age, SaveEvery + MaxBlock)
  /\ answering' = [f \in Feeds |-> Elder(answering[f], ServedFor)]
  /\ known' = Elder(known, KnownFor)
  /\ attempted' = IF attempted = None THEN None
                  ELSE [attempted EXCEPT !.here = @ /\ phase' # 0]
  /\ UNCHANGED <<loop, fetching, source, latest, wanted>>

\* Ems::new, with the book the file has.
NewFeeds == [f \in Feeds |-> [fetched |-> None, tried |-> None, error |-> FALSE]]

EInit ==
  /\ phase = 0 /\ loop = "tick" /\ fetching = None /\ blocked = 0
  /\ ticked = TRUE /\ feed = NewFeeds
  /\ disk = [f \in Feeds |-> None] /\ book = disk /\ known = None
  /\ source = disk /\ answering = [f \in Feeds |-> 0]
  /\ latest = None /\ wanted = FALSE /\ planned = FALSE /\ prepared = None
  /\ plan = None /\ saved_age = None
  /\ attempted = None /\ evidence = None /\ begun = "no"

\* The process is killed and starts again.
Restart ==
  /\ loop' = "tick" /\ fetching' = None /\ blocked' = 0
  /\ ticked' = TRUE /\ feed' = NewFeeds
  /\ book' = disk /\ known' = IF disk["prices"] = None THEN None ELSE 0
  /\ latest' = None /\ wanted' = FALSE /\ planned' = FALSE /\ prepared' = None
  /\ plan' = None /\ saved_age' = None
  /\ attempted' = None /\ evidence' = None /\ begun' = "no"
  /\ answering' = [f \in Feeds |-> 0]
  /\ UNCHANGED <<phase, disk, source>>

ENext ==
  \/ Observe \/ Wake \/ (\E f \in Feeds : Fetch(f)) \/ Fetched \/ Plan
  \/ Solved \/ Save \/ SourceChanges \/ Clock \/ Restart

ESpec == EInit /\ [][ENext]_emsvars

-----------------------------------------------------------------------------
\* Properties.

\* The task waits for what it says it waits for.
EmsType ==
  /\ phase \in 0 .. Quarter - 1
  /\ loop \in {"tick", "fetching", "plan", "solving", "save"} \cup Feeds
  /\ (loop = "fetching") = (fetching # None)
  /\ (loop = "solving") = (prepared # None)
  /\ plan # None => evidence # None

\* What changed while a plan was being solved, or prices fetched, is planned
\* for: without a wish for a plan, the last problem taken was the site's.
NoChangeForgotten ==
  attempted # None /\ ~wanted => attempted.site = latest

\* Guidance never rests on readings older than a plan may be, however long
\* the solver took.
GuidanceIsRecent == Guidance => evidence < PlanMaxAge

\* Once a pass of the task that began in this quarter-hour has ended, the
\* quarter-hour has had its plan made, or tried.
QuarterIsPlanned ==
  begun = "ended" /\ attempted # None => attempted.here

\* What a source has had for a while is known, and is nearly as new as it: an
\* error is retried, and a book that does not reach tomorrow is not left until
\* the next refresh.
PublishedIsKnown ==
  \A f \in Feeds :
    answering[f] >= ServedFor /\ source[f] # None =>
      book[f] # None /\ book[f] >= source[f] - ServedFor

\* Prices known for a while survive a restart, so that it plans offline.  A save
\* that fails loses none that are on the disk, and one that would have been the
\* first is made up for in the same time.
KnownPricesSurvive ==
  known # None /\ known >= KnownFor => disk["prices"] # None

\* The plan followed is of this quarter-hour, this site and recent readings,
\* or has been tried.
PlanIsOfNow == EmsType /\ NoChangeForgotten /\ GuidanceIsRecent /\ QuarterIsPlanned

\* What the source has had for a while is in the book, and on the disk.
PricesAreKept == PublishedIsKnown /\ KnownPricesSurvive
=============================================================================
