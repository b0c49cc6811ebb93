------------------------------- MODULE MCEms -------------------------------
(* The planning task, the book of prices, the meters and the weather, each *)
(* on its own: which one runs is chosen at the start.                      *)
(* A source that knows today's prices or tomorrow's too.                   *)
EXTENDS Ems, PriceBook, Meters, Weather

VARIABLE part

MCShortBelow == [f \in Feeds |-> 2]
MCPublished == [f \in Feeds |-> {1, 3}]

MCInit ==
  /\ part \in {"task", "prices", "meters", "weather"}
  /\ EInit /\ BookInit /\ MeterInit /\ WeatherInit

MCNext ==
  \/ part = "task" /\ ENext /\ UNCHANGED <<part, bookvars, metervars, weathervars>>
  \/ part = "prices" /\ BookNext /\ UNCHANGED <<part, emsvars, metervars, weathervars>>
  \/ part = "meters" /\ MeterNext /\ UNCHANGED <<part, emsvars, bookvars, weathervars>>
  \/ part = "weather" /\ WeatherNext /\ UNCHANGED <<part, emsvars, bookvars, metervars>>

MCSpec == MCInit /\ [][MCNext]_<<part, emsvars, bookvars, metervars, weathervars>>

\* What the planner looks ahead with, the prices and the sky, is what their
\* sources last gave for each time.
ForecastsAreTrue == BookIsTrue /\ SkyIsTrue
=============================================================================
