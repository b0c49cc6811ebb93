----------------------------- MODULE MCGateway -----------------------------
(* Values for model checking Gateway, and two sites: one with the relay    *)
(* and EEBUS, commands to dim and emergencies and a loop that stalls, and  *)
(* one with two control centres that dim and limit the feed-in.            *)
EXTENDS Gateway

CONSTANTS c1, c2

VARIABLE site

MCCentres == {c1, c2}
MCSteps == {1, 2}
MCFeedInLimits == {60}
MCNoInputLimits == {}
MCBothInputs == {"relay", "eebus"}

WithInputs ==
  /\ connections' \subseteq {c1}
  /\ commands'.feed_in_limit_pct = Full

WithCentres ==
  /\ ~commands'.emergency
  /\ inputs' = NoInputs
  /\ link_age' \in {0, link_age, link_age + 1}

MCInit == GInit /\ site \in {"inputs", "centres"}

MCNext ==
  /\ GNext
  /\ site = "inputs" => WithInputs
  /\ site = "centres" => WithCentres
  /\ UNCHANGED site

\* The loop never blocks, and a disk that fails does not fail for ever.
MCFairSpec ==
  /\ MCInit /\ [][MCNext]_<<gvars, site>>
  /\ WF_gvars(Loop) /\ SF_gvars(Persist /\ ~save_failed')

=============================================================================
