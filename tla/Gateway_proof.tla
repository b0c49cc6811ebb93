--------------------------- MODULE Gateway_proof ---------------------------
(***************************************************************************)
(* What the state file guarantees, for any number of centres, any periods  *)
(* and any limits: what the devices obey survives a power cut, and nothing *)
(* but the DSO's own commands is saved.                                    *)
(***************************************************************************)
EXTENDS Gateway, TLAPS

\* The types the argument needs.
Typed ==
  /\ pc \in {"tick", "lift", "read", "persist", "publish"}
  /\ commands \in Commands /\ saved \in Commands /\ last_commands \in Commands
  /\ pc \in {"persist", "publish"} => dso_cmd \in Commands

\* The commands handed to save last are on the disk, or the save failed; they
\* are those of the last full cycle, and from Persist on those of this one.
Handed ==
  /\ saved = last_commands \/ save_failed
  /\ pc = "publish" => last_commands = dso_cmd
  /\ pc # "publish" /\ published # None => published.dso = last_commands

\* A dimming the DSO never commanded is nowhere on its way to the disk.
Commanded ==
  /\ commands.dim => dim_commanded
  /\ pc \in {"persist", "publish"} => (dso_cmd.dim => dim_commanded)
  /\ saved.dim => dim_commanded

GInv == Typed /\ Handed /\ Commanded

\* The first start has saved and obeyed nothing.
LEMMA InitInv == GInit => GInv
BY DEF GInit, GInv, Typed, Handed, Commanded, NoCommands, Commands

\* A command changes one field of the commands; the DSO's dimming is noted.
LEMMA CommandInv ==
  ASSUME GInv, Command
  PROVE  GInv'
<1>1. PICK new \in Commands : Execute(new)
  <2>1. ASSUME NEW on \in BOOLEAN, Execute([commands EXCEPT !.dim = on])
        PROVE  \E new \in Commands : Execute(new)
    BY <2>1 DEF GInv, Typed, Commands
  <2>2. ASSUME NEW on \in BOOLEAN, Execute([commands EXCEPT !.emergency = on])
        PROVE  \E new \in Commands : Execute(new)
    BY <2>2 DEF GInv, Typed, Commands
  <2>3. ASSUME NEW pct \in FeedInLimits \cup {Full},
               Execute([commands EXCEPT !.feed_in_limit_pct = pct])
        PROVE  \E new \in Commands : Execute(new)
    BY <2>3 DEF GInv, Typed, Commands
  <2> QED
    BY <2>1, <2>2, <2>3 DEF Command
<1>2. commands' = new /\ dim_commanded' = (dim_commanded \/ new.dim)
  BY <1>1 DEF Execute
<1>3. UNCHANGED <<pc, last_commands, dso_cmd, published, saved, save_failed>>
  BY <1>1 DEF Execute
<1> QED
  BY <1>2, <1>3 DEF GInv, Typed, Handed, Commanded

\* The steps of the loop.
LEMMA LoopInv ==
  ASSUME GInv, Loop
  PROVE  GInv'
<1>1. CASE Tick
  BY <1>1 DEF Tick, GInv, Typed, Handed, Commanded
<1>2. CASE Lift
  <2>1. commands' \in Commands /\ commands'.dim = FALSE
    BY <1>2 DEF Lift, Lifted, Commands, GInv, Typed
  <2> QED
    BY <1>2, <2>1 DEF Lift, GInv, Typed, Handed, Commanded
<1>3. CASE Read
  BY <1>3 DEF Read, GInv, Typed, Handed, Commanded
<1>4. CASE Persist
  <2>1. CASE SaveDue /\ Save /\ last_commands' = dso_cmd
    BY <1>4, <2>1 DEF Persist, Save, SavedForm, GInv, Typed, Handed, Commanded
  <2>2. CASE ~SaveDue /\ UNCHANGED <<saved, save_failed, last_commands>>
    BY <1>4, <2>2 DEF Persist, SaveDue, GInv, Typed, Handed, Commanded
  <2> QED
    BY <1>4, <2>1, <2>2 DEF Persist
<1>5. CASE Publish
  BY <1>5 DEF Publish, GInv, Typed, Handed, Commanded
<1> QED
  BY <1>1, <1>2, <1>3, <1>4, <1>5 DEF Loop

\* Every step keeps the invariant.
LEMMA NextInv == GInv /\ [GNext]_gvars => GInv'
<1> SUFFICES ASSUME GInv, [GNext]_gvars PROVE GInv'
  OBVIOUS
<1>1. CASE Command
  BY <1>1, CommandInv
<1>2. CASE Loop
  BY <1>2, LoopInv
<1>3. CASE Restart
  <2>1. UNCHANGED <<saved, save_failed, dim_commanded>>
        /\ commands' = saved /\ last_commands' = saved
        /\ pc' = "tick" /\ published' = None
    BY <1>3 DEF Restart
  <2> QED
    BY <2>1 DEF GInv, Typed, Handed, Commanded
<1>4. ASSUME UNCHANGED <<pc, commands, last_commands, dso_cmd, published,
                         saved, save_failed, dim_commanded>>
      PROVE  GInv'
  BY <1>4 DEF GInv, Typed, Handed, Commanded
<1>5. CASE \E c \in Centres : Connect(c) \/ Disconnect(c)
  BY <1>4, <1>5 DEF Connect, Disconnect
<1>6. CASE InputChanges
  BY <1>4, <1>6 DEF InputChanges
<1>7. CASE Crash
  BY <1>4, <1>7 DEF Crash
<1>8. CASE UNCHANGED gvars
  BY <1>4, <1>8 DEF gvars
<1> QED
  BY <1>1, <1>2, <1>3, <1>5, <1>6, <1>7, <1>8 DEF GNext

\* The invariant holds in every run.
LEMMA Invariance == GSpec => []GInv
BY InitInv, NextInv, PTL DEF GSpec

\* persist.rs: whatever the devices obey is what a restart would load.
THEOREM ObeyedSurvives == GSpec => []ObeyedSurvivesPowerCut
<1>1. GInv => ObeyedSurvivesPowerCut
  BY DEF GInv, Handed, ObeyedSurvivesPowerCut
<1> QED
  BY <1>1, Invariance, PTL

\* main.rs: the relay and EEBUS never make it into the state file.
THEOREM InputsUnsaved == GSpec => []InputsLeaveNoTrace
<1>1. GInv => InputsLeaveNoTrace
  BY DEF GInv, Commanded, InputsLeaveNoTrace
<1> QED
  BY <1>1, Invariance, PTL

-----------------------------------------------------------------------------
\* The ages stop where their comparisons are decided.
LEMMA OlderType ==
  ASSUME NEW limit \in Nat, NEW age \in 0 .. limit + 1, NEW n \in Nat
  PROVE  Older(age, limit, n) \in 0 .. limit + 1
BY DEF Older

\* Each kind of command leaves the commands in their type.
LEMMA CommandsType ==
  ASSUME commands \in Commands
  PROVE  /\ \A on \in BOOLEAN : /\ [commands EXCEPT !.dim = on] \in Commands
                               /\ [commands EXCEPT !.emergency = on] \in Commands
         /\ \A pct \in FeedInLimits \cup {Full} :
              [commands EXCEPT !.feed_in_limit_pct = pct] \in Commands
         /\ Lifted(commands) \in Commands
         /\ Lifted(commands).emergency = commands.emergency
BY DEF Commands, Lifted

\* The types of the loop and of what it shares with the other tasks; that a
\* cycle saves only commands it has read is from GInv.
LEMMA TypeStep == GInv /\ GTypeOK /\ [GNext]_gvars => GTypeOK'
<1> SUFFICES ASSUME GInv, GTypeOK, [GNext]_gvars PROVE GTypeOK'
  OBVIOUS
<1>1. commands \in Commands
  BY DEF GTypeOK
<1>2. CASE Command
  <2>1. ASSUME NEW new \in Commands, Execute(new)
        PROVE  GTypeOK'
    BY <2>1 DEF Execute, GTypeOK
  <2> QED
    BY <1>1, <1>2, <2>1, CommandsType DEF Command
<1>3. ASSUME NEW c \in Centres, Connect(c) \/ Disconnect(c)
      PROVE  GTypeOK'
  BY <1>3 DEF Connect, Disconnect, GTypeOK
<1>4. CASE InputChanges
  BY <1>4 DEF InputChanges, GTypeOK
<1>5. CASE Tick
  <2>1. PICK step \in StepLengths :
          /\ link_age' = IF connections # {} THEN 0
                         ELSE Older(link_age, ReleaseAfter, step)
          /\ persist_age' = Older(persist_age, PersistEvery, step)
          /\ pc' = IF LinkLost(step) THEN "lift" ELSE "read"
    BY <1>5 DEF Tick
  <2>2. step \in Nat /\ ReleaseAfter \in Nat /\ PersistEvery \in Nat
    BY GatewayAssumption
  <2>3. /\ link_age' \in 0 .. ReleaseAfter + 1
        /\ persist_age' \in 0 .. PersistEvery + 1
    <3>1. /\ link_age \in 0 .. ReleaseAfter + 1
          /\ persist_age \in 0 .. PersistEvery + 1
      BY DEF GTypeOK
    <3>2. /\ Older(link_age, ReleaseAfter, step) \in 0 .. ReleaseAfter + 1
          /\ Older(persist_age, PersistEvery, step) \in 0 .. PersistEvery + 1
      BY <2>2, <3>1, OlderType
    <3>3. 0 \in 0 .. ReleaseAfter + 1
      BY <2>2
    <3> QED
      BY <2>1, <3>2, <3>3
  <2>4. pc' \in {"lift", "read"}
    BY <2>1
  <2> QED
    BY <1>5, <2>3, <2>4 DEF Tick, GTypeOK
<1>6. CASE Lift
  BY <1>1, <1>6, CommandsType DEF Lift, GTypeOK
<1>7. CASE Read
  BY <1>7 DEF Read, GTypeOK
<1>8. CASE Persist
  <2>1. dso_cmd \in Commands
    BY <1>8 DEF Persist, GInv, Typed
  <2>2. saved' \in Commands /\ last_commands' \in Commands
        /\ persist_age' \in 0 .. PersistEvery + 1
    BY <1>8, <2>1, GatewayAssumption DEF Persist, Save, SavedForm, GTypeOK
  <2> QED
    BY <1>8, <2>2 DEF Persist, GTypeOK
<1>9. CASE Publish
  BY <1>9 DEF Publish, GTypeOK
<1>10. CASE Crash
  BY <1>10 DEF Crash, GTypeOK
<1>11. CASE Restart
  BY <1>11, GatewayAssumption DEF Restart, GTypeOK, NoInputs, Inputs
<1>12. CASE UNCHANGED gvars
  BY <1>12 DEF gvars, GTypeOK
<1> QED
  BY <1>2, <1>3, <1>4, <1>5, <1>6, <1>7, <1>8, <1>9, <1>10, <1>11, <1>12
     DEF GNext, Loop

\* main.rs, persist.rs: whatever the other tasks, a crash or a failing save do
\* between two steps, the loop's state keeps its types: a restart loads commands
\* the stations could have set, and no age outgrows its comparison.
THEOREM GatewayTypeCorrect == GSpec => []GTypeOK
<1>1. GInit => GTypeOK
  BY GatewayAssumption DEF GInit, GTypeOK, NoCommands, Commands, NoInputs, Inputs
<1> QED
  BY <1>1, TypeStep, Invariance, PTL DEF GSpec

\* main.rs: losing every link, at whatever point of a cycle, lifts the rest of
\* the commands but never the emergency; only a command, or the loading of the
\* state file after a crash, changes that one.
THEOREM EmergencyStays == GSpec => EmergencyStaysUntilCleared
<1>1. ASSUME GTypeOK, [GNext]_gvars, commands'.emergency # commands.emergency
      PROVE  Command \/ (Restart /\ commands'.emergency = saved.emergency)
  <2>1. CASE Lift
    BY <1>1, <2>1, CommandsType DEF Lift, GTypeOK
  <2>2. CASE Restart
    BY <2>2 DEF Restart
  <2>3. CASE UNCHANGED commands
    BY <1>1, <2>3
  <2> QED
    BY <1>1, <2>1, <2>2, <2>3
       DEF GNext, Loop, Connect, Disconnect, InputChanges, Tick, Read, Persist, Publish,
           Crash, gvars
<1>2. GTypeOK /\ [GNext]_gvars =>
        [commands'.emergency # commands.emergency =>
           Command \/ (Restart /\ commands'.emergency = saved.emergency)]_gvars
  BY <1>1
<1> QED
  BY <1>2, GatewayTypeCorrect, PTL DEF GSpec, EmergencyStaysUntilCleared

=============================================================================
