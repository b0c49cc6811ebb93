------------------------------ MODULE Gateway ------------------------------
(***************************************************************************)
(* The control loop of the gateway (crates/gateway/main.rs) around the     *)
(* DSO's commands: who writes them (the tasks that serve control centres,  *)
(* dso.rs, and the loop itself when every link is lost), what is saved for *)
(* a restart (persist.rs) and what the devices get.  The tasks run on a    *)
(* multi-threaded runtime, so they act between any two steps of a cycle;   *)
(* the commands are a watch channel, written in one piece.  The process    *)
(* may stop at any time; the state file is all that is left of it.         *)
(*                                                                         *)
(* A cycle is modelled up to the commands in force: what the controller    *)
(* makes of them is module Dimming.  Times are ages, counted in ticks and  *)
(* kept no further than where they stop mattering.                         *)
(***************************************************************************)
EXTENDS Integers, FiniteSets

CONSTANTS
  Centres,        \* control centres that may connect
  OnLinkLoss,     \* on_link_loss: "release" or "hold"
  ReleaseAfter,   \* link_loss_release_s, in ticks
  PersistEvery,   \* PERSIST_EVERY, in ticks
  StepLengths,    \* ticks between two cycles
  FeedInLimits,   \* limits the DSO may set, below Full
  Full,           \* 100 %
  Configured,     \* the inputs the site has: "relay", "eebus"
  InputLimits,    \* EEBUS limits, kW
  None            \* Option::None

ASSUME GatewayAssumption ==
  /\ OnLinkLoss \in {"release", "hold"}
  /\ ReleaseAfter \in Nat /\ PersistEvery \in Nat
  /\ StepLengths \subseteq Nat \ {0}
  /\ Configured \subseteq {"relay", "eebus"}
  /\ Full \notin FeedInLimits /\ None \notin InputLimits

VARIABLES
  up,            \* the process runs
  pc,            \* where the loop is in its cycle
  connections,   \* the centres connected
  commands,      \* the watch channel of the DSO's commands
  inputs,        \* the relay and EEBUS, as last read
  link_age,      \* time since link_seen
  persist_age,   \* time since last_persist
  last_commands, \* the commands last handed to save
  dso_cmd,       \* the commands this cycle has read
  cmd,           \* the same merged with the inputs
  published,     \* the commands behind the setpoints of the last full cycle
  saved,         \* dso-state.json
  \* history:
  save_failed,   \* the last save did not reach the disk
  dim_commanded  \* the DSO has commanded a dimming, ever

gvars == <<up, pc, connections, commands, inputs, link_age, persist_age,
           last_commands, dso_cmd, cmd, published, saved,
           save_failed, dim_commanded>>

Commands == [dim : BOOLEAN, feed_in_limit_pct : FeedInLimits \cup {Full},
             emergency : BOOLEAN]

NoCommands == [dim |-> FALSE, feed_in_limit_pct |-> Full, emergency |-> FALSE]

Inputs == [relay : BOOLEAN, lpc : BOOLEAN, limit_kw : InputLimits \cup {None}]

NoInputs == [relay |-> FALSE, lpc |-> FALSE, limit_kw |-> None]

\* Ages are kept up to where the comparison with the limit is decided.
Older(age, limit, step) ==
  IF age + step > limit THEN limit + 1 ELSE age + step

-----------------------------------------------------------------------------
\* The DSO's side (external) and the tasks that serve it.

Connect(c) ==
  /\ up /\ c \notin connections
  /\ connections' = connections \cup {c}
  /\ UNCHANGED <<up, pc, commands, inputs, link_age, persist_age,
                 last_commands, dso_cmd, cmd, published, saved,
                 save_failed, dim_commanded>>

Disconnect(c) ==
  /\ up /\ c \in connections
  /\ connections' = connections \ {c}
  /\ UNCHANGED <<up, pc, commands, inputs, link_age, persist_age,
                 last_commands, dso_cmd, cmd, published, saved,
                 save_failed, dim_commanded>>

\* A command is executed and confirmed.
Execute(new) ==
  /\ up /\ connections # {}
  /\ new # commands
  /\ commands' = new
  /\ dim_commanded' = (dim_commanded \/ new.dim)
  /\ UNCHANGED <<up, pc, connections, inputs, link_age, persist_age,
                 last_commands, dso_cmd, cmd, published, saved,
                 save_failed>>

Command ==
  \/ \E on \in BOOLEAN : Execute([commands EXCEPT !.dim = on])
  \/ \E on \in BOOLEAN : Execute([commands EXCEPT !.emergency = on])
  \/ \E pct \in FeedInLimits \cup {Full} :
       Execute([commands EXCEPT !.feed_in_limit_pct = pct])

\* The tasks that read the relay and the EEBUS bridge store what they read.
InputChanges ==
  /\ up
  /\ \E new \in Inputs \ {inputs} :
       /\ new.relay => "relay" \in Configured
       /\ new.lpc => "eebus" \in Configured
       /\ new.limit_kw # None => new.lpc
       /\ inputs' = new
  /\ UNCHANGED <<up, pc, connections, commands, link_age, persist_age,
                 last_commands, dso_cmd, cmd, published, saved,
                 save_failed, dim_commanded>>

-----------------------------------------------------------------------------
\* The loop.

\* merge: any plain reduction dims to Pmin, an EEBUS limit alone to itself.
Merge(dso, in) ==
  LET plain == dso.dim \/ in.relay
  IN  [dim |-> plain \/ in.lpc,
       limit_kw |-> IF plain \/ ~in.lpc THEN None ELSE in.limit_kw,
       feed_in_limit_pct |-> dso.feed_in_limit_pct,
       emergency |-> dso.emergency]

\* Mutant: the emergency is lifted with the rest.
LiftedAll(c) == NoCommands

\* Mutant: the feed-in limit is lifted the wrong way.
LiftedToZero(c) == [c EXCEPT !.dim = FALSE, !.feed_in_limit_pct = 0]

\* What is left of the commands without any link.
Lifted(c) == [c EXCEPT !.dim = FALSE, !.feed_in_limit_pct = Full]

\* Mutant: link_seen is refreshed whether or not a centre is connected.
LinkLostNever(step) == FALSE

\* The link has been lost for too long.
LinkLost(step) ==
  /\ connections = {} /\ OnLinkLoss = "release"
  /\ link_age + step > ReleaseAfter

\* The next cycle begins and looks at the number of connections.
Tick ==
  /\ up /\ pc = "tick"
  /\ \E step \in StepLengths :
       /\ link_age' = IF connections # {} THEN 0
                      ELSE Older(link_age, ReleaseAfter, step)
       /\ persist_age' = Older(persist_age, PersistEvery, step)
       /\ pc' = IF LinkLost(step) THEN "lift" ELSE "read"
  /\ UNCHANGED <<up, connections, commands, inputs, last_commands, dso_cmd,
                 cmd, published, saved, save_failed, dim_commanded>>

\* send_modify lifts the commands; the emergency stays.
Lift ==
  /\ up /\ pc = "lift"
  /\ commands' = Lifted(commands)
  /\ pc' = "read"
  /\ UNCHANGED <<up, connections, inputs, link_age, persist_age,
                 last_commands, dso_cmd, cmd, published, saved,
                 save_failed, dim_commanded>>

\* The commands and the inputs of this cycle are read and merged.
Read ==
  /\ up /\ pc = "read"
  /\ dso_cmd' = commands
  /\ cmd' = Merge(commands, inputs)
  /\ pc' = "persist"
  /\ UNCHANGED <<up, connections, commands, inputs, link_age, persist_age,
                 last_commands, published, saved, save_failed,
                 dim_commanded>>

\* Mutant: only changes are saved.
SaveDueOnChange == dso_cmd # last_commands

\* Mutant: only the timer saves.
SaveDueOnTimer == persist_age > PersistEvery

SaveDue == dso_cmd # last_commands \/ persist_age > PersistEvery

\* Mutant: the merged commands are saved.
SavedFormMerged ==
  [dim |-> cmd.dim, feed_in_limit_pct |-> cmd.feed_in_limit_pct,
   emergency |-> cmd.emergency]

\* The commands save writes: the DSO's alone.
SavedForm == dso_cmd

\* save: the file is renamed into place, or the error is logged.
Save ==
  \/ saved' = SavedForm /\ save_failed' = FALSE
  \/ save_failed' = TRUE /\ UNCHANGED saved

Persist ==
  /\ up /\ pc = "persist"
  /\ \/ /\ SaveDue
        /\ Save
        /\ last_commands' = dso_cmd
        /\ persist_age' = 0
     \/ /\ ~SaveDue
        /\ UNCHANGED <<saved, save_failed, last_commands, persist_age>>
  /\ pc' = "publish"
  /\ UNCHANGED <<up, connections, commands, inputs, link_age, dso_cmd, cmd,
                 published, dim_commanded>>

\* The setpoints and the snapshot go to the devices and the stations.
Publish ==
  /\ up /\ pc = "publish"
  /\ published' = [dso |-> dso_cmd, merged |-> cmd]
  /\ dso_cmd' = None /\ cmd' = None
  /\ pc' = "tick"
  /\ UNCHANGED <<up, connections, commands, inputs, link_age, persist_age,
                 last_commands, saved, save_failed, dim_commanded>>

Loop == Tick \/ Lift \/ Read \/ Persist \/ Publish

-----------------------------------------------------------------------------
\* The process.

\* It stops between any two steps; the file is written with rename.
Crash ==
  /\ up
  /\ up' = FALSE
  /\ connections' = {}
  /\ UNCHANGED <<pc, commands, inputs, link_age, persist_age, last_commands,
                 dso_cmd, cmd, published, saved, save_failed,
                 dim_commanded>>

\* The commands come from the file, the inputs are read anew; until the
\* first cycle the devices get conservative setpoints.
Restart ==
  /\ ~up
  /\ up' = TRUE
  /\ pc' = "tick"
  /\ commands' = saved /\ last_commands' = saved
  /\ inputs' = NoInputs
  /\ link_age' = 0 /\ persist_age' = 0
  /\ dso_cmd' = None /\ cmd' = None /\ published' = None
  /\ UNCHANGED <<connections, saved, save_failed, dim_commanded>>

\* The first start finds no file.
GInit ==
  /\ up = TRUE /\ pc = "tick"
  /\ connections = {}
  /\ commands = NoCommands /\ last_commands = NoCommands /\ saved = NoCommands
  /\ inputs = NoInputs
  /\ link_age = 0 /\ persist_age = 0
  /\ dso_cmd = None /\ cmd = None /\ published = None
  /\ save_failed = FALSE /\ dim_commanded = FALSE

GNext ==
  \/ \E c \in Centres : Connect(c) \/ Disconnect(c)
  \/ Command
  \/ InputChanges
  \/ Loop
  \/ Crash \/ Restart

GSpec == GInit /\ [][GNext]_gvars

\* The loop never blocks, and a disk that fails does not fail for ever.
GFairSpec ==
  /\ GSpec
  /\ WF_gvars(Loop)
  /\ SF_gvars(Persist /\ ~save_failed')

-----------------------------------------------------------------------------
\* Properties.

GTypeOK ==
  /\ up \in BOOLEAN /\ pc \in {"tick", "lift", "read", "persist", "publish"}
  /\ connections \subseteq Centres
  /\ {commands, last_commands, saved} \subseteq Commands
  /\ dso_cmd \in Commands \cup {None} /\ inputs \in Inputs
  /\ link_age \in 0 .. ReleaseAfter + 1
  /\ persist_age \in 0 .. PersistEvery + 1

\* "A dimming active before a power cut is active after it" (persist.rs):
\* whatever the devices obey is what a restart would load, whenever the
\* process stops, unless the last save failed, or a newer command has
\* already been saved in the cycle that was cut off.
ObeyedSurvivesPowerCut ==
  published # None =>
    \/ saved = published.dso
    \/ save_failed
    \/ pc = "publish" /\ saved = dso_cmd

\* "IEC 104 alone is what survives a restart; the inputs are read anew"
\* (main.rs): no restart brings back a dimming that only the relay or EEBUS
\* had demanded.
InputsLeaveNoTrace == saved.dim => dim_commanded

\* Only the DSO sets or clears an emergency, also when links are lost.
EmergencyStaysUntilCleared ==
  [][commands'.emergency # commands.emergency =>
       Command \/ (Restart /\ commands'.emergency = saved.emergency)]_gvars

\* Once the commands stop changing, the file holds them: a save that failed
\* is tried again.
CommandsReachTheDisk ==
  \A c \in Commands : <>[](up /\ commands = c) => <>[](saved = c)

\* With the policy "release" and no centre for good, the dimming ends.
LossOfEveryLinkReleases ==
  OnLinkLoss = "release" =>
    (<>[](up /\ connections = {}) => <>[](~commands.dim))

\* What the loss of every link lifts, in the end, and what it never does.
LossLiftsAllButEmergencies == LossOfEveryLinkReleases /\ EmergencyStaysUntilCleared
=============================================================================
