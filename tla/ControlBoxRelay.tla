-------------------------- MODULE ControlBoxRelay --------------------------
(***************************************************************************)
(* The task that polls the relay contact of an FNN control box through a   *)
(* Modbus TCP module (run_relay in inputs.rs): debounce, reconnect, and    *)
(* what an unreadable contact means.  Time is counted in polls.            *)
(***************************************************************************)
EXTENDS Integers

CONSTANTS
  Policies,       \* on_input_loss: subset of {"hold", "dim"}
  Hold,           \* debounce_ms
  LostAfter,      \* input_loss_s
  IoTimeout, ConnectTimeout, ReconnectDelay,
  Answer,         \* bound: a module that is there answers within this
  RelayAgeMax     \* bound: the histories count up to it

ASSUME RelayAssumption ==
  /\ Policies \subseteq {"hold", "dim"}
  /\ Hold \in Nat /\ LostAfter \in Nat \ {0} /\ Answer \in Nat
  /\ IoTimeout \in Nat /\ ConnectTimeout \in Nat /\ ReconnectDelay \in Nat
  /\ RelayAgeMax \in Nat

VARIABLES
  policy,
  contact,    \* the box demands a reduction
  module,     \* the I/O module can be reached
  task,       \* "connect", "read", "poll" or "pause", and since when
  debounce,   \* Debounce: [stable, candidate, age], a candidate is ~stable
  last_ok,    \* age of the last good read, or of the start
  ever_read,
  relay_view, \* RelayView
  \* history, ages up to RelayAgeMax:
  contact_age, module_age, \* since the last change of each
  opened      \* the contact was open since relay_view.active became TRUE

world == <<policy, contact, module>>
rvars == <<world, task, debounce, last_ok, ever_read, relay_view,
           contact_age, module_age, opened>>

\* One more, as far as it is compared with a limit.
Aged(age, max) == IF age >= max THEN max ELSE age + 1

\* Mutant: every read starts the candidate anew.
UpdateAnew(d, raw) ==
  IF raw = d.stable THEN [d EXCEPT !.candidate = FALSE, !.age = 0]
  ELSE IF ~d.candidate \/ d.age < Hold
  THEN [d EXCEPT !.candidate = TRUE, !.age = 0]
  ELSE [stable |-> raw, candidate |-> FALSE, age |-> 0]

\* Debounce::update: a state counts once two reads `hold` apart agree on it
\* and none in between differs.
Update(d, raw) ==
  IF raw = d.stable THEN [d EXCEPT !.candidate = FALSE, !.age = 0]
  ELSE IF ~d.candidate THEN [d EXCEPT !.candidate = TRUE, !.age = 0]
  ELSE IF d.age >= Hold THEN [stable |-> raw, candidate |-> FALSE, age |-> 0]
  ELSE d

Goes(at) == task' = [at |-> at, age |-> 0]

Connects ==
  /\ task.at = "connect" /\ module
  /\ Goes("read")
  /\ UNCHANGED <<world, debounce, last_ok, ever_read, relay_view, contact_age,
                 module_age, opened>>

Shows(view) ==
  /\ relay_view' = view
  /\ opened' = IF view.active /\ ~relay_view.active THEN ~contact ELSE opened

Reads ==
  /\ task.at = "read" /\ module
  /\ debounce' = Update(debounce, contact)
  /\ Shows([active |-> debounce'.stable, readable |-> TRUE])
  /\ last_ok' = 0 /\ ever_read' = TRUE
  /\ Goes("poll")
  /\ UNCHANGED <<world, contact_age, module_age>>

\* Mutant: only a contact that was never read counts as lost.
LostOnlyAtStart(age) == ~ever_read

Lost(age) == age >= LostAfter \/ ~ever_read

\* Mutant: "hold" falls back to no reduction.
LossMeansOpen(active) == policy = "dim"

\* on_input_loss
LossMeans(active) == policy = "dim" \/ active

\* A connect or a read has failed: the policy, and a pause.
Fails ==
  /\ task.at \in {"connect", "read"} /\ ~module
  /\ IF Lost(last_ok)
     THEN Shows([active |-> LossMeans(relay_view.active), readable |-> FALSE])
     ELSE UNCHANGED <<relay_view, opened>>
  /\ Goes("pause")
  /\ UNCHANGED <<world, debounce, last_ok, ever_read, contact_age, module_age>>

\* The pause before the next read or connect is over.
Wakes ==
  /\ \/ task.at = "poll" /\ task.age >= 1 /\ Goes("read")
     \/ task.at = "pause" /\ task.age >= ReconnectDelay /\ Goes("connect")
  /\ UNCHANGED <<world, debounce, last_ok, ever_read, relay_view, contact_age,
                 module_age, opened>>

\* What the task is in ends before more time passes.
Due ==
  \/ task.at = "poll" /\ task.age >= 1
  \/ task.at = "pause" /\ task.age >= ReconnectDelay
  \/ task.at = "read" /\ task.age >= IoTimeout
  \/ task.at = "connect" /\ task.age >= ConnectTimeout
  \/ /\ task.at \in {"read", "connect"}
     /\ module /\ module_age >= Answer /\ task.age >= Answer

RelayTick ==
  /\ ~Due
  /\ task' = [task EXCEPT !.age = @ + 1]
  /\ debounce' = [debounce EXCEPT !.age =
                    IF debounce.candidate THEN Aged(@, Hold) ELSE 0]
  /\ last_ok' = Aged(last_ok, LostAfter)
  /\ contact_age' = Aged(contact_age, RelayAgeMax)
  /\ module_age' = Aged(module_age, RelayAgeMax)
  /\ UNCHANGED <<world, ever_read, relay_view, opened>>

ContactChanges ==
  /\ contact' = ~contact /\ contact_age' = 0
  /\ opened' = (opened \/ ~contact')
  /\ UNCHANGED <<policy, module, task, debounce, last_ok, ever_read,
                 relay_view, module_age>>

ModuleChanges ==
  /\ module' = ~module /\ module_age' = 0
  /\ UNCHANGED <<policy, contact, task, debounce, last_ok, ever_read,
                 relay_view, contact_age, opened>>

RelayInit ==
  /\ policy \in Policies /\ contact \in BOOLEAN /\ module \in BOOLEAN
  /\ task = [at |-> "connect", age |-> 0]
  /\ debounce = [stable |-> FALSE, candidate |-> FALSE, age |-> 0]
  /\ last_ok = 0 /\ ever_read = FALSE
  /\ relay_view = [active |-> FALSE, readable |-> FALSE]
  /\ contact_age = 0 /\ module_age = 0 /\ opened = FALSE

RelayNext ==
  \/ Connects \/ Reads \/ Fails \/ Wakes
  \/ RelayTick \/ ContactChanges \/ ModuleChanges

RelaySpec == RelayInit /\ [][RelayNext]_rvars

-----------------------------------------------------------------------------
\* Properties.

\* The longest way from a module that is back to a read: what the task was
\* in, a pause, a connect and a read.
BackWithin == ConnectTimeout + ReconnectDelay + 2 * Answer

\* A contact that has been what it is for long enough, at a module that has
\* been there for long enough, is what the control loop sees.
ContactIsFollowed ==
  (module /\ module_age > BackWithin + Hold + 2 * (Answer + 1)
          /\ contact_age > BackWithin + Hold + 2 * (Answer + 1))
    => relay_view = [active |-> contact, readable |-> TRUE]

\* A module that is gone for long enough is reported, and dims where the
\* policy says so.
LossIsNoticed ==
  (~module /\ module_age > LostAfter + IoTimeout + ReconnectDelay + ConnectTimeout)
    => ~relay_view.readable /\ (policy = "dim" => relay_view.active)

\* Under "hold" a reduction ends only after the contact was really open, over
\* any sequence of losses and reconnects of the module.
NotLiftedWhileClosed ==
  [][(policy = "hold" /\ relay_view.active /\ ~relay_view'.active)
       => opened]_rvars

\* The control loop dims and releases with the contact, or as the policy for
\* a module that is gone says.
RelayIsFollowed == []ContactIsFollowed /\ []LossIsNoticed /\ NotLiftedWhileClosed
=============================================================================
