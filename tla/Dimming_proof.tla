---------------------------- MODULE Dimming_proof ----------------------------
(* Theorems about Dimming for every value of its constants, with their      *)
(* proofs.  The conjuncts of IInv beyond the properties themselves say how  *)
(* the controller's fields and the history variables hang together between  *)
(* two cycles.                                                              *)
EXTENDS Dimming, TLAPS

\* The mode reported, was_dimmed and the release agree.
ModeInv ==
  /\ was_dimmed <=> status.mode = "Dimmed"
  /\ status.mode = "Releasing" <=> release # None
  /\ last_t = None => ~was_dimmed /\ release = None /\ ended_at = None

\* A release begins at the end of the dimming before it, within the longest
\* wait, and is dropped once its ramp is over.
ReleaseInv ==
  /\ ended_at # None => ended_at <= last_t
  /\ release # None =>
       /\ ended_at # None
       /\ ended_at <= release.at
       /\ release.at <= ended_at + ReleaseDelayMaxS
       /\ last_t < release.at + ReleaseRampS

\* The window holds the latest measurement of every surplus that is not older
\* than the hold time.
WindowInv ==
  \A kw \in SurplusesKw :
    last_seen[kw] # None =>
      /\ last_t # None
      /\ last_seen[kw] <= last_t
      /\ last_t - last_seen[kw] <= SurplusHoldS
           => [t |-> last_seen[kw], kw |-> kw] \in surplus_seen

\* What counts against the contract counts as dimmed.
CountInv == contract_s <= totals.dimmed_s_today

IInv ==
  TypeOK /\ ModeInv /\ ReleaseInv /\ WindowInv /\ CountInv

USE PowerAssumption, TimeAssumption, OptionAssumption

-----------------------------------------------------------------------------

\* The operators of the cycle return what their names say.
LEMMA FloorForType ==
  ASSUME NEW limit \in Nat
  PROVE  FloorFor(limit) \in Nat /\ FloorFor(limit) >= FloorKw
BY DEF FloorFor

\* The accounted time of a cycle is a natural number, at most MaxStepS.
LEMMA ElapsedType ==
  ASSUME TypeOK, NEW t \in Nat, last_t # None => last_t <= t
  PROVE  Elapsed(t) \in Nat /\ Elapsed(t) <= MaxStepS
BY DEF Elapsed, TypeOK

\* The seconds dimmed so far today are a natural number.
LEMMA RolledType ==
  ASSUME TypeOK, NEW day
  PROVE  Rolled(day) \in Nat
BY DEF Rolled, TypeOK

\* The window holds measurements only.
LEMMA MeasuredType ==
  ASSUME TypeOK, NEW t \in Nat, NEW surplus \in SurplusesKw \cup {None}
  PROVE  Measured(t, surplus) \in SUBSET [t : Nat, kw : SurplusesKw]
BY DEF Measured, Remembered, TypeOK

\* The held surplus is one that was measured, or 0.
LEMMA HeldSurplusType ==
  ASSUME TypeOK, NEW t \in Nat, NEW surplus \in SurplusesKw \cup {None},
         NEW held \in HeldSurplus(t, surplus)
  PROVE  held \in Nat
<1>1. CASE surplus = None
  BY <1>1 DEF HeldSurplus
<1>2. CASE surplus # None
  <2>1. PICK m \in Measured(t, surplus) : held = m.kw
    BY <1>2 DEF HeldSurplus
  <2>2. m \in [t : Nat, kw : SurplusesKw]
    BY MeasuredType
  <2> QED
    BY <2>1, <2>2
<1> QED
  BY <1>1, <1>2

\* Nothing in the window is lower than the held surplus.
LEMMA HeldSurplusLowest ==
  ASSUME NEW t, NEW surplus, surplus # None,
         NEW held \in HeldSurplus(t, surplus), NEW m \in Measured(t, surplus)
  PROVE  held <= m.kw
BY DEF HeldSurplus

\* The release of an undimmed cycle is a release or none.
LEMMA ReleaseAfterType ==
  ASSUME TypeOK, NEW t \in Nat,
         NEW wait \in IF was_dimmed THEN ReleaseWaits ELSE {0}
  PROVE  /\ ReleaseAfter(t, wait) \in Release \cup {None}
         /\ was_dimmed =>
              /\ ReleaseAfter(t, wait) # None
              /\ ReleaseAfter(t, wait) \in Release
              /\ t <= ReleaseAfter(t, wait).at
              /\ ReleaseAfter(t, wait).at <= t + ReleaseDelayMaxS
         /\ ~was_dimmed => ReleaseAfter(t, wait) = release
<1>1. CASE was_dimmed
  <2>1. wait \in Nat /\ wait <= ReleaseDelayMaxS
    BY <1>1 DEF ReleaseWaits
  <2>2. ReleaseAfter(t, wait) = [at |-> t + wait, from |-> last_budget_kw]
    BY <1>1 DEF ReleaseAfter
  <2>3. last_budget_kw \in Int
    BY <1>1 DEF TypeOK
  <2>4. ReleaseAfter(t, wait) \in Release
    BY <2>1, <2>2, <2>3 DEF Release
  <2>5. ReleaseAfter(t, wait) \in [at : Int, from : Int]
    BY <2>1, <2>2, <2>3
  <2> QED
    BY <1>1, <2>1, <2>2, <2>4, <2>5
<1>2. CASE ~was_dimmed
  BY <1>2 DEF ReleaseAfter, TypeOK
<1> QED
  BY <1>1, <1>2

\* The ramp has a whole value at any time after its start.
LEMMA RampType ==
  ASSUME NEW rel \in Release, NEW t \in Nat,
         t >= rel.at, t - rel.at < ReleaseRampS
  PROVE  Ramp(rel, t) \in Int
<1>1. ReleaseRampS \in Nat \ {0} /\ t - rel.at \in Nat
  BY DEF Release
<1>2. (RatedLoadsKw - rel.from) * (t - rel.at) \in Int
  BY <1>1 DEF Release
<1> DEFINE n == (RatedLoadsKw - rel.from) * (t - rel.at)
<1>3. ASSUME NEW x \in Int PROVE x \div ReleaseRampS \in Int
  BY <1>1
<1>4. n \div ReleaseRampS \in Int
  BY <1>2, <1>3
<1> QED
  BY <1>4 DEF Ramp, Release

-----------------------------------------------------------------------------
\* What one cycle preserves, part by part.  A cycle reads a later clock.

CycleAt(t) == IF last_t = None THEN t = 0 ELSE last_t < t

\* Account keeps the counts typed, and the contract's share below the total.
LEMMA AccountStep ==
  ASSUME TypeOK, CountInv, NEW t \in Nat, CycleAt(t), NEW day \in Nat,
         NEW dim \in BOOLEAN, NEW emergency \in BOOLEAN,
         Account(t, day, dim, emergency)
  PROVE  /\ totals' \in [day : Nat, dimmed_s_today : Nat]
         /\ contract_s' \in Nat
         /\ CountInv'
<1>1. Elapsed(t) \in Nat
  BY ElapsedType DEF CycleAt, TypeOK
<1>2. Rolled(day) \in Nat
  BY RolledType
<1>3. contract_s \in Nat /\ totals \in [day : Nat, dimmed_s_today : Nat]
  BY DEF TypeOK
<1> QED
  BY <1>1, <1>2, <1>3 DEF Account, CountInv, Rolled

\* The window and its history after a measurement.
LEMMA WindowStep ==
  ASSUME TypeOK, WindowInv, NEW t \in Nat, CycleAt(t),
         NEW surplus \in SurplusesKw \cup {None},
         last_t' = t, surplus_seen' = Measured(t, surplus),
         last_seen' = IF surplus = None THEN last_seen
                      ELSE [last_seen EXCEPT ![surplus] = t]
  PROVE  /\ last_seen' \in [SurplusesKw -> Nat \cup {None}]
         /\ WindowInv'
<1>1. last_seen' \in [SurplusesKw -> Nat \cup {None}]
  BY DEF TypeOK
<1>2. ASSUME NEW kw \in SurplusesKw, last_seen'[kw] # None
      PROVE  /\ last_seen'[kw] <= t
             /\ t - last_seen'[kw] <= SurplusHoldS
                  => [t |-> last_seen'[kw], kw |-> kw] \in Measured(t, surplus)
  <2>0. last_seen \in [SurplusesKw -> Nat \cup {None}] /\ kw # None
    BY DEF TypeOK
  <2>1. CASE kw = surplus
    <3>1. last_seen' = [last_seen EXCEPT ![kw] = t]
      BY <2>0, <2>1
    <3>2. last_seen'[kw] = t
      BY <2>0, <3>1
    <3> QED
      BY <2>0, <2>1, <3>2 DEF Measured
  <2>2. CASE kw # surplus
    <3>1. last_seen'[kw] = last_seen[kw]
      BY <2>0, <2>2
    <3>2. last_seen[kw] \in Nat /\ last_t \in Nat /\ last_t < t
      BY <1>2, <3>1 DEF TypeOK, WindowInv, CycleAt
    <3>3. last_seen[kw] <= last_t
      BY <1>2, <3>1 DEF WindowInv
    <3>4. t - last_seen[kw] <= SurplusHoldS
            => [t |-> last_seen[kw], kw |-> kw] \in surplus_seen
      <4>1. last_t - last_seen[kw] <= SurplusHoldS
              => [t |-> last_seen[kw], kw |-> kw] \in surplus_seen
        BY <1>2, <3>1 DEF WindowInv
      <4> QED
        BY <3>2, <3>3, <4>1
    <3>5. t - last_seen[kw] <= SurplusHoldS
            => [t |-> last_seen[kw], kw |-> kw] \in Remembered(t)
      BY <3>2, <3>3, <3>4 DEF Remembered
    <3> QED
      BY <3>1, <3>2, <3>3, <3>5 DEF Measured
  <2> QED
    BY <2>1, <2>2
<1> QED
  BY <1>1, <1>2 DEF WindowInv

\* A dimmed cycle grants at least the floor, and extra only for what lasted.
LEMMA DimStep ==
  ASSUME TypeOK, NEW t \in Nat, NEW cmd \in Commands,
         NEW surplus \in SurplusesKw \cup {None}, Dim(t, cmd, surplus)
  PROVE  /\ release' = None
         /\ last_budget_kw' \in Int
         /\ last_budget_kw' >= FloorKw - MarginKw
         /\ status' \in [mode : {"Normal", "Dimmed", "Releasing"}, floor_kw : Nat,
                         pv_surplus_kw : SurplusesKw \cup {None}]
         /\ status'.mode = "Dimmed"
         /\ status'.pv_surplus_kw = surplus
         /\ surplus = None => last_budget_kw' + MarginKw - status'.floor_kw = 0
         /\ surplus # None => \A m \in Measured(t, surplus) :
              last_budget_kw' + MarginKw - status'.floor_kw <= m.kw
<1>1. cmd.limit_kw \in Nat
  BY DEF Commands
<1>2. FloorFor(cmd.limit_kw) \in Nat /\ FloorFor(cmd.limit_kw) >= FloorKw
  BY <1>1, FloorForType
<1>3. status' = [mode |-> "Dimmed", floor_kw |-> FloorFor(cmd.limit_kw),
                 pv_surplus_kw |-> surplus]
  BY DEF Dim, StatusOf
<1>4. PICK held \in HeldSurplus(t, surplus) :
        last_budget_kw' = FloorFor(cmd.limit_kw) + held - MarginKw
  BY DEF Dim
<1>5. held \in Nat
  BY HeldSurplusType
<1>6. last_budget_kw' + MarginKw - status'.floor_kw = held
  BY <1>2, <1>3, <1>4, <1>5
<1>7. surplus = None => held = 0
  BY DEF HeldSurplus
<1>8. surplus # None => \A m \in Measured(t, surplus) : held <= m.kw
  BY HeldSurplusLowest
<1> QED
  BY <1>2, <1>3, <1>4, <1>5, <1>6, <1>7, <1>8 DEF Dim

\* An undimmed cycle keeps, starts or ends a release as its clock says.
LEMMA UndimStep ==
  ASSUME TypeOK, ModeInv, ReleaseInv, ReleaseOnTime,
         NEW t \in Nat, CycleAt(t), NEW cmd \in Commands,
         NEW surplus \in SurplusesKw \cup {None},
         last_t' = t, Undim(t, cmd, surplus)
  PROVE  /\ release' \in Release \cup {None}
         /\ last_budget_kw' \in Int \cup {Infinity}
         /\ status' \in [mode : {"Normal", "Dimmed", "Releasing"}, floor_kw : Nat,
                         pv_surplus_kw : SurplusesKw \cup {None}]
         /\ status'.mode # "Dimmed"
         /\ status'.mode = "Releasing" <=> release' # None
         /\ ended_at' \in Nat \cup {None}
         /\ last_t = None => release' = None /\ ended_at' = None
         /\ ReleaseInv'
         /\ ReleaseOnTime'
<1>1. PICK wait \in IF was_dimmed THEN ReleaseWaits ELSE {0} :
        \/ Wait(t, ReleaseAfter(t, wait), cmd, surplus)
        \/ RampUp(t, ReleaseAfter(t, wait), cmd, surplus)
        \/ Unlimited(t, ReleaseAfter(t, wait), cmd, surplus)
  BY DEF Undim
<1> DEFINE rel == ReleaseAfter(t, wait)
<1>2. ended_at' = IF was_dimmed THEN t ELSE ended_at
  BY DEF Undim
<1>3. ended_at' \in Nat \cup {None}
  BY <1>2 DEF TypeOK
<1>4. rel \in Release \cup {None}
  BY ReleaseAfterType
<1>5. ended_at' # None => ended_at' <= t
  BY <1>2 DEF ReleaseInv, CycleAt, TypeOK, ModeInv
<1>6. rel # None => /\ rel \in Release
                    /\ ended_at' \in Nat
                    /\ ended_at' <= rel.at
                    /\ rel.at <= ended_at' + ReleaseDelayMaxS
  <2>1. CASE was_dimmed
    BY <1>2, <2>1, ReleaseAfterType
  <2>2. CASE ~was_dimmed
    <3>1. rel = release /\ ended_at' = ended_at
      BY <1>2, <2>2, ReleaseAfterType
    <3> QED
      BY <1>3, <1>4, <3>1 DEF ReleaseInv
  <2> QED
    BY <2>1, <2>2
<1>7. FloorFor(cmd.limit_kw) \in Nat
  BY FloorForType DEF Commands
<1>8. last_t = None => rel = None /\ ended_at' = None
  BY <1>2, ReleaseAfterType DEF ModeInv
<1>9. rel = None => ~was_dimmed /\ release = None
  BY ReleaseAfterType
<1>10. release # None /\ release \in Release => release.from \in Int
  BY DEF Release
<1> HIDE DEF rel
<1>11. CASE Wait(t, rel, cmd, surplus)
  <2>1. /\ release' = rel /\ rel # None /\ t < rel.at
        /\ last_budget_kw' = rel.from
        /\ status' = [mode |-> "Releasing", floor_kw |-> FloorFor(cmd.limit_kw),
                      pv_surplus_kw |-> surplus]
    BY <1>11 DEF Wait, StatusOf
  <2>2. rel.at \in Nat /\ rel.from \in Int
    BY <1>6, <2>1 DEF Release
  <2>3. ReleaseInv'
    BY <1>5, <1>6, <2>1, <2>2 DEF ReleaseInv
  <2>4. ReleaseOnTime'
    BY <1>6, <2>1, <2>2 DEF ReleaseOnTime
  <2> QED
    BY <1>3, <1>4, <1>7, <1>8, <2>1, <2>2, <2>3, <2>4
<1>12. CASE RampUp(t, rel, cmd, surplus)
  <2>1. /\ release' = rel /\ rel # None /\ t >= rel.at
        /\ t - rel.at < ReleaseRampS
        /\ last_budget_kw' = Ramp(rel, t)
        /\ status' = [mode |-> "Releasing", floor_kw |-> FloorFor(cmd.limit_kw),
                      pv_surplus_kw |-> surplus]
    BY <1>12 DEF RampUp, StatusOf
  <2>2. rel.at \in Nat
    BY <1>6, <2>1 DEF Release
  <2>3. Ramp(rel, t) \in Int
    BY <1>6, <2>1, RampType
  <2>4. ReleaseInv'
    BY <1>5, <1>6, <2>1, <2>2 DEF ReleaseInv
  <2>5. ReleaseOnTime'
    BY <1>6, <2>1, <2>2 DEF ReleaseOnTime
  <2> QED
    BY <1>3, <1>4, <1>7, <1>8, <2>1, <2>3, <2>4, <2>5
<1>13. CASE Unlimited(t, rel, cmd, surplus)
  <2>1. /\ release' = None
        /\ rel # None => t - rel.at >= ReleaseRampS
        /\ last_budget_kw' = Infinity
        /\ status' = [mode |-> "Normal", floor_kw |-> FloorFor(cmd.limit_kw),
                      pv_surplus_kw |-> surplus]
    BY <1>13 DEF Unlimited, StatusOf
  <2>2. ReleaseInv'
    BY <1>5, <2>1 DEF ReleaseInv
  <2>3. ended_at' # None => t >= ended_at' + ReleaseRampS
    <3>1. CASE rel # None
      <4>1. rel.at \in Nat
        BY <1>6, <3>1 DEF Release
      <4> QED
        BY <1>6, <2>1, <3>1, <4>1
    <3>2. CASE rel = None
      <4>1. ~was_dimmed /\ release = None /\ status.mode = "Normal"
        BY <1>9, <3>2 DEF ModeInv, TypeOK
      <4>2. ended_at' = ended_at
        BY <1>2, <4>1
      <4> QED
        BY <1>3, <4>1, <4>2 DEF ReleaseOnTime, CycleAt, TypeOK, ModeInv
    <3> QED
      BY <3>1, <3>2
  <2>4. ReleaseOnTime'
    BY <2>1, <2>3 DEF ReleaseOnTime
  <2> QED
    BY <1>3, <1>7, <1>8, <2>1, <2>2, <2>4
<1> QED
  BY <1>1, <1>11, <1>12, <1>13 DEF rel

-----------------------------------------------------------------------------
\* The properties ride along with the invariant.
Safety == SurplusMustLast /\ ReleaseOnTime /\ ContractDayLimit

\* The initial state satisfies the invariant and the safety properties.
LEMMA InitInv == Init => IInv /\ Safety
<1> SUFFICES ASSUME Init PROVE IInv /\ Safety
  OBVIOUS
<1>1. TypeOK
  BY DEF Init, TypeOK
<1>2. ModeInv /\ ReleaseInv /\ WindowInv /\ CountInv
  BY DEF Init, ModeInv, ReleaseInv, WindowInv, CountInv
<1>3. Safety
  BY DEF Init, Safety, SurplusMustLast, ReleaseOnTime, ContractDayLimit
<1> QED
  BY <1>1, <1>2, <1>3 DEF IInv

\* A dimming without emergency starts its cycle below the day's limit, so it
\* ends it less than one cycle above.
LEMMA ContractStep ==
  ASSUME TypeOK, CountInv, ContractDayLimit, NEW t \in Nat, CycleAt(t),
         NEW day \in Nat, NEW cmd \in Commands, NEW dim \in BOOLEAN,
         dim = (cmd.dim /\ ~DayLimitReached(cmd, Rolled(day))),
         Account(t, day, dim, cmd.emergency)
  PROVE  ContractDayLimit'
<1> SUFFICES ASSUME IsContract, DayLimitS > 0
             PROVE  contract_s' < DayLimitS + MaxStepS
  BY DEF ContractDayLimit
<1> DEFINE before == IF totals.day = day THEN contract_s ELSE 0
<1>1. Elapsed(t) \in Nat /\ Elapsed(t) <= MaxStepS
  BY ElapsedType DEF CycleAt, TypeOK
<1>2. Rolled(day) \in Nat /\ before \in Nat /\ before <= Rolled(day)
  <2>1. totals.dimmed_s_today \in Nat /\ contract_s \in Nat
    BY DEF TypeOK
  <2> QED
    BY <2>1 DEF Rolled, CountInv
<1>3. before < DayLimitS + MaxStepS
  <2>1. contract_s < DayLimitS + MaxStepS
    BY DEF ContractDayLimit
  <2> QED
    BY <2>1
<1>4. contract_s' = before + (IF dim /\ ~cmd.emergency THEN Elapsed(t) ELSE 0)
  BY DEF Account
<1>5. CASE dim /\ ~cmd.emergency
  <2>0. ~DayLimitReached(cmd, Rolled(day)) /\ cmd.dim
    BY <1>5
  <2>1. Rolled(day) < DayLimitS
    BY <1>2, <1>5, <2>0 DEF DayLimitReached
  <2> QED
    BY <1>1, <1>2, <1>4, <1>5, <2>1
<1>6. CASE ~(dim /\ ~cmd.emergency)
  BY <1>2, <1>3, <1>4, <1>6
<1> QED
  BY <1>5, <1>6

\* One cycle keeps the invariant and the properties.
LEMMA StepInv ==
  ASSUME IInv, Safety, NEW t \in Nat, CycleAt(t), NEW day \in Nat,
         NEW cmd \in Commands, NEW surplus \in SurplusesKw \cup {None},
         Step(t, day, cmd, surplus)
  PROVE  IInv' /\ Safety'
<1> USE DEF IInv, Safety
<1> DEFINE dim == cmd.dim /\ ~DayLimitReached(cmd, Rolled(day))
<1>1. /\ last_t' = t
      /\ surplus_seen' = Measured(t, surplus)
      /\ was_dimmed' = dim
      /\ Account(t, day, dim, cmd.emergency)
      /\ IF dim THEN Dim(t, cmd, surplus) ELSE Undim(t, cmd, surplus)
      /\ last_seen' = IF surplus = None THEN last_seen
                      ELSE [last_seen EXCEPT ![surplus] = t]
  BY DEF Step
<1>2. dim \in BOOLEAN /\ cmd.emergency \in BOOLEAN
  BY DEF Commands, DayLimitReached
<1> HIDE DEF dim
<1>3. /\ totals' \in [day : Nat, dimmed_s_today : Nat]
      /\ contract_s' \in Nat
      /\ CountInv'
  BY <1>1, <1>2, AccountStep
<1>4. /\ last_seen' \in [SurplusesKw -> Nat \cup {None}]
      /\ WindowInv'
  BY <1>1, WindowStep
<1>5. surplus_seen' \in SUBSET [t : Nat, kw : SurplusesKw]
  BY <1>1, MeasuredType
<1>6. ContractDayLimit'
  BY <1>1, <1>2, ContractStep DEF dim
<1>7. CASE dim
  <2>1. Dim(t, cmd, surplus)
    BY <1>1, <1>7
  <2>2. ended_at' = ended_at
    BY <2>1 DEF Dim
  <2>3. /\ release' = None
        /\ last_budget_kw' \in Int
        /\ last_budget_kw' >= FloorKw - MarginKw
        /\ status' \in [mode : {"Normal", "Dimmed", "Releasing"}, floor_kw : Nat,
                        pv_surplus_kw : SurplusesKw \cup {None}]
        /\ status'.mode = "Dimmed"
        /\ status'.pv_surplus_kw = surplus
        /\ surplus = None => last_budget_kw' + MarginKw - status'.floor_kw = 0
        /\ surplus # None => \A m \in Measured(t, surplus) :
             last_budget_kw' + MarginKw - status'.floor_kw <= m.kw
    BY <2>1, DimStep
  <2>4. TypeOK'
    BY <1>1, <1>2, <1>3, <1>4, <1>5, <2>2, <2>3 DEF TypeOK
  <2>5. ModeInv'
    BY <1>1, <1>7, <2>2, <2>3 DEF ModeInv
  <2>6. ReleaseInv'
    BY <1>1, <2>2, <2>3 DEF ReleaseInv, CycleAt, TypeOK, ModeInv
  <2>7. ReleaseOnTime'
    BY <2>3 DEF ReleaseOnTime
  <2>8. SurplusMustLast'
    <3> DEFINE extra == last_budget_kw' + MarginKw - status'.floor_kw
    <3>1. ASSUME NEW kw \in SurplusesKw, surplus # None,
                 last_seen'[kw] # None, last_t' - last_seen'[kw] <= SurplusHoldS
          PROVE  extra <= kw
      <4>1. [t |-> last_seen'[kw], kw |-> kw] \in Measured(t, surplus)
        BY <1>1, <1>4, <3>1 DEF WindowInv
      <4> QED
        BY <2>3, <3>1, <4>1
    <3> QED
      BY <2>3, <3>1 DEF SurplusMustLast
  <2> QED
    BY <1>3, <1>4, <1>6, <2>4, <2>5, <2>6, <2>7, <2>8
<1>8. CASE ~dim
  <2>1. Undim(t, cmd, surplus)
    BY <1>1, <1>8
  <2>2. /\ release' \in Release \cup {None}
        /\ last_budget_kw' \in Int \cup {Infinity}
        /\ status' \in [mode : {"Normal", "Dimmed", "Releasing"}, floor_kw : Nat,
                        pv_surplus_kw : SurplusesKw \cup {None}]
        /\ status'.mode # "Dimmed"
        /\ status'.mode = "Releasing" <=> release' # None
        /\ ended_at' \in Nat \cup {None}
        /\ last_t = None => release' = None /\ ended_at' = None
        /\ ReleaseInv'
        /\ ReleaseOnTime'
    BY <1>1, <2>1, UndimStep
  <2>3. TypeOK'
    BY <1>1, <1>2, <1>3, <1>4, <1>5, <1>8, <2>2 DEF TypeOK
  <2>4. ModeInv'
    BY <1>1, <1>8, <2>2 DEF ModeInv
  <2>5. SurplusMustLast'
    BY <2>2 DEF SurplusMustLast
  <2> QED
    BY <1>3, <1>4, <1>6, <2>2, <2>3, <2>4, <2>5
<1> QED
  BY <1>7, <1>8

\* Every step preserves them.
LEMMA NextInv == IInv /\ Safety /\ [Next]_vars => IInv' /\ Safety'
<1> SUFFICES ASSUME IInv, Safety, [Next]_vars PROVE IInv' /\ Safety'
  OBVIOUS
<1>1. CASE NextCycle
  <2>1. PICK cmd \in Commands, surplus \in SurplusesKw \cup {None},
             day \in {totals.day, totals.day + 1} :
          \/ last_t = None /\ Step(0, day, cmd, surplus)
          \/ \E d \in StepLengths :
                last_t # None /\ Step(last_t + d, day, cmd, surplus)
    BY <1>1 DEF NextCycle
  <2>2. day \in Nat
    BY DEF IInv, TypeOK
  <2>3. CASE last_t = None /\ Step(0, day, cmd, surplus)
    <3>1. CycleAt(0)
      BY <2>3 DEF CycleAt
    <3> QED
      BY <2>2, <2>3, <3>1, StepInv
  <2>4. CASE \E d \in StepLengths :
               last_t # None /\ Step(last_t + d, day, cmd, surplus)
    <3>1. PICK d \in StepLengths :
            last_t # None /\ Step(last_t + d, day, cmd, surplus)
      BY <2>4
    <3>2. last_t + d \in Nat /\ CycleAt(last_t + d)
      BY <3>1 DEF CycleAt, IInv, TypeOK
    <3> QED
      BY <2>2, <3>1, <3>2, StepInv
  <2> QED
    BY <2>1, <2>3, <2>4
<1>2. CASE UNCHANGED vars
  <2>1. IInv'
    BY <1>2 DEF vars, history, IInv, TypeOK, ModeInv, ReleaseInv, WindowInv,
                CountInv
  <2>2. Safety'
    BY <1>2 DEF vars, history, Safety, SurplusMustLast, ReleaseOnTime,
                ContractDayLimit
  <2> QED
    BY <2>1, <2>2
<1> QED
  BY <1>1, <1>2 DEF Next, EndOfTime

\* They hold in every reachable state.
LEMMA Invariance == Spec => [](IInv /\ Safety)
BY InitInv, NextInv, PTL DEF Spec

\* The type invariant, with the legal floor as the least a dimmed site gets
\* (Controller::step, floor_for).
THEOREM TypeCorrect == Spec => []TypeOK
<1>1. IInv => TypeOK
  BY DEF IInv
<1> QED
  BY <1>1, Invariance, PTL

\* Power above the floor only for surplus that lasted the whole hold time.
THEOREM SurplusMustLastHolds == Spec => []SurplusMustLast
<1>1. Safety => SurplusMustLast
  BY DEF Safety
<1> QED
  BY <1>1, Invariance, PTL

\* The release takes at least the ramp and at most the longest wait and the
\* ramp.
THEOREM ReleaseOnTimeHolds == Spec => []ReleaseOnTime
<1>1. Safety => ReleaseOnTime
  BY DEF Safety
<1> QED
  BY <1>1, Invariance, PTL

\* A contract is not used beyond its daily limit without an emergency.
THEOREM ContractDayLimitHolds == Spec => []ContractDayLimit
<1>1. Safety => ContractDayLimit
  BY DEF Safety
<1> QED
  BY <1>1, Invariance, PTL

-----------------------------------------------------------------------------
\* The ramp.  Powers are whole units here and floats in the code, so its slope
\* is exact only if the units are fine enough for every budget it can start
\* from; a coarser unit adds the rounding of the division, and nothing else.

\* The ramp from a budget gains whole units in every second.
Exact(from) ==
  \E slope \in Int : RatedLoadsKw - from = slope * ReleaseRampS

\* Every budget a dimming can end with has an exact ramp.
RampIsExact ==
  ReleaseRampS > 0 =>
    \A limit \in LimitsKw, held \in SurplusesKw \cup {0} :
      Exact(FloorFor(limit) + held - MarginKw)

\* A release starts from a dimmed budget, and the budget of a release is what
\* its clock says.
RampInv ==
  /\ was_dimmed => last_budget_kw \in Int /\ (ReleaseRampS > 0 => Exact(last_budget_kw))
  /\ release # None =>
       /\ ReleaseRampS > 0 => Exact(release.from)
       /\ last_budget_kw = IF last_t < release.at THEN release.from
                           ELSE Ramp(release, last_t)

\* A ramp without rounding is a line.
LEMMA ExactRamp ==
  ASSUME NEW rel \in Release, NEW t \in Nat, NEW slope \in Int, ReleaseRampS > 0,
         RatedLoadsKw - rel.from = slope * ReleaseRampS
  PROVE  Ramp(rel, t) = rel.from + slope * (t - rel.at)
<1> DEFINE n == t - rel.at
           gained == slope * n
<1>1. n \in Int /\ slope * n \in Int /\ ReleaseRampS \in Nat \ {0} /\ rel.from \in Int
  BY DEF Release
<1>2. (slope * ReleaseRampS) * n = (slope * n) * ReleaseRampS
  BY <1>1
<1>3. ASSUME NEW m \in Int
      PROVE  (m * ReleaseRampS) \div ReleaseRampS = m
  BY <1>1
<1>4. ((slope * n) * ReleaseRampS) \div ReleaseRampS = slope * n
  BY <1>1, <1>3
<1> QED
  BY <1>2, <1>4 DEF Ramp

\* What a line of so many seconds gains is within its slope times more seconds.
LEMMA GainBound ==
  ASSUME NEW slope \in Int, NEW n \in Nat, NEW seconds \in Nat, n <= seconds,
         NEW s \in Nat, NEW rise \in Int, rise = slope * s
  PROVE  (slope * n) * s <= IF rise > 0 THEN rise * seconds ELSE 0
<1>1. (slope * n) * s = rise * n
  OBVIOUS
<1>2. rise > 0 => rise * n <= rise * seconds
  OBVIOUS
<1>3. rise <= 0 => rise * n <= 0
  OBVIOUS
<1> QED
  BY <1>1, <1>2, <1>3

\* Nothing gained is within any slope.
LEMMA NoGain ==
  ASSUME NEW rise \in Int, NEW seconds \in Nat
  PROVE  0 <= IF rise > 0 THEN rise * seconds ELSE 0
OBVIOUS

\* A dimmed cycle ends with one of the budgets the ramp is exact from.
LEMMA DimRamp ==
  ASSUME TypeOK, RampIsExact, NEW t \in Nat, NEW cmd \in Commands,
         NEW surplus \in SurplusesKw \cup {None}, Dim(t, cmd, surplus)
  PROVE  ReleaseRampS > 0 => Exact(last_budget_kw')
<1>1. PICK held \in HeldSurplus(t, surplus) :
        last_budget_kw' = FloorFor(cmd.limit_kw) + held - MarginKw
  BY DEF Dim
<1>2. held \in SurplusesKw \cup {0}
  <2>1. CASE surplus = None
    BY <2>1 DEF HeldSurplus
  <2>2. CASE surplus # None
    <3>1. PICK m \in Measured(t, surplus) : held = m.kw
      BY <2>2 DEF HeldSurplus
    <3> QED
      BY <3>1, MeasuredType
  <2> QED
    BY <2>1, <2>2
<1>3. cmd.limit_kw \in LimitsKw
  BY DEF Commands
<1> QED
  BY <1>1, <1>2, <1>3 DEF RampIsExact

\* What the loads may gain in a cycle: the slope of the ramp times its length.
Gradual ==
  (UsableKw' - UsableKw) * ReleaseRampS
    <= (IF RatedLoadsKw > ReleaseFromKw
        THEN (RatedLoadsKw - ReleaseFromKw) * (last_t' - last_t) ELSE 0)

\* An undimmed cycle right after a dimming waits or starts the ramp, unless
\* there is none: no power is gained.
LEMMA FirstUndimmed ==
  ASSUME IInv, RampInv, NEW t \in Nat, CycleAt(t), was_dimmed,
         NEW cmd \in Commands, NEW surplus \in SurplusesKw \cup {None},
         last_t' = t, Undim(t, cmd, surplus)
  PROVE  /\ Gradual
         /\ release' # None =>
              /\ ReleaseRampS > 0 => Exact(release'.from)
              /\ last_budget_kw' = IF t < release'.at THEN release'.from
                                   ELSE Ramp(release', t)
<1>1. PICK wait \in IF was_dimmed THEN ReleaseWaits ELSE {0} :
        \/ Wait(t, ReleaseAfter(t, wait), cmd, surplus)
        \/ RampUp(t, ReleaseAfter(t, wait), cmd, surplus)
        \/ Unlimited(t, ReleaseAfter(t, wait), cmd, surplus)
  BY DEF Undim
<1> DEFINE rel == ReleaseAfter(t, wait)
           budget == last_budget_kw
<1>2. /\ status.mode = "Dimmed" /\ last_t \in Nat /\ last_t < t
      /\ budget \in Int /\ TypeOK
      /\ ReleaseRampS > 0 => Exact(budget)
  BY DEF IInv, ModeInv, RampInv, CycleAt, TypeOK
<1>3. rel \in Release /\ rel # None /\ rel.from = budget /\ rel.at \in Nat /\ t <= rel.at
  BY <1>2, ReleaseAfterType DEF ReleaseAfter, Release
<1>4. UsableKw = budget /\ ReleaseFromKw = budget
  BY <1>2 DEF UsableKw, ReleaseFromKw
<1>5. ASSUME (UsableKw' - UsableKw) * ReleaseRampS = 0
      PROVE  Gradual
  <2>1. RatedLoadsKw - budget \in Int /\ t - last_t \in Nat
    BY <1>2
  <2> QED
    BY <1>2, <1>4, <1>5, <2>1, NoGain DEF Gradual
<1> HIDE DEF rel
<1>6. CASE Wait(t, rel, cmd, surplus)
  <2>1. release' = rel /\ t < rel.at /\ last_budget_kw' = budget /\ status'.mode = "Releasing"
    BY <1>3, <1>6 DEF Wait, StatusOf
  <2>2. UsableKw' = budget
    BY <2>1 DEF UsableKw
  <2> QED
    BY <1>2, <1>3, <1>4, <1>5, <2>1, <2>2
<1>7. CASE RampUp(t, rel, cmd, surplus)
  <2>1. /\ release' = rel /\ t >= rel.at /\ t - rel.at < ReleaseRampS
        /\ last_budget_kw' = Ramp(rel, t) /\ status'.mode = "Releasing"
    BY <1>7 DEF RampUp, StatusOf
  <2>2. t - rel.at = 0 /\ ReleaseRampS > 0
    BY <1>3, <2>1
  <2>3. PICK slope \in Int : RatedLoadsKw - rel.from = slope * ReleaseRampS
    BY <1>2, <1>3, <2>2 DEF Exact
  <2>4. Ramp(rel, t) = rel.from + slope * (t - rel.at)
    BY <1>3, <2>2, <2>3, ExactRamp
  <2>5. Ramp(rel, t) = budget
    BY <1>2, <1>3, <2>2, <2>4
  <2>6. UsableKw' = budget
    BY <2>1, <2>5 DEF UsableKw
  <2> QED
    BY <1>2, <1>3, <1>4, <1>5, <2>1, <2>6
<1>8. CASE Unlimited(t, rel, cmd, surplus)
  <2>1. release' = None /\ status'.mode = "Normal" /\ t - rel.at >= ReleaseRampS
    BY <1>3, <1>8 DEF Unlimited, StatusOf
  <2>2. ReleaseRampS = 0
    BY <1>3, <2>1
  <2>3. UsableKw' = RatedLoadsKw
    BY <2>1 DEF UsableKw
  <2>4. (UsableKw' - UsableKw) * ReleaseRampS = 0
    BY <1>2, <1>4, <2>2, <2>3
  <2> QED
    BY <1>5, <2>1, <2>4
<1> QED
  BY <1>1, <1>6, <1>7, <1>8 DEF rel

\* A release under way gains what the seconds of the cycle within its ramp give.
LEMMA ReleaseGoesOn ==
  ASSUME IInv, RampInv, NEW t \in Nat, CycleAt(t), ~was_dimmed, release # None,
         NEW cmd \in Commands, NEW surplus \in SurplusesKw \cup {None},
         last_t' = t, Undim(t, cmd, surplus)
  PROVE  /\ Gradual
         /\ release' # None =>
              /\ ReleaseRampS > 0 => Exact(release'.from)
              /\ last_budget_kw' = IF t < release'.at THEN release'.from
                                   ELSE Ramp(release', t)
<1>1. PICK wait \in IF was_dimmed THEN ReleaseWaits ELSE {0} :
        \/ Wait(t, ReleaseAfter(t, wait), cmd, surplus)
        \/ RampUp(t, ReleaseAfter(t, wait), cmd, surplus)
        \/ Unlimited(t, ReleaseAfter(t, wait), cmd, surplus)
  BY DEF Undim
<1>2. ReleaseAfter(t, wait) = release
  BY DEF ReleaseAfter
<1> DEFINE from == release.from
           at == release.at
           rise == RatedLoadsKw - from
           before == IF last_t < at THEN 0 ELSE last_t - at
           after == IF t < at THEN 0 ELSE t - at
<1>3. /\ status.mode = "Releasing" /\ last_t \in Nat /\ last_t < t
      /\ release \in Release /\ from \in Int /\ at \in Nat /\ rise \in Int
      /\ t - last_t \in Nat /\ ReleaseRampS \in Nat
      /\ last_t < at + ReleaseRampS
  BY DEF IInv, ModeInv, ReleaseInv, CycleAt, TypeOK, Release
<1>4. UsableKw = last_budget_kw /\ ReleaseFromKw = from
  BY <1>3 DEF UsableKw, ReleaseFromKw
<1>5. ASSUME (UsableKw' - UsableKw) * ReleaseRampS
               <= IF rise > 0 THEN rise * (t - last_t) ELSE 0
      PROVE  Gradual
  <2>1. RatedLoadsKw > from <=> rise > 0
    BY <1>3
  <2> QED
    BY <1>4, <1>5, <2>1 DEF Gradual
<1>6. ASSUME ReleaseRampS > 0
      PROVE  \E slope \in Int :
               /\ rise = slope * ReleaseRampS
               /\ last_budget_kw = from + slope * before
               /\ t >= at => Ramp(release, t) = from + slope * (t - at)
  <2>1. PICK slope \in Int : rise = slope * ReleaseRampS
    BY <1>6 DEF RampInv, Exact
  <2>2. \A u \in Nat : Ramp(release, u) = from + slope * (u - at)
    BY <1>3, <1>6, <2>1, ExactRamp
  <2>3. last_budget_kw = IF last_t < at THEN from ELSE Ramp(release, last_t)
    BY DEF RampInv
  <2>4. last_budget_kw = from + slope * before
    <3>1. slope * 0 = 0
      BY <2>1
    <3> QED
      BY <1>3, <2>2, <2>3, <3>1
  <2> QED
    BY <2>1, <2>2, <2>4
<1>7. ASSUME NEW slope \in Int, rise = slope * ReleaseRampS,
             last_budget_kw = from + slope * before,
             NEW n \in Nat, before <= n, n - before <= t - last_t,
             UsableKw' = from + slope * n
      PROVE  Gradual
  <2>1. before \in Nat /\ n - before \in Nat
    BY <1>3, <1>7
  <2>2. slope * n - slope * before = slope * (n - before)
    BY <1>3, <1>7, <2>1
  <2>3. UsableKw' - UsableKw = slope * (n - before)
    BY <1>3, <1>4, <1>7, <2>1, <2>2
  <2>4. (slope * (n - before)) * ReleaseRampS
          <= IF rise > 0 THEN rise * (t - last_t) ELSE 0
    BY <1>3, <1>7, <2>1, GainBound
  <2> QED
    BY <1>5, <2>3, <2>4
<1>8. CASE Wait(t, release, cmd, surplus)
  <2>1. /\ release' = release /\ t < at /\ last_budget_kw' = from
        /\ status'.mode = "Releasing"
    BY <1>8 DEF Wait, StatusOf
  <2>2. UsableKw' = from /\ UsableKw = from
    BY <1>3, <1>4, <2>1 DEF UsableKw, RampInv
  <2>3. (UsableKw' - UsableKw) * ReleaseRampS = 0
    BY <1>3, <2>2
  <2>4. Gradual
    BY <1>3, <1>5, <2>3, NoGain
  <2> QED
    BY <2>1, <2>4 DEF RampInv
<1>9. CASE RampUp(t, release, cmd, surplus)
  <2>1. /\ release' = release /\ t >= at /\ t - at < ReleaseRampS
        /\ last_budget_kw' = Ramp(release, t) /\ status'.mode = "Releasing"
    BY <1>9 DEF RampUp, StatusOf
  <2>2. PICK slope \in Int :
          /\ rise = slope * ReleaseRampS
          /\ last_budget_kw = from + slope * before
          /\ t >= at => Ramp(release, t) = from + slope * (t - at)
    BY <1>3, <1>6, <2>1
  <2>3. UsableKw' = from + slope * (t - at)
    BY <2>1, <2>2 DEF UsableKw
  <2>4. t - at \in Nat /\ before <= t - at /\ (t - at) - before <= t - last_t
    BY <1>3, <2>1
  <2>5. Gradual
    BY <1>7, <2>2, <2>3, <2>4
  <2> QED
    BY <1>3, <2>1, <2>5 DEF RampInv
<1>10. CASE Unlimited(t, release, cmd, surplus)
  <2>1. release' = None /\ status'.mode = "Normal" /\ t - at >= ReleaseRampS
    BY <1>10 DEF Unlimited, StatusOf
  <2>2. UsableKw' = RatedLoadsKw /\ RatedLoadsKw = from + rise
    BY <1>3, <2>1 DEF UsableKw
  <2>3. CASE ReleaseRampS > 0
    <3>1. PICK slope \in Int :
            /\ rise = slope * ReleaseRampS
            /\ last_budget_kw = from + slope * before
      BY <1>6, <2>3
    <3>2. before <= ReleaseRampS /\ ReleaseRampS - before <= t - last_t
      BY <1>3, <2>1
    <3> QED
      BY <1>3, <1>7, <2>1, <2>2, <3>1, <3>2
  <2>4. CASE ReleaseRampS = 0
    <3>1. UsableKw = from
      BY <1>3, <1>4, <2>4 DEF RampInv
    <3>2. (UsableKw' - UsableKw) * ReleaseRampS = 0
      BY <1>3, <2>2, <2>4, <3>1
    <3>3. Gradual
      BY <1>3, <1>5, <3>2, NoGain
    <3> QED
      BY <2>1, <3>3
  <2> QED
    BY <1>3, <2>3, <2>4
<1> QED
  BY <1>1, <1>2, <1>8, <1>9, <1>10

\* One cycle keeps what a release is, and gains what its slope allows.
LEMMA StepRamp ==
  ASSUME IInv, RampInv, RampIsExact, NEW t \in Nat, CycleAt(t), NEW day \in Nat,
         NEW cmd \in Commands, NEW surplus \in SurplusesKw \cup {None},
         Step(t, day, cmd, surplus)
  PROVE  /\ RampInv'
         /\ status.mode # "Normal" /\ status'.mode # "Dimmed" => Gradual
<1> DEFINE dim == cmd.dim /\ ~DayLimitReached(cmd, Rolled(day))
<1>1. /\ last_t' = t /\ was_dimmed' = dim
      /\ IF dim THEN Dim(t, cmd, surplus) ELSE Undim(t, cmd, surplus)
  BY DEF Step
<1>2. TypeOK /\ ModeInv
  BY DEF IInv
<1> HIDE DEF dim
<1>3. CASE dim
  <2>1. /\ release' = None /\ last_budget_kw' \in Int
        /\ status'.mode = "Dimmed"
    BY <1>1, <1>2, <1>3, DimStep
  <2>2. ReleaseRampS > 0 => Exact(last_budget_kw')
    BY <1>1, <1>2, <1>3, DimRamp
  <2>3. RampInv'
    BY <1>1, <2>1, <2>2 DEF RampInv, Exact
  <2> QED
    BY <2>1, <2>3
<1>4. CASE ~dim
  <2>1. Undim(t, cmd, surplus) /\ was_dimmed' = FALSE
    BY <1>1, <1>4
  <2>2. CASE was_dimmed \/ release # None
    <3>1. /\ Gradual
          /\ release' # None =>
               /\ ReleaseRampS > 0 => Exact(release'.from)
               /\ last_budget_kw' = IF t < release'.at THEN release'.from
                                    ELSE Ramp(release', t)
      BY <1>1, <2>1, <2>2, FirstUndimmed, ReleaseGoesOn
    <3>2. RampInv'
      BY <1>1, <2>1, <3>1 DEF RampInv, Exact, Ramp
    <3> QED
      BY <3>1, <3>2
  <2>3. CASE ~was_dimmed /\ release = None
    <3>1. status.mode = "Normal"
      BY <1>2, <2>3 DEF ModeInv, TypeOK
    <3>2. PICK wait \in IF was_dimmed THEN ReleaseWaits ELSE {0} :
            \/ Wait(t, ReleaseAfter(t, wait), cmd, surplus)
            \/ RampUp(t, ReleaseAfter(t, wait), cmd, surplus)
            \/ Unlimited(t, ReleaseAfter(t, wait), cmd, surplus)
      BY <2>1 DEF Undim
    <3>3. ReleaseAfter(t, wait) = None
      BY <2>3 DEF ReleaseAfter
    <3>4. release' = None
      BY <3>2, <3>3 DEF Wait, RampUp, Unlimited
    <3> QED
      BY <2>1, <3>1, <3>4 DEF RampInv
  <2> QED
    BY <2>2, <2>3
<1> QED
  BY <1>3, <1>4

\* Every step keeps the invariant, and is gradual or changes nothing.
LEMMA NextRamp ==
  ASSUME RampIsExact
  PROVE  IInv /\ RampInv /\ [Next]_vars =>
           /\ RampInv'
           /\ [status.mode # "Normal" /\ status'.mode # "Dimmed" => Gradual]_vars
<1> SUFFICES ASSUME IInv, RampInv, [Next]_vars
             PROVE  /\ RampInv'
                    /\ [status.mode # "Normal" /\ status'.mode # "Dimmed" => Gradual]_vars
  OBVIOUS
<1>1. CASE NextCycle
  <2>1. PICK cmd \in Commands, surplus \in SurplusesKw \cup {None},
             day \in {totals.day, totals.day + 1} :
          \/ last_t = None /\ Step(0, day, cmd, surplus)
          \/ \E d \in StepLengths :
                last_t # None /\ Step(last_t + d, day, cmd, surplus)
    BY <1>1 DEF NextCycle
  <2>2. day \in Nat
    BY DEF IInv, TypeOK
  <2>3. PICK t \in Nat : CycleAt(t) /\ Step(t, day, cmd, surplus)
    <3>1. CASE last_t = None
      BY <2>1, <3>1 DEF CycleAt
    <3>2. CASE last_t # None
      <4>1. PICK d \in StepLengths : Step(last_t + d, day, cmd, surplus)
        BY <2>1, <3>2
      <4>2. last_t + d \in Nat /\ CycleAt(last_t + d)
        BY <3>2 DEF CycleAt, IInv, TypeOK
      <4> QED
        BY <4>1, <4>2
    <3> QED
      BY <3>1, <3>2
  <2> QED
    BY <2>2, <2>3, StepRamp
<1>2. CASE UNCHANGED vars
  BY <1>2 DEF vars, RampInv, Exact, Ramp
<1> QED
  BY <1>1, <1>2 DEF Next, EndOfTime

\* The return to normal is gradual: from the random wait over the ramp to its
\* end, whatever stalls, refusals and repeated dimmings come in between, the
\* loads gain no more than the slope of the ramp times the time that passed
\* (Controller::step, release_ramp_s).
THEOREM GradualReleaseHolds ==
  ASSUME RampIsExact
  PROVE  Spec => GradualRelease
<1>1. Init => RampInv
  BY DEF Init, RampInv
<1>2. IInv /\ RampInv /\ [Next]_vars => RampInv'
  BY NextRamp
<1>3. IInv /\ RampInv /\ [Next]_vars =>
        [status.mode # "Normal" /\ status'.mode # "Dimmed" =>
          (UsableKw' - UsableKw) * ReleaseRampS
            <= (IF RatedLoadsKw > ReleaseFromKw
                THEN (RatedLoadsKw - ReleaseFromKw) * (last_t' - last_t) ELSE 0)]_vars
  BY NextRamp DEF Gradual
<1> QED
  BY <1>1, <1>2, <1>3, Invariance, PTL DEF Spec, GradualRelease

=============================================================================
