----------------------------- MODULE Compliance -----------------------------
(***************************************************************************)
(* The evidence of each reduction (crates/control/compliance.rs) and its   *)
(* files (crates/gateway/reports.rs).  The recorder sees every control     *)
(* cycle, opens an event when a reduction starts and closes it with a      *)
(* verdict when the reduction ends; each report names the digest of the    *)
(* one before.  The files outlive the process, the recorder does not: a    *)
(* restart reads from the newest file where the chain stands.              *)
(*                                                                         *)
(* What the controller observes in a cycle is an input here, except that   *)
(* the floor is positive and the draw may be unknown (None).  Exceeded and *)
(* unverified seconds are abstracted to whether there are any.  A digest   *)
(* is the report itself: SHA-256 is taken to be injective.                 *)
(***************************************************************************)
EXTENDS Integers, Sequences

CONSTANTS
  Grace,         \* grace_s, in ticks
  KeepEvery,     \* the second that thins the samples, in ticks
  MaxSamples,    \* MAX_SAMPLES
  Tolerance,     \* TOLERANCE_KW
  Floors,        \* the floors in force the controller may report
  Draws,         \* the draws from the grid it may report
  Emergencies,   \* whether the DSO may set the emergency flag
  StepLengths,   \* ticks between two cycles
  NumberBase,    \* 10: the number of a file name is decimal
  NumberLimit,   \* 10^4: from here on it has more than four digits
  WritesMayFail, \* whether a file may fail to be written
  Genesis,       \* GENESIS
  MaxReports,    \* bound: no event starts after so many reports
  MaxTime,       \* bound: the last cycle is before this
  None           \* Option::None

ASSUME RecorderAssumption ==
  /\ Grace \in Nat /\ KeepEvery \in Nat \ {0} /\ MaxSamples \in Nat \ {0}
  /\ Tolerance \in Nat /\ Floors \subseteq Nat /\ Draws \subseteq Nat
  /\ Emergencies \subseteq BOOLEAN /\ WritesMayFail \in BOOLEAN
  /\ StepLengths \subseteq Nat \ {0} /\ MaxTime \in Nat
  /\ None \notin Nat

\* Beyond one digit more, the order of the names is not modelled.
ASSUME NumberAssumption ==
  /\ NumberBase \in Nat \ {0, 1} /\ NumberLimit \in Nat \ {0, 1}
  /\ MaxReports \in Nat /\ MaxReports < NumberBase * NumberLimit

VARIABLES
  now,          \* time of the last cycle
  open,         \* the event being recorded, or None
  seq,          \* number of the last report
  last_sha256,  \* its digest
  disk,         \* the report files
  \* history:
  seen,         \* what the cycles of the open event showed
  judged,       \* the same and the verdict, of the last event closed
  ended,        \* starts of the reductions that ended before the recorder
  failed,       \* reports that could not be written
  last_written  \* the report written last

recorder == <<open, seq, last_sha256>>
history == <<seen, judged, ended, failed, last_written>>
cvars == <<now, recorder, disk, history>>

Verdicts == {"followed", "exceeded", "unverified"}

-----------------------------------------------------------------------------
\* The recorder.

Sample(t, kw) == [t_s |-> t, steuve_grid_kw |-> kw]

NewEvent(t, floor, emergency, kw) ==
  [start_s |-> t, floor_kw |-> floor, emergency |-> emergency,
   samples |-> <<Sample(t, kw)>>, dropped |-> 0, last_kept_s |-> t]

\* Mutant: a sample is taken for kept although there was no room.
KeptUncounted(o, t, emergency, kw) ==
  [o EXCEPT !.emergency = @ \/ emergency,
            !.samples = IF t - o.last_kept_s >= KeepEvery /\ Len(@) < MaxSamples
                        THEN Append(@, Sample(t, kw)) ELSE @,
            !.last_kept_s = IF t - o.last_kept_s >= KeepEvery THEN t ELSE @]

\* Mutant: every cycle is kept.
KeptEveryCycle(o, t, emergency, kw) ==
  [o EXCEPT !.emergency = @ \/ emergency,
            !.samples = IF Len(@) < MaxSamples THEN Append(@, Sample(t, kw)) ELSE @,
            !.dropped = IF Len(o.samples) < MaxSamples THEN @ ELSE @ + 1,
            !.last_kept_s = t]

\* A cycle of an open event: one sample per second, up to the maximum.
Kept(o, t, emergency, kw) ==
  LET due == t - o.last_kept_s >= KeepEvery
      room == Len(o.samples) < MaxSamples
  IN  [o EXCEPT
        !.emergency = @ \/ emergency,
        !.samples = IF due /\ room THEN Append(@, Sample(t, kw)) ELSE @,
        !.dropped = IF due /\ ~room THEN @ + 1 ELSE @,
        !.last_kept_s = IF due THEN t ELSE @]

\* The time sample k stands for and that counts: until the next sample,
\* after the grace time.
Span(o, k, end) ==
  LET next == IF k < Len(o.samples) THEN o.samples[k + 1].t_s ELSE end
      settled == o.start_s + Grace
      from == o.samples[k].t_s
  IN  next - IF from < settled THEN settled ELSE from

Above(kw, floor) == kw # None /\ kw > floor + Tolerance

\* Mutant: the tolerance is forgotten.
VerdictFromTheFloor(o, end) ==
  LET Counted == {k \in DOMAIN o.samples : Span(o, k, end) > 0}
  IN  CASE \E k \in Counted : o.samples[k].steuve_grid_kw # None
                             /\ o.samples[k].steuve_grid_kw > o.floor_kw -> "exceeded"
        [] o.dropped > 0
           \/ \E k \in Counted : o.samples[k].steuve_grid_kw = None -> "unverified"
        [] OTHER -> "followed"

VerdictOf(o, end) ==
  LET Counted == {k \in DOMAIN o.samples : Span(o, k, end) > 0}
  IN  IF \E k \in Counted : Above(o.samples[k].steuve_grid_kw, o.floor_kw)
      THEN "exceeded"
      ELSE IF o.dropped > 0
              \/ \E k \in Counted : o.samples[k].steuve_grid_kw = None
      THEN "unverified"
      ELSE "followed"

\* close
Report(o, end) ==
  [seq |-> seq + 1, start_s |-> o.start_s, end_s |-> end,
   floor_kw |-> o.floor_kw, emergency |-> o.emergency, dropped |-> o.dropped,
   verdict |-> VerdictOf(o, end), previous_sha256 |-> last_sha256]

Sha256(report) == report

\* What a report says; the one it names, and so its own digest, aside.
DimmingReport(f) ==
  /\ f.seq \in 1 .. MaxReports /\ f.dropped \in Nat
  /\ f.start_s \in Nat /\ f.end_s \in Nat /\ f.start_s < f.end_s
  /\ f.floor_kw \in Floors /\ f.emergency \in BOOLEAN
  /\ f.verdict \in Verdicts

-----------------------------------------------------------------------------
\* The files.

FileName(report) == <<report.seq, report.start_s>>

\* The first four digits of the number in a file name.
Leading(n) == IF n < NumberLimit THEN n ELSE n \div NumberBase

\* The order of the names: "dimming-1000-", "dimming-10000-", "dimming-1001-".
SortsBefore(a, b) ==
  \/ Leading(a.seq) < Leading(b.seq)
  \/ Leading(a.seq) = Leading(b.seq) /\ a.seq < b.seq
  \/ a.seq = b.seq /\ a.start_s < b.start_s

\* Mutant: the first file of the list is taken for the newest.
Oldest(files) ==
  CHOOSE f \in files : \A g \in files \ {f} : SortsBefore(f, g)

Newest(files) == CHOOSE f \in files : \A g \in files \ {f} : SortsBefore(g, f)

\* resume: the number and the digest of the newest file.
Resume(files) ==
  IF files = {} THEN <<0, Genesis>>
  ELSE <<Leading(Newest(files).seq), Sha256(Newest(files))>>

\* write: the file is renamed into place, or there is none.
Write(report) ==
  \/ /\ disk' = {f \in disk : FileName(f) # FileName(report)} \cup {report}
     /\ last_written' = report
     /\ UNCHANGED failed
  \/ /\ WritesMayFail
     /\ failed' = failed \cup {report}
     /\ UNCHANGED <<disk, last_written>>

-----------------------------------------------------------------------------
\* History: an excess, or blindness, in which no cycle saw anything else for
\* KeepEvery or longer.  Only cycles count that are Grace or more after the
\* start and after the last change of the floor in force.

NothingSeen(t, floor) ==
  [floor |-> floor, floor_since |-> t, above_since |-> None, blind_since |-> None,
   long_above |-> FALSE, long_blind |-> FALSE,
   any_above |-> FALSE, any_blind |-> FALSE, emergency |-> FALSE]

Seen(s, start, t, floor, emergency, kw) ==
  LET floor_since == IF floor = s.floor THEN s.floor_since ELSE t
      counts == t >= start + Grace /\ t >= floor_since + Grace
      Since(holds, since) ==
        IF ~(holds /\ counts) THEN None ELSE IF since = None THEN t ELSE since
      above == Since(Above(kw, floor), s.above_since)
      blind == Since(kw = None, s.blind_since)
      Long(since) == since # None /\ t - since >= KeepEvery
  IN  [floor |-> floor, floor_since |-> floor_since,
       above_since |-> above, blind_since |-> blind,
       long_above |-> s.long_above \/ Long(above),
       long_blind |-> s.long_blind \/ Long(blind),
       any_above |-> s.any_above \/ Above(kw, floor),
       any_blind |-> s.any_blind \/ kw = None,
       emergency |-> s.emergency \/ emergency]

-----------------------------------------------------------------------------
\* The cycles: what observe does, then take_reports and write.

Start(t, floor, emergency, kw) ==
  /\ open = None
  /\ seq < MaxReports
  /\ open' = NewEvent(t, floor, emergency, kw)
  /\ seen' = Seen(NothingSeen(t, floor), t, t, floor, emergency, kw)
  /\ UNCHANGED <<seq, last_sha256, disk, judged, ended, failed, last_written>>

Continue(t, floor, emergency, kw) ==
  /\ open # None
  /\ open' = Kept(open, t, emergency, kw)
  /\ seen' = Seen(seen, open.start_s, t, floor, emergency, kw)
  /\ UNCHANGED <<seq, last_sha256, disk, judged, ended, failed, last_written>>

\* Mutant: a reduction over before the devices settled leaves no report.
EndUnlessSettling(t) ==
  /\ open # None
  /\ open' = None /\ seen' = None /\ ended' = ended \cup {open.start_s}
  /\ LET report == Report(open, t)
     IN  IF t > open.start_s + Grace
         THEN /\ seq' = report.seq /\ last_sha256' = Sha256(report)
              /\ Write(report)
              /\ judged' = [seen |-> seen, report |-> report]
         ELSE UNCHANGED <<seq, last_sha256, disk, judged, failed, last_written>>

\* Mutant: the recorder does not remember the digest.
EndForgetful(t) ==
  /\ open # None
  /\ open' = None /\ seen' = None /\ ended' = ended \cup {open.start_s}
  /\ seq' = seq + 1 /\ UNCHANGED last_sha256
  /\ Write(Report(open, t))
  /\ judged' = [seen |-> seen, report |-> Report(open, t)]

End(t) ==
  /\ open # None
  /\ LET report == Report(open, t)
     IN  /\ open' = None
         /\ seq' = report.seq
         /\ last_sha256' = Sha256(report)
         /\ Write(report)
         /\ judged' = [seen |-> seen, report |-> report]
         /\ ended' = ended \cup {open.start_s}
         /\ seen' = None

Idle ==
  /\ open = None
  /\ UNCHANGED <<recorder, disk, history>>

Cycle ==
  \E step \in StepLengths :
    /\ now + step <= MaxTime
    /\ now' = now + step
    /\ \/ \E floor \in Floors, emergency \in Emergencies, kw \in Draws \cup {None} :
            \/ Start(now', floor, emergency, kw)
            \/ Continue(now', floor, emergency, kw)
       \/ End(now')
       \/ Idle

\* The process stops, at any time, and starts again.
Restart ==
  /\ open' = None
  /\ seq' = Resume(disk)[1]
  /\ last_sha256' = Resume(disk)[2]
  /\ seen' = None
  /\ UNCHANGED <<now, disk, judged, ended, failed, last_written>>

EndOfTime ==
  /\ \A step \in StepLengths : now + step > MaxTime
  /\ UNCHANGED cvars

CInit ==
  /\ now = 0
  /\ open = None
  /\ seq = Resume({})[1] /\ last_sha256 = Resume({})[2]
  /\ disk = {}
  /\ seen = None /\ judged = None
  /\ ended = {} /\ failed = {} /\ last_written = None

CNext == Cycle \/ Restart \/ EndOfTime

CSpec == CInit /\ [][CNext]_cvars

-----------------------------------------------------------------------------
\* Properties.

\* An event's samples are one second or more apart, within the bound and in
\* the event; a report's number is the recorder's (Open, Recorder).
ComplianceTypeOK ==
  /\ now \in 0 .. MaxTime /\ seq \in 0 .. MaxReports
  /\ open # None =>
       /\ Len(open.samples) \in 1 .. MaxSamples
       /\ open.start_s <= open.last_kept_s /\ open.last_kept_s <= now
       /\ \A k \in 1 .. Len(open.samples) - 1 :
            open.samples[k + 1].t_s - open.samples[k].t_s >= KeepEvery
  /\ \A f \in disk : DimmingReport(f) /\ f.end_s <= now

\* Verdict::Followed: "Within floor + tolerance for the whole event after the
\* grace time."  For a second or longer nothing above the floor in force, or
\* unknown, was seen once the devices had had time to settle.
FollowedMeansWithinFloor ==
  judged # None /\ judged.report.verdict = "followed" =>
    ~judged.seen.long_above /\ ~judged.seen.long_blind

\* A verdict against the site, and the emergency of a report, have a cause
\* that some cycle of the event saw.
BlameHasACause ==
  judged # None =>
    /\ judged.report.verdict = "exceeded" => judged.seen.any_above
    /\ judged.report.verdict = "unverified" =>
         judged.seen.any_blind \/ judged.report.dropped > 0
    /\ judged.report.emergency <=> judged.seen.emergency

\* The files form one chain: no number twice, later numbers later in time,
\* each names the one before, and where that one is missing it is because
\* its write failed.
ChainOnDisk ==
  \A f \in disk :
    /\ f.previous_sha256 \in {Genesis} \cup {Sha256(g) : g \in disk \cup failed}
    /\ \A g \in disk \ {f} :
         /\ f.seq # g.seq
         /\ f.seq < g.seq => f.end_s <= g.start_s
         /\ g.seq = f.seq + 1 => g.previous_sha256 = Sha256(f)

\* Each reduction that ended before the recorder left a file, unless the
\* write of that very file failed; no file is replaced by a later one.
EndedReductionsReported ==
  ended = {f.start_s : f \in disk} \cup {f.start_s : f \in failed}

\* "The SHA-256 chain continues across restarts from the newest file."
\* (reports.rs)
ChainContinues ==
  [][Restart => IF disk = {} THEN last_sha256' = Genesis
                ELSE /\ seq' = last_written.seq
                     /\ last_sha256' = Sha256(last_written)]_cvars

\* The verdict is what every cycle of the event saw, kept as a sample or not.
VerdictIsTrue == ComplianceTypeOK /\ FollowedMeansWithinFloor /\ BlameHasACause
=============================================================================
