-------------------------- MODULE Compliance_proof --------------------------
(***************************************************************************)
(* The report files are one chain, for any number of reports whose number  *)
(* fits its digits, whatever the cycles show, whichever writes fail and    *)
(* whenever the process restarts.                                          *)
(***************************************************************************)
EXTENDS Compliance, TLAPS

\* The number of every report fits the digits of a file name.
NumbersFit == MaxReports < NumberLimit

\* Every report made lies in the past and has a number in range.
Dated ==
  \A f \in disk \cup failed :
    /\ f.seq \in Nat /\ f.seq <= MaxReports
    /\ f.start_s \in Nat /\ f.end_s \in Nat /\ f.end_s <= now

\* The report written last has the highest number and is the latest.
LastWritten ==
  disk # {} =>
    /\ last_written \in disk
    /\ \A f \in disk \ {last_written} :
         f.seq < last_written.seq /\ f.end_s <= last_written.start_s

\* The recorder is at or after the report written last, and names a report
\* that was made.
RecorderInv ==
  /\ now \in Nat /\ seq \in Nat
  /\ last_sha256 \in {Genesis} \cup disk \cup failed
  /\ disk # {} =>
       /\ last_written.seq <= seq
       /\ seq = last_written.seq => last_sha256 = last_written

\* The open event began after every report.
OpenInv ==
  open # None =>
    /\ open.start_s \in Nat /\ open.start_s <= now
    /\ seq < MaxReports
    /\ \A f \in disk \cup failed : f.end_s <= open.start_s

CInv == /\ Dated /\ LastWritten /\ RecorderInv /\ OpenInv
        /\ ChainOnDisk /\ EndedReductionsReported

\* Nothing has been reported at the first start.
LEMMA InitInv == CInit => CInv
<1> SUFFICES ASSUME CInit PROVE CInv
  OBVIOUS
<1>1. /\ now = 0 /\ open = None /\ disk = {} /\ failed = {} /\ ended = {}
      /\ seq = 0 /\ last_sha256 = Genesis
  BY DEF CInit, Resume
<1> QED
  BY <1>1 DEF CInv, Dated, LastWritten, RecorderInv, OpenInv, ChainOnDisk,
              EndedReductionsReported

\* resume finds the report written last, as long as the numbers fit.
LEMMA NewestIsLastWritten ==
  ASSUME NumbersFit, Dated, LastWritten, disk # {}
  PROVE  Newest(disk) = last_written
<1>1. \A f \in disk : Leading(f.seq) = f.seq /\ f.seq \in Nat
  BY NumberAssumption DEF NumbersFit, Dated, Leading
<1>2. \A g \in disk \ {last_written} : SortsBefore(g, last_written)
  BY <1>1 DEF LastWritten, SortsBefore
<1>3. ASSUME NEW f \in disk, \A g \in disk \ {f} : SortsBefore(g, f),
             f # last_written
      PROVE  FALSE
  <2>1. SortsBefore(last_written, f) /\ f.seq < last_written.seq
    BY <1>3 DEF LastWritten
  <2>2. Leading(last_written.seq) = last_written.seq /\ Leading(f.seq) = f.seq
        /\ f.seq \in Nat /\ last_written.seq \in Nat
    BY <1>1 DEF LastWritten
  <2> QED
    BY <2>1, <2>2 DEF SortsBefore
<1>4. last_written \in disk
  BY DEF LastWritten
<1> QED
  BY <1>2, <1>3, <1>4 DEF Newest

\* A restart continues where the files stop.
LEMMA RestartInv ==
  ASSUME NumbersFit, CInv, Restart
  PROVE  CInv'
<1>1. UNCHANGED <<now, disk, ended, failed, last_written>> /\ open' = None
  BY DEF Restart
<1>2. CASE disk = {}
  <2>1. seq' = 0 /\ last_sha256' = Genesis
    BY <1>2 DEF Restart, Resume
  <2> QED
    BY <1>1, <1>2, <2>1 DEF CInv, Dated, LastWritten, RecorderInv, OpenInv,
                            ChainOnDisk, EndedReductionsReported
<1>3. CASE disk # {}
  <2>1. Newest(disk) = last_written /\ last_written \in disk
    BY <1>3, NewestIsLastWritten DEF CInv, LastWritten
  <2>2. last_written.seq \in Nat /\ last_written.seq <= MaxReports
    BY <2>1 DEF CInv, Dated
  <2>3. seq' = Leading(last_written.seq) /\ last_sha256' = last_written
    BY <1>3, <2>1 DEF Restart, Resume, Sha256
  <2>4. seq' = last_written.seq
    BY <2>2, <2>3, NumberAssumption DEF NumbersFit, Leading
  <2>5. RecorderInv'
    BY <1>1, <2>1, <2>2, <2>3, <2>4 DEF CInv, RecorderInv
  <2> QED
    BY <1>1, <2>5 DEF CInv, Dated, LastWritten, OpenInv, ChainOnDisk,
                      EndedReductionsReported
<1> QED
  BY <1>2, <1>3

\* A cycle that opens or continues an event makes no report.
LEMMA RecordingInv ==
  ASSUME CInv, NEW t \in Nat, now < t, now' = t,
         NEW floor, NEW emergency, NEW kw,
         Start(t, floor, emergency, kw) \/ Continue(t, floor, emergency, kw)
  PROVE  CInv'
<1>1. UNCHANGED <<seq, last_sha256, disk, ended, failed, last_written>>
  BY DEF Start, Continue
<1>2. OpenInv'
  <2>1. CASE Start(t, floor, emergency, kw)
    <3>1. open'.start_s = t /\ seq < MaxReports
      BY <2>1 DEF Start, NewEvent
    <3>2. \A f \in disk \cup failed : f.end_s \in Nat /\ f.end_s <= now
      BY DEF CInv, Dated
    <3> QED
      BY <1>1, <3>1, <3>2 DEF OpenInv, CInv, RecorderInv
  <2>2. CASE Continue(t, floor, emergency, kw)
    <3>1. open # None /\ open'.start_s = open.start_s
      BY <2>2 DEF Continue, Kept
    <3> QED
      BY <1>1, <3>1 DEF OpenInv, CInv, RecorderInv
  <2> QED
    BY <2>1, <2>2
<1>3. Dated'
  BY <1>1 DEF CInv, Dated, RecorderInv
<1> QED
  BY <1>1, <1>2, <1>3 DEF CInv, LastWritten, RecorderInv, ChainOnDisk,
                          EndedReductionsReported

\* A report made now: its number is new, and it is later than all others.
LEMMA EndInv ==
  ASSUME CInv, NEW t \in Nat, now < t, now' = t, End(t)
  PROVE  CInv'
<1> DEFINE r == Report(open, t)
<1>1. /\ open # None /\ open' = None
      /\ seq' = r.seq /\ last_sha256' = r
      /\ Write(r)
      /\ ended' = ended \cup {open.start_s}
  BY DEF End, Sha256
<1>2. /\ r.seq = seq + 1 /\ r.start_s = open.start_s /\ r.end_s = t
      /\ r.previous_sha256 = last_sha256
  BY DEF Report
<1>3. /\ r.seq \in Nat /\ r.seq <= MaxReports
      /\ r.start_s \in Nat /\ r.start_s <= now
      /\ seq \in Nat /\ now \in Nat /\ MaxReports \in Nat
  BY <1>1, <1>2, NumberAssumption DEF CInv, OpenInv, RecorderInv
<1>4. \A f \in disk \cup failed :
        /\ f.seq \in Nat /\ f.seq <= MaxReports
        /\ f.start_s \in Nat /\ f.end_s \in Nat
        /\ f.end_s <= r.start_s /\ f.end_s <= now
  BY <1>1, <1>2 DEF CInv, Dated, OpenInv
<1>5. \A f \in disk : f.seq < r.seq
  <2> SUFFICES ASSUME NEW f \in disk PROVE f.seq < r.seq
    OBVIOUS
  <2>1. f.seq <= last_written.seq /\ last_written.seq \in Nat
    BY <1>4 DEF CInv, LastWritten
  <2>2. last_written.seq <= seq
    BY DEF CInv, RecorderInv
  <2> QED
    BY <1>2, <1>3, <1>4, <2>1, <2>2
<1>6. r.previous_sha256 \in {Genesis} \cup disk \cup failed
  BY <1>2 DEF CInv, RecorderInv
<1>7. \A f \in disk : r.seq = f.seq + 1 => r.previous_sha256 = f
  <2> SUFFICES ASSUME NEW f \in disk, r.seq = f.seq + 1
               PROVE  r.previous_sha256 = f
    OBVIOUS
  <2>1. f.seq = seq
    BY <1>2, <1>3, <1>4
  <2>2. last_written.seq <= seq /\ last_written \in disk
    BY DEF CInv, RecorderInv, LastWritten
  <2>3. f = last_written
    BY <1>4, <2>1, <2>2 DEF CInv, LastWritten
  <2> QED
    BY <1>2, <2>1, <2>3 DEF CInv, RecorderInv
<1> HIDE DEF r
<1>8. Dated'
  <2>1. disk' \cup failed' \subseteq disk \cup failed \cup {r}
    BY <1>1 DEF Write
  <2> QED
    BY <1>2, <1>3, <1>4, <2>1 DEF Dated
<1>9. OpenInv'
  BY <1>1 DEF OpenInv
<1>10. CASE disk' = disk \cup {r} /\ last_written' = r /\ UNCHANGED failed
  <2>1. LastWritten'
    BY <1>4, <1>5, <1>10 DEF LastWritten
  <2>2. RecorderInv'
    BY <1>1, <1>3, <1>10 DEF RecorderInv
  <2>3. ChainOnDisk'
    <3> SUFFICES ASSUME NEW f \in disk', NEW g \in disk' \ {f}
                 PROVE  /\ f.previous_sha256 \in {Genesis} \cup disk' \cup failed'
                        /\ f.seq # g.seq
                        /\ f.seq < g.seq => f.end_s <= g.start_s
                        /\ g.seq = f.seq + 1 => g.previous_sha256 = f
      <4>1. \A f \in disk' :
              f.previous_sha256 \in {Genesis} \cup disk' \cup failed'
        BY <1>6, <1>10 DEF CInv, ChainOnDisk, Sha256
      <4> QED
        BY <4>1 DEF ChainOnDisk, Sha256
    <3>1. f.previous_sha256 \in {Genesis} \cup disk' \cup failed'
      BY <1>6, <1>10 DEF CInv, ChainOnDisk, Sha256
    <3>2. CASE f \in disk /\ g \in disk
      BY <3>1, <3>2 DEF CInv, ChainOnDisk, Sha256
    <3>3. CASE f \in disk /\ g = r
      BY <1>3, <1>4, <1>5, <1>7, <3>1, <3>3
    <3>4. CASE f = r /\ g \in disk
      BY <1>3, <1>4, <1>5, <3>1, <3>4
    <3> QED
      BY <1>10, <3>2, <3>3, <3>4
  <2>4. EndedReductionsReported'
    BY <1>1, <1>2, <1>10 DEF CInv, EndedReductionsReported
  <2> QED
    BY <1>8, <1>9, <2>1, <2>2, <2>3, <2>4 DEF CInv
<1>11. CASE failed' = failed \cup {r} /\ UNCHANGED <<disk, last_written>>
  <2>1. LastWritten'
    BY <1>11 DEF CInv, LastWritten
  <2>2. RecorderInv'
    <3>1. disk # {} => last_written.seq < seq'
      BY <1>1, <1>5 DEF CInv, LastWritten
    <3>2. disk # {} => last_written.seq \in Nat
      BY <1>4 DEF CInv, LastWritten
    <3> QED
      BY <1>1, <1>3, <1>11, <3>1, <3>2 DEF RecorderInv
  <2>3. ChainOnDisk'
    BY <1>11 DEF CInv, ChainOnDisk, Sha256
  <2>4. EndedReductionsReported'
    BY <1>1, <1>2, <1>11 DEF CInv, EndedReductionsReported
  <2> QED
    BY <1>8, <1>9, <2>1, <2>2, <2>3, <2>4 DEF CInv
<1>12. (disk' = disk \cup {r} /\ last_written' = r /\ UNCHANGED failed)
       \/ (failed' = failed \cup {r} /\ UNCHANGED <<disk, last_written>>)
  <2>1. {f \in disk : FileName(f) # FileName(r)} = disk
    BY <1>3, <1>4, <1>5 DEF FileName
  <2> QED
    BY <1>1, <2>1 DEF Write
<1> QED
  BY <1>10, <1>11, <1>12

\* Every step keeps the invariant.
LEMMA NextInv ==
  ASSUME NumbersFit, CInv, [CNext]_cvars
  PROVE  CInv'
<1>1. CASE Cycle
  <2>1. PICK step \in StepLengths :
          /\ now' = now + step
          /\ \/ \E floor \in Floors, emergency \in Emergencies,
                   kw \in Draws \cup {None} :
                  \/ Start(now', floor, emergency, kw)
                  \/ Continue(now', floor, emergency, kw)
             \/ End(now')
             \/ Idle
    BY <1>1 DEF Cycle
  <2>2. now' \in Nat /\ now < now'
    BY <2>1, RecorderAssumption DEF CInv, RecorderInv
  <2>3. CASE Idle
    <3>1. UNCHANGED <<open, seq, last_sha256, disk, ended, failed, last_written>>
          /\ open = None
      BY <2>3 DEF Idle, recorder, history
    <3> QED
      BY <2>2, <3>1 DEF CInv, Dated, LastWritten, RecorderInv, OpenInv,
                        ChainOnDisk, EndedReductionsReported
  <2> QED
    BY <2>1, <2>2, <2>3, RecordingInv, EndInv
<1>2. CASE Restart
  BY <1>2, RestartInv
<1>3. CASE UNCHANGED cvars
  BY <1>3 DEF cvars, recorder, history, CInv, Dated, LastWritten, RecorderInv,
              OpenInv, ChainOnDisk, EndedReductionsReported
<1> QED
  BY <1>1, <1>2, <1>3 DEF CNext, EndOfTime

\* The invariant holds in every run.
LEMMA Invariance == ASSUME NumbersFit PROVE CSpec => []CInv
<1>1. CInit => CInv
  BY InitInv
<1>2. CInv /\ [CNext]_cvars => CInv'
  BY NextInv
<1> QED
  BY <1>1, <1>2, PTL DEF CSpec

\* compliance.rs: the reports are chained; a gap is a write that failed.
THEOREM ChainIntact == ASSUME NumbersFit PROVE CSpec => []ChainOnDisk
<1>1. CInv => ChainOnDisk
  BY DEF CInv
<1> QED
  BY <1>1, Invariance, PTL

\* Recorder::observe and reports::write: no report is lost but by a write that
\* failed, and none replaces another.
THEOREM AllReported == ASSUME NumbersFit PROVE CSpec => []EndedReductionsReported
<1>1. CInv => EndedReductionsReported
  BY DEF CInv
<1> QED
  BY <1>1, Invariance, PTL

\* reports.rs: a restart continues from the report written last.
THEOREM RestartContinues == ASSUME NumbersFit PROVE CSpec => ChainContinues
<1>1. ASSUME CInv, Restart
      PROVE  IF disk = {} THEN last_sha256' = Genesis
             ELSE seq' = last_written.seq /\ last_sha256' = Sha256(last_written)
  <2>1. CASE disk = {}
    BY <1>1, <2>1 DEF Restart, Resume
  <2>2. CASE disk # {}
    <3>1. Newest(disk) = last_written /\ last_written \in disk
      BY <1>1, <2>2, NewestIsLastWritten DEF CInv, LastWritten
    <3>2. Leading(last_written.seq) = last_written.seq
      BY <1>1, <3>1, NumberAssumption DEF CInv, Dated, NumbersFit, Leading
    <3> QED
      BY <1>1, <2>2, <3>1, <3>2 DEF Restart, Resume
  <2> QED
    BY <2>1, <2>2
<1>2. CInv /\ [CNext]_cvars =>
        [Restart => IF disk = {} THEN last_sha256' = Genesis
                    ELSE /\ seq' = last_written.seq
                         /\ last_sha256' = Sha256(last_written)]_cvars
  BY <1>1
<1> QED
  BY <1>2, Invariance, PTL DEF CSpec, ChainContinues

-----------------------------------------------------------------------------
\* The verdict.  A sample is kept only every KeepEvery, so that what the cycles
\* in between saw shows in the samples only if it lasted; the invariant says
\* how far what the cycles saw and what the samples say may be apart.

\* The floor in force does not change: where it does, a report that judges all
\* samples by the first floor may call a reduction followed that was not.
OneFloor == \A a, b \in Floors : a = b

Samples == [t_s : Nat, steuve_grid_kw : Draws \cup {None}]
Events == [start_s : Nat, floor_kw : Floors, emergency : BOOLEAN,
           samples : Seq(Samples), dropped : Nat, last_kept_s : Nat]
LastSample(o) == o.samples[Len(o.samples)]

\* The samples of an event are apart, none is later than the last one due, and
\* if none was dropped that one was kept.
EventInv(o, t) ==
  /\ o \in Events
  /\ Len(o.samples) \in 1 .. MaxSamples
  /\ o.start_s <= o.last_kept_s /\ o.last_kept_s <= t
  /\ \A k \in 1 .. Len(o.samples) - 1 :
       o.samples[k + 1].t_s - o.samples[k].t_s >= KeepEvery
  /\ \A k \in 1 .. Len(o.samples) : o.samples[k].t_s <= o.last_kept_s
  /\ o.dropped = 0 => LastSample(o).t_s = o.last_kept_s

\* The draws that are above a floor; unknown is {None}.
TooMuch(floor) == {kw \in Draws \cup {None} : Above(kw, floor)}

\* A sample that is bad and counts.
Sampled(o, bad) ==
  \E k \in 1 .. Len(o.samples) :
    o.samples[k].steuve_grid_kw \in bad /\ o.samples[k].t_s >= o.start_s + Grace

\* Cycles are bad since a time that counts; if a sample was due since then it
\* is bad.  What was bad for long is in the samples.
Noticed(o, t, bad, since, long) ==
  /\ since # None =>
       /\ since \in Nat /\ since <= t /\ since >= o.start_s + Grace
       /\ o.dropped = 0 /\ since <= o.last_kept_s =>
            LastSample(o).steuve_grid_kw \in bad
  /\ o.dropped = 0 /\ long => Sampled(o, bad)

\* What the cycles of the open event saw, against its record.
SeenInv(o, t, s) ==
  /\ s.floor = o.floor_kw /\ s.floor_since = o.start_s
  /\ s.emergency = o.emergency
  /\ {s.any_above, s.any_blind, s.long_above, s.long_blind} \subseteq BOOLEAN
  /\ \A k \in 1 .. Len(o.samples) :
       /\ o.samples[k].steuve_grid_kw \in TooMuch(o.floor_kw) => s.any_above
       /\ o.samples[k].steuve_grid_kw = None => s.any_blind
  /\ Noticed(o, t, TooMuch(o.floor_kw), s.above_since, s.long_above)
  /\ Noticed(o, t, {None}, s.blind_since, s.long_blind)

VerdictInv ==
  /\ now \in 0 .. MaxTime /\ seq \in 0 .. MaxReports
  /\ \A f \in disk : DimmingReport(f) /\ f.end_s <= now
  /\ open # None => EventInv(open, now) /\ SeenInv(open, now, seen)
  /\ FollowedMeansWithinFloor /\ BlameHasACause

\* The invariant is what TLC checks, and more.
LEMMA VerdictInvIsTrue == VerdictInv => VerdictIsTrue
  BY DEF VerdictInv, VerdictIsTrue, ComplianceTypeOK, EventInv, Events

\* Recorder::observe: what becomes of the record of an event in a cycle.
KeptAs(o, t, emergency, kw, e) ==
  /\ e \in Events
  /\ e.start_s = o.start_s /\ e.floor_kw = o.floor_kw
  /\ e.emergency = (o.emergency \/ emergency)
  /\ \/ /\ t - o.last_kept_s >= KeepEvery /\ Len(o.samples) < MaxSamples
        /\ e.samples = Append(o.samples, Sample(t, kw))
        /\ e.dropped = o.dropped /\ e.last_kept_s = t
     \/ /\ t - o.last_kept_s >= KeepEvery
        /\ e.samples = o.samples
        /\ e.dropped = o.dropped + 1 /\ e.last_kept_s = t
     \/ /\ ~(t - o.last_kept_s >= KeepEvery)
        /\ e.samples = o.samples
        /\ e.dropped = o.dropped /\ e.last_kept_s = o.last_kept_s

LEMMA KeptIs ==
  ASSUME NEW o \in Events, NEW t \in Nat, NEW emergency \in BOOLEAN,
         NEW kw \in Draws \cup {None}
  PROVE  KeptAs(o, t, emergency, kw, Kept(o, t, emergency, kw))
<1> DEFINE e == Kept(o, t, emergency, kw)
<1>1. Sample(t, kw) \in Samples
  BY DEF Sample, Samples
<1>2. Append(o.samples, Sample(t, kw)) \in Seq(Samples)
  BY <1>1 DEF Events
<1>3. /\ o.dropped \in Nat /\ o.emergency \in BOOLEAN /\ o.last_kept_s \in Nat
      /\ o.start_s \in Nat /\ o.floor_kw \in Floors /\ o.samples \in Seq(Samples)
  BY DEF Events
<1>4. /\ e.start_s = o.start_s /\ e.floor_kw = o.floor_kw
      /\ e.emergency = (o.emergency \/ emergency)
  BY DEF Kept, Events
<1>5. e.last_kept_s = IF t - o.last_kept_s >= KeepEvery THEN t ELSE o.last_kept_s
  BY DEF Kept, Events
<1>6. e.samples = IF t - o.last_kept_s >= KeepEvery /\ Len(o.samples) < MaxSamples
                  THEN Append(o.samples, Sample(t, kw)) ELSE o.samples
  BY DEF Kept, Events
<1>7. e.dropped = IF t - o.last_kept_s >= KeepEvery /\ ~(Len(o.samples) < MaxSamples)
                  THEN o.dropped + 1 ELSE o.dropped
  BY DEF Kept, Events
<1>8. e \in Events
  <2> DEFINE m == o.emergency \/ emergency
             a == IF t - o.last_kept_s >= KeepEvery /\ Len(o.samples) < MaxSamples
                  THEN Append(o.samples, Sample(t, kw)) ELSE o.samples
             d == IF t - o.last_kept_s >= KeepEvery /\ ~(Len(o.samples) < MaxSamples)
                  THEN o.dropped + 1 ELSE o.dropped
             l == IF t - o.last_kept_s >= KeepEvery THEN t ELSE o.last_kept_s
  <2>1. e = [o EXCEPT !.emergency = m, !.samples = a, !.dropped = d,
                      !.last_kept_s = l]
    BY DEF Kept
  <2>2. a \in Seq(Samples) /\ d \in Nat /\ l \in Nat
    BY <1>2, <1>3
  <2>3. m \in BOOLEAN
    BY <1>3
  <2> HIDE DEF e, m, a, d, l
  <2> QED
    BY <2>1, <2>2, <2>3 DEF Events
<1> HIDE DEF e
<1>9. KeptAs(o, t, emergency, kw, e)
  BY <1>4, <1>5, <1>6, <1>7, <1>8 DEF KeptAs
<1> QED
  BY <1>9 DEF e

\* A cycle of an event: the samples stay apart.
LEMMA KeptEvent ==
  ASSUME NEW o, NEW s \in Nat, EventInv(o, s), NEW t \in Nat, s < t,
         NEW emergency \in BOOLEAN, NEW kw \in Draws \cup {None},
         NEW e, e = Kept(o, t, emergency, kw)
  PROVE  EventInv(e, t)
<1>1. o \in Events /\ o.last_kept_s \in Nat /\ o.start_s \in Nat
      /\ o.samples \in Seq(Samples) /\ o.dropped \in Nat
  BY DEF EventInv, Events
<1>2. /\ e \in Events /\ e.start_s = o.start_s
      /\ \/ /\ t - o.last_kept_s >= KeepEvery /\ Len(o.samples) < MaxSamples
            /\ e.samples = Append(o.samples, Sample(t, kw))
            /\ e.dropped = o.dropped /\ e.last_kept_s = t
         \/ /\ t - o.last_kept_s >= KeepEvery
            /\ e.samples = o.samples
            /\ e.dropped = o.dropped + 1 /\ e.last_kept_s = t
         \/ /\ ~(t - o.last_kept_s >= KeepEvery)
            /\ e.samples = o.samples
            /\ e.dropped = o.dropped /\ e.last_kept_s = o.last_kept_s
  <2>1. KeptAs(o, t, emergency, kw, e)
    BY <1>1, KeptIs
  <2> QED
    BY <2>1 DEF KeptAs
<1>3. KeepEvery \in Nat /\ MaxSamples \in Nat
  BY RecorderAssumption
<1>6. \A k \in 1 .. Len(o.samples) :
        o.samples[k].t_s \in Nat /\ o.samples[k].t_s <= o.last_kept_s
  <2>1. \A k \in 1 .. Len(o.samples) : o.samples[k] \in Samples
    BY <1>1
  <2> QED
    BY <2>1 DEF EventInv, Samples
<1>4. CASE /\ t - o.last_kept_s >= KeepEvery /\ Len(o.samples) < MaxSamples
           /\ e.samples = Append(o.samples, Sample(t, kw))
           /\ e.dropped = o.dropped /\ e.last_kept_s = t
  <2>1. Len(e.samples) = Len(o.samples) + 1 /\ Len(o.samples) \in Nat
    BY <1>1, <1>4
  <2>2. \A k \in 1 .. Len(o.samples) : e.samples[k] = o.samples[k]
    BY <1>1, <1>4
  <2>3. e.samples[Len(o.samples) + 1].t_s = t
    BY <1>1, <1>4 DEF Sample
  <2>5. \A k \in 1 .. Len(e.samples) - 1 :
          e.samples[k + 1].t_s - e.samples[k].t_s >= KeepEvery
    <3> SUFFICES ASSUME NEW k \in 1 .. Len(o.samples)
                 PROVE  e.samples[k + 1].t_s - e.samples[k].t_s >= KeepEvery
      BY <2>1
    <3>1. CASE k = Len(o.samples)
      <4>1. e.samples[k + 1].t_s = t
        BY <2>3, <3>1
      <4>2. e.samples[k] = o.samples[k]
        BY <2>2
      <4>3. o.samples[k].t_s \in Nat /\ o.samples[k].t_s <= o.last_kept_s
        BY <1>6
      <4>4. t - o.last_kept_s >= KeepEvery
        BY <1>4
      <4>5. t - o.samples[k].t_s >= KeepEvery
        BY <1>1, <1>3, <4>3, <4>4
      <4> QED
        BY <4>1, <4>2, <4>5
    <3>2. CASE k < Len(o.samples)
      <4>1. k \in 1 .. Len(o.samples) /\ k + 1 \in 1 .. Len(o.samples)
            /\ k \in 1 .. Len(o.samples) - 1
        BY <2>1, <3>2
      <4>2. e.samples[k + 1] = o.samples[k + 1] /\ e.samples[k] = o.samples[k]
        BY <2>2, <4>1
      <4> QED
        BY <4>1, <4>2 DEF EventInv
    <3> QED
      BY <2>1, <3>1, <3>2
  <2>6. \A k \in 1 .. Len(e.samples) : e.samples[k].t_s <= e.last_kept_s
    <3> SUFFICES ASSUME NEW k \in 1 .. Len(o.samples) + 1
                 PROVE  e.samples[k].t_s <= t
      BY <1>4, <2>1
    <3>1. CASE k = Len(o.samples) + 1
      BY <2>3, <3>1
    <3>2. CASE k \in 1 .. Len(o.samples)
      <4>1. e.samples[k] = o.samples[k]
        BY <2>2, <3>2
      <4>2. o.samples[k].t_s \in Nat /\ o.samples[k].t_s <= o.last_kept_s
        BY <1>6, <3>2
      <4> QED
        BY <1>1, <1>3, <1>4, <4>1, <4>2
    <3> QED
      BY <2>1, <3>1, <3>2
  <2>7. Len(e.samples) \in 1 .. MaxSamples /\ LastSample(e).t_s = e.last_kept_s
    BY <1>1, <1>3, <1>4, <2>1, <2>3 DEF LastSample
  <2>8. e.start_s <= e.last_kept_s /\ e.last_kept_s <= t
    BY <1>1, <1>2, <1>3, <1>4 DEF EventInv
  <2> QED
    BY <1>2, <2>5, <2>6, <2>7, <2>8 DEF EventInv
<1>5. CASE ~(e.samples = Append(o.samples, Sample(t, kw)))
  <2>1. e.samples = o.samples /\ o.last_kept_s <= e.last_kept_s
        /\ e.last_kept_s <= t /\ e.last_kept_s \in Nat
    <3>1. o.last_kept_s <= t
      BY <1>1 DEF EventInv
    <3>2. e.samples = o.samples
      BY <1>2, <1>5
    <3>3. e.last_kept_s = t \/ e.last_kept_s = o.last_kept_s
      BY <1>2
    <3> QED
      BY <1>1, <3>1, <3>2, <3>3
  <2>2. e.dropped = 0 => o.dropped = 0 /\ e.last_kept_s = o.last_kept_s
    BY <1>1, <1>2, <1>5
  <2>4. \A k \in 1 .. Len(e.samples) : e.samples[k].t_s <= e.last_kept_s
    BY <1>1, <1>6, <2>1
  <2> QED
    BY <1>1, <1>2, <2>1, <2>2, <2>4 DEF EventInv, LastSample
<1> QED
  BY <1>2, <1>4, <1>5
\* Seen: since when cycles are bad, and whether they were for long.
BadSince(o, t, bad, kw, since) ==
  IF ~(kw \in bad /\ t >= o.start_s + Grace) THEN None
  ELSE IF since = None THEN t ELSE since
BadForLong(t, since) == since # None /\ t - since >= KeepEvery

\* What lasts KeepEvery is sampled: a sample is due before it is over.
LEMMA KeptNoticed ==
  ASSUME NEW o, NEW s \in Nat, EventInv(o, s), NEW t \in Nat, s < t,
         NEW emergency \in BOOLEAN, NEW kw \in Draws \cup {None},
         NEW e, e = Kept(o, t, emergency, kw),
         NEW bad, NEW since, NEW long \in BOOLEAN,
         Noticed(o, s, bad, since, long),
         NEW since2, since2 = BadSince(o, t, bad, kw, since),
         NEW long2, long2 = (long \/ BadForLong(t, since2))
  PROVE  Noticed(e, t, bad, since2, long2)
<1>1. /\ o \in Events /\ o.last_kept_s \in Nat /\ o.start_s \in Nat
      /\ o.samples \in Seq(Samples) /\ o.dropped \in Nat
      /\ o.last_kept_s <= s /\ Len(o.samples) \in Nat /\ Len(o.samples) >= 1
      /\ o.dropped = 0 => LastSample(o).t_s = o.last_kept_s
  BY RecorderAssumption DEF EventInv, Events
<1>2. KeptAs(o, t, emergency, kw, e)
  BY <1>1, KeptIs
<1>3. KeepEvery \in Nat /\ KeepEvery > 0 /\ Grace \in Nat
  BY RecorderAssumption
<1>4. e.start_s = o.start_s
  BY <1>2 DEF KeptAs
<1>5. since # None => since \in Nat /\ since <= s /\ since >= o.start_s + Grace
  BY DEF Noticed
<1>6. since2 # None =>
        /\ kw \in bad /\ t >= o.start_s + Grace
        /\ since2 = t \/ (since # None /\ since2 = since)
  BY DEF BadSince
<1>7. since2 # None =>
        since2 \in Nat /\ since2 <= t /\ since2 >= o.start_s + Grace
  BY <1>1, <1>3, <1>5, <1>6
<1>8. CASE /\ t - o.last_kept_s >= KeepEvery
           /\ e.samples = Append(o.samples, Sample(t, kw))
           /\ e.dropped = o.dropped /\ e.last_kept_s = t
  <2>1. Len(e.samples) = Len(o.samples) + 1
    BY <1>1, <1>8
  <2>2. \A k \in 1 .. Len(o.samples) : e.samples[k] = o.samples[k]
    BY <1>1, <1>8
  <2>3. LastSample(e) = Sample(t, kw) /\ e.samples[Len(o.samples) + 1] = Sample(t, kw)
    BY <1>1, <1>8, <2>1 DEF LastSample
  <2>4. since2 # None => Sampled(e, bad)
    <3>1. Len(o.samples) + 1 \in 1 .. Len(e.samples)
      BY <1>1, <2>1
    <3>2. /\ e.samples[Len(o.samples) + 1].steuve_grid_kw = kw
          /\ e.samples[Len(o.samples) + 1].t_s = t
      BY <2>3 DEF Sample
    <3> QED
      BY <1>4, <1>6, <3>1, <3>2 DEF Sampled
  <2>5. o.dropped = 0 /\ long => Sampled(e, bad)
    <3> SUFFICES ASSUME o.dropped = 0, long PROVE Sampled(e, bad)
      OBVIOUS
    <3>1. PICK k \in 1 .. Len(o.samples) :
            o.samples[k].steuve_grid_kw \in bad
            /\ o.samples[k].t_s >= o.start_s + Grace
      BY DEF Noticed, Sampled
    <3>2. k \in 1 .. Len(e.samples)
      BY <1>1, <2>1
    <3> QED
      BY <1>4, <2>2, <3>1, <3>2 DEF Sampled
  <2>6. since2 # None => LastSample(e).steuve_grid_kw \in bad
    BY <1>6, <2>3 DEF Sample
  <2>7. e.dropped = 0 /\ long2 => Sampled(e, bad)
    BY <1>8, <2>4, <2>5 DEF BadForLong
  <2> QED
    BY <1>4, <1>7, <2>6, <2>7 DEF Noticed
<1>9. CASE e.dropped = o.dropped + 1
  <2>1. e.dropped # 0
    BY <1>1, <1>9
  <2> QED
    BY <1>4, <1>7, <2>1 DEF Noticed
<1>10. CASE /\ ~(t - o.last_kept_s >= KeepEvery)
            /\ e.samples = o.samples
            /\ e.dropped = o.dropped /\ e.last_kept_s = o.last_kept_s
  <2>1. LastSample(e) = LastSample(o) /\ (Sampled(e, bad) <=> Sampled(o, bad))
    BY <1>4, <1>10 DEF LastSample, Sampled
  <2>2. ASSUME since2 # None, since2 <= o.last_kept_s, o.dropped = 0
        PROVE  LastSample(o).steuve_grid_kw \in bad
    <3>1. since # None /\ since <= o.last_kept_s
      BY <1>1, <1>6, <2>2
    <3> QED
      BY <2>2, <3>1 DEF Noticed
  <2>3. ASSUME BadForLong(t, since2), o.dropped = 0
        PROVE  Sampled(o, bad)
    <3>1. since2 # None /\ t - since2 >= KeepEvery
      BY <2>3 DEF BadForLong
    <3>2. since2 <= o.last_kept_s
      BY <1>1, <1>3, <1>7, <1>10, <3>1
    <3>3. LastSample(o).steuve_grid_kw \in bad
      BY <2>2, <2>3, <3>1, <3>2
    <3>4. LastSample(o).t_s >= o.start_s + Grace
      BY <1>1, <1>3, <1>7, <2>3, <3>1, <3>2
    <3>5. Len(o.samples) \in 1 .. Len(o.samples)
      BY <1>1
    <3> QED
      BY <3>3, <3>4, <3>5 DEF Sampled, LastSample
  <2>4. o.dropped = 0 /\ long => Sampled(o, bad)
    BY DEF Noticed
  <2>5. e.dropped = 0 /\ long2 => Sampled(e, bad)
    BY <1>10, <2>1, <2>3, <2>4
  <2>6. since2 # None /\ e.dropped = 0 /\ since2 <= e.last_kept_s =>
          LastSample(e).steuve_grid_kw \in bad
    BY <1>10, <2>1, <2>2
  <2> QED
    BY <1>4, <1>7, <2>5, <2>6 DEF Noticed
<1> QED
  BY <1>2, <1>8, <1>9, <1>10 DEF KeptAs

\* The first cycle of an event.
LEMMA FirstNoticed ==
  ASSUME NEW o, NEW t \in Nat, EventInv(o, t), o.start_s = t,
         NEW bad,
         NEW since, since = BadSince(o, t, bad, LastSample(o).steuve_grid_kw, None),
         NEW long, long = (FALSE \/ BadForLong(t, since))
  PROVE  Noticed(o, t, bad, since, long)
<1>1. Grace \in Nat /\ KeepEvery \in Nat /\ KeepEvery > 0
  BY RecorderAssumption
<1>2. since # None => /\ LastSample(o).steuve_grid_kw \in bad
                      /\ since = t /\ t >= o.start_s + Grace
  BY DEF BadSince
<1>3. ~BadForLong(t, since)
  BY <1>1, <1>2 DEF BadForLong
<1>4. ~long
  BY <1>3
<1> QED
  BY <1>2, <1>4 DEF Noticed
\* A bad draw that a cycle sees is in the history, so is one in the samples.
AllSeen(o, bad, any) ==
  \A k \in 1 .. Len(o.samples) : o.samples[k].steuve_grid_kw \in bad => any

LEMMA KeptSeen ==
  ASSUME NEW o, NEW s \in Nat, EventInv(o, s), NEW t \in Nat, s < t,
         NEW emergency \in BOOLEAN, NEW kw \in Draws \cup {None},
         NEW e, e = Kept(o, t, emergency, kw),
         NEW bad, NEW any \in BOOLEAN, AllSeen(o, bad, any),
         NEW any2, any2 = (any \/ kw \in bad)
  PROVE  AllSeen(e, bad, any2)
<1>1. o \in Events /\ o.samples \in Seq(Samples)
  BY DEF EventInv, Events
<1>2. KeptAs(o, t, emergency, kw, e)
  BY <1>1, KeptIs
<1>3. CASE e.samples = o.samples
  BY <1>3 DEF AllSeen
<1>4. CASE e.samples = Append(o.samples, Sample(t, kw))
  <2> SUFFICES ASSUME NEW k \in 1 .. Len(e.samples),
                      e.samples[k].steuve_grid_kw \in bad
               PROVE  any2
    BY DEF AllSeen
  <2>1. Len(e.samples) = Len(o.samples) + 1 /\ Len(o.samples) \in Nat
    BY <1>1, <1>4
  <2>2. CASE k = Len(o.samples) + 1
    <3>1. e.samples[k] = Sample(t, kw)
      BY <1>1, <1>4, <2>1, <2>2
    <3>2. kw \in bad
      BY <3>1 DEF Sample
    <3>3. any \/ kw \in bad
      BY <3>2
    <3> QED
      BY <3>3
  <2>3. CASE k \in 1 .. Len(o.samples)
    <3>1. e.samples[k] = o.samples[k]
      BY <1>1, <1>4, <2>3
    <3> QED
      BY <2>3, <3>1 DEF AllSeen
  <2> QED
    BY <2>1, <2>2, <2>3
<1> QED
  BY <1>2, <1>3, <1>4 DEF KeptAs

\* Seen, in terms of what is bad.
SeenAs(o, s, t, emergency, kw, x) ==
  /\ x.floor = o.floor_kw /\ x.floor_since = o.start_s
  /\ x.emergency = (s.emergency \/ emergency)
  /\ x.any_above = (s.any_above \/ kw \in TooMuch(o.floor_kw))
  /\ x.any_blind = (s.any_blind \/ kw \in {None})
  /\ x.above_since = BadSince(o, t, TooMuch(o.floor_kw), kw, s.above_since)
  /\ x.blind_since = BadSince(o, t, {None}, kw, s.blind_since)
  /\ x.long_above = (s.long_above \/ BadForLong(t, x.above_since))
  /\ x.long_blind = (s.long_blind \/ BadForLong(t, x.blind_since))

LEMMA SeenIs ==
  ASSUME NEW o \in Events, NEW s, NEW t \in Nat, NEW emergency \in BOOLEAN,
         NEW kw \in Draws \cup {None},
         s.floor = o.floor_kw, s.floor_since = o.start_s,
         NEW x, x = Seen(s, o.start_s, t, o.floor_kw, emergency, kw)
  PROVE  SeenAs(o, s, t, emergency, kw, x)
<1>1. kw \in TooMuch(o.floor_kw) <=> Above(kw, o.floor_kw)
  BY DEF TooMuch
<1>2. x.floor = o.floor_kw /\ x.floor_since = o.start_s
      /\ x.emergency = (s.emergency \/ emergency)
  BY DEF Seen
<1>3. x.any_above = (s.any_above \/ Above(kw, o.floor_kw))
      /\ x.any_blind = (s.any_blind \/ kw = None)
  BY DEF Seen
<1>4. x.above_since = BadSince(o, t, TooMuch(o.floor_kw), kw, s.above_since)
  BY <1>1 DEF Seen, BadSince
<1>5. x.blind_since = BadSince(o, t, {None}, kw, s.blind_since)
  BY DEF Seen, BadSince
<1>6. x.long_above = (s.long_above \/ BadForLong(t, x.above_since))
  BY DEF Seen, BadForLong
<1>7. x.long_blind = (s.long_blind \/ BadForLong(t, x.blind_since))
  BY DEF Seen, BadForLong
<1> QED
  BY <1>1, <1>2, <1>3, <1>4, <1>5, <1>6, <1>7 DEF SeenAs

\* A cycle of an event, as a whole.
LEMMA EventContinues ==
  ASSUME NEW o, NEW s \in Nat, EventInv(o, s), NEW x, SeenInv(o, s, x),
         NEW t \in Nat, s < t, NEW emergency \in BOOLEAN,
         NEW kw \in Draws \cup {None},
         NEW e, e = Kept(o, t, emergency, kw),
         NEW y, y = Seen(x, o.start_s, t, o.floor_kw, emergency, kw)
  PROVE  EventInv(e, t) /\ SeenInv(e, t, y)
<1> DEFINE much == TooMuch(o.floor_kw)
<1>15. much = TooMuch(o.floor_kw)
  OBVIOUS
<1> HIDE DEF much
<1>1. o \in Events /\ o.emergency \in BOOLEAN
  BY DEF EventInv, Events
<1>2. /\ x.floor = o.floor_kw /\ x.floor_since = o.start_s
      /\ x.emergency = o.emergency
      /\ x.any_above \in BOOLEAN /\ x.any_blind \in BOOLEAN
      /\ x.long_above \in BOOLEAN /\ x.long_blind \in BOOLEAN
  BY DEF SeenInv
<1>3. /\ y.floor = o.floor_kw /\ y.floor_since = o.start_s
      /\ y.emergency = (x.emergency \/ emergency)
      /\ y.any_above = (x.any_above \/ kw \in much)
      /\ y.any_blind = (x.any_blind \/ kw \in {None})
      /\ y.above_since = BadSince(o, t, much, kw, x.above_since)
      /\ y.blind_since = BadSince(o, t, {None}, kw, x.blind_since)
      /\ y.long_above = (x.long_above \/ BadForLong(t, y.above_since))
      /\ y.long_blind = (x.long_blind \/ BadForLong(t, y.blind_since))
  <2>1. SeenAs(o, x, t, emergency, kw, y)
    BY <1>1, <1>2, SeenIs
  <2> QED
    BY <1>15, <2>1 DEF SeenAs
<1>4. KeptAs(o, t, emergency, kw, e)
  BY <1>1, KeptIs
<1>5. e.floor_kw = o.floor_kw /\ e.start_s = o.start_s
      /\ e.emergency = (o.emergency \/ emergency)
  BY <1>4 DEF KeptAs
<1>6. EventInv(e, t)
  BY KeptEvent
<1>7. AllSeen(o, much, x.any_above) /\ AllSeen(o, {None}, x.any_blind)
  BY <1>15 DEF SeenInv, AllSeen
<1>8. Noticed(o, s, much, x.above_since, x.long_above)
      /\ Noticed(o, s, {None}, x.blind_since, x.long_blind)
  BY <1>15 DEF SeenInv
<1>9. AllSeen(e, much, y.any_above) /\ AllSeen(e, {None}, y.any_blind)
  BY <1>2, <1>3, <1>7, KeptSeen
<1>10. Noticed(e, t, much, y.above_since, y.long_above)
  BY <1>2, <1>3, <1>8, KeptNoticed
<1>11. Noticed(e, t, {None}, y.blind_since, y.long_blind)
  BY <1>2, <1>3, <1>8, KeptNoticed
<1>12. much = TooMuch(e.floor_kw)
  BY <1>5, <1>15
<1>13. {y.any_above, y.any_blind, y.long_above, y.long_blind} \subseteq BOOLEAN
  BY <1>3
<1>14. y.emergency = e.emergency
  BY <1>2, <1>3, <1>5
<1> QED
  BY <1>3, <1>5, <1>6, <1>9, <1>10, <1>11, <1>12, <1>13, <1>14
  DEF SeenInv, AllSeen

\* The first cycle of an event, as a whole.
LEMMA EventStarts ==
  ASSUME NEW t \in Nat, NEW floor \in Floors, NEW emergency \in BOOLEAN,
         NEW kw \in Draws \cup {None},
         NEW o, o = NewEvent(t, floor, emergency, kw),
         NEW y, y = Seen(NothingSeen(t, floor), t, t, floor, emergency, kw)
  PROVE  EventInv(o, t) /\ SeenInv(o, t, y)
<1> DEFINE n == NothingSeen(t, floor)
           much == TooMuch(floor)
<1>1. Sample(t, kw) \in Samples
  BY DEF Sample, Samples
<1>2. /\ o.start_s = t /\ o.floor_kw = floor /\ o.emergency = emergency
      /\ o.samples = <<Sample(t, kw)>> /\ o.dropped = 0 /\ o.last_kept_s = t
  BY DEF NewEvent
<1>3. o \in Events
  <2>1. <<Sample(t, kw)>> \in Seq(Samples)
    BY <1>1
  <2>2. o = [start_s |-> t, floor_kw |-> floor, emergency |-> emergency,
             samples |-> <<Sample(t, kw)>>, dropped |-> 0, last_kept_s |-> t]
    BY DEF NewEvent
  <2> QED
    BY <2>1, <2>2 DEF Events
<1>4. Len(o.samples) = 1 /\ o.samples[1] = Sample(t, kw)
      /\ LastSample(o) = Sample(t, kw)
  BY <1>2 DEF LastSample
<1>5. LastSample(o).steuve_grid_kw = kw /\ LastSample(o).t_s = t
  BY <1>4 DEF Sample
<1>6. EventInv(o, t)
  <2>1. Len(o.samples) \in 1 .. MaxSamples
    BY <1>4, RecorderAssumption
  <2>2. \A k \in 1 .. Len(o.samples) : k = 1 /\ o.samples[k].t_s = t
    BY <1>4, <1>5 DEF LastSample
  <2>3. \A k \in 1 .. Len(o.samples) - 1 : FALSE
    BY <1>4
  <2> QED
    BY <1>2, <1>3, <1>5, <2>1, <2>2, <2>3 DEF EventInv
<1>7. /\ n.floor = floor /\ n.floor_since = t /\ n.emergency = FALSE
      /\ n.above_since = None /\ n.blind_since = None
      /\ n.any_above = FALSE /\ n.any_blind = FALSE
      /\ n.long_above = FALSE /\ n.long_blind = FALSE
  BY DEF NothingSeen
<1> HIDE DEF n
<1>8. y = Seen(n, o.start_s, t, o.floor_kw, emergency, kw)
  BY <1>2 DEF n
<1> HIDE DEF much
<1>9. much = TooMuch(o.floor_kw)
  BY <1>2 DEF much
<1>10. /\ y.floor = o.floor_kw /\ y.floor_since = o.start_s
       /\ y.emergency = (n.emergency \/ emergency)
       /\ y.any_above = (n.any_above \/ kw \in much)
       /\ y.any_blind = (n.any_blind \/ kw \in {None})
       /\ y.above_since = BadSince(o, t, much, kw, n.above_since)
       /\ y.blind_since = BadSince(o, t, {None}, kw, n.blind_since)
       /\ y.long_above = (n.long_above \/ BadForLong(t, y.above_since))
       /\ y.long_blind = (n.long_blind \/ BadForLong(t, y.blind_since))
  <2>1. SeenAs(o, n, t, emergency, kw, y)
    BY <1>2, <1>3, <1>7, <1>8, SeenIs
  <2> QED
    BY <1>9, <2>1 DEF SeenAs
<1>11. Noticed(o, t, much, y.above_since, y.long_above)
  BY <1>2, <1>5, <1>6, <1>7, <1>10, FirstNoticed
<1>12. Noticed(o, t, {None}, y.blind_since, y.long_blind)
  BY <1>2, <1>5, <1>6, <1>7, <1>10, FirstNoticed
<1>13. \A k \in 1 .. Len(o.samples) : o.samples[k].steuve_grid_kw = kw
  BY <1>4, <1>5 DEF LastSample
<1>14. /\ kw \in much => y.any_above
       /\ kw = None => y.any_blind
       /\ y.emergency = emergency
  BY <1>7, <1>10
<1>15. {y.any_above, y.any_blind, y.long_above, y.long_blind} \subseteq BOOLEAN
  BY <1>10
<1> QED
  BY <1>2, <1>6, <1>9, <1>10, <1>11, <1>12, <1>13, <1>14, <1>15 DEF SeenInv
\* A sample taken once the devices have settled counts at the end.
LEMMA SampleCounts ==
  ASSUME NEW o, NEW s \in Nat, EventInv(o, s), NEW t \in Nat, s < t,
         NEW k \in 1 .. Len(o.samples), o.samples[k].t_s >= o.start_s + Grace
  PROVE  k \in DOMAIN o.samples /\ Span(o, k, t) > 0
<1>1. /\ o.samples \in Seq(Samples) /\ o.start_s \in Nat /\ o.last_kept_s \in Nat
      /\ Grace \in Nat /\ KeepEvery \in Nat /\ KeepEvery > 0
  BY RecorderAssumption DEF EventInv, Events
<1>2. Len(o.samples) \in Nat /\ DOMAIN o.samples = 1 .. Len(o.samples)
  BY <1>1
<1>3. \A j \in 1 .. Len(o.samples) : o.samples[j].t_s \in Nat
  <2>1. \A j \in 1 .. Len(o.samples) : o.samples[j] \in Samples
    BY <1>1
  <2> QED
    BY <2>1 DEF Samples
<1> DEFINE from == o.samples[k].t_s
           next == IF k < Len(o.samples) THEN o.samples[k + 1].t_s ELSE t
<1>4. from \in Nat /\ from >= o.start_s + Grace
  BY <1>3
<1>5. next \in Nat /\ next > from
  <2>1. CASE k < Len(o.samples)
    <3>1. k \in 1 .. Len(o.samples) - 1 /\ k + 1 \in 1 .. Len(o.samples)
      BY <1>2, <2>1
    <3>2. o.samples[k + 1].t_s - o.samples[k].t_s >= KeepEvery
      BY <3>1 DEF EventInv
    <3>3. o.samples[k + 1].t_s \in Nat /\ o.samples[k].t_s \in Nat
      BY <1>3, <3>1
    <3>4. o.samples[k + 1].t_s > o.samples[k].t_s
      BY <1>1, <3>2, <3>3
    <3> QED
      BY <2>1, <3>3, <3>4
  <2>2. CASE ~(k < Len(o.samples))
    <3>1. from <= o.last_kept_s /\ o.last_kept_s <= s
      BY DEF EventInv
    <3> QED
      BY <1>1, <1>4, <2>2, <3>1
  <2> QED
    BY <2>1, <2>2
<1>6. Span(o, k, t) = next - IF from < o.start_s + Grace THEN o.start_s + Grace
                             ELSE from
  BY DEF Span
<1> HIDE DEF from, next
<1>7. Span(o, k, t) = next - from
  BY <1>1, <1>4, <1>6
<1> QED
  BY <1>2, <1>4, <1>5, <1>7

\* Recorder::close: the verdict is right about what the cycles saw.
LEMMA VerdictIsRight ==
  ASSUME NEW o, NEW s \in Nat, EventInv(o, s), NEW x, SeenInv(o, s, x),
         NEW t \in Nat, s < t, NEW v, v = VerdictOf(o, t)
  PROVE  /\ v \in Verdicts
         /\ v = "followed" => ~x.long_above /\ ~x.long_blind
         /\ v = "exceeded" => x.any_above
         /\ v = "unverified" => x.any_blind \/ o.dropped > 0
<1> DEFINE Counted == {k \in DOMAIN o.samples : Span(o, k, t) > 0}
           above == \E k \in Counted : Above(o.samples[k].steuve_grid_kw, o.floor_kw)
           blind == \E k \in Counted : o.samples[k].steuve_grid_kw = None
<1>1. v = IF above THEN "exceeded"
          ELSE IF o.dropped > 0 \/ blind THEN "unverified" ELSE "followed"
  BY DEF VerdictOf
<1>2. o.samples \in Seq(Samples) /\ o.dropped \in Nat
  BY DEF EventInv, Events
<1>3. DOMAIN o.samples = 1 .. Len(o.samples)
  BY <1>2
<1>4. \A k \in 1 .. Len(o.samples) :
        o.samples[k].steuve_grid_kw \in Draws \cup {None}
  <2>1. \A k \in 1 .. Len(o.samples) : o.samples[k] \in Samples
    BY <1>2
  <2> QED
    BY <2>1 DEF Samples
<1>5. Sampled(o, TooMuch(o.floor_kw)) => above
  <2> SUFFICES ASSUME Sampled(o, TooMuch(o.floor_kw)) PROVE above
    OBVIOUS
  <2>1. PICK k \in 1 .. Len(o.samples) :
          o.samples[k].steuve_grid_kw \in TooMuch(o.floor_kw)
          /\ o.samples[k].t_s >= o.start_s + Grace
    BY DEF Sampled
  <2>2. k \in Counted
    BY <2>1, SampleCounts
  <2>3. Above(o.samples[k].steuve_grid_kw, o.floor_kw)
    BY <2>1 DEF TooMuch
  <2> QED
    BY <2>2, <2>3
<1>6. Sampled(o, {None}) => blind
  <2> SUFFICES ASSUME Sampled(o, {None}) PROVE blind
    OBVIOUS
  <2>1. PICK k \in 1 .. Len(o.samples) :
          o.samples[k].steuve_grid_kw \in {None}
          /\ o.samples[k].t_s >= o.start_s + Grace
    BY DEF Sampled
  <2>2. k \in Counted
    BY <2>1, SampleCounts
  <2> QED
    BY <2>1, <2>2
<1>7. above => x.any_above
  <2> SUFFICES ASSUME NEW k \in Counted,
                      Above(o.samples[k].steuve_grid_kw, o.floor_kw)
               PROVE  x.any_above
    OBVIOUS
  <2>1. o.samples[k].steuve_grid_kw \in TooMuch(o.floor_kw)
    BY <1>3, <1>4 DEF TooMuch
  <2>2. k \in 1 .. Len(o.samples)
    BY <1>3
  <2> QED
    BY <2>1, <2>2 DEF SeenInv
<1>8. blind => x.any_blind
  BY <1>3 DEF SeenInv
<1>9. /\ o.dropped = 0 /\ x.long_above => Sampled(o, TooMuch(o.floor_kw))
      /\ o.dropped = 0 /\ x.long_blind => Sampled(o, {None})
  BY DEF SeenInv, Noticed
<1> HIDE DEF above, blind
<1>10. v \in Verdicts
  BY <1>1 DEF Verdicts
<1>11. v = "followed" => ~above /\ ~blind /\ o.dropped = 0
  BY <1>1, <1>2
<1>12. v = "exceeded" => above
  BY <1>1
<1>13. v = "unverified" => o.dropped > 0 \/ blind
  BY <1>1
<1> QED
  BY <1>5, <1>6, <1>7, <1>8, <1>9, <1>10, <1>11, <1>12, <1>13

LEMMA VerdictInit == CInit => VerdictInv
<1> SUFFICES ASSUME CInit PROVE VerdictInv
  OBVIOUS
<1>1. now = 0 /\ open = None /\ disk = {} /\ seq = 0 /\ judged = None
  BY DEF CInit, Resume
<1>2. MaxTime \in Nat /\ MaxReports \in Nat
  BY RecorderAssumption, NumberAssumption
<1> QED
  BY <1>1, <1>2 DEF VerdictInv, FollowedMeansWithinFloor, BlameHasACause
\* The cycle that ends an event.
LEMMA VerdictEnd ==
  ASSUME CInv, VerdictInv, NEW t \in 0 .. MaxTime, now < t, now' = t, End(t)
  PROVE  VerdictInv'
<1> DEFINE r == Report(open, t)
<1>1. /\ open # None /\ open' = None
      /\ seq' = r.seq /\ Write(r)
      /\ judged' = [seen |-> seen, report |-> r]
  BY DEF End
<1>2. now \in Nat /\ t \in Nat /\ seq \in Nat /\ seq < MaxReports
      /\ MaxReports \in Nat
  BY <1>1, RecorderAssumption, NumberAssumption
  DEF CInv, RecorderInv, OpenInv, VerdictInv
<1>3. EventInv(open, now) /\ SeenInv(open, now, seen)
  BY <1>1 DEF VerdictInv
<1>4. /\ open \in Events /\ open.start_s \in Nat /\ open.start_s <= now
      /\ open.dropped \in Nat /\ open.floor_kw \in Floors
      /\ open.emergency \in BOOLEAN
  BY <1>2, <1>3 DEF EventInv, Events
<1>5. /\ r.seq = seq + 1 /\ r.start_s = open.start_s /\ r.end_s = t
      /\ r.floor_kw = open.floor_kw /\ r.emergency = open.emergency
      /\ r.dropped = open.dropped /\ r.verdict = VerdictOf(open, t)
  BY DEF Report
<1> HIDE DEF r
<1>6. /\ r.verdict \in Verdicts
      /\ r.verdict = "followed" => ~seen.long_above /\ ~seen.long_blind
      /\ r.verdict = "exceeded" => seen.any_above
      /\ r.verdict = "unverified" => seen.any_blind \/ r.dropped > 0
  BY <1>2, <1>3, <1>5, VerdictIsRight
<1>7. seq' \in 0 .. MaxReports
  BY <1>1, <1>2, <1>5
<1>8. DimmingReport(r) /\ r.end_s <= t
  BY <1>2, <1>4, <1>5, <1>6 DEF DimmingReport
<1>9. \A f \in disk' : DimmingReport(f) /\ f.end_s <= t
  <2>1. disk' \subseteq disk \cup {r}
    BY <1>1 DEF Write
  <2>2. \A f \in disk : DimmingReport(f) /\ f.end_s <= t
    <3> SUFFICES ASSUME NEW f \in disk PROVE DimmingReport(f) /\ f.end_s <= t
      OBVIOUS
    <3>1. DimmingReport(f) /\ f.end_s <= now
      BY DEF VerdictInv
    <3>2. f.end_s \in Nat
      BY <3>1 DEF DimmingReport
    <3> QED
      BY <1>2, <3>1, <3>2
  <2> QED
    BY <1>8, <2>1, <2>2
<1>10. r.emergency <=> seen.emergency
  BY <1>3, <1>5 DEF SeenInv
<1>11. judged'.seen = seen /\ judged'.report = r
  BY <1>1
<1>12. FollowedMeansWithinFloor'
  BY <1>6, <1>11 DEF FollowedMeansWithinFloor
<1>13. BlameHasACause'
  BY <1>6, <1>10, <1>11 DEF BlameHasACause
<1>14. now' \in 0 .. MaxTime
  OBVIOUS
<1> QED
  BY <1>1, <1>7, <1>9, <1>12, <1>13, <1>14 DEF VerdictInv

\* A cycle that opens or continues an event.
LEMMA VerdictRecording ==
  ASSUME OneFloor, CInv, VerdictInv, NEW t \in 0 .. MaxTime, now < t, now' = t,
         NEW floor \in Floors, NEW emergency \in Emergencies,
         NEW kw \in Draws \cup {None},
         Start(t, floor, emergency, kw) \/ Continue(t, floor, emergency, kw)
  PROVE  VerdictInv'
<1>1. UNCHANGED <<seq, disk, judged>>
  BY DEF Start, Continue
<1>2. now \in Nat /\ t \in Nat /\ emergency \in BOOLEAN
  BY RecorderAssumption DEF VerdictInv
<1>3. EventInv(open', t) /\ SeenInv(open', t, seen')
  <2>1. CASE Start(t, floor, emergency, kw)
    <3>1. open' = NewEvent(t, floor, emergency, kw)
          /\ seen' = Seen(NothingSeen(t, floor), t, t, floor, emergency, kw)
      BY <2>1 DEF Start
    <3> QED
      BY <1>2, <3>1, EventStarts
  <2>2. CASE Continue(t, floor, emergency, kw)
    <3>1. /\ open # None
          /\ open' = Kept(open, t, emergency, kw)
          /\ seen' = Seen(seen, open.start_s, t, floor, emergency, kw)
      BY <2>2 DEF Continue
    <3>2. EventInv(open, now) /\ SeenInv(open, now, seen)
      BY <3>1 DEF VerdictInv
    <3>3. floor = open.floor_kw
      BY <3>2 DEF OneFloor, EventInv, Events
    <3> QED
      BY <1>2, <3>1, <3>2, <3>3, EventContinues
  <2> QED
    BY <2>1, <2>2
<1>4. \A f \in disk : DimmingReport(f) /\ f.end_s <= t
  <2> SUFFICES ASSUME NEW f \in disk PROVE DimmingReport(f) /\ f.end_s <= t
    OBVIOUS
  <2>1. DimmingReport(f) /\ f.end_s <= now
    BY DEF VerdictInv
  <2>2. f.end_s \in Nat
    BY <2>1 DEF DimmingReport
  <2> QED
    BY <1>2, <2>1, <2>2
<1>5. (FollowedMeansWithinFloor /\ BlameHasACause)'
  BY <1>1 DEF VerdictInv, FollowedMeansWithinFloor, BlameHasACause
<1>6. seq' \in 0 .. MaxReports /\ now' \in 0 .. MaxTime
  BY <1>1 DEF VerdictInv
<1> QED
  BY <1>1, <1>3, <1>4, <1>5, <1>6 DEF VerdictInv

\* Every step keeps the invariant.
LEMMA VerdictNext ==
  ASSUME NumbersFit, OneFloor, CInv, VerdictInv, [CNext]_cvars
  PROVE  VerdictInv'
<1>1. CASE Cycle
  <2>1. PICK step \in StepLengths :
          /\ now + step <= MaxTime
          /\ now' = now + step
          /\ \/ \E floor \in Floors, emergency \in Emergencies,
                   kw \in Draws \cup {None} :
                  \/ Start(now', floor, emergency, kw)
                  \/ Continue(now', floor, emergency, kw)
             \/ End(now')
             \/ Idle
    BY <1>1 DEF Cycle
  <2>2. now' \in 0 .. MaxTime /\ now < now' /\ now \in Nat /\ now' \in Nat
    BY <2>1, RecorderAssumption DEF VerdictInv
  <2>3. CASE Idle
    <3>1. UNCHANGED <<seq, disk, judged>> /\ open = None /\ open' = None
      BY <2>3 DEF Idle, recorder, history
    <3>2. \A f \in disk : DimmingReport(f) /\ f.end_s <= now'
      <4> SUFFICES ASSUME NEW f \in disk PROVE DimmingReport(f) /\ f.end_s <= now'
        OBVIOUS
      <4>1. DimmingReport(f) /\ f.end_s <= now
        BY DEF VerdictInv
      <4>2. f.end_s \in Nat
        BY <4>1 DEF DimmingReport
      <4> QED
        BY <2>2, <4>1, <4>2
    <3> QED
      BY <2>2, <3>1, <3>2
      DEF VerdictInv, FollowedMeansWithinFloor, BlameHasACause
  <2>4. CASE End(now')
    BY <2>2, <2>4, VerdictEnd
  <2>5. CASE \E floor \in Floors, emergency \in Emergencies,
                kw \in Draws \cup {None} :
               \/ Start(now', floor, emergency, kw)
               \/ Continue(now', floor, emergency, kw)
    BY <2>2, <2>5, VerdictRecording
  <2> QED
    BY <2>1, <2>3, <2>4, <2>5
<1>2. CASE Restart
  <2>1. UNCHANGED <<now, disk, judged>> /\ open' = None /\ seq' = Resume(disk)[1]
    BY <1>2 DEF Restart
  <2>2. seq' \in 0 .. MaxReports
    <3>1. CASE disk = {}
      BY <2>1, <3>1, NumberAssumption DEF Resume
    <3>2. CASE disk # {}
      <4>1. Newest(disk) = last_written /\ last_written \in disk
        BY <3>2, NewestIsLastWritten DEF CInv, LastWritten
      <4>2. last_written.seq \in 1 .. MaxReports
        BY <4>1 DEF VerdictInv, DimmingReport
      <4>3. seq' = last_written.seq
        BY <2>1, <3>2, <4>1, <4>2, NumberAssumption DEF Resume, Leading, NumbersFit
      <4> QED
        BY <4>2, <4>3, NumberAssumption
    <3> QED
      BY <3>1, <3>2
  <2> QED
    BY <2>1, <2>2 DEF VerdictInv, FollowedMeansWithinFloor, BlameHasACause
<1>3. CASE UNCHANGED cvars
  BY <1>3 DEF cvars, recorder, history, VerdictInv, FollowedMeansWithinFloor,
              BlameHasACause
<1> QED
  BY <1>1, <1>2, <1>3 DEF CNext, EndOfTime

\* Recorder::close: "followed" means that for no second or longer the draw was
\* above the floor, or unknown, once the devices had settled; a verdict against
\* the site has a cause in some cycle.  For any length of event and of the time
\* between cycles, whatever the restarts, as long as the floor does not change.
THEOREM VerdictIsTrueHolds ==
  ASSUME NumbersFit, OneFloor
  PROVE  CSpec => []VerdictIsTrue
<1>1. CInit => CInv /\ VerdictInv
  BY InitInv, VerdictInit
<1>2. (CInv /\ VerdictInv) /\ [CNext]_cvars => (CInv /\ VerdictInv)'
  BY NextInv, VerdictNext
<1>3. CInv /\ VerdictInv => VerdictIsTrue
  BY VerdictInvIsTrue
<1> QED
  BY <1>1, <1>2, <1>3, PTL DEF CSpec
=============================================================================
