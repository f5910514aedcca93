--------------------------- MODULE PresenceProofs ---------------------------
(* Proofs about Presence: type correctness, that one monitor records at most *)
(* one red alert per episode, sends a red message again only after one whose *)
(* cycle was cut short, and only ever raises a worker's level.               *)
EXTENDS Presence, TLAPS

\* Two monitor processes never run side by side: the unit is started once.
OneMonitor == \A m, n \in Monitors : m = n

\* A listed worker that still waits for its turn has the level that was read,
\* unless a report has cleared it since.
ListedIsCurrent ==
    \A m \in Monitors, w \in Workers :
        mon[m].listed[w].status = "active" =>
            \/ row[w].alert = NoLevel
            \/ /\ row[w].alert = mon[m].listed[w].alert
               /\ row[w].alertAt = mon[m].listed[w].alertAt

\* An alert on its way was due on the row that was listed.
PostingIsDue ==
    \A m \in Monitors :
        mon[m].phase = "posting" =>
            /\ TargetRow(m).status = "active"
            /\ AlertDue(TargetRow(m), mon[m].now)

\* A red row inserted since the last report is still what the worker shows.
RedShows == \A w \in Workers : reds[w] = 0 \/ (reds[w] = 1 /\ row[w].alert = Red)

\* Every red message of the episode is the recorded one, one whose cycle was cut
\* short, or the one that is on its way.
RedsAreCounted ==
    \A w \in Workers :
        \/ posted[w] <= missed[w] + reds[w]
        \/ /\ posted[w] = missed[w] + reds[w] + 1
           /\ \E m \in Monitors : Target(m) = w /\ RedIsOut(m)

\* The inductive invariant.
MonitorInv == TypeOK /\ ListedIsCurrent /\ PostingIsDue /\ RedShows /\ RedsAreCounted

USE DEF counts

-----------------------------------------------------------------------------
\* DueLevel returns a level or NoLevel, for ages of any sign.
LEMMA DueLevelType ==
    ASSUME NEW p \in Protocols, NEW age \in Int
    PROVE  DueLevel(p, age) \in Levels \cup {NoLevel}
<1> DEFINE P(level) == /\ level # NoLevel => age >= Thresholds[p][level]
                       /\ \A k \in Levels : age >= Thresholds[p][k] => k <= level
<1>1. Thresholds[p] \in [Levels -> Nat \ {0}]
  BY PresenceConstants
<1>2. \E level \in Levels \cup {NoLevel} : P(level)
  <2>1. CASE age >= Thresholds[p][3]
    <3>1. P(3)  BY <2>1, <1>1 DEF Levels, Yellow, Orange, Red, NoLevel
    <3> QED  BY <3>1 DEF Levels, Red
  <2>2. CASE age < Thresholds[p][3] /\ age >= Thresholds[p][2]
    <3>1. P(2)  BY <2>2, <1>1 DEF Levels, Yellow, Orange, Red, NoLevel
    <3> QED  BY <3>1 DEF Levels, Orange
  <2>3. CASE age < Thresholds[p][3] /\ age < Thresholds[p][2] /\ age >= Thresholds[p][1]
    <3>1. P(1)  BY <2>3, <1>1 DEF Levels, Yellow, Orange, Red, NoLevel
    <3> QED  BY <3>1 DEF Levels, Yellow
  <2>4. CASE age < Thresholds[p][3] /\ age < Thresholds[p][2] /\ age < Thresholds[p][1]
    <3>1. P(0)  BY <2>4, <1>1 DEF Levels, Yellow, Orange, Red, NoLevel
    <3> QED  BY <3>1 DEF NoLevel
  <2> QED  BY <2>1, <2>2, <2>3, <2>4, <1>1 DEF Levels, Yellow, Orange, Red
<1> QED  BY <1>2 DEF DueLevel

LEMMA LevelAtType ==
    ASSUME NEW r \in Row, NEW now \in Times
    PROVE  LevelAt(r, now) \in Levels \cup {NoLevel}
<1>1. CASE ClockValue(r) = Never
  BY <1>1 DEF LevelAt
<1>2. CASE ClockValue(r) # Never
  <2>1. now - ClockValue(r) \in Int
    BY PresenceConstants DEF Row, ClockValue, Stamps, Times, Never
  <2>2. r.protocol \in Protocols
    BY DEF Row
  <2> QED  BY <1>2, <2>1, <2>2, DueLevelType DEF LevelAt
<1> QED  BY <1>1, <1>2

LEMMA NoRowType == NoRow \in Row
  BY DEF NoRow, Row, Protocols, Stamps, Never, NoLevel

LEMMA SomeWorkerType == SomeWorker \in Workers
  BY PresenceConstants DEF SomeWorker

LEMMA NoReportType == NoReport \in Report
  BY SomeWorkerType, PresenceConstants
     DEF NoReport, Report, Kinds, Events, Protocols, Times, Stamps, Never

LEMMA NoCycleType == NoCycle \in Cycle
  BY SomeWorkerType, NoRowType, PresenceConstants DEF NoCycle, Cycle, Times, Channels
-----------------------------------------------------------------------------
\* Every variable keeps to its type: no action writes a value the schema, the
\* protocols or the processes do not know.
THEOREM TypeCorrect == Spec => []TypeOK
<1>1. Init => TypeOK
  BY NoRowType, NoReportType, NoCycleType, PresenceConstants DEF Init, TypeOK, Times
<1>2. TypeOK /\ [Next]_vars => TypeOK'
  <2> SUFFICES ASSUME TypeOK, [Next]_vars PROVE TypeOK'
    OBVIOUS
  <2> USE DEF TypeOK
  <2>1. CASE Tick
    BY <2>1, PresenceConstants DEF Tick, Times
  <2>2. ASSUME NEW r \in Reporters, ReporterStep(r) PROVE TypeOK'
    <3>0. rep[r] \in Report
      OBVIOUS
    <3>1. ASSUME NEW w \in Workers, NEW kind \in Kinds, NEW p \in ReportProtocols,
                 NEW auto \in BOOLEAN, Stamp(r, w, kind, p, auto)
          PROVE  TypeOK'
      BY <3>1, PresenceConstants DEF Stamp, Report, Times, Stamps
    <3>2. CASE ReadForEvent(r)
      <4>1. row[rep[r].worker] \in Row
        BY <3>0 DEF Report
      <4> QED  BY <3>0, <3>2, <4>1 DEF ReadForEvent, Report, Row, Stamps
    <3>3. CASE ReadForObservation(r)
      <4>1. row[rep[r].worker] \in Row
        BY <3>0 DEF Report
      <4>2. row[rep[r].worker].signal \in Stamps
        BY <4>1 DEF Row
      <4>3. rep' \in [Reporters -> Report]
        <5>1. CASE rep' = [rep EXCEPT ![r] = NoReport]
          BY <5>1, NoReportType
        <5>2. CASE rep' = [rep EXCEPT ![r].phase = "read",
                                      ![r].signal = row[rep[r].worker].signal]
          BY <3>0, <5>2, <4>2 DEF Report
        <5> QED  BY <3>3, <5>1, <5>2 DEF ReadForObservation
      <4> QED  BY <3>3, <4>3 DEF ReadForObservation
    <3>4. CASE WriteEvent(r)
      BY <3>0, <3>4, NoReportType DEF WriteEvent, NewEpisode, Report, Row, Stamps
    <3>5. CASE WriteObservation(r)
      <4>1. row[rep[r].worker] \in Row
        BY <3>0 DEF Report
      <4> QED  BY <3>0, <3>5, <4>1, NoReportType DEF WriteObservation, NewEpisode, Report, Row, Stamps
    <3>6. CASE ReporterDies(r)
      BY <3>6, NoReportType DEF ReporterDies
    <3>7. Events \subseteq Kinds /\ "observe" \in Kinds /\ AutoStart \subseteq BOOLEAN
      BY PresenceConstants DEF Kinds, Events
    <3>8. CASE \E w \in Workers, kind \in Events, p \in ReportProtocols :
                  Stamp(r, w, kind, p, FALSE)
      BY <3>1, <3>7, <3>8
    <3>9. CASE \E w \in Workers, p \in ReportProtocols, auto \in AutoStart :
                  Stamp(r, w, "observe", p, auto)
      BY <3>1, <3>7, <3>9
    <3> QED  BY <2>2, <3>2, <3>3, <3>4, <3>5, <3>6, <3>8, <3>9 DEF ReporterStep
  <2>3. ASSUME NEW m \in Monitors, MonitorStep(m) PROVE TypeOK'
    <3>0. mon[m] \in Cycle /\ TargetRow(m) \in Row /\ Target(m) \in Workers
      BY DEF Cycle, TargetRow, Target
    <3>1. CASE StartCycle(m)
      BY <3>0, <3>1 DEF StartCycle, Cycle
    <3>2. CASE ListWorkers(m)
      BY <3>0, <3>2, NoRowType DEF ListWorkers, Cycle
    <3>3. ASSUME NEW w \in Workers, SkipWorker(m, w) PROVE TypeOK'
      BY <3>0, <3>3, NoRowType DEF SkipWorker, Cycle
    <3>4. ASSUME NEW w \in Workers, BeginAlert(m, w) PROVE TypeOK'
      BY <3>0, <3>4 DEF BeginAlert, Cycle
    <3>5. ASSUME NEW c \in Channels, Post(m, c) PROVE TypeOK'
      <4>1. posted' \in [Workers -> Nat]
        BY <3>0, <3>5 DEF Post
      <4> QED  BY <3>0, <3>5, <4>1 DEF Post, Cycle
    <3>6. CASE RecordAlert(m)
      <4>1. LevelAt(TargetRow(m), mon[m].now) \in Levels \cup {NoLevel}
        BY <3>0, LevelAtType DEF Cycle
      <4>2. mon[m].now \in Stamps
        BY <3>0 DEF Cycle, Stamps
      <4>3. row' \in [Workers -> Row]
        BY <3>0, <3>6, <4>1, <4>2 DEF RecordAlert, Row
      <4>4. reds' \in [Workers -> Nat]
        BY <3>0, <3>6 DEF RecordAlert
      <4>5. mon' = [mon EXCEPT ![m].phase = "loop", ![m].listed[Target(m)] = NoRow,
                               ![m].target = SomeWorker, ![m].reached = {}]
        BY <3>6 DEF RecordAlert
      <4>6. mon' \in [Monitors -> Cycle]
        BY <3>0, <4>5, NoRowType, SomeWorkerType DEF Cycle
      <4> QED  BY <3>6, <4>3, <4>4, <4>6 DEF RecordAlert
    <3>7. CASE EndCycle(m)
      BY <3>7, NoCycleType DEF EndCycle
    <3>8. CASE PostFails(m)
      <4>1. mon' \in [Monitors -> Cycle]
        BY <3>0, <3>8, NoRowType, SomeWorkerType DEF LosesAlert, PostFails, Cycle
      <4>2. faults' \in 0 .. MaxFaults /\ missed' \in [Workers -> Nat]
        BY <3>0, <3>8, PresenceConstants DEF LosesAlert, PostFails
      <4> QED  BY <3>8, <4>1, <4>2 DEF LosesAlert, PostFails
    <3>9. CASE MonitorCrashes(m)
      <4>1. faults' \in 0 .. MaxFaults /\ missed' \in [Workers -> Nat]
        BY <3>0, <3>9, PresenceConstants DEF LosesAlert, MonitorCrashes
      <4> QED  BY <3>9, <4>1, NoCycleType DEF LosesAlert, MonitorCrashes
    <3> QED  BY <2>3, <3>1, <3>2, <3>3, <3>4, <3>5, <3>6, <3>7, <3>8, <3>9
             DEF MonitorStep, CycleStep
  <2>4. CASE UNCHANGED vars
    BY <2>4 DEF vars
  <2> QED  BY <2>1, <2>2, <2>3, <2>4 DEF Next
<1> QED  BY <1>1, <1>2, PTL DEF Spec
-----------------------------------------------------------------------------
\* What an alert that is due says about the row it was decided on: the level is
\* a new height of the ladder, or a permitted repeat that is not red.
LEMMA DueLadder ==
    ASSUME NEW r \in Row, NEW now \in Times, AlertDue(r, now)
    PROVE  /\ LevelAt(r, now) \in Levels
           /\ \/ LevelAt(r, now) > r.alert
              \/ /\ LevelAt(r, now) = r.alert
                 /\ r.alert \in RepeatLevels \ {Red}
                 /\ now - r.alertAt >= RepeatAfter
<1>1. LevelAt(r, now) \in Levels
  BY LevelAtType DEF AlertDue
<1> QED  BY <1>1 DEF AlertDue, ShouldSendAlert, ShouldEscalate

\* The conjuncts of the invariant that speak of monitors, over one step.
LEMMA ListedStep ==
    ASSUME OneMonitor, MonitorInv, [Next]_vars
    PROVE  ListedIsCurrent' /\ PostingIsDue'
<1> USE DEF MonitorInv, ListedIsCurrent, PostingIsDue, TargetRow
<1>0. TypeOK
  OBVIOUS
<1>1. CASE Tick
  BY <1>1 DEF Tick
<1>2. ASSUME NEW r \in Reporters, ReporterStep(r)
      PROVE  ListedIsCurrent' /\ PostingIsDue'
  <2>1. mon' = mon
    BY <1>2 DEF ReporterStep, Stamp, ReadForEvent, ReadForObservation, WriteEvent,
                WriteObservation, ReporterDies
  <2>2. \A w \in Workers : row'[w] = row[w] \/ row'[w].alert = NoLevel
    BY <1>2, <1>0 DEF ReporterStep, Stamp, ReadForEvent, ReadForObservation, WriteEvent,
                WriteObservation, NewEpisode, ReporterDies, TypeOK
  <2> QED  BY <2>1, <2>2
<1>3. ASSUME NEW m \in Monitors, MonitorStep(m)
      PROVE  ListedIsCurrent' /\ PostingIsDue'
  <2>0. mon[m] \in Cycle /\ TargetRow(m) \in Row /\ Target(m) \in Workers
    BY <1>0 DEF TypeOK, Cycle, Target
  <2>1. CASE StartCycle(m)
    BY <1>0, <2>0, <2>1 DEF StartCycle, TypeOK, Cycle
  <2>2. CASE ListWorkers(m)
    BY <1>0, <2>0, <2>2 DEF ListWorkers, TypeOK, Cycle, NoRow
  <2>3. ASSUME NEW w \in Workers, SkipWorker(m, w)
        PROVE  ListedIsCurrent' /\ PostingIsDue'
    BY <1>0, <2>0, <2>3 DEF SkipWorker, TypeOK, Cycle, NoRow
  <2>4. ASSUME NEW w \in Workers, BeginAlert(m, w)
        PROVE  ListedIsCurrent' /\ PostingIsDue'
    BY <1>0, <2>0, <2>4 DEF BeginAlert, TypeOK, Cycle
  <2>5. ASSUME NEW c \in Channels, Post(m, c)
        PROVE  ListedIsCurrent' /\ PostingIsDue'
    BY <1>0, <2>0, <2>5 DEF Post, TypeOK, Cycle
  <2>6. CASE RecordAlert(m)
    BY <1>0, <2>0, <2>6, OneMonitor DEF RecordAlert, TypeOK, Cycle, Target, OneMonitor, NoRow
  <2>7. CASE EndCycle(m)
    BY <1>0, <2>0, <2>7 DEF EndCycle, TypeOK, NoCycle, NoRow
  <2>8. CASE PostFails(m)
    BY <1>0, <2>0, <2>8 DEF LosesAlert, PostFails, TypeOK, Cycle, Target, NoRow
  <2>9. CASE MonitorCrashes(m)
    BY <1>0, <2>0, <2>9 DEF LosesAlert, MonitorCrashes, TypeOK, NoCycle, NoRow
  <2> QED  BY <1>3, <2>1, <2>2, <2>3, <2>4, <2>5, <2>6, <2>7, <2>8, <2>9
           DEF MonitorStep, CycleStep
<1>4. CASE UNCHANGED vars
  BY <1>4 DEF vars
<1> QED  BY <1>1, <1>2, <1>3, <1>4 DEF Next

\* A red row is inserted only while the worker shows no red one.
LEMMA RedStep ==
    ASSUME MonitorInv, [Next]_vars
    PROVE  RedShows'
<1> USE DEF MonitorInv, RedShows
<1>0. TypeOK
  OBVIOUS
<1>1. CASE Tick
  BY <1>1 DEF Tick
<1>2. ASSUME NEW r \in Reporters, ReporterStep(r) PROVE RedShows'
  BY <1>2, <1>0 DEF ReporterStep, Stamp, ReadForEvent, ReadForObservation, WriteEvent,
              WriteObservation, NewEpisode, ReporterDies, TypeOK
<1>3. ASSUME NEW m \in Monitors, RecordAlert(m) PROVE RedShows'
  <2> DEFINE w == Target(m)
             level == LevelAt(TargetRow(m), mon[m].now)
  <2>1. mon[m] \in Cycle /\ TargetRow(m) \in Row /\ w \in Workers
    BY <1>0 DEF TypeOK, Cycle, TargetRow, Target
  <2>2. TargetRow(m).status = "active" /\ AlertDue(TargetRow(m), mon[m].now)
    BY <1>3 DEF PostingIsDue, RecordAlert
  <2>3. row[w].alert = NoLevel \/ row[w].alert = TargetRow(m).alert
    BY <2>1, <2>2 DEF ListedIsCurrent, TargetRow, Target
  <2>4. /\ level \in Levels
        /\ \/ level > TargetRow(m).alert
           \/ level = TargetRow(m).alert /\ level # Red
    BY <2>1, <2>2, DueLadder DEF Cycle
  <2>5. row[w].alert # Red
    BY <2>1, <2>3, <2>4 DEF Levels, Yellow, Orange, Red, NoLevel, Row
  <2>6. reds[w] = 0
    BY <2>1, <2>5
  <2> QED  BY <1>0, <1>3, <2>1, <2>6 DEF RecordAlert, TypeOK, Row
<1>4. ASSUME NEW m \in Monitors, MonitorStep(m), ~RecordAlert(m) PROVE RedShows'
  BY <1>4 DEF MonitorStep, CycleStep, StartCycle, ListWorkers, SkipWorker, BeginAlert,
              Post, EndCycle, PostFails, MonitorCrashes, LosesAlert
<1>5. CASE UNCHANGED vars
  BY <1>5 DEF vars
<1> QED  BY <1>1, <1>2, <1>3, <1>4, <1>5 DEF Next

\* A red message goes out only while none is on its way, and leaves its way only
\* by record_alert or by a cycle that is cut short.
LEMMA CountedStep ==
    ASSUME OneMonitor, MonitorInv, [Next]_vars
    PROVE  RedsAreCounted'
<1> USE DEF MonitorInv
<1>0. TypeOK
  OBVIOUS
<1>1. CASE Tick
  BY <1>1 DEF Tick, RedsAreCounted, RedIsOut, PostsRed, Target, TargetRow
<1>2. ASSUME NEW r \in Reporters, ReporterStep(r) PROVE RedsAreCounted'
  <2>1. mon' = mon
    BY <1>2 DEF ReporterStep, Stamp, ReadForEvent, ReadForObservation, WriteEvent,
                WriteObservation, ReporterDies
  <2>2. \A w \in Workers :
           \/ posted'[w] = posted[w] /\ missed'[w] = missed[w] /\ reds'[w] = reds[w]
           \/ posted'[w] = 0 /\ missed'[w] = 0 /\ reds'[w] = 0
    BY <1>2, <1>0 DEF ReporterStep, Stamp, ReadForEvent, ReadForObservation, WriteEvent,
                WriteObservation, NewEpisode, ReporterDies, TypeOK
  <2> QED  BY <2>1, <2>2 DEF RedsAreCounted, RedIsOut, PostsRed, Target, TargetRow
<1>3. ASSUME NEW m \in Monitors, MonitorStep(m) PROVE RedsAreCounted'
  <2> DEFINE t == Target(m)
  <2>0. mon[m] \in Cycle /\ TargetRow(m) \in Row /\ t \in Workers
    BY <1>0 DEF TypeOK, Cycle, TargetRow, Target
  <2>1. \A w \in Workers : posted[w] \in Nat /\ missed[w] \in Nat /\ reds[w] \in Nat
    BY <1>0 DEF TypeOK
  \* The only monitor is m: what is not its own red message is accounted for.
  <2>2. \A w \in Workers : ~(w = t /\ RedIsOut(m)) => posted[w] <= missed[w] + reds[w]
    BY <1>3, OneMonitor DEF RedsAreCounted, OneMonitor
  <2>3. RedIsOut(m) => posted[t] <= missed[t] + reds[t] + 1
    BY <2>0, <2>1 DEF RedsAreCounted
  <2>4. CASE StartCycle(m) \/ ListWorkers(m) \/ EndCycle(m)
                \/ \E w \in Workers : SkipWorker(m, w) \/ BeginAlert(m, w)
    <3>1. ~RedIsOut(m) /\ posted' = posted /\ missed' = missed /\ reds' = reds
      BY <2>4 DEF StartCycle, ListWorkers, EndCycle, SkipWorker, BeginAlert, RedIsOut
    <3> QED  BY <2>2, <3>1 DEF RedsAreCounted
  <2>5. ASSUME NEW c \in Channels, Post(m, c) PROVE RedsAreCounted'
    <3>1. /\ mon'[m].phase = "posting" /\ mon'[m].now = mon[m].now
          /\ mon'[m].target = mon[m].target /\ mon'[m].listed = mon[m].listed
          /\ mon'[m].reached = mon[m].reached \cup {c}
          /\ missed' = missed /\ reds' = reds
      BY <1>0, <2>0, <2>5 DEF Post, TypeOK, Cycle
    <3>2. PostsRed(m)' <=> PostsRed(m)
      BY <3>1 DEF PostsRed, TargetRow
    <3>3. CASE c = "discord" /\ PostsRed(m)
      <4>1. ~RedIsOut(m)
        BY <2>5, <3>3 DEF Post, StillToPost, RedIsOut
      <4>2. posted' = [posted EXCEPT ![t] = @ + 1]
        BY <2>5, <3>3 DEF Post
      <4>3. posted'[t] = posted[t] + 1
        BY <1>0, <2>0, <4>2 DEF TypeOK
      <4>4. Target(m)' = t /\ RedIsOut(m)'
        BY <2>1, <2>0, <3>1, <3>2, <3>3, <4>3 DEF RedIsOut, Target
      <4>5. ASSUME NEW w \in Workers
            PROVE  \/ posted'[w] <= missed'[w] + reds'[w]
                   \/ /\ posted'[w] = missed'[w] + reds'[w] + 1
                      /\ Target(m)' = w /\ RedIsOut(m)'
        <5>1. posted[w] <= missed[w] + reds[w]
          BY <2>2, <4>1
        <5>2. CASE w = t
          BY <2>1, <3>1, <4>3, <4>4, <5>1, <5>2
        <5>3. CASE w # t
          BY <1>0, <3>1, <4>2, <5>1, <5>3 DEF TypeOK
        <5> QED  BY <5>2, <5>3
      <4> QED  BY <4>5 DEF RedsAreCounted
    <3>4. CASE ~(c = "discord" /\ PostsRed(m))
      <4>1. posted' = posted
        BY <2>5, <3>4 DEF Post
      <4>2. Target(m)' = t /\ (RedIsOut(m) => RedIsOut(m)')
        BY <3>1, <3>2, <4>1 DEF RedIsOut, Target
      <4>3. ASSUME NEW w \in Workers
            PROVE  \/ posted'[w] <= missed'[w] + reds'[w]
                   \/ /\ posted'[w] = missed'[w] + reds'[w] + 1
                      /\ Target(m)' = w /\ RedIsOut(m)'
        BY <2>1, <2>2, <2>3, <3>1, <4>1, <4>2
      <4> QED  BY <4>3 DEF RedsAreCounted
    <3> QED  BY <3>3, <3>4
  <2>6. CASE RecordAlert(m)
    <3>1. posted' = posted /\ missed' = missed
      BY <2>6 DEF RecordAlert
    <3>2. \A w \in Workers : reds'[w] >= reds[w]
      BY <1>0, <2>0, <2>1, <2>6 DEF RecordAlert, TypeOK
    <3>3. RedIsOut(m) => reds'[t] = reds[t] + 1
      BY <1>0, <2>0, <2>6 DEF RecordAlert, RedIsOut, PostsRed, TypeOK
    <3>4. \A w \in Workers : reds'[w] \in Nat
      BY <1>0, <2>0, <2>1, <2>6 DEF RecordAlert, TypeOK
    <3>5. \A w \in Workers : posted'[w] <= missed'[w] + reds'[w]
      BY <2>1, <2>2, <2>3, <3>1, <3>2, <3>3, <3>4
    <3> QED  BY <3>5 DEF RedsAreCounted
  <2>7. CASE PostFails(m) \/ MonitorCrashes(m)
    <3>1. /\ posted' = posted /\ reds' = reds
          /\ missed' = IF RedIsOut(m) THEN [missed EXCEPT ![t] = @ + 1] ELSE missed
      BY <2>7 DEF LosesAlert, PostFails, MonitorCrashes
    <3>2. \A w \in Workers : missed'[w] \in Nat /\ missed'[w] >= missed[w]
      BY <1>0, <2>0, <2>1, <3>1 DEF TypeOK
    <3>3. RedIsOut(m) => missed'[t] = missed[t] + 1
      BY <1>0, <2>0, <3>1 DEF TypeOK
    <3>4. \A w \in Workers : posted'[w] <= missed'[w] + reds'[w]
      BY <2>1, <2>2, <2>3, <3>1, <3>2, <3>3
    <3> QED  BY <3>4 DEF RedsAreCounted
  <2> QED  BY <1>3, <2>4, <2>5, <2>6, <2>7 DEF MonitorStep, CycleStep
<1>4. CASE UNCHANGED vars
  BY <1>4 DEF vars, RedsAreCounted, RedIsOut, PostsRed, Target, TargetRow
<1> QED  BY <1>1, <1>2, <1>3, <1>4 DEF Next

\* While a red message is on its way the worker's row is not red.
LEMMA OutIsUnrecorded ==
    ASSUME MonitorInv, NEW m \in Monitors, RedIsOut(m)
    PROVE  reds[Target(m)] = 0
<1>1. mon[m] \in Cycle /\ TargetRow(m) \in Row /\ Target(m) \in Workers
  BY DEF MonitorInv, TypeOK, Cycle, TargetRow, Target
<1>2. TargetRow(m).status = "active" /\ AlertDue(TargetRow(m), mon[m].now)
  BY DEF MonitorInv, PostingIsDue, RedIsOut
<1>3. row[Target(m)].alert = NoLevel \/ row[Target(m)].alert = TargetRow(m).alert
  BY <1>1, <1>2 DEF MonitorInv, ListedIsCurrent, TargetRow, Target
<1>4. TargetRow(m).alert # Red
  BY <1>1, <1>2, DueLadder DEF Cycle, RedIsOut, PostsRed, Row, Levels, Yellow, Orange, Red, NoLevel
<1> QED  BY <1>1, <1>3, <1>4 DEF MonitorInv, RedShows, Red, NoLevel

\* The inductive invariant holds in every behaviour with one monitor.
THEOREM MonitorInvariant == ASSUME OneMonitor PROVE Spec => []MonitorInv
<1>1. Init => ListedIsCurrent /\ PostingIsDue /\ RedShows /\ RedsAreCounted
  BY DEF Init, ListedIsCurrent, PostingIsDue, RedShows, RedsAreCounted, NoCycle, NoRow
<1>2. TypeOK /\ TypeOK' /\ MonitorInv /\ [Next]_vars => MonitorInv'
  BY ListedStep, RedStep, CountedStep DEF MonitorInv
<1> QED  BY <1>1, <1>2, TypeCorrect, PTL DEF Spec, MonitorInv

\* One monitor records at most one red alert between two reports of a worker, and
\* sends one red message more than it was kept from recording, for any number of
\* workers and reporters, thresholds, windows and failures.
THEOREM RedOnce == ASSUME OneMonitor PROVE Spec => []RedOncePerEpisode
<1>1. ASSUME MonitorInv, NEW w \in Workers
      PROVE  reds[w] <= 1 /\ posted[w] <= 1 + missed[w]
  <2>1. reds[w] \in {0, 1} /\ posted[w] \in Nat /\ missed[w] \in Nat
    BY <1>1 DEF MonitorInv, RedShows, TypeOK
  <2>2. CASE posted[w] <= missed[w] + reds[w]
    BY <2>1, <2>2
  <2>3. ASSUME posted[w] = missed[w] + reds[w] + 1,
               NEW m \in Monitors, Target(m) = w, RedIsOut(m)
        PROVE  posted[w] <= 1 + missed[w]
    <3>1. reds[w] = 0
      BY <1>1, <2>3, OutIsUnrecorded
    <3> QED  BY <2>1, <2>3, <3>1
  <2> QED  BY <1>1, <2>1, <2>2, <2>3 DEF MonitorInv, RedsAreCounted
<1>2. MonitorInv => RedOncePerEpisode
  BY <1>1 DEF RedOncePerEpisode
<1> QED  BY <1>2, MonitorInvariant, PTL

\* One monitor only ever raises a worker's level between two reports, or repeats
\* a level the configuration lets it repeat after the configured interval.
THEOREM LevelsRise == ASSUME OneMonitor PROVE Spec => LevelsOnlyRise
<1>1. ASSUME MonitorInv, [Next]_vars, NEW w \in Workers, LevelWritten(w)
      PROVE  \/ row'[w].alert > row[w].alert
             \/ /\ row'[w].alert = row[w].alert
                /\ row'[w].alert \in RepeatLevels \ {Red}
                /\ row'[w].alertAt - row[w].alertAt >= RepeatAfter
  <2>0. TypeOK
    BY <1>1 DEF MonitorInv
  <2>1. PICK m \in Monitors : Target(m) = w /\ RecordAlert(m)
    BY <1>1 DEF LevelWritten
  <2>2. mon[m] \in Cycle /\ TargetRow(m) \in Row /\ Target(m) \in Workers
    BY <2>0 DEF TypeOK, Cycle, TargetRow, Target
  <2>3. /\ w = Target(m)
        /\ row'[w].alert = LevelAt(TargetRow(m), mon[m].now)
        /\ row'[w].alertAt = mon[m].now
    BY <1>1, <2>0, <2>1, <2>2 DEF LevelWritten, RecordAlert, TypeOK, Row
  <2>4. TargetRow(m).status = "active" /\ AlertDue(TargetRow(m), mon[m].now)
    BY <1>1, <2>1 DEF MonitorInv, PostingIsDue, RecordAlert
  <2>5. \/ row[w].alert = NoLevel
        \/ /\ row[w].alert = TargetRow(m).alert
           /\ row[w].alertAt = TargetRow(m).alertAt
    BY <1>1, <2>2, <2>3, <2>4 DEF MonitorInv, ListedIsCurrent, TargetRow, Target
  <2>6. /\ row'[w].alert \in Levels
        /\ \/ row'[w].alert > TargetRow(m).alert
           \/ /\ row'[w].alert = TargetRow(m).alert
              /\ TargetRow(m).alert \in RepeatLevels \ {Red}
              /\ mon[m].now - TargetRow(m).alertAt >= RepeatAfter
    BY <2>2, <2>3, <2>4, DueLadder DEF Cycle
  <2> QED  BY <2>3, <2>5, <2>6 DEF Levels, Yellow, Orange, Red, NoLevel
<1>2. MonitorInv /\ [Next]_vars =>
        [\A w \in Workers :
            LevelWritten(w) =>
               \/ row'[w].alert > row[w].alert
               \/ /\ row'[w].alert = row[w].alert
                  /\ row'[w].alert \in RepeatLevels \ {Red}
                  /\ row'[w].alertAt - row[w].alertAt >= RepeatAfter]_vars
  BY <1>1
<1> QED  BY <1>2, MonitorInvariant, PTL DEF Spec, LevelsOnlyRise

-----------------------------------------------------------------------------
\* An alert on its way stays due on the row that was listed, with any number of
\* monitors: each works on a list of its own.
LEMMA PostingStep ==
    ASSUME TypeOK, PostingIsDue, [Next]_vars
    PROVE  PostingIsDue'
<1> USE DEF PostingIsDue, TargetRow
<1>1. CASE mon' = mon
  BY <1>1
<1>2. ASSUME NEW m \in Monitors, MonitorStep(m) PROVE PostingIsDue'
  <2>0. mon[m] \in Cycle
    BY DEF TypeOK
  <2>1. CASE \E w \in Workers : BeginAlert(m, w)
    BY <2>0, <2>1 DEF BeginAlert, TypeOK, Cycle
  <2>2. CASE \E c \in Channels : Post(m, c)
    BY <2>0, <2>2 DEF Post, TypeOK, Cycle
  <2>3. CASE ~(\E w \in Workers : BeginAlert(m, w)) /\ ~(\E c \in Channels : Post(m, c))
    <3>1. \A n \in Monitors : mon'[n].phase = "posting" => mon'[n] = mon[n]
      BY <1>2, <2>0, <2>3 DEF MonitorStep, CycleStep, StartCycle, ListWorkers, SkipWorker,
            RecordAlert, EndCycle, PostFails, MonitorCrashes, NoCycle, TypeOK, Cycle
    <3> QED  BY <3>1
  <2> QED  BY <2>1, <2>2, <2>3
<1>3. ASSUME NEW r \in Reporters, ReporterStep(r) PROVE mon' = mon
  BY <1>3 DEF ReporterStep, Stamp, ReadForEvent, ReadForObservation, WriteEvent,
              WriteObservation, ReporterDies
<1> QED  BY <1>1, <1>2, <1>3 DEF Next, Tick, vars

\* A level is on the row only when every channel the alert owes has accepted it,
\* whatever failed or crashed on the way (send_alert before record_alert); this
\* holds of any number of monitors.
THEOREM DeliveredFirst == Spec => RecordedOnlyWhenDelivered
<1>1. ASSUME TypeOK, PostingIsDue, Next, NEW w \in Workers, LevelWritten(w)
      PROVE  \E m \in Monitors :
                /\ mon[m].target = w
                /\ {"discord", "telegram"} \subseteq mon[m].reached
                /\ row'[w].alert = Red => "escalation" \in mon[m].reached
  <2>1. PICK m \in Monitors : Target(m) = w /\ RecordAlert(m)
    BY <1>1 DEF LevelWritten
  <2>2. /\ w = Target(m)
        /\ row'[w].alert = LevelAt(TargetRow(m), mon[m].now)
    BY <1>1, <2>1 DEF LevelWritten, RecordAlert, TypeOK, Row
  <2>3. ChannelsDue(TargetRow(m), mon[m].now) \subseteq mon[m].reached
    BY <2>1 DEF RecordAlert, StillToPost
  <2>4. TargetRow(m) \in Row /\ mon[m].now \in Times
    BY <1>1 DEF TypeOK, Cycle, TargetRow
  <2>5. AlertDue(TargetRow(m), mon[m].now)
    BY <1>1, <2>1 DEF PostingIsDue, RecordAlert
  <2>6. row'[w].alert = Red => ShouldEscalate(TargetRow(m).alert, Red)
    BY <2>2, <2>4, <2>5, DueLadder DEF ShouldEscalate
  <2> QED  BY <2>2, <2>3, <2>6 DEF ChannelsDue, Target
<1>2. TypeOK /\ PostingIsDue /\ [Next]_vars =>
        [\A w \in Workers :
            LevelWritten(w) =>
               \E m \in Monitors :
                  /\ mon[m].target = w
                  /\ {"discord", "telegram"} \subseteq mon[m].reached
                  /\ row'[w].alert = Red => "escalation" \in mon[m].reached]_vars
  BY <1>1
<1>3. Init => PostingIsDue
  BY DEF Init, PostingIsDue, NoCycle
<1>4. TypeOK /\ PostingIsDue /\ [Next]_vars => PostingIsDue'
  BY PostingStep
<1> QED  BY <1>2, <1>3, <1>4, TypeCorrect, PTL DEF Spec, RecordedOnlyWhenDelivered
=============================================================================
