----------------------------- MODULE CommandProofs ----------------------------
(* Proofs about the commands that start, stop and replace processes: the local*)
(* alarm and the upgrade. Each part begins with its inductive invariant.      *)
EXTENDS Alarm, Updater, TLAPS

-----------------------------------------------------------------------------
(* Alarm: stop-alarm signals its own alarm or a process started after the     *)
(* check, and the state file is removed only when the alarm it is about has   *)
(* ended.                                                                     *)

\* Tokens are given out in order.
TokensOK == rings \subseteq 1..born /\ \A p \in Pids : table[p] <= born

\* A state names an alarm that start() spawned, and a process that has its token
\* has its pid: the kernel gives a pid to a new process and never an old one back.
Recorded(s, processes, alarms) ==
    s # NoState => /\ s.token \in alarms
                   /\ \A p \in Pids : processes[p] = s.token => p = s.pid

\* What is true of a stop() call: it is about a state, and since is when it last
\* looked at the machine. Between the check and the signal the pid can lose its
\* process and then have a new one.
StopCallOK(c, processes, alarms, count) ==
    /\ Recorded(c.state, processes, alarms)
    /\ c.phase # "idle" => c.state # NoState
    /\ c.since <= count
    /\ c.phase \in {"matched", "stubborn"} =>
          \/ processes[c.state.pid] = 0
          \/ processes[c.state.pid] = c.state.token
          \/ processes[c.state.pid] > c.since
    /\ c.phase \in {"removing", "unlinking"} =>
          \A p \in Pids : processes[p] # c.state.token

StartCallOK(c, processes, alarms) ==
    /\ Recorded(c.state, processes, alarms)
    /\ c.phase = "spawned" => c.state # NoState

\* The inductive invariant: every copy of a state, in the file, in a call or in
\* a thread, is recorded.
AlarmInv ==
    /\ AlarmTypeOK /\ TokensOK
    /\ Recorded(saved, table, rings) /\ StartCallOK(start, table, rings)
    /\ \A k \in Stops : StopCallOK(stop[k], table, rings, born)
    /\ \A t \in reapers : Recorded(t.state, table, rings)

-----------------------------------------------------------------------------
\* What any step does to the machine: a process keeps its pid or ends, and a new
\* process has a token that nobody had.
MachineStep ==
    /\ born' \in Nat /\ born' >= born
    /\ rings \subseteq rings' /\ rings' \subseteq 1..born'
    /\ \A p \in Pids : \/ table'[p] \in {table[p], 0}
                       \/ table'[p] = born' /\ born' > born

LEMMA AlarmTypes ==
    ASSUME AlarmTypeOK
    PROVE  /\ born \in 0..MaxProcesses /\ born \in Nat /\ 0 \in 0..MaxProcesses
           /\ \A p \in Pids : table[p] \in Nat
           /\ rings \subseteq Nat
BY AlarmAssumption DEF AlarmTypeOK

LEMMA StateFields ==
    ASSUME NEW s \in State \cup {NoState}, s # NoState
    PROVE  s \in State /\ s.pid \in Pids /\ s.token \in 1..MaxProcesses
           /\ s.token \in Nat /\ s.token # 0
BY AlarmAssumption DEF State, NoState

LEMMA StillMachine ==
    ASSUME AlarmTypeOK, TokensOK, UNCHANGED <<table, rings, born>>
    PROVE  MachineStep
BY AlarmTypes DEF MachineStep, TokensOK

LEMMA EndedMachine ==
    ASSUME AlarmTypeOK, TokensOK, NEW p \in Pids,
           table' \in {table, [table EXCEPT ![p] = 0]}, UNCHANGED <<rings, born>>
    PROVE  MachineStep /\ table' \in [Pids -> 0..MaxProcesses]
<1>1. \A q \in Pids : table'[q] \in {table[q], 0}
  BY DEF AlarmTypeOK
<1>2. table' \in [Pids -> 0..MaxProcesses]
  BY AlarmTypes DEF AlarmTypeOK
<1> QED  BY <1>1, <1>2, AlarmTypes DEF MachineStep, TokensOK

LEMMA SpawnedMachine ==
    ASSUME AlarmTypeOK, TokensOK, NEW p \in Pids, Spawned(p),
           rings' \in {rings, rings \cup {born + 1}}
    PROVE  /\ MachineStep
           /\ table' \in [Pids -> 0..MaxProcesses] /\ born' \in 0..MaxProcesses
           /\ rings' \subseteq 1..MaxProcesses
<1>1. born' = born + 1 /\ born + 1 \in 1..MaxProcesses /\ born \in Nat
  BY AlarmAssumption DEF Spawned, AlarmTypeOK
<1>2. table' = [table EXCEPT ![p] = born + 1]
  BY DEF Spawned
<1>3. \A q \in Pids : table'[q] \in {table[q], 0} \/ (table'[q] = born' /\ born' > born)
  BY <1>1, <1>2 DEF AlarmTypeOK
<1>4. table' \in [Pids -> 0..MaxProcesses]
  BY <1>1, <1>2, AlarmTypes DEF AlarmTypeOK
<1>5. rings' \subseteq 1..(born + 1) /\ rings' \subseteq 1..MaxProcesses
  BY <1>1 DEF TokensOK, AlarmTypeOK
<1>6. rings \subseteq rings'
  OBVIOUS
<1> QED  BY <1>1, <1>3, <1>4, <1>5, <1>6 DEF MachineStep

-----------------------------------------------------------------------------
\* What is recorded stays recorded, and what has ended stays ended.
LEMMA TokensKept ==
    ASSUME AlarmTypeOK, TokensOK, MachineStep
    PROVE  TokensOK'
<1>1. ASSUME NEW p \in Pids PROVE table'[p] <= born'
  <2>1. born \in Nat /\ born' \in Nat /\ born' >= born /\ table[p] <= born /\ table[p] \in Nat
    BY AlarmTypes DEF MachineStep, TokensOK
  <2>2. table'[p] \in {table[p], 0} \/ table'[p] = born'
    BY DEF MachineStep
  <2> QED  BY <2>1, <2>2
<1> QED  BY <1>1 DEF TokensOK, MachineStep

LEMMA RecordedKept ==
    ASSUME AlarmTypeOK, TokensOK, MachineStep, NEW s \in State \cup {NoState},
           Recorded(s, table, rings)
    PROVE  Recorded(s, table', rings')
<1> SUFFICES ASSUME s # NoState
             PROVE  s.token \in rings' /\ \A p \in Pids : table'[p] = s.token => p = s.pid
  BY DEF Recorded
<1>1. s.token \in rings /\ \A p \in Pids : table[p] = s.token => p = s.pid
  BY DEF Recorded
<1>2. s.token # 0 /\ s.token <= born /\ s.token \in Nat /\ born \in Nat
  BY <1>1, StateFields, AlarmTypes DEF TokensOK
<1>3. ASSUME NEW p \in Pids, table'[p] = s.token PROVE p = s.pid
  <2>1. table'[p] = table[p]
    BY <1>2, <1>3 DEF MachineStep
  <2> QED  BY <1>1, <1>3, <2>1
<1> QED  BY <1>1, <1>3 DEF MachineStep

LEMMA EndedKept ==
    ASSUME AlarmTypeOK, TokensOK, MachineStep, NEW s \in State,
           Recorded(s, table, rings), ~Alive(s.token)
    PROVE  \A p \in Pids : table'[p] # s.token
<1>1. s # NoState
  BY DEF State, NoState
<1>2. s.token # 0 /\ s.token <= born /\ s.token \in Nat /\ born \in Nat
  BY <1>1, StateFields, AlarmTypes DEF TokensOK, Recorded
<1>3. ASSUME NEW p \in Pids, table'[p] = s.token PROVE FALSE
  <2>1. table'[p] = table[p]
    BY <1>2, <1>3 DEF MachineStep
  <2> QED  BY <1>2, <1>3, <2>1 DEF Alive
<1> QED  BY <1>3

\* What is recorded and not matched has ended.
LEMMA UnmatchedHasEnded ==
    ASSUME NEW s \in State, Recorded(s, table, rings), ~Matches(s)
    PROVE  ~Alive(s.token)
<1>1. s # NoState
  BY DEF State, NoState
<1> QED  BY <1>1 DEF Recorded, Matches, Alive

-----------------------------------------------------------------------------
(* The calls.                                                                 *)

LEMMA CallFields ==
    ASSUME NEW c \in Call
    PROVE  c.state \in State \cup {NoState} /\ c.since \in 0..MaxProcesses
BY DEF Call

AlarmPhases == {"idle", "loaded", "spawning", "spawned", "matched", "terminating",
           "stubborn", "killing", "removing", "unlinking"}

LEMMA CallUpdates ==
    ASSUME NEW c \in Call, NEW p \in AlarmPhases, NEW s \in State \cup {NoState},
           NEW n \in 0..MaxProcesses
    PROVE  /\ [c EXCEPT !.phase = p] \in Call
           /\ [c EXCEPT !.phase = p, !.state = s] \in Call
           /\ [c EXCEPT !.since = n, !.phase = p] \in Call
           /\ [c EXCEPT !.phase = p, !.since = n] \in Call
           /\ [phase |-> p, state |-> s, since |-> n] \in Call
BY DEF Call, AlarmPhases

LEMMA PhaseUpdate ==
    ASSUME NEW c \in Call, NEW p \in AlarmPhases
    PROVE  [c EXCEPT !.phase = p] \in Call
BY DEF Call, AlarmPhases

LEMMA NoCallType == NoCall \in Call
<1>1. 0 \in 0..MaxProcesses
  BY AlarmAssumption
<1> QED  BY <1>1 DEF NoCall, Call

LEMMA ReadToRemoveType ==
    ASSUME NEW c \in Call, NEW done \in Call
    PROVE  ReadToRemove(c, done) \in Call
BY PhaseUpdate DEF ReadToRemove, AlarmPhases

\* _remove_state hands the call on as it was, or is done.
LEMMA ReadToRemoveState ==
    ASSUME NEW c \in Call, NEW done
    PROVE  \/ ReadToRemove(c, done) = done
           \/ /\ ReadToRemove(c, done).state = c.state
              /\ ReadToRemove(c, done).since = c.since
              /\ ReadToRemove(c, done).phase = "unlinking"
BY DEF ReadToRemove, Call

-----------------------------------------------------------------------------
\* A call that a step leaves alone stays right.
LEMMA StopCallKept ==
    ASSUME AlarmInv, MachineStep, NEW k \in Stops
    PROVE  StopCallOK(stop[k], table', rings', born')
<1> DEFINE c == stop[k]
<1>1. /\ AlarmTypeOK /\ TokensOK /\ StopCallOK(c, table, rings, born)
  BY DEF AlarmInv
<1>2. c \in Call /\ c.state \in State \cup {NoState} /\ c.since \in Nat
  BY <1>1, CallFields, AlarmAssumption DEF AlarmTypeOK
<1>3. born \in Nat /\ born' \in Nat /\ born' >= born
  BY <1>1, AlarmTypes DEF MachineStep
<1> HIDE DEF c
<1>4. Recorded(c.state, table', rings')
  BY <1>1, <1>2, RecordedKept DEF StopCallOK
<1>5. c.since <= born'
  BY <1>1, <1>2, <1>3 DEF StopCallOK
<1>6. ASSUME c.phase \in {"matched", "stubborn"}
      PROVE  \/ table'[c.state.pid] = 0
             \/ table'[c.state.pid] = c.state.token
             \/ table'[c.state.pid] > c.since
  <2>1. c.state # NoState /\ c.since <= born
    BY <1>1, <1>6 DEF StopCallOK
  <2>2. c.state.pid \in Pids
    BY <1>2, <2>1, StateFields
  <2>3. \/ table[c.state.pid] = 0
        \/ table[c.state.pid] = c.state.token
        \/ table[c.state.pid] > c.since
    BY <1>1, <1>6 DEF StopCallOK
  <2>4. \/ table'[c.state.pid] \in {table[c.state.pid], 0}
        \/ table'[c.state.pid] = born' /\ born' > born
    BY <2>2 DEF MachineStep
  <2> QED  BY <1>2, <1>3, <2>1, <2>3, <2>4
<1>7. ASSUME c.phase \in {"removing", "unlinking"}
      PROVE  \A p \in Pids : table'[p] # c.state.token
  <2>1. c.state \in State /\ c.state.token # 0
    BY <1>1, <1>2, <1>7, StateFields DEF StopCallOK
  <2>2. ~Alive(c.state.token)
    BY <1>1, <1>7, <2>1 DEF StopCallOK, Alive
  <2> QED  BY <1>1, <2>1, <2>2, EndedKept DEF StopCallOK
<1>8. StopCallOK(c, table', rings', born')
  BY <1>1, <1>4, <1>5, <1>6, <1>7 DEF StopCallOK
<1> QED  BY <1>8 DEF c

LEMMA StartCallKept ==
    ASSUME AlarmInv, MachineStep
    PROVE  /\ StartCallOK(start, table', rings') /\ Recorded(saved, table', rings')
           /\ \A t \in reapers : Recorded(t.state, table', rings')
<1>1. /\ AlarmTypeOK /\ TokensOK /\ StartCallOK(start, table, rings)
      /\ Recorded(saved, table, rings)
      /\ \A t \in reapers : Recorded(t.state, table, rings)
  BY DEF AlarmInv
<1>2. /\ start.state \in State \cup {NoState} /\ saved \in State \cup {NoState}
      /\ \A t \in reapers : t.state \in State \cup {NoState}
  BY <1>1, CallFields DEF AlarmTypeOK, Thread
<1> QED  BY <1>1, <1>2, RecordedKept DEF StartCallOK

LEMMA NoCallOK ==
    ASSUME NEW processes, NEW alarms, NEW count \in Nat
    PROVE  /\ Recorded(NoState, processes, alarms)
           /\ StartCallOK(NoCall, processes, alarms)
           /\ StopCallOK(NoCall, processes, alarms, count)
BY DEF Recorded, StartCallOK, StopCallOK, NoCall

\* A step that leaves the calls but those given right keeps the invariant.
LEMMA Assemble ==
    ASSUME AlarmInv, MachineStep, AlarmTypeOK',
           saved' \in {saved, NoState} \/ Recorded(saved', table', rings'),
           start' = start \/ StartCallOK(start', table', rings'),
           \A k \in Stops : \/ stop'[k] = stop[k]
                            \/ StopCallOK(stop'[k], table', rings', born'),
           \A t \in reapers' : t \in reapers \/ Recorded(t.state, table', rings')
    PROVE  AlarmInv'
<1>1. TokensOK'
  BY TokensKept DEF AlarmInv
<1>2. \A k \in Stops : StopCallOK(stop'[k], table', rings', born')
  BY StopCallKept
<1>3. Recorded(NoState, table', rings')
  BY DEF Recorded
<1>4. Recorded(saved', table', rings') /\ StartCallOK(start', table', rings')
  BY <1>3, StartCallKept
<1>5. \A t \in reapers' : Recorded(t.state, table', rings')
  BY StartCallKept
<1> QED  BY <1>1, <1>2, <1>4, <1>5 DEF AlarmInv

-----------------------------------------------------------------------------
LEMMA ProcessStep ==
    ASSUME AlarmInv, NEW p \in Pids, ProcessEnds(p) \/ OtherProcessStarts(p)
    PROVE  AlarmInv'
<1> USE DEF AlarmInv
<1>1. CASE ProcessEnds(p)
  <2>1. MachineStep /\ table' \in [Pids -> 0..MaxProcesses]
    BY <1>1, EndedMachine DEF ProcessEnds
  <2>2. UNCHANGED <<rings, born, saved, start, stop, reapers>>
    BY <1>1 DEF ProcessEnds
  <2>3. AlarmTypeOK'
    BY <2>1, <2>2 DEF AlarmTypeOK
  <2> HIDE DEF AlarmInv
  <2> QED  BY <2>1, <2>2, <2>3, Assemble
<1>2. CASE OtherProcessStarts(p)
  <2>1. UNCHANGED <<rings, saved, start, stop, reapers>> /\ Spawned(p)
    BY <1>2 DEF OtherProcessStarts
  <2>2. /\ MachineStep /\ table' \in [Pids -> 0..MaxProcesses]
        /\ born' \in 0..MaxProcesses
    BY <2>1, SpawnedMachine
  <2>3. AlarmTypeOK'
    BY <2>1, <2>2 DEF AlarmTypeOK
  <2> HIDE DEF AlarmInv
  <2> QED  BY <2>1, <2>2, <2>3, Assemble
<1> QED  BY <1>1, <1>2

\* start() changes its own call, and the file and the threads when it writes.
LEMMA StartStep ==
    ASSUME AlarmInv,
           LoadForStart \/ CheckForStart \/ RemoveForStart \/ StarterDies
    PROVE  AlarmInv'
<1>1. /\ AlarmTypeOK /\ TokensOK /\ StartCallOK(start, table, rings)
      /\ Recorded(saved, table, rings)
  BY DEF AlarmInv
<1>2. /\ start \in Call /\ saved \in State \cup {NoState} /\ born \in 0..MaxProcesses
      /\ NoCall \in Call
  BY <1>1, NoCallType DEF AlarmTypeOK
<1>3. UNCHANGED <<table, rings, born, stop>>
  BY DEF LoadForStart, CheckForStart, RemoveForStart, StarterDies
<1>4. MachineStep
  BY <1>1, <1>3, StillMachine
<1>5. saved' \in {saved, NoState} /\ reapers' \subseteq reapers
  BY DEF LoadForStart, CheckForStart, RemoveForStart, StarterDies
<1>6. StartCallOK(NoCall, table, rings)
  BY DEF StartCallOK, NoCall, Recorded
<1>7. start' \in Call /\ StartCallOK(start', table, rings)
  <2>1. CASE LoadForStart
    <3>1. start' = [phase |-> "loaded", state |-> saved, since |-> born]
      BY <2>1 DEF LoadForStart
    <3>2. start' \in Call  BY <1>2, <3>1, CallUpdates DEF AlarmPhases
    <3> QED  BY <1>1, <3>1, <3>2 DEF StartCallOK
  <2>2. ASSUME NEW p \in AlarmPhases \ {"spawned"}, start' = [start EXCEPT !.phase = p]
        PROVE  start' \in Call /\ StartCallOK(start', table, rings)
    <3>1. start' \in Call  BY <1>2, <2>2, PhaseUpdate
    <3>2. start'.state = start.state /\ start'.phase = p  BY <1>2, <2>2 DEF Call
    <3> QED  BY <1>1, <3>1, <3>2 DEF StartCallOK
  <2>3. CASE CheckForStart
    <3>1. start' = NoCall \/ \E p \in {"spawning", "removing"} : start' = [start EXCEPT !.phase = p]
      BY <2>3 DEF CheckForStart
    <3> QED  BY <1>2, <1>6, <2>2, <3>1 DEF AlarmPhases
  <2>4. CASE RemoveForStart
    <3>1. \E p \in {"spawning", "unlinking"} : start' = [start EXCEPT !.phase = p]
      BY <2>4 DEF RemoveForStart, ReadToRemove
    <3> QED  BY <2>2, <3>1 DEF AlarmPhases
  <2>5. CASE StarterDies
    BY <1>2, <1>6, <2>5 DEF StarterDies
  <2> QED  BY <2>1, <2>3, <2>4, <2>5
<1>8. AlarmTypeOK'
  BY <1>1, <1>3, <1>5, <1>7 DEF AlarmTypeOK
<1> QED  BY <1>3, <1>4, <1>5, <1>7, <1>8, Assemble

LEMMA SpawnStep ==
    ASSUME AlarmInv, NEW p \in Pids, SpawnAlarm(p)
    PROVE  AlarmInv'
<1>1. AlarmTypeOK /\ TokensOK
  BY DEF AlarmInv
<1> DEFINE new == [pid |-> p, token |-> born + 1]
<1>2. /\ Spawned(p) /\ rings' = rings \cup {born + 1}
      /\ start' = [start EXCEPT !.phase = "spawned", !.state = new]
      /\ UNCHANGED <<saved, stop, reapers>>
  BY DEF SpawnAlarm
<1>3. /\ MachineStep /\ table' \in [Pids -> 0..MaxProcesses]
      /\ born' \in 0..MaxProcesses /\ rings' \subseteq 1..MaxProcesses
  BY <1>1, <1>2, SpawnedMachine
<1>4. new \in State
  BY <1>1, <1>2, AlarmAssumption DEF State, Spawned, AlarmTypeOK
<1>5. start' \in Call
  BY <1>1, <1>2, <1>4, CallUpdates, AlarmTypes DEF AlarmTypeOK, AlarmPhases
<1>6. start'.state = new /\ start'.phase = "spawned"
  BY <1>1, <1>2 DEF AlarmTypeOK, Call
<1>7. Recorded(new, table', rings')
  <2>1. \A q \in Pids : table'[q] = born + 1 => q = p
    BY <1>1, <1>2, AlarmTypes DEF Spawned, TokensOK, AlarmTypeOK
  <2> QED  BY <1>2, <2>1 DEF Recorded
<1>8. new # NoState
  BY <1>4 DEF State, NoState
<1>9. StartCallOK(start', table', rings')
  BY <1>6, <1>7, <1>8 DEF StartCallOK
<1>10. AlarmTypeOK'
  BY <1>1, <1>2, <1>3, <1>5 DEF AlarmTypeOK
<1> QED  BY <1>2, <1>3, <1>9, <1>10, Assemble

\* The state that is written is that of the alarm just spawned.
LEMMA WriteStep ==
    ASSUME AlarmInv, WriteState \/ (\E t \in reapers : Reap(t))
    PROVE  AlarmInv'
<1>1. /\ AlarmTypeOK /\ TokensOK /\ StartCallOK(start, table, rings)
      /\ Recorded(saved, table, rings)
      /\ \A t \in reapers : Recorded(t.state, table, rings)
  BY DEF AlarmInv
<1>2. UNCHANGED <<table, rings, born, stop>>
  BY DEF WriteState, Reap
<1>3. MachineStep
  BY <1>1, <1>2, StillMachine
<1>4. CASE WriteState
  <2>1. start' = NoCall /\ start.phase = "spawned"
    BY <1>4 DEF WriteState
  <2>2. start.state \in State /\ Recorded(start.state, table, rings)
    BY <1>1, <2>1, CallFields, StateFields DEF StartCallOK, AlarmTypeOK
  <2>3. \/ /\ saved' = start.state
           /\ reapers' = reapers \cup {[phase |-> "waiting", state |-> start.state]}
        \/ saved' = saved /\ reapers' = reapers
    BY <1>4 DEF WriteState
  <2>4. /\ saved' \in State \cup {NoState} /\ reapers' \subseteq Thread
        /\ Recorded(saved', table, rings)
        /\ \A t \in reapers' : Recorded(t.state, table, rings)
    BY <1>1, <2>2, <2>3 DEF AlarmTypeOK, Thread
  <2>5. StartCallOK(NoCall, table, rings) /\ NoCall \in Call
    BY NoCallType DEF StartCallOK, NoCall, Recorded
  <2>6. AlarmTypeOK'
    BY <1>1, <1>2, <2>1, <2>4, <2>5 DEF AlarmTypeOK
  <2> QED  BY <1>2, <1>3, <2>1, <2>4, <2>5, <2>6, Assemble
<1>5. ASSUME NEW t \in reapers, Reap(t)
      PROVE  AlarmInv'
  <2>1. /\ saved' \in {saved, NoState} /\ start' = start
        /\ reapers' \subseteq reapers \cup {[phase |-> "unlinking", state |-> t.state]}
    BY <1>5 DEF Reap
  <2>2. t.state \in State /\ Recorded(t.state, table, rings)
    BY <1>1 DEF AlarmTypeOK, Thread
  <2>3. reapers' \subseteq Thread /\ \A u \in reapers' : Recorded(u.state, table, rings)
    BY <1>1, <2>1, <2>2 DEF AlarmTypeOK, Thread
  <2>4. AlarmTypeOK'
    BY <1>1, <1>2, <2>1, <2>3 DEF AlarmTypeOK
  <2> QED  BY <1>2, <1>3, <2>1, <2>3, <2>4, Assemble
<1> QED  BY <1>4, <1>5

-----------------------------------------------------------------------------
\* One step of stop-alarm changes its own call and, in the end, the file.
LEMMA StopStep ==
    ASSUME AlarmInv, NEW k \in Stops,
           LoadForStop(k) \/ CheckForStop(k) \/ SeeStopped(k) \/ TimeOut(k)
              \/ RemoveForStop(k)
    PROVE  /\ AlarmInv'
           /\ \A n \in Stops : \/ stop'[n].phase = stop[n].phase
                               \/ stop'[n].phase \notin {"terminating", "killing"}
<1> DEFINE c == stop[k]
<1>1. /\ AlarmTypeOK /\ TokensOK /\ StopCallOK(c, table, rings, born)
      /\ Recorded(saved, table, rings)
  BY DEF AlarmInv
<1>2. /\ c \in Call /\ saved \in State \cup {NoState} /\ born \in 0..MaxProcesses
      /\ c.state \in State \cup {NoState} /\ stop \in [Stops -> Call]
  BY <1>1, CallFields DEF AlarmTypeOK
<1>3. UNCHANGED <<table, rings, born, start, reapers>> /\ saved' \in {saved, NoState}
  BY DEF LoadForStop, CheckForStop, SeeStopped, TimeOut, RemoveForStop
<1>4. MachineStep
  BY <1>1, <1>3, StillMachine
<1> DEFINE Good(d) == /\ d \in Call /\ StopCallOK(d, table, rings, born)
                      /\ d.phase \notin {"terminating", "killing"}
<1>5. Good(NoCall)
  BY NoCallType, AlarmTypes, <1>1 DEF StopCallOK, NoCall, Recorded
<1>6. ASSUME c.state # NoState, ~Matches(c.state)
      PROVE  \A p \in Pids : table[p] # c.state.token
  <2>1. c.state \in State  BY <1>2, <1>6, StateFields
  <2>2. ~Alive(c.state.token)  BY <1>1, <1>6, <2>1, UnmatchedHasEnded DEF StopCallOK
  <2>3. c.state.token # 0  BY <1>2, <1>6, StateFields
  <2> QED  BY <2>2, <2>3 DEF Alive
<1>7. \E d : stop' = [stop EXCEPT ![k] = d] /\ Good(d)
  <2>1. CASE LoadForStop(k)
    <3> DEFINE d == [phase |-> "loaded", state |-> saved, since |-> born]
    <3>1. stop' = [stop EXCEPT ![k] = d] /\ saved # NoState
      BY <2>1 DEF LoadForStop
    <3>2. d \in Call  BY <1>2, CallUpdates DEF AlarmPhases
    <3>3. StopCallOK(d, table, rings, born)
      BY <1>1, <1>2, <3>1 DEF StopCallOK
    <3>4. Good(d)  BY <3>2, <3>3
    <3> HIDE DEF d, Good
    <3> QED  BY <3>1, <3>4
  <2>2. CASE CheckForStop(k)
    <3> DEFINE p == IF Matches(c.state) THEN "matched" ELSE "removing"
               d == [c EXCEPT !.since = born, !.phase = p]
    <3>1. stop' = [stop EXCEPT ![k] = d] /\ c.phase = "loaded"
      BY <1>2, <2>2 DEF CheckForStop
    <3>2. d \in Call  BY <1>2, CallUpdates DEF AlarmPhases
    <3>3. d.state = c.state /\ d.since = born /\ d.phase = p
      BY <1>2 DEF Call
    <3>4. c.state # NoState  BY <1>1, <3>1 DEF StopCallOK
    <3>5. StopCallOK(d, table, rings, born)
      <4>1. CASE Matches(c.state)
        <5>1. p = "matched" /\ table[c.state.pid] = c.state.token
          BY <4>1 DEF Matches
        <5> HIDE DEF d, p, c
        <5> QED  BY <1>1, <1>2, <3>3, <3>4, <5>1 DEF StopCallOK
      <4>2. CASE ~Matches(c.state)
        <5>1. p = "removing" /\ \A q \in Pids : table[q] # c.state.token
          BY <1>6, <3>4, <4>2
        <5> HIDE DEF d, p, c
        <5> QED  BY <1>1, <1>2, <3>3, <3>4, <5>1 DEF StopCallOK
      <4> QED  BY <4>1, <4>2
    <3>6. Good(d)
      <4> HIDE DEF d
      <4> QED  BY <3>2, <3>3, <3>5
    <3> HIDE DEF d, Good
    <3> QED  BY <3>1, <3>6
  <2>3. ASSUME c.phase # "idle", \A q \in Pids : table[q] # c.state.token,
               NEW p \in {"removing", "unlinking"}
        PROVE  Good([c EXCEPT !.phase = p])
    <3> DEFINE d == [c EXCEPT !.phase = p]
    <3>1. d \in Call  BY <1>2, PhaseUpdate DEF AlarmPhases
    <3>2. d.state = c.state /\ d.since = c.since /\ d.phase = p
      BY <1>2 DEF Call
    <3> HIDE DEF d, c
    <3>3. StopCallOK(d, table, rings, born)
      BY <1>1, <2>3, <3>2 DEF StopCallOK
    <3>4. Good(d)  BY <3>1, <3>2, <3>3
    <3> QED  BY <3>4 DEF d
  <2>4. CASE SeeStopped(k)
    <3>1. /\ stop' = [stop EXCEPT ![k] = [c EXCEPT !.phase = "removing"]]
          /\ c.phase # "idle" /\ ~Matches(c.state)
      BY <1>2, <2>4 DEF SeeStopped
    <3>2. \A q \in Pids : table[q] # c.state.token
      BY <1>1, <1>6, <3>1 DEF StopCallOK
    <3> QED  BY <2>3, <3>1, <3>2
  <2>5. CASE TimeOut(k)
    <3>1. CASE stop' = [stop EXCEPT ![k] = NoCall]
      BY <1>5, <3>1
    <3>2. CASE stop' = [stop EXCEPT ![k].phase = "stubborn", ![k].since = born]
      <4> DEFINE d == [c EXCEPT !.phase = "stubborn", !.since = born]
      <4>1. stop' = [stop EXCEPT ![k] = d]  BY <1>2, <3>2
      <4>2. d \in Call  BY <1>2, CallUpdates DEF AlarmPhases
      <4>3. d.state = c.state /\ d.since = born /\ d.phase = "stubborn"
        BY <1>2 DEF Call
      <4>4. c.state # NoState /\ table[c.state.pid] = c.state.token
        BY <1>1, <2>5 DEF TimeOut, Matches
      <4> HIDE DEF d, c
      <4>5. StopCallOK(d, table, rings, born)
        BY <1>1, <1>2, <4>3, <4>4 DEF StopCallOK
      <4> QED  BY <4>1, <4>2, <4>3, <4>5
    <3> QED  BY <2>5, <3>1, <3>2 DEF TimeOut
  <2>6. CASE RemoveForStop(k)
    <3>1. \/ stop' = [stop EXCEPT ![k] = NoCall]
          \/ /\ stop' = [stop EXCEPT ![k] = [c EXCEPT !.phase = "unlinking"]]
             /\ c.phase = "removing"
      BY <1>2, <2>6 DEF RemoveForStop, ReadToRemove
    <3>2. c.phase = "removing" => \A q \in Pids : table[q] # c.state.token
      BY <1>1 DEF StopCallOK
    <3> QED  BY <1>5, <2>3, <3>1, <3>2
  <2> QED  BY <2>1, <2>2, <2>4, <2>5, <2>6
<1> PICK d : stop' = [stop EXCEPT ![k] = d] /\ Good(d)
  BY <1>7
<1>8. stop' \in [Stops -> Call] /\ stop'[k] = d
      /\ \A n \in Stops \ {k} : stop'[n] = stop[n]
  BY <1>2
<1>9. AlarmTypeOK'
  BY <1>1, <1>3, <1>8 DEF AlarmTypeOK
<1>10. \A n \in Stops : stop'[n] = stop[n] \/ StopCallOK(stop'[n], table', rings', born')
  BY <1>3, <1>8
<1>11. AlarmInv'
  BY <1>3, <1>4, <1>9, <1>10, Assemble
<1>12. \A n \in Stops : \/ stop'[n].phase = stop[n].phase
                        \/ stop'[n].phase \notin {"terminating", "killing"}
  BY <1>8
<1> QED  BY <1>11, <1>12

\* The signal, after the check: the process that has the pid is the alarm, or
\* there is none, or it was started since.
LEMMA SignalStep ==
    ASSUME AlarmInv, NEW k \in Stops, Signal(k)
    PROVE  /\ AlarmInv'
           /\ LET target == table[stop[k].state.pid] IN
              target \in rings \cup {0} \/ target > stop[k].since
           /\ \A n \in Stops \ {k} : stop'[n] = stop[n]
<1> DEFINE c == stop[k]
<1>1. /\ AlarmTypeOK /\ TokensOK /\ StopCallOK(c, table, rings, born)
  BY DEF AlarmInv
<1>2. /\ c \in Call /\ stop \in [Stops -> Call] /\ c.state \in State \cup {NoState}
  BY <1>1, CallFields DEF AlarmTypeOK
<1>3. /\ c.phase \in {"matched", "stubborn"}
      /\ UNCHANGED <<rings, born, saved, start, reapers>>
      /\ table' \in {table, [table EXCEPT ![c.state.pid] = 0]}
  BY DEF Signal
<1>4. c.state # NoState /\ c.state.pid \in Pids
  BY <1>1, <1>2, <1>3, StateFields DEF StopCallOK
<1>5. MachineStep /\ table' \in [Pids -> 0..MaxProcesses]
  BY <1>1, <1>3, <1>4, EndedMachine
<1>6. PICK p \in {"terminating", "killing"} : stop' = [stop EXCEPT ![k].phase = p]
  BY DEF Signal
<1> DEFINE d == [c EXCEPT !.phase = p]
<1>7. d \in Call /\ stop' = [stop EXCEPT ![k] = d]
  BY <1>2, <1>6, PhaseUpdate DEF AlarmPhases
<1>8. d.state = c.state /\ d.since = c.since /\ d.phase = p
  BY <1>2 DEF Call
<1>9. StopCallOK(c, table', rings', born')
  BY <1>5, StopCallKept
<1>10. StopCallOK(d, table', rings', born')
  <2> HIDE DEF c, d
  <2> QED  BY <1>4, <1>8, <1>9 DEF StopCallOK
<1>11. stop'[k] = d /\ stop' \in [Stops -> Call]
       /\ \A n \in Stops \ {k} : stop'[n] = stop[n]
  BY <1>2, <1>7
<1>12. AlarmTypeOK'
  BY <1>1, <1>3, <1>5, <1>11 DEF AlarmTypeOK
<1>13. \A n \in Stops : stop'[n] = stop[n] \/ StopCallOK(stop'[n], table', rings', born')
  BY <1>10, <1>11
<1>14. AlarmInv'
  BY <1>3, <1>5, <1>12, <1>13, Assemble
<1>15. table[c.state.pid] \in rings \cup {0} \/ table[c.state.pid] > c.since
  BY <1>1, <1>3, <1>4 DEF StopCallOK, Recorded
<1> QED  BY <1>11, <1>14, <1>15

-----------------------------------------------------------------------------
LEMMA AlarmInitInv == AlarmInit => AlarmInv
<1> SUFFICES ASSUME AlarmInit PROVE AlarmInv
  OBVIOUS
<1>1. 0 \in 0..MaxProcesses
  BY AlarmAssumption
<1>2. AlarmTypeOK
  BY <1>1, NoCallType DEF AlarmInit, AlarmTypeOK
<1>3. TokensOK
  BY DEF AlarmInit, TokensOK
<1>4. NoCall.state = NoState /\ NoCall.phase = "idle" /\ NoCall.since = 0
  BY DEF NoCall
<1>5. \A k \in Stops : stop[k] = NoCall
  BY DEF AlarmInit
<1>6. start = NoCall /\ saved = NoState /\ reapers = {} /\ born = 0
  BY DEF AlarmInit
<1>7. StopCallOK(NoCall, table, rings, 0) /\ StartCallOK(NoCall, table, rings)
  BY <1>4 DEF StopCallOK, StartCallOK, Recorded
<1>8. Recorded(NoState, table, rings)
  BY DEF Recorded
<1> QED  BY <1>2, <1>3, <1>5, <1>6, <1>7, <1>8 DEF AlarmInv

\* What a step of stop-alarm may signal.
Spares(k) ==
    LET target == table[stop[k].state.pid] IN
    stop'[k].phase # stop[k].phase /\ stop'[k].phase \in {"terminating", "killing"}
       => target \in rings \cup {0} \/ target > stop[k].since

LEMMA AlarmStep ==
    ASSUME AlarmInv, [AlarmNext]_alarmVars
    PROVE  AlarmInv' /\ \A k \in Stops : Spares(k)
<1>1. CASE UNCHANGED alarmVars
  <2>1. UNCHANGED <<table, rings, born, saved, start, stop, reapers>>
    BY <1>1 DEF alarmVars
  <2>2. AlarmTypeOK'  BY <2>1 DEF AlarmInv, AlarmTypeOK
  <2>3. MachineStep  BY <2>1, StillMachine DEF AlarmInv
  <2> QED  BY <2>1, <2>2, <2>3, Assemble DEF Spares
<1>2. ASSUME NEW p \in Pids, ProcessEnds(p) \/ OtherProcessStarts(p) \/ SpawnAlarm(p)
      PROVE  AlarmInv' /\ stop' = stop
  <2>1. stop' = stop
    BY <1>2 DEF ProcessEnds, OtherProcessStarts, SpawnAlarm
  <2> QED  BY <1>2, <2>1, ProcessStep, SpawnStep
<1>3. CASE LoadForStart \/ CheckForStart \/ RemoveForStart \/ WriteState \/ StarterDies
           \/ \E t \in reapers : Reap(t)
  <2>1. stop' = stop
    BY <1>3 DEF LoadForStart, CheckForStart, RemoveForStart, WriteState, StarterDies, Reap
  <2>2. AlarmInv'
    BY <1>3, StartStep, WriteStep
  <2> QED  BY <2>1, <2>2 DEF Spares
<1>4. ASSUME NEW k \in Stops,
             LoadForStop(k) \/ CheckForStop(k) \/ SeeStopped(k) \/ TimeOut(k)
                \/ RemoveForStop(k)
      PROVE  AlarmInv' /\ \A n \in Stops : Spares(n)
  BY <1>4, StopStep DEF Spares
<1>5. ASSUME NEW k \in Stops, Signal(k)
      PROVE  AlarmInv' /\ \A n \in Stops : Spares(n)
  BY <1>5, SignalStep DEF Spares
<1>6. ASSUME NEW p \in Pids, ProcessEnds(p) \/ OtherProcessStarts(p) \/ SpawnAlarm(p)
      PROVE  AlarmInv' /\ \A n \in Stops : Spares(n)
  BY <1>2, <1>6 DEF Spares
<1> QED  BY <1>1, <1>3, <1>4, <1>5, <1>6 DEF AlarmNext

LEMMA AlarmInvariant == AlarmSpec => []AlarmInv
<1>1. AlarmInv /\ [AlarmNext]_alarmVars => AlarmInv'
  BY AlarmStep
<1> QED  BY <1>1, AlarmInitInv, PTL DEF AlarmSpec

-----------------------------------------------------------------------------
\* Every reachable state of the alarm is well typed.
THEOREM AlarmTypeCorrect == AlarmSpec => []AlarmTypeOK
<1>1. AlarmInv => AlarmTypeOK
  BY DEF AlarmInv
<1> QED  BY <1>1, AlarmInvariant, PTL

\* When stop-alarm removes the state, the alarm it was about has ended, however
\* pids are reused and however many commands, starts and threads interleave.
THEOREM RemovedAlarmHasEnded == AlarmSpec => []StoppedHasEnded
<1>1. AlarmInv => StoppedHasEnded
  <2> SUFFICES ASSUME AlarmInv, NEW k \in Stops,
                      stop[k].phase \in {"removing", "unlinking"}
               PROVE  ~Alive(stop[k].state.token)
    BY DEF StoppedHasEnded
  <2>1. \A p \in Pids : table[p] # stop[k].state.token
    BY DEF AlarmInv, StopCallOK
  <2> QED  BY <2>1 DEF Alive
<1> QED  BY <1>1, AlarmInvariant, PTL

\* stop-alarm signals an alarm, nobody, or a process started after its check.
THEOREM StopAlarmSparesOthers == AlarmSpec => SparesOtherProcesses
<1>1. AlarmInv /\ [AlarmNext]_alarmVars =>
        [ \A k \in Stops : Spares(k) ]_alarmVars
  BY AlarmStep
<1> QED  BY <1>1, AlarmInvariant, PTL DEF AlarmSpec, SparesOtherProcesses, Spares

-----------------------------------------------------------------------------
(* Updater: the package is replaced under stopped units, an abort gives the   *)
(* units back, and a recorded success is what the machine shows. The invariant*)
(* says, for each phase of a command, which package is installed, which units *)
(* run and on which package.                                                  *)

\* The units that run have one of these packages loaded.
RunOn(versions) == \A u \in Running : code[u] \in versions

\* An upgrade that is recorded as completed is what runs, until a rollback
\* changes the package; that is why the copy it keeps has the new schema.
CompletedInv ==
    /\ kept = "new"
    /\ manifest = "completed" =>
          /\ installed = "new" /\ schema = "new" /\ RunOn({"new"})
          /\ Running \subseteq active
          /\ phase \in {"idle", "stopping", "restoring"}
          /\ phase # "idle" => operation = "rollback"

\* While a command runs, only units that it manages do, and none has loaded a
\* broken package; a unit loads one only when that is what is left installed.
UnitsInv ==
    /\ phase # "idle" => /\ Running \subseteq active /\ todo \subseteq active
                         /\ moved \subseteq active /\ RunOn({"old", "new"})
    /\ \A u \in Services : code[u] = "broken" => installed = "broken"

\* Until the package is replaced. When a stop failed, a unit whose stop had
\* succeeded runs again or is still to be started.
StopInv ==
    /\ phase \in {"stopping", "restoring"} =>
          /\ installed = Source
          /\ operation = "rollback" => schema = "new" /\ RunOn({"new"})
    /\ phase = "stopping" => Running \subseteq todo
    /\ phase = "restoring" => moved \subseteq Running \cup todo
    /\ phase = "installing" => installed = Source

\* The new package is prepared under stopped units, and then they are started.
ForwardInv ==
    /\ phase \in {"installing", "migrating", "verifying"} => Running = {} /\ moved = {}
    /\ phase \in {"migrating", "verifying", "starting"} => installed = Target
    /\ phase = "verifying" /\ operation = "rollback" => schema = "old"
    /\ phase = "starting" =>
          /\ schema = Target /\ Running \subseteq moved
          /\ active \subseteq moved \cup todo
          /\ \A u \in moved : code[u] = Target

\* Taken back: the one unit that is not known to be started may go on running
\* the package that is given up.
BackwardInv ==
    /\ phase = "unstarting" =>
          /\ \E x : Running \subseteq todo \cup {x}
          /\ Running # {} => installed = Target /\ schema = Target /\ RunOn({Target})
    /\ phase \in {"reverting", "reverifying"} => \E x : Running \subseteq {x}
    /\ phase \in {"reverting", "reverifying", "restarting"} => installed = Source
    /\ phase \in {"reverting", "reverifying"} /\ operation = "upgrade" => RunOn({"new"})
    /\ phase \in {"reverifying", "restarting"} =>
          IF operation = "upgrade"
          THEN schema = "old" \/ \E u \in Running : code[u] = "new"
          ELSE schema = "new"
    /\ phase = "restarting" => active \subseteq Running \cup todo

\* The inductive invariant.
UpgradeInv == /\ UpgradeTypeOK /\ CompletedInv /\ UnitsInv /\ StopInv
              /\ ForwardInv /\ BackwardInv

-----------------------------------------------------------------------------
(* What runs after one unit was stopped, started or restarted.                *)

LEMMA RunningUnits ==
    ASSUME UpgradeTypeOK
    PROVE  /\ Running \subseteq Services
           /\ \A u \in Services : u \in Running <=> code[u] # "down"
BY DEF Running, UpgradeTypeOK

LEMMA Stopped ==
    ASSUME UpgradeTypeOK, NEW u \in Services, Stop(u)
    PROVE  /\ code' \in [Services -> Versions \cup {"down"}]
           /\ Running' = Running \ {u}
           /\ \A v \in Services \ {u} : code'[v] = code[v]
           /\ code'[u] = "down"
<1>1. code' \in [Services -> Versions \cup {"down"}]
  BY DEF UpgradeTypeOK, Stop
<1>2. code'[u] = "down" /\ \A v \in Services \ {u} : code'[v] = code[v]
  BY DEF UpgradeTypeOK, Stop
<1>3. Running' = Running \ {u}
  BY <1>2 DEF Running
<1> QED  BY <1>1, <1>2, <1>3

LEMMA Started ==
    ASSUME UpgradeTypeOK, NEW u \in Services, Start(u)
    PROVE  /\ code' \in [Services -> Versions \cup {"down"}]
           /\ Running' = Running \cup {u}
           /\ \A v \in Services \ {u} : code'[v] = code[v]
           /\ code'[u] = IF u \in Running THEN code[u] ELSE installed
<1>1. code' \in [Services -> Versions \cup {"down"}]
  BY DEF UpgradeTypeOK, Start
<1>2. \A v \in Services \ {u} : code'[v] = code[v]
  BY DEF UpgradeTypeOK, Start
<1>3. code'[u] = IF code[u] = "down" THEN installed ELSE code[u]
  BY DEF UpgradeTypeOK, Start
<1>4. installed # "down"
  BY DEF UpgradeTypeOK, Versions
<1>5. Running' = Running \cup {u}
  BY <1>2, <1>3, <1>4 DEF Running
<1>6. u \in Running <=> code[u] # "down"
  BY RunningUnits
<1> QED  BY <1>1, <1>2, <1>3, <1>5, <1>6

LEMMA Restarted ==
    ASSUME UpgradeTypeOK, NEW u \in Services, u \in Running,
           code' = [code EXCEPT ![u] = installed]
    PROVE  /\ code' \in [Services -> Versions \cup {"down"}]
           /\ Running' = Running
           /\ \A v \in Services \ {u} : code'[v] = code[v]
           /\ code'[u] = installed
<1>1. code' \in [Services -> Versions \cup {"down"}]
  BY DEF UpgradeTypeOK
<1>2. code'[u] = installed /\ \A v \in Services \ {u} : code'[v] = code[v]
  BY DEF UpgradeTypeOK
<1>3. installed # "down" /\ code[u] # "down"
  BY RunningUnits DEF UpgradeTypeOK, Versions
<1>4. Running' = Running
  BY <1>2, <1>3 DEF Running
<1> QED  BY <1>1, <1>2, <1>4

LEMMA SameUnits == code' = code => Running' = Running
BY DEF Running

-----------------------------------------------------------------------------
(* The processes around the command.                                          *)

LEMMA OpensStore ==
    ASSUME UpgradeInv, NEW u \in Services, ServiceOpensStore(u)
    PROVE  UpgradeInv'
<1>1. /\ UpgradeTypeOK /\ CompletedInv /\ UnitsInv /\ StopInv /\ ForwardInv
      /\ BackwardInv
  BY DEF UpgradeInv
<1>2. /\ code[u] # "down" /\ u \in Running /\ Running \subseteq Services
      /\ UNCHANGED <<installed, manifest, active, kept, operation, phase, todo, moved,
                     faults, commands>>
  BY <1>1, RunningUnits DEF ServiceOpensStore, transaction
<1>3. CASE schema' = code[u] /\ code' = code
           /\ (code[u] = "new" \/ (code[u] = "old" /\ schema = "old"))
  <2>1. Running' = Running /\ schema' \in {schema, "new"}
        /\ (schema' # schema => code[u] = "new")
    BY <1>1, <1>3, SameUnits DEF UpgradeTypeOK
  <2>2. UpgradeTypeOK'
    BY <1>1, <1>2, <1>3, <2>1 DEF UpgradeTypeOK
  <2>3. CompletedInv'
    BY <1>1, <1>2, <1>3, <2>1 DEF CompletedInv, RunOn
  <2>4. UnitsInv'
    BY <1>1, <1>2, <1>3, <2>1 DEF UnitsInv, RunOn
  <2>5. StopInv'
    BY <1>1, <1>2, <1>3, <2>1 DEF StopInv, RunOn, Source
  <2>6. ForwardInv'
    BY <1>1, <1>2, <1>3, <2>1 DEF ForwardInv, Target
  <2>7. BackwardInv'
    BY <1>1, <1>2, <1>3, <2>1 DEF BackwardInv, RunOn, Target, Source
  <2> QED  BY <2>2, <2>3, <2>4, <2>5, <2>6, <2>7 DEF UpgradeInv
<1>4. CASE schema' = schema /\ code' = [code EXCEPT ![u] = installed]
           /\ ~(code[u] = "new" \/ (code[u] = "old" /\ schema = "old"))
  <2>1. /\ code' \in [Services -> Versions \cup {"down"}]
        /\ Running' = Running
        /\ \A v \in Services \ {u} : code'[v] = code[v]
        /\ code'[u] = installed
    BY <1>1, <1>2, <1>4, Restarted
  <2>2. UpgradeTypeOK'
    BY <1>1, <1>2, <1>4, <2>1 DEF UpgradeTypeOK
  <2>3. CompletedInv'
    BY <1>1, <1>2, <1>4, <2>1 DEF CompletedInv, RunOn
  <2>4. UnitsInv'
    <3>1. phase # "idle" => installed \in {"old", "new"}
      BY <1>1, <1>2 DEF UpgradeTypeOK, Phases, Forward, Backward, StopInv, ForwardInv,
                        BackwardInv, Source, Target
    <3> QED  BY <1>1, <1>2, <1>4, <2>1, <3>1 DEF UnitsInv, RunOn
  <2>5. StopInv'
    BY <1>1, <1>2, <1>4, <2>1 DEF StopInv, RunOn, Source
  <2>6. ForwardInv'
    BY <1>1, <1>2, <1>4, <2>1 DEF ForwardInv, Target
  <2>7. BackwardInv'
    BY <1>1, <1>2, <1>4, <2>1 DEF BackwardInv, RunOn, Target, Source
  <2> QED  BY <2>2, <2>3, <2>4, <2>5, <2>6, <2>7 DEF UpgradeInv
<1> QED  BY <1>3, <1>4 DEF ServiceOpensStore

LEMMA HookOpens ==
    ASSUME UpgradeInv, HookOpensStore \/ CommandKilled \/ UNCHANGED upgradeVars
    PROVE  UpgradeInv'
<1>1. /\ UpgradeTypeOK /\ CompletedInv /\ UnitsInv /\ StopInv /\ ForwardInv
      /\ BackwardInv
  BY DEF UpgradeInv
<1>2. CASE HookOpensStore \/ UNCHANGED upgradeVars
  <2>1. /\ UNCHANGED <<installed, code, manifest, active, kept, operation, phase, todo,
                       moved, faults, commands>>
        /\ schema' = schema \/ (schema' = "new" /\ installed = "new")
    BY <1>2 DEF HookOpensStore, transaction, upgradeVars
  <2>2. Running' = Running
    BY <2>1, SameUnits
  <2>3. UpgradeTypeOK'
    BY <1>1, <2>1 DEF UpgradeTypeOK
  <2>4. CompletedInv' /\ UnitsInv'
    BY <1>1, <2>1, <2>2 DEF CompletedInv, UnitsInv, RunOn
  <2>5. StopInv'
    BY <1>1, <2>1, <2>2 DEF StopInv, RunOn, Source
  <2>6. ForwardInv'
    BY <1>1, <2>1, <2>2 DEF ForwardInv, Target
  <2>7. BackwardInv'
    BY <1>1, <2>1, <2>2 DEF BackwardInv, RunOn, Target, Source
  <2> QED  BY <2>3, <2>4, <2>5, <2>6, <2>7 DEF UpgradeInv
<1>3. CASE CommandKilled
  <2>1. /\ UNCHANGED <<installed, code, schema, manifest, active, kept, operation, todo,
                       moved, commands>>
        /\ phase' = "idle" /\ faults' = faults + 1 /\ faults < MaxFaults
    BY <1>3 DEF CommandKilled, transaction
  <2>2. Running' = Running
    BY <2>1, SameUnits
  <2>3. UpgradeTypeOK'
    BY <1>1, <2>1, UpdaterAssumption DEF UpgradeTypeOK, Phases
  <2>4. CompletedInv' /\ UnitsInv'
    BY <1>1, <2>1, <2>2 DEF CompletedInv, UnitsInv, RunOn
  <2>5. StopInv' /\ ForwardInv' /\ BackwardInv'
    BY <2>1 DEF StopInv, ForwardInv, BackwardInv
  <2> QED  BY <2>3, <2>4, <2>5 DEF UpgradeInv
<1> QED  BY <1>2, <1>3

-----------------------------------------------------------------------------
(* The steps of a command. A step that gives the command up leaves only what  *)
(* is true between commands.                                                  *)

LEMMA FaultType ==
    ASSUME UpgradeTypeOK, NoFault \/ Fault
    PROVE  faults' \in 0..MaxFaults
BY UpdaterAssumption DEF UpgradeTypeOK, NoFault, Fault

\* Between commands nothing is said about phases.
LEMMA IdleInv ==
    ASSUME phase' = "idle"
    PROVE  StopInv' /\ ForwardInv' /\ BackwardInv'
BY DEF StopInv, ForwardInv, BackwardInv

LEMMA StartUpgradeStep ==
    ASSUME UpgradeInv, StartUpgrade
    PROVE  UpgradeInv'
<1>1. /\ UpgradeTypeOK /\ CompletedInv /\ UnitsInv
  BY DEF UpgradeInv
<1>2. /\ installed = "old" /\ schema = "old" /\ manifest' = "prepared"
      /\ active' = Running /\ operation' = "upgrade" /\ phase' = "stopping"
      /\ todo' = Running /\ moved' = {} /\ commands < MaxCommands
      /\ commands' = commands + 1
      /\ UNCHANGED <<installed, code, schema, kept, faults>>
  BY DEF StartUpgrade, GoTo
<1>3. Running' = Running /\ Running \subseteq Services
  BY <1>1, <1>2, SameUnits, RunningUnits
<1>4. UpgradeTypeOK'
  BY <1>1, <1>2, <1>3, UpdaterAssumption DEF UpgradeTypeOK, Phases, Statuses
<1>5. CompletedInv'
  BY <1>1, <1>2 DEF CompletedInv
<1>6. UnitsInv'
  <2>1. \A u \in Running : code[u] \in {"old", "new"}
    BY <1>1, <1>2, <1>3, RunningUnits DEF UnitsInv, UpgradeTypeOK, Versions
  <2> QED  BY <1>1, <1>2, <1>3, <2>1 DEF UnitsInv, RunOn
<1>7. StopInv'
  BY <1>2, <1>3 DEF StopInv, Source
<1>8. ForwardInv' /\ BackwardInv'
  BY <1>2 DEF ForwardInv, BackwardInv
<1> QED  BY <1>4, <1>5, <1>6, <1>7, <1>8 DEF UpgradeInv

LEMMA StartRollbackStep ==
    ASSUME UpgradeInv, StartRollback
    PROVE  UpgradeInv'
<1>1. /\ UpgradeTypeOK /\ CompletedInv /\ UnitsInv
  BY DEF UpgradeInv
<1>2. /\ manifest = "completed" /\ installed = "new" /\ kept' = schema
      /\ operation' = "rollback" /\ phase' = "stopping" /\ todo' = active
      /\ moved' = {} /\ commands < MaxCommands /\ commands' = commands + 1
      /\ UNCHANGED <<installed, code, schema, manifest, active, faults>>
  BY DEF StartRollback, GoTo
<1>3. Running' = Running /\ Running \subseteq Services
  BY <1>1, <1>2, SameUnits, RunningUnits
<1>4. UpgradeTypeOK'
  BY <1>1, <1>2, <1>3, UpdaterAssumption DEF UpgradeTypeOK, Phases, Statuses
<1>5. CompletedInv'
  BY <1>1, <1>2, <1>3 DEF CompletedInv, RunOn
<1>6. UnitsInv'
  BY <1>1, <1>2, <1>3 DEF UnitsInv, CompletedInv, RunOn
<1>7. StopInv'
  BY <1>1, <1>2, <1>3 DEF StopInv, Source, CompletedInv, RunOn
<1>8. ForwardInv' /\ BackwardInv'
  BY <1>2 DEF ForwardInv, BackwardInv
<1> QED  BY <1>4, <1>5, <1>6, <1>7, <1>8 DEF UpgradeInv

LEMMA StopUnitStep ==
    ASSUME UpgradeInv, NEW u \in Services, StopUnit(u)
    PROVE  UpgradeInv'
<1>1. /\ UpgradeTypeOK /\ CompletedInv /\ UnitsInv /\ StopInv
  BY DEF UpgradeInv
<1>2. /\ phase = "stopping" /\ u \in todo /\ Running \subseteq Services
      /\ UNCHANGED <<installed, schema, manifest, active, kept, operation, commands>>
      /\ faults' \in 0..MaxFaults
  BY <1>1, FaultType, RunningUnits DEF StopUnit, transaction
<1>3. /\ code' \in [Services -> Versions \cup {"down"}]
      /\ Running' \in {Running, Running \ {u}}
      /\ \A v \in Services : code'[v] \in {code[v], "down"}
      /\ \A v \in Running' : code'[v] = code[v]
  <2>1. CASE Stop(u)  BY <1>1, <2>1, Stopped, <1>2
  <2>2. CASE code' = code  BY <1>1, <2>2, SameUnits DEF UpgradeTypeOK
  <2> QED  BY <2>1, <2>2 DEF StopUnit
<1>4. \/ /\ Running' = Running \ {u} /\ phase' = "stopping"
         /\ todo' = todo \ {u} /\ moved' = moved \cup {u}
      \/ phase' = "restoring" /\ todo' = moved /\ moved' = moved
  <2>1. Stop(u) => Running' = Running \ {u}
    BY <1>1, Stopped
  <2> QED  BY <2>1 DEF StopUnit, GoTo
<1>5. UpgradeTypeOK'
  BY <1>1, <1>2, <1>3, <1>4 DEF UpgradeTypeOK, Phases
<1>6. CompletedInv'
  BY <1>1, <1>2, <1>3, <1>4 DEF CompletedInv, RunOn
<1>7. UnitsInv'
  BY <1>1, <1>2, <1>3, <1>4 DEF UnitsInv, RunOn
<1>8. StopInv'
  BY <1>1, <1>2, <1>3, <1>4 DEF StopInv, RunOn, Source
<1>9. ForwardInv' /\ BackwardInv'
  BY <1>4 DEF ForwardInv, BackwardInv
<1> QED  BY <1>5, <1>6, <1>7, <1>8, <1>9 DEF UpgradeInv

LEMMA AllStoppedStep ==
    ASSUME UpgradeInv, AllStopped
    PROVE  UpgradeInv'
<1>1. /\ UpgradeTypeOK /\ CompletedInv /\ UnitsInv /\ StopInv
  BY DEF UpgradeInv
<1>2. /\ phase = "stopping" /\ todo = {} /\ moved' = {} /\ todo' = {}
      /\ UNCHANGED <<installed, code, schema, active, kept, operation, commands>>
      /\ faults' \in 0..MaxFaults
      /\ \/ /\ phase' = "installing"
            /\ manifest' = IF operation = "upgrade" THEN manifest ELSE "rollback_prepared"
         \/ operation = "rollback" /\ phase' = "idle" /\ manifest' = manifest
  BY <1>1, FaultType DEF AllStopped, GoTo
<1>3. Running' = Running /\ Running = {}
  BY <1>1, <1>2, SameUnits DEF StopInv
<1>4. UpgradeTypeOK'
  BY <1>1, <1>2 DEF UpgradeTypeOK, Phases, Forward, Statuses
<1>5. CompletedInv'
  BY <1>1, <1>2, <1>3 DEF CompletedInv, RunOn, UpgradeTypeOK
<1>6. UnitsInv'
  BY <1>1, <1>2, <1>3 DEF UnitsInv, RunOn
<1>7. StopInv'
  BY <1>1, <1>2, <1>3 DEF StopInv, RunOn, Source
<1>8. ForwardInv' /\ BackwardInv'
  BY <1>2, <1>3 DEF ForwardInv, BackwardInv
<1> QED  BY <1>4, <1>5, <1>6, <1>7, <1>8 DEF UpgradeInv

LEMMA RestoreUnitStep ==
    ASSUME UpgradeInv, NEW u \in Services, RestoreUnit(u)
    PROVE  UpgradeInv'
<1>1. /\ UpgradeTypeOK /\ CompletedInv /\ UnitsInv /\ StopInv
  BY DEF UpgradeInv
<1>2. /\ phase = "restoring" /\ u \in todo /\ Running \subseteq Services
      /\ UNCHANGED <<installed, schema, active, kept, operation, moved, commands>>
      /\ faults' \in 0..MaxFaults
  BY <1>1, FaultType, RunningUnits DEF RestoreUnit
<1>3. installed = Source /\ installed \in {"old", "new"} /\ u \in active
  BY <1>1, <1>2 DEF StopInv, Source, UnitsInv
<1>4. /\ code' \in [Services -> Versions \cup {"down"}]
      /\ Running' \in {Running, Running \cup {u}}
      /\ \A v \in Services : code'[v] \in {code[v], installed}
  <2>1. CASE Start(u)  BY <1>1, <2>1, Started
  <2>2. CASE code' = code  BY <1>1, <2>2, SameUnits DEF UpgradeTypeOK
  <2> QED  BY <2>1, <2>2 DEF RestoreUnit
<1>5. \A v \in Running' : code'[v] = installed \/ (v \in Running /\ code'[v] = code[v])
  <2>1. CASE Start(u)  BY <1>1, <1>2, <2>1, Started
  <2>2. CASE code' = code  BY <1>1, <2>2, SameUnits
  <2> QED  BY <2>1, <2>2 DEF RestoreUnit
<1>6. \/ /\ Running' = Running \cup {u} /\ phase' = "restoring"
         /\ todo' = todo \ {u} /\ manifest' = manifest
      \/ phase' = "idle" /\ todo' = {} /\ manifest' \in {RestoreFailed, manifest}
  <2>1. Start(u) => Running' = Running \cup {u}
    BY <1>1, Started
  <2> QED  BY <2>1 DEF RestoreUnit, GoTo, GiveUp
<1>7. UpgradeTypeOK'
  BY <1>1, <1>2, <1>4, <1>6 DEF UpgradeTypeOK, Phases, RestoreFailed, Statuses
<1>8. CompletedInv'
  BY <1>1, <1>2, <1>3, <1>5, <1>6, <1>4 DEF CompletedInv, RunOn, RestoreFailed
<1>9. UnitsInv'
  BY <1>1, <1>2, <1>3, <1>4, <1>5, <1>6 DEF UnitsInv, RunOn
<1>10. StopInv'
  BY <1>1, <1>2, <1>3, <1>4, <1>5, <1>6 DEF StopInv, RunOn, Source
<1>11. ForwardInv' /\ BackwardInv'
  BY <1>6 DEF ForwardInv, BackwardInv
<1> QED  BY <1>7, <1>8, <1>9, <1>10, <1>11 DEF UpgradeInv

LEMMA AbortStep ==
    ASSUME UpgradeInv, Abort
    PROVE  UpgradeInv'
<1>1. /\ UpgradeTypeOK /\ CompletedInv /\ UnitsInv
  BY DEF UpgradeInv
<1>2. /\ UNCHANGED <<installed, code, schema, active, kept, operation, moved, commands>>
      /\ phase' = "idle" /\ todo' = {} /\ faults' \in 0..MaxFaults
      /\ manifest' \in {manifest, "aborted_before_install", RestoreFailed}
  BY <1>1, FaultType DEF Abort, GoTo, GiveUp
<1>3. Running' = Running
  BY <1>2, SameUnits
<1>4. UpgradeTypeOK'
  BY <1>1, <1>2 DEF UpgradeTypeOK, Phases, RestoreFailed, Statuses
<1>5. CompletedInv' /\ UnitsInv'
  BY <1>1, <1>2, <1>3 DEF CompletedInv, UnitsInv, RunOn, RestoreFailed
<1> QED  BY <1>2, <1>4, <1>5, IdleInv DEF UpgradeInv

\* A step that gives up, which the invariant lets happen anywhere.
LEMMA UndoFailedStep ==
    ASSUME UpgradeInv, UndoFailed, UpgradeTypeOK',
           UNCHANGED <<active, kept, operation>>,
           manifest # "completed", \A u \in Services : code'[u] = "broken" => installed' = "broken"
    PROVE  UpgradeInv'
<1>1. /\ CompletedInv /\ UnitsInv
  BY DEF UpgradeInv
<1>2. phase' = "idle" /\ manifest' # "completed"
  BY DEF UndoFailed, GiveUp, GoTo
<1>3. CompletedInv' /\ UnitsInv'
  BY <1>1, <1>2 DEF CompletedInv, UnitsInv
<1> QED  BY <1>2, <1>3, IdleInv DEF UpgradeInv

LEMMA UndoFailedType ==
    ASSUME UndoFailed, UpgradeTypeOK
    PROVE  phase' \in Phases /\ todo' = {} /\ manifest' \in Statuses
BY DEF UndoFailed, GiveUp, GoTo, UpgradeTypeOK, Phases, Statuses

\* After the first change nothing is recorded as completed, and no unit of those
\* that run has loaded a broken package.
LEMMA ChangingPhases ==
    ASSUME UpgradeInv, phase \in Forward \cup Backward
    PROVE  /\ manifest # "completed"
           /\ \A u \in Services : code[u] # "broken"
           /\ Running \subseteq active /\ Running \subseteq Services
           /\ kept = "new" /\ Target # Source
           /\ Target \in {"old", "new"} /\ Source \in {"old", "new"}
<1>1. /\ UpgradeTypeOK /\ CompletedInv /\ UnitsInv
  BY DEF UpgradeInv
<1>2. manifest # "completed" /\ phase # "idle" /\ Running \subseteq active /\ kept = "new"
  BY <1>1 DEF CompletedInv, UnitsInv, Forward, Backward
<1>3. \A u \in Services : code[u] # "broken"
  BY <1>1, <1>2, RunningUnits DEF UnitsInv, RunOn
<1> QED  BY <1>1, <1>2, <1>3, RunningUnits DEF Target, Source

LEMMA InstallStep ==
    ASSUME UpgradeInv, InstallPackage
    PROVE  UpgradeInv'
<1>1. /\ UpgradeTypeOK /\ CompletedInv /\ UnitsInv /\ ForwardInv
  BY DEF UpgradeInv
<1>2. /\ UNCHANGED <<code, schema, active, kept, operation, moved, commands>>
      /\ phase = "installing" /\ manifest' = manifest /\ faults' \in 0..MaxFaults
      /\ \/ phase' = "migrating" /\ todo' = {} /\ installed' = Target
         \/ /\ phase' = "unstarting" /\ todo' = moved
            /\ installed' \in {installed, Target, "broken"}
  BY <1>1, FaultType DEF InstallPackage, Install, Undo, GoTo
<1>3. Running' = Running /\ Running = {} /\ moved = {}
  BY <1>1, <1>2, SameUnits DEF ForwardInv
<1>4. /\ manifest # "completed" /\ \A u \in Services : code[u] # "broken"
      /\ Target \in {"old", "new"}
  BY <1>2, ChangingPhases DEF Forward
<1>5. UpgradeTypeOK'
  BY <1>1, <1>2, <1>3, <1>4 DEF UpgradeTypeOK, Phases, Forward, Backward, Versions
<1>6. CompletedInv' /\ UnitsInv'
  BY <1>1, <1>2, <1>3, <1>4 DEF CompletedInv, UnitsInv, RunOn
<1>7. StopInv' /\ ForwardInv' /\ BackwardInv'
  BY <1>2, <1>3 DEF StopInv, ForwardInv, BackwardInv, Target, Source
<1> QED  BY <1>5, <1>6, <1>7 DEF UpgradeInv

LEMMA MigrateStep ==
    ASSUME UpgradeInv, MigrateDatabase \/ VerifyPackage
    PROVE  UpgradeInv'
<1>1. /\ UpgradeTypeOK /\ CompletedInv /\ UnitsInv /\ ForwardInv
  BY DEF UpgradeInv
<1>2. /\ UNCHANGED <<installed, code, active, kept, operation, moved, commands>>
      /\ phase \in {"migrating", "verifying"} /\ manifest' = manifest
      /\ faults' \in 0..MaxFaults
      /\ \/ phase' = "verifying" /\ todo' = {} /\ schema' = Target
         \/ phase' = "unstarting" /\ todo' = moved /\ schema' \in {schema, Target}
         \/ /\ phase = "verifying" /\ phase' = "starting" /\ todo' = active
            /\ schema' = schema /\ (operation = "upgrade" => schema = "new")
  BY <1>1, FaultType DEF MigrateDatabase, VerifyPackage, Undo, GoTo, transaction
<1>3. Running' = Running /\ Running = {} /\ moved = {}
  BY <1>1, <1>2, SameUnits DEF ForwardInv
<1>4. /\ manifest # "completed" /\ Target \in {"old", "new"}
  BY <1>2, ChangingPhases DEF Forward
<1>5. UpgradeTypeOK'
  BY <1>1, <1>2, <1>3, <1>4 DEF UpgradeTypeOK, Phases, Forward, Backward
<1>6. CompletedInv' /\ UnitsInv'
  BY <1>1, <1>2, <1>3, <1>4 DEF CompletedInv, UnitsInv, RunOn
<1>7. StopInv' /\ BackwardInv'
  BY <1>2, <1>3 DEF StopInv, BackwardInv
<1>8. ForwardInv'
  <2>1. operation \in {"upgrade", "rollback"}
    BY <1>1 DEF UpgradeTypeOK
  <2>2. installed = Target /\ (phase' = "starting" => schema = Target)
    BY <1>1, <1>2, <2>1 DEF ForwardInv, Target
  <2> QED  BY <1>2, <1>3, <2>1, <2>2 DEF ForwardInv, Target
<1> QED  BY <1>5, <1>6, <1>7, <1>8 DEF UpgradeInv

LEMMA StartUnitStep ==
    ASSUME UpgradeInv, NEW u \in Services, StartUnit(u)
    PROVE  UpgradeInv'
<1>1. /\ UpgradeTypeOK /\ CompletedInv /\ UnitsInv /\ ForwardInv
  BY DEF UpgradeInv
<1>2. /\ phase = "starting" /\ u \in todo /\ u \in active
      /\ UNCHANGED <<installed, schema, manifest, active, kept, operation, commands>>
      /\ faults' \in 0..MaxFaults
  BY <1>1, FaultType DEF StartUnit, transaction, UnitsInv
<1>3. /\ manifest # "completed" /\ Target \in {"old", "new"} /\ Running \subseteq Services
      /\ Running \subseteq active
  BY <1>2, ChangingPhases DEF Forward
<1>4. installed = Target /\ schema = Target /\ Running \subseteq moved
      /\ active \subseteq moved \cup todo /\ \A v \in moved : code[v] = Target
      /\ moved \subseteq Services
  BY <1>1, <1>2 DEF ForwardInv, UpgradeTypeOK
<1>5. /\ code' \in [Services -> Versions \cup {"down"}]
      /\ Running' \in {Running, Running \cup {u}}
      /\ \A v \in moved : code'[v] = Target
      /\ \A v \in Running' : code'[v] = Target
      /\ \A v \in Services : code'[v] \in {code[v], Target}
  <2>1. CASE Start(u)
    <3>1. /\ code' \in [Services -> Versions \cup {"down"}]
          /\ Running' = Running \cup {u}
          /\ \A v \in Services \ {u} : code'[v] = code[v]
          /\ code'[u] = IF u \in Running THEN code[u] ELSE installed
      BY <1>1, <2>1, Started
    <3>2. code'[u] = Target  BY <1>4, <3>1
    <3> QED  BY <1>3, <1>4, <3>1, <3>2
  <2>2. CASE code' = code  BY <1>1, <1>3, <1>4, <2>2, SameUnits DEF UpgradeTypeOK
  <2> QED  BY <2>1, <2>2 DEF StartUnit
<1>6. \/ /\ Running' = Running \cup {u} /\ phase' = "starting"
         /\ todo' = todo \ {u} /\ moved' = moved \cup {u} /\ code'[u] = Target
      \/ phase' = "unstarting" /\ todo' = moved /\ moved' = moved
  <2>1. Start(u) => Running' = Running \cup {u} /\ u \in Running'
    BY <1>1, Started
  <2> QED  BY <1>5, <2>1 DEF StartUnit, GoTo
<1>7. UpgradeTypeOK'
  BY <1>1, <1>2, <1>5, <1>6 DEF UpgradeTypeOK, Phases, Forward, Backward
<1>8. CompletedInv'
  BY <1>1, <1>2, <1>3 DEF CompletedInv
<1>9. UnitsInv'
  BY <1>1, <1>2, <1>3, <1>5, <1>6 DEF UnitsInv, RunOn
<1>10. StopInv'
  BY <1>6 DEF StopInv
<1>11. ForwardInv'
  BY <1>2, <1>4, <1>5, <1>6 DEF ForwardInv, Target
<1>12. BackwardInv'
  <2>1. phase' = "unstarting" => \E x : Running' \subseteq todo' \cup {x}
    BY <1>4, <1>5, <1>6
  <2> QED  BY <1>2, <1>4, <1>5, <1>6, <2>1 DEF BackwardInv, RunOn, Target
<1> QED  BY <1>7, <1>8, <1>9, <1>10, <1>11, <1>12 DEF UpgradeInv

\* The package at rest is what Complete records.
LEMMA CompleteStep ==
    ASSUME UpgradeInv, Complete
    PROVE  UpgradeInv' /\ AtRest(Target)
<1>1. /\ UpgradeTypeOK /\ CompletedInv /\ UnitsInv /\ ForwardInv
  BY DEF UpgradeInv
<1>2. /\ phase = "starting" /\ todo = {}
      /\ UNCHANGED <<installed, code, schema, active, kept, operation, moved, commands>>
      /\ faults' \in 0..MaxFaults
      /\ \/ /\ phase' = "idle" /\ todo' = {}
            /\ manifest' = IF operation = "upgrade" THEN "completed"
                           ELSE "manually_rolled_back"
         \/ phase' = "unstarting" /\ todo' = moved /\ manifest' = manifest
  BY <1>1, FaultType DEF Complete, Undo, GoTo
<1>3. /\ manifest # "completed" /\ Running \subseteq Services /\ Running \subseteq active
      /\ \A u \in Services : code[u] # "broken"
  BY <1>2, ChangingPhases DEF Forward
<1>4. installed = Target /\ schema = Target /\ Running \subseteq moved
      /\ active \subseteq moved /\ \A v \in moved : code[v] = Target
      /\ moved \subseteq active
  BY <1>1, <1>2 DEF ForwardInv, UnitsInv
<1>5. Running' = Running
  BY <1>2, SameUnits
<1>6. UpgradeTypeOK'
  BY <1>1, <1>2 DEF UpgradeTypeOK, Phases, Backward, Statuses
<1>7. CompletedInv'
  BY <1>1, <1>2, <1>3, <1>4, <1>5 DEF CompletedInv, RunOn, Target
<1>8. UnitsInv'
  BY <1>1, <1>2, <1>3, <1>5 DEF UnitsInv, RunOn
<1>9. StopInv' /\ ForwardInv'
  BY <1>2 DEF StopInv, ForwardInv
<1>10. BackwardInv'
  <2>1. Running' \subseteq todo' \cup {"none"} \/ phase' = "idle"
    BY <1>2, <1>4, <1>5
  <2>2. \A u \in Running : code[u] = Target
    BY <1>4
  <2> QED  BY <1>2, <1>4, <1>5, <2>1, <2>2 DEF BackwardInv, RunOn, Target
<1>11. AtRest(Target)
  BY <1>4 DEF AtRest
<1> QED  BY <1>6, <1>7, <1>8, <1>9, <1>10, <1>11 DEF UpgradeInv

LEMMA StopStartedStep ==
    ASSUME UpgradeInv, NEW u \in Services, StopStarted(u)
    PROVE  UpgradeInv'
<1>1. /\ UpgradeTypeOK /\ CompletedInv /\ UnitsInv /\ BackwardInv
  BY DEF UpgradeInv
<1>2. /\ phase = "unstarting" /\ u \in todo /\ Running \subseteq Services
      /\ UNCHANGED <<installed, schema, active, kept, operation, moved, commands>>
      /\ faults' \in 0..MaxFaults
  BY <1>1, FaultType, RunningUnits DEF StopStarted
<1>3. /\ manifest # "completed" /\ \A v \in Services : code[v] # "broken"
      /\ Running \subseteq active
  BY <1>2, ChangingPhases DEF Backward
<1>4. /\ code' \in [Services -> Versions \cup {"down"}]
      /\ \A v \in Services : code'[v] \in {code[v], "down"}
      /\ Running' \subseteq Running
      /\ \A v \in Running' : code'[v] = code[v]
  <2>1. CASE Stop(u)  BY <1>1, <1>2, <2>1, Stopped
  <2>2. CASE code' = code  BY <1>1, <2>2, SameUnits DEF UpgradeTypeOK
  <2> QED  BY <2>1, <2>2 DEF StopStarted
<1>5. CASE UndoFailed
  <2>1. UpgradeTypeOK'
    BY <1>1, <1>2, <1>4, <1>5, UndoFailedType DEF UpgradeTypeOK
  <2> QED  BY <1>2, <1>3, <1>4, <1>5, <2>1, UndoFailedStep
<1>6. CASE Stop(u) /\ GoTo("unstarting", todo \ {u}) /\ manifest' = manifest
  <2>1. /\ Running' = Running \ {u} /\ phase' = "unstarting" /\ todo' = todo \ {u}
        /\ manifest' = manifest
    BY <1>1, <1>6, Stopped DEF GoTo
  <2>2. UpgradeTypeOK'
    BY <1>1, <1>2, <1>4, <2>1 DEF UpgradeTypeOK
  <2>3. CompletedInv' /\ UnitsInv'
    BY <1>1, <1>2, <1>3, <1>4, <2>1 DEF CompletedInv, UnitsInv, RunOn
  <2>4. StopInv' /\ ForwardInv'
    BY <2>1 DEF StopInv, ForwardInv
  <2>5. BackwardInv'
    BY <1>1, <1>2, <1>4, <2>1 DEF BackwardInv, RunOn, Target
  <2> QED  BY <2>2, <2>3, <2>4, <2>5 DEF UpgradeInv
<1> QED  BY <1>5, <1>6 DEF StopStarted

\* One unit at most runs when the package is put back.
LEMMA ReinstallStep ==
    ASSUME UpgradeInv, Reinstall
    PROVE  UpgradeInv' /\ Running' = Running /\ \E x : Running \subseteq {x}
<1>1. /\ UpgradeTypeOK /\ CompletedInv /\ UnitsInv /\ BackwardInv
  BY DEF UpgradeInv
<1>2. /\ phase = "unstarting" /\ todo = {}
      /\ UNCHANGED <<code, schema, active, kept, operation, moved, commands>>
      /\ faults' \in 0..MaxFaults
  BY <1>1, FaultType DEF Reinstall, Install
<1>3. /\ manifest # "completed" /\ \A v \in Services : code[v] # "broken"
      /\ Running \subseteq active /\ Source \in {"old", "new"} /\ Target # Source
      /\ operation \in {"upgrade", "rollback"}
  BY <1>1, <1>2, ChangingPhases DEF Backward, UpgradeTypeOK
<1>4. Running' = Running /\ \E x : Running \subseteq {x}
  BY <1>1, <1>2, SameUnits DEF BackwardInv
<1>5. CASE UndoFailed /\ installed' \in {installed, Source, "broken"}
  <2>1. UpgradeTypeOK'
    BY <1>1, <1>2, <1>3, <1>5, UndoFailedType DEF UpgradeTypeOK, Versions
  <2>2. UpgradeInv'
    BY <1>2, <1>3, <1>5, <2>1, UndoFailedStep
  <2> QED  BY <2>2, <1>4
<1>6. CASE installed' = Source /\ GoTo("reverting", {}) /\ manifest' = manifest
  <2>1. installed' = Source /\ phase' = "reverting" /\ todo' = {} /\ manifest' = manifest
    BY <1>6 DEF GoTo
  <2>2. UpgradeTypeOK'
    BY <1>1, <1>2, <1>3, <2>1 DEF UpgradeTypeOK, Phases, Backward, Versions
  <2>3. CompletedInv' /\ UnitsInv'
    BY <1>1, <1>2, <1>3, <1>4, <2>1 DEF CompletedInv, UnitsInv, RunOn
  <2>4. StopInv' /\ ForwardInv'
    BY <2>1 DEF StopInv, ForwardInv
  <2>5. operation = "upgrade" => RunOn({"new"})
    BY <1>1, <1>2 DEF BackwardInv, Target, RunOn
  <2>6. BackwardInv'
    BY <1>2, <1>4, <2>1, <2>5 DEF BackwardInv, RunOn, Source
  <2> QED  BY <1>4, <2>2, <2>3, <2>4, <2>6 DEF UpgradeInv
<1> QED  BY <1>5, <1>6 DEF Reinstall, Install

LEMMA RestoreDatabaseStep ==
    ASSUME UpgradeInv, RestoreDatabase
    PROVE  UpgradeInv'
<1>1. /\ UpgradeTypeOK /\ CompletedInv /\ UnitsInv /\ BackwardInv
  BY DEF UpgradeInv
<1>2. /\ phase = "reverting"
      /\ UNCHANGED <<installed, code, active, kept, operation, moved, commands>>
      /\ faults' \in 0..MaxFaults
  BY <1>1, FaultType DEF RestoreDatabase
<1>3. /\ manifest # "completed" /\ \A v \in Services : code[v] # "broken"
      /\ Running \subseteq active /\ kept = "new"
      /\ operation \in {"upgrade", "rollback"}
  BY <1>1, <1>2, ChangingPhases DEF Backward, UpgradeTypeOK
<1>4. Running' = Running /\ Snapshot \in {"old", "new"}
  BY <1>2, <1>3, SameUnits DEF Snapshot
<1>5. CASE UndoFailed /\ schema' \in {schema, Snapshot}
  <2>1. UpgradeTypeOK'
    BY <1>1, <1>2, <1>4, <1>5, UndoFailedType DEF UpgradeTypeOK
  <2> QED  BY <1>2, <1>3, <1>5, <2>1, UndoFailedStep DEF UnitsInv
<1>6. CASE schema' = Snapshot /\ GoTo("reverifying", {}) /\ manifest' = manifest
  <2>1. schema' = Snapshot /\ phase' = "reverifying" /\ todo' = {} /\ manifest' = manifest
    BY <1>6 DEF GoTo
  <2>2. UpgradeTypeOK'
    BY <1>1, <1>2, <1>4, <2>1 DEF UpgradeTypeOK, Phases, Backward
  <2>3. CompletedInv' /\ UnitsInv'
    BY <1>1, <1>2, <1>3, <1>4, <2>1 DEF CompletedInv, UnitsInv, RunOn
  <2>4. StopInv' /\ ForwardInv'
    BY <2>1 DEF StopInv, ForwardInv
  <2>5. BackwardInv'
    BY <1>1, <1>2, <1>3, <1>4, <2>1 DEF BackwardInv, RunOn, Source, Snapshot
  <2> QED  BY <2>2, <2>3, <2>4, <2>5 DEF UpgradeInv
<1> QED  BY <1>5, <1>6 DEF RestoreDatabase

LEMMA ReverifyPackageStep ==
    ASSUME UpgradeInv, ReverifyPackage
    PROVE  UpgradeInv'
<1>1. /\ UpgradeTypeOK /\ CompletedInv /\ UnitsInv /\ BackwardInv
  BY DEF UpgradeInv
<1>2. /\ phase = "reverifying"
      /\ UNCHANGED <<installed, code, schema, active, kept, operation, moved, commands>>
      /\ faults' \in 0..MaxFaults
  BY <1>1, FaultType DEF ReverifyPackage
<1>3. /\ manifest # "completed" /\ \A v \in Services : code[v] # "broken"
      /\ Running \subseteq active
  BY <1>1, <1>2, ChangingPhases DEF Backward, UpgradeTypeOK
<1>4. Running' = Running
  BY <1>2, SameUnits
<1>5. CASE UndoFailed
  <2>1. UpgradeTypeOK'
    BY <1>1, <1>2, <1>5, UndoFailedType DEF UpgradeTypeOK
  <2> QED  BY <1>2, <1>3, <1>5, <2>1, UndoFailedStep DEF UnitsInv
<1>6. CASE GoTo("restarting", active) /\ manifest' = manifest
  <2>1. phase' = "restarting" /\ todo' = active /\ manifest' = manifest
    BY <1>6 DEF GoTo
  <2>2. UpgradeTypeOK'
    BY <1>1, <1>2, <2>1 DEF UpgradeTypeOK, Phases, Backward
  <2>3. CompletedInv' /\ UnitsInv'
    BY <1>1, <1>2, <1>3, <1>4, <2>1 DEF CompletedInv, UnitsInv, RunOn
  <2>4. StopInv' /\ ForwardInv'
    BY <2>1 DEF StopInv, ForwardInv
  <2>5. BackwardInv'
    BY <1>1, <1>2, <1>4, <2>1 DEF BackwardInv, Source
  <2> QED  BY <2>2, <2>3, <2>4, <2>5 DEF UpgradeInv
<1> QED  BY <1>5, <1>6 DEF ReverifyPackage

LEMMA RestartUnitStep ==
    ASSUME UpgradeInv, NEW u \in Services, RestartUnit(u)
    PROVE  UpgradeInv'
<1>1. /\ UpgradeTypeOK /\ CompletedInv /\ UnitsInv /\ BackwardInv
  BY DEF UpgradeInv
<1>2. /\ phase = "restarting" /\ u \in todo /\ u \in active
      /\ UNCHANGED <<installed, schema, active, kept, operation, moved, commands>>
      /\ faults' \in 0..MaxFaults
  BY <1>1, FaultType DEF RestartUnit, UnitsInv
<1>3. /\ manifest # "completed" /\ \A v \in Services : code[v] # "broken"
      /\ Running \subseteq active /\ Running \subseteq Services
      /\ installed \in {"old", "new"}
  BY <1>1, <1>2, ChangingPhases DEF Backward, UpgradeTypeOK, BackwardInv
<1>4. /\ code' \in [Services -> Versions \cup {"down"}]
      /\ Running \subseteq Running' /\ Running' \subseteq Running \cup {u}
      /\ \A v \in Running : code'[v] = code[v]
      /\ \A v \in Services : code'[v] \in {code[v], installed}
      /\ \A v \in Running' : v \in Running \/ code'[v] = installed
  <2>1. CASE Start(u)  BY <1>1, <1>3, <2>1, Started
  <2>2. CASE code' = code  BY <1>1, <2>2, SameUnits DEF UpgradeTypeOK
  <2> QED  BY <2>1, <2>2 DEF RestartUnit
<1>5. CASE UndoFailed
  <2>1. UpgradeTypeOK'
    BY <1>1, <1>2, <1>4, <1>5, UndoFailedType DEF UpgradeTypeOK
  <2> QED  BY <1>2, <1>3, <1>4, <1>5, <2>1, UndoFailedStep
<1>6. CASE Start(u) /\ GoTo("restarting", todo \ {u}) /\ manifest' = manifest
  <2>1. /\ Running' = Running \cup {u} /\ phase' = "restarting" /\ todo' = todo \ {u}
        /\ manifest' = manifest
    BY <1>1, <1>6, Started DEF GoTo
  <2>2. UpgradeTypeOK'
    BY <1>1, <1>2, <1>4, <2>1 DEF UpgradeTypeOK
  <2>3. \A v \in Running' : code'[v] \in {"old", "new"}
    BY <1>1, <1>2, <1>3, <1>4 DEF UnitsInv, RunOn
  <2>4. CompletedInv' /\ UnitsInv'
    BY <1>1, <1>2, <1>3, <1>4, <2>1, <2>3 DEF CompletedInv, UnitsInv, RunOn
  <2>5. StopInv' /\ ForwardInv'
    BY <2>1 DEF StopInv, ForwardInv
  <2>6. BackwardInv'
    BY <1>1, <1>2, <1>4, <2>1 DEF BackwardInv, Source
  <2> QED  BY <2>2, <2>4, <2>5, <2>6 DEF UpgradeInv
<1> QED  BY <1>5, <1>6 DEF RestartUnit

\* What an undone command may record: its package is back, every unit runs, and
\* after an upgrade that was taken back the schema is the old one unless the new
\* package still runs in a unit that was not known to be started.
GivenBack ==
    /\ installed = Source /\ active \subseteq Running
    /\ IF operation = "upgrade"
       THEN schema = "old" \/ \E u \in active : code[u] = "new"
       ELSE schema = "new"

LEMMA CloseStep ==
    ASSUME UpgradeInv, Close
    PROVE  UpgradeInv' /\ GivenBack
<1>1. /\ UpgradeTypeOK /\ CompletedInv /\ UnitsInv /\ BackwardInv
  BY DEF UpgradeInv
<1>2. /\ phase = "restarting" /\ todo = {} /\ phase' = "idle" /\ todo' = {}
      /\ UNCHANGED <<installed, code, schema, active, kept, operation, moved, commands>>
      /\ faults' \in 0..MaxFaults
      /\ manifest' \in {manifest, "rolled_back_after_failure",
                        "rollback_reverted_after_failure", "rollback_failed",
                        "rollback_recovery_failed"}
  BY <1>1, FaultType DEF Close, UndoFailed, GiveUp, GoTo
<1>3. /\ manifest # "completed" /\ Running \subseteq active
      /\ operation \in {"upgrade", "rollback"}
  BY <1>1, <1>2, ChangingPhases DEF Backward, UpgradeTypeOK
<1>4. Running' = Running
  BY <1>2, SameUnits
<1>5. UpgradeTypeOK'
  BY <1>1, <1>2 DEF UpgradeTypeOK, Phases, Statuses
<1>6. CompletedInv' /\ UnitsInv'
  BY <1>1, <1>2, <1>3, <1>4 DEF CompletedInv, UnitsInv, RunOn
<1>7. UpgradeInv'
  BY <1>2, <1>5, <1>6, IdleInv DEF UpgradeInv
<1>8. GivenBack
  BY <1>1, <1>2, <1>3 DEF BackwardInv, GivenBack
<1> QED  BY <1>7, <1>8

-----------------------------------------------------------------------------
(* The invariant and the theorems.                                            *)

LEMMA UpgradeInitInv == UpgradeInit => UpgradeInv
<1> SUFFICES ASSUME UpgradeInit PROVE UpgradeInv
  OBVIOUS
<1>1. UpgradeTypeOK
  BY UpdaterAssumption DEF UpgradeInit, UpgradeTypeOK, Versions, Statuses, Phases
<1>2. CompletedInv /\ UnitsInv
  BY DEF UpgradeInit, CompletedInv, UnitsInv
<1>3. StopInv /\ ForwardInv /\ BackwardInv
  BY DEF UpgradeInit, StopInv, ForwardInv, BackwardInv
<1> QED  BY <1>1, <1>2, <1>3 DEF UpgradeInv

LEMMA UpgradeStep == UpgradeInv /\ [UpgradeNext]_upgradeVars => UpgradeInv'
<1> SUFFICES ASSUME UpgradeInv, [UpgradeNext]_upgradeVars PROVE UpgradeInv'
  OBVIOUS
<1>1. CASE StartUpgrade       BY <1>1, StartUpgradeStep
<1>2. CASE StartRollback      BY <1>2, StartRollbackStep
<1>3. CASE AllStopped         BY <1>3, AllStoppedStep
<1>4. CASE Abort              BY <1>4, AbortStep
<1>5. CASE InstallPackage     BY <1>5, InstallStep
<1>6. CASE MigrateDatabase \/ VerifyPackage  BY <1>6, MigrateStep
<1>7. CASE Complete           BY <1>7, CompleteStep
<1>8. CASE Reinstall          BY <1>8, ReinstallStep
<1>9. CASE RestoreDatabase    BY <1>9, RestoreDatabaseStep
<1>10. CASE ReverifyPackage   BY <1>10, ReverifyPackageStep
<1>11. CASE Close             BY <1>11, CloseStep
<1>12. ASSUME NEW u \in Services, StopUnit(u) \/ RestoreUnit(u) \/ StartUnit(u)
                                  \/ StopStarted(u) \/ RestartUnit(u)
       PROVE  UpgradeInv'
  BY <1>12, StopUnitStep, RestoreUnitStep, StartUnitStep, StopStartedStep, RestartUnitStep
<1>13. ASSUME NEW u \in Services, ServiceOpensStore(u) PROVE UpgradeInv'
  BY <1>13, OpensStore
<1>14. CASE HookOpensStore \/ CommandKilled \/ UNCHANGED upgradeVars
  BY <1>14, HookOpens
<1>15. CASE Command
  BY <1>15, <1>1, <1>2, <1>3, <1>4, <1>5, <1>6, <1>7, <1>8, <1>9, <1>10, <1>11, <1>12
     DEF Command
<1> QED  BY <1>13, <1>14, <1>15 DEF UpgradeNext

LEMMA UpgradeInvariant == UpgradeSpec => []UpgradeInv
BY UpgradeInitInv, UpgradeStep, PTL DEF UpgradeSpec

\* Every variable of the upgrade stays in its type.
THEOREM UpgradeTypeCorrect == UpgradeSpec => []UpgradeTypeOK
<1>1. UpgradeInv => UpgradeTypeOK  BY DEF UpgradeInv
<1> QED  BY <1>1, UpgradeInvariant, PTL

\* A package takes the other's place only under stopped units.
THEOREM PackageIsReplacedAlone == UpgradeSpec => ReplacedUnderStoppedUnits
<1> DEFINE Alone == phase = "installing" /\ installed' # installed =>
                      active \cap Running = {}
<1>1. ASSUME UpgradeInv, [UpgradeNext]_upgradeVars
      PROVE  [Alone]_upgradeVars
  <2>1. CASE InstallPackage
    <3>1. Running = {}
      BY <1>1, <2>1 DEF InstallPackage, Install, UpgradeInv, ForwardInv
    <3> QED  BY <3>1
  <2>2. CASE Reinstall
    BY <2>2 DEF Reinstall, Install
  <2>3. CASE UNCHANGED installed
    BY <2>3
  <2>4. CASE StartUpgrade \/ StartRollback \/ AllStopped \/ Abort \/ Complete \/ Close
    BY <2>3, <2>4 DEF StartUpgrade, StartRollback, AllStopped, Abort, Complete, Close
  <2>5. CASE MigrateDatabase \/ VerifyPackage \/ RestoreDatabase \/ ReverifyPackage
    BY <2>3, <2>5 DEF MigrateDatabase, VerifyPackage, RestoreDatabase, ReverifyPackage
  <2>6. ASSUME NEW u \in Services, StopUnit(u) \/ RestoreUnit(u) \/ StartUnit(u)
                                   \/ StopStarted(u) \/ RestartUnit(u)
        PROVE  installed' = installed
    BY <2>6 DEF StopUnit, RestoreUnit, StartUnit, StopStarted, RestartUnit
  <2>7. ASSUME NEW u \in Services, ServiceOpensStore(u) PROVE installed' = installed
    BY <2>7 DEF ServiceOpensStore
  <2>8. CASE HookOpensStore \/ CommandKilled \/ UNCHANGED upgradeVars
    BY <2>3, <2>8 DEF HookOpensStore, CommandKilled, upgradeVars
  <2>9. CASE Command
    <3> HIDE DEF Alone
    <3> QED  BY <2>9, <2>1, <2>2, <2>3, <2>4, <2>5, <2>6 DEF Command
  <2> HIDE DEF Alone
  <2> QED  BY <1>1, <2>3, <2>7, <2>8, <2>9 DEF UpgradeNext
<1>2. UpgradeInv /\ [UpgradeNext]_upgradeVars => [Alone]_upgradeVars
  BY <1>1
<1> QED  BY <1>2, UpgradeInvariant, PTL DEF UpgradeSpec, ReplacedUnderStoppedUnits

\* Which statuses a step writes.
LEMMA WritesStatus ==
    ASSUME UpgradeInv, [UpgradeNext]_upgradeVars, manifest' # manifest
    PROVE  \/ StartUpgrade \/ Abort \/ Complete \/ Close
           \/ manifest' \in {"rollback_prepared", RestoreFailed, "rollback_failed",
                             "rollback_recovery_failed"}
<1> DEFINE Quiet == manifest' \in {manifest, "rollback_prepared", RestoreFailed,
                                   "rollback_failed", "rollback_recovery_failed"}
<1>1. ASSUME StartRollback \/ AllStopped \/ InstallPackage \/ MigrateDatabase
             \/ VerifyPackage
      PROVE  Quiet
  BY <1>1 DEF StartRollback, AllStopped, InstallPackage, MigrateDatabase, VerifyPackage,
              Install, Undo, transaction
<1>2. ASSUME Reinstall \/ RestoreDatabase \/ ReverifyPackage
      PROVE  Quiet
  BY <1>2 DEF Reinstall, RestoreDatabase, ReverifyPackage, Install, UndoFailed, GiveUp
<1>3. ASSUME NEW u \in Services, StopUnit(u) \/ RestoreUnit(u) \/ StartUnit(u)
      PROVE  Quiet
  BY <1>3 DEF StopUnit, RestoreUnit, StartUnit, GiveUp, transaction
<1>4. ASSUME NEW u \in Services, StopStarted(u) \/ RestartUnit(u)
      PROVE  Quiet
  BY <1>4 DEF StopStarted, RestartUnit, UndoFailed, GiveUp
<1>5. ASSUME HookOpensStore \/ CommandKilled \/ UNCHANGED upgradeVars
             \/ \E u \in Services : ServiceOpensStore(u)
      PROVE  Quiet
  BY <1>5 DEF HookOpensStore, CommandKilled, upgradeVars, ServiceOpensStore, transaction
<1>6. Quiet => manifest' \in {"rollback_prepared", RestoreFailed, "rollback_failed",
                              "rollback_recovery_failed"}
  OBVIOUS
<1> HIDE DEF Quiet
<1> QED  BY <1>1, <1>2, <1>3, <1>4, <1>5, <1>6 DEF UpgradeNext, Command

\* An upgrade that gives up at a failed stop has every unit running again that
\* it had stopped.
THEOREM AbortGivesUnitsBack == UpgradeSpec => AbortReturnsUnits
<1> DEFINE Given == manifest' = "aborted_before_install" /\ manifest' # manifest =>
                      installed = "old" /\ moved \subseteq Running
<1>1. ASSUME UpgradeInv, [UpgradeNext]_upgradeVars,
             manifest' = "aborted_before_install", manifest' # manifest
      PROVE  installed = "old" /\ moved \subseteq Running
  <2>1. Abort
    BY <1>1, WritesStatus DEF StartUpgrade, Complete, Close, Undo, UndoFailed, GiveUp,
                              RestoreFailed
  <2>2. phase = "restoring" /\ todo = {} /\ operation = "upgrade"
    BY <1>1, <2>1 DEF Abort, GiveUp, RestoreFailed
  <2> QED  BY <1>1, <2>2 DEF UpgradeInv, StopInv, Source
<1>2. UpgradeInv /\ [UpgradeNext]_upgradeVars => [Given]_upgradeVars
  BY <1>1
<1> QED  BY <1>2, UpgradeInvariant, PTL DEF UpgradeSpec, AbortReturnsUnits

\* A success that the manifest records is what the machine shows.
THEOREM SuccessIsReal == UpgradeSpec => RecordedSuccessIsReal
<1> DEFINE Real(status) ==
       /\ status = "completed" => AtRest("new")
       /\ status = "manually_rolled_back" => AtRest("old")
       /\ status = "rolled_back_after_failure" =>
             /\ installed = "old" /\ active \subseteq Running
             /\ schema = "old" \/ \E u \in active : code[u] = "new"
       /\ status = "rollback_reverted_after_failure" =>
             installed = "new" /\ active \subseteq Running /\ schema = "new"
<1>1. ASSUME UpgradeInv, [UpgradeNext]_upgradeVars, manifest' # manifest
      PROVE  Real(manifest')
  <2>1. CASE StartUpgrade
    BY <2>1 DEF StartUpgrade
  <2>2. CASE Abort
    BY <1>1, <2>2 DEF Abort, GiveUp, RestoreFailed
  <2>3. CASE Complete
    <3>1. AtRest(Target)
      BY <1>1, <2>3, CompleteStep
    <3>2. manifest' = IF operation = "upgrade" THEN "completed" ELSE "manually_rolled_back"
      BY <1>1, <2>3 DEF Complete, Undo
    <3> QED  BY <3>1, <3>2 DEF Target
  <2>4. CASE Close
    <3>1. GivenBack
      BY <1>1, <2>4, CloseStep
    <3>2. manifest' \in {IF operation = "upgrade" THEN "rolled_back_after_failure"
                         ELSE "rollback_reverted_after_failure",
                         "rollback_failed", "rollback_recovery_failed"}
      BY <1>1, <2>4 DEF Close, UndoFailed, GiveUp
    <3> QED  BY <1>1, <3>1, <3>2 DEF GivenBack, Source, UpgradeInv, UpgradeTypeOK
  <2>5. CASE manifest' \in {"rollback_prepared", RestoreFailed, "rollback_failed",
                            "rollback_recovery_failed"}
    BY <2>5 DEF RestoreFailed
  <2> HIDE DEF Real
  <2> QED  BY <1>1, <2>1, <2>2, <2>3, <2>4, <2>5, WritesStatus
<1>2. UpgradeInv /\ [UpgradeNext]_upgradeVars =>
         [manifest' # manifest => Real(manifest')]_upgradeVars
  BY <1>1
<1> QED  BY <1>2, UpgradeInvariant, PTL DEF UpgradeSpec, RecordedSuccessIsReal
===============================================================================
