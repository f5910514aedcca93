------------------------------- MODULE Alarm -------------------------------
(* The local alarm of alarm.py: AlarmController.start, called by a monitor    *)
(* for a red alert, AlarmController.stop, called by stop-alarm, and the       *)
(* threads that reap finished alarms, over one state file. The operating      *)
(* system reuses the pid of a process that ended. A process is identified by  *)
(* its start: the token stands for process_start_token together with          *)
(* command_fingerprint. A load, a check, a signal and a write of the file are *)
(* separate steps, as they are in the code.                                   *)
EXTENDS Naturals

CONSTANTS Pids,          \* the pids of the machine
          Stops,         \* stop-alarm commands that may run at once
          MaxProcesses   \* bound on the processes that are ever started

ASSUME AlarmAssumption == MaxProcesses \in Nat

VARIABLES table,         \* table[p]: the process that has pid p, or 0
          rings,         \* the processes that start() spawned
          born,          \* number of processes started so far
          saved,         \* red-alarm.json: the pid and token in it
          start,         \* the start() call in progress
          stop,          \* stop[k]: the stop() call in progress
          reapers        \* threads of _reap, each with the state it was given

alarmVars == <<table, rings, born, saved, start, stop, reapers>>

State     == [pid : Pids, token : 1..MaxProcesses]
NoState   == [pid |-> 0, token |-> 0]
Thread    == [phase : {"waiting", "unlinking"}, state : State]
Call      == [phase : {"idle", "loaded", "spawning", "spawned", "matched",
                       "terminating", "stubborn", "killing", "removing",
                       "unlinking"},
              state : State \cup {NoState}, since : 0..MaxProcesses]
NoCall    == [phase |-> "idle", state |-> NoState, since |-> 0]

AlarmInit ==
    /\ table = [p \in Pids |-> 0] /\ rings = {} /\ born = 0
    /\ saved = NoState
    /\ start = NoCall /\ stop = [k \in Stops |-> NoCall]
    /\ reapers = {}

Alive(token) == token # 0 /\ \E p \in Pids : table[p] = token

\* Faulty variant: any process with the pid is taken for the alarm.
MatchesByPid(s) == s # NoState /\ table[s.pid] # 0

\* _matches: the process with this pid is still the one recorded.
Matches(s) == s # NoState /\ table[s.pid] = s.token

\* A new process gets a free pid and a token of its own.
Spawned(p) == /\ table[p] = 0 /\ born < MaxProcesses
              /\ born' = born + 1
              /\ table' = [table EXCEPT ![p] = born + 1]

-----------------------------------------------------------------------------
\* GNU timeout, or the runner on Windows, ends the alarm at its limit; other
\* processes come and go.
ProcessEnds(p) ==
    /\ table[p] # 0
    /\ table' = [table EXCEPT ![p] = 0]
    /\ UNCHANGED <<rings, born, saved, start, stop, reapers>>

OtherProcessStarts(p) ==
    /\ Spawned(p)
    /\ UNCHANGED <<rings, saved, start, stop, reapers>>

\* _remove_state of a call: reads the file and leaves it alone when it names
\* another alarm, and unlinks it in a later step otherwise.
ReadToRemove(c, done) ==
    IF saved \in {NoState, c.state} THEN [c EXCEPT !.phase = "unlinking"] ELSE done

-----------------------------------------------------------------------------
LoadForStart ==
    /\ start.phase = "idle"
    /\ start' = [phase |-> "loaded", state |-> saved, since |-> born]
    /\ UNCHANGED <<table, rings, born, saved, stop, reapers>>

\* An alarm that still runs is reported as already running.
CheckForStart ==
    /\ start.phase = "loaded"
    /\ start' = IF Matches(start.state) THEN NoCall
                ELSE [start EXCEPT !.phase = IF start.state = NoState
                                             THEN "spawning" ELSE "removing"]
    /\ UNCHANGED <<table, rings, born, saved, stop, reapers>>

RemoveForStart ==
    \/ /\ start.phase = "removing"
       /\ start' = ReadToRemove(start, [start EXCEPT !.phase = "spawning"])
       /\ UNCHANGED <<table, rings, born, saved, stop, reapers>>
    \/ /\ start.phase = "unlinking"
       /\ saved' = NoState
       /\ start' = [start EXCEPT !.phase = "spawning"]
       /\ UNCHANGED <<table, rings, born, stop, reapers>>

SpawnAlarm(p) ==
    /\ start.phase = "spawning"
    /\ Spawned(p)
    /\ rings' = rings \cup {born + 1}
    /\ start' = [start EXCEPT !.phase = "spawned",
                              !.state = [pid |-> p, token |-> born + 1]]
    /\ UNCHANGED <<saved, stop, reapers>>

\* The state is written and a thread waits for the child; a command that ended
\* before it could be looked at is an error.
WriteState ==
    /\ start.phase = "spawned"
    /\ start' = NoCall
    /\ \/ /\ saved' = start.state
          /\ reapers' = reapers \cup {[phase |-> "waiting", state |-> start.state]}
       \/ ~Matches(start.state) /\ UNCHANGED <<saved, reapers>>
    /\ UNCHANGED <<table, rings, born, stop>>

\* The monitor dies with its threads; the alarm has a session of its own.
StarterDies ==
    /\ start # NoCall \/ reapers # {}
    /\ start' = NoCall /\ reapers' = {}
    /\ UNCHANGED <<table, rings, born, saved, stop>>

\* _reap: the child ended and was collected, and its state is removed, in the
\* two steps of _remove_state.
Reap(t) ==
    /\ t \in reapers
    /\ \/ /\ t.phase = "waiting" /\ ~Alive(t.state.token)
          /\ reapers' = (reapers \ {t}) \cup
                (IF saved \in {NoState, t.state}
                 THEN {[phase |-> "unlinking", state |-> t.state]} ELSE {})
          /\ saved' = saved
       \/ /\ t.phase = "unlinking"
          /\ reapers' = reapers \ {t} /\ saved' = NoState
    /\ UNCHANGED <<table, rings, born, start, stop>>

-----------------------------------------------------------------------------
\* Without a state the command answers not_running.
LoadForStop(k) ==
    /\ stop[k].phase = "idle"
    /\ saved # NoState
    /\ stop' = [stop EXCEPT ![k] = [phase |-> "loaded", state |-> saved, since |-> born]]
    /\ UNCHANGED <<table, rings, born, saved, start, reapers>>

\* What is found to be another process, or none, is a stale state.
CheckForStop(k) ==
    /\ stop[k].phase = "loaded"
    /\ stop' = [stop EXCEPT ![k].since = born,
                            ![k].phase = IF Matches(stop[k].state)
                                         THEN "matched" ELSE "removing"]
    /\ UNCHANGED <<table, rings, born, saved, start, reapers>>

\* The signal reaches the process that has the pid now, after the check. An
\* alarm may ignore TERM; nothing ignores KILL.
Signal(k) ==
    LET ended == [table EXCEPT ![stop[k].state.pid] = 0] IN
    /\ \/ /\ stop[k].phase = "matched"
          /\ stop' = [stop EXCEPT ![k].phase = "terminating"]
          /\ table' \in {table, ended}
       \/ /\ stop[k].phase = "stubborn"
          /\ stop' = [stop EXCEPT ![k].phase = "killing"]
          /\ table' = ended
    /\ UNCHANGED <<rings, born, saved, start, reapers>>

\* Faulty variant: the state is removed without waiting for the process.
DoesNotWait(k) ==
    /\ stop[k].phase \in {"terminating", "killing"}
    /\ stop' = [stop EXCEPT ![k].phase = "removing"]
    /\ UNCHANGED <<table, rings, born, saved, start, reapers>>

\* _wait_until_stopped saw the process gone.
SeeStopped(k) ==
    /\ stop[k].phase \in {"terminating", "killing"} /\ ~Matches(stop[k].state)
    /\ stop' = [stop EXCEPT ![k].phase = "removing"]
    /\ UNCHANGED <<table, rings, born, saved, start, reapers>>

\* It is still there at the deadline: without force the command fails and
\* leaves the state, with it the process is killed next.
TimeOut(k) ==
    /\ stop[k].phase = "terminating" /\ Matches(stop[k].state)
    /\ \/ stop' = [stop EXCEPT ![k] = NoCall]
       \/ stop' = [stop EXCEPT ![k].phase = "stubborn", ![k].since = born]
    /\ UNCHANGED <<table, rings, born, saved, start, reapers>>

RemoveForStop(k) ==
    \/ /\ stop[k].phase = "removing"
       /\ stop' = [stop EXCEPT ![k] = ReadToRemove(@, NoCall)]
       /\ UNCHANGED <<table, rings, born, saved, start, reapers>>
    \/ /\ stop[k].phase = "unlinking"
       /\ saved' = NoState
       /\ stop' = [stop EXCEPT ![k] = NoCall]
       /\ UNCHANGED <<table, rings, born, start, reapers>>

AlarmNext ==
    \/ \E p \in Pids : ProcessEnds(p) \/ OtherProcessStarts(p) \/ SpawnAlarm(p)
    \/ LoadForStart \/ CheckForStart \/ RemoveForStart \/ WriteState \/ StarterDies
    \/ \E t \in reapers : Reap(t)
    \/ \E k \in Stops : \/ LoadForStop(k) \/ CheckForStop(k) \/ Signal(k)
                        \/ SeeStopped(k) \/ TimeOut(k) \/ RemoveForStop(k)

AlarmSpec == AlarmInit /\ [][AlarmNext]_alarmVars

-----------------------------------------------------------------------------
AlarmTypeOK ==
    /\ table \in [Pids -> 0..MaxProcesses] /\ born \in 0..MaxProcesses
    /\ rings \subseteq 1..MaxProcesses
    /\ saved \in State \cup {NoState}
    /\ start \in Call /\ stop \in [Stops -> Call]
    /\ reapers \subseteq Thread

\* stop-alarm signals the alarm it found or nobody: a process that has reused
\* the pid is spared, unless it was started after the check, in the instant
\* before the signal.
SparesOtherProcesses ==
    [][ \A k \in Stops :
          LET target == table[stop[k].state.pid] IN
          stop'[k].phase # stop[k].phase /\ stop'[k].phase \in {"terminating", "killing"}
             => target \in rings \cup {0} \/ target > stop[k].since ]_alarmVars

\* When stop-alarm has removed the state, the alarm it was about has ended,
\* whichever of the answers "stopped" and "stale_state" it gives.
StoppedHasEnded ==
    \A k \in Stops : stop[k].phase \in {"removing", "unlinking"} =>
       ~Alive(stop[k].state.token)
=============================================================================
