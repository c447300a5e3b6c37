---------------------------- MODULE FmuRealtime ----------------------------
(***************************************************************************)
(* A realtime session at work: the registry of FmuRegistry, composed with  *)
(* the FMU instance and the simulation state inside each session           *)
(* (fmu-executor/app/engine.py) and with the task of each connection that  *)
(* steps it in real time (_run_session in app/main.py).                    *)
(*                                                                         *)
(* Sessions are not exclusive: a second connection may attach while the    *)
(* first, whose loss nobody has noticed, still has its runner task.        *)
(*                                                                         *)
(* Simulated time is counted in steps.  Output subscriptions, inputs and   *)
(* the values of variables are left out: they change none of this state.   *)
(***************************************************************************)
EXTENDS FmuRegistry

CONSTANTS
  StopTime,  \* the simulation's stop time, in steps
  MaxTime    \* bound on the simulated time commands may go to beyond it

ASSUME RealtimeAssumption ==
  /\ StopTime \in Nat \ {0}
  /\ MaxTime \in Nat /\ MaxTime > StopTime

VARIABLES
  sim,      \* the simulation part of each FmuSession
  runner,   \* where each connection's runner task is suspended
  pending   \* a command that awaits the end of a cancelled runner

rtVars == <<vars, sim, runner, pending>>

\* state: _state, "ready" stands for "initialized".  ready: _initialised.
\* fmu: _slave is None, was left half-way by a failed initialize, or is ready.
\* leaked: the session has lost an instance that it never freed.
\* held: history, it was paused and has not been resumed, reset, initialized or
\* stepped by hand since.
Sim ==
  [state: {"new", "initialized", "running", "paused", "stopped", "error"},
   ready: BOOLEAN,
   fmu: {"none", "half", "ready"},
   leaked: BOOLEAN,
   held: BOOLEAN,
   time: 0..MaxTime]

\* "due" is before the loop's test, in the sleep or not yet begun; "sent" is
\* in the send that follows a step; "stopping" and "failing" in the ones that
\* report the end of the task; "idle" is no task or a task that is done.
Runner == {"idle", "due", "sent", "stopping", "failing"}

NoCommand == [cmd |-> "none", on |-> NoSession]

RealtimeTypeOK ==
  /\ TypeOK
  /\ sim \in [Sessions -> Sim]
  /\ runner \in [Conns -> Runner]
  /\ pending \in [Conns -> [cmd: {"none", "initialize", "pause", "reset"},
                            on: Sessions \cup {NoSession}]]

RealtimeInit ==
  /\ Init
  /\ sim = [s \in Sessions |->
              [state |-> "new", ready |-> FALSE, fmu |-> "none",
               leaked |-> FALSE, held |-> FALSE, time |-> 0]]
  /\ runner = [c \in Conns |-> "idle"]
  /\ pending = [c \in Conns |-> NoCommand]

----------------------------------------------------------------------------
(* The FMU inside a session                                                *)

\* _ensure_live
Live(s) == ~sess[s].terminated /\ sim[s].ready

\* Faulty variant: the instance is freed, the session still counts as ready
FreedStillReady(r) == [r EXCEPT !.fmu = "none"]

\* _release_fmu
Freed(r) == [r EXCEPT !.fmu = "none", !.ready = FALSE]

\* terminate() does nothing on a session that is terminated already
AfterEnds ==
  [s \in Sessions |->
     IF ~sess[s].terminated /\ sess'[s].terminated
     THEN Freed(sim[s]) ELSE sim[s]]

\* initialize: a new instance takes the place of the old one
Instance(r, fmu) ==
  [r EXCEPT !.fmu = fmu, !.leaked = r.leaked \/ r.fmu # "none", !.time = 0]

Initialized(r) ==
  [Instance(r, "ready") EXCEPT
     !.ready = TRUE, !.state = "initialized", !.held = FALSE]

\* ... which cannot be instantiated, or not be brought to its first step
NotInitialized(r) == {[r EXCEPT !.time = 0], Instance(r, "half")}

\* Faulty variant: initialize() also takes the session back
Reattached(s) == [sess EXCEPT ![s].terminated = FALSE, ![s].attached = TRUE]

Marked(s, state, held) ==
  sim' = [sim EXCEPT ![s].state = state, ![s].held = held]

\* initialize() clears _terminated, so that it revives an ended session
Unended(s) == [sess EXCEPT ![s].terminated = FALSE]

InitializeWith(s, r) ==
  \/ /\ sess' = Unended(s)
     /\ sim' = [sim EXCEPT ![s] = Initialized(r)]
  \/ /\ UNCHANGED sess
     /\ \E n \in NotInitialized(r) : sim' = [sim EXCEPT ![s] = n]

\* It may also refuse its arguments, or a session that is ready
DoInitialize(s) ==
  \/ ~sim[s].ready /\ InitializeWith(s, sim[s])
  \/ UNCHANGED <<sess, sim>>

DoReset(s) ==
  IF Live(s) THEN InitializeWith(s, Freed(sim[s]))
  ELSE UNCHANGED <<sess, sim>>

DoPause(s) ==
  /\ IF Live(s) /\ sim[s].state = "running"
     THEN Marked(s, "paused", TRUE) ELSE UNCHANGED sim
  /\ UNCHANGED sess

Do(cmd, s) ==
  \/ cmd = "initialize" /\ DoInitialize(s)
  \/ cmd = "reset" /\ DoReset(s)
  \/ cmd = "pause" /\ DoPause(s)

----------------------------------------------------------------------------
(* Commands that stop the runner first                                     *)

\* The connection reads its next message
Reading(c) == CommandAllowed(c) /\ pending[c] = NoCommand

\* With no task to wait for, the command goes on at once
CommandAtOnce(c) ==
  /\ Reading(c) /\ runner[c] = "idle"
  /\ \E cmd \in {"initialize", "pause", "reset"} : Do(cmd, conns[c].session)
  /\ UNCHANGED <<registry, conns, runner, pending>>

\* _stop_runner cancels the task, which takes no further step, and awaits it
CommandAfterRunner(c) ==
  /\ Reading(c) /\ runner[c] # "idle"
  /\ runner' = [runner EXCEPT ![c] = "idle"]
  /\ \E cmd \in {"initialize", "pause", "reset"} :
       pending' = [pending EXCEPT ![c] =
                     [cmd |-> cmd, on |-> conns[c].session]]
  /\ UNCHANGED <<registry, sess, conns, sim>>

\* ... and the command goes on with the session it was given
CommandContinues(c) ==
  /\ pending[c] # NoCommand
  /\ Do(pending[c].cmd, pending[c].on)
  /\ pending' = [pending EXCEPT ![c] = NoCommand]
  /\ UNCHANGED <<registry, conns, runner>>

----------------------------------------------------------------------------
(* Commands that leave it alone                                            *)

\* sim.start and sim.resume; _start_runner keeps a task that is not done
StartRunning(c) ==
  LET s == conns[c].session IN
  /\ Reading(c)
  /\ Live(s) /\ sim[s].state \in {"initialized", "paused"}
  /\ Marked(s, "running", FALSE)
  /\ runner' = [runner EXCEPT ![c] = IF @ = "idle" THEN "due" ELSE @]
  /\ UNCHANGED <<registry, sess, conns, pending>>

MayStep(s) == Live(s) /\ sim[s].state # "paused"

\* Faulty variant: one step too many
SteppedTooFar(s, n, held) ==
  sim' = [sim EXCEPT ![s].time = @ + n + 1, ![s].state = "running",
                     ![s].held = held]

\* FmuSession.step and run_until, by n steps of doStep
Stepped(s, n, held) ==
  sim' = [sim EXCEPT ![s].time = @ + n, ![s].state = "running",
                     ![s].held = held]

\* sim.step and sim.runUntil
StepCommand(c) ==
  /\ Reading(c)
  /\ MayStep(conns[c].session)
  /\ \E n \in 0..MaxTime :
       /\ sim[conns[c].session].time + n <= MaxTime
       /\ Stepped(conns[c].session, n, FALSE)
  /\ UNCHANGED <<registry, sess, conns, runner, pending>>

----------------------------------------------------------------------------
(* _run_session                                                            *)

RunnerTo(c, where) == runner' = [runner EXCEPT ![c] = where]

\* The session the task sees is the connection's, whatever that is by now
Mine(c) == conns[c].session

\* Faulty variant: whether the session is running is not looked at again
WantedWhileThere(c) == Mine(c) # NoSession /\ ~sess[Mine(c)].terminated

Wanted(c) ==
  /\ Mine(c) # NoSession
  /\ ~sess[Mine(c)].terminated
  /\ sim[Mine(c)].state = "running"

\* The loop ends: the session is gone, ended, or no longer running
RunnerLeaves(c) ==
  /\ runner[c] = "due" /\ ~Wanted(c)
  /\ RunnerTo(c, "idle")
  /\ UNCHANGED <<registry, sess, conns, sim, pending>>

RunnerSteps(c) ==
  /\ runner[c] = "due" /\ Wanted(c)
  /\ Live(Mine(c)) /\ sim[Mine(c)].time < MaxTime
  /\ Stepped(Mine(c), 1, sim[Mine(c)].held)
  /\ RunnerTo(c, "sent")
  /\ UNCHANGED <<registry, sess, conns, pending>>

\* Faulty variant: the runner believes that the step it sent was the last
StepWasTheLast(s) == TRUE

AtStop(s) == sim[s].time >= StopTime

\* The send returns: the time is looked at now, and so is the session
SendReturns(c) ==
  /\ runner[c] = "sent"
  /\ IF Mine(c) # NoSession /\ AtStop(Mine(c))
     THEN /\ Marked(Mine(c), "stopped", sim[Mine(c)].held)
          /\ RunnerTo(c, "stopping")
     ELSE /\ RunnerTo(c, IF Mine(c) = NoSession THEN "idle" ELSE "due")
          /\ UNCHANGED sim
  /\ UNCHANGED <<registry, sess, conns, pending>>

\* A step or a send raises, the report of the end among them: the session, if it is not ended, is in error
RunnerFails(c) ==
  /\ runner[c] \in {"due", "sent", "stopping"}
  /\ runner[c] = "due" => Wanted(c)
  /\ IF Mine(c) # NoSession /\ ~sess[Mine(c)].terminated
     THEN /\ Marked(Mine(c), "error", sim[Mine(c)].held)
          /\ RunnerTo(c, "failing")
     ELSE /\ RunnerTo(c, "idle")
          /\ UNCHANGED sim
  /\ UNCHANGED <<registry, sess, conns, pending>>

RunnerEnds(c) ==
  /\ runner[c] \in {"stopping", "failing"}
  /\ RunnerTo(c, "idle")
  /\ UNCHANGED <<registry, sess, conns, sim, pending>>

----------------------------------------------------------------------------
(* The registry's actions in this composition                              *)

\* Messages that create, attach or refuse
BindStep(c) ==
  /\ pending[c] = NoCommand
  /\ \E s \in Sessions : \/ CreateSession(c, s)
                         \/ CreateFails(c, s)
                         \/ AttachSession(c, s)
                         \/ AttachTooLate(c, s)
  /\ sim' = AfterEnds
  /\ UNCHANGED <<runner, pending>>

\* Faulty variant: the runner is not cancelled when its connection goes
RunnerLeftAlone(c) == UNCHANGED runner

RunnerCancelled(c) == RunnerTo(c, "idle")

\* session.terminate and a lost websocket cancel the runner
LeaveStep(c) ==
  /\ pending[c] = NoCommand
  /\ BeginTerminate(c) \/ Disconnect(c)
  /\ RunnerCancelled(c)
  /\ sim' = AfterEnds
  /\ UNCHANGED pending

\* What goes on whatever the connections' handlers are doing
BackgroundStep ==
  /\ \/ \E s \in Sessions : RunStep(s)
     \/ \E c \in Conns : \/ Connect(c) \/ EndTerminate(c) \/ Expire(c)
                         \/ CancelExpiry(c) \/ Detach(c)
     \/ \E s \in Sessions : Collect(s) /\ \A c \in Conns : pending[c].on # s
     \/ Sweep
     \/ Tick
  /\ sim' = AfterEnds
  /\ UNCHANGED <<runner, pending>>

RealtimeShutdown ==
  /\ Shutdown
  /\ sim' = AfterEnds
  /\ runner' = [c \in Conns |-> "idle"]
  /\ pending' = [c \in Conns |-> NoCommand]

CommandStep(c) ==
  \/ CommandAtOnce(c)
  \/ CommandAfterRunner(c)
  \/ CommandContinues(c)
  \/ StartRunning(c)
  \/ StepCommand(c)

RunnerStep(c) ==
  \/ RunnerLeaves(c)
  \/ RunnerSteps(c)
  \/ SendReturns(c)
  \/ RunnerFails(c)
  \/ RunnerEnds(c)

RealtimeServe ==
  \/ \E c \in Conns : \/ BindStep(c)
                      \/ LeaveStep(c)
                      \/ CommandStep(c)
                      \/ RunnerStep(c)
  \/ BackgroundStep

RealtimeNext ==
  \/ up /\ RealtimeServe /\ UNCHANGED up
  \/ RealtimeShutdown
  \/ Startup /\ UNCHANGED <<sim, runner, pending>>

RealtimeSpec == RealtimeInit /\ [][RealtimeNext]_rtVars

----------------------------------------------------------------------------
(* Properties                                                              *)

\* The composition does to the registry only what FmuRegistry allows: an
\* initialize that revives an ended session is all that a command adds.
ImplementsRegistry == Spec

\* The native instance is entered only while it exists: a session is ready
\* exactly when it has an initialized FMU, and none is when it is ended,
\* whichever connection, deadline or cleanup ended it.
ReadyMeansUsable ==
  \A s \in Sessions :
    /\ sim[s].ready <=> sim[s].fmu = "ready"
    /\ sess[s].terminated => ~sim[s].ready

\* "sim.pause: pauses automatic stepping while retaining FMU state": the time of
\* a session that was paused, and that nobody has resumed, reset or stepped
\* since, stands still, though another connection's runner may be asleep or in
\* the middle of a send and then stop it or set it in error.  Only then, when
\* it is no longer "paused", can it be stepped by hand.
PauseIsKept ==
  [][\A s \in Sessions :
       /\ sim[s].held /\ sim[s].ready /\ sim'[s].ready
       /\ sim'[s].time # sim[s].time
       => \/ sim'[s].state = "initialized"
          \/ ~sim'[s].held /\ sim[s].state \in {"stopped", "error"}]_rtVars

\* A session is reported as stopped only when it has come to its stop time,
\* though it may have been reset while the runner was sending.
StoppedIsAtStop ==
  \A s \in Sessions :
    Live(s) /\ sim[s].state = "stopped" => sim[s].time >= StopTime

\* A runner task does not outlive its connection: it is cancelled before the
\* finally block detaches the session for the next one.
RunnersHaveAConnection ==
  \A c \in Conns :
    runner[c] # "idle" => conns[c].state = "open" /\ pending[c] = NoCommand

\* "Once the grace window expires, the FMU state and temporary files are
\* cleaned up": a session that was removed and ended, and that no connection
\* refers to any more, has left no instance behind.
InstancesAreFreed ==
  \A s \in Sessions :
    /\ up /\ s \notin registry /\ sess[s].terminated
    /\ \A c \in Conns : conns[c].session # s /\ pending[c].on # s
    => sim[s].fmu = "none" /\ ~sim[s].leaked

=============================================================================
