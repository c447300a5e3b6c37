------------------------- MODULE FmuRealtimeProofs -------------------------
(***************************************************************************)
(* The realtime sessions of FmuRealtime for any sessions, connections,     *)
(* stop time and bounds: they do to the registry only what FmuRegistry     *)
(* allows, so that its theorems hold of them too, and a session is ready   *)
(* or stopped only when its instance and its time agree.                   *)
(***************************************************************************)
EXTENDS FmuRealtime, FmuRegistryProofs

----------------------------------------------------------------------------
(* The operators on the simulation part of a session                       *)

LEMMA FreedFacts ==
  ASSUME NEW r \in Sim
  PROVE  /\ Freed(r) \in Sim
         /\ ~Freed(r).ready /\ Freed(r).fmu = "none"
         /\ Freed(r).leaked = r.leaked
         /\ Freed(r).state = r.state /\ Freed(r).held = r.held
BY DEF Freed, Sim

LEMMA InstanceFacts ==
  ASSUME NEW r \in Sim, NEW f \in {"half", "ready"}
  PROVE  /\ Instance(r, f) \in Sim
         /\ Instance(r, f).ready = r.ready /\ Instance(r, f).fmu = f
         /\ Instance(r, f).leaked => r.leaked \/ r.fmu # "none"
         /\ Instance(r, f).state = r.state /\ Instance(r, f).held = r.held
<1>1. 0 \in 0..MaxTime
  BY RealtimeAssumption
<1>2. (r.leaked \/ r.fmu # "none") \in BOOLEAN
  BY DEF Sim
<1> DEFINE b == r.leaked \/ r.fmu # "none"
<1>3. Instance(r, f) = [r EXCEPT !.fmu = f, !.leaked = b, !.time = 0]
  BY DEF Instance
<1> HIDE DEF b
<1>4. /\ Instance(r, f) \in Sim
      /\ Instance(r, f).ready = r.ready /\ Instance(r, f).fmu = f
      /\ Instance(r, f).leaked = b
      /\ Instance(r, f).state = r.state /\ Instance(r, f).held = r.held
  BY <1>1, <1>2, <1>3 DEF Sim, b
<1> QED
  BY <1>4 DEF b

\* A successful initialize leaves an instance at its start ...
LEMMA InitializedFacts ==
  ASSUME NEW r \in Sim
  PROVE  /\ Initialized(r) \in Sim
         /\ Initialized(r).ready /\ Initialized(r).fmu = "ready"
         /\ Initialized(r).state = "initialized" /\ ~Initialized(r).held
         /\ Initialized(r).leaked => r.leaked \/ r.fmu # "none"
<1> DEFINE q == Instance(r, "ready")
<1>1. /\ q \in Sim /\ q.fmu = "ready"
      /\ q.leaked => r.leaked \/ r.fmu # "none"
  BY InstanceFacts
<1>2. Initialized(r) =
        [q EXCEPT !.ready = TRUE, !.state = "initialized", !.held = FALSE]
  BY DEF Initialized
<1> HIDE DEF q
<1> QED
  BY <1>1, <1>2 DEF Sim

\* ... and one that fails leaves the session as unusable as it was
LEMMA NotInitializedFacts ==
  ASSUME NEW r \in Sim, ~r.ready, r.fmu # "ready",
         NEW n \in NotInitialized(r)
  PROVE  /\ n \in Sim /\ ~n.ready /\ n.fmu # "ready"
         /\ n.leaked => r.leaked \/ r.fmu # "none"
         /\ n.state = r.state /\ n.held = r.held
<1>1. CASE n = Instance(r, "half")
  BY <1>1, InstanceFacts
<1>2. CASE n = [r EXCEPT !.time = 0]
  <2>1. 0 \in 0..MaxTime
    BY RealtimeAssumption
  <2> QED
    BY <1>2, <2>1 DEF Sim
<1> QED
  BY <1>1, <1>2 DEF NotInitialized

----------------------------------------------------------------------------
(* The inductive invariant                                                 *)

\* A pause that is in force may have been overtaken by the end of a runner
Quiet(r) == r.held => r.state \in {"paused", "stopped", "error"}

\* The instance and the state of a session agree.  That a session is ready
\* only while it is live is part of it: an initialize revives an ended
\* session, and what it had been before must not count again.
SimInv(s) ==
  /\ sim[s].ready <=> sim[s].fmu = "ready"
  /\ sess[s].terminated => ~sim[s].ready
  /\ sim[s].ready /\ sim[s].state = "stopped" => sim[s].time >= StopTime
  /\ Quiet(sim[s])

\* A command that awaits its runner still has its connection, and the session
\* it was given unless the expiry task has taken that away
PendingInv(c) ==
  pending[c] # NoCommand =>
    /\ conns[c].state = "open"
    /\ pending[c].on \in Sessions
    /\ sess[pending[c].on].kind = "realtime"
    /\ conns[c].session \in {pending[c].on, NoSession}

SimType ==
  /\ sim \in [Sessions -> Sim]
  /\ runner \in [Conns -> Runner]
  /\ pending \in [Conns -> [cmd: {"none", "initialize", "pause", "reset"},
                            on: Sessions \cup {NoSession}]]

RealtimeInv ==
  /\ RegistryInv /\ WorkInv
  /\ SimType
  /\ \A s \in Sessions : SimInv(s)
  /\ RunnersHaveAConnection
  /\ \A c \in Conns : PendingInv(c)

LEMMA RealtimeInvInit == RealtimeInit => RealtimeInv
<1> SUFFICES ASSUME RealtimeInit PROVE RealtimeInv
  OBVIOUS
<1>1. RegistryInv /\ WorkInv
  BY InvInit DEF RealtimeInit, Init, WorkInv, Unborn
<1>2. 0 \in 0..MaxTime
  BY RealtimeAssumption
<1>3. /\ sim \in [Sessions -> Sim]
      /\ \A s \in Sessions : SimInv(s)
  BY <1>2 DEF RealtimeInit, Sim, SimInv, Quiet
<1>4. /\ runner \in [Conns -> Runner]
      /\ RunnersHaveAConnection
  BY DEF RealtimeInit, Runner, RunnersHaveAConnection
<1>5. /\ pending \in [Conns -> [cmd: {"none", "initialize", "pause", "reset"},
                                on: Sessions \cup {NoSession}]]
      /\ \A c \in Conns : PendingInv(c)
  BY DEF RealtimeInit, NoCommand, PendingInv
<1> QED
  BY <1>1, <1>3, <1>4, <1>5 DEF RealtimeInv, SimType

----------------------------------------------------------------------------
(* What a step can do to the simulation in one session                     *)

Kept(s) == sim'[s] = sim[s] /\ (sess'[s].terminated => sess[s].terminated)

Lost(s) == ~sim'[s].ready /\ sim'[s].fmu # "ready"

Fresh(s) ==
  /\ sim'[s].ready /\ sim'[s].fmu = "ready"
  /\ sim'[s].state = "initialized" /\ ~sess'[s].terminated

\* Its state is set, as a command or the runner does, and nothing else
Altered(s) ==
  /\ sim'[s].ready = sim[s].ready /\ sim'[s].fmu = sim[s].fmu
  /\ sim'[s].time = sim[s].time /\ sess'[s] = sess[s]
  /\ sim'[s].state = "stopped" => sim[s].time >= StopTime

Moved(s) ==
  /\ sim'[s].ready = sim[s].ready /\ sim'[s].fmu = sim[s].fmu
  /\ sim'[s].state = "running" /\ sess'[s] = sess[s]
  /\ sim[s].state # "paused" /\ (Quiet(sim[s]) => ~sim'[s].held)

\* No instance is lost but one that a failed initialize has left half-way
Accounted(s) == sim'[s].leaked => sim[s].leaked \/ sim[s].fmu = "half"

\* Whoever marks a paused session afterwards does not let it run
Steady(s) == Quiet(sim[s]) => Quiet(sim'[s])

SimFate(s) ==
  /\ Kept(s) \/ Lost(s) \/ Fresh(s) \/ Altered(s) \/ Moved(s)
  /\ Accounted(s)
  /\ Steady(s)

SimFates == sim' \in [Sessions -> Sim] /\ \A s \in Sessions : SimFate(s)

\* Whatever ends sessions, those that it ends lose their instance
LEMMA AfterEndsFate ==
  ASSUME SimType, sim' = AfterEnds PROVE SimFates
<1>1. \A s \in Sessions :
        sim'[s] = IF ~sess[s].terminated /\ sess'[s].terminated
                  THEN Freed(sim[s]) ELSE sim[s]
  BY DEF AfterEnds
<1>2. \A s \in Sessions : sim[s] \in Sim /\ sim'[s] \in Sim
  BY <1>1, FreedFacts DEF SimType
<1>3. sim' \in [Sessions -> Sim]
  BY <1>2 DEF AfterEnds
<1>4. ASSUME NEW s \in Sessions PROVE SimFate(s)
  <2>1. CASE ~sess[s].terminated /\ sess'[s].terminated
    BY <1>1, <1>2, <2>1, FreedFacts DEF SimFate, Lost, Accounted, Steady, Quiet
  <2>2. CASE ~(~sess[s].terminated /\ sess'[s].terminated)
    BY <1>1, <2>2 DEF SimFate, Kept, Accounted, Steady
  <2> QED
    BY <2>1, <2>2
<1> QED
  BY <1>3, <1>4 DEF SimFates

\* One session changes, and the sessions of the registry stay
LEMMA OneFate ==
  ASSUME SimType, NEW s \in Sessions, NEW r \in Sim,
         sim' = [sim EXCEPT ![s] = r],
         \A t \in Sessions \ {s} : sess'[t] = sess[t],
         SimFate(s)
  PROVE  SimFates
<1>1. sim' \in [Sessions -> Sim]
  BY DEF SimType
<1>2. \A t \in Sessions \ {s} : SimFate(t)
  BY DEF SimType, SimFate, Kept, Accounted, Steady
<1> QED
  BY <1>1, <1>2 DEF SimFates

LEMMA SameFate ==
  ASSUME SimType, UNCHANGED <<sess, sim>> PROVE SimFates
BY DEF SimType, SimFates, SimFate, Kept, Accounted, Steady

LEMMA UnendedFacts ==
  ASSUME TypeOK, NEW s \in Sessions, sess' = Unended(s)
  PROVE  /\ ~sess'[s].terminated
         /\ \A t \in Sessions \ {s} : sess'[t] = sess[t]
BY DEF TypeOK, Session, Unended

LEMMA InitializeFate ==
  ASSUME TypeOK, SimType, NEW s \in Sessions,
         NEW r \in Sim, ~r.ready, r.fmu # "ready",
         r.leaked \/ r.fmu # "none" => sim[s].leaked \/ sim[s].fmu = "half",
         r.state = sim[s].state, r.held = sim[s].held,
         InitializeWith(s, r)
  PROVE  SimFates
<1>1. CASE sess' = Unended(s) /\ sim' = [sim EXCEPT ![s] = Initialized(r)]
  <2> DEFINE q == Initialized(r)
  <2>1. /\ q \in Sim /\ q.ready /\ q.fmu = "ready"
        /\ q.state = "initialized" /\ ~q.held
        /\ q.leaked => r.leaked \/ r.fmu # "none"
    BY InitializedFacts
  <2>2. sim' = [sim EXCEPT ![s] = q]
    BY <1>1
  <2> HIDE DEF q
  <2>3. sim'[s] = q
    BY <2>2 DEF SimType
  <2>4. SimFate(s) /\ \A t \in Sessions \ {s} : sess'[t] = sess[t]
    BY <1>1, <2>1, <2>3, UnendedFacts
    DEF SimFate, Fresh, Accounted, Steady, Quiet
  <2> QED
    BY <2>1, <2>2, <2>4, OneFate
<1>2. CASE /\ UNCHANGED sess
           /\ \E n \in NotInitialized(r) : sim' = [sim EXCEPT ![s] = n]
  <2>1. PICK n \in NotInitialized(r) : sim' = [sim EXCEPT ![s] = n]
    BY <1>2
  <2>2. /\ n \in Sim /\ ~n.ready /\ n.fmu # "ready"
        /\ n.leaked => r.leaked \/ r.fmu # "none"
        /\ n.state = r.state /\ n.held = r.held
    BY NotInitializedFacts
  <2>3. sim'[s] = n
    BY <2>1 DEF SimType
  <2>4. SimFate(s)
    BY <2>2, <2>3 DEF SimFate, Lost, Accounted, Steady, Quiet
  <2> QED
    BY <1>2, <2>1, <2>2, <2>4, OneFate
<1> QED
  BY <1>1, <1>2 DEF InitializeWith

LEMMA MarkFate ==
  ASSUME SimType, NEW s \in Sessions,
         NEW q \in {"running", "paused", "stopped", "error"},
         NEW h \in BOOLEAN, q = "running" => ~h,
         q = "stopped" => sim[s].time >= StopTime,
         UNCHANGED sess, Marked(s, q, h)
  PROVE  SimFates
<1> DEFINE r == [sim[s] EXCEPT !.state = q, !.held = h]
<1>1. sim[s] \in Sim
  BY DEF SimType
<1>2. sim' = [sim EXCEPT ![s] = r]
  BY DEF Marked
<1>3. /\ r \in Sim /\ r.ready = sim[s].ready /\ r.fmu = sim[s].fmu
      /\ r.time = sim[s].time /\ r.state = q /\ r.leaked = sim[s].leaked
      /\ r.held = h
  BY <1>1 DEF Sim
<1> HIDE DEF r
<1>4. sim'[s] = r
  BY <1>2 DEF SimType
<1>5. SimFate(s)
  BY <1>3, <1>4 DEF SimFate, Altered, Accounted, Steady, Quiet
<1> QED
  BY <1>2, <1>3, <1>5, OneFate

LEMMA StepFate ==
  ASSUME SimType, NEW s \in Sessions, sim[s].state # "paused",
         NEW h \in BOOLEAN, Quiet(sim[s]) => ~h,
         NEW n \in Nat, sim[s].time + n <= MaxTime,
         UNCHANGED sess, Stepped(s, n, h)
  PROVE  SimFates
<1> DEFINE r == [sim[s] EXCEPT !.time = sim[s].time + n, !.state = "running",
                               !.held = h]
<1>1. sim[s] \in Sim /\ sim[s].time \in 0..MaxTime
  BY DEF SimType, Sim
<1>2. sim[s].time + n \in 0..MaxTime
  BY <1>1, RealtimeAssumption DEF RealtimeAssumption
<1>3. sim' = [sim EXCEPT ![s] = r]
  BY DEF Stepped
<1>4. /\ r \in Sim /\ r.ready = sim[s].ready /\ r.fmu = sim[s].fmu
      /\ r.state = "running" /\ r.leaked = sim[s].leaked
      /\ r.held = h
  BY <1>1, <1>2 DEF Sim
<1> HIDE DEF r
<1>5. sim'[s] = r
  BY <1>3 DEF SimType
<1>6. SimFate(s)
  BY <1>4, <1>5 DEF SimFate, Moved, Accounted, Steady, Quiet
<1> QED
  BY <1>3, <1>4, <1>6, OneFate

\* A command that stops the runner first
LEMMA DoFate ==
  ASSUME TypeOK, SimType, NEW s \in Sessions, SimInv(s), NEW cmd, Do(cmd, s)
  PROVE  SimFates
<1>1. sim[s] \in Sim
  BY DEF SimType
<1>2. CASE DoInitialize(s)
  <2>1. CASE ~sim[s].ready /\ InitializeWith(s, sim[s])
    BY <1>1, <2>1, InitializeFate DEF SimInv, Sim
  <2>2. CASE UNCHANGED <<sess, sim>>
    BY <2>2, SameFate
  <2> QED
    BY <1>2, <2>1, <2>2 DEF DoInitialize
<1>3. CASE DoReset(s)
  <2>1. CASE InitializeWith(s, Freed(sim[s]))
    <3> DEFINE r == Freed(sim[s])
    <3>1. /\ r \in Sim /\ ~r.ready /\ r.fmu = "none"
          /\ r.leaked = sim[s].leaked
          /\ r.state = sim[s].state /\ r.held = sim[s].held
      BY <1>1, FreedFacts
    <3>2. InitializeWith(s, r)
      BY <2>1
    <3> HIDE DEF r
    <3> QED
      BY <3>1, <3>2, InitializeFate
  <2>2. CASE UNCHANGED <<sess, sim>>
    BY <2>2, SameFate
  <2> QED
    BY <1>3, <2>1, <2>2 DEF DoReset
<1>4. CASE DoPause(s)
  <2>1. CASE Marked(s, "paused", TRUE)
    BY <1>4, <2>1, MarkFate DEF DoPause
  <2>2. CASE sim' = sim
    BY <1>4, <2>2, SameFate DEF DoPause
  <2> QED
    BY <1>4, <2>1, <2>2 DEF DoPause
<1> QED
  BY <1>2, <1>3, <1>4 DEF Do

\* What a command does to the registry is to revive the session, if anything
LEMMA DoRevives ==
  ASSUME TypeOK, NEW c \in Conns, NEW s \in Sessions, NEW cmd, Do(cmd, s),
         conns[c].state = "open", conns[c].session \in {s, NoSession},
         sess[s].kind = "realtime", UNCHANGED <<registry, conns>>
  PROVE  Revive(c) \/ UNCHANGED sess
<1>1. UNCHANGED sess \/ sess' = Unended(s)
  BY DEF Do, DoInitialize, DoReset, DoPause, InitializeWith
<1>2. ASSUME sess' = Unended(s), ~sess[s].terminated PROVE UNCHANGED sess
  <2>1. sess \in [Sessions -> Session] /\ sess[s] \in Session
    BY DEF TypeOK
  <2>2. sess[s].terminated = FALSE
    BY <1>2, <2>1 DEF Session
  <2>3. [sess[s] EXCEPT !.terminated = FALSE] = sess[s]
    BY <2>1, <2>2 DEF Session
  <2>4. sess' = [sess EXCEPT ![s] = [sess[s] EXCEPT !.terminated = FALSE]]
    BY <1>2 DEF Unended
  <2> QED
    BY <2>1, <2>3, <2>4
<1>3. ASSUME sess' = Unended(s), sess[s].terminated PROVE Revive(c)
  BY <1>3 DEF Revive, Unended
<1> QED
  BY <1>1, <1>2, <1>3

----------------------------------------------------------------------------
(* What a step does: one lemma per group of actions                        *)

\* The tasks that a connection has suspended afterwards
Suspended(d) ==
  /\ runner'[d] # "idle" => conns'[d].state = "open" /\ pending'[d] = NoCommand
  /\ pending'[d] # NoCommand =>
       /\ conns'[d].state = "open"
       /\ pending'[d].on \in Sessions
       /\ sess[pending'[d].on].kind = "realtime"
       /\ conns'[d].session \in {pending'[d].on, NoSession}

TaskTypes ==
  /\ runner \in [Conns -> Runner]
  /\ pending \in [Conns -> [cmd: {"none", "initialize", "pause", "reset"},
                            on: Sessions \cup {NoSession}]]

Outcome ==
  /\ [Next]_vars
  /\ SimFates
  /\ TaskTypes'
  /\ \A d \in Conns : Suspended(d)

LEMMA InvParts ==
  ASSUME RealtimeInv
  PROVE  /\ TypeOK /\ SimType /\ TaskTypes
         /\ \A s \in Sessions : SimInv(s)
         /\ \A c \in Conns : ConnInv(c) /\ PendingInv(c)
         /\ \A c \in Conns :
              runner[c] # "idle" =>
                conns[c].state = "open" /\ pending[c] = NoCommand
BY DEF RealtimeInv, RegistryInv, SimType, TaskTypes, RunnersHaveAConnection

\* Handlers that nothing happens to, or whose session has expired
LEMMA OthersStaySuspended ==
  ASSUME RealtimeInv, NEW d \in Conns,
         conns[d].state = "open" =>
           /\ conns'[d].state = "open"
           /\ conns'[d].session \in {conns[d].session, NoSession},
         runner'[d] = runner[d], pending'[d] = pending[d]
  PROVE  Suspended(d)
BY InvParts DEF PendingInv, Suspended

\* A connection that reads commands has a realtime session
LEMMA ReadingFacts ==
  ASSUME RealtimeInv, NEW c \in Conns, Reading(c)
  PROVE  /\ conns[c].state = "open" /\ pending[c] = NoCommand
         /\ conns[c].session \in Sessions
         /\ sess[conns[c].session].kind = "realtime"
BY InvParts DEF Reading, CommandAllowed, TypeOK, Conn, ConnInv

LEMMA CommandOutcome ==
  ASSUME RealtimeInv, NEW c \in Conns, CommandStep(c), up, UNCHANGED up
  PROVE  Outcome
<1>1. /\ TypeOK /\ SimType /\ TaskTypes
      /\ \A s \in Sessions : SimInv(s)
  BY InvParts
<1>2. ASSUME NEW s \in Sessions, sess[s].kind = "realtime", NEW cmd,
             Do(cmd, s), conns[c].state = "open",
             conns[c].session \in {s, NoSession},
             UNCHANGED <<registry, conns, runner>>,
             UNCHANGED pending \/ pending' = [pending EXCEPT ![c] = NoCommand]
      PROVE  Outcome
  <2>1. [Next]_vars
    <3>1. Revive(c) \/ UNCHANGED sess
      BY <1>1, <1>2, DoRevives
    <3> QED
      BY <1>2, <3>1 DEF Next, Serve, ConnStep, vars
  <2>2. SimFates
    BY <1>1, <1>2, DoFate
  <2>3. /\ TaskTypes'
        /\ \A d \in Conns : pending'[d] \in {pending[d], NoCommand}
    BY <1>1, <1>2 DEF TaskTypes, NoCommand
  <2>4. \A d \in Conns : Suspended(d)
    BY <1>2, <2>3, InvParts DEF Suspended, PendingInv
  <2> QED
    BY <2>1, <2>2, <2>3, <2>4 DEF Outcome
<1>3. CASE CommandAtOnce(c)
  BY <1>2, <1>3, ReadingFacts DEF CommandAtOnce
<1>4. CASE CommandContinues(c)
  BY <1>2, <1>4, InvParts DEF CommandContinues, PendingInv
<1>5. CASE CommandAfterRunner(c)
  <2>1. PICK cmd \in {"initialize", "pause", "reset"} :
          pending' = [pending EXCEPT ![c] =
                        [cmd |-> cmd, on |-> conns[c].session]]
    BY <1>5 DEF CommandAfterRunner
  <2>2. runner' = [runner EXCEPT ![c] = "idle"]
        /\ UNCHANGED <<registry, sess, conns, sim>>
    BY <1>5 DEF CommandAfterRunner
  <2>3. /\ conns[c].state = "open" /\ conns[c].session \in Sessions
        /\ sess[conns[c].session].kind = "realtime"
    BY <1>5, ReadingFacts DEF CommandAfterRunner
  <2>4. /\ TaskTypes'
        /\ runner'[c] = "idle" /\ pending'[c].on = conns[c].session
        /\ \A d \in Conns \ {c} : runner'[d] = runner[d] /\ pending'[d] = pending[d]
    BY <1>1, <2>1, <2>2, <2>3 DEF TaskTypes, Runner
  <2>5. Suspended(c)
    BY <2>2, <2>3, <2>4 DEF Suspended
  <2>6. \A d \in Conns \ {c} : Suspended(d)
    BY <2>2, <2>4, OthersStaySuspended
  <2>7. SimFates
    BY <1>1, <2>2, SameFate
  <2> QED
    BY <2>2, <2>4, <2>5, <2>6, <2>7 DEF Outcome, vars
<1>6. CASE StartRunning(c)
  <2>1. /\ conns[c].state = "open" /\ pending[c] = NoCommand
        /\ conns[c].session \in Sessions
    BY <1>6, ReadingFacts DEF StartRunning
  <2>2. UNCHANGED <<registry, sess, conns, pending>>
    BY <1>6 DEF StartRunning
  <2>3. SimFates
    BY <1>1, <1>6, <2>1, MarkFate DEF StartRunning
  <2>4. TaskTypes' /\ \A d \in Conns \ {c} : runner'[d] = runner[d]
    BY <1>1, <1>6, <2>2 DEF StartRunning, TaskTypes, Runner
  <2>5. Suspended(c)
    BY <2>1, <2>2 DEF Suspended
  <2>6. \A d \in Conns \ {c} : Suspended(d)
    BY <2>2, <2>4, OthersStaySuspended
  <2> QED
    BY <2>2, <2>3, <2>4, <2>5, <2>6 DEF Outcome, vars
<1>7. CASE StepCommand(c)
  <2>1. conns[c].session \in Sessions
    BY <1>7, ReadingFacts DEF StepCommand
  <2>2. UNCHANGED <<registry, sess, conns, runner, pending>>
    BY <1>7 DEF StepCommand
  <2>3. SimFates
    <3> DEFINE t == conns[c].session
    <3>1. /\ sim[t].state # "paused"
          /\ \E n \in 0..MaxTime : sim[t].time + n <= MaxTime /\ Stepped(t, n, FALSE)
      BY <1>7 DEF StepCommand, MayStep
    <3>2. t \in Sessions
      BY <2>1
    <3> HIDE DEF t
    <3>3. PICK n \in 0..MaxTime : sim[t].time + n <= MaxTime /\ Stepped(t, n, FALSE)
      BY <3>1
    <3>4. n \in Nat
      BY RealtimeAssumption DEF RealtimeAssumption
    <3> QED
      BY <1>1, <2>2, <3>1, <3>2, <3>3, <3>4, StepFate
  <2>4. TaskTypes'
    BY <1>1, <2>2 DEF TaskTypes
  <2>5. \A d \in Conns : Suspended(d)
    BY <2>2, OthersStaySuspended
  <2> QED
    BY <2>2, <2>3, <2>4, <2>5 DEF Outcome, vars
<1> QED
  BY <1>3, <1>4, <1>5, <1>6, <1>7 DEF CommandStep

\* The runner task touches its session's simulation and nothing else
LEMMA RunnerOutcome ==
  ASSUME RealtimeInv, NEW c \in Conns, RunnerStep(c), up, UNCHANGED up
  PROVE  Outcome
<1> USE DEF RunnerTo
<1>1. /\ TypeOK /\ SimType /\ TaskTypes
      /\ runner[c] # "idle"
      /\ conns[c].state = "open" /\ pending[c] = NoCommand
      /\ UNCHANGED <<registry, sess, conns, pending>>
  BY InvParts DEF RunnerStep, RunnerLeaves, RunnerSteps, SendReturns,
     RunnerFails, RunnerEnds
<1>2. Mine(c) # NoSession => Mine(c) \in Sessions
  BY <1>1 DEF Mine, TypeOK, Conn
<1>3. \E where \in Runner : runner' = [runner EXCEPT ![c] = where]
  <2>1. {"idle", "due", "sent", "stopping", "failing"} = Runner
    BY DEF Runner
  <2> QED
    BY <2>1 DEF RunnerStep, RunnerLeaves, RunnerSteps, SendReturns,
       RunnerFails, RunnerEnds
<1>4. TaskTypes' /\ \A d \in Conns \ {c} : runner'[d] = runner[d]
  BY <1>1, <1>3 DEF TaskTypes
<1>5. \A d \in Conns : Suspended(d)
  <2>1. Suspended(c)
    BY <1>1 DEF Suspended
  <2>2. \A d \in Conns \ {c} : Suspended(d)
    BY <1>1, <1>4, OthersStaySuspended
  <2> QED
    BY <2>1, <2>2
<1>6. SimFates
  <2>1. CASE RunnerLeaves(c) \/ RunnerEnds(c)
    BY <1>1, <2>1, SameFate DEF RunnerLeaves, RunnerEnds
  <2>2. CASE RunnerSteps(c)
    <3>1. /\ Mine(c) \in Sessions /\ sim[Mine(c)].state = "running"
          /\ sim[Mine(c)].time < MaxTime
          /\ Stepped(Mine(c), 1, sim[Mine(c)].held)
      BY <1>2, <2>2 DEF RunnerSteps, Wanted
    <3>2. sim[Mine(c)].time + 1 <= MaxTime
      BY <1>1, <3>1, RealtimeAssumption DEF RealtimeAssumption, SimType, Sim
    <3>3. sim[Mine(c)].held \in BOOLEAN
      BY <1>1, <3>1 DEF SimType, Sim
    <3> QED
      BY <1>1, <3>1, <3>2, <3>3, StepFate DEF Quiet
  <2>3. CASE SendReturns(c)
    <3>1. CASE Mine(c) # NoSession /\ AtStop(Mine(c))
      BY <1>1, <1>2, <2>3, <3>1, MarkFate DEF SendReturns, AtStop, SimType, Sim
    <3>2. CASE ~(Mine(c) # NoSession /\ AtStop(Mine(c)))
      BY <1>1, <2>3, <3>2, SameFate DEF SendReturns
    <3> QED
      BY <3>1, <3>2
  <2>4. CASE RunnerFails(c)
    <3>1. CASE Mine(c) # NoSession /\ ~sess[Mine(c)].terminated
      BY <1>1, <1>2, <2>4, <3>1, MarkFate DEF RunnerFails, SimType, Sim
    <3>2. CASE ~(Mine(c) # NoSession /\ ~sess[Mine(c)].terminated)
      BY <1>1, <2>4, <3>2, SameFate DEF RunnerFails
    <3> QED
      BY <3>1, <3>2
  <2> QED
    BY <2>1, <2>2, <2>3, <2>4 DEF RunnerStep
<1> QED
  BY <1>1, <1>4, <1>5, <1>6 DEF Outcome, vars

\* Messages that create, attach or refuse: of a connection that awaits no
\* command, whose runner, if it has one, goes on
LEMMA BindOutcome ==
  ASSUME RealtimeInv, NEW c \in Conns, BindStep(c), up, UNCHANGED up
  PROVE  Outcome
<1>1. TypeOK /\ SimType /\ TaskTypes
  BY InvParts
<1>2. PICK s \in Sessions : \/ CreateSession(c, s) \/ CreateFails(c, s)
                            \/ AttachSession(c, s) \/ AttachTooLate(c, s)
  BY DEF BindStep
<1>3. /\ pending[c] = NoCommand /\ sim' = AfterEnds
      /\ UNCHANGED <<runner, pending>>
  BY DEF BindStep
<1>4. /\ conns'[c].state = "open"
      /\ \A d \in Conns \ {c} : conns'[d] = conns[d]
  <2>1. conns \in [Conns -> Conn] /\ conns[c] \in Conn /\ conns[c].state = "open"
    BY <1>1, <1>2
    DEF TypeOK, CreateSession, CreateFails, AttachSession, AttachTooLate
  <2>2. CASE UNCHANGED conns
    BY <2>1, <2>2
  <2>3. ASSUME NEW x, conns' = [conns EXCEPT ![c].session = s, ![c].expiry = x]
        PROVE  /\ conns'[c].state = "open"
               /\ \A d \in Conns \ {c} : conns'[d] = conns[d]
    BY <2>1, <2>3 DEF Conn
  <2> QED
    BY <1>2, <2>2, <2>3
    DEF CreateSession, CreateFails, AttachSession, AttachTooLate
<1>5. Suspended(c)
  BY <1>3, <1>4 DEF Suspended
<1>6. \A d \in Conns \ {c} : Suspended(d)
  BY <1>3, <1>4, OthersStaySuspended
<1>7. [Next]_vars
  BY <1>2 DEF Next, Serve, ConnStep
<1> QED
  BY <1>1, <1>3, <1>5, <1>6, <1>7, AfterEndsFate DEF Outcome, TaskTypes

\* session.terminate and a lost websocket: the runner is cancelled
LEMMA LeaveOutcome ==
  ASSUME RealtimeInv, NEW c \in Conns, LeaveStep(c), up, UNCHANGED up
  PROVE  Outcome
<1>1. TypeOK /\ SimType /\ TaskTypes
  BY InvParts
<1>2. /\ pending[c] = NoCommand /\ sim' = AfterEnds
      /\ BeginTerminate(c) \/ Disconnect(c)
      /\ runner' = [runner EXCEPT ![c] = "idle"] /\ UNCHANGED pending
  BY DEF LeaveStep, RunnerCancelled, RunnerTo
<1>3. \A d \in Conns \ {c} : conns'[d] = conns[d]
  BY <1>1, <1>2 DEF TypeOK, BeginTerminate, Disconnect
<1>4. /\ TaskTypes'
      /\ runner'[c] = "idle" /\ \A d \in Conns \ {c} : runner'[d] = runner[d]
  BY <1>1, <1>2 DEF TaskTypes, Runner
<1>5. Suspended(c)
  BY <1>2, <1>4 DEF Suspended
<1>6. \A d \in Conns \ {c} : Suspended(d)
  BY <1>2, <1>3, <1>4, OthersStaySuspended
<1>7. [Next]_vars
  BY <1>2 DEF Next, Serve, ConnStep
<1> QED
  BY <1>1, <1>2, <1>4, <1>5, <1>6, <1>7, AfterEndsFate DEF Outcome

\* What goes on meanwhile leaves open connections open; an expiry may take
\* their session away
LEMMA BackgroundOutcome ==
  ASSUME RealtimeInv, BackgroundStep, up, UNCHANGED up
  PROVE  Outcome
<1>1. TypeOK /\ SimType /\ TaskTypes
  BY InvParts
<1>2. sim' = AfterEnds /\ UNCHANGED <<runner, pending>>
  BY DEF BackgroundStep
<1>3. [Next]_vars
  BY DEF BackgroundStep, Next, Serve, ConnStep
<1>4. ASSUME NEW d \in Conns, conns[d].state = "open"
      PROVE  /\ conns'[d].state = "open"
             /\ conns'[d].session \in {conns[d].session, NoSession}
  <2> DEFINE StaysOpen == /\ conns'[d].state = "open"
                          /\ conns'[d].session \in {conns[d].session, NoSession}
  <2>1. ASSUME NEW c \in Conns, Expire(c)
        PROVE  StaysOpen
    BY <1>1, <1>4, <2>1 DEF TypeOK, Conn, Expire
  <2>2. ASSUME NEW c \in Conns,
               Connect(c) \/ EndTerminate(c) \/ CancelExpiry(c) \/ Detach(c)
        PROVE  StaysOpen
    BY <1>1, <1>4, <2>2
    DEF TypeOK, Connect, EndTerminate, CancelExpiry, Detach
  <2>3. ASSUME UNCHANGED conns PROVE StaysOpen
    BY <1>4, <2>3
  <2> QED
    BY <2>1, <2>2, <2>3 DEF BackgroundStep, RunStep, ReserveSlot, StartStream,
       AbandonStream, FinishRun, Collect, Sweep, Tick
<1>5. \A d \in Conns : Suspended(d)
  BY <1>2, <1>4, OthersStaySuspended
<1> QED
  BY <1>1, <1>2, <1>3, <1>5, AfterEndsFate DEF Outcome, TaskTypes

LEMMA RestartOutcome ==
  ASSUME RealtimeInv,
         \/ RealtimeShutdown
         \/ Startup /\ UNCHANGED <<sim, runner, pending>>
  PROVE  Outcome
<1>1. TypeOK /\ SimType /\ TaskTypes
  BY InvParts
<1>2. CASE RealtimeShutdown
  <2>1. /\ Shutdown /\ sim' = AfterEnds
        /\ runner' = [c \in Conns |-> "idle"]
        /\ pending' = [c \in Conns |-> NoCommand]
    BY <1>2 DEF RealtimeShutdown
  <2>2. TaskTypes' /\ \A d \in Conns : Suspended(d)
    BY <2>1 DEF TaskTypes, Runner, NoCommand, Suspended
  <2> QED
    BY <1>1, <2>1, <2>2, AfterEndsFate DEF Outcome, Next
<1>3. CASE Startup /\ UNCHANGED <<sim, runner, pending>>
  <2>1. UNCHANGED <<registry, sess, conns, sim, runner, pending>>
    BY <1>3 DEF Startup
  <2>2. \A d \in Conns : Suspended(d)
    BY <2>1, OthersStaySuspended
  <2> QED
    BY <1>1, <1>3, <2>1, <2>2, SameFate DEF Outcome, Next, TaskTypes
<1> QED
  BY <1>2, <1>3

LEMMA StepOutcome == ASSUME RealtimeInv, [RealtimeNext]_rtVars PROVE Outcome
<1>1. CASE up /\ RealtimeServe /\ UNCHANGED up
  BY <1>1, BindOutcome, LeaveOutcome, CommandOutcome, RunnerOutcome,
     BackgroundOutcome DEF RealtimeServe
<1>2. CASE UNCHANGED rtVars
  <2>1. UNCHANGED <<vars, sess, conns, sim, runner, pending>>
    BY <1>2 DEF rtVars, vars
  <2>2. \A d \in Conns : Suspended(d)
    BY <2>1, OthersStaySuspended
  <2> QED
    BY <2>1, <2>2, SameFate, InvParts DEF Outcome, TaskTypes
<1> QED
  BY <1>1, <1>2, RestartOutcome DEF RealtimeNext

----------------------------------------------------------------------------
(* The theorems                                                            *)

LEMMA RealtimeInvStep ==
  RealtimeInv /\ [RealtimeNext]_rtVars => RealtimeInv' /\ [Next]_vars
<1> SUFFICES ASSUME RealtimeInv, [RealtimeNext]_rtVars
             PROVE  RealtimeInv' /\ [Next]_vars
  OBVIOUS
<1>1. /\ [Next]_vars /\ SimFates /\ TaskTypes'
      /\ \A d \in Conns : Suspended(d)
  BY StepOutcome DEF Outcome
<1>2. RegistryInv' /\ WorkInv'
  BY <1>1, WorkInvStep DEF RealtimeInv
<1>3. \A s \in Sessions :
        sess[s].kind = "realtime" => sess'[s].kind = "realtime"
  BY <1>1, SessionFate DEF RealtimeInv, Fate, Untouched, GivenUp, Born, TakenBy,
     DroppedBy
<1>4. \A c \in Conns : PendingInv(c)'
  BY <1>1, <1>3 DEF PendingInv, Suspended
<1>5. RunnersHaveAConnection'
  BY <1>1 DEF RunnersHaveAConnection, Suspended
<1>6. SimType'
  BY <1>1 DEF SimType, SimFates, TaskTypes
<1>7. ASSUME NEW s \in Sessions PROVE SimInv(s)'
  <2>1. SimInv(s) /\ SimFate(s)
    BY <1>1 DEF RealtimeInv, SimFates
  <2> QED
    BY <2>1 DEF SimInv, SimFate, Kept, Lost, Fresh, Altered, Moved, Steady,
                Quiet
<1> QED
  BY <1>1, <1>2, <1>4, <1>5, <1>6, <1>7 DEF RealtimeInv

LEMMA RealtimeInvariant == RealtimeSpec => []RealtimeInv
  BY RealtimeInvInit, RealtimeInvStep, PTL DEF RealtimeSpec

\* The composition does to the registry only what FmuRegistry allows: an
\* initialize that revives an ended session is all that a command adds
THEOREM ImplementsTheRegistry == RealtimeSpec => ImplementsRegistry
<1>1. RealtimeInit => Init
  BY DEF RealtimeInit
<1> QED
  BY <1>1, RealtimeInvStep, RealtimeInvariant, PTL
  DEF RealtimeSpec, ImplementsRegistry, Spec

\* ... so that its sessions, too, have one holder each, dropped only when its
\* client is gone, and never come back once removed
THEOREM RealtimeKeepsTheLease == RealtimeSpec => ImplementsLease
  BY ImplementsTheRegistry, ImplementsTheLease DEF ImplementsRegistry

\* Sessions, runner tasks and suspended commands are well typed
THEOREM RealtimeTypeCorrect == RealtimeSpec => []RealtimeTypeOK
<1>1. RealtimeInv => RealtimeTypeOK
  BY DEF RealtimeInv, RegistryInv, SimType, RealtimeTypeOK
<1> QED
  BY <1>1, RealtimeInvariant, PTL

\* The native instance is entered only while it exists: a session is ready
\* exactly when it has an initialized FMU, and none is when it is ended
\* (FmuSession.initialize, _release_fmu, terminate)
THEOREM InstanceIsUsable == RealtimeSpec => []ReadyMeansUsable
<1>1. RealtimeInv => ReadyMeansUsable
  BY DEF RealtimeInv, SimInv, ReadyMeansUsable
<1> QED
  BY <1>1, RealtimeInvariant, PTL

\* A session is reported as stopped only when it has come to its stop time,
\* though it may have been reset while the runner was sending (_run_session)
THEOREM StopsAtStopTime == RealtimeSpec => []StoppedIsAtStop
<1>1. RealtimeInv => StoppedIsAtStop
  BY DEF RealtimeInv, SimInv, StoppedIsAtStop, Live
<1> QED
  BY <1>1, RealtimeInvariant, PTL

\* A runner task does not outlive its connection, nor run while a command
\* waits for its end (_stop_runner)
THEOREM RunnersAreHeld == RealtimeSpec => []RunnersHaveAConnection
<1>1. RealtimeInv => RunnersHaveAConnection
  BY DEF RealtimeInv
<1> QED
  BY <1>1, RealtimeInvariant, PTL

\* The time of a session that was paused, and that nobody has resumed, reset or
\* stepped since, stands still, with any number of other connections' runners
\* asleep or in a send; only when one of these has stopped it or set it in
\* error can it be stepped by hand (FmuSession.pause, step, _run_session)
THEOREM PausesAreKept == RealtimeSpec => PauseIsKept
<1>1. RealtimeInv /\ [RealtimeNext]_rtVars
        => [\A s \in Sessions :
              /\ sim[s].held /\ sim[s].ready /\ sim'[s].ready
              /\ sim'[s].time # sim[s].time
              => \/ sim'[s].state = "initialized"
                 \/ ~sim'[s].held /\ sim[s].state \in {"stopped", "error"}]_rtVars
  <2> SUFFICES ASSUME RealtimeInv, [RealtimeNext]_rtVars, NEW s \in Sessions,
                      sim[s].held, sim'[s].ready, sim'[s].time # sim[s].time
               PROVE  \/ sim'[s].state = "initialized"
                      \/ ~sim'[s].held /\ sim[s].state \in {"stopped", "error"}
    OBVIOUS
  <2>1. SimFate(s)
    BY StepOutcome DEF Outcome, SimFates
  <2>2. Quiet(sim[s])
    BY InvParts DEF SimInv
  <2> QED
    BY <2>1, <2>2 DEF SimFate, Kept, Lost, Fresh, Altered, Moved, Quiet
<1> QED
  BY <1>1, RealtimeInvariant, PTL DEF RealtimeSpec, PauseIsKept

----------------------------------------------------------------------------
(* What it takes to lose an instance                                       *)

\* No initialize fails after it has stored its new instance
NoSetUpFails == \A s \in Sessions : sim'[s].fmu = "half" => sim[s].fmu = "half"

\* "Once the grace window expires, the FMU state and temporary files are
\* cleaned up": they are, as long as no set-up fails.  That initialize() stores
\* an instance before it is set up is the only way to the violation of
\* InstancesAreFreed.
THEOREM OnlyFailedSetUpsLeak ==
  RealtimeSpec /\ [][NoSetUpFails]_rtVars => []InstancesAreFreed
<1> DEFINE NoneHalf == \A s \in Sessions : sim[s].fmu # "half" /\ ~sim[s].leaked
<1>1. RealtimeInit => NoneHalf
  BY DEF RealtimeInit
<1>2. RealtimeInv /\ NoneHalf /\ [RealtimeNext]_rtVars /\ [NoSetUpFails]_rtVars
        => NoneHalf'
  <2> SUFFICES ASSUME RealtimeInv, NoneHalf, [RealtimeNext]_rtVars,
                      [NoSetUpFails]_rtVars, NEW s \in Sessions
               PROVE  sim'[s].fmu # "half" /\ ~sim'[s].leaked
    OBVIOUS
  <2>1. Accounted(s)
    BY StepOutcome DEF Outcome, SimFates, SimFate
  <2>2. sim'[s].fmu = "half" => sim[s].fmu = "half"
    BY DEF NoSetUpFails, rtVars
  <2> QED
    BY <2>1, <2>2 DEF Accounted
<1>3. RealtimeInv /\ NoneHalf => InstancesAreFreed
  BY DEF RealtimeInv, SimType, Sim, SimInv, InstancesAreFreed
<1> HIDE DEF NoneHalf
<1> QED
  BY <1>1, <1>2, <1>3, RealtimeInvariant, PTL DEF RealtimeSpec

=============================================================================
