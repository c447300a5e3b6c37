---------------------------- MODULE FmuRegistry ----------------------------
(***************************************************************************)
(* The FMU executor's session registry (fmu-executor/app/engine.py) and    *)
(* the websocket connections that hold its sessions (app/main.py): who may *)
(* use a session, when it is given up, and how many FMUs run at once.      *)
(*                                                                         *)
(* The service is one asyncio thread, so whatever runs between two awaits  *)
(* is one step here.  A stream's generator and a one-shot worker run       *)
(* outside that thread; only their effect on the registry is modelled.     *)
(*                                                                         *)
(* Wall-clock deadlines are kept as the time left: `ttl` is expires_at     *)
(* minus now and `grace` is _attach_deadline minus now, so Tick counts     *)
(* both down, zero means passed and NoTimer stands for None.               *)
(***************************************************************************)
EXTENDS Integers, FiniteSets

CONSTANTS
  Sessions,     \* session objects; create_session never reuses an identifier
  Conns,        \* websocket connections
  MaxSessions,  \* config.MAX_CONCURRENT_SESSIONS
  Grace,        \* config.FMU_ATTACH_GRACE_SECONDS, in ticks
  MaxTTL,       \* bound on the lifetime a reservation's exp claim grants
  NoSession,    \* a connection's session is None
  NoConn        \* a session's _attachment_owner is None

ASSUME RegistryAssumption ==
  /\ IsFiniteSet(Sessions)
  /\ MaxSessions \in Nat
  /\ Grace \in Nat
  /\ MaxTTL \in Nat \ {0}
  /\ NoSession \notin Sessions
  /\ NoConn \notin Conns

VARIABLES
  up,        \* the sidecar process serves requests
  registry,  \* the keys of engine._sessions
  sess,      \* the FmuSession objects
  conns      \* the local state of each ws_sessions coroutine

vars == <<up, registry, sess, conns>>

NoTimer == -1

Timer(bound) == {NoTimer} \cup 0..bound

\* kind: not constructed yet, a realtime session, or the capacity slot of a
\* one-shot or streamed run.  work: the run a slot was reserved for.
Session ==
  [kind: {"unborn", "realtime", "slot"},
   terminated: BOOLEAN,
   attached: BOOLEAN,
   grace: Timer(Grace),
   ttl: Timer(MaxTTL),
   owner: Conns \cup {NoConn},
   work: {"none", "pending", "running", "done"}]

\* state: "terminating" is a session.terminate command awaiting its runner,
\* "closing" and "detaching" are the finally block before and after the
\* expiry task is cancelled.  expiry: the session the expiry task waits for.
Conn ==
  [state: {"down", "open", "terminating", "closing", "detaching"},
   session: Sessions \cup {NoSession},
   expiry: Sessions \cup {NoSession}]

TypeOK ==
  /\ up \in BOOLEAN
  /\ registry \subseteq Sessions
  /\ sess \in [Sessions -> Session]
  /\ conns \in [Conns -> Conn]

Unborn == [kind |-> "unborn", terminated |-> FALSE, attached |-> FALSE,
           grace |-> NoTimer, ttl |-> NoTimer, owner |-> NoConn,
           work |-> "none"]

Down == [state |-> "down", session |-> NoSession, expiry |-> NoSession]

Init ==
  /\ up = TRUE
  /\ registry = {}
  /\ sess = [s \in Sessions |-> Unborn]
  /\ conns = [c \in Conns |-> Down]

----------------------------------------------------------------------------
(* FmuSession and the registry's functions                                 *)

\* Operators marked "Faulty variant" are no part of the specification: each is
\* a plausible mistake in the operator after it, and shows that a property can
\* fail.

\* Faulty variant: a session that was never attached counts as attachable
CanAttachNeverHeld(s) ==
  /\ ~sess[s].terminated
  /\ sess[s].ttl # 0
  /\ sess[s].grace # 0

\* FmuSession.can_attach
CanAttach(s) ==
  /\ ~sess[s].terminated
  /\ sess[s].attached \/ sess[s].grace # NoTimer
  /\ sess[s].ttl # 0
  /\ sess[s].grace # 0

\* Faulty variant: the attachment survives terminate()
EndedStillAttached(r) == [r EXCEPT !.terminated = TRUE, !.grace = NoTimer]

\* FmuSession.terminate, on the fields this module keeps
Ended(r) ==
  IF r.terminated THEN r
  ELSE [r EXCEPT !.terminated = TRUE, !.attached = FALSE,
                 !.grace = NoTimer, !.owner = NoConn]

\* FmuSession.mark_attached
MarkAttached(r, c) ==
  [r EXCEPT !.attached = TRUE, !.grace = NoTimer, !.owner = c]

\* Faulty variant: any connection's cleanup detaches
MarkDetachedByAnyone(r, c) ==
  IF r.terminated THEN r
  ELSE [r EXCEPT !.attached = FALSE, !.grace = Grace, !.owner = NoConn]

\* FmuSession.mark_detached: a connection that is no longer the owner
\* changes nothing
MarkDetached(r, c) ==
  IF r.owner # c \/ r.terminated THEN r
  ELSE [r EXCEPT !.attached = FALSE, !.grace = Grace, !.owner = NoConn]

\* Faulty variants: every detached session, or only what has expired
StaleWithoutGrace == {s \in registry : ~sess[s].attached}
StaleWhenExpired == {s \in registry : ~sess[s].attached /\ sess[s].ttl = 0}

\* What cleanup_expired_sessions removes
Stale == {s \in registry : ~sess[s].attached /\ ~CanAttach(s)}

\* remove_session, for each registered session of a set
Remove(S) ==
  /\ registry' = registry \ S
  /\ sess' = [s \in Sessions |->
                IF s \in S \cap registry THEN Ended(sess[s]) ELSE sess[s]]

\* Faulty variant: off by one
HasOneTooMany == Cardinality(registry \ Stale) <= MaxSessions

\* create_session clears the stale entries, then looks for a free slot
HasFreeSlot == Cardinality(registry \ Stale) < MaxSessions

\* create_session with the fields of the new object
Register(s, r) ==
  /\ sess[s].kind = "unborn"
  /\ HasFreeSlot
  /\ registry' = (registry \ Stale) \cup {s}
  /\ sess' = [t \in Sessions |-> IF t = s THEN r
                                 ELSE IF t \in Stale THEN Ended(sess[t])
                                 ELSE sess[t]]

\* cleanup_expired_sessions on its own: the one-second loop, the health and
\* capacity requests, and a create_session that finds no free slot
Sweep ==
  /\ Stale # {}
  /\ Remove(Stale)
  /\ UNCHANGED conns

----------------------------------------------------------------------------
(* One-shot and streamed runs                                              *)

Slot(work) == [Unborn EXCEPT !.kind = "slot", !.work = work]

\* run_simulation reserves a slot and awaits the worker; stream_simulation
\* reserves one for a generator that starts when the response is sent
ReserveSlot(s) ==
  /\ \E work \in {"pending", "running"} : Register(s, Slot(work))
  /\ UNCHANGED conns

\* The response's first read starts the generator, whatever became of the
\* slot meanwhile
StartStream(s) ==
  /\ sess[s].work = "pending"
  /\ sess' = [sess EXCEPT ![s].work = "running"]
  /\ UNCHANGED <<registry, conns>>

\* The client leaves before the first read: the generator never starts, so
\* neither does its finally block
AbandonStream(s) ==
  /\ sess[s].work = "pending"
  /\ sess' = [sess EXCEPT ![s].work = "done"]
  /\ UNCHANGED <<registry, conns>>

\* The run ends or fails, and the finally block gives the slot back
FinishRun(s) ==
  /\ sess[s].work = "running"
  /\ registry' = registry \ {s}
  /\ sess' = [sess EXCEPT ![s] =
                [(IF s \in registry THEN Ended(@) ELSE @)
                   EXCEPT !.work = "done"]]
  /\ UNCHANGED conns

----------------------------------------------------------------------------
(* Connections                                                             *)

Connect(c) ==
  /\ conns[c].state = "down"
  /\ conns' = [conns EXCEPT ![c].state = "open"]
  /\ UNCHANGED <<registry, sess>>

\* Faulty variant: attaching does not start the expiry task again
NoExpiryTarget(s, ttl) == NoSession

ExpiryTarget(s, ttl) == IF ttl = NoTimer THEN NoSession ELSE s

\* session.create: validate_gateway_context has refused an exp already past;
\* create_session, load, mark_attached and the start of the expiry task run
\* without an await between them
CreateSession(c, s) ==
  /\ conns[c].state = "open"
  /\ conns[c].session = NoSession
  /\ \E ttl \in Timer(MaxTTL) \ {0} :
       /\ Register(s, MarkAttached([Unborn EXCEPT !.kind = "realtime",
                                                  !.ttl = ttl], c))
       /\ conns' = [conns EXCEPT ![c].session = s,
                                 ![c].expiry = ExpiryTarget(s, ttl)]

\* session.create whose load() raises: the session is registered, nobody
\* holds it
CreateFails(c, s) ==
  /\ conns[c].state = "open"
  /\ conns[c].session = NoSession
  /\ \E ttl \in Timer(MaxTTL) \ {0} :
       Register(s, [Unborn EXCEPT !.kind = "realtime", !.ttl = ttl])
  /\ UNCHANGED conns

\* session.attach with a context that matches the session's: by a connection
\* that has no session or this one, and whether or not another holds it
AttachSession(c, s) ==
  /\ conns[c].state = "open"
  /\ conns[c].session \in {NoSession, s}
  /\ s \in registry
  /\ sess[s].kind = "realtime"
  /\ CanAttach(s)
  /\ sess' = [sess EXCEPT ![s] = MarkAttached(@, c)]
  /\ conns' = [conns EXCEPT ![c].session = s,
                            ![c].expiry = ExpiryTarget(s, sess[s].ttl)]
  /\ UNCHANGED registry

\* session.attach finds the session past its deadlines and removes it
AttachTooLate(c, s) ==
  /\ conns[c].state = "open"
  /\ conns[c].session \in {NoSession, s}
  /\ s \in registry
  /\ sess[s].kind = "realtime"
  /\ ~CanAttach(s)
  /\ Remove({s})
  /\ UNCHANGED conns

\* The context captured at creation is validated again for every command
CommandAllowed(c) ==
  /\ conns[c].state = "open"
  /\ conns[c].session # NoSession
  /\ sess[conns[c].session].ttl # 0

\* sim.initialize succeeds on a session that another connection has ended, or
\* this one's expiry task while the command awaited the runner: initialize()
\* clears _terminated
Revive(c) ==
  /\ conns[c].state = "open"
  /\ \E s \in Sessions :
       /\ conns[c].session \in {s, NoSession}
       /\ sess[s].kind = "realtime" /\ sess[s].terminated
       /\ sess' = [sess EXCEPT ![s].terminated = FALSE]
  /\ UNCHANGED <<registry, conns>>

\* session.terminate ends the session, then awaits the connection's runner
BeginTerminate(c) ==
  /\ CommandAllowed(c)
  /\ sess' = [sess EXCEPT ![conns[c].session] = Ended(@)]
  /\ conns' = [conns EXCEPT ![c].state = "terminating"]
  /\ UNCHANGED registry

\* ... and then removes it; the expiry task may have dropped it meanwhile
EndTerminate(c) ==
  /\ conns[c].state = "terminating"
  /\ Remove({conns[c].session})
  /\ conns' = [conns EXCEPT ![c] = [Down EXCEPT !.state = "open"]]

\* The expiry task wakes at the deadline; it leaves alone a session the
\* connection no longer has or that is already terminated
Expire(c) ==
  LET s == conns[c].expiry IN
  /\ s # NoSession
  /\ sess[s].ttl = 0
  /\ IF conns[c].session # s \/ sess[s].terminated
     THEN /\ conns' = [conns EXCEPT ![c].expiry = NoSession]
          /\ UNCHANGED <<registry, sess>>
     ELSE /\ Remove({s})
          /\ conns' = [conns EXCEPT ![c].session = NoSession,
                                    ![c].expiry = NoSession]

\* The websocket drops; the finally block awaits the runner first
Disconnect(c) ==
  /\ conns[c].state = "open"
  /\ conns' = [conns EXCEPT ![c].state = "closing"]
  /\ UNCHANGED <<registry, sess>>

\* ... then cancels the expiry task, and the output emitter
CancelExpiry(c) ==
  /\ conns[c].state = "closing"
  /\ conns' = [conns EXCEPT ![c].state = "detaching",
                            ![c].expiry = NoSession]
  /\ UNCHANGED <<registry, sess>>

\* ... and then detaches the session if it is still registered and live
Detach(c) ==
  /\ conns[c].state = "detaching"
  /\ sess' = [s \in Sessions |->
                IF s = conns[c].session /\ s \in registry
                THEN MarkDetached(sess[s], c) ELSE sess[s]]
  /\ conns' = [conns EXCEPT ![c] = Down]
  /\ UNCHANGED registry

\* __del__: a removed session that an initialize revived is ended again when
\* no connection and no expiry task refers to the object any more
Collect(s) ==
  /\ sess[s].kind = "realtime" /\ ~sess[s].terminated
  /\ s \notin registry
  /\ \A c \in Conns : s \notin {conns[c].session, conns[c].expiry}
  /\ sess' = [sess EXCEPT ![s] = Ended(@)]
  /\ UNCHANGED <<registry, conns>>

----------------------------------------------------------------------------
(* The clock and the process                                               *)

\* Faulty variant: counts None down too
CountAnyDown(t) == IF t # 0 THEN t - 1 ELSE t

CountDown(t) == IF t > 0 THEN t - 1 ELSE t

Tick ==
  /\ sess' = [s \in Sessions |->
                [sess[s] EXCEPT !.grace = CountDown(@), !.ttl = CountDown(@)]]
  /\ UNCHANGED <<registry, conns>>

\* _shutdown ends every session; the connections and the runs go with the
\* process, and so does everything when the process is killed
Shutdown ==
  /\ up
  /\ up' = FALSE
  /\ registry' = {}
  /\ sess' = [s \in Sessions |->
                IF sess[s].kind = "unborn" THEN sess[s]
                ELSE [Ended(sess[s]) EXCEPT !.work =
                        IF sess[s].kind = "slot" THEN "done" ELSE "none"]]
  /\ conns' = [c \in Conns |-> Down]

Startup ==
  /\ ~up
  /\ up' = TRUE
  /\ UNCHANGED <<registry, sess, conns>>

RunStep(s) ==
  ReserveSlot(s) \/ StartStream(s) \/ AbandonStream(s) \/ FinishRun(s)

ConnStep(c) ==
  \/ Connect(c)
  \/ \E s \in Sessions : \/ CreateSession(c, s)
                         \/ CreateFails(c, s)
                         \/ AttachSession(c, s)
                         \/ AttachTooLate(c, s)
  \/ Revive(c)
  \/ BeginTerminate(c)
  \/ EndTerminate(c)
  \/ Expire(c)
  \/ Disconnect(c)
  \/ CancelExpiry(c)
  \/ Detach(c)

Serve ==
  \/ \E s \in Sessions : RunStep(s)
  \/ \E c \in Conns : ConnStep(c)
  \/ \E s \in Sessions : Collect(s)
  \/ Sweep
  \/ Tick

Next ==
  \/ up /\ Serve /\ UNCHANGED up
  \/ Shutdown
  \/ Startup

Spec == Init /\ [][Next]_vars

\* The event loop runs what is due: the cleanup loop, expiry tasks, and the
\* handlers' own continuations.  Time passes.  Clients owe nothing.
Fairness ==
  /\ WF_vars(up /\ Sweep /\ UNCHANGED up)
  /\ WF_vars(up /\ Tick /\ UNCHANGED up)
  /\ \A c \in Conns :
       /\ WF_vars(up /\ Expire(c) /\ UNCHANGED up)
       /\ WF_vars(up /\ EndTerminate(c) /\ UNCHANGED up)
       /\ WF_vars(up /\ CancelExpiry(c) /\ UNCHANGED up)
       /\ WF_vars(up /\ Detach(c) /\ UNCHANGED up)

FairSpec == Spec /\ Fairness

----------------------------------------------------------------------------
(* Properties                                                              *)

\* The registry never holds more entries than FMU_MAX_SESSIONS: each of the
\* three paths into create_session frees stale entries before it counts.
RegistryWithinCapacity == Cardinality(registry) <= MaxSessions

\* A session marked attached is one cleanup_expired_sessions never touches,
\* so it must always belong to a connection that still exists, still has it
\* as its session and will therefore run the finally block that detaches it.
\* Were this to fail, the session would hold its slot until the process ends.
AttachedHasLiveOwner ==
  \A s \in Sessions :
    sess[s].attached =>
      /\ s \in registry
      /\ sess[s].owner \in Conns
      /\ conns[sess[s].owner].state # "down"
      /\ conns[sess[s].owner].session = s

\* "the stale cleanup must not detach the newer connection": a session that
\* becomes detached but stays live does so in the finally block of the
\* connection that owns it, however many connections have held it.
DetachedByItsOwner ==
  [][\A s \in Sessions :
       sess[s].attached /\ ~sess'[s].attached /\ ~sess'[s].terminated =>
         /\ conns[sess[s].owner].state = "detaching"
         /\ conns'[sess[s].owner].state = "down"]_vars

\* While the service is up, a realtime session leaves the registry only when
\* its reservation has expired, when it is detached and its attach grace is
\* over (or load() failed and nobody ever had it), or when a client asked.
RemovalIsJustified ==
  [][\A s \in registry \ registry' :
       up' /\ sess[s].kind = "realtime" =>
         \/ sess[s].ttl = 0
         \/ ~sess[s].attached /\ sess[s].grace \in {0, NoTimer}
         \/ \E c \in Conns : /\ conns[c].state = "terminating"
                             /\ conns[c].session = s]_vars

\* The registry implements the abstract lease of SessionLease: a realtime
\* session has one holder, is dropped only when that holder's link is down,
\* and once removed never serves anybody again, though other connections may
\* still refer to the object and initialize() may clear _terminated.
LeaseOf ==
  [s \in Sessions |->
     IF sess[s].kind # "realtime" THEN "none"
     ELSE IF s \in registry /\ sess[s].attached THEN "held"
     ELSE IF s \in registry /\ sess[s].grace # NoTimer THEN "grace"
     ELSE "gone"]

Lease == INSTANCE SessionLease
           WITH lease <- LeaseOf,
                holder <- [s \in Sessions |-> sess[s].owner],
                link <- [c \in Conns |->
                           conns[c].state \in {"open", "terminating"}]

ImplementsLease == Lease!Spec

\* "A disconnected session must not consume capacity indefinitely": whatever
\* is registered but not attached is attached again or removed.
DetachedIsReclaimed ==
  \A s \in Sessions :
    (s \in registry /\ ~sess[s].attached)
      ~> (s \notin registry \/ sess[s].attached)

\* A session whose reservation has an end is given up, whoever holds it and
\* however often it changes hands.
ExpiredIsReclaimed ==
  \A s \in Sessions :
    (s \in registry /\ sess[s].ttl # NoTimer) ~> (s \notin registry)

\* FMU_MAX_SESSIONS is documented as the "Effective max concurrent FMU
\* executions (one-shot, stream and realtime)".
Executions ==
  {s \in Sessions : \/ sess[s].work = "running"
                    \/ s \in registry /\ sess[s].kind = "realtime"}

ExecutionsWithinCapacity == Cardinality(Executions) <= MaxSessions

=============================================================================
