---------------------------- MODULE FmuSupervisor ----------------------------
(***************************************************************************)
(* The sidecar and those who start and stop it.  Every Lab Station process *)
(* has its own LS_FmuExecutor (labstation/service/FmuExecutor.ahk), whose  *)
(* static members know only the child that this process has launched: the  *)
(* background service, which runs the loop of LS_ServiceLoop, and others,  *)
(* the command line and the connectors panel.                              *)
(*                                                                         *)
(* The sidecars contend for one port.  The health check asks the port; the *)
(* rest goes by the process id.                                            *)
(***************************************************************************)
EXTENDS Naturals, FiniteSets

CONSTANTS
  Pids,         \* process ids
  NoPid,        \* _pid = 0
  Service,      \* the background service
  Others,       \* other Lab Station processes
  MaxFailures,  \* _maxFailures
  MaxFaults     \* bound on what goes wrong outside the sidecars

Agents == {Service} \cup Others

ASSUME SupervisorAssumption ==
  /\ IsFiniteSet(Pids)
  /\ NoPid \notin Pids
  /\ Service \notin Others
  /\ MaxFailures \in Nat \ {0}
  /\ MaxFaults \in Nat

VARIABLES
  proc,      \* what runs under each process id
  pid,       \* _pid of each agent
  pc,        \* where each agent is
  failures,  \* _consecutiveFailures of the service
  due,       \* the service's last health check is an interval ago, or never was
  failed,    \* history: failed checks in a row since the service's last launch
  faults,    \* history: what has gone wrong
  orphaned   \* history: of these, the ones that leave a sidecar without agent

vars == <<proc, pid, pc, failures, due, failed, faults, orphaned>>

\* Counts of failures stop one above the limit
Counts == 0..(MaxFailures + 1)

\* "kill" and the pauses are inside Restart, "ready" and "pause" of an agent
\* that has no loop
Places ==
  {"down", "collect", "queue", "queuePause", "tick", "kill", "tickPause",
   "ready", "pause"}

Pausing(a) == pc[a] \in {"queuePause", "tickPause", "pause"}

TypeOK ==
  /\ proc \in [Pids -> {"none", "starting", "up", "hung", "other"}]
  /\ pid \in [Agents -> Pids \cup {NoPid}]
  /\ pc \in [Agents -> Places]
  /\ failures \in Counts /\ failed \in Counts
  /\ due \in BOOLEAN
  /\ faults \in 0..MaxFaults /\ orphaned \in 0..MaxFaults
  /\ \A a \in Agents : Pausing(a) => pid[a] = NoPid

Init ==
  /\ proc = [p \in Pids |-> "none"]
  /\ pid = [a \in Agents |-> NoPid]
  /\ pc = [a \in Agents |-> "down"]
  /\ failures = 0 /\ due = TRUE
  /\ failed = 0 /\ faults = 0 /\ orphaned = 0

----------------------------------------------------------------------------
(* What an agent sees and does                                             *)

Sidecar(p) == proc[p] \in {"starting", "up", "hung"}

HasSidecar(a) == pid[a] # NoPid /\ Sidecar(pid[a])

\* IsRunning: some process has the id of the child
Running(a) == pid[a] # NoPid /\ proc[pid[a]] # "none"

Goes(a, place) == pc' = [pc EXCEPT ![a] = place]

Fault ==
  /\ faults < MaxFaults
  /\ faults' = faults + 1

NoFault == UNCHANGED <<faults, orphaned>>

FaultOrphans == Fault /\ orphaned' = orphaned + 1

Known(p) == \E a \in Agents : pid[a] = p

\* Ids for a's next child: that of its dead child, or one that means nothing to
\* any agent, which stands for all the ids that Windows has
Free(a) ==
  {p \in Pids : \/ ~Sidecar(p) /\ ~Known(p)
                \/ p = pid[a] /\ proc[p] = "none"}

\* Faulty variant: the failures of the last child count against the new one
KeepCounting(a) ==
  /\ UNCHANGED failures
  /\ failed' = IF a = Service THEN 0 ELSE failed

CountAnew(a) ==
  IF a = Service THEN failures' = 0 /\ failed' = 0
  ELSE UNCHANGED <<failures, failed>>

\* Not available, no token, no firewall rule, or a launch that fails
StartRefused ==
  /\ Fault
  /\ UNCHANGED <<proc, pid, failures, failed, orphaned>>

\* Faulty variant: Start does not look whether its child runs
LooksFree(a) == NoFault

\* The look at the process fails by itself only with a fault
SeenNotRunning(a) == IF Running(a) THEN FaultOrphans ELSE NoFault

Launch(a) ==
  /\ SeenNotRunning(a)
  /\ \E p \in Free(a) :
       /\ proc' = [proc EXCEPT ![p] = "starting"]
       /\ pid' = [pid EXCEPT ![a] = p]
  /\ CountAnew(a)

Start(a) ==
  \/ Launch(a)
  \/ StartRefused
  \/ Running(a) /\ UNCHANGED <<proc, pid, failures, failed, faults, orphaned>>

\* Faulty variant: a killed child is still the child
StillKnown(a) == UNCHANGED pid

Forget(a) == pid' = [pid EXCEPT ![a] = NoPid]

\* The child goes by taskkill; that taskkill failed is not looked at
Stop(a) ==
  /\ Forget(a)
  /\ IF pid[a] = NoPid THEN NoFault /\ UNCHANGED <<proc, failures>>
     ELSE /\ \/ proc' = [proc EXCEPT ![pid[a]] = "none"] /\ NoFault
             \/ Running(a) /\ FaultOrphans /\ UNCHANGED proc
          /\ failures' = IF a = Service THEN 0 ELSE failures
  /\ due' = (due \/ a = Service)
  /\ UNCHANGED failed

Answered == \E p \in Pids : proc[p] = "up"

OneMore(n) == IF n > MaxFailures THEN n ELSE n + 1

\* CheckHealth of the service: a check may fail by itself
CheckHealth ==
  /\ due' = FALSE
  /\ \/ /\ Answered /\ failures' = 0 /\ failed' = 0
        /\ UNCHANGED faults
     \/ /\ IF Answered THEN Fault ELSE UNCHANGED faults
        /\ failures' = OneMore(failures) /\ failed' = OneMore(failed)
  /\ UNCHANGED <<proc, pid, orphaned>>

----------------------------------------------------------------------------
(* The service loop                                                        *)

ServiceStarts ==
  /\ pc[Service] = "down"
  /\ Goes(Service, "collect")
  /\ UNCHANGED <<proc, pid, failures, due, failed, faults, orphaned>>

\* GetHealthSummary checks when a check is due
Summary ==
  IF due THEN CheckHealth
  ELSE UNCHANGED <<proc, pid, failures, due, failed, faults, orphaned>>

\* The status is collected, or its minute is not over
Collect ==
  /\ pc[Service] = "collect"
  /\ Goes(Service, "queue")
  /\ \/ Summary
     \/ UNCHANGED <<proc, pid, failures, due, failed, faults, orphaned>>

\* status-json and the other commands that collect the status
QueueStatus ==
  /\ pc[Service] = "queue" /\ due
  /\ CheckHealth
  /\ UNCHANGED pc

\* prepare-session and release-session end the sessions by a restart
QueueCleanUp ==
  /\ pc[Service] = "queue" /\ Running(Service)
  /\ Stop(Service)
  /\ Goes(Service, "queuePause")

QueueDone ==
  /\ pc[Service] = "queue"
  /\ Goes(Service, "tick")
  /\ UNCHANGED <<proc, pid, failures, due, failed, faults, orphaned>>

TickStarts ==
  /\ pc[Service] = "tick"
  /\ Launch(Service) \/ StartRefused
  /\ due' = FALSE
  /\ Goes(Service, "collect")

\* Faulty variant: the restart comes at the limit and not beyond it
AtTheLimit == failures' = MaxFailures

TooManyFailures == failures' >= MaxFailures

TickChecks ==
  /\ pc[Service] = "tick" /\ Running(Service)
  /\ IF due
     THEN /\ CheckHealth
          /\ Goes(Service, IF TooManyFailures THEN "kill" ELSE "collect")
     ELSE /\ Goes(Service, "collect")
          /\ UNCHANGED <<proc, pid, failures, due, failed, faults, orphaned>>

TickKills ==
  /\ pc[Service] = "kill"
  /\ Stop(Service)
  /\ Goes(Service, "tickPause")

\* Restart goes on after its second
ServiceResumes ==
  /\ Pausing(Service)
  /\ Start(Service)
  /\ Goes(Service, IF pc[Service] = "queuePause" THEN "queue" ELSE "collect")
  /\ UNCHANGED due

ServiceStep ==
  \/ Collect
  \/ QueueStatus
  \/ QueueCleanUp
  \/ QueueDone
  \/ TickStarts
  \/ TickChecks
  \/ TickKills
  \/ ServiceResumes

----------------------------------------------------------------------------
(* Other agents                                                            *)

OtherBegins(o) ==
  /\ pc[o] = "down"
  /\ Goes(o, "ready")
  /\ UNCHANGED <<proc, pid, failures, due, failed, faults, orphaned>>

OtherStarts(o) ==
  /\ \/ pc[o] = "ready" /\ UNCHANGED pc
     \/ pc[o] = "pause" /\ Goes(o, "ready")
  /\ Start(o)
  /\ UNCHANGED due

OtherStops(o) ==
  /\ pc[o] = "ready"
  /\ Stop(o)
  /\ UNCHANGED pc

OtherRestarts(o) ==
  /\ pc[o] = "ready"
  /\ Stop(o)
  /\ Goes(o, "pause")

OtherStep(o) ==
  \/ OtherBegins(o)
  \/ OtherStarts(o)
  \/ OtherStops(o)
  \/ OtherRestarts(o)

\* A process ends and what it knew with it.  A task that is ended may take its
\* child with it.
Ends(a) ==
  /\ pc[a] # "down"
  /\ Goes(a, "down")
  /\ Forget(a)
  /\ \/ /\ IF HasSidecar(a) THEN FaultOrphans ELSE NoFault
        /\ UNCHANGED proc
     \/ /\ a = Service /\ HasSidecar(a) /\ NoFault
        /\ proc' = [proc EXCEPT ![pid[a]] = "none"]
  /\ IF a = Service THEN failures' = 0 /\ failed' = 0 /\ due' = TRUE
     ELSE UNCHANGED <<failures, failed, due>>

----------------------------------------------------------------------------
(* Sidecars, process ids and the clock                                     *)

PortTaken == \E p \in Pids : proc[p] \in {"up", "hung"}

\* uvicorn exits when it cannot have the port
Boot(p) ==
  /\ proc[p] = "starting"
  /\ proc' = [proc EXCEPT ![p] = IF PortTaken THEN "none" ELSE "up"]
  /\ UNCHANGED <<pid, pc, failures, due, failed, faults, orphaned>>

Hang(p) ==
  /\ proc[p] = "up"
  /\ proc' = [proc EXCEPT ![p] = "hung"]
  /\ UNCHANGED <<pid, pc, failures, due, failed, faults, orphaned>>

Die(p) ==
  /\ proc[p] # "none"
  /\ proc' = [proc EXCEPT ![p] = "none"]
  /\ UNCHANGED <<pid, pc, failures, due, failed, faults, orphaned>>

\* Windows gives the id of a dead child to some other process
Reuse(p) ==
  /\ proc[p] = "none" /\ Known(p)
  /\ Fault
  /\ proc' = [proc EXCEPT ![p] = "other"]
  /\ UNCHANGED <<pid, pc, failures, due, failed, orphaned>>

\* The health interval is over
Elapse ==
  /\ pc[Service] # "down" /\ ~due
  /\ due' = TRUE
  /\ UNCHANGED <<proc, pid, pc, failures, failed, faults, orphaned>>

Next ==
  \/ ServiceStarts
  \/ ServiceStep
  \/ \E o \in Others : OtherStep(o)
  \/ \E a \in Agents : Ends(a)
  \/ \E p \in Pids : Boot(p) \/ Hang(p) \/ Die(p) \/ Reuse(p)
  \/ Elapse

\* The loop runs on and the inbox is emptied; of the sidecars that are
\* launched again and again one gets to its port; and intervals end between
\* the queue and the tick again and again.
Spec ==
  /\ Init /\ [][Next]_vars
  /\ WF_vars(ServiceStep)
  /\ SF_vars(QueueDone)
  /\ \A p \in Pids : SF_vars(Boot(p))
  /\ SF_vars(Elapse /\ pc[Service] = "tick")

----------------------------------------------------------------------------
(* Properties                                                              *)

\* The service's tick kills its sidecar only when the last MaxFailures checks,
\* all of them since it launched this one, have failed: no failure of an
\* earlier sidecar, of the time between two, or of the service's earlier life
\* counts.  (Ending the sessions, in the queue, kills it without any.)
KillsAreDue == pc[Service] = "kill" => failed >= MaxFailures

Orphans ==
  {p \in Pids : Sidecar(p) /\ ~Known(p)}

\* Every sidecar that no agent knows comes from one failed kill, one failed
\* look at a process or one end of its agent: no other order of starts, stops,
\* restarts, deaths and reused ids leaves one behind.
OrphansHaveACause == Cardinality(Orphans) <= orphaned

Served == \E p \in Pids : proc[p] = "up"

OrphanHoldsPort == \E p \in Pids : proc[p] = "hung" /\ pid[Service] # p

\* While the service stays up there is a sidecar that answers again and again,
\* however often its own hang, die, lose their id to another process or are
\* restarted for a session; only a hung one of another agent, or an orphan,
\* can keep the port from it.  That launches are not refused for ever, and that
\* the status does not take every due check from the tick, is presumed.
PortIsServed ==
  <>[](pc[Service] # "down") => []<>(Served \/ OrphanHoldsPort)

=============================================================================
