------------------------- MODULE FmuSupervisorProofs -------------------------
(***************************************************************************)
(* The sidecar's agents for any process ids, other agents, failure limit   *)
(* and number of faults: a restart is due, and an orphan has a cause.      *)
(***************************************************************************)
EXTENDS FmuSupervisor, FiniteSetTheorems, TLAPS

\* What starts, stops and checks change.  The failures that the service counts
\* are of its last launch, some of them forgotten; an orphan is a fault.
ProcInv ==
  /\ proc \in [Pids -> {"none", "starting", "up", "hung", "other"}]
  /\ pid \in [Agents -> Pids \cup {NoPid}]
  /\ failures \in Counts /\ failed \in Counts
  /\ faults \in 0..MaxFaults /\ orphaned \in 0..MaxFaults
  /\ failures <= failed
  /\ orphaned <= faults
  /\ OrphansHaveACause

\* Where the agents are
PlaceInv ==
  /\ pc \in [Agents -> Places]
  /\ due \in BOOLEAN
  /\ \A a \in Agents : Pausing(a) => pid[a] = NoPid
  /\ KillsAreDue

SupervisorInv == ProcInv /\ PlaceInv

LEMMA SupervisorInvInit == Init => SupervisorInv
<1> SUFFICES ASSUME Init PROVE SupervisorInv
  OBVIOUS
<1> USE SupervisorAssumption DEF SupervisorAssumption, Init
<1>1. Orphans = {}
  BY DEF Orphans, Sidecar
<1>2. OrphansHaveACause
  BY <1>1, FS_EmptySet DEF OrphansHaveACause
<1>3. 0 \in Counts /\ 0 \in 0..MaxFaults
  BY DEF Counts
<1>4. ProcInv
  BY <1>2, <1>3 DEF ProcInv
<1>5. PlaceInv
  <2>1. pc[Service] = "down"
    BY DEF Agents
  <2>2. KillsAreDue
    BY <2>1 DEF KillsAreDue
  <2>3. pc \in [Agents -> Places] /\ due \in BOOLEAN
    BY DEF Places
  <2> QED
    BY <2>2, <2>3 DEF PlaceInv
<1> QED
  BY <1>4, <1>5 DEF SupervisorInv

----------------------------------------------------------------------------
(* Orphans                                                                 *)

LEMMA OrphansFinite ==
  IsFiniteSet(Orphans) /\ Cardinality(Orphans) \in Nat
<1>1. Orphans \in SUBSET Pids
  BY DEF Orphans
<1>2. IsFiniteSet(Orphans)
  BY <1>1, FS_Subset, SupervisorAssumption DEF SupervisorAssumption
<1> QED
  BY <1>2, FS_CardinalityType

LEMMA NoMoreOrphans ==
  ASSUME ProcInv, Orphans' \subseteq Orphans, orphaned' = orphaned
  PROVE  OrphansHaveACause'
<1>1. Cardinality(Orphans') <= Cardinality(Orphans)
  BY OrphansFinite, FS_Subset
<1>2. Cardinality(Orphans') \in Nat /\ Cardinality(Orphans) \in Nat
  BY OrphansFinite, FS_Subset, FS_CardinalityType
<1>3. Cardinality(Orphans) <= orphaned /\ orphaned \in Nat
  BY DEF ProcInv, OrphansHaveACause
<1>4. Cardinality(Orphans') <= orphaned'
  BY <1>1, <1>2, <1>3
<1> QED
  BY <1>4 DEF OrphansHaveACause

LEMMA OneMoreOrphan ==
  ASSUME ProcInv, NEW p, Orphans' \subseteq Orphans \cup {p},
         orphaned' = orphaned + 1
  PROVE  OrphansHaveACause'
<1> DEFINE all == Orphans \cup {p}
<1>1. IsFiniteSet(all) /\ Cardinality(all) <= Cardinality(Orphans) + 1
  BY OrphansFinite, FS_AddElement
<1>2. Cardinality(Orphans') <= Cardinality(all) /\ IsFiniteSet(Orphans')
  BY <1>1, FS_Subset
<1>3. /\ Cardinality(Orphans') \in Nat /\ Cardinality(all) \in Nat
      /\ Cardinality(Orphans) \in Nat
  BY <1>1, <1>2, OrphansFinite, FS_CardinalityType
<1>4. Cardinality(Orphans) <= orphaned /\ orphaned \in Nat
  BY DEF ProcInv, OrphansHaveACause
<1> HIDE DEF all
<1>5. Cardinality(Orphans') <= orphaned'
  BY <1>1, <1>2, <1>3, <1>4
<1> QED
  BY <1>5 DEF OrphansHaveACause

LEMMA FaultsAreCounted ==
  ASSUME ProcInv, NoFault \/ FaultOrphans \/ (Fault /\ UNCHANGED orphaned)
  PROVE  /\ faults' \in 0..MaxFaults /\ orphaned' \in 0..MaxFaults
         /\ orphaned' <= faults'
  BY SupervisorAssumption
  DEF SupervisorAssumption, ProcInv, NoFault, FaultOrphans, Fault

----------------------------------------------------------------------------
(* Starts, stops and checks                                                *)

LEMMA LaunchKeepsProc ==
  ASSUME ProcInv, NEW a \in Agents, Launch(a)
  PROVE  ProcInv' /\ (a # Service => UNCHANGED failed)
<1> USE DEF ProcInv
<1>1. PICK p \in Free(a) : /\ proc' = [proc EXCEPT ![p] = "starting"]
                           /\ pid' = [pid EXCEPT ![a] = p]
  BY DEF Launch
<1>2. p \in Pids /\ ~Sidecar(p)
  BY DEF Free, Sidecar
<1>3. /\ proc' \in [Pids -> {"none", "starting", "up", "hung", "other"}]
      /\ pid' \in [Agents -> Pids \cup {NoPid}]
  BY <1>1, <1>2
<1>4. /\ failures' \in Counts /\ failed' \in Counts /\ failures' <= failed'
      /\ a # Service => UNCHANGED failed
  BY SupervisorAssumption
  DEF SupervisorAssumption, Counts, Launch, CountAnew
<1>5. NoFault \/ FaultOrphans
  BY DEF Launch, SeenNotRunning
<1>6. \A q \in Orphans' : q \in Orphans \/ q = pid[a]
  BY <1>1, <1>2, <1>3 DEF Orphans, Sidecar, Known
<1>7. OrphansHaveACause'
  <2>1. CASE Running(a)
    BY <2>1, <1>6, OneMoreOrphan DEF Launch, SeenNotRunning, FaultOrphans
  <2>2. CASE ~Running(a)
    <3>1. Orphans' \subseteq Orphans
      <4> SUFFICES ASSUME NEW q \in Orphans', q = pid[a] PROVE FALSE
        BY <1>6
      <4>1. proc[q] = "none"
        BY <2>2, SupervisorAssumption
        DEF Running, Orphans, SupervisorAssumption
      <4>2. q = p
        BY <1>1, <1>2, <4>1 DEF Orphans, Sidecar
      <4> QED
        BY <1>1, <4>2 DEF Orphans, Known
    <3> QED
      BY <2>2, <3>1, NoMoreOrphans DEF Launch, SeenNotRunning, NoFault
  <2> QED
    BY <2>1, <2>2
<1> QED
  BY <1>3, <1>4, <1>5, <1>7, FaultsAreCounted

\* A step that changes neither processes nor who knows them
LEMMA SameProcesses ==
  ASSUME ProcInv, UNCHANGED <<proc, pid, orphaned>>,
         failures' \in Counts, failed' \in Counts, failures' <= failed',
         UNCHANGED faults \/ Fault
  PROVE  ProcInv'
<1>1. Orphans' \subseteq Orphans
  BY DEF Orphans, Sidecar, Known
<1>2. OrphansHaveACause'
  BY <1>1, NoMoreOrphans
<1>3. /\ faults' \in 0..MaxFaults /\ orphaned' \in 0..MaxFaults
      /\ orphaned' <= faults'
  BY FaultsAreCounted DEF NoFault
<1> QED
  BY <1>2, <1>3 DEF ProcInv

LEMMA StartKeepsProc ==
  ASSUME ProcInv, NEW a \in Agents, Start(a) \/ StartRefused
  PROVE  ProcInv' /\ (a # Service => UNCHANGED failed)
<1>1. CASE Launch(a)
  BY <1>1, LaunchKeepsProc
<1>2. CASE StartRefused
  BY <1>2, SameProcesses DEF StartRefused, ProcInv
<1>3. CASE UNCHANGED <<proc, pid, failures, failed, faults, orphaned>>
  BY <1>3, SameProcesses DEF ProcInv
<1> QED
  BY <1>1, <1>2, <1>3 DEF Start

LEMMA StopKeepsProc ==
  ASSUME ProcInv, NEW a \in Agents, Stop(a)
  PROVE  ProcInv' /\ pid'[a] = NoPid /\ UNCHANGED failed
<1> USE DEF ProcInv
<1>1. /\ pid' = [pid EXCEPT ![a] = NoPid]
      /\ pid'[a] = NoPid
      /\ pid' \in [Agents -> Pids \cup {NoPid}]
  BY DEF Stop, Forget
<1>2. /\ failures' \in Counts /\ failures' <= failed' /\ UNCHANGED failed
  BY SupervisorAssumption DEF SupervisorAssumption, Counts, Stop
<1>3. CASE UNCHANGED proc /\ pid[a] = NoPid
  <2>1. Orphans' \subseteq Orphans
    BY <1>1, <1>3 DEF Orphans, Sidecar, Known
  <2>2. NoFault
    BY <1>3 DEF Stop
  <2> QED
    BY <1>1, <1>2, <1>3, <2>1, <2>2, NoMoreOrphans, FaultsAreCounted
    DEF NoFault
<1>4. CASE /\ pid[a] # NoPid /\ NoFault
           /\ proc' = [proc EXCEPT ![pid[a]] = "none"]
  <2>1. pid[a] \in Pids
    BY <1>4
  <2>2. proc' \in [Pids -> {"none", "starting", "up", "hung", "other"}]
    BY <1>4, <2>1
  <2>3. Orphans' \subseteq Orphans
    BY <1>1, <1>4, <2>1 DEF Orphans, Sidecar, Known
  <2> QED
    BY <1>1, <1>2, <1>4, <2>2, <2>3, NoMoreOrphans, FaultsAreCounted
    DEF NoFault
<1>5. CASE UNCHANGED proc /\ FaultOrphans
  <2>1. Orphans' \subseteq Orphans \cup {pid[a]}
    BY <1>1, <1>5 DEF Orphans, Sidecar, Known
  <2> QED
    BY <1>1, <1>2, <1>5, <2>1, OneMoreOrphan, FaultsAreCounted
    DEF FaultOrphans
<1> QED
  BY <1>3, <1>4, <1>5 DEF Stop

LEMMA CheckKeepsProc ==
  ASSUME ProcInv, CheckHealth PROVE ProcInv'
<1>1. failures' \in Counts /\ failed' \in Counts /\ failures' <= failed'
  <2> USE SupervisorAssumption DEF SupervisorAssumption, Counts
  <2>1. CASE failures' = 0 /\ failed' = 0
    BY <2>1
  <2>2. CASE failures' = OneMore(failures) /\ failed' = OneMore(failed)
    BY <2>2 DEF ProcInv, OneMore
  <2> QED
    BY <2>1, <2>2 DEF CheckHealth
<1>2. UNCHANGED faults \/ Fault
  BY DEF CheckHealth
<1> QED
  BY <1>1, <1>2, SameProcesses DEF CheckHealth

----------------------------------------------------------------------------
(* One lemma per group of actions                                          *)

LEMMA AgentsDiffer ==
  Service \in Agents /\ \A o \in Others : o \in Agents /\ o # Service
  BY SupervisorAssumption DEF SupervisorAssumption, Agents

\* A step of one agent that does not end up in "kill"
LEMMA PlaceOf ==
  ASSUME PlaceInv, NEW a \in Agents, NEW place \in Places \ {"kill"},
         pc' = [pc EXCEPT ![a] = place],
         due' \in BOOLEAN,
         a # Service => UNCHANGED failed,
         \A b \in Agents : b # a => pid'[b] = pid[b],
         place \in {"queuePause", "tickPause", "pause"} => pid'[a] = NoPid
  PROVE  PlaceInv'
<1> USE DEF PlaceInv
<1>1. pc' \in [Agents -> Places]
  OBVIOUS
<1>2. ASSUME NEW b \in Agents, Pausing(b)' PROVE pid'[b] = NoPid
  BY <1>2 DEF Pausing
<1>3. KillsAreDue'
  BY AgentsDiffer DEF KillsAreDue
<1> QED
  BY <1>1, <1>2, <1>3

\* A step that leaves every agent in its place
LEMMA SamePlaces ==
  ASSUME PlaceInv, UNCHANGED <<pid, pc, failed>>, due' \in BOOLEAN
  PROVE  PlaceInv'
  BY DEF PlaceInv, Pausing, KillsAreDue

LEMMA ServiceKeepsInv ==
  ASSUME SupervisorInv, ServiceStarts \/ ServiceStep PROVE SupervisorInv'
<1> USE AgentsDiffer DEF SupervisorInv
<1>0. due \in BOOLEAN /\ pid \in [Agents -> Pids \cup {NoPid}]
  BY DEF PlaceInv, ProcInv
<1>1. CASE ServiceStarts \/ Collect \/ QueueDone
  <2>1. PICK place \in {"collect", "queue", "tick"} : Goes(Service, place)
    BY <1>1 DEF ServiceStarts, Collect, QueueDone
  <2>2. \/ UNCHANGED <<proc, pid, failures, due, failed, faults, orphaned>>
        \/ CheckHealth
    BY <1>1 DEF ServiceStarts, Collect, QueueDone, Summary
  <2>3. ProcInv'
    BY <2>2, CheckKeepsProc, SameProcesses DEF ProcInv
  <2>4. UNCHANGED pid /\ due' \in BOOLEAN
    BY <1>0, <2>2 DEF CheckHealth
  <2>5. PlaceInv'
    BY <2>1, <2>4, PlaceOf DEF Goes, Places
  <2> QED
    BY <2>3, <2>5
<1>2. CASE QueueStatus
  <2>1. UNCHANGED <<pid, pc>> /\ due' = FALSE /\ pc[Service] = "queue"
    BY <1>2 DEF QueueStatus, CheckHealth
  <2>2. PlaceInv'
    BY <2>1 DEF PlaceInv, Pausing, KillsAreDue
  <2> QED
    BY <1>2, <2>2, CheckKeepsProc DEF QueueStatus
<1>3. CASE QueueCleanUp \/ TickKills
  <2>1. PICK place \in {"queuePause", "tickPause"} : Goes(Service, place)
    BY <1>3 DEF QueueCleanUp, TickKills
  <2>2. Stop(Service)
    BY <1>3 DEF QueueCleanUp, TickKills
  <2>3. ProcInv' /\ pid'[Service] = NoPid
    BY <2>2, StopKeepsProc
  <2>4. /\ due' \in BOOLEAN
        /\ \A b \in Agents : b # Service => pid'[b] = pid[b]
    BY <1>0, <2>2 DEF Stop, Forget
  <2>5. PlaceInv'
    BY <2>1, <2>3, <2>4, PlaceOf DEF Goes, Places
  <2> QED
    BY <2>3, <2>5
<1>4. CASE TickStarts \/ ServiceResumes
  <2>1. PICK place \in {"collect", "queue"} : Goes(Service, place)
    BY <1>4 DEF TickStarts, ServiceResumes
  <2>2. Start(Service) \/ StartRefused
    BY <1>4 DEF TickStarts, ServiceResumes, Start
  <2>3. ProcInv'
    BY <2>2, StartKeepsProc
  <2>4. due' \in BOOLEAN
    BY <1>0, <1>4 DEF TickStarts, ServiceResumes
  <2>5. \A b \in Agents : b # Service => pid'[b] = pid[b]
    BY <1>0, <2>2 DEF Start, StartRefused, Launch
  <2>6. PlaceInv'
    BY <2>1, <2>4, <2>5, PlaceOf DEF Goes, Places
  <2> QED
    BY <2>3, <2>6
<1>5. CASE TickChecks
  <2>1. CASE CheckHealth /\ TooManyFailures /\ Goes(Service, "kill")
    <3>1. ProcInv'
      BY <2>1, CheckKeepsProc
    <3>2. failed' >= MaxFailures
      BY <2>1, <3>1, SupervisorAssumption
      DEF SupervisorAssumption, ProcInv, Counts, TooManyFailures
    <3>3. PlaceInv'
      <4>1. UNCHANGED pid /\ due' = FALSE
        BY <2>1 DEF CheckHealth
      <4> QED
        BY <2>1, <3>2, <4>1
        DEF PlaceInv, Goes, Places, Pausing, KillsAreDue
    <3> QED
      BY <3>1, <3>3
  <2>2. CASE /\ Goes(Service, "collect")
             /\ \/ UNCHANGED <<proc, pid, failures, due, failed, faults,
                               orphaned>>
                \/ CheckHealth
    <3>1. ProcInv'
      BY <2>2, CheckKeepsProc, SameProcesses DEF ProcInv
    <3>2. UNCHANGED pid /\ due' \in BOOLEAN
      BY <1>0, <2>2 DEF CheckHealth
    <3>3. PlaceInv'
      BY <2>2, <3>2, PlaceOf DEF Goes, Places
    <3> QED
      BY <3>1, <3>3
  <2> QED
    BY <1>5, <2>1, <2>2 DEF TickChecks
<1> QED
  BY <1>1, <1>2, <1>3, <1>4, <1>5 DEF ServiceStep

LEMMA OtherKeepsInv ==
  ASSUME SupervisorInv, NEW o \in Others, OtherStep(o) PROVE SupervisorInv'
<1> USE AgentsDiffer DEF SupervisorInv
<1>0. /\ pc \in [Agents -> Places] /\ due \in BOOLEAN
      /\ pid \in [Agents -> Pids \cup {NoPid}]
  BY DEF PlaceInv, ProcInv
<1>1. CASE OtherBegins(o)
  <2>1. ProcInv'
    BY <1>1, SameProcesses DEF OtherBegins, ProcInv
  <2>2. PlaceInv'
    BY <1>0, <1>1, PlaceOf DEF OtherBegins, Goes, Places
  <2> QED
    BY <2>1, <2>2
<1>2. CASE OtherStarts(o)
  <2>1. ProcInv' /\ UNCHANGED failed
    BY <1>2, StartKeepsProc DEF OtherStarts
  <2>2. pc' = [pc EXCEPT ![o] = "ready"] /\ due' \in BOOLEAN
    BY <1>0, <1>2 DEF OtherStarts, Goes
  <2>3. \A b \in Agents : b # o => pid'[b] = pid[b]
    BY <1>0, <1>2 DEF OtherStarts, Start, StartRefused, Launch
  <2>4. PlaceInv'
    BY <2>1, <2>2, <2>3, PlaceOf DEF Places
  <2> QED
    BY <2>1, <2>4
<1>3. CASE OtherStops(o) \/ OtherRestarts(o)
  <2>1. Stop(o)
    BY <1>3 DEF OtherStops, OtherRestarts
  <2>2. ProcInv' /\ pid'[o] = NoPid /\ UNCHANGED failed
    BY <2>1, StopKeepsProc
  <2>3. PICK place \in {"ready", "pause"} : pc' = [pc EXCEPT ![o] = place]
    BY <1>0, <1>3 DEF OtherStops, OtherRestarts, Goes
  <2>4. /\ due' \in BOOLEAN
        /\ \A b \in Agents : b # o => pid'[b] = pid[b]
    BY <1>0, <2>1 DEF Stop, Forget
  <2>5. PlaceInv'
    BY <2>2, <2>3, <2>4, PlaceOf DEF Places
  <2> QED
    BY <2>2, <2>5
<1> QED
  BY <1>1, <1>2, <1>3 DEF OtherStep

LEMMA EndKeepsInv ==
  ASSUME SupervisorInv, NEW a \in Agents, Ends(a) PROVE SupervisorInv'
<1> USE DEF SupervisorInv
<1>1. /\ pid' = [pid EXCEPT ![a] = NoPid]
      /\ pid' \in [Agents -> Pids \cup {NoPid}]
      /\ \A b \in Agents : b # a => pid'[b] = pid[b]
  BY DEF ProcInv, Ends, Forget
<1>2. /\ failures' \in Counts /\ failed' \in Counts /\ failures' <= failed'
      /\ a # Service => UNCHANGED failed
      /\ due' \in BOOLEAN
  <2>1. 0 \in Counts
    BY SupervisorAssumption DEF SupervisorAssumption, Counts
  <2>2. CASE a = Service
    BY <2>1, <2>2 DEF Ends, Counts
  <2>3. CASE a # Service
    BY <2>3 DEF ProcInv, PlaceInv, Ends
  <2> QED
    BY <2>2, <2>3
<1>3. PlaceInv'
  BY <1>1, <1>2, PlaceOf DEF Ends, Goes, Places
<1>4. proc' \in [Pids -> {"none", "starting", "up", "hung", "other"}]
  BY DEF ProcInv, Ends, HasSidecar
<1>5. NoFault \/ FaultOrphans
  BY DEF Ends
<1>6. OrphansHaveACause'
  <2>1. CASE UNCHANGED proc /\ HasSidecar(a) /\ FaultOrphans
    <3>1. Orphans' \subseteq Orphans \cup {pid[a]}
      BY <1>1, <2>1 DEF ProcInv, Orphans, Sidecar, Known
    <3> QED
      BY <2>1, <3>1, OneMoreOrphan DEF FaultOrphans
  <2>2. CASE UNCHANGED proc /\ ~HasSidecar(a) /\ NoFault
    <3>1. Orphans' \subseteq Orphans
      BY <1>1, <2>2, SupervisorAssumption
      DEF SupervisorAssumption, ProcInv, Orphans, Sidecar, HasSidecar, Known
    <3> QED
      BY <2>2, <3>1, NoMoreOrphans DEF NoFault
  <2>3. CASE /\ HasSidecar(a) /\ NoFault
             /\ proc' = [proc EXCEPT ![pid[a]] = "none"]
    <3>1. pid[a] \in Pids
      BY <2>3 DEF HasSidecar, ProcInv
    <3>2. Orphans' \subseteq Orphans
      BY <1>1, <2>3, <3>1 DEF ProcInv, Orphans, Sidecar, Known
    <3> QED
      BY <2>3, <3>2, NoMoreOrphans DEF NoFault
  <2> QED
    BY <2>1, <2>2, <2>3 DEF Ends
<1>7. ProcInv'
  BY <1>1, <1>2, <1>4, <1>5, <1>6, FaultsAreCounted DEF ProcInv
<1> QED
  BY <1>3, <1>7

LEMMA ProcessKeepsInv ==
  ASSUME SupervisorInv, NEW p \in Pids,
         \/ Boot(p) \/ Hang(p) \/ Die(p) \/ Reuse(p)
  PROVE  SupervisorInv'
<1> USE DEF SupervisorInv, Boot, Hang, Die, Reuse
<1>1. UNCHANGED <<pid, pc, failures, due, failed, orphaned>>
  OBVIOUS
<1>2. proc' \in [Pids -> {"none", "starting", "up", "hung", "other"}]
  BY DEF ProcInv
<1>3. Orphans' \subseteq Orphans
  BY DEF ProcInv, Orphans, Sidecar, Known
<1>4. OrphansHaveACause'
  BY <1>1, <1>3, NoMoreOrphans
<1>5. NoFault \/ (Fault /\ UNCHANGED orphaned)
  BY DEF NoFault
<1>6. ProcInv'
  BY <1>1, <1>2, <1>4, <1>5, FaultsAreCounted DEF ProcInv
<1>7. PlaceInv'
  BY <1>1, SamePlaces DEF PlaceInv
<1> QED
  BY <1>6, <1>7

LEMMA SupervisorInvStep == SupervisorInv /\ [Next]_vars => SupervisorInv'
<1> SUFFICES ASSUME SupervisorInv, [Next]_vars PROVE SupervisorInv'
  OBVIOUS
<1>1. CASE Elapse \/ UNCHANGED vars
  <2>1. UNCHANGED <<proc, pid, pc, failures, failed, faults, orphaned>>
    BY <1>1 DEF Elapse, vars
  <2>2. due' \in BOOLEAN
    BY <1>1 DEF Elapse, vars, SupervisorInv, PlaceInv
  <2>3. ProcInv'
    BY <2>1, SameProcesses DEF SupervisorInv, ProcInv
  <2>4. PlaceInv'
    BY <2>1, <2>2, SamePlaces DEF SupervisorInv
  <2> QED
    BY <2>3, <2>4 DEF SupervisorInv
<1> QED
  BY <1>1, ServiceKeepsInv, OtherKeepsInv, EndKeepsInv, ProcessKeepsInv
  DEF Next

LEMMA SupervisorInvHolds == Spec => []SupervisorInv
  BY SupervisorInvInit, SupervisorInvStep, PTL DEF Spec

----------------------------------------------------------------------------
(* The theorems                                                            *)

\* Every reachable state of the sidecar and its agents is well typed.
THEOREM SupervisorTypeCorrect == Spec => []TypeOK
<1>1. SupervisorInv => TypeOK
  BY DEF SupervisorInv, ProcInv, PlaceInv, TypeOK
<1> QED
  BY <1>1, SupervisorInvHolds, PTL

\* Tick of labstation/service/FmuExecutor.ahk restarts its sidecar only after
\* _maxFailures failed checks in a row of that very sidecar, whoever else
\* checked, restarted or ended it before.
THEOREM KillsAreEarned == Spec => []KillsAreDue
<1>1. SupervisorInv => KillsAreDue
  BY DEF SupervisorInv, PlaceInv
<1> QED
  BY <1>1, SupervisorInvHolds, PTL

\* Sidecars without an agent are never more than the kills and looks that
\* failed and the agents that ended, whatever the number of agents.
THEOREM OrphansAreExplained == Spec => []OrphansHaveACause
<1>1. SupervisorInv => OrphansHaveACause
  BY DEF SupervisorInv, ProcInv
<1> QED
  BY <1>1, SupervisorInvHolds, PTL

=============================================================================
