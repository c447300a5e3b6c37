------------------------- MODULE CommandQueueProofs -------------------------
(***************************************************************************)
(* The safety of the command queue for any number of files, result names,  *)
(* faults and shutdowns: nothing is lost, repetitions have a cause, and    *)
(* every result describes what its command did.                            *)
(***************************************************************************)
EXTENDS CommandQueue, TLAPS

\* The file in hand is one of the inbox that the loop has passed; what has not
\* been dropped, or not been visited, has not run
HandInv ==
  /\ stage = "idle" <=> cur = NoFile
  /\ cur # NoFile => service /\ cur \in inbox
  /\ pass \subseteq inbox \ {cur}
  /\ inbox \subseteq submitted

\* What HandleFile knows about its file at each of its steps
ProgressInv ==
  /\ cur # NoFile /\ ~read => cur \in unread
  /\ stage = "running" => Understood
  /\ stage \in {"running", "ran", "answered"} /\ Understood => runs[cur] > 0

\* The file in hand is being handled for the first time since its last failure
Running(f) == f = cur /\ stage \in {"running", "ran", "answered"}

\* RepeatsAreExplained is inductive only with the budget of a file that will
\* be dispatched again: it has used no run that a failure does not explain
BudgetInv ==
  \A f \in Files :
    /\ f \notin submitted => runs[f] = 0
    /\ f \in inbox /\ ~Running(f) => runs[f] <= faults[f] + downs[f]
    /\ runs[f] <= 1 + faults[f] + downs[f]

QueueInv ==
  /\ TypeOK
  /\ HandInv
  /\ ProgressInv
  /\ BudgetInv
  /\ NothingIsLost
  /\ ResultsAreEarned

LEMMA QueueInvInit == Init => QueueInv
<1> SUFFICES ASSUME Init PROVE QueueInv
  OBVIOUS
<1> USE QueueAssumption DEF QueueAssumption, Init
<1>0. 0 \in 0..MaxFaults /\ 0 \in 0..MaxDowns
  OBVIOUS
<1>1. TypeOK
  BY <1>0 DEF TypeOK
<1>2. HandInv
  BY DEF HandInv
<1>3. ProgressInv
  BY DEF ProgressInv
<1>4. BudgetInv
  BY DEF BudgetInv, Running
<1>5. NothingIsLost /\ ResultsAreEarned
  BY DEF NothingIsLost, ResultsAreEarned
<1> QED
  BY <1>1, <1>2, <1>3, <1>4, <1>5 DEF QueueInv

----------------------------------------------------------------------------
(* One lemma per group of actions                                          *)

LEMMA HitType ==
  ASSUME TypeOK, NEW f \in Files, Hit(f)
  PROVE  faults' \in [Files -> 0..MaxFaults]
BY QueueAssumption DEF QueueAssumption, TypeOK, Hit

LEMMA SubmitKeepsInv ==
  ASSUME QueueInv, NEW f \in Files, Submit(f) PROVE QueueInv'
<1> USE QueueAssumption DEF QueueAssumption, QueueInv
<1>1. TypeOK'
  BY DEF TypeOK, Submit
<1>2. HandInv'
  BY DEF TypeOK, HandInv, Submit
<1>3. ProgressInv'
  BY DEF ProgressInv, Understood, Submit
<1>4. BudgetInv'
  BY DEF TypeOK, HandInv, BudgetInv, Running, Submit
<1>5. NothingIsLost' /\ ResultsAreEarned'
  BY DEF NothingIsLost, ResultsAreEarned, Submit
<1> QED
  BY <1>1, <1>2, <1>3, <1>4, <1>5

\* The service starts, or goes down: the disk stays, the file in hand is
\* charged with the failure or the shutdown that cut its handling short
LEMMA PowerKeepsInv ==
  ASSUME QueueInv, StartService \/ Crash \/ HostDown PROVE QueueInv'
<1> USE QueueAssumption DEF QueueAssumption, QueueInv
<1>1. TypeOK'
  <2>1. CASE StartService
    BY <2>1 DEF TypeOK, StartService, disk, hand, past
  <2>2. CASE Crash
    <3>1. faults' \in [Files -> 0..MaxFaults]
      BY <2>2 DEF TypeOK, HandInv, Crash
    <3> QED
      BY <2>2, <3>1 DEF TypeOK, Crash, Stopped, disk
  <2>3. CASE HostDown
    <3>1. downs' \in [Files -> 0..MaxDowns]
      BY <2>3 DEF TypeOK, HandInv, HostDown
    <3> QED
      BY <2>3, <3>1 DEF TypeOK, HostDown, Stopped, disk
  <2> QED
    BY <2>1, <2>2, <2>3
<1>2. HandInv'
  BY DEF TypeOK, HandInv, StartService, Crash, HostDown, Stopped, disk, hand, past
<1>3. ProgressInv'
  BY DEF ProgressInv, HandInv, Understood, StartService, Crash, HostDown, Stopped, disk, hand, past
<1>4. BudgetInv'
  <2>1. CASE StartService
    BY <2>1 DEF BudgetInv, Running, StartService, disk, hand, past
  <2>2. CASE Crash
    BY <2>2 DEF TypeOK, HandInv, BudgetInv, Running, Crash, Stopped, disk
  <2>3. CASE HostDown
    BY <2>3 DEF TypeOK, HandInv, BudgetInv, Running, HostDown, Stopped, disk
  <2> QED
    BY <2>1, <2>2, <2>3
<1>5. NothingIsLost' /\ ResultsAreEarned'
  BY DEF NothingIsLost, ResultsAreEarned, StartService, Crash, HostDown, Stopped, disk, hand, past
<1> QED
  BY <1>1, <1>2, <1>3, <1>4, <1>5

LEMMA OpenKeepsInv ==
  ASSUME QueueInv, NEW f \in Files, StartPass \/ Open(f) PROVE QueueInv'
<1> USE QueueAssumption DEF QueueAssumption, QueueInv
<1>1. TypeOK'
  <2>1. CASE StartPass
    BY <2>1 DEF TypeOK, StartPass, disk, past
  <2>2. CASE Open(f)
    <3>1. faults' \in [Files -> 0..MaxFaults]
      BY <2>2, HitType DEF TypeOK, Open
    <3> QED
      BY <2>2, <3>1 DEF TypeOK, Open, disk
  <2> QED
    BY <2>1, <2>2
<1>2. HandInv'
  BY DEF TypeOK, HandInv, StartPass, Open, disk, hand, past
<1>3. ProgressInv'
  BY DEF ProgressInv, HandInv, Understood, StartPass, Open, disk, hand, past
<1>4. BudgetInv'
  BY DEF TypeOK, HandInv, BudgetInv, Running, StartPass, Open, Hit, disk, hand, past
<1>5. NothingIsLost' /\ ResultsAreEarned'
  BY DEF NothingIsLost, ResultsAreEarned, StartPass, Open, disk, hand, past
<1> QED
  BY <1>1, <1>2, <1>3, <1>4, <1>5

LEMMA DispatchKeepsInv ==
  ASSUME QueueInv, BeginDispatch \/ EndDispatch \/ Reject PROVE QueueInv'
<1> USE QueueAssumption DEF QueueAssumption, QueueInv
<1>0. cur \in Files
  BY DEF TypeOK, HandInv, BeginDispatch, EndDispatch, Reject
<1>1. TypeOK'
  <2>1. CASE BeginDispatch
    <3>1. runs' \in [Files -> Nat]
      BY <1>0, <2>1 DEF TypeOK, BeginDispatch
    <3>2. going' \in BOOLEAN
      BY <2>1 DEF TypeOK, BeginDispatch
    <3> QED
      BY <2>1, <3>1, <3>2 DEF TypeOK, BeginDispatch, disk
  <2>2. CASE EndDispatch \/ Reject
    BY <2>2 DEF TypeOK, EndDispatch, Reject, disk, past
  <2> QED
    BY <2>1, <2>2
<1>2. HandInv'
  BY DEF TypeOK, HandInv, BeginDispatch, EndDispatch, Reject, disk, past
<1>3. ProgressInv'
  BY <1>0 DEF TypeOK, ProgressInv, Understood, BeginDispatch, EndDispatch, Reject, disk, past
<1>4. BudgetInv'
  BY <1>0 DEF TypeOK, HandInv, BudgetInv, Running, BeginDispatch, EndDispatch, Reject, disk, past
<1>5. NothingIsLost' /\ ResultsAreEarned'
  BY <1>0 DEF TypeOK, NothingIsLost, ResultsAreEarned, BeginDispatch, EndDispatch, Reject, disk, past
<1> QED
  BY <1>1, <1>2, <1>3, <1>4, <1>5

\* The result is written for the file in hand: the only step that can break
\* ResultsAreEarned, and ProgressInv is what keeps it
LEMMA AnswerKeepsInv ==
  ASSUME QueueInv, Answer \/ AnswerFails PROVE QueueInv'
<1> USE QueueAssumption DEF QueueAssumption, QueueInv, CanAnswer, past, disk
<1>0. cur \in Files
  BY DEF TypeOK, HandInv, Answer, AnswerFails
<1>1. TypeOK'
  <2>1. CASE Answer
    BY <1>0, <2>1 DEF TypeOK, Answer, Id
  <2>2. CASE AnswerFails
    <3>1. faults' \in [Files -> 0..MaxFaults]
      BY <1>0, <2>2, HitType DEF AnswerFails
    <3> QED
      BY <2>2, <3>1 DEF TypeOK, AnswerFails
  <2> QED
    BY <2>1, <2>2
<1>2. HandInv'
  BY DEF TypeOK, HandInv, Answer, AnswerFails
<1>3. ProgressInv'
  BY DEF ProgressInv, Understood, Answer, AnswerFails
<1>4. BudgetInv'
  BY <1>0 DEF TypeOK, HandInv, BudgetInv, Running, Answer, AnswerFails, Hit
<1>5. NothingIsLost'
  BY DEF NothingIsLost, Answer, AnswerFails
<1>6. ResultsAreEarned'
  <2>1. CASE Answer
    BY <1>0, <2>1 DEF TypeOK, HandInv, ProgressInv, Understood, ResultsAreEarned, Answer, Id
  <2>2. CASE AnswerFails
    BY <2>2 DEF ResultsAreEarned, AnswerFails
  <2> QED
    BY <2>1, <2>2
<1> QED
  BY <1>1, <1>2, <1>3, <1>4, <1>5, <1>6

\* The file in hand leaves the inbox after its answer: the only step that can
\* break NothingIsLost
LEMMA ArchiveKeepsInv ==
  ASSUME QueueInv, Archive PROVE QueueInv'
<1> USE QueueAssumption DEF QueueAssumption, QueueInv, CanArchive, PutDown, LeftInInbox
<1>0. cur \in Files
  BY DEF TypeOK, HandInv, Archive
<1>1. TypeOK'
  BY <1>0 DEF TypeOK, Archive, Hit
<1>2. HandInv'
  BY DEF TypeOK, HandInv, Archive
<1>3. ProgressInv'
  BY DEF ProgressInv, Understood, Archive
<1>4. BudgetInv'
  BY <1>0 DEF TypeOK, HandInv, BudgetInv, Running, Archive, Hit
<1>5. NothingIsLost'
  BY <1>0 DEF TypeOK, HandInv, ProgressInv, Understood, NothingIsLost, Archive
<1>6. ResultsAreEarned'
  BY DEF ResultsAreEarned, Archive
<1> QED
  BY <1>1, <1>2, <1>3, <1>4, <1>5, <1>6

LEMMA QueueInvStep == QueueInv /\ [Next]_vars => QueueInv'
<1> SUFFICES ASSUME QueueInv, [Next]_vars PROVE QueueInv'
  OBVIOUS
<1>1. ASSUME NEW f \in Files, Submit(f) PROVE QueueInv'
  BY <1>1, SubmitKeepsInv
<1>2. CASE StartService \/ Crash \/ HostDown
  BY <1>2, PowerKeepsInv
<1>3. CASE StartPass
  <2>1. PICK f \in Files : f \in inbox
    BY <1>3 DEF StartPass, QueueInv, TypeOK
  <2> QED
    BY <1>3, <2>1, OpenKeepsInv
<1>4. ASSUME NEW f \in Files, Open(f) PROVE QueueInv'
  BY <1>4, OpenKeepsInv
<1>5. CASE BeginDispatch \/ EndDispatch \/ Reject
  BY <1>5, DispatchKeepsInv
<1>6. CASE Answer \/ AnswerFails
  BY <1>6, AnswerKeepsInv
<1>7. CASE Archive
  BY <1>7, ArchiveKeepsInv
<1>8. CASE UNCHANGED vars
  BY <1>8 DEF vars, disk, hand, past, QueueInv, TypeOK, HandInv, ProgressInv,
              Understood, BudgetInv, Running, NothingIsLost, ResultsAreEarned
<1> QED
  BY <1>1, <1>2, <1>3, <1>4, <1>5, <1>6, <1>7, <1>8
     DEF Next, ServiceStep, HandleStep

----------------------------------------------------------------------------

\* The inductive invariant of the queue.
LEMMA QueueInvariant == Spec => []QueueInv
BY QueueInvInit, QueueInvStep, PTL DEF Spec

\* Every reachable state of the queue is well typed, for any set of files and
\* any bounds on the failures.
THEOREM QueueTypeCorrect == Spec => []TypeOK
<1>1. QueueInv => TypeOK
  BY DEF QueueInv
<1> QED
  BY <1>1, QueueInvariant, PTL

\* HandleFile archives a file only after it dispatched or refused it: no
\* crash, shutdown or failing file operation makes a command disappear.
THEOREM CommandsAreNotLost == Spec => []NothingIsLost
<1>1. QueueInv => NothingIsLost
  BY DEF QueueInv
<1> QED
  BY <1>1, QueueInvariant, PTL

\* Each dispatch of a command beyond the first is paid for by a failure or a
\* shutdown that hit the handling of this very file.
THEOREM RepeatsHaveACause == Spec => []RepeatsAreExplained
<1>1. QueueInv => RepeatsAreExplained
  BY DEF QueueInv, BudgetInv, RepeatsAreExplained
<1> QED
  BY <1>1, QueueInvariant, PTL

\* A result file never describes a command that did not run, whatever ids and
\* file names the commands have.
THEOREM ResultsAreTrue == Spec => []ResultsAreEarned
<1>1. QueueInv => ResultsAreEarned
  BY DEF QueueInv
<1> QED
  BY <1>1, QueueInvariant, PTL

=============================================================================
