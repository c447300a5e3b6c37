---------------------------- MODULE CommandQueue ----------------------------
(***************************************************************************)
(* The background command queue (labstation/service/CommandQueue.ahk): INI *)
(* files dropped in an inbox directory, each executed, answered by a       *)
(* result file and archived by the single-threaded service loop.           *)
(*                                                                         *)
(* Everything the queue knows is on disk: the inbox, the results and the   *)
(* processed directory survive when the service or the host goes down, the *)
(* progress of the command in hand does not.                               *)
(***************************************************************************)
EXTENDS Integers, FiniteSets

CONSTANTS
  Files,      \* command files
  Ids,        \* names of result files
  IdOf,       \* the sanitized command id of each file
  NameOf,     \* ... and the id it has by its file name
  Valid,      \* files whose name and options parse and whose name is known
  Power,      \* the valid ones that shut the host down or reboot it
  NoFile,
  MaxFaults,  \* bound: crashes and failing file operations, per file
  MaxDowns    \* bound: scheduled shutdowns that hit a file's handling

ASSUME QueueAssumption ==
  /\ IdOf \in [Files -> Ids] /\ NameOf \in [Files -> Ids]
  /\ Power \subseteq Valid /\ Valid \subseteq Files
  /\ NoFile \notin Files
  /\ MaxFaults \in Nat
  /\ MaxDowns \in Nat

VARIABLES
  \* on disk
  inbox,      \* files in commands/inbox
  processed,  \* files moved to commands/processed
  results,    \* the command each result file describes
  \* in the service process
  service,    \* it is running
  pass,       \* files the current Loop Files has still to visit
  cur,        \* the file in hand
  stage,      \* how far HandleFile has come with it
  read,       \* its content could be read
  \* in the host
  going,      \* a shutdown or reboot is scheduled
  \* history
  submitted,  \* files that were ever dropped
  unread,     \* files once handled without their content
  runs,       \* how often each command was dispatched
  faults,     \* failures that hit the handling of each file
  downs       \* scheduled shutdowns that did

disk == <<inbox, processed, results>>
hand == <<pass, cur, stage, read>>
past == <<submitted, unread, runs, faults, downs>>
vars == <<disk, service, hand, going, past>>

TypeOK ==
  /\ inbox \subseteq Files
  /\ processed \subseteq Files
  /\ results \in [Ids -> Files \cup {NoFile}]
  /\ service \in BOOLEAN
  /\ pass \subseteq Files
  /\ cur \in Files \cup {NoFile}
  /\ stage \in {"idle", "parsed", "running", "ran", "answered"}
  /\ read \in BOOLEAN
  /\ going \in BOOLEAN
  /\ submitted \subseteq Files
  /\ unread \subseteq Files
  /\ runs \in [Files -> Nat]
  /\ faults \in [Files -> 0..MaxFaults]
  /\ downs \in [Files -> 0..MaxDowns]

Init ==
  /\ inbox = {} /\ processed = {}
  /\ results = [i \in Ids |-> NoFile]
  /\ service = FALSE
  /\ pass = {} /\ cur = NoFile /\ stage = "idle" /\ read = TRUE
  /\ going = FALSE
  /\ submitted = {} /\ unread = {}
  /\ runs = [f \in Files |-> 0]
  /\ faults = [f \in Files |-> 0]
  /\ downs = [f \in Files |-> 0]

----------------------------------------------------------------------------
(* The environment                                                         *)

\* The gateway drops a complete file; a loop under way may still come to it
Submit(f) ==
  /\ f \notin submitted
  /\ submitted' = submitted \cup {f}
  /\ inbox' = inbox \cup {f}
  /\ pass' \in {pass, pass \cup {f}}
  /\ pass = {} /\ stage = "idle" => UNCHANGED pass
  /\ UNCHANGED <<processed, results, service, cur, stage, read, going, unread, runs, faults, downs>>

\* The task starts at boot, or by hand
StartService ==
  /\ ~service
  /\ service' = TRUE
  /\ UNCHANGED <<disk, hand, going, past>>

Stopped ==
  /\ service' = FALSE
  /\ pass' = {} /\ cur' = NoFile /\ stage' = "idle" /\ read' = TRUE
  /\ UNCHANGED disk

\* The service is stopped, or the host fails; a scheduled shutdown is over
Crash ==
  /\ service
  /\ cur # NoFile => faults[cur] < MaxFaults
  /\ Stopped
  /\ going' \in {going, FALSE}
  /\ faults' = [f \in Files |-> IF f = cur THEN faults[f] + 1 ELSE faults[f]]
  /\ UNCHANGED <<submitted, unread, runs, downs>>

\* The scheduled shutdown or reboot comes
HostDown ==
  /\ going
  /\ cur # NoFile => downs[cur] < MaxDowns
  /\ going' = FALSE
  /\ Stopped
  /\ downs' = [f \in Files |-> IF f = cur THEN downs[f] + 1 ELSE downs[f]]
  /\ UNCHANGED <<submitted, unread, runs, faults>>

----------------------------------------------------------------------------
(* ProcessPending and HandleFile                                           *)

\* Loop Files over the inbox
StartPass ==
  /\ service /\ stage = "idle" /\ pass = {}
  /\ inbox # {}
  /\ pass' = inbox
  /\ UNCHANGED <<disk, service, cur, stage, read, going, past>>

Hit(f) == faults[f] < MaxFaults /\ faults' = [faults EXCEPT ![f] = @ + 1]

\* ParseCommandFile, ResolveCommandId and ExtractOptions.  A file that cannot
\* be read, locked say, counts as an empty one.
Open(f) ==
  /\ service /\ stage = "idle" /\ f \in pass
  /\ pass' = pass \ {f}
  /\ cur' = f
  /\ stage' = "parsed"
  /\ \/ read' = TRUE /\ UNCHANGED <<unread, faults>>
     \/ read' = FALSE /\ Hit(f) /\ unread' = unread \cup {f}
  /\ UNCHANGED <<disk, service, going, submitted, runs, downs>>

Understood == read /\ cur \in Valid

\* Dispatch begins: what the command does to the station starts here.  A power
\* command may also refuse, or fail to schedule the shutdown.
BeginDispatch ==
  /\ stage = "parsed" /\ Understood
  /\ stage' = "running"
  /\ runs' = [runs EXCEPT ![cur] = @ + 1]
  /\ \/ UNCHANGED going
     \/ cur \in Power /\ going' = TRUE
  /\ UNCHANGED <<disk, service, pass, cur, read, submitted, unread, faults, downs>>

\* ... and returns its result, or the exception it raised as one; after a
\* power command it has published the telemetry first
EndDispatch ==
  /\ stage = "running"
  /\ stage' = "ran"
  /\ UNCHANGED <<disk, service, pass, cur, read, going, past>>

\* A missing name, bad option or unknown command is a result at once
Reject ==
  /\ stage = "parsed" /\ ~Understood
  /\ stage' = "ran"
  /\ UNCHANGED <<disk, service, pass, cur, read, going, past>>

\* Faulty variant: the result is written before the command is dispatched
AnswerBeforeRunning == stage \in {"parsed", "ran"}

CanAnswer == stage = "ran"

\* The result is named after the id in the file, or else after the file
Id == IF read THEN IdOf[cur] ELSE NameOf[cur]

\* WriteResult moves a temporary file over the result file
Answer ==
  /\ CanAnswer
  /\ stage' = "answered"
  /\ results' = [results EXCEPT ![Id] = cur]
  /\ UNCHANGED <<inbox, processed, service, pass, cur, read, going, past>>

\* ... or logs that it could not
AnswerFails ==
  /\ CanAnswer
  /\ Hit(cur)
  /\ stage' = "answered"
  /\ UNCHANGED <<disk, service, pass, cur, read, going, submitted, unread, runs, downs>>

\* Faulty variant: the handling of the file goes on after it was put down
PutDownUnfinished == cur' = NoFile /\ stage' = "answered" /\ read' = TRUE

PutDown == cur' = NoFile /\ stage' = "idle" /\ read' = TRUE

\* Faulty variant: the archived file is copied, not moved
KeptInInbox == inbox

LeftInInbox == inbox \ {cur}

\* Faulty variant: the file is archived as soon as it is read
ArchivableWhenParsed == stage \in {"parsed", "answered"}

CanArchive == stage = "answered"

\* Archive: the move, then the deletion if the move fails
Archive ==
  /\ CanArchive
  /\ PutDown
  /\ \/ /\ inbox' = LeftInInbox
        /\ processed' = processed \cup {cur}
        /\ UNCHANGED faults
     \/ /\ Hit(cur)
        /\ inbox' \in {LeftInInbox, inbox}
        /\ UNCHANGED processed
  /\ UNCHANGED <<results, service, pass, going, submitted, unread, runs, downs>>

HandleStep ==
  \/ BeginDispatch \/ EndDispatch \/ Reject
  \/ Answer \/ AnswerFails \/ Archive

ServiceStep ==
  \/ StartPass
  \/ \E f \in Files : Open(f)
  \/ HandleStep

Next ==
  \/ \E f \in Files : Submit(f)
  \/ StartService
  \/ Crash
  \/ HostDown
  \/ ServiceStep

Spec == Init /\ [][Next]_vars

\* The service loop goes on while the process lives; nobody owes the station
\* a start, a command or a fault.  A dispatched command returns.
FairSpec == Spec /\ WF_vars(ServiceStep)

----------------------------------------------------------------------------
(* Properties                                                              *)

\* A command is not lost: what was dropped is in the inbox until it has been
\* dispatched or refused, whenever the service or the host goes down; only a
\* file that could not be read is put away unrun.
NothingIsLost ==
  \A f \in submitted \ inbox : f \in Valid => runs[f] > 0 \/ f \in unread

\* A command is dispatched again only after its own handling was cut short:
\* by a crash, an archive that failed, or a shutdown that came meanwhile.
RepeatsAreExplained ==
  \A f \in Files : runs[f] <= 1 + faults[f] + downs[f]

\* A result file describes a command that really ran, under its own id, or one
\* whose file could not be read, under its name.
ResultsAreEarned ==
  \A i \in Ids : LET f == results[i] IN
    f # NoFile =>
      \/ IdOf[f] = i /\ (f \in Valid => runs[f] > 0)
      \/ NameOf[f] = i /\ f \in unread

\* Every dropped command leaves the inbox, or the service went down.
CommandsAreHandled ==
  \A f \in Files : f \in inbox ~> (f \notin inbox \/ ~service)

=============================================================================
