--------------------------- MODULE CloseHandshake ---------------------------
(***************************************************************************)
(* How prepare-session and release-session have the lab application closed *)
(* (CloseControllerProcesses in labstation/service/SessionManager.ahk) by  *)
(* the controller that runs it (remote-app/lib/CloseRequest.ahk): three    *)
(* files in one directory, no locks, and processes that come and go.       *)
(*                                                                         *)
(* A call is one run of CloseControllerProcesses, by the service loop or   *)
(* by a command line started over WinRM; a controller is one AppControl    *)
(* process.  Each is used once, so that a call is its own token.           *)
(***************************************************************************)
EXTENDS Integers, FiniteSets

CONSTANTS
  Calls,
  Controllers,
  NoOne,
  MaxTick,    \* bound on A_TickCount
  MaxBoots,   \* bound on the restarts of the host, which reset it
  MaxFaults   \* bound on failing file operations, killed processes and restarts

ASSUME HandshakeAssumption ==
  /\ NoOne \notin Calls \cup Controllers
  /\ MaxTick \in Nat /\ MaxBoots \in Nat /\ MaxFaults \in Nat

VARIABLES
  \* files in labstation/data
  presence,  \* controller-presence.txt: the controller it names
  request,   \* controller-close.request: the call whose token it holds
  result,    \* controller-close.result
  \* processes and host
  ctl,
  call,
  now,       \* A_TickCount
  \* history
  boot,      \* restarts of the host
  faults,
  shared     \* controllers that ran while another one did, neither leaving

files == <<presence, request, result>>
host == <<now, boot>>
vars == <<files, ctl, call, host, faults, shared>>

NoResult == [by |-> NoOne, ok |-> FALSE]

\* start: CONTROLLER_CLOSE_REQUEST_START_TICK.  token: the request it took;
\* HANDLED is set with it and never reset.  task: the close request under way.
\* app: the window it was told to close, in dual mode the container.
\* A controller that exits is "clearing" from reading its own token in the
\* marker, which it saw, to deleting the marker; what it does after that nobody
\* can tell from its being gone.
Controller ==
  [life: {"off", "loading", "starting", "watching", "clearing", "exited"},
   start: 0..MaxTick,
   token: Calls \cup {NoOne},
   task: {"none", "closing", "answering", "tidying", "leaving"},
   app: {"none", "open", "closed"},
   saw: Controllers \cup {NoOne}]

\* answer: FALSE, or TRUE because nothing ran, or because it was closed.
\* known, here, boot: history; the controllers launched when the token was
\* made, those registered when the call began, and the boot it belongs to
Call ==
  [pc: {"idle", "absent", "judging", "seen", "ready", "asked", "tidy",
        "clearing", "done"},
   saw: Controllers \cup {NoOne},
   tick: 0..MaxTick,
   closed: BOOLEAN,
   answer: {"no", "clear", "closed"},
   known: SUBSET Controllers,
   here: SUBSET Controllers,
   boot: 0..MaxBoots]

TypeOK ==
  /\ presence \in Controllers \cup {NoOne}
  /\ request \in Calls \cup {NoOne}
  /\ result \in [by: Calls \cup {NoOne}, ok: BOOLEAN]
  /\ ctl \in [Controllers -> Controller]
  /\ call \in [Calls -> Call]
  /\ now \in 0..MaxTick
  /\ boot \in 0..MaxBoots
  /\ faults \in 0..MaxFaults
  /\ shared \subseteq Controllers

Init ==
  /\ presence = NoOne /\ request = NoOne /\ result = NoResult
  /\ ctl = [k \in Controllers |->
              [life |-> "off", start |-> 0, token |-> NoOne, task |-> "none",
               app |-> "none", saw |-> NoOne]]
  /\ call = [c \in Calls |->
              [pc |-> "idle", saw |-> NoOne, tick |-> 0, closed |-> FALSE,
               answer |-> "no", known |-> {}, here |-> {}, boot |-> 0]]
  /\ now = 0 /\ boot = 0 /\ faults = 0 /\ shared = {}

\* It has not begun to exit
Running(k) == ctl[k].life \in {"loading", "starting", "watching"}

\* Its process exists
Alive(k) == Running(k) \/ ctl[k].life = "clearing"

Registered(k) == ctl[k].life \in {"starting", "watching"}

Fault == faults < MaxFaults /\ faults' = faults + 1

NoFault == UNCHANGED faults

----------------------------------------------------------------------------
(* The life of a controller                                                *)

\* The script is loaded, which is when the start tick is taken
Launch(k) ==
  LET others == {j \in Controllers : Running(j)} IN
  /\ ctl[k].life = "off"
  /\ ctl' = [ctl EXCEPT ![k].life = "loading", ![k].start = now]
  /\ shared' = IF others = {} THEN shared ELSE shared \cup others \cup {k}
  /\ UNCHANGED <<files, call, host, faults>>

\* ControllerRegisterPresence overwrites the marker, or logs that it cannot
Register(k) ==
  /\ ctl[k].life = "loading"
  /\ ctl' = [ctl EXCEPT ![k].life = "starting"]
  /\ \/ presence' = k /\ NoFault
     \/ UNCHANGED presence /\ Fault
  /\ UNCHANGED <<request, result, call, host, shared>>

\* The application is up: session events and close requests are watched
Watch(k) ==
  /\ ctl[k].life = "starting"
  /\ ctl' = [ctl EXCEPT ![k].life = "watching", ![k].app = "open"]
  /\ UNCHANGED <<files, call, host, faults, shared>>

\* Operators marked "Faulty variant" are no part of the specification: each is
\* a plausible mistake in the operator after it, and shows that a property can
\* fail.

\* ControllerClearPresence looks for its own token in the marker ...
\* Faulty variant: whichever token the marker holds
ReadsAny(k) == presence # NoOne

ReadsOwn(k) == presence = k

\* What is left of a controller that exits: the request it took and the state
\* of its windows
Left(k, life) ==
  [ctl[k] EXCEPT !.life = life, !.task = "none", !.start = 0, !.saw = NoOne]

Leaving(k) ==
  IF ReadsOwn(k) THEN [Left(k, "clearing") EXCEPT !.saw = presence]
  ELSE Left(k, "exited")

\* The application cannot be started: ExitApp, and OnExit clears the marker
StartFails(k) ==
  /\ ctl[k].life = "starting"
  /\ ctl' = [ctl EXCEPT ![k] = Leaving(k)]
  /\ UNCHANGED <<files, call, host, faults, shared>>

\* OnSessionChange, OnQueryEndSession and CheckSessionEvents interrupt
\* whatever is under way, close what can be closed, and exit
SessionEnds(k) ==
  /\ ctl[k].life = "watching"
  /\ \E left \in {ctl[k].app, "closed"} :
       ctl' = [ctl EXCEPT ![k] = [Leaving(k) EXCEPT !.app = left]]
  /\ UNCHANGED <<files, call, host, faults, shared>>

\* Faulty variant: the marker is emptied
EmptyMarker(k) ==
  /\ ctl[k].life = "clearing"
  /\ ctl' = [ctl EXCEPT ![k] = Left(k, "exited")]
  /\ presence' = ""
  /\ UNCHANGED <<request, result, call, host, faults, shared>>

\* ... and deletes it by name, whichever token it holds by now
DeleteMarker(k) ==
  /\ ctl[k].life = "clearing"
  /\ ctl' = [ctl EXCEPT ![k] = Left(k, "exited")]
  /\ presence' = NoOne
  /\ UNCHANGED <<request, result, call, host, faults, shared>>

\* The process is killed, or its clean-up fails: the marker stays
Kill(k) ==
  /\ Alive(k)
  /\ Fault
  /\ ctl' = [ctl EXCEPT ![k] = Left(k, "exited")]
  /\ UNCHANGED <<files, call, host, shared>>

----------------------------------------------------------------------------
(* ControllerCheckCloseRequest                                             *)

\* Faulty variant: a request of the tick the controller started in is taken
NotOlder(k, c) == call[c].tick >= ctl[k].start

Newer(k, c) == call[c].tick > ctl[k].start

TakeRequest(k) ==
  /\ ctl[k].life = "watching"
  /\ ctl[k].token = NoOne
  /\ request # NoOne
  /\ Newer(k, request)
  /\ ctl' = [ctl EXCEPT ![k].token = request, ![k].task = "closing"]
  /\ UNCHANGED <<files, call, host, faults, shared>>

\* ForceCloseWindow: the whole cascade may fail
Close(k) ==
  /\ ctl[k].task = "closing"
  /\ \E left \in {"open", "closed"} :
       ctl' = [ctl EXCEPT ![k].task = "answering", ![k].app = left]
  /\ UNCHANGED <<files, call, host, faults, shared>>

AnswerCall(k) ==
  /\ ctl[k].task = "answering"
  /\ ctl' = [ctl EXCEPT ![k].task = "tidying"]
  /\ \/ result' = [by |-> ctl[k].token, ok |-> ctl[k].app = "closed"] /\ NoFault
     \/ UNCHANGED result /\ Fault
  /\ UNCHANGED <<presence, request, call, host, shared>>

\* The request file is deleted, whichever request it holds by now
DeleteRequest(k) ==
  /\ ctl[k].task = "tidying"
  /\ ctl' = [ctl EXCEPT ![k].task = IF ctl[k].app = "closed"
                                      THEN "leaving" ELSE "none"]
  /\ \/ request' = NoOne /\ NoFault
     \/ UNCHANGED request /\ Fault
  /\ UNCHANGED <<presence, result, call, host, shared>>

Leave(k) ==
  /\ ctl[k].task = "leaving"
  /\ ctl' = [ctl EXCEPT ![k] = Leaving(k)]
  /\ UNCHANGED <<files, call, host, faults, shared>>

ControllerStep(k) ==
  \/ Launch(k) \/ Register(k) \/ Watch(k) \/ StartFails(k)
  \/ SessionEnds(k) \/ DeleteMarker(k) \/ Kill(k)
  \/ TakeRequest(k) \/ Close(k) \/ AnswerCall(k) \/ DeleteRequest(k) \/ Leave(k)

----------------------------------------------------------------------------
(* CloseControllerProcesses                                                *)

To(c, pc) == call' = [call EXCEPT ![c].pc = pc]

Done(c) == [call[c] EXCEPT !.pc = "done", !.saw = NoOne, !.closed = FALSE,
                           !.here = {}]

Return(c, answer) ==
  call' = [call EXCEPT ![c] = [Done(c) EXCEPT !.answer = answer]]

\* ReadControllerPresence looks for the marker and reads it
Look(c) ==
  /\ call[c].pc = "idle"
  /\ call' = [call EXCEPT ![c].pc = IF presence = NoOne THEN "absent" ELSE "judging",
                          ![c].saw = presence,
                          ![c].here = {k \in Controllers : Registered(k)}]
  /\ UNCHANGED <<files, ctl, host, faults, shared>>

\* One that cannot be read counts as invalid, and is deleted if it can be
Unreadable(c) ==
  /\ call[c].pc = "idle" /\ presence # NoOne
  /\ Fault
  /\ presence' \in {presence, NoOne}
  /\ Return(c, "no")
  /\ UNCHANGED <<request, result, ctl, host, shared>>

\* Faulty variant: no marker means that nothing runs
NothingSeen == TRUE

NothingRuns == \A k \in Controllers : ~Alive(k)

\* No marker: done if no AppControl process runs, refused if one does
CheckProcess(c) ==
  /\ call[c].pc = "absent"
  /\ Return(c, IF NothingRuns THEN "clear" ELSE "no")
  /\ UNCHANGED <<files, ctl, host, faults, shared>>

\* The marker of a process that is gone is deleted, by name and unread
Judge(c) ==
  /\ call[c].pc = "judging"
  /\ IF Alive(call[c].saw)
     THEN /\ call' = [call EXCEPT ![c].pc = "seen", ![c].saw = NoOne]
          /\ UNCHANGED presence
     ELSE Return(c, "no") /\ presence' = NoOne
  /\ UNCHANGED <<request, result, ctl, host, faults, shared>>

\* Files of earlier calls are deleted, or left if they cannot be, and the
\* token is made; deletions in a row are one step
CleanUp(c) ==
  /\ call[c].pc = "seen"
  /\ call' = [call EXCEPT ![c].pc = "ready", ![c].tick = now, ![c].boot = boot,
                          ![c].known = {k \in Controllers :
                                          ctl[k].life # "off"}]
  /\ \/ request' = NoOne /\ result' = NoResult /\ NoFault
     \/ /\ request' \in {request, NoOne} /\ result' \in {result, NoResult}
        /\ Fault
  /\ UNCHANGED <<presence, ctl, host, shared>>

\* WriteControllerHandshake moves the request into place, or fails
Ask(c) ==
  /\ call[c].pc = "ready"
  /\ \/ To(c, "asked") /\ request' = c /\ NoFault
     \/ Return(c, "no") /\ UNCHANGED request /\ Fault
  /\ UNCHANGED <<presence, result, ctl, host, shared>>

\* Faulty variant: any result is taken for this call's
AnyResult(c) == result.by # NoOne

Matches(c) == result.by = c

Poll(c) ==
  /\ call[c].pc = "asked"
  /\ Matches(c)
  /\ call' = [call EXCEPT ![c].pc = "tidy", ![c].closed = result.ok]
  /\ UNCHANGED <<files, ctl, host, faults, shared>>

\* The deadline passes; closing may take longer than it
TimeOut(c) ==
  /\ call[c].pc = "asked"
  /\ To(c, "tidy")
  /\ UNCHANGED <<files, ctl, host, faults, shared>>

TidyUp(c) ==
  /\ call[c].pc = "tidy"
  /\ IF call[c].closed THEN To(c, "clearing") ELSE Return(c, "no")
  /\ \/ request' = NoOne /\ result' = NoResult /\ NoFault
     \/ /\ request' \in {request, NoOne} /\ result' \in {result, NoResult}
        /\ Fault
  /\ UNCHANGED <<presence, ctl, host, shared>>

\* WaitForControllerPresenceToClear, until the same deadline
WaitForClear(c) ==
  /\ call[c].pc = "clearing"
  /\ \/ presence = NoOne /\ Return(c, "closed")
     \/ Return(c, "no")
  /\ UNCHANGED <<files, ctl, host, faults, shared>>

\* The process that made the call is killed
Abandon(c) ==
  /\ call[c].pc \notin {"idle", "done"}
  /\ Fault
  /\ call' = [call EXCEPT ![c] = Done(c)]
  /\ UNCHANGED <<files, ctl, host, shared>>

CallStep(c) ==
  \/ CheckProcess(c) \/ Judge(c) \/ CleanUp(c)
  \/ Ask(c) \/ Poll(c) \/ TimeOut(c) \/ TidyUp(c) \/ WaitForClear(c)

----------------------------------------------------------------------------

Tick ==
  /\ now < MaxTick
  /\ now' = now + 1
  /\ UNCHANGED <<files, ctl, call, boot, faults, shared>>

\* The host restarts: the files stay, unless a controller clears the marker,
\* its own or what it has read as its own
Reboot ==
  /\ boot < MaxBoots /\ Fault
  /\ boot' = boot + 1 /\ now' = 0
  /\ presence' \in {presence} \cup
       {NoOne : k \in {j \in Controllers : \/ Alive(j) /\ presence = j
                                          \/ ctl[j].life = "clearing"}}
  /\ ctl' = [k \in Controllers |->
               IF Alive(k) THEN Left(k, "exited") ELSE ctl[k]]
  /\ call' = [c \in Calls |-> IF call[c].pc = "idle" THEN call[c]
                              ELSE Done(c)]
  /\ UNCHANGED <<request, result, shared>>

Next ==
  \/ \E k \in Controllers : ControllerStep(k)
  \/ \E c \in Calls : Look(c) \/ Unreadable(c) \/ CallStep(c) \/ Abandon(c)
  \/ Tick
  \/ Reboot

Spec == Init /\ [][Next]_vars

----------------------------------------------------------------------------
(* Properties                                                              *)

\* A call that asked reports success only when a controller took this very
\* request and closed its window: late answers to earlier calls, answers lost
\* or overwritten and controllers that exit meanwhile count for nothing.
SuccessIsEarned ==
  \A c \in Calls :
    call[c].answer = "closed" =>
      \E k \in Controllers : ctl[k].token = c /\ ctl[k].app = "closed"

\* "release-session closes the configured application": when a call reports
\* success, each controller that was registered as it began has closed its
\* window or is exiting, although its marker may have been deleted by the one
\* that went before it.  Two that ran at a time and shared one marker are out.
SuccessMeansGone ==
  [][\A c \in Calls :
       call[c].answer = "no" /\ call'[c].answer # "no" =>
         \A k \in call[c].here \ shared :
           ~Running(k) \/ ctl[k].app = "closed"]_vars

\* The start tick keeps requests of the past from closing the application of
\* a later session: a controller takes only requests made after its launch,
\* as long as the host was not restarted in between.
NoStaleClose ==
  [][\A k \in Controllers :
       LET c == ctl'[k].token IN
       ctl[k].token = NoOne /\ c # NoOne /\ call[c].boot = boot =>
         k \in call[c].known]_vars

\* The marker of a controller that goes on running is deleted only by one who
\* read another token in it, and so before it was written: a controller that
\* goes, or a call that finds that other one dead; or by a call that fails to
\* read it.  Nobody who looks later deletes it.
MarkerIsKept ==
  [][\A k \in Controllers :
       /\ presence = k /\ presence' = NoOne
       /\ Registered(k) /\ Registered(k)'
       => \/ \E j \in Controllers : /\ ctl[j].life = "clearing"
                                    /\ ctl[j].saw # k
                                    /\ ctl'[j].life = "exited"
          \/ \E c \in Calls : /\ call[c].pc = "judging"
                              /\ call[c].saw # k
                              /\ call'[c].pc = "done"
          \/ faults' # faults]_vars

=============================================================================
