------------------------ MODULE CloseHandshakeProofs ------------------------
(***************************************************************************)
(* The close handshake for any calls, controllers, ticks, reboots and      *)
(* number of faults: a success is earned and means that the application is *)
(* gone, stale requests close nothing, and a marker goes for a reason.     *)
(***************************************************************************)
EXTENDS CloseHandshake, TLAPS

\* A controller took this very request, closed its window and will not try
\* again
Earned(c) ==
  \E k \in Controllers :
    ctl[k].token = c /\ ctl[k].app = "closed" /\ ctl[k].task # "closing"

\* A success is earned from the moment a controller writes its answer, long
\* before the call reads it, and stays so whatever the controller does next.
\* A controller about to delete the marker has read its own token in it
EarnedInv ==
  /\ \A k \in Controllers :
       /\ ctl[k].token # NoOne => ctl[k].life \in {"watching", "clearing", "exited"}
       /\ ctl[k].task # "none" => ctl[k].token # NoOne
       /\ ctl[k].life = "clearing" => ctl[k].saw = k
  /\ result.by \in Calls /\ result.ok => Earned(result.by)
  /\ \A c \in Calls :
       /\ call[c].closed \/ call[c].answer = "closed" => Earned(c)
       /\ call[c].pc = "clearing" => call[c].closed

\* Controllers that run at a time have shared the marker; so have one that a
\* call found and goes on running, and another that takes its request
SharedInv ==
  /\ \A j, k \in Controllers : j # k /\ Running(j) /\ Running(k) => j \in shared
  /\ \A c \in Calls : call[c].pc = "idle" =>
       request # c /\ \A k \in Controllers : ctl[k].token # c
  /\ \A c \in Calls : \A k \in call[c].here : ctl[k].life # "off"
  /\ \A c \in Calls : \A j, k \in Controllers :
       ctl[j].token = c /\ k \in call[c].here /\ Running(k) /\ k # j =>
         k \in shared

\* A controller that was not there when a call made its token was launched no
\* earlier, by the ticks of one boot
ClockInv ==
  \A c \in Calls :
    /\ call[c].pc = "idle" => call[c].tick = 0
    /\ call[c].boot <= boot
    /\ call[c].boot = boot =>
         /\ call[c].tick <= now
         /\ \A k \in Controllers \ call[c].known :
              Running(k) => ctl[k].start >= call[c].tick

HandshakeInv == TypeOK /\ EarnedInv /\ SharedInv /\ ClockInv

LEMMA NoOneIsNobody == NoOne \notin Calls /\ NoOne \notin Controllers
  BY HandshakeAssumption DEF HandshakeAssumption

LEMMA HandshakeInvInit == Init => HandshakeInv
<1> SUFFICES ASSUME Init PROVE HandshakeInv
  OBVIOUS
<1> USE HandshakeAssumption DEF HandshakeAssumption, Init
<1>1. 0 \in 0..MaxTick /\ 0 \in 0..MaxBoots /\ 0 \in 0..MaxFaults
  OBVIOUS
<1>2. /\ ctl \in [Controllers -> Controller]
      /\ \A k \in Controllers : /\ ctl[k].life = "off"
                                /\ ctl[k].token = NoOne
                                /\ ctl[k].task = "none"
  BY <1>1 DEF Controller
<1>3. /\ call \in [Calls -> Call]
      /\ \A c \in Calls : /\ call[c].pc = "idle"
                          /\ ~call[c].closed /\ call[c].answer = "no"
                          /\ call[c].here = {}
                          /\ call[c].tick = 0 /\ call[c].boot = 0
  BY <1>1 DEF Call
<1>4. TypeOK
  BY <1>1, <1>2, <1>3 DEF TypeOK, NoResult
<1>5. EarnedInv
  BY <1>2, <1>3 DEF EarnedInv, NoResult
<1>6. SharedInv
  BY <1>2, <1>3 DEF SharedInv, Running
<1>7. ClockInv
  BY <1>2, <1>3 DEF ClockInv, Running
<1> QED
  BY <1>4, <1>5, <1>6, <1>7 DEF HandshakeInv

----------------------------------------------------------------------------
(* What most steps of a controller, and most steps of a call, leave alone  *)

\* A controller that goes on or ends: it takes no request, writes no answer,
\* and what it has closed stays closed
LEMMA ControllerGoesOn ==
  ASSUME HandshakeInv, NEW k \in Controllers,
         UNCHANGED <<result, call, host, shared>>,
         request' \in {request, NoOne},
         \A j \in Controllers \ {k} : ctl'[j] = ctl[j],
         ctl'[k].token = ctl[k].token,
         ctl'[k].life # "off",
         ctl'[k].life = "clearing" => ctl'[k].saw = k,
         ctl[k].task = "none" => ctl'[k].task = "none",
         Running(k)' => Running(k) /\ ctl'[k].start = ctl[k].start,
         ctl[k].token # NoOne =>
           /\ ctl'[k].life \in {"watching", "clearing", "exited"}
           /\ ctl[k].app = "closed" /\ ctl[k].task # "closing" =>
                ctl'[k].app = "closed" /\ ctl'[k].task # "closing"
  PROVE  EarnedInv' /\ SharedInv' /\ ClockInv'
<1> USE HandshakeAssumption DEF HandshakeAssumption, HandshakeInv, host
<1>1. \A c \in Calls : Earned(c) => Earned(c)'
  BY DEF Earned
<1>2. \A j \in Controllers : Running(j)' => Running(j) /\ ctl'[j].start = ctl[j].start
  BY DEF Running
<1>3. \A j \in Controllers : ctl'[j].token = ctl[j].token
  OBVIOUS
<1>4. EarnedInv'
  BY <1>1, <1>3 DEF EarnedInv
<1>5. SharedInv'
  <2>1. \A c \in Calls : call[c].here \subseteq Controllers
    BY DEF TypeOK, Call
  <2> QED
    BY <1>2, <1>3, <2>1 DEF SharedInv
<1>6. ClockInv'
  BY <1>2 DEF ClockInv
<1> QED
  BY <1>4, <1>5, <1>6

\* A call that goes on or ends without looking or making its token
LEMMA CallGoesOn ==
  ASSUME HandshakeInv, NEW c \in Calls,
         UNCHANGED <<ctl, host, shared>>,
         request' \in {request, NoOne, c}, result' \in {result, NoResult},
         \A d \in Calls \ {c} : call'[d] = call[d],
         call'[c].pc # "idle",
         call'[c].here \subseteq call[c].here,
         call'[c].tick = call[c].tick,
         call'[c].known = call[c].known,
         call'[c].boot = call[c].boot,
         call'[c].closed \/ call'[c].answer = "closed" => Earned(c),
         call'[c].pc = "clearing" => call'[c].closed
  PROVE  EarnedInv' /\ SharedInv' /\ ClockInv'
<1> USE HandshakeAssumption DEF HandshakeAssumption, HandshakeInv, host
<1>1. \A d \in Calls : Earned(d) => Earned(d)'
  BY DEF Earned
<1>2. \A j \in Controllers : Running(j)' <=> Running(j)
  BY DEF Running
<1>3. EarnedInv'
  BY <1>1 DEF EarnedInv, NoResult
<1>4. SharedInv'
  BY <1>2 DEF SharedInv
<1>5. ClockInv'
  BY <1>2 DEF ClockInv
<1> QED
  BY <1>3, <1>4, <1>5

LEMMA NoResultType == NoResult \in [by: Calls \cup {NoOne}, ok: BOOLEAN]
  BY DEF NoResult

LEMMA FaultType ==
  ASSUME TypeOK, Fault \/ NoFault PROVE faults' \in 0..MaxFaults
  BY HandshakeAssumption DEF HandshakeAssumption, TypeOK, Fault, NoFault

\* What is left of a controller that exits, at once or after it has deleted the
\* marker that it found to be its own
Gone(k, r) ==
  /\ r \in Controller
  /\ r.life \in {"clearing", "exited"} /\ r.task = "none"
  /\ r.token = ctl[k].token /\ r.app \in {ctl[k].app, "closed"}
  /\ r.life = "clearing" => r.saw = k

LEMMA LeftFacts ==
  ASSUME TypeOK, NEW k \in Controllers
  PROVE  /\ Left(k, "exited") \in Controller
         /\ Left(k, "exited").life = "exited"
         /\ Left(k, "exited").task = "none"
         /\ Left(k, "exited").token = ctl[k].token
         /\ Left(k, "exited").app = ctl[k].app
         /\ Gone(k, Left(k, "exited"))
<1> DEFINE r == Left(k, "exited")
<1>1. 0 \in 0..MaxTick /\ ctl[k] \in Controller
  BY HandshakeAssumption DEF HandshakeAssumption, TypeOK
<1>2. r = [ctl[k] EXCEPT !.life = "exited", !.task = "none", !.start = 0,
                         !.saw = NoOne]
  BY DEF Left
<1> HIDE DEF r
<1>3. /\ r \in Controller /\ r.life = "exited" /\ r.task = "none"
      /\ r.token = ctl[k].token /\ r.app = ctl[k].app
  BY <1>1, <1>2 DEF Controller
<1>4. Gone(k, r)
  BY <1>3 DEF Gone
<1> QED
  BY <1>3, <1>4 DEF r

LEMMA LeavingFacts ==
  ASSUME TypeOK, NEW k \in Controllers, NEW left \in {ctl[k].app, "closed"},
         NEW r, r = Leaving(k) \/ r = [Leaving(k) EXCEPT !.app = left]
  PROVE  Gone(k, r)
<1>1. 0 \in 0..MaxTick /\ ctl[k] \in Controller
      /\ left \in {"none", "open", "closed"}
  BY HandshakeAssumption DEF HandshakeAssumption, TypeOK, Controller
<1>2. CASE ReadsOwn(k)
  BY <1>1, <1>2 DEF Controller, Leaving, Left, ReadsOwn, Gone
<1>3. CASE ~ReadsOwn(k)
  BY <1>1, <1>3 DEF Controller, Leaving, Left, Gone
<1> QED
  BY <1>2, <1>3

\* A call that is done keeps its token's tick, boot and witnesses
LEMMA DoneFacts ==
  ASSUME TypeOK, NEW c \in Calls
  PROVE  /\ Done(c) \in Call
         /\ Done(c).pc = "done" /\ ~Done(c).closed /\ Done(c).here = {}
         /\ Done(c).answer = call[c].answer /\ Done(c).tick = call[c].tick
         /\ Done(c).known = call[c].known /\ Done(c).boot = call[c].boot
<1>1. call[c] \in Call
  BY DEF TypeOK
<1>2. Done(c) = [call[c] EXCEPT !.pc = "done", !.saw = NoOne,
                                !.closed = FALSE, !.here = {}]
  BY DEF Done
<1> QED
  BY <1>1, <1>2 DEF Call

----------------------------------------------------------------------------
(* One lemma per group of actions                                          *)

LEMMA StepOfLifeKeepsInv ==
  ASSUME HandshakeInv, NEW k \in Controllers, Register(k) \/ Watch(k)
  PROVE  HandshakeInv'
<1> USE DEF HandshakeInv
<1>1. PICK l \in {"starting", "watching"}, a \in {ctl[k].app, "open"} :
        ctl' = [ctl EXCEPT ![k] = [life |-> l, start |-> ctl[k].start,
                                   token |-> ctl[k].token,
                                   task |-> ctl[k].task, app |-> a,
                                   saw |-> ctl[k].saw]]
  BY DEF TypeOK, Controller, Register, Watch
<1>2. /\ ctl[k].life \in {"loading", "starting"}
      /\ ctl[k].token = NoOne
  BY DEF Register, Watch, EarnedInv
<1>3. /\ ctl' \in [Controllers -> Controller]
      /\ \A j \in Controllers \ {k} : ctl'[j] = ctl[j]
      /\ ctl'[k].token = ctl[k].token /\ ctl'[k].start = ctl[k].start
      /\ ctl'[k].task = ctl[k].task
      /\ ctl'[k].life \in {"starting", "watching"}
  BY <1>1 DEF TypeOK, Controller
<1>4. UNCHANGED <<request, result, call, host, shared>>
  BY DEF Register, Watch, files
<1>5. TypeOK'
  <2>1. faults' \in 0..MaxFaults
    BY FaultType DEF Register, Watch, NoFault
  <2>2. presence' \in Controllers \cup {NoOne}
    BY DEF TypeOK, Register, Watch, files
  <2> QED
    BY <1>3, <1>4, <2>1, <2>2 DEF TypeOK, host
<1>6. Running(k)
  BY <1>2 DEF Running
<1> QED
  BY <1>2, <1>3, <1>4, <1>5, <1>6, ControllerGoesOn

LEMMA ExitStep ==
  ASSUME TypeOK, NEW k \in Controllers,
         \/ StartFails(k) \/ SessionEnds(k) \/ DeleteMarker(k) \/ Kill(k)
         \/ Leave(k)
  PROVE  \E r : ctl' = [ctl EXCEPT ![k] = r] /\ Gone(k, r)
<1>1. CASE SessionEnds(k)
  BY <1>1, LeavingFacts DEF SessionEnds
<1>2. CASE StartFails(k) \/ Leave(k)
  BY <1>2, LeavingFacts DEF StartFails, Leave
<1>3. CASE Kill(k) \/ DeleteMarker(k)
  BY <1>3, LeftFacts DEF Kill, DeleteMarker
<1> QED
  BY <1>1, <1>2, <1>3

LEMMA ExitKeepsInv ==
  ASSUME HandshakeInv, NEW k \in Controllers,
         \/ StartFails(k) \/ SessionEnds(k) \/ DeleteMarker(k) \/ Kill(k)
         \/ Leave(k)
  PROVE  HandshakeInv'
<1> USE DEF HandshakeInv
<1>1. PICK r : ctl' = [ctl EXCEPT ![k] = r] /\ Gone(k, r)
  BY ExitStep
<1>2. /\ ctl' \in [Controllers -> Controller] /\ ctl'[k] = r
      /\ \A j \in Controllers \ {k} : ctl'[j] = ctl[j]
  BY <1>1 DEF TypeOK, Gone
<1>3. UNCHANGED <<request, result, call, host, shared>>
  BY DEF StartFails, SessionEnds, DeleteMarker, Kill, Leave, files
<1>4. TypeOK'
  <2>1. presence' \in Controllers \cup {NoOne}
    BY DEF TypeOK, StartFails, SessionEnds, DeleteMarker, Kill, Leave, files
  <2>2. faults' \in 0..MaxFaults
    BY FaultType DEF StartFails, SessionEnds, DeleteMarker, Kill, Leave, NoFault
  <2> QED
    BY <1>2, <1>3, <2>1, <2>2 DEF TypeOK, host
<1>5. ~Running(k)'
  BY <1>1, <1>2 DEF Running, Gone
<1>6. /\ ctl'[k].token = ctl[k].token
      /\ ctl'[k].life \in {"clearing", "exited"} /\ ctl'[k].task = "none"
      /\ ctl'[k].app \in {ctl[k].app, "closed"}
      /\ ctl'[k].life = "clearing" => ctl'[k].saw = k
  BY <1>1, <1>2 DEF Gone
<1> QED
  BY <1>2, <1>3, <1>4, <1>5, <1>6, ControllerGoesOn

LEMMA LaunchedFacts ==
  ASSUME TypeOK, NEW k \in Controllers,
         ctl' = [ctl EXCEPT ![k].life = "loading", ![k].start = now]
  PROVE  /\ ctl' \in [Controllers -> Controller]
         /\ \A j \in Controllers \ {k} : ctl'[j] = ctl[j]
         /\ ctl'[k].life = "loading" /\ ctl'[k].start = now
         /\ ctl'[k].token = ctl[k].token /\ ctl'[k].task = ctl[k].task
<1> DEFINE r == [ctl[k] EXCEPT !.life = "loading", !.start = now]
<1>1. /\ ctl \in [Controllers -> Controller] /\ ctl[k] \in Controller
      /\ now \in 0..MaxTick
  BY DEF TypeOK
<1>2. /\ r \in Controller /\ r.life = "loading" /\ r.start = now
      /\ r.token = ctl[k].token /\ r.task = ctl[k].task
  BY <1>1 DEF Controller
<1>3. ctl' = [ctl EXCEPT ![k] = r]
  BY <1>1
<1> HIDE DEF r
<1> QED
  BY <1>1, <1>2, <1>3

LEMMA LaunchKeepsInv ==
  ASSUME HandshakeInv, NEW k \in Controllers, Launch(k) PROVE HandshakeInv'
<1> USE DEF HandshakeInv, host, files
<1>1. /\ ctl[k].life = "off" /\ ctl[k].token = NoOne
      /\ ~Running(k)
  BY DEF Launch, EarnedInv, Running
<1>2. /\ ctl' \in [Controllers -> Controller]
      /\ \A j \in Controllers \ {k} : ctl'[j] = ctl[j]
      /\ ctl'[k].life = "loading" /\ ctl'[k].start = now
      /\ ctl'[k].token = NoOne /\ ctl'[k].task = ctl[k].task
  <2>1. ctl' = [ctl EXCEPT ![k].life = "loading", ![k].start = now]
    BY DEF Launch
  <2> QED
    BY <1>1, <2>1, LaunchedFacts
<1>3. UNCHANGED <<files, call, host, faults>>
  BY DEF Launch
<1>4. /\ shared \subseteq shared' /\ shared' \subseteq Controllers
      /\ \A j \in Controllers : Running(j) => j \in shared' /\ k \in shared'
  BY DEF TypeOK, Launch
<1>5. TypeOK'
  BY <1>2, <1>3, <1>4 DEF TypeOK
<1>6. \A j \in Controllers : Running(j)' <=> j = k \/ Running(j)
  BY <1>2 DEF Running
<1>7. EarnedInv'
  <2>1. \A c \in Calls : Earned(c) => Earned(c)'
    BY <1>1, <1>2, NoOneIsNobody DEF Earned
  <2> QED
    BY <1>1, <1>2, <1>3, <2>1 DEF EarnedInv
<1>8. SharedInv'
  <2>1. \A i, j \in Controllers : i # j /\ Running(i)' /\ Running(j)' => i \in shared'
    BY <1>4, <1>6 DEF SharedInv
  <2>2. \A j \in Controllers : ctl'[j].token = ctl[j].token
    BY <1>1, <1>2
  <2>3. \A c \in Calls : call[c].pc = "idle" =>
          request # c /\ \A j \in Controllers : ctl'[j].token # c
    BY <2>2 DEF SharedInv
  <2>4. ASSUME NEW c \in Calls, NEW i \in Controllers, NEW j \in Controllers,
               ctl'[i].token = c, j \in call[c].here, Running(j)', j # i
        PROVE  j \in shared'
    <3>1. CASE Running(j)
      BY <1>4, <3>1
    <3>2. j # k
      BY <1>1, <2>4 DEF SharedInv
    <3> QED
      BY <1>6, <2>4, <3>1, <3>2
  <2>5. \A c \in Calls : \A j \in call[c].here : ctl'[j].life # "off"
    BY <1>2 DEF TypeOK, Call, SharedInv
  <2> QED
    BY <1>3, <2>1, <2>3, <2>4, <2>5 DEF SharedInv
<1>9. ClockInv'
  BY <1>2, <1>3, <1>6 DEF TypeOK, Call, ClockInv
<1> QED
  BY <1>5, <1>7, <1>8, <1>9

LEMMA TaskKeepsInv ==
  ASSUME HandshakeInv, NEW k \in Controllers, Close(k) \/ DeleteRequest(k)
  PROVE  HandshakeInv'
<1> USE DEF HandshakeInv
<1>1. PICK t \in {"answering", "leaving", "none"},
           a \in {"none", "open", "closed"} :
        ctl' = [ctl EXCEPT ![k] = [life |-> ctl[k].life,
                                   start |-> ctl[k].start,
                                   token |-> ctl[k].token,
                                   task |-> t, app |-> a,
                                   saw |-> ctl[k].saw]]
  BY DEF TypeOK, Controller, Close, DeleteRequest
<1>2. ctl[k].task = "closing" \/ a = ctl[k].app
  BY <1>1 DEF TypeOK, Controller, DeleteRequest, Close
<1>3. /\ ctl' \in [Controllers -> Controller]
      /\ \A j \in Controllers \ {k} : ctl'[j] = ctl[j]
      /\ ctl'[k].token = ctl[k].token /\ ctl'[k].start = ctl[k].start
      /\ ctl'[k].life = ctl[k].life /\ ctl'[k].saw = ctl[k].saw
      /\ ctl'[k].task # "closing" /\ ctl'[k].app = a
  BY <1>1 DEF TypeOK, Controller
<1>4. UNCHANGED <<presence, result, call, host, shared>>
  BY DEF Close, DeleteRequest, files
<1>5. request' \in {request, NoOne}
  BY DEF Close, DeleteRequest, files
<1>6. TypeOK'
  <2>1. faults' \in 0..MaxFaults
    BY FaultType DEF Close, DeleteRequest, NoFault
  <2> QED
    BY <1>3, <1>4, <1>5, <2>1 DEF TypeOK, host
<1>7. /\ ctl[k].task # "none" /\ ctl[k].life # "off"
      /\ ctl[k].life = "clearing" => ctl[k].saw = k
  BY DEF Close, DeleteRequest, EarnedInv
<1> QED
  BY <1>2, <1>3, <1>4, <1>5, <1>6, <1>7, ControllerGoesOn DEF Running, EarnedInv

\* The controller that takes a request shares the marker with every other one
\* that runs, those that the call has found included
LEMMA TakeKeepsInv ==
  ASSUME HandshakeInv, NEW k \in Controllers, TakeRequest(k)
  PROVE  HandshakeInv'
<1> USE DEF HandshakeInv, host, files
<1>1. /\ ctl[k].life = "watching" /\ ctl[k].token = NoOne
      /\ request \in Calls
      /\ Running(k)
  BY DEF TypeOK, TakeRequest, Running
<1>2. /\ ctl' \in [Controllers -> Controller]
      /\ \A j \in Controllers \ {k} : ctl'[j] = ctl[j]
      /\ ctl'[k].life = "watching" /\ ctl'[k].start = ctl[k].start
      /\ ctl'[k].token = request
  <2> DEFINE r == [ctl[k] EXCEPT !.token = request, !.task = "closing"]
  <2>1. ctl \in [Controllers -> Controller] /\ ctl[k] \in Controller
    BY DEF TypeOK
  <2>2. /\ r \in Controller /\ r.life = "watching"
        /\ r.start = ctl[k].start /\ r.token = request
    BY <1>1, <2>1 DEF Controller
  <2>3. ctl' = [ctl EXCEPT ![k] = r]
    BY <2>1 DEF TakeRequest
  <2> HIDE DEF r
  <2> QED
    BY <2>1, <2>2, <2>3
<1>3. UNCHANGED <<files, call, host, faults, shared>>
  BY DEF TakeRequest
<1>4. TypeOK'
  BY <1>2, <1>3 DEF TypeOK
<1>5. \A j \in Controllers : Running(j)' <=> Running(j)
  BY <1>1, <1>2 DEF Running
<1>6. EarnedInv'
  <2>1. \A c \in Calls : Earned(c) => Earned(c)'
    BY <1>1, <1>2, NoOneIsNobody DEF Earned
  <2> QED
    BY <1>1, <1>2, <1>3, <2>1, NoOneIsNobody DEF EarnedInv
<1>7. SharedInv'
  <2>1. \A c \in Calls : call[c].here \subseteq Controllers
    BY DEF TypeOK, Call
  <2>2. \A c \in Calls : call[c].pc = "idle" =>
          request # c /\ \A j \in Controllers : ctl'[j].token # c
    BY <1>2 DEF SharedInv
  <2>3. \A c \in Calls : \A j \in call[c].here : ctl'[j].life # "off"
    BY <1>2, <2>1 DEF SharedInv
  <2>4. ASSUME NEW c \in Calls, NEW i \in Controllers, NEW j \in Controllers,
               ctl'[i].token = c, j \in call[c].here, Running(j), j # i
        PROVE  j \in shared
    BY <1>1, <1>2, <2>4 DEF SharedInv
  <2> QED
    BY <1>3, <1>5, <2>2, <2>3, <2>4 DEF SharedInv
<1>8. ClockInv'
  BY <1>1, <1>2, <1>3, <1>5 DEF ClockInv
<1> QED
  BY <1>4, <1>6, <1>7, <1>8

LEMMA AnswerKeepsInv ==
  ASSUME HandshakeInv, NEW k \in Controllers, AnswerCall(k)
  PROVE  HandshakeInv'
<1> USE DEF HandshakeInv, host
<1>1. ctl[k].task = "answering" /\ ctl[k].life \in {"watching", "clearing", "exited"}
  BY DEF AnswerCall, EarnedInv
<1>2. /\ ctl' \in [Controllers -> Controller]
      /\ \A j \in Controllers \ {k} : ctl'[j] = ctl[j]
      /\ ctl'[k].life = ctl[k].life /\ ctl'[k].start = ctl[k].start
      /\ ctl'[k].token = ctl[k].token /\ ctl'[k].app = ctl[k].app
      /\ ctl'[k].task = "tidying" /\ ctl'[k].saw = ctl[k].saw
  BY DEF TypeOK, Controller, AnswerCall
<1>3. UNCHANGED <<presence, request, call, host, shared>>
  BY DEF AnswerCall
<1>4. /\ result' \in [by: Calls \cup {NoOne}, ok: BOOLEAN]
      /\ \/ result' = result
         \/ /\ result'.by = ctl[k].token
            /\ result'.ok => ctl[k].app = "closed"
  <2> DEFINE closed == ctl[k].app = "closed"
  <2>1. CASE result' = [by |-> ctl[k].token, ok |-> closed]
    <3>1. ctl[k].token \in Calls \cup {NoOne} /\ closed \in BOOLEAN
      BY DEF TypeOK, Controller
    <3> HIDE DEF closed
    <3>2. result'.by = ctl[k].token /\ (result'.ok => closed)
      BY <2>1
    <3> QED
      BY <2>1, <3>1, <3>2 DEF closed
  <2>2. CASE UNCHANGED result
    BY <2>2 DEF TypeOK
  <2> QED
    BY <2>1, <2>2 DEF AnswerCall
<1>5. faults' \in 0..MaxFaults
  BY FaultType DEF AnswerCall
<1>6. TypeOK'
  BY <1>2, <1>3, <1>4, <1>5 DEF TypeOK
<1>7. \A j \in Controllers : /\ Running(j)' <=> Running(j)
                             /\ ctl'[j].token = ctl[j].token
                             /\ ctl'[j].life = ctl[j].life
                             /\ ctl'[j].saw = ctl[j].saw
                             /\ ctl'[j].start = ctl[j].start
  BY <1>2 DEF Running
<1>8. EarnedInv'
  <2>1. \A c \in Calls : Earned(c) => Earned(c)'
    BY <1>1, <1>2 DEF Earned
  <2>2. \A c \in Calls :
          c = ctl[k].token /\ ctl[k].app = "closed" => Earned(c)'
    BY <1>2 DEF Earned
  <2>3. ASSUME result'.by \in Calls, result'.ok PROVE Earned(result.by)'
    <3>1. CASE result' = result
      BY <2>1, <2>3, <3>1 DEF EarnedInv
    <3>2. CASE result'.by = ctl[k].token /\ (result'.ok => ctl[k].app = "closed")
      BY <2>2, <2>3, <3>2
    <3> QED
      BY <1>4, <3>1, <3>2
  <2>4. \A j \in Controllers :
          ctl'[j].task # "none" => ctl'[j].token # NoOne
    BY <1>1, <1>2 DEF EarnedInv
  <2> QED
    BY <1>3, <1>7, <2>1, <2>3, <2>4 DEF EarnedInv
<1>9. SharedInv'
  <2>1. \A c \in Calls : call[c].here \subseteq Controllers
    BY DEF TypeOK, Call
  <2> QED
    BY <1>3, <1>7, <2>1 DEF SharedInv
<1>10. ClockInv'
  BY <1>3, <1>7 DEF ClockInv
<1> QED
  BY <1>6, <1>8, <1>9, <1>10

----------------------------------------------------------------------------
(* The steps of a call                                                     *)

LEMMA LookedFacts ==
  ASSUME TypeOK, NEW c \in Calls, NEW p \in {"absent", "judging"},
         NEW S \in SUBSET Controllers,
         NEW r, r = [call[c] EXCEPT !.pc = p, !.saw = presence, !.here = S],
         call' = [call EXCEPT ![c] = r]
  PROVE  /\ call' \in [Calls -> Call]
         /\ \A d \in Calls \ {c} : call'[d] = call[d]
         /\ call'[c].pc = p /\ call'[c].here = S
         /\ call'[c].tick = call[c].tick /\ call'[c].boot = call[c].boot
         /\ call'[c].closed = call[c].closed
         /\ call'[c].answer = call[c].answer
<1>1. /\ call \in [Calls -> Call] /\ call[c] \in Call
      /\ presence \in Controllers \cup {NoOne}
  BY DEF TypeOK
<1>2. /\ r \in Call
      /\ r.pc = p /\ r.here = S /\ r.boot = call[c].boot
      /\ r.tick = call[c].tick /\ r.closed = call[c].closed
      /\ r.answer = call[c].answer
  BY <1>1 DEF Call
<1>3. /\ call' \in [Calls -> Call] /\ call'[c] = r
      /\ \A d \in Calls \ {c} : call'[d] = call[d]
  BY <1>1, <1>2
<1> QED
  BY <1>2, <1>3

LEMMA TokenFacts ==
  ASSUME TypeOK, NEW c \in Calls, NEW S \in SUBSET Controllers,
         NEW r, r = [call[c] EXCEPT !.pc = "ready", !.tick = now,
                                    !.boot = boot, !.known = S],
         call' = [call EXCEPT ![c] = r]
  PROVE  /\ call' \in [Calls -> Call]
         /\ \A d \in Calls \ {c} : call'[d] = call[d]
         /\ call'[c].pc = "ready"
         /\ call'[c].here = call[c].here
         /\ call'[c].tick = now /\ call'[c].boot = boot
         /\ call'[c].known = S
         /\ call'[c].closed = call[c].closed
         /\ call'[c].answer = call[c].answer
<1>1. /\ call \in [Calls -> Call] /\ call[c] \in Call
      /\ now \in 0..MaxTick /\ boot \in 0..MaxBoots
  BY DEF TypeOK
<1>2. /\ r \in Call
      /\ r.pc = "ready" /\ r.here = call[c].here /\ r.known = S
      /\ r.tick = now /\ r.boot = boot
      /\ r.closed = call[c].closed /\ r.answer = call[c].answer
  BY <1>1 DEF Call
<1>3. /\ call' \in [Calls -> Call] /\ call'[c] = r
      /\ \A d \in Calls \ {c} : call'[d] = call[d]
  BY <1>1, <1>2
<1> QED
  BY <1>2, <1>3

\* The call has found everybody who runs, and nobody has its request yet
LEMMA LookKeepsInv ==
  ASSUME HandshakeInv, NEW c \in Calls, Look(c) PROVE HandshakeInv'
<1> USE DEF HandshakeInv, host, files
<1> DEFINE found == {k \in Controllers : ctl[k].life \in {"starting", "watching"}}
<1>1. call[c].pc = "idle" /\ call[c].tick = 0
  BY DEF Look, ClockInv
<1>2. /\ call' \in [Calls -> Call]
      /\ \A d \in Calls \ {c} : call'[d] = call[d]
      /\ call'[c].pc \in {"absent", "judging"}
      /\ call'[c].here = found
      /\ call'[c].tick = 0 /\ call'[c].boot = call[c].boot
      /\ call'[c].closed = call[c].closed
      /\ call'[c].answer = call[c].answer
  <2>1. found \in SUBSET Controllers
    OBVIOUS
  <2>2. PICK p \in {"absent", "judging"} :
          call' = [call EXCEPT ![c] =
                     [call[c] EXCEPT !.pc = p, !.saw = presence,
                                     !.here = found]]
    BY DEF Look, TypeOK, Registered
  <2> HIDE DEF found
  <2> QED
    BY <1>1, <2>1, <2>2, LookedFacts
<1>3. UNCHANGED <<files, ctl, host, faults, shared>>
  BY DEF Look
<1>4. TypeOK'
  BY <1>2, <1>3 DEF TypeOK
<1>5. \A k \in Controllers : Running(k)' <=> Running(k)
  BY <1>3 DEF Running
<1>6. EarnedInv'
  <2>1. \A d \in Calls : Earned(d) => Earned(d)'
    BY <1>3 DEF Earned
  <2> QED
    BY <1>2, <1>3, <2>1 DEF EarnedInv
<1>7. SharedInv'
  BY <1>1, <1>2, <1>3, <1>5 DEF SharedInv
<1>8. ClockInv'
  BY <1>2, <1>3, <1>5 DEF TypeOK, Controller, ClockInv
<1> QED
  BY <1>4, <1>6, <1>7, <1>8

\* The token is made: everybody there is known, and launched no later
LEMMA CleanUpKeepsInv ==
  ASSUME HandshakeInv, NEW c \in Calls, CleanUp(c) PROVE HandshakeInv'
<1> USE DEF HandshakeInv, host
<1> DEFINE there == {k \in Controllers : ctl[k].life # "off"}
<1>1. /\ call' \in [Calls -> Call]
      /\ \A d \in Calls \ {c} : call'[d] = call[d]
      /\ call'[c].pc = "ready"
      /\ call'[c].here = call[c].here
      /\ call'[c].tick = now /\ call'[c].boot = boot
      /\ call'[c].known = there
      /\ call'[c].closed = call[c].closed
      /\ call'[c].answer = call[c].answer
  <2>1. there \in SUBSET Controllers
    OBVIOUS
  <2>2. call' = [call EXCEPT ![c] =
                   [call[c] EXCEPT !.pc = "ready", !.tick = now,
                                   !.boot = boot, !.known = there]]
    BY DEF CleanUp, TypeOK
  <2> HIDE DEF there
  <2> QED
    BY <2>1, <2>2, TokenFacts
<1>2. /\ UNCHANGED <<presence, ctl, host, shared>>
      /\ request' \in {request, NoOne} /\ result' \in {result, NoResult}
  BY DEF CleanUp
<1>3. faults' \in 0..MaxFaults
  BY FaultType DEF CleanUp
<1>4. TypeOK'
  BY <1>1, <1>2, <1>3, NoResultType DEF TypeOK
<1>5. \A k \in Controllers : Running(k)' <=> Running(k)
  BY <1>2 DEF Running
<1>6. EarnedInv'
  <2>1. \A d \in Calls : Earned(d) => Earned(d)'
    BY <1>2 DEF Earned
  <2> QED
    BY <1>1, <1>2, <2>1 DEF EarnedInv, NoResult
<1>7. SharedInv'
  BY <1>1, <1>2, <1>5, NoOneIsNobody DEF SharedInv
<1>8. ClockInv'
  <2>1. \A k \in Controllers \ there : ~Running(k)
    BY DEF Running
  <2> QED
    BY <1>1, <1>2, <1>5, <2>1 DEF TypeOK, ClockInv
<1> QED
  BY <1>4, <1>6, <1>7, <1>8

\* A step to a given place, with everything else of the call kept
LEMMA PlacedFacts ==
  ASSUME TypeOK, NEW c \in Calls, NEW b \in BOOLEAN,
         NEW p \in {"seen", "asked", "tidy", "clearing"},
         NEW r, r = [call[c] EXCEPT !.pc = p, !.closed = b],
         call' = [call EXCEPT ![c] = r]
  PROVE  /\ call' \in [Calls -> Call]
         /\ \A d \in Calls \ {c} : call'[d] = call[d]
         /\ call'[c].pc = p /\ call'[c].closed = b
         /\ call'[c].here = call[c].here /\ call'[c].known = call[c].known
         /\ call'[c].tick = call[c].tick /\ call'[c].boot = call[c].boot
         /\ call'[c].answer = call[c].answer
<1>1. call \in [Calls -> Call] /\ call[c] \in Call
  BY DEF TypeOK
<1>2. /\ r \in Call
      /\ r.pc = p /\ r.closed = b
      /\ r.here = call[c].here /\ r.known = call[c].known
      /\ r.tick = call[c].tick /\ r.boot = call[c].boot
      /\ r.answer = call[c].answer
  BY <1>1 DEF Call
<1>3. /\ call' \in [Calls -> Call] /\ call'[c] = r
      /\ \A d \in Calls \ {c} : call'[d] = call[d]
  BY <1>1, <1>2
<1> QED
  BY <1>2, <1>3

\* The call moves on, or takes the answer that is its own
LEMMA PlaceKeepsInv ==
  ASSUME HandshakeInv, NEW c \in Calls, NEW b \in BOOLEAN,
         NEW p \in {"seen", "asked", "tidy", "clearing"},
         call' = [call EXCEPT ![c] = [call[c] EXCEPT !.pc = p, !.closed = b]],
         UNCHANGED <<presence, ctl, host, shared>>,
         request' \in {request, NoOne, c}, result' \in {result, NoResult},
         Fault \/ NoFault,
         b => Earned(c),
         p = "clearing" => b
  PROVE  HandshakeInv'
<1> USE DEF HandshakeInv
<1>1. /\ call' \in [Calls -> Call]
      /\ \A d \in Calls \ {c} : call'[d] = call[d]
      /\ call'[c].pc = p /\ call'[c].closed = b
      /\ call'[c].here = call[c].here /\ call'[c].known = call[c].known
      /\ call'[c].tick = call[c].tick /\ call'[c].boot = call[c].boot
      /\ call'[c].answer = call[c].answer
  BY PlacedFacts
<1>2. TypeOK'
  BY <1>1, FaultType, NoResultType DEF TypeOK, host
<1>3. call'[c].closed \/ call'[c].answer = "closed" => Earned(c)
  BY <1>1 DEF EarnedInv
<1> QED
  BY <1>1, <1>2, <1>3, CallGoesOn

\* The call returns, with an answer that is earned, or is killed
LEMMA ReturnKeepsInv ==
  ASSUME HandshakeInv, NEW c \in Calls, NEW r,
         \/ r = Done(c)
         \/ \E a \in {"no", "clear", "closed"} :
              r = [Done(c) EXCEPT !.answer = a] /\ (a = "closed" => Earned(c)),
         call' = [call EXCEPT ![c] = r],
         presence' \in {presence, NoOne},
         UNCHANGED <<ctl, host, shared>>,
         request' \in {request, NoOne}, result' \in {result, NoResult},
         Fault \/ NoFault
  PROVE  HandshakeInv'
<1>1. TypeOK /\ EarnedInv
  BY DEF HandshakeInv
<1>2. /\ r \in Call
      /\ r.pc = "done" /\ ~r.closed /\ r.here = {}
      /\ r.tick = call[c].tick /\ r.known = call[c].known
      /\ r.boot = call[c].boot
      /\ r.answer = "closed" => r.answer = call[c].answer \/ Earned(c)
  <2>1. CASE r = Done(c)
    BY <1>1, <2>1, DoneFacts
  <2>2. ASSUME NEW a \in {"no", "clear", "closed"},
               r = [Done(c) EXCEPT !.answer = a], a = "closed" => Earned(c)
        PROVE  <1>2
    <3>1. /\ r \in Call
          /\ r.pc = "done" /\ ~r.closed /\ r.here = {} /\ r.answer = a
          /\ r.tick = call[c].tick /\ r.known = call[c].known
          /\ r.boot = call[c].boot
      BY <1>1, <2>2, DoneFacts DEF Call
    <3> QED
      BY <2>2, <3>1
  <2> QED
    BY <2>1, <2>2
<1>3. /\ call' \in [Calls -> Call] /\ call'[c] = r
      /\ \A d \in Calls \ {c} : call'[d] = call[d]
  BY <1>1, <1>2 DEF TypeOK
<1>4. TypeOK'
  BY <1>1, <1>3, FaultType, NoResultType DEF TypeOK, host
<1>5. call'[c].closed \/ call'[c].answer = "closed" => Earned(c)
  BY <1>1, <1>2, <1>3 DEF EarnedInv
<1>6. EarnedInv' /\ SharedInv' /\ ClockInv'
  BY <1>2, <1>3, <1>5, CallGoesOn
<1> QED
  BY <1>4, <1>6 DEF HandshakeInv

\* The three ways in which actions return
LEMMA AnsweredKeepsInv ==
  ASSUME HandshakeInv, NEW c \in Calls, NEW a \in {"no", "clear", "closed"},
         Return(c, a), a = "closed" => Earned(c),
         presence' \in {presence, NoOne},
         UNCHANGED <<ctl, host, shared>>,
         request' \in {request, NoOne}, result' \in {result, NoResult},
         Fault \/ NoFault
  PROVE  HandshakeInv'
<1> DEFINE r == [Done(c) EXCEPT !.answer = a]
<1>1. call' = [call EXCEPT ![c] = r]
  BY DEF Return
<1>2. \E b \in {"no", "clear", "closed"} :
        r = [Done(c) EXCEPT !.answer = b] /\ (b = "closed" => Earned(c))
  OBVIOUS
<1> HIDE DEF r
<1> QED
  BY <1>1, <1>2, ReturnKeepsInv

LEMMA ToFacts ==
  ASSUME TypeOK, NEW c \in Calls, NEW p, To(c, p)
  PROVE  /\ call' = [call EXCEPT ![c] =
                       [call[c] EXCEPT !.pc = p, !.closed = call[c].closed]]
         /\ call[c].closed \in BOOLEAN
<1>1. call \in [Calls -> Call] /\ call[c] \in Call
  BY DEF TypeOK
<1>2. call' = [call EXCEPT ![c] = [call[c] EXCEPT !.pc = p]]
  BY <1>1 DEF To
<1>3. [call[c] EXCEPT !.pc = p] =
        [call[c] EXCEPT !.pc = p, !.closed = call[c].closed]
  BY <1>1 DEF Call
<1>4. call[c].closed \in BOOLEAN
  BY <1>1 DEF Call
<1> QED
  BY <1>2, <1>3, <1>4

\* The call moves on
LEMMA MoveKeepsInv ==
  ASSUME HandshakeInv, NEW c \in Calls,
         NEW p \in {"seen", "asked", "tidy", "clearing"}, To(c, p),
         UNCHANGED <<presence, ctl, host, shared>>,
         request' \in {request, NoOne, c}, result' \in {result, NoResult},
         Fault \/ NoFault,
         p = "clearing" => call[c].closed
  PROVE  HandshakeInv'
<1> DEFINE b == call[c].closed
<1>1. TypeOK /\ EarnedInv
  BY DEF HandshakeInv
<1>2. /\ call' = [call EXCEPT ![c] = [call[c] EXCEPT !.pc = p, !.closed = b]]
      /\ b \in BOOLEAN
  BY <1>1, ToFacts
<1>3. b => Earned(c)
  BY <1>1 DEF EarnedInv
<1>4. p = "clearing" => b
  OBVIOUS
<1> HIDE DEF b
<1> QED
  BY <1>2, <1>3, <1>4, PlaceKeepsInv

LEMMA CallKeepsInv ==
  ASSUME HandshakeInv, NEW c \in Calls,
         Look(c) \/ Unreadable(c) \/ CallStep(c) \/ Abandon(c)
  PROVE  HandshakeInv'
<1> USE DEF files, NoFault
<1>1. CASE Look(c)
  BY <1>1, LookKeepsInv
<1>2. CASE CleanUp(c)
  BY <1>2, CleanUpKeepsInv
<1>3. CASE Unreadable(c)
  BY <1>3, AnsweredKeepsInv DEF Unreadable
<1>4. CASE CheckProcess(c)
  <2>1. PICK a \in {"no", "clear"} : Return(c, a)
    BY <1>4 DEF CheckProcess
  <2> QED
    BY <1>4, <2>1, AnsweredKeepsInv DEF CheckProcess
<1>5. CASE Abandon(c)
  BY <1>5, ReturnKeepsInv DEF Abandon
<1>6. CASE Judge(c)
  <2>1. CASE /\ call' = [call EXCEPT ![c].pc = "seen", ![c].saw = NoOne]
             /\ UNCHANGED presence
    <3>1. /\ call[c] \in Call /\ call \in [Calls -> Call]
          /\ TypeOK /\ EarnedInv
      BY DEF HandshakeInv, TypeOK
    <3> DEFINE r == [call[c] EXCEPT !.pc = "seen", !.saw = NoOne]
    <3>2. call' = [call EXCEPT ![c] = r]
      BY <2>1, <3>1
    <3>3. /\ r \in Call /\ r.pc = "seen" /\ r.here = call[c].here
          /\ r.tick = call[c].tick /\ r.known = call[c].known
          /\ r.boot = call[c].boot
          /\ r.closed = call[c].closed /\ r.answer = call[c].answer
      BY <3>1 DEF Call
    <3> HIDE DEF r
    <3>4. /\ call' \in [Calls -> Call] /\ call'[c] = r
          /\ \A d \in Calls \ {c} : call'[d] = call[d]
      BY <3>1, <3>2, <3>3
    <3>5. UNCHANGED <<presence, request, result, ctl, host, faults, shared>>
      BY <1>6, <2>1 DEF Judge
    <3>6. TypeOK'
      BY <3>1, <3>4, <3>5 DEF TypeOK, host
    <3>7. r.closed \/ r.answer = "closed" => Earned(c)
      BY <3>1, <3>3 DEF EarnedInv
    <3> QED
      BY <3>3, <3>4, <3>5, <3>6, <3>7, CallGoesOn DEF HandshakeInv
  <2>2. CASE Return(c, "no") /\ presence' = NoOne
    BY <1>6, <2>2, AnsweredKeepsInv DEF Judge
  <2> QED
    BY <1>6, <2>1, <2>2 DEF Judge
<1>7. CASE Ask(c)
  <2>1. CASE To(c, "asked") /\ request' = c /\ NoFault
    BY <1>7, <2>1, MoveKeepsInv DEF Ask
  <2>2. CASE Return(c, "no") /\ UNCHANGED request /\ Fault
    BY <1>7, <2>2, AnsweredKeepsInv DEF Ask
  <2> QED
    BY <1>7, <2>1, <2>2 DEF Ask
<1>8. CASE Poll(c)
  <2>1. TypeOK /\ EarnedInv
    BY DEF HandshakeInv
  <2>2. result.ok \in BOOLEAN /\ (result.ok => Earned(c))
    BY <1>8, <2>1 DEF TypeOK, EarnedInv, Poll, Matches
  <2>3. call' = [call EXCEPT ![c] =
                   [call[c] EXCEPT !.pc = "tidy", !.closed = result.ok]]
    BY <1>8, <2>1 DEF TypeOK, Poll
  <2>4. /\ UNCHANGED <<presence, ctl, host, shared>>
        /\ request' = request /\ result' = result /\ NoFault
    BY <1>8 DEF Poll
  <2> QED
    BY <2>2, <2>3, <2>4, PlaceKeepsInv
<1>9. CASE TimeOut(c)
  BY <1>9, MoveKeepsInv DEF TimeOut
<1>10. CASE TidyUp(c)
  <2>1. CASE call[c].closed /\ To(c, "clearing")
    BY <1>10, <2>1, MoveKeepsInv DEF TidyUp
  <2>2. CASE Return(c, "no")
    BY <1>10, <2>2, AnsweredKeepsInv DEF TidyUp
  <2> QED
    BY <1>10, <2>1, <2>2 DEF TidyUp
<1>11. CASE WaitForClear(c)
  <2>1. Earned(c)
    BY <1>11 DEF HandshakeInv, WaitForClear, EarnedInv
  <2>2. PICK a \in {"no", "closed"} : Return(c, a)
    BY <1>11 DEF WaitForClear
  <2> QED
    BY <1>11, <2>1, <2>2, AnsweredKeepsInv DEF WaitForClear
<1> QED
  BY <1>1, <1>2, <1>3, <1>4, <1>5, <1>6, <1>7, <1>8, <1>9, <1>10, <1>11
  DEF CallStep

----------------------------------------------------------------------------
(* The host                                                                *)

LEMMA TickKeepsInv == ASSUME HandshakeInv, Tick PROVE HandshakeInv'
<1> USE DEF HandshakeInv, Tick, files
<1>1. TypeOK'
  BY HandshakeAssumption DEF HandshakeAssumption, TypeOK
<1>2. \A k \in Controllers : Running(k)' <=> Running(k)
  BY DEF Running
<1>3. EarnedInv'
  <2>1. \A c \in Calls : Earned(c) => Earned(c)'
    BY DEF Earned
  <2> QED
    BY <2>1 DEF EarnedInv
<1>4. SharedInv'
  BY <1>2 DEF SharedInv
<1>5. ClockInv'
  <2>1. \A c \in Calls : call[c].tick \in 0..MaxTick
    BY DEF TypeOK, Call
  <2>2. \A c \in Calls : call[c].tick <= now => call[c].tick <= now'
    BY <2>1, HandshakeAssumption DEF HandshakeAssumption, TypeOK
  <2> QED
    BY <1>2, <2>2 DEF ClockInv
<1> QED
  BY <1>1, <1>3, <1>4, <1>5

\* Nobody is left, and no token belongs to the new boot
LEMMA RebootKeepsInv == ASSUME HandshakeInv, Reboot PROVE HandshakeInv'
<1> USE DEF HandshakeInv
<1>1. TypeOK /\ EarnedInv /\ SharedInv /\ ClockInv
  OBVIOUS
<1>2. /\ ctl' \in [Controllers -> Controller]
      /\ \A k \in Controllers :
           /\ ~Running(k)' /\ ctl'[k].life # "clearing"
           /\ ctl'[k].token = ctl[k].token /\ ctl'[k].app = ctl[k].app
           /\ \/ ctl'[k] = ctl[k]
              \/ ctl'[k].life = "exited" /\ ctl'[k].task = "none"
  <2>1. ctl' = [k \in Controllers |-> IF Alive(k) THEN Left(k, "exited") ELSE ctl[k]]
    BY DEF Reboot
  <2>2. \A k \in Controllers :
          ctl'[k] = IF Alive(k) THEN Left(k, "exited") ELSE ctl[k]
    BY <2>1
  <2>3. \A k \in Controllers : ctl[k] \in Controller
    BY DEF TypeOK
  <2>4. ASSUME NEW k \in Controllers
        PROVE  /\ ctl'[k] \in Controller
               /\ ~(ctl'[k].life \in {"loading", "starting", "watching"})
               /\ ctl'[k].life # "clearing"
               /\ ctl'[k].token = ctl[k].token /\ ctl'[k].app = ctl[k].app
               /\ \/ ctl'[k] = ctl[k]
                  \/ ctl'[k].life = "exited" /\ ctl'[k].task = "none"
    <3>1. CASE Alive(k)
      BY <1>1, <2>2, <3>1, LeftFacts
    <3>2. CASE ~Alive(k)
      BY <2>2, <2>3, <3>2 DEF Alive, Running
    <3> QED
      BY <3>1, <3>2
  <2> QED
    BY <2>1, <2>4 DEF Running
<1>3. /\ call' \in [Calls -> Call]
      /\ \A c \in Calls :
           /\ call'[c].tick = call[c].tick /\ call'[c].boot = call[c].boot
           /\ call'[c].answer = call[c].answer
           /\ \/ call[c].pc = "idle" /\ call'[c] = call[c]
              \/ /\ call'[c].pc = "done" /\ ~call'[c].closed
                 /\ call'[c].here = {}
  <2>1. call' = [c \in Calls |-> IF call[c].pc = "idle" THEN call[c]
                                 ELSE Done(c)]
    BY DEF Reboot
  <2>2. \A c \in Calls :
          call'[c] = IF call[c].pc = "idle" THEN call[c] ELSE Done(c)
    BY <2>1
  <2>3. \A c \in Calls : call[c] \in Call
    BY DEF TypeOK
  <2>4. ASSUME NEW c \in Calls
        PROVE  /\ call'[c] \in Call
               /\ call'[c].tick = call[c].tick /\ call'[c].boot = call[c].boot
               /\ call'[c].answer = call[c].answer
               /\ \/ call[c].pc = "idle" /\ call'[c] = call[c]
                  \/ /\ call'[c].pc = "done" /\ ~call'[c].closed
                     /\ call'[c].here = {}
    <3>1. CASE call[c].pc = "idle"
      BY <2>2, <2>3, <3>1
    <3>2. CASE call[c].pc # "idle"
      BY <1>1, <2>2, <3>2, DoneFacts
    <3> QED
      BY <3>1, <3>2
  <2> QED
    BY <2>1, <2>4
<1>4. UNCHANGED <<request, result, shared>> /\ faults' \in 0..MaxFaults
  BY FaultType DEF Reboot
<1>5. TypeOK'
  <2>1. now' \in 0..MaxTick /\ boot' \in 0..MaxBoots
    BY HandshakeAssumption DEF HandshakeAssumption, TypeOK, Reboot
  <2>2. presence' \in Controllers \cup {NoOne}
    BY DEF TypeOK, Reboot
  <2> QED
    BY <1>2, <1>3, <1>4, <2>1, <2>2 DEF TypeOK
<1>6. EarnedInv'
  <2>1. \A c \in Calls : Earned(c) => Earned(c)'
    BY <1>2 DEF Earned
  <2>2. \A k \in Controllers :
          /\ ctl'[k].token # NoOne => ctl'[k].life \in {"watching", "clearing", "exited"}
          /\ ctl'[k].task # "none" => ctl'[k].token # NoOne
          /\ ctl'[k].life = "clearing" => ctl'[k].saw = k
    BY <1>1, <1>2 DEF EarnedInv
  <2>3. \A c \in Calls :
          /\ call'[c].closed \/ call'[c].answer = "closed" => Earned(c)
          /\ call'[c].pc = "clearing" => call'[c].closed
    BY <1>1, <1>3 DEF EarnedInv
  <2>4. result'.by \in Calls /\ result'.ok => Earned(result'.by)
    BY <1>1, <1>4 DEF EarnedInv
  <2> QED
    BY <1>4, <2>1, <2>2, <2>3, <2>4 DEF EarnedInv
<1>7. SharedInv'
  <2>1. \A c \in Calls : call[c].here \subseteq Controllers
    BY <1>1 DEF TypeOK, Call
  <2>2. \A c \in Calls : \A k \in call'[c].here : ctl'[k].life # "off"
    BY <1>1, <1>2, <1>3, <2>1 DEF SharedInv
  <2>3. \A c \in Calls : call'[c].pc = "idle" =>
          request' # c /\ \A k \in Controllers : ctl'[k].token # c
    BY <1>1, <1>2, <1>3, <1>4 DEF SharedInv
  <2> QED
    BY <1>2, <2>2, <2>3 DEF SharedInv
<1>8. ClockInv'
  <2>1. boot' = boot + 1 /\ boot \in Nat /\ \A c \in Calls : call[c].boot \in Nat
    BY <1>1, HandshakeAssumption DEF HandshakeAssumption, TypeOK, Call, Reboot
  <2> QED
    BY <1>1, <1>3, <2>1 DEF ClockInv
<1> QED
  BY <1>5, <1>6, <1>7, <1>8

----------------------------------------------------------------------------
(* The theorems                                                            *)

LEMMA HandshakeInvStep == HandshakeInv /\ [Next]_vars => HandshakeInv'
<1> SUFFICES ASSUME HandshakeInv, [Next]_vars PROVE HandshakeInv'
  OBVIOUS
<1>1. ASSUME NEW k \in Controllers, ControllerStep(k) PROVE HandshakeInv'
  BY <1>1, LaunchKeepsInv, StepOfLifeKeepsInv, ExitKeepsInv, TakeKeepsInv,
     TaskKeepsInv, AnswerKeepsInv DEF ControllerStep
<1>2. ASSUME NEW c \in Calls,
             Look(c) \/ Unreadable(c) \/ CallStep(c) \/ Abandon(c)
      PROVE  HandshakeInv'
  BY <1>2, CallKeepsInv
<1>3. CASE Tick
  BY <1>3, TickKeepsInv
<1>4. CASE Reboot
  BY <1>4, RebootKeepsInv
<1>5. CASE UNCHANGED vars
  BY <1>5 DEF vars, files, host, HandshakeInv, TypeOK, EarnedInv, Earned,
     SharedInv, ClockInv, Running
<1> QED
  BY <1>1, <1>2, <1>3, <1>4, <1>5 DEF Next

LEMMA HandshakeInvHolds == Spec => []HandshakeInv
  BY HandshakeInvInit, HandshakeInvStep, PTL DEF Spec

\* The files, processes and calls of the handshake are well typed
THEOREM HandshakeTypeCorrect == Spec => []TypeOK
<1>1. HandshakeInv => TypeOK
  BY DEF HandshakeInv
<1> QED
  BY <1>1, HandshakeInvHolds, PTL

\* A call that asked (CloseControllerProcesses) reports success only when a
\* controller took this very request and closed its window
THEOREM SuccessHasCause == Spec => []SuccessIsEarned
<1>1. HandshakeInv => SuccessIsEarned
  BY DEF HandshakeInv, EarnedInv, Earned, SuccessIsEarned
<1> QED
  BY <1>1, HandshakeInvHolds, PTL

\* A call answers only in a return: because nothing runs, or with the answer
\* of a controller
LEMMA AnswerHasCause ==
  ASSUME HandshakeInv, [Next]_vars, NEW c \in Calls,
         call'[c].answer # call[c].answer
  PROVE  \/ call'[c].answer = "no"
         \/ NothingRuns
         \/ call[c].closed
<1>1. /\ TypeOK /\ EarnedInv /\ call \in [Calls -> Call]
      /\ \A d \in Calls : call[d] \in Call
  BY DEF HandshakeInv, TypeOK
<1>2. \A d \in Calls : \A a \in {"no", "clear", "closed"} :
        Return(d, a) => /\ c # d => call'[c] = call[c]
                        /\ c = d => call'[c].answer = a
  <2> SUFFICES ASSUME NEW d \in Calls, NEW a \in {"no", "clear", "closed"},
                      Return(d, a)
               PROVE  /\ c # d => call'[c] = call[c]
                      /\ c = d => call'[c].answer = a
    OBVIOUS
  <2>1. [Done(d) EXCEPT !.answer = a].answer = a
    BY <1>1, DoneFacts DEF Call
  <2> QED
    BY <1>1, <2>1 DEF Return
<1>3. \A d \in Calls : \A p \in {"seen", "asked", "tidy", "clearing"} :
        To(d, p) => call'[c].answer = call[c].answer
  BY <1>1 DEF To, Call
<1>4. ASSUME NEW d \in Calls, CallStep(d)
      PROVE  call'[c].answer = "no" \/ NothingRuns \/ call[c].closed
  <2>1. CASE CheckProcess(d)
    BY <1>2, <2>1 DEF CheckProcess
  <2>2. CASE Judge(d)
    <3>1. CASE call' = [call EXCEPT ![d].pc = "seen", ![d].saw = NoOne]
      BY <1>1, <3>1 DEF Call
    <3>2. CASE Return(d, "no")
      BY <1>2, <3>2
    <3> QED
      BY <2>2, <3>1, <3>2 DEF Judge
  <2>3. CASE CleanUp(d)
    BY <1>1, <2>3 DEF CleanUp, Call
  <2>4. CASE Ask(d)
    BY <1>2, <1>3, <2>4 DEF Ask
  <2>5. CASE Poll(d)
    BY <1>1, <2>5 DEF Poll, Call
  <2>6. CASE TimeOut(d)
    BY <1>3, <2>6 DEF TimeOut
  <2>7. CASE TidyUp(d)
    BY <1>2, <1>3, <2>7 DEF TidyUp
  <2>8. CASE WaitForClear(d)
    BY <1>1, <1>2, <2>8 DEF WaitForClear, EarnedInv
  <2> QED
    BY <1>4, <2>1, <2>2, <2>3, <2>4, <2>5, <2>6, <2>7, <2>8 DEF CallStep
<1>5. ASSUME NEW d \in Calls, Look(d) \/ Unreadable(d) \/ Abandon(d)
      PROVE  call'[c].answer = "no"
  <2>1. CASE Look(d)
    BY <1>1, <2>1 DEF Look, Call
  <2>2. CASE Unreadable(d)
    BY <1>2, <2>2 DEF Unreadable
  <2>3. CASE Abandon(d)
    BY <1>1, <2>3, DoneFacts DEF Abandon
  <2> QED
    BY <1>5, <2>1, <2>2, <2>3
<1>6. ASSUME NEW k \in Controllers, ControllerStep(k) PROVE FALSE
  BY <1>6 DEF ControllerStep, Launch, Register, Watch, StartFails, SessionEnds,
     DeleteMarker, Kill, TakeRequest, Close, AnswerCall, DeleteRequest, Leave, files
<1>7. CASE Tick \/ UNCHANGED vars
  BY <1>7 DEF Tick, vars
<1>8. CASE Reboot
  BY <1>1, <1>8, DoneFacts DEF Reboot
<1> QED
  BY <1>4, <1>5, <1>6, <1>7, <1>8 DEF Next

\* When a call reports success, each controller that was registered as it
\* began has closed its window or runs no longer, unless it shared its marker
\* with another one (ReadControllerPresence, WaitForControllerPresenceToClear)
THEOREM SuccessIsComplete == Spec => SuccessMeansGone
<1>1. ASSUME HandshakeInv, [Next]_vars
      PROVE  \A c \in Calls :
               call[c].answer = "no" /\ call'[c].answer # "no" =>
                 \A k \in call[c].here \ shared :
                   ~Running(k) \/ ctl[k].app = "closed"
  <2> SUFFICES ASSUME NEW c \in Calls,
                      call[c].answer = "no", call'[c].answer # "no",
                      NEW k \in call[c].here \ shared, Running(k)
               PROVE  ctl[k].app = "closed"
    OBVIOUS
  <2>1. k \in Controllers
    BY <1>1 DEF HandshakeInv, TypeOK, Call
  <2>2. call[c].closed
    BY <1>1, <2>1, AnswerHasCause DEF NothingRuns, Alive
  <2>3. PICK j \in Controllers : ctl[j].token = c /\ ctl[j].app = "closed"
    BY <1>1, <2>2 DEF HandshakeInv, EarnedInv, Earned
  <2>4. k = j
    BY <1>1, <2>1, <2>3 DEF HandshakeInv, SharedInv
  <2> QED
    BY <2>3, <2>4
<1> QED
  BY <1>1, HandshakeInvHolds, PTL DEF Spec, SuccessMeansGone

\* A controller that takes a request was there when its token was made, unless
\* the host was restarted since then (CONTROLLER_CLOSE_REQUEST_START_TICK): a
\* request of the past does not close the application of a later session
THEOREM OldRequestsAreLeft == Spec => NoStaleClose
<1>1. ASSUME HandshakeInv, [Next]_vars
      PROVE  \A k \in Controllers :
               LET c == ctl'[k].token IN
               ctl[k].token = NoOne /\ c # NoOne /\ call[c].boot = boot =>
                 k \in call[c].known
  <2> SUFFICES ASSUME NEW k \in Controllers, ctl[k].token = NoOne,
                      ctl'[k].token # NoOne,
                      call[ctl'[k].token].boot = boot
               PROVE  k \in call[ctl'[k].token].known
    OBVIOUS
  <2>1. /\ TypeOK /\ ClockInv
        /\ \A j \in Controllers : ctl[j] \in Controller
        /\ ctl \in [Controllers -> Controller]
    BY <1>1 DEF HandshakeInv, TypeOK
  <2>2. ASSUME NEW j \in Controllers, ControllerStep(j) PROVE TakeRequest(k)
    <3>1. CASE TakeRequest(j)
      BY <2>1, <3>1 DEF TakeRequest, Controller
    <3>2. CASE Launch(j) \/ Register(j) \/ Watch(j)
      BY <2>1, <3>2 DEF Launch, Register, Watch, Controller
    <3>3. CASE \/ StartFails(j) \/ SessionEnds(j) \/ DeleteMarker(j) \/ Kill(j)
               \/ Leave(j)
      <4>1. PICK r : ctl' = [ctl EXCEPT ![j] = r] /\ Gone(j, r)
        BY <2>1, <3>3, ExitStep
      <4> QED
        BY <2>1, <4>1 DEF Gone
    <3>4. CASE Close(j) \/ AnswerCall(j) \/ DeleteRequest(j)
      BY <2>1, <3>4 DEF Close, AnswerCall, DeleteRequest, Controller
    <3> QED
      BY <2>2, <3>1, <3>2, <3>3, <3>4 DEF ControllerStep
  <2>3. ASSUME NEW d \in Calls,
               Look(d) \/ Unreadable(d) \/ CallStep(d) \/ Abandon(d)
        PROVE  FALSE
    BY <2>3 DEF Look, Unreadable, CallStep, Abandon, CheckProcess, Judge,
       CleanUp, Ask, Poll, TimeOut, TidyUp, WaitForClear
  <2>4. ASSUME Tick \/ UNCHANGED vars PROVE FALSE
    BY <2>4 DEF Tick, vars
  <2>5. ASSUME Reboot PROVE FALSE
    BY <2>1, <2>5, LeftFacts DEF Reboot
  <2>6. TakeRequest(k)
    BY <1>1, <2>2, <2>3, <2>4, <2>5 DEF Next
  <2>7. /\ ctl'[k].token = request /\ request \in Calls
        /\ call[request].tick > ctl[k].start /\ Running(k)
        /\ call[request].tick \in Nat /\ ctl[k].start \in Nat
    BY <2>1, <2>6, HandshakeAssumption
    DEF HandshakeAssumption, TakeRequest, TypeOK, Controller, Call, Newer, Running
  <2> QED
    BY <2>1, <2>7 DEF ClockInv
<1> QED
  BY <1>1, HandshakeInvHolds, PTL DEF Spec, NoStaleClose

\* The marker of a controller that goes on running is deleted only by one who
\* read another token in it, and so before it was written, or by a call that
\* fails to read it (ControllerClearPresence, ReadControllerPresence)
THEOREM MarkerStays == Spec => MarkerIsKept
<1>1. ASSUME HandshakeInv, [Next]_vars
      PROVE  \A k \in Controllers :
               /\ presence = k /\ presence' = NoOne
               /\ Registered(k) /\ Registered(k)'
               => \/ \E j \in Controllers : /\ ctl[j].life = "clearing"
                                            /\ ctl[j].saw # k
                                            /\ ctl'[j].life = "exited"
                  \/ \E c \in Calls : /\ call[c].pc = "judging"
                                      /\ call[c].saw # k
                                      /\ call'[c].pc = "done"
                  \/ faults' # faults
  <2> DEFINE ByClearing(k) ==
               \E j \in Controllers : /\ ctl[j].life = "clearing"
                                      /\ ctl[j].saw # k
                                      /\ ctl'[j].life = "exited"
             ByCall(k) == \E c \in Calls : /\ call[c].pc = "judging"
                                          /\ call[c].saw # k
                                          /\ call'[c].pc = "done"
  <2> SUFFICES ASSUME NEW k \in Controllers, presence = k, presence' = NoOne,
                      Registered(k), Registered(k)', faults' = faults
               PROVE  ByClearing(k) \/ ByCall(k)
    OBVIOUS
  <2>1. /\ TypeOK /\ k # NoOne
        /\ ctl \in [Controllers -> Controller]
        /\ call \in [Calls -> Call] /\ \A c \in Calls : call[c] \in Call
    BY <1>1, NoOneIsNobody DEF HandshakeInv, TypeOK
  <2>2. ASSUME NEW j \in Controllers, ControllerStep(j) PROVE ByClearing(k)
    <3>1. CASE DeleteMarker(j)
      <4>1. ctl[j].life = "clearing" /\ ctl'[j].life = "exited"
        BY <2>1, <3>1, LeftFacts DEF DeleteMarker
      <4>2. ctl[j].saw = j /\ j # k
        BY <1>1, <4>1 DEF HandshakeInv, EarnedInv, Registered
      <4> QED
        BY <4>1, <4>2
    <3>2. CASE ~DeleteMarker(j)
      BY <2>1, <2>2, <3>2, NoOneIsNobody DEF ControllerStep, Launch, Register,
         Watch, StartFails, SessionEnds, Kill, TakeRequest, Close, AnswerCall,
         DeleteRequest, Leave, files
    <3> QED
      BY <3>1, <3>2
  <2>3. ASSUME NEW c \in Calls,
               Look(c) \/ Unreadable(c) \/ CallStep(c) \/ Abandon(c)
        PROVE  ByCall(k)
    <3>1. CASE Judge(c)
      <4>1. call[c].pc = "judging" /\ ~Alive(call[c].saw) /\ Return(c, "no")
        BY <2>1, <3>1 DEF Judge
      <4>2. call[c].saw # k
        BY <4>1 DEF Alive, Running, Registered
      <4>3. call'[c].pc = "done"
        BY <2>1, <4>1, DoneFacts DEF Return, Call
      <4> QED
        BY <4>1, <4>2, <4>3
    <3>2. CASE ~Judge(c)
      <4>1. ~Unreadable(c)
        BY <2>1, HandshakeAssumption
        DEF HandshakeAssumption, Unreadable, Fault, TypeOK
      <4> QED
        BY <2>1, <2>3, <3>2, <4>1 DEF Look, CallStep, Abandon, CheckProcess,
           CleanUp, Ask, Poll, TimeOut, TidyUp, WaitForClear, files
    <3> QED
      BY <3>1, <3>2
  <2>4. CASE Tick \/ UNCHANGED vars
    BY <2>1, <2>4 DEF Tick, vars, files
  <2>5. CASE Reboot
    <3>1. ctl'[k] = Left(k, "exited")
      BY <2>1, <2>5 DEF Reboot, Registered, Running, Alive
    <3> QED
      BY <2>1, <3>1, LeftFacts DEF Registered
  <2> QED
    BY <1>1, <2>2, <2>3, <2>4, <2>5 DEF Next
<1> QED
  BY <1>1, HandshakeInvHolds, PTL DEF Spec, MarkerIsKept

=============================================================================
