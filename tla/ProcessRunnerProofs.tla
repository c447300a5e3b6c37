------------------------ MODULE ProcessRunnerProofs -------------------------
(* Inductive invariant of a run in a worker process, and its consequences, *)
(* for every number of steps and every size of the queue.                  *)
EXTENDS ProcessRunner, TLAPS

\* A message between the processes says what the worker did
TrueMessage(m) ==
  /\ m.kind \in {"result", "done"} => done = Steps
  /\ m.kind = "error" => failed

MessagesInv ==
  /\ \A i \in DOMAIN buffer : TrueMessage(buffer[i])
  /\ \A i \in DOMAIN pipe : TrueMessage(pipe[i])

\* A call has told nothing before it starts, and from its last join() on it
\* has a worker that ended or was told to
StoppedInv ==
  /\ caller = "idle" => told = <<>> /\ worker = "none"
  /\ caller \in {"idle", "reaping", "ended"} => ~Busy

RunnerInv == TypeOK /\ MessagesInv /\ AnswersAreTrue /\ StoppedInv

LEMMA RunnerInvInit == Init => RunnerInv
<1> SUFFICES ASSUME Init PROVE RunnerInv
  OBVIOUS
<1> USE DEF Init
<1>1. TypeOK
  <2>1. MaxSize \in Nat
    BY RunnerAssumption DEF RunnerAssumption, MaxSize
  <2>2. 0 \in 0..Steps
    BY RunnerAssumption DEF RunnerAssumption
  <2>3. Len(buffer) + Len(pipe) <= MaxSize
    BY <2>1
  <2>4. buffer \in Seq(Sent) /\ pipe \in Seq(Sent) /\ told \in Seq(Told)
    OBVIOUS
  <2> QED
    BY <2>2, <2>3, <2>4 DEF TypeOK
<1>2. MessagesInv /\ AnswersAreTrue
  BY DEF MessagesInv, AnswersAreTrue
<1>3. StoppedInv
  BY DEF StoppedInv, Busy, Alive
<1> QED
  BY <1>1, <1>2, <1>3 DEF RunnerInv

\* Taking the head off a sequence keeps what holds of its elements
LEMMA TailElements ==
  ASSUME NEW S, NEW s \in Seq(S), s # <<>>
  PROVE  /\ Tail(s) \in Seq(S) /\ Len(Tail(s)) = Len(s) - 1
         /\ Head(s) = s[1] /\ Head(s) \in S /\ 1 \in DOMAIN s
         /\ \A i \in DOMAIN Tail(s) : i + 1 \in DOMAIN s /\ Tail(s)[i] = s[i + 1]
OBVIOUS

\* Appending adds one element
LEMMA AppendElements ==
  ASSUME NEW S, NEW s \in Seq(S), NEW e \in S
  PROVE  /\ Append(s, e) \in Seq(S) /\ Len(Append(s, e)) = Len(s) + 1
         /\ \A i \in DOMAIN Append(s, e) :
              (i \in DOMAIN s /\ Append(s, e)[i] = s[i]) \/ Append(s, e)[i] = e
OBVIOUS

\* A step that touches neither messages nor answers
LEMMA QuietStep ==
  ASSUME RunnerInv,
         UNCHANGED <<mode, done, queue, told, late, failed>>,
         worker' \in {"none", "loading", "running", "cleaning", "exiting",
                      "killed", "dead"},
         caller' \in {"idle", "loop", "reading", "checking", "yielding",
                      "joining", "closing", "reaping", "ended"},
         client' \in {"here", "gone"}, tmp' \in BOOLEAN,
         Alive' => Alive \/ told = <<>>,
         StoppedInv'
  PROVE  RunnerInv'
<1>1. TypeOK'
  BY DEF RunnerInv, TypeOK, queue, MaxSize
<1>2. MessagesInv'
  BY DEF RunnerInv, MessagesInv, TrueMessage, queue
<1>3. AnswersAreTrue'
  BY DEF RunnerInv, AnswersAreTrue, TypeOK
<1> QED
  BY <1>1, <1>2, <1>3 DEF RunnerInv

\* A step that puts a true message
LEMMA PutStep ==
  ASSUME RunnerInv, NEW kind \in {"step", "done", "result", "error"},
         NEW seq \in 0..Steps,
         Put(kind, seq),
         UNCHANGED <<mode, caller, late, told, client>>,
         done' \in 0..Steps, done' >= done, tmp' \in BOOLEAN,
         failed' \in BOOLEAN, failed => failed',
         kind \in {"result", "done"} => done' = Steps,
         kind = "error" => failed',
         Busy, worker' \in {"running", "cleaning"}
  PROVE  RunnerInv'
<1> DEFINE m == Message(kind, seq)
<1> USE DEF RunnerInv
<1>1. m \in Sent /\ m.kind = kind
  BY DEF Message, Sent
<1>2. /\ buffer' \in Seq(Sent) /\ Len(buffer') = Len(buffer) + 1
      /\ \A i \in DOMAIN buffer' :
           (i \in DOMAIN buffer /\ buffer'[i] = buffer[i]) \/ buffer'[i] = m
  BY <1>1, AppendElements DEF Put, TypeOK
<1>3. TypeOK'
  <2>1. Len(buffer') + Len(pipe') <= MaxSize'
    BY <1>2, RunnerAssumption
    DEF Put, HasRoom, TypeOK, MaxSize, RunnerAssumption
  <2> QED
    BY <1>2, <2>1 DEF TypeOK, Put
<1>4. done = Steps => done' = Steps
  BY RunnerAssumption DEF RunnerAssumption, TypeOK
<1>5. MessagesInv'
  BY <1>1, <1>2, <1>4 DEF MessagesInv, TrueMessage, Put
<1>6. AnswersAreTrue'
  BY <1>4 DEF AnswersAreTrue, Busy
<1>7. StoppedInv'
  BY DEF StoppedInv, Busy, Alive
<1> QED
  BY <1>3, <1>5, <1>6, <1>7

\* A step that tells the client something true
LEMMA AnswerStep ==
  ASSUME RunnerInv, NEW m \in Told,
         Answer(m),
         buffer' \in {buffer, <<>>},
         pipe' = pipe \/ (pipe # <<>> /\ pipe' = Tail(pipe)),
         UNCHANGED <<mode, done, tmp, late, client, failed>>,
         worker' \in {worker, "killed"}, Alive' => Alive,
         caller \in {"loop", "reading", "checking"},
         TrueMessage(m),
         m.kind = "timeout" => late, m.kind = "exited" => ~Alive
  PROVE  RunnerInv'
<1> USE DEF RunnerInv
<1>1. /\ told' \in Seq(Told)
      /\ \A i \in DOMAIN told' :
           (i \in DOMAIN told /\ told'[i] = told[i]) \/ told'[i] = m
  BY AppendElements DEF Answer, Tell, TypeOK
<1>2. /\ pipe' \in Seq(Sent) /\ Len(pipe') <= Len(pipe)
      /\ \A i \in DOMAIN pipe' : TrueMessage(pipe'[i])
  <2>1. CASE pipe' = pipe
    BY <2>1 DEF TypeOK, MessagesInv
  <2>2. CASE pipe # <<>> /\ pipe' = Tail(pipe)
    BY <2>2, TailElements DEF TypeOK, MessagesInv
  <2> QED
    BY <2>1, <2>2
<1>3. /\ buffer' \in Seq(Sent) /\ Len(buffer') <= Len(buffer)
      /\ \A i \in DOMAIN buffer' : TrueMessage(buffer'[i])
  <2>1. CASE buffer' = buffer
    BY <2>1 DEF TypeOK, MessagesInv
  <2>2. CASE buffer' = <<>>
    BY <2>2 DEF TypeOK
  <2> QED
    BY <2>1, <2>2
<1>4. TypeOK'
  <2>1. Len(buffer') + Len(pipe') <= MaxSize'
    BY <1>2, <1>3, RunnerAssumption
    DEF TypeOK, MaxSize, RunnerAssumption
  <2> QED
    BY <1>1, <1>2, <1>3, <2>1 DEF TypeOK, Answer, Go
<1>5. MessagesInv'
  BY <1>2, <1>3 DEF MessagesInv, TrueMessage
<1>6. AnswersAreTrue'
  BY <1>1 DEF AnswersAreTrue, TrueMessage
<1>7. StoppedInv'
  BY DEF StoppedInv, Answer, Go, TypeOK
<1> QED
  BY <1>4, <1>5, <1>6, <1>7

\* Terminating the worker of a call that is about to end
LEMMA StopStep ==
  ASSUME RunnerInv, Terminate, caller' = "reaping",
         caller \in {"joining", "closing"},
         UNCHANGED <<mode, late, told, client, failed>>
  PROVE  RunnerInv'
<1> USE DEF RunnerInv
<1>1. TypeOK'
  <2>1. /\ buffer' \in Seq(Sent) /\ Len(buffer') <= Len(buffer)
        /\ pipe' = pipe
    BY DEF Terminate, TypeOK
  <2>2. Len(buffer') + Len(pipe') <= MaxSize'
    BY <2>1, RunnerAssumption DEF TypeOK, MaxSize, RunnerAssumption
  <2> QED
    BY <2>1, <2>2 DEF TypeOK, Terminate
<1>2. MessagesInv'
  BY DEF MessagesInv, TrueMessage, Terminate
<1>3. AnswersAreTrue'
  BY DEF AnswersAreTrue, Terminate, Alive
<1>4. StoppedInv'
  BY DEF StoppedInv, Terminate, Busy, Alive
<1> QED
  BY <1>1, <1>2, <1>3, <1>4

LEMMA RunnerInvStep == RunnerInv /\ [Next]_vars => RunnerInv'
<1> SUFFICES ASSUME RunnerInv, [Next]_vars PROVE RunnerInv'
  OBVIOUS
<1>0. Steps \in Nat /\ done \in 0..Steps /\ 0 \in 0..Steps
  BY RunnerAssumption DEF RunnerAssumption, RunnerInv, TypeOK
<1>1. CASE Start
  BY <1>1, QuietStep
  DEF Start, RunnerInv, TypeOK, StoppedInv, Busy, Alive, process, Go
<1>2. CASE Load
  BY <1>2, QuietStep
  DEF Load, RunnerInv, TypeOK, StoppedInv, Busy, Alive, process
<1>3. CASE Clean
  BY <1>3, QuietStep
  DEF Clean, RunnerInv, TypeOK, StoppedInv, Busy, Alive, process
<1>4. CASE Exit
  BY <1>4, QuietStep
  DEF Exit, RunnerInv, TypeOK, StoppedInv, Busy, Alive, process
<1>5. CASE Die
  BY <1>5, QuietStep
  DEF Die, RunnerInv, TypeOK, StoppedInv, Busy, Alive, process
<1>6. CASE Wait
  BY <1>6, QuietStep
  DEF Wait, RunnerInv, TypeOK, StoppedInv, Busy, Alive, process, Go
<1>7. CASE Empty
  BY <1>7, QuietStep
  DEF Empty, RunnerInv, TypeOK, StoppedInv, Busy, Alive, process, Go
<1>8. CASE Resume
  BY <1>8, QuietStep
  DEF Resume, RunnerInv, TypeOK, StoppedInv, Busy, Alive, process, Go
<1>9. CASE Drop
  BY <1>9, QuietStep
  DEF Drop, RunnerInv, TypeOK, StoppedInv, Busy, Alive, process, Go
<1>10. CASE Join
  BY <1>10, QuietStep
  DEF Join, RunnerInv, TypeOK, StoppedInv, Busy, Alive, process, Go
<1>11. CASE Reap
  BY <1>11, QuietStep
  DEF Reap, RunnerInv, TypeOK, StoppedInv, Busy, Alive, process, Go
<1>12. CASE Leave
  BY <1>12, QuietStep
  DEF Leave, RunnerInv, TypeOK, StoppedInv, Busy, Alive, process
<1>13. CASE SimStep
  <2>1. CASE mode = "stream"
    BY <1>13, <1>0, <2>1, PutStep, RunnerAssumption
    DEF SimStep, Busy, Alive, RunnerInv, TypeOK, RunnerAssumption
  <2>2. CASE mode # "stream"
    <3>1. done' \in 0..Steps /\ (done = Steps => done' = Steps)
      BY <1>13, <1>0 DEF SimStep
    <3>2. TypeOK'
      BY <1>13, <2>2, <3>1 DEF SimStep, RunnerInv, TypeOK, queue, MaxSize
    <3>3. MessagesInv'
      BY <1>13, <2>2, <3>1
      DEF SimStep, RunnerInv, MessagesInv, TrueMessage, queue
    <3>4. AnswersAreTrue'
      BY <1>13, <3>1 DEF SimStep, RunnerInv, AnswersAreTrue, Alive
    <3>5. StoppedInv'
      BY <1>13 DEF SimStep, RunnerInv, StoppedInv, Busy, Alive
    <3> QED
      BY <3>2, <3>3, <3>4, <3>5 DEF RunnerInv
  <2> QED
    BY <2>1, <2>2
<1>14. CASE Finish
  <2> DEFINE kind == IF mode = "stream" THEN "done" ELSE "result"
  <2>1. kind \in {"done", "result"}
    OBVIOUS
  <2> QED
    BY <1>14, <1>0, <2>1, PutStep DEF Finish, Busy, Alive, RunnerInv, TypeOK
<1>15. CASE Raise
  <2>1. tmp' \in BOOLEAN /\ failed' \in BOOLEAN /\ failed'
    BY <1>15 DEF Raise, RunnerInv, TypeOK
  <2>2. done' \in 0..Steps /\ done' >= done /\ Put("error", done)
    BY <1>0, <1>15 DEF Raise
  <2>3. Busy /\ worker' \in {"running", "cleaning"}
    BY <1>15 DEF Raise, Busy, Alive
  <2>4. UNCHANGED <<mode, caller, late, told, client>>
    BY <1>15 DEF Raise
  <2> QED
    BY <1>0, <2>1, <2>2, <2>3, <2>4, PutStep
<1>16. CASE Flush
  <2> USE <1>16 DEF RunnerInv
  <2>1. /\ Head(buffer) \in Sent /\ TrueMessage(Head(buffer))
        /\ buffer' \in Seq(Sent) /\ Len(buffer') = Len(buffer) - 1
        /\ \A i \in DOMAIN buffer' : TrueMessage(buffer'[i])
    BY TailElements DEF Flush, TypeOK, MessagesInv
  <2>2. /\ pipe' \in Seq(Sent) /\ Len(pipe') = Len(pipe) + 1
        /\ \A i \in DOMAIN pipe' : TrueMessage(pipe'[i])
    BY <2>1, AppendElements DEF Flush, TypeOK, MessagesInv
  <2>3. TypeOK'
    <3>1. Len(buffer') + Len(pipe') <= MaxSize'
      BY <2>1, <2>2 DEF Flush, TypeOK, MaxSize
    <3> QED
      BY <2>1, <2>2, <3>1 DEF Flush, TypeOK, process
  <2>4. MessagesInv'
    BY <2>1, <2>2 DEF Flush, MessagesInv, TrueMessage, process
  <2>5. AnswersAreTrue'
    BY DEF Flush, AnswersAreTrue, Alive, process
  <2>6. StoppedInv'
    BY DEF Flush, StoppedInv, Busy, Alive, process
  <2> QED
    BY <2>3, <2>4, <2>5, <2>6
<1>17. CASE Crash
  <2> USE <1>17 DEF RunnerInv
  <2>1. TypeOK'
    <3>1. buffer' \in Seq(Sent) /\ Len(buffer') = 0
      BY DEF Crash
    <3>2. Len(buffer') + Len(pipe') <= MaxSize'
      BY <3>1, RunnerAssumption DEF Crash, TypeOK, MaxSize, RunnerAssumption
    <3> QED
      BY <3>1, <3>2 DEF Crash, TypeOK
  <2>2. MessagesInv'
    BY DEF Crash, MessagesInv, TrueMessage
  <2>3. AnswersAreTrue' /\ StoppedInv'
    BY DEF Crash, AnswersAreTrue, StoppedInv, Busy, Alive
  <2> QED
    BY <2>1, <2>2, <2>3
<1>18. CASE StartFails
  <2> USE <1>18 DEF RunnerInv
  <2> DEFINE m == Message("error", 0)
  <2>1. /\ told' \in Seq(Told)
        /\ \A i \in DOMAIN told' :
             (i \in DOMAIN told /\ told'[i] = told[i]) \/ told'[i] = m
    <3>1. m \in Told
      BY <1>0 DEF Message, Told
    <3> QED
      BY <3>1, AppendElements DEF StartFails, Tell, TypeOK
  <2>2. TypeOK'
    BY <2>1 DEF StartFails, Go, TypeOK, process, queue, MaxSize
  <2>3. MessagesInv'
    BY DEF StartFails, MessagesInv, TrueMessage, process, queue
  <2>4. AnswersAreTrue'
    BY <2>1 DEF StartFails, AnswersAreTrue, Message, Alive, process
  <2>5. StoppedInv'
    BY DEF StartFails, Go, StoppedInv, Busy, Alive, process
  <2> QED
    BY <2>2, <2>3, <2>4, <2>5
<1>19. CASE TimeOut
  <2> DEFINE m == Message("timeout", 0)
  <2>1. m \in Told /\ TrueMessage(m) /\ m.kind = "timeout"
    BY <1>0 DEF Message, Told, TrueMessage
  <2>2. /\ buffer' \in {buffer, <<>>} /\ pipe' = pipe
        /\ worker' \in {worker, "killed"} /\ (Alive' => Alive)
        /\ UNCHANGED <<done, tmp>>
    BY <1>19 DEF TimeOut, Terminate, Alive, process, queue
  <2>3. /\ Answer(m) /\ caller \in {"loop", "reading", "checking"} /\ late
        /\ UNCHANGED <<mode, done, tmp, late, client, failed>>
    BY <1>19, <2>2 DEF TimeOut, Overdue
  <2> HIDE DEF m
  <2> QED
    BY <2>1, <2>2, <2>3, AnswerStep
<1>20. CASE Receive
  <2>1. Head(pipe) \in Sent /\ TrueMessage(Head(pipe))
    BY <1>20, TailElements DEF Receive, RunnerInv, TypeOK, MessagesInv
  <2>2. /\ Head(pipe) \in Told
        /\ Head(pipe).kind # "timeout" /\ Head(pipe).kind # "exited"
    BY <2>1 DEF Sent, Told
  <2> QED
    BY <1>20, <2>1, <2>2, AnswerStep DEF Receive, process, Alive
<1>21. CASE CheckWorker
  <2>1. CASE Gone
    <3> DEFINE m == Message("exited", 0)
    <3>1. m \in Told /\ TrueMessage(m) /\ m.kind = "exited"
      BY <1>0 DEF Message, Told, TrueMessage
    <3>2. /\ Answer(m) /\ caller \in {"loop", "reading", "checking"}
          /\ ~Alive /\ (Alive' => Alive)
          /\ UNCHANGED <<mode, process, queue, late, client, failed>>
      BY <1>21, <2>1 DEF CheckWorker, Gone, Alive, process
    <3>3. /\ buffer' = buffer /\ pipe' = pipe /\ worker' = worker
          /\ UNCHANGED <<mode, done, tmp, late, client, failed>>
      BY <3>2 DEF process, queue
    <3> HIDE DEF m
    <3> QED
      BY <3>1, <3>2, <3>3, AnswerStep
  <2>2. CASE ~Gone
    BY <1>21, <2>2, QuietStep
    DEF CheckWorker, Go, RunnerInv, TypeOK, StoppedInv, Busy, Alive, process
  <2> QED
    BY <2>1, <2>2
<1>22. CASE JoinTimesOut
  BY <1>22, StopStep DEF JoinTimesOut, StopWorker, Go
<1>23. CASE CloseStream
  BY <1>23, StopStep DEF CloseStream, StopWorker, Go
<1>25. CASE Deadline
  <2> USE <1>25 DEF RunnerInv
  <2>1. TypeOK' /\ MessagesInv'
    BY DEF Deadline, TypeOK, MessagesInv, TrueMessage, MaxSize, process, queue
  <2>2. AnswersAreTrue' /\ StoppedInv'
    BY DEF Deadline, AnswersAreTrue, StoppedInv, Busy, Alive, process
  <2> QED
    BY <2>1, <2>2
<1>26. CASE UNCHANGED vars
  BY <1>26, QuietStep
  DEF vars, process, RunnerInv, TypeOK, StoppedInv, Busy, Alive
<1> QED
  BY <1>1, <1>2, <1>3, <1>4, <1>5, <1>6, <1>7, <1>8, <1>9, <1>10, <1>11, <1>12, <1>13, <1>14, <1>15, <1>16, <1>17, <1>18, <1>19, <1>20, <1>21, <1>22, <1>23, <1>25, <1>26
  DEF Next, WorkerStep, CallerStep

LEMMA RunnerInvariant == Spec => []RunnerInv
<1>1. Init => RunnerInv
  BY RunnerInvInit
<1>2. RunnerInv /\ [Next]_vars => RunnerInv'
  BY RunnerInvStep
<1> QED
  BY <1>1, <1>2, PTL DEF Spec

----------------------------------------------------------------------------
(* The order of a stream                                                   *)

\* The client may still be told more of what the worker sends
Reading ==
  \/ caller \in {"idle", "loop", "reading", "checking"}
  \/ caller = "yielding" /\ ~IsLast(told[Len(told)])

\* Of run(), the client is told one thing, and no step
RunOrder ==
  mode = "run" =>
    /\ caller \in {"idle", "loop", "reading", "checking"} => told = <<>>
    /\ caller \notin {"yielding", "closing"}
    /\ Len(told) <= 1
    /\ \A i \in DOMAIN told : told[i].kind \notin {"step", "done"}
    /\ \A i \in DOMAIN pipe : pipe[i].kind \notin {"step", "done"}
    /\ \A i \in DOMAIN buffer : buffer[i].kind \notin {"step", "done"}

\* The message at a place of the stream: a step has that number, and the end
\* comes after all steps
InPlace(m, place) ==
  /\ m.kind = "step" => m.seq = place - 1
  /\ m.kind = "done" => place = Steps + 1
  /\ m.kind # "result"

\* What was told, is in the pipe and is in the buffer are the stream so far
StreamOrder ==
  mode = "stream" /\ Reading =>
    /\ \A i \in DOMAIN told : told[i].kind = "step"
    /\ \A i \in DOMAIN pipe :
         /\ InPlace(pipe[i], Len(told) + i)
         /\ pipe[i].kind # "step" => i = Len(pipe) /\ buffer = <<>>
    /\ \A i \in DOMAIN buffer :
         /\ InPlace(buffer[i], Len(told) + Len(pipe) + i)
         /\ buffer[i].kind # "step" => i = Len(buffer)
    /\ worker \in {"none", "loading", "running"} =>
         /\ Len(told) + Len(pipe) + Len(buffer) = done
         /\ \A i \in DOMAIN pipe : pipe[i].kind = "step"
         /\ \A i \in DOMAIN buffer : buffer[i].kind = "step"

OrderInv == StreamIsInOrder /\ RunOrder /\ StreamOrder

LEMMA OrderInvInit == Init => OrderInv
  BY DEF Init, OrderInv, StreamIsInOrder, RunOrder, StreamOrder, Reading

\* A step that leaves the messages where they are
LEMMA QuietOrder ==
  ASSUME OrderInv, UNCHANGED <<mode, done, queue, told>>,
         Reading' => Reading,
         worker' \in {"none", "loading", "running"} =>
           worker \in {"none", "loading", "running"},
         caller' \in {"idle", "loop", "reading", "checking"} =>
           caller \in {"idle", "loop", "reading", "checking", "yielding"},
         caller' \in {"yielding", "closing"} =>
           caller \in {"yielding", "closing"}
  PROVE  OrderInv'
<1>1. StreamIsInOrder'
  BY DEF OrderInv, StreamIsInOrder
<1>2. RunOrder'
  BY DEF OrderInv, RunOrder, queue
<1>3. StreamOrder'
  BY DEF OrderInv, StreamOrder, InPlace, queue
<1> QED
  BY <1>1, <1>2, <1>3 DEF OrderInv

\* A step after which a stream tells no more, and a run only what it has told
LEMMA LastWord ==
  ASSUME TypeOK, OrderInv, UNCHANGED mode, NEW m \in Told,
         caller \in {"idle", "loop", "reading", "checking"},
         m.kind \notin {"step", "done"},
         told' = Append(told, m),
         caller' \in {"joining", "ended"} \/ (mode = "stream" /\ caller' = "yielding"),
         IsLast(m) \/ caller' # "yielding",
         \A i \in DOMAIN pipe' : mode = "run" =>
            pipe'[i].kind \notin {"step", "done"},
         \A i \in DOMAIN buffer' : mode = "run" =>
            buffer'[i].kind \notin {"step", "done"}
  PROVE  OrderInv'
<1>1. /\ Len(told') = Len(told) + 1 /\ told'[Len(told')] = m
      /\ Len(told) \in Nat
      /\ \A i \in DOMAIN told' :
           (i \in DOMAIN told /\ told'[i] = told[i]) \/ (i = Len(told') /\ told'[i] = m)
  BY DEF TypeOK
<1>2. \A i \in DOMAIN told : told[i].kind = "step"
  <2>1. CASE mode = "run"
    BY <2>1 DEF OrderInv, RunOrder
  <2>2. CASE mode = "stream"
    BY <2>2 DEF OrderInv, StreamOrder, Reading
  <2> QED
    BY <2>1, <2>2 DEF TypeOK
<1>3. StreamIsInOrder'
  BY <1>1, <1>2 DEF OrderInv, StreamIsInOrder
<1>4. RunOrder'
  <2>1. mode = "run" => told = <<>> /\ Len(told) = 0
    BY DEF OrderInv, RunOrder
  <2> QED
    BY <1>1, <2>1 DEF RunOrder
<1>5. ~Reading'
  BY <1>1 DEF Reading, IsLast
<1> QED
  BY <1>3, <1>4, <1>5 DEF OrderInv, StreamOrder

LEMMA OrderInvStep == RunnerInv /\ OrderInv /\ [Next]_vars => OrderInv'
<1> SUFFICES ASSUME RunnerInv, OrderInv, [Next]_vars PROVE OrderInv'
  OBVIOUS
<1>0. TypeOK /\ Steps \in Nat /\ done \in 0..Steps /\ 0 \in 0..Steps
  BY RunnerAssumption DEF RunnerAssumption, RunnerInv, TypeOK
<1>1. CASE Start
  BY <1>1, QuietOrder DEF Start, Reading, process, Go, RunnerInv, StoppedInv
<1>2. CASE Load
  BY <1>2, QuietOrder DEF Load, Reading, process
<1>3. CASE Clean
  BY <1>3, QuietOrder DEF Clean, Reading, process
<1>4. CASE Exit
  BY <1>4, QuietOrder DEF Exit, Reading, process
<1>5. CASE Die
  BY <1>5, QuietOrder DEF Die, Reading, process
<1>6. CASE Wait
  BY <1>6, QuietOrder DEF Wait, Reading, process, Go
<1>7. CASE Empty
  BY <1>7, QuietOrder DEF Empty, Reading, process, Go
<1>8. CASE Resume
  BY <1>8, QuietOrder DEF Resume, Reading, process, Go
<1>9. CASE Drop
  BY <1>9, QuietOrder DEF Drop, Reading, process, Go
<1>10. CASE Join
  BY <1>10, QuietOrder DEF Join, Reading, process, Go
<1>11. CASE Reap
  BY <1>11, QuietOrder DEF Reap, Reading, process, Go
<1>12. CASE Leave
  BY <1>12, QuietOrder DEF Leave, Reading, process
<1>14. CASE Deadline
  BY <1>14, QuietOrder DEF Deadline, Reading, process
<1>15. CASE UNCHANGED vars
  BY <1>15, QuietOrder DEF vars, Reading, process
<1>16. CASE SimStep
  <2>a. CASE mode # "stream"
    <3>1. UNCHANGED <<mode, queue, told, caller>>
      BY <1>16, <2>a DEF SimStep
    <3>2. RunOrder' /\ StreamIsInOrder'
      BY <3>1 DEF OrderInv, RunOrder, StreamIsInOrder, queue
    <3> QED
      BY <2>a, <3>1, <3>2 DEF OrderInv, StreamOrder
  <2>b. CASE mode = "stream"
    <3> DEFINE m == Message("step", done)
    <3>1. /\ buffer' = Append(buffer, m) /\ pipe' = pipe /\ told' = told
          /\ mode' = mode /\ caller' = caller /\ done' = done + 1
      BY <1>16, <2>b DEF SimStep, Put
    <3>2. /\ Len(buffer') = Len(buffer) + 1
          /\ \A i \in DOMAIN buffer' :
               \/ i \in DOMAIN buffer /\ buffer'[i] = buffer[i] /\ i # Len(buffer')
               \/ i = Len(buffer') /\ buffer'[i] = m
          /\ Len(buffer) \in Nat /\ Len(pipe) \in Nat /\ Len(told) \in Nat
      BY <1>0, <3>1 DEF TypeOK
    <3>3. worker = "running" /\ m.kind = "step" /\ m.seq = done
      BY <1>16 DEF SimStep, Message
    <3> HIDE DEF m
    <3>4. StreamIsInOrder' /\ Reading' = Reading
      BY <3>1 DEF OrderInv, StreamIsInOrder, Reading
    <3>5. RunOrder'
      BY <3>1, <2>b DEF OrderInv, RunOrder
    <3>6. StreamOrder'
      <4> SUFFICES ASSUME mode = "stream", Reading PROVE StreamOrder'
        BY <3>1, <3>4 DEF StreamOrder
      <4>1. /\ \A i \in DOMAIN told : told[i].kind = "step"
            /\ Len(told) + Len(pipe) + Len(buffer) = done
            /\ \A i \in DOMAIN pipe :
                 InPlace(pipe[i], Len(told) + i) /\ pipe[i].kind = "step"
            /\ \A i \in DOMAIN buffer :
                 /\ InPlace(buffer[i], Len(told) + Len(pipe) + i)
                 /\ buffer[i].kind = "step"
        BY <3>3 DEF OrderInv, StreamOrder
      <4>2. InPlace(m, Len(told) + Len(pipe) + Len(buffer'))
        BY <1>0, <3>2, <3>3, <4>1 DEF InPlace
      <4>3. \A i \in DOMAIN buffer' :
              /\ InPlace(buffer'[i], Len(told) + Len(pipe) + i)
              /\ buffer'[i].kind = "step"
        BY <3>2, <3>3, <4>1, <4>2
      <4>4. Len(told) + Len(pipe) + Len(buffer') = done'
        <5>1. Len(told) + Len(pipe) + Len(buffer) = done
          BY <4>1
        <5>2. /\ Len(buffer') = Len(buffer) + 1 /\ done' = done + 1
              /\ Len(buffer) \in Nat /\ Len(pipe) \in Nat /\ Len(told) \in Nat
          BY <3>1, <3>2
        <5> QED
          BY <5>1, <5>2
      <4> QED
        BY <3>1, <4>1, <4>3, <4>4 DEF StreamOrder, InPlace
    <3> QED
      BY <3>4, <3>5, <3>6 DEF OrderInv
  <2> QED
    BY <2>a, <2>b
<1>17. CASE Finish
  <2> DEFINE kind == IF mode = "stream" THEN "done" ELSE "result"
  <2> DEFINE m == Message(kind, done)
  <2>1. /\ buffer' = Append(buffer, m) /\ pipe' = pipe /\ told' = told
        /\ mode' = mode /\ caller' = caller /\ done' = done /\ worker' = "cleaning"
    BY <1>17 DEF Finish, Put
  <2>2. /\ Len(buffer') = Len(buffer) + 1
        /\ \A i \in DOMAIN buffer' :
             \/ i \in DOMAIN buffer /\ buffer'[i] = buffer[i] /\ i # Len(buffer')
             \/ i = Len(buffer') /\ buffer'[i] = m
        /\ Len(buffer) \in Nat /\ Len(pipe) \in Nat /\ Len(told) \in Nat
    BY <1>0, <2>1 DEF TypeOK
  <2>3. /\ worker = "running" /\ done = Steps
        /\ m.kind = IF mode = "stream" THEN "done" ELSE "result"
    BY <1>17 DEF Finish, Message
  <2> HIDE DEF m
  <2>4. StreamIsInOrder' /\ Reading' = Reading
    BY <2>1 DEF OrderInv, StreamIsInOrder, Reading
  <2>5. RunOrder'
    BY <2>1, <2>2, <2>3 DEF OrderInv, RunOrder
  <2>6. StreamOrder'
    <3> SUFFICES ASSUME mode = "stream", Reading PROVE StreamOrder'
      BY <2>1, <2>4 DEF StreamOrder
    <3>1. /\ \A i \in DOMAIN told : told[i].kind = "step"
          /\ Len(told) + Len(pipe) + Len(buffer) = done
          /\ \A i \in DOMAIN pipe :
               InPlace(pipe[i], Len(told) + i) /\ pipe[i].kind = "step"
          /\ \A i \in DOMAIN buffer :
               /\ InPlace(buffer[i], Len(told) + Len(pipe) + i)
               /\ buffer[i].kind = "step"
      BY <2>3 DEF OrderInv, StreamOrder
    <3>2. InPlace(m, Len(told) + Len(pipe) + Len(buffer'))
      BY <1>0, <2>2, <2>3, <3>1 DEF InPlace
    <3> QED
      BY <2>1, <2>2, <2>3, <3>1, <3>2 DEF StreamOrder
  <2> QED
    BY <2>4, <2>5, <2>6 DEF OrderInv
<1>18. CASE Raise
  <2> DEFINE m == Message("error", done)
  <2>1. /\ buffer' = Append(buffer, m) /\ pipe' = pipe /\ told' = told
        /\ mode' = mode /\ caller' = caller /\ done' = done /\ worker' = "cleaning"
    BY <1>18 DEF Raise, Put
  <2>2. /\ Len(buffer') = Len(buffer) + 1
        /\ \A i \in DOMAIN buffer' :
             \/ i \in DOMAIN buffer /\ buffer'[i] = buffer[i] /\ i # Len(buffer')
             \/ i = Len(buffer') /\ buffer'[i] = m
        /\ Len(buffer) \in Nat /\ Len(pipe) \in Nat /\ Len(told) \in Nat
    BY <1>0, <2>1 DEF TypeOK
  <2>3. worker \in {"none", "loading", "running"} /\ m.kind = "error"
    BY <1>18 DEF Raise, Message
  <2> HIDE DEF m
  <2>4. StreamIsInOrder' /\ Reading' = Reading
    BY <2>1 DEF OrderInv, StreamIsInOrder, Reading
  <2>5. RunOrder'
    BY <2>1, <2>2, <2>3 DEF OrderInv, RunOrder
  <2>6. StreamOrder'
    <3> SUFFICES ASSUME mode = "stream", Reading PROVE StreamOrder'
      BY <2>1, <2>4 DEF StreamOrder
    <3>1. /\ \A i \in DOMAIN told : told[i].kind = "step"
          /\ Len(told) + Len(pipe) + Len(buffer) = done
          /\ \A i \in DOMAIN pipe :
               InPlace(pipe[i], Len(told) + i) /\ pipe[i].kind = "step"
          /\ \A i \in DOMAIN buffer :
               /\ InPlace(buffer[i], Len(told) + Len(pipe) + i)
               /\ buffer[i].kind = "step"
      BY <2>3 DEF OrderInv, StreamOrder
    <3>2. InPlace(m, Len(told) + Len(pipe) + Len(buffer'))
      BY <1>0, <2>2, <2>3, <3>1 DEF InPlace
    <3> QED
      BY <2>1, <2>2, <2>3, <3>1, <3>2 DEF StreamOrder
  <2> QED
    BY <2>4, <2>5, <2>6 DEF OrderInv
<1>19. CASE Flush
  <2> DEFINE m == Head(buffer)
  <2>1. /\ buffer # <<>> /\ buffer' = Tail(buffer) /\ pipe' = Append(pipe, m)
        /\ UNCHANGED <<told, mode, caller, worker, done>>
    BY <1>19 DEF Flush, process
  <2>2. /\ Len(buffer') = Len(buffer) - 1 /\ m = buffer[1] /\ 1 \in DOMAIN buffer
        /\ Len(buffer) \in Nat /\ Len(pipe) \in Nat /\ Len(told) \in Nat
        /\ Len(pipe') = Len(pipe) + 1
        /\ \A i \in DOMAIN buffer' :
             i + 1 \in DOMAIN buffer /\ buffer'[i] = buffer[i + 1]
        /\ \A i \in DOMAIN pipe' :
             \/ i \in DOMAIN pipe /\ pipe'[i] = pipe[i]
             \/ i = Len(pipe') /\ pipe'[i] = m
        /\ DOMAIN buffer' = 1..Len(buffer') /\ DOMAIN buffer = 1..Len(buffer)
    BY <1>0, <2>1, TailElements DEF TypeOK
  <2> HIDE DEF m
  <2>3. StreamIsInOrder' /\ Reading' = Reading
    BY <2>1 DEF OrderInv, StreamIsInOrder, Reading
  <2>4. RunOrder'
    BY <2>1, <2>2 DEF OrderInv, RunOrder
  <2>5. StreamOrder'
    <3> SUFFICES ASSUME mode = "stream", Reading PROVE StreamOrder'
      BY <2>1, <2>3 DEF StreamOrder
    <3>1. \A i \in DOMAIN pipe : pipe[i].kind = "step"
      BY <2>1 DEF OrderInv, StreamOrder
    <3>2. /\ InPlace(m, Len(told) + Len(pipe'))
          /\ m.kind # "step" => Len(buffer) = 1
      BY <2>2 DEF OrderInv, StreamOrder
    <3>3. m.kind # "step" => buffer' = <<>>
      BY <1>0, <2>1, <2>2, <3>2 DEF TypeOK
    <3>4. \A i \in DOMAIN pipe' :
            /\ InPlace(pipe'[i], Len(told) + i)
            /\ pipe'[i].kind # "step" => i = Len(pipe') /\ buffer' = <<>>
      BY <2>2, <3>1, <3>2, <3>3 DEF OrderInv, StreamOrder
    <3>5. \A i \in DOMAIN buffer' :
            /\ InPlace(buffer'[i], Len(told) + Len(pipe') + i)
            /\ buffer'[i].kind # "step" => i = Len(buffer')
      <4> SUFFICES ASSUME NEW i \in DOMAIN buffer'
                   PROVE  /\ InPlace(buffer'[i], Len(told) + Len(pipe') + i)
                          /\ buffer'[i].kind # "step" => i = Len(buffer')
        OBVIOUS
      <4>1. /\ InPlace(buffer[i + 1], Len(told) + Len(pipe) + (i + 1))
            /\ buffer[i + 1].kind # "step" => i + 1 = Len(buffer)
        BY <2>2 DEF OrderInv, StreamOrder
      <4>2. i \in Nat /\ Len(told) + Len(pipe) + (i + 1) = Len(told) + Len(pipe') + i
        BY <2>2
      <4> QED
        BY <2>2, <4>1, <4>2
    <3>6. worker \in {"none", "loading", "running"} =>
            /\ Len(told) + Len(pipe') + Len(buffer') = done
            /\ \A i \in DOMAIN pipe' : pipe'[i].kind = "step"
            /\ \A i \in DOMAIN buffer' : buffer'[i].kind = "step"
      <4> SUFFICES ASSUME worker \in {"none", "loading", "running"}
                   PROVE  /\ Len(told) + Len(pipe') + Len(buffer') = done
                          /\ \A i \in DOMAIN pipe' : pipe'[i].kind = "step"
                          /\ \A i \in DOMAIN buffer' : buffer'[i].kind = "step"
        OBVIOUS
      <4>1. /\ Len(told) + Len(pipe) + Len(buffer) = done
            /\ \A i \in DOMAIN buffer : buffer[i].kind = "step"
        BY DEF OrderInv, StreamOrder
      <4>2. Len(told) + Len(pipe') + Len(buffer') = done
        BY <1>0, <2>2, <4>1
      <4>3. \A i \in DOMAIN pipe' : pipe'[i].kind = "step"
        BY <2>2, <3>1, <4>1
      <4>4. \A i \in DOMAIN buffer' : buffer'[i].kind = "step"
        BY <2>2, <4>1
      <4> QED
        BY <4>2, <4>3, <4>4
    <3> QED
      BY <2>1, <3>4, <3>5, <3>6 DEF OrderInv, StreamOrder, InPlace
  <2> QED
    BY <2>3, <2>4, <2>5 DEF OrderInv
<1>20. CASE Crash
  <2>1. /\ UNCHANGED <<mode, done, pipe, caller, told>> /\ buffer' = <<>>
        /\ worker' = "dead" /\ Reading' = Reading
    BY <1>20 DEF Crash, Reading
  <2>2. StreamIsInOrder' /\ RunOrder'
    BY <2>1 DEF OrderInv, StreamIsInOrder, RunOrder
  <2>3. StreamOrder'
    BY <2>1 DEF OrderInv, StreamOrder, InPlace
  <2> QED
    BY <2>2, <2>3 DEF OrderInv
<1>21. CASE StartFails
  <2> DEFINE m == Message("error", 0)
  <2>1. m \in Told /\ m.kind = "error" /\ IsLast(m)
    BY <1>0 DEF Message, Told, IsLast
  <2>2. /\ told' = Append(told, m) /\ caller = "idle"
        /\ UNCHANGED <<mode, pipe, buffer>>
        /\ caller' = IF mode = "run" THEN "ended" ELSE "yielding"
    BY <1>21 DEF StartFails, Tell, Go, queue
  <2>3. mode = "run" =>
          /\ \A i \in DOMAIN pipe' : pipe'[i].kind \notin {"step", "done"}
          /\ \A i \in DOMAIN buffer' : buffer'[i].kind \notin {"step", "done"}
    BY <2>2 DEF OrderInv, RunOrder
  <2> HIDE DEF m
  <2> QED
    BY <1>0, <2>1, <2>2, <2>3, LastWord DEF TypeOK
<1>22. CASE TimeOut
  <2> DEFINE m == Message("timeout", 0)
  <2>1. m \in Told /\ m.kind = "timeout" /\ IsLast(m)
    BY <1>0 DEF Message, Told, IsLast
  <2>2. /\ told' = Append(told, m) /\ caller = "loop" /\ pipe' = pipe
        /\ mode' = mode /\ buffer' \in {buffer, <<>>}
        /\ caller' = IF mode = "run" THEN "joining" ELSE "yielding"
    BY <1>22 DEF TimeOut, Terminate, Answer, Tell, Go, queue
  <2>3. mode = "run" =>
          /\ \A i \in DOMAIN pipe' : pipe'[i].kind \notin {"step", "done"}
          /\ \A i \in DOMAIN buffer' : buffer'[i].kind \notin {"step", "done"}
    BY <2>2 DEF OrderInv, RunOrder
  <2> HIDE DEF m
  <2> QED
    BY <1>0, <2>1, <2>2, <2>3, LastWord DEF TypeOK
<1>23. CASE Receive
  <2> DEFINE m == Head(pipe)
  <2>1. /\ told' = Append(told, m) /\ pipe # <<>> /\ pipe' = Tail(pipe)
        /\ caller = "reading" /\ UNCHANGED <<mode, buffer, worker, done>>
        /\ caller' = IF mode = "run" THEN "joining" ELSE "yielding"
    BY <1>23 DEF Receive, Answer, Tell, Go, process
  <2>2. /\ m \in Sent /\ m = pipe[1] /\ 1 \in DOMAIN pipe
        /\ Len(pipe') = Len(pipe) - 1 /\ Len(pipe) \in Nat /\ Len(told) \in Nat
        /\ Len(buffer) \in Nat
        /\ DOMAIN pipe' = 1..Len(pipe') /\ DOMAIN pipe = 1..Len(pipe)
        /\ \A i \in DOMAIN pipe' :
             i + 1 \in DOMAIN pipe /\ pipe'[i] = pipe[i + 1]
    BY <1>0, <2>1, TailElements DEF TypeOK
  <2>3. /\ Len(told') = Len(told) + 1 /\ told'[Len(told')] = m
        /\ \A i \in DOMAIN told' :
             \/ i \in DOMAIN told /\ told'[i] = told[i]
             \/ i = Len(told') /\ told'[i] = m
    BY <1>0, <2>1, <2>2 DEF TypeOK
  <2> HIDE DEF m
  <2>4. CASE mode = "run"
    <3>1. /\ m \in Told /\ m.kind \notin {"step", "done"}
          /\ \A i \in DOMAIN pipe' : pipe'[i].kind \notin {"step", "done"}
          /\ \A i \in DOMAIN buffer' : buffer'[i].kind \notin {"step", "done"}
      BY <2>1, <2>2, <2>4 DEF OrderInv, RunOrder, Sent, Told
    <3> QED
      BY <1>0, <2>1, <2>4, <3>1, LastWord
  <2>5. CASE mode = "stream"
    <3>1. /\ \A i \in DOMAIN told : told[i].kind = "step"
          /\ InPlace(m, Len(told'))
          /\ m.kind # "step" => Len(pipe) = 1 /\ buffer = <<>>
      BY <2>1, <2>2, <2>3, <2>5 DEF OrderInv, StreamOrder, Reading
    <3>2. StreamIsInOrder'
      BY <2>2, <2>3, <3>1 DEF OrderInv, StreamIsInOrder, InPlace
    <3>3. RunOrder'
      BY <2>1, <2>5 DEF RunOrder
    <3>4. CASE m.kind # "step"
      <4>1. IsLast(m)
        BY <2>2, <3>1, <3>4 DEF Sent, IsLast, InPlace
      <4>2. ~Reading'
        BY <2>1, <2>3, <2>5, <4>1 DEF Reading, IsLast
      <4> QED
        BY <3>2, <3>3, <4>2 DEF OrderInv, StreamOrder
    <3>5. CASE m.kind = "step"
      <4>1. \A i \in DOMAIN told' : told'[i].kind = "step"
        BY <2>3, <3>1, <3>5
      <4>2. \A i \in DOMAIN pipe' :
              /\ InPlace(pipe'[i], Len(told') + i)
              /\ pipe'[i].kind # "step" => i = Len(pipe') /\ buffer' = <<>>
        <5> SUFFICES ASSUME NEW i \in DOMAIN pipe'
                     PROVE  /\ InPlace(pipe'[i], Len(told') + i)
                            /\ pipe'[i].kind # "step" =>
                                 i = Len(pipe') /\ buffer' = <<>>
          OBVIOUS
        <5>1. /\ InPlace(pipe[i + 1], Len(told) + (i + 1))
              /\ pipe[i + 1].kind # "step" => i + 1 = Len(pipe) /\ buffer = <<>>
          BY <2>1, <2>2, <2>5 DEF OrderInv, StreamOrder, Reading
        <5>2. i \in Nat
          BY <2>2
        <5>3. Len(told) + (i + 1) = Len(told') + i
          BY <2>2, <2>3, <5>2
        <5> QED
          BY <2>1, <2>2, <5>1, <5>2, <5>3
      <4>3. Len(told') + Len(pipe') = Len(told) + Len(pipe)
        BY <2>2, <2>3
      <4>4. \A i \in DOMAIN buffer' :
              /\ InPlace(buffer'[i], Len(told') + Len(pipe') + i)
              /\ buffer'[i].kind # "step" => i = Len(buffer')
        BY <2>1, <2>5, <4>3 DEF OrderInv, StreamOrder, Reading
      <4>5. worker \in {"none", "loading", "running"} =>
              /\ Len(told') + Len(pipe') + Len(buffer') = done
              /\ \A i \in DOMAIN pipe' : pipe'[i].kind = "step"
              /\ \A i \in DOMAIN buffer' : buffer'[i].kind = "step"
        BY <2>1, <2>2, <2>5, <4>3 DEF OrderInv, StreamOrder, Reading
      <4> QED
        BY <2>1, <3>2, <3>3, <4>1, <4>2, <4>4, <4>5
        DEF OrderInv, StreamOrder, InPlace
    <3> QED
      BY <3>4, <3>5
  <2> QED
    BY <1>0, <2>4, <2>5 DEF TypeOK
<1>24. CASE CheckWorker
  <2>1. CASE Gone
    <3> DEFINE m == Message("exited", 0)
    <3>1. m \in Told /\ m.kind = "exited" /\ IsLast(m)
      BY <1>0 DEF Message, Told, IsLast
    <3>2. /\ told' = Append(told, m) /\ caller = "checking"
          /\ UNCHANGED <<mode, pipe, buffer>>
          /\ caller' = IF mode = "run" THEN "joining" ELSE "yielding"
      BY <1>24, <2>1 DEF CheckWorker, Answer, Tell, Go, queue
    <3>3. mode = "run" =>
            /\ \A i \in DOMAIN pipe' : pipe'[i].kind \notin {"step", "done"}
            /\ \A i \in DOMAIN buffer' : buffer'[i].kind \notin {"step", "done"}
      BY <3>2 DEF OrderInv, RunOrder
    <3> HIDE DEF m
    <3> QED
      BY <1>0, <3>1, <3>2, <3>3, LastWord DEF TypeOK
  <2>2. CASE ~Gone
    BY <1>24, <2>2, QuietOrder DEF CheckWorker, Go, Reading, process
  <2> QED
    BY <2>1, <2>2
<1>25. CASE JoinTimesOut
  <2>1. /\ caller = "joining" /\ caller' = "reaping" /\ UNCHANGED <<mode, told, pipe>>
        /\ buffer' \in {buffer, <<>>}
    BY <1>25 DEF JoinTimesOut, StopWorker, Terminate, Go
  <2>2. StreamIsInOrder' /\ RunOrder'
    BY <2>1 DEF OrderInv, StreamIsInOrder, RunOrder
  <2> QED
    BY <2>1, <2>2 DEF OrderInv, StreamOrder, Reading
<1>26. CASE CloseStream
  <2>1. /\ caller = "closing" /\ caller' = "reaping" /\ UNCHANGED <<mode, told, pipe>>
        /\ buffer' \in {buffer, <<>>}
    BY <1>26 DEF CloseStream, StopWorker, Terminate, Go
  <2>2. StreamIsInOrder' /\ RunOrder'
    BY <2>1 DEF OrderInv, StreamIsInOrder, RunOrder
  <2> QED
    BY <2>1, <2>2 DEF OrderInv, StreamOrder, Reading
<1> QED
  BY <1>1, <1>2, <1>3, <1>4, <1>5, <1>6, <1>7, <1>8, <1>9, <1>10, <1>11, <1>12, <1>14, <1>15, <1>16, <1>17, <1>18, <1>19, <1>20, <1>21, <1>22, <1>23, <1>24, <1>25, <1>26
  DEF Next, WorkerStep, CallerStep

LEMMA OrderInvariant == Spec => []OrderInv
<1>1. Init => OrderInv
  BY OrderInvInit
<1>2. RunnerInv /\ OrderInv /\ [Next]_vars => OrderInv'
  BY OrderInvStep
<1> QED
  BY <1>1, <1>2, RunnerInvariant, PTL DEF Spec

\* Every reachable state of run() and stream() is well typed; above all, no
\* queue holds more than its maxsize.
THEOREM RunnerTypeCorrect == Spec => []TypeOK
<1>1. RunnerInv => TypeOK
  BY DEF RunnerInv
<1> QED
  BY <1>1, RunnerInvariant, PTL

\* Whatever the worker, the clock and the client do, run() and stream() tell
\* how the run ended as it did.
THEOREM AnswersCorrect == Spec => []AnswersAreTrue
<1>1. RunnerInv => AnswersAreTrue
  BY DEF RunnerInv
<1> QED
  BY <1>1, RunnerInvariant, PTL

\* run() and stream() return only when their worker has ended or been told to,
\* however it hangs or cleans up.
THEOREM CallsOutliveWorkers == Spec => []CallCoversWorker
<1>1. RunnerInv => CallCoversWorker
  BY DEF RunnerInv, StoppedInv, CallCoversWorker
<1> QED
  BY <1>1, RunnerInvariant, PTL

\* What stream() yields is the run so far in order and without a gap, with one
\* last message at most, for every number of steps and every size of the queue.
THEOREM StreamsAreInOrder == Spec => []StreamIsInOrder
<1>1. OrderInv => StreamIsInOrder
  BY DEF OrderInv
<1> QED
  BY <1>1, OrderInvariant, PTL

=============================================================================
