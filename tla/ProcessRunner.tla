--------------------------- MODULE ProcessRunner ---------------------------
(***************************************************************************)
(* One one-shot or streamed FMU run in a worker process                    *)
(* (fmu-executor/app/process_runner.py, called from main.py): the worker,  *)
(* the bounded queue between the processes, the deadline, and a client     *)
(* that may read slowly or leave.                                          *)
(*                                                                         *)
(* Runs share nothing but the slots of the session registry, which are in  *)
(* FmuRegistry: what the sweep does to the slot of a run is there.         *)
(***************************************************************************)
EXTENDS Integers, Sequences

CONSTANTS
  Steps,      \* steps of the simulation
  StreamMax   \* maxsize of a stream's queue, 64 in the code

ASSUME RunnerAssumption == Steps \in Nat \ {0} /\ StreamMax \in Nat \ {0}

VARIABLES
  mode,     \* which of run() and stream() is called
  worker,   \* the process, and how far _execute_worker has come in it
  done,     \* steps it has computed
  tmp,      \* it has a directory in TEMP_DIR
  buffer,   \* what it has put and its feeder thread has not sent
  pipe,     \* what has been sent and not been read
  caller,   \* where run() or stream() is
  late,     \* the deadline has passed
  told,     \* the messages to the client; of run(), its one answer
  client,   \* "here", or "gone" with its connection
  failed    \* history: the simulation or the start of the worker failed

queue == <<buffer, pipe>>
process == <<worker, done, tmp>>
vars == <<mode, process, queue, caller, late, told, client, failed>>

\* seq is that of a step; of other messages, how far the simulation came
Message(kind, seq) == [kind |-> kind, seq |-> seq]

MaxSize == IF mode = "run" THEN 1 ELSE StreamMax

Sent == [kind: {"step", "done", "result", "error"}, seq: 0..Steps]

Told ==
  [kind: {"step", "done", "result", "error", "timeout", "exited"},
   seq: 0..Steps]

\* A queue's maxsize counts what has been put and not been read
TypeOK ==
  /\ mode \in {"run", "stream"}
  /\ worker \in {"none", "loading", "running", "cleaning", "exiting",
                 "killed", "dead"}
  /\ done \in 0..Steps
  /\ buffer \in Seq(Sent) /\ pipe \in Seq(Sent)
  /\ Len(buffer) + Len(pipe) <= MaxSize
  /\ caller \in {"idle", "loop", "reading", "checking", "yielding",
                 "joining", "closing", "reaping", "ended"}
  /\ told \in Seq(Told)
  /\ client \in {"here", "gone"}
  /\ tmp \in BOOLEAN /\ late \in BOOLEAN
  /\ failed \in BOOLEAN

Init ==
  /\ mode \in {"run", "stream"}
  /\ worker = "none" /\ done = 0 /\ tmp = FALSE
  /\ buffer = <<>> /\ pipe = <<>>
  /\ caller = "idle" /\ late = FALSE
  /\ told = <<>> /\ client = "here" /\ failed = FALSE

Alive == worker \notin {"none", "dead"}

\* Alive, and nobody has asked it to end
Busy == Alive /\ worker # "killed"

----------------------------------------------------------------------------
(* The worker: _execute_worker                                             *)

\* Operators marked "Faulty variant" are no part of the specification: each is
\* a plausible mistake in the operator after it, and shows that a property can
\* fail.

\* Faulty variant: one message too many
HasRoomForOneMore == Len(buffer) + Len(pipe) <= MaxSize

HasRoom == Len(buffer) + Len(pipe) < MaxSize

\* put() waits for room and leaves the message to the feeder thread
Put(kind, seq) ==
  /\ HasRoom
  /\ buffer' = Append(buffer, Message(kind, seq))
  /\ UNCHANGED pipe

\* The FMU is extracted to a directory of its own
Load ==
  /\ worker = "loading"
  /\ worker' = "running" /\ tmp' = TRUE
  /\ UNCHANGED <<mode, done, queue, caller, late, told, client, failed>>

SimStep ==
  /\ worker = "running" /\ done < Steps
  /\ done' = done + 1
  /\ IF mode = "stream" THEN Put("step", done) ELSE UNCHANGED queue
  /\ UNCHANGED <<mode, worker, tmp, caller, late, told, client, failed>>

Finish ==
  /\ worker = "running" /\ done = Steps
  /\ worker' = "cleaning"
  /\ Put(IF mode = "stream" THEN "done" ELSE "result", done)
  /\ UNCHANGED <<mode, done, tmp, caller, late, told, client, failed>>

\* An exception, at any step
Raise ==
  /\ worker \in {"loading", "running"}
  /\ worker' = "cleaning" /\ failed' = TRUE
  /\ tmp' \in {tmp, TRUE}
  /\ Put("error", done)
  /\ UNCHANGED <<mode, done, caller, late, told, client>>

\* session.terminate()
Clean ==
  /\ worker = "cleaning"
  /\ worker' = "exiting" /\ tmp' = FALSE
  /\ UNCHANGED <<mode, done, queue, caller, late, told, client, failed>>

Flush ==
  /\ Busy /\ buffer # <<>>
  /\ buffer' = Tail(buffer) /\ pipe' = Append(pipe, Head(buffer))
  /\ UNCHANGED <<mode, process, caller, late, told, client, failed>>

\* A process exits when its feeder thread has sent everything
Exit ==
  /\ worker = "exiting" /\ buffer = <<>>
  /\ worker' = "dead"
  /\ UNCHANGED <<mode, done, tmp, queue, caller, late, told, client, failed>>

\* The native code takes the process down, with what was not sent
Crash ==
  /\ Busy
  /\ worker' = "dead" /\ buffer' = <<>>
  /\ UNCHANGED <<mode, done, tmp, pipe, caller, late, told, client, failed>>

\* A process that was terminated is gone soon
Die ==
  /\ worker = "killed"
  /\ worker' = "dead"
  /\ UNCHANGED <<mode, done, tmp, queue, caller, late, told, client, failed>>

WorkerStep ==
  \/ Load \/ SimStep \/ Finish \/ Raise \/ Clean \/ Flush \/ Exit \/ Crash
  \/ Die

----------------------------------------------------------------------------
(* run() and stream()                                                      *)

Go(place) == caller' = place

Tell(m) == told' = Append(told, m)

\* What run() does with an answer is to clean up and return or raise it; what
\* stream() does with a message is to wait until the client wants the next
Answer(m) ==
  /\ Tell(m)
  /\ Go(IF mode = "run" THEN "joining" ELSE "yielding")

Start ==
  /\ caller = "idle" /\ client = "here"
  /\ worker' = "loading"
  /\ Go("loop")
  /\ UNCHANGED <<mode, done, tmp, queue, late, told, client, failed>>

\* A stream says so in its only message
StartFails ==
  /\ caller = "idle" /\ client = "here"
  /\ Tell(Message("error", 0)) /\ failed' = TRUE
  /\ Go(IF mode = "run" THEN "ended" ELSE "yielding")
  /\ UNCHANGED <<mode, process, queue, late, client>>

\* process.terminate()
Terminate ==
  /\ worker' = IF Alive THEN "killed" ELSE worker
  /\ buffer' = IF Alive THEN <<>> ELSE buffer
  /\ UNCHANGED <<done, tmp, pipe>>

\* Faulty variant: the worker is left to end by itself
LeaveAlone == UNCHANGED <<process, queue>>

StopWorker == Terminate

\* Faulty variant: nobody looks at the deadline
NeverOverdue == FALSE

Overdue == late

\* get() waits a second at most, so that the deadline is seen
Wait ==
  /\ caller = "loop" /\ ~Overdue
  /\ Go("reading")
  /\ UNCHANGED <<mode, process, queue, late, told, client, failed>>

\* run() terminates the worker first; stream() when its last message is read
TimeOut ==
  /\ caller = "loop" /\ Overdue
  /\ Answer(Message("timeout", 0))
  /\ IF mode = "run" THEN Terminate ELSE UNCHANGED <<process, queue>>
  /\ UNCHANGED <<mode, late, client, failed>>

Receive ==
  /\ caller = "reading" /\ pipe # <<>>
  /\ pipe' = Tail(pipe)
  /\ Answer(Head(pipe))
  /\ UNCHANGED <<mode, process, buffer, late, client, failed>>

Empty ==
  /\ caller = "reading" /\ pipe = <<>>
  /\ Go("checking")
  /\ UNCHANGED <<mode, process, queue, late, told, client, failed>>

\* Faulty variant: an empty queue is taken for an exit
NothingCame == TRUE

Gone == ~Alive

CheckWorker ==
  /\ caller = "checking"
  /\ IF Gone THEN Answer(Message("exited", 0)) ELSE Go("loop") /\ UNCHANGED told
  /\ UNCHANGED <<mode, process, queue, late, client, failed>>

\* Faulty variant: sim.done is a message like the others
IsError(m) == m.kind \in {"error", "timeout", "exited"}

IsLast(m) == m.kind \in {"done", "error", "timeout", "exited"}

\* The client takes the message and wants the next
Resume ==
  /\ caller = "yielding" /\ client = "here"
  /\ Go(IF IsLast(told[Len(told)]) THEN "closing" ELSE "loop")
  /\ UNCHANGED <<mode, process, queue, late, told, client, failed>>

\* The response of a client that left is dropped, and its generator closed
Drop ==
  /\ caller = "yielding" /\ client = "gone"
  /\ Go("closing")
  /\ UNCHANGED <<mode, process, queue, late, told, client, failed>>

\* run() lets the worker clean up for two seconds
Join ==
  /\ caller = "joining" /\ ~Alive
  /\ Go("ended")
  /\ UNCHANGED <<mode, process, queue, late, told, client, failed>>

JoinTimesOut ==
  /\ caller = "joining" /\ Alive
  /\ StopWorker
  /\ Go("reaping")
  /\ UNCHANGED <<mode, late, told, client, failed>>

\* stream() does not
CloseStream ==
  /\ caller = "closing"
  /\ StopWorker
  /\ Go("reaping")
  /\ UNCHANGED <<mode, late, told, client, failed>>

\* The last join() succeeds, or its time is over
Reap ==
  /\ caller = "reaping"
  /\ Go("ended")
  /\ UNCHANGED <<mode, process, queue, late, told, client, failed>>

CallerStep ==
  \/ Wait \/ TimeOut \/ Receive \/ Empty \/ CheckWorker \/ Drop
  \/ Join \/ JoinTimesOut \/ CloseStream \/ Reap

Leave ==
  /\ mode = "stream" /\ client = "here"
  /\ client' = "gone"
  /\ UNCHANGED <<mode, process, queue, caller, late, told, failed>>

Deadline ==
  /\ ~late /\ caller \notin {"idle", "ended"}
  /\ late' = TRUE
  /\ UNCHANGED <<mode, process, queue, caller, told, client, failed>>

----------------------------------------------------------------------------

Next ==
  \/ Start \/ StartFails
  \/ WorkerStep
  \/ CallerStep
  \/ Resume
  \/ Leave
  \/ Deadline

\* The thread of the call and the clock go on.  Neither the worker, which runs
\* foreign code, nor the client owes anything.
Spec == Init /\ [][Next]_vars /\ WF_vars(CallerStep) /\ WF_vars(Deadline)

\* A client that reads on or leaves
FairSpec == Spec /\ WF_vars(Resume)

----------------------------------------------------------------------------
(* Properties                                                              *)

\* "sim.step snapshots with seq, followed by sim.done; failures are emitted as
\* an error": what a client has read is the run so far, without a gap, and
\* nothing comes after the end of it, however the worker ends.
StreamIsInOrder ==
  \A i \in DOMAIN told :
    /\ told[i].kind = "step" => told[i].seq = i - 1
    /\ told[i].kind = "done" => i = Steps + 1
    /\ told[i].kind # "step" => i = Len(told)

\* A run is called finished, failed, overdue or vanished only if it is: a slow
\* or silent worker is not taken for one that crashed, and no result is told
\* before the last step.
AnswersAreTrue ==
  \A i \in DOMAIN told : LET kind == told[i].kind IN
    /\ kind \in {"result", "done"} => done = Steps
    /\ kind = "error" => failed
    /\ kind = "timeout" => late
    /\ kind = "exited" => ~Alive

\* run() and stream() return, and their callers take the run for over and its
\* slot for free, only when the worker has ended or been told to: no worker goes
\* on computing beside those of the next runs, hang or clean up as it may.
CallCoversWorker == caller = "ended" => ~Busy

\* Whatever the worker does, a call comes to its end, if the client reads on or
\* leaves.
CallEnds == caller # "idle" ~> caller = "ended"

\* "Deadline for an isolated one-shot/stream worker": when it has passed, the
\* worker is ended.
DeadlineHolds == late ~> ~Busy

=============================================================================
