------------------------------ MODULE FmuOutput ------------------------------
(***************************************************************************)
(* The output subscription of one realtime session: what its connections'  *)
(* emitter tasks sample and send (_output_emitter in app/main.py,          *)
(* sample_subscription in app/engine.py), beside the answers that carry    *)
(* outputs.  All of them count with the session's one sequence number.     *)
(*                                                                         *)
(* A sample is one polling of an emitter; only the number of samples       *)
(* matters, not their values.                                              *)
(***************************************************************************)
EXTENDS Naturals

CONSTANTS
  Conns,    \* websocket connections
  Limits,   \* the maxBatchSize values clients ask for
  MaxSeq,   \* bound on the number of events
  MaxTaken  \* bound on the number of samples between two events

ASSUME OutputAssumption ==
  /\ Limits \subseteq Nat \ {0}
  /\ \E l \in Limits : \A k \in Limits : k <= l
  /\ MaxSeq \in Nat \ {0} /\ MaxTaken \in Nat

VARIABLES
  live,     \* the session is initialized and not terminated
  ended,    \* the session has left the registry
  sub,      \* its subscription
  samples,  \* the number of _pending_samples
  seq,      \* the next sequence number
  bound,    \* the connections whose session it is
  emitter,  \* where each connection's emitter task is
  told,     \* the sequence number each connection was last sent
  event,    \* the last subscribed event: its batchSize and dropped
  taken,    \* history: samples since the last event, or the subscription
  kept      \* history: samples that were pending by then

session == <<live, ended, sub, samples, seq>>
history == <<event, taken, kept>>
vars == <<session, bound, emitter, told, history>>

MaxLimit == CHOOSE l \in Limits : \A k \in Limits : k <= l

\* limit 0: no subscription.  quiet: min_interval since the last event is not
\* over.  dropped: rate_dropped.
NoSub == [limit |-> 0, quiet |-> FALSE, dropped |-> 0]

Sub == [limit: Limits \cup {0}, quiet: BOOLEAN, dropped: Nat]

TypeOK ==
  /\ live \in BOOLEAN /\ ended \in BOOLEAN
  /\ sub \in Sub
  /\ samples \in 0..MaxLimit
  /\ sub = NoSub => samples = 0
  /\ seq \in 0..MaxSeq
  /\ bound \subseteq Conns
  /\ emitter \in [Conns -> {"none", "polling", "sending"}]
  /\ told \in [Conns -> 0..MaxSeq]
  /\ event \in [batch: 0..MaxLimit, dropped: Nat]
  /\ taken \in 0..MaxTaken /\ kept \in 0..MaxLimit

Init ==
  /\ live = FALSE /\ ended = FALSE
  /\ sub = NoSub /\ samples = 0 /\ seq = 1
  /\ bound = {}
  /\ emitter = [c \in Conns |-> "none"]
  /\ told = [c \in Conns |-> 0]
  /\ event = [batch |-> 0, dropped |-> 0] /\ taken = 0 /\ kept = 0

----------------------------------------------------------------------------
(* The session and its connections                                         *)

\* session.create and session.attach start the emitter unless it runs
Bind(c) ==
  /\ ~ended
  /\ bound' = bound \cup {c}
  /\ emitter' = [emitter EXCEPT ![c] = IF @ = "none" THEN "polling" ELSE @]
  /\ UNCHANGED <<session, told, history>>

\* Faulty variant: a new instance counts its outputs from the start
CountFromOne(c) ==
  /\ c \in bound
  /\ live' \in BOOLEAN
  /\ seq' = 1
  /\ UNCHANGED <<ended, sub, samples, bound, emitter, told, history>>

\* initialize and reset, which may fail; they leave the subscription alone
Initialize(c) ==
  /\ c \in bound
  /\ live' \in BOOLEAN
  /\ UNCHANGED <<ended, sub, samples, seq, bound, emitter, told, history>>

\* The session expires, is swept, or is terminated by one of its connections
SessionEnds ==
  /\ live' = FALSE /\ ended' = TRUE
  /\ \/ UNCHANGED bound
     \/ \E c \in bound : bound' = bound \ {c}
  /\ UNCHANGED <<sub, samples, seq, emitter, told, history>>

\* A lost websocket cancels its emitter
Lost(c) ==
  /\ bound' = bound \ {c}
  /\ emitter' = [emitter EXCEPT ![c] = "none"]
  /\ UNCHANGED <<session, told, history>>

----------------------------------------------------------------------------
(* Commands                                                                *)

\* A subscription starts with nothing dropped and, unless the host is younger
\* than the interval, with its first sample; pending samples stay
Subscribe(c) ==
  /\ c \in bound
  /\ \E l \in Limits, q \in BOOLEAN :
       sub' = [limit |-> l, quiet |-> q, dropped |-> 0]
  /\ taken' = 0 /\ kept' = samples
  /\ UNCHANGED <<live, ended, samples, seq, bound, emitter, told, event>>

\* Faulty variant: the samples stay for a later subscription
Keep == UNCHANGED samples

Discard == samples' = 0

Unsubscribe(c) ==
  /\ c \in bound
  /\ sub' = NoSub
  /\ Discard
  /\ taken' = 0 /\ kept' = 0
  /\ UNCHANGED <<live, ended, seq, bound, emitter, told, event>>

\* The next number goes to connection c
Number(c) ==
  /\ seq < MaxSeq
  /\ told' = [told EXCEPT ![c] = seq]
  /\ seq' = seq + 1

\* step, runUntil and getOutputs answer with outputs that drop nothing
Answer(c) ==
  /\ c \in bound /\ live
  /\ Number(c)
  /\ UNCHANGED <<live, ended, sub, samples, bound, emitter, history>>

----------------------------------------------------------------------------
(* The emitter tasks                                                       *)

Polls(c) ==
  /\ emitter[c] = "polling"
  /\ c \in bound /\ live /\ sub # NoSub

\* The samples that exceed max_batch_size with one more
Excess == IF samples >= sub.limit THEN samples + 1 - sub.limit ELSE 0

\* Faulty variant: only what the batch cannot hold is counted
CutOnly == sub.dropped + Excess

Withheld == sub.dropped + Excess + 1

\* The interval is not over: the sample waits for the next event
Sample(c) ==
  /\ Polls(c) /\ sub.quiet
  /\ taken < MaxTaken
  /\ samples' = samples + 1 - Excess
  /\ sub' = [sub EXCEPT !.dropped = Withheld]
  /\ taken' = taken + 1
  /\ UNCHANGED <<live, ended, seq, bound, emitter, told, event, kept>>

\* It is over: an event with all that is pending, by whichever emitter comes
Emit(c) ==
  /\ Polls(c) /\ ~sub.quiet
  /\ event' = [batch |-> samples + 1 - Excess, dropped |-> sub.dropped + Excess]
  /\ samples' = 0
  /\ sub' = [sub EXCEPT !.quiet = TRUE, !.dropped = 0]
  /\ Number(c)
  /\ emitter' = [emitter EXCEPT ![c] = "sending"]
  /\ taken' = 0 /\ kept' = 0
  /\ UNCHANGED <<live, ended, bound>>

Sent(c) ==
  /\ emitter[c] = "sending"
  /\ emitter' = [emitter EXCEPT ![c] = "polling"]
  /\ UNCHANGED <<session, bound, told, history>>

\* A send that raises ends the task, and so do names that set() cannot take,
\* before there is a sample; a variable that cannot be read is left out
EmitterFails(c) ==
  /\ Polls(c) \/ emitter[c] = "sending"
  /\ emitter' = [emitter EXCEPT ![c] = "none"]
  /\ UNCHANGED <<session, bound, told, history>>

\* min_interval is over
Elapse ==
  /\ sub.quiet
  /\ sub' = [sub EXCEPT !.quiet = FALSE]
  /\ UNCHANGED <<live, ended, samples, seq, bound, emitter, told, history>>

ConnStep(c) ==
  \/ Bind(c)
  \/ Initialize(c)
  \/ Lost(c)
  \/ Subscribe(c)
  \/ Unsubscribe(c)
  \/ Answer(c)
  \/ Sample(c)
  \/ Emit(c)
  \/ Sent(c)
  \/ EmitterFails(c)

Next ==
  \/ \E c \in Conns : ConnStep(c)
  \/ SessionEnds
  \/ Elapse

Spec == Init /\ [][Next]_vars

----------------------------------------------------------------------------
(* Properties                                                              *)

\* "monotonic seq" (fmu-executor/README.md): of everything that carries outputs
\* of the session, whichever connection and task sent it, the later has the
\* higher number, across resets, reconnections and new subscriptions.
SeqIsMonotonic ==
  [][\A c, d \in Conns : told'[c] # told[c] => told'[c] > told[d]]_vars

\* An event accounts for every sample since the last one, or since the
\* subscription: its batch is as many of them, and of those kept from before,
\* as the limit allows, and it reports as dropped each that the rate limit
\* withheld and, once more, each that the batch could not hold.
DropsAreExplained ==
  [][\A c \in Conns : LET all == kept + taken + 1 IN
       emitter[c] = "polling" /\ emitter'[c] = "sending" =>
         /\ event'.batch = IF all > sub.limit THEN sub.limit ELSE all
         /\ event'.dropped = taken + (all - event'.batch)]_vars

=============================================================================
