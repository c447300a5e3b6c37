--------------------------- MODULE FmuOutputProofs ---------------------------
(***************************************************************************)
(* The output subscription for any connections, batch limits and bounds:   *)
(* the numbers of a session only grow, and every sample is accounted for.  *)
(***************************************************************************)
EXTENDS FmuOutput, TLAPS

\* The fields of the subscription; only NoSub has no limit
SubInv ==
  /\ sub.limit \in Limits \cup {0}
  /\ sub.quiet \in BOOLEAN
  /\ sub.dropped \in Nat
  /\ sub.limit = 0 => sub = NoSub /\ taken = 0 /\ kept = 0

\* A connection has been told only numbers that were handed out
NumberInv == \A c \in Conns : told[c] < seq

\* Until the first sample the kept ones wait untouched; after it the batch is
\* cut to the limit, and what is not in it has been dropped
AccountInv ==
  /\ taken = 0 => samples = kept
  /\ taken > 0 /\ kept + taken <= sub.limit => samples = kept + taken
  /\ taken > 0 /\ kept + taken > sub.limit => samples = sub.limit
  /\ sub.dropped = taken + (kept + taken - samples)

OutputInv == TypeOK /\ SubInv /\ NumberInv /\ AccountInv

LEMMA MaxLimitIsLargest ==
  /\ MaxLimit \in Limits
  /\ MaxLimit \in Nat \ {0}
  /\ \A l \in Limits : l \in Nat \ {0} /\ l <= MaxLimit
<1>1. \E l \in Limits : \A k \in Limits : k <= l
  BY OutputAssumption DEF OutputAssumption
<1>2. MaxLimit \in Limits /\ \A k \in Limits : k <= MaxLimit
  BY <1>1 DEF MaxLimit
<1> QED
  BY <1>2, OutputAssumption DEF OutputAssumption

LEMMA OutputInvInit == Init => OutputInv
<1> SUFFICES ASSUME Init PROVE OutputInv
  OBVIOUS
<1> USE OutputAssumption, MaxLimitIsLargest DEF OutputAssumption, Init, NoSub
<1>1. TypeOK
  <2>1. sub \in Sub /\ samples = 0
    BY DEF Sub
  <2>2. 0 \in 0..MaxLimit /\ 0 \in 0..MaxTaken /\ {0, 1} \subseteq 0..MaxSeq
    OBVIOUS
  <2> QED
    BY <2>1, <2>2 DEF TypeOK
<1>2. SubInv /\ NumberInv /\ AccountInv
  BY DEF SubInv, NumberInv, AccountInv
<1> QED
  BY <1>1, <1>2 DEF OutputInv

\* What is cut from a batch that gets one more sample
LEMMA ExcessIsCut ==
  ASSUME TypeOK, SubInv, sub # NoSub
  PROVE  /\ sub.limit \in Nat \ {0} /\ sub.limit <= MaxLimit
         /\ samples \in Nat /\ Excess \in Nat
         /\ samples < sub.limit => Excess = 0
         /\ samples >= sub.limit => samples + 1 - Excess = sub.limit
         /\ samples + 1 - Excess \in 0..MaxLimit
<1>1. sub.limit \in Limits
  BY DEF SubInv
<1>2. sub.limit \in Nat \ {0} /\ sub.limit <= MaxLimit /\ MaxLimit \in Nat
  BY <1>1, MaxLimitIsLargest
<1>3. samples \in Nat
  BY <1>2 DEF TypeOK
<1> QED
  BY <1>2, <1>3 DEF Excess

----------------------------------------------------------------------------
(* One lemma per group of actions                                          *)

\* Sessions and connections leave subscription, samples and numbers alone
LEMMA SessionKeepsInv ==
  ASSUME OutputInv, UNCHANGED <<sub, samples, seq, told, history>>,
         live' \in BOOLEAN, ended' \in BOOLEAN, bound' \subseteq Conns,
         emitter' \in [Conns -> {"none", "polling", "sending"}]
  PROVE  OutputInv'
<1>1. TypeOK'
  BY DEF OutputInv, TypeOK, history
<1>2. SubInv' /\ NumberInv' /\ AccountInv'
  BY DEF OutputInv, SubInv, NumberInv, AccountInv, history
<1> QED
  BY <1>1, <1>2 DEF OutputInv

LEMMA SessionActionsKeepInv ==
  ASSUME OutputInv, NEW c \in Conns,
         \/ Bind(c) \/ Initialize(c) \/ SessionEnds \/ Lost(c)
         \/ Sent(c) \/ EmitterFails(c)
  PROVE  OutputInv'
<1> USE DEF OutputInv, TypeOK, session, history
<1>1. CASE Bind(c)
  BY <1>1, SessionKeepsInv DEF Bind
<1>2. CASE Initialize(c)
  BY <1>2, SessionKeepsInv DEF Initialize
<1>3. CASE SessionEnds
  BY <1>3, SessionKeepsInv DEF SessionEnds
<1>4. CASE Lost(c)
  BY <1>4, SessionKeepsInv DEF Lost
<1>5. CASE Sent(c)
  BY <1>5, SessionKeepsInv DEF Sent
<1>6. CASE EmitterFails(c)
  BY <1>6, SessionKeepsInv DEF EmitterFails
<1> QED
  BY <1>1, <1>2, <1>3, <1>4, <1>5, <1>6

LEMMA SubscriptionKeepsInv ==
  ASSUME OutputInv, NEW c \in Conns, Subscribe(c) \/ Unsubscribe(c)
  PROVE  OutputInv'
<1> USE OutputAssumption, MaxLimitIsLargest
    DEF OutputAssumption, OutputInv, NoSub
<1>1. CASE Subscribe(c)
  <2>1. PICK l \in Limits, q \in BOOLEAN :
          sub' = [limit |-> l, quiet |-> q, dropped |-> 0]
    BY <1>1 DEF Subscribe
  <2>2. TypeOK'
    BY <1>1, <2>1 DEF TypeOK, Sub, Subscribe
  <2>3. SubInv'
    BY <1>1, <2>1 DEF SubInv
  <2>4. NumberInv' /\ AccountInv'
    BY <1>1, <2>1 DEF TypeOK, NumberInv, AccountInv, Subscribe
  <2> QED
    BY <2>2, <2>3, <2>4
<1>2. CASE Unsubscribe(c)
  <2>1. TypeOK'
    BY <1>2 DEF TypeOK, Sub, Unsubscribe, Discard
  <2>2. SubInv' /\ NumberInv' /\ AccountInv'
    BY <1>2 DEF TypeOK, SubInv, NumberInv, AccountInv, Unsubscribe, Discard
  <2> QED
    BY <2>1, <2>2
<1> QED
  BY <1>1, <1>2

LEMMA NumberKeepsNumbers ==
  ASSUME OutputInv, NEW c \in Conns, Number(c)
  PROVE  /\ seq' \in 0..MaxSeq
         /\ told' \in [Conns -> 0..MaxSeq]
         /\ NumberInv'
<1> USE OutputAssumption DEF OutputAssumption, OutputInv, TypeOK, Number
<1>1. seq' \in 0..MaxSeq /\ told' \in [Conns -> 0..MaxSeq]
  OBVIOUS
<1>2. ASSUME NEW d \in Conns PROVE told'[d] < seq'
  BY DEF NumberInv
<1> QED
  BY <1>1, <1>2 DEF NumberInv

LEMMA AnswerKeepsInv ==
  ASSUME OutputInv, NEW c \in Conns, Answer(c) PROVE OutputInv'
<1>1. TypeOK'
  BY NumberKeepsNumbers DEF OutputInv, TypeOK, Answer, history
<1>2. SubInv' /\ NumberInv' /\ AccountInv'
  BY NumberKeepsNumbers DEF OutputInv, SubInv, AccountInv, Answer, history
<1> QED
  BY <1>1, <1>2 DEF OutputInv

\* A subscription that goes on keeps its limit
LEMMA SubGoesOn ==
  ASSUME OutputInv, sub # NoSub, NEW q \in BOOLEAN, NEW d \in Nat,
         sub' = [limit |-> sub.limit, quiet |-> q, dropped |-> d]
  PROVE  SubInv' /\ sub' \in Sub /\ sub' # NoSub
<1>1. sub.limit \in Limits /\ sub.limit # 0
  BY OutputAssumption DEF OutputAssumption, OutputInv, SubInv
<1>2. sub'.limit = sub.limit /\ sub'.quiet = q /\ sub'.dropped = d
  OBVIOUS
<1>3. SubInv'
  BY <1>1, <1>2 DEF SubInv
<1>4. sub' \in Sub
  BY <1>1 DEF Sub
<1>5. sub' # NoSub
  BY <1>1, <1>2 DEF NoSub
<1> QED
  BY <1>3, <1>4, <1>5

LEMMA SampleKeepsInv ==
  ASSUME OutputInv, NEW c \in Conns, Sample(c) PROVE OutputInv'
<1> USE DEF OutputInv, Sample, Polls
<1>1. /\ sub.limit \in Nat \ {0}
      /\ samples \in Nat /\ Excess \in Nat
      /\ samples < sub.limit => Excess = 0
      /\ samples >= sub.limit => samples + 1 - Excess = sub.limit
      /\ samples + 1 - Excess \in 0..MaxLimit
  BY ExcessIsCut
<1>2. sub' = [limit |-> sub.limit, quiet |-> sub.quiet,
              dropped |-> sub.dropped + Excess + 1]
  BY DEF TypeOK, Sub, Withheld
<1>3. sub.quiet \in BOOLEAN /\ sub.dropped \in Nat
  BY DEF SubInv
<1>4. SubInv' /\ sub' \in Sub /\ sub' # NoSub
  <2>1. sub.dropped + Excess + 1 \in Nat
    BY <1>1, <1>3
  <2> QED
    BY <1>2, <1>3, <2>1, SubGoesOn
<1>5. TypeOK'
  <2>1. samples' \in 0..MaxLimit
    BY <1>1
  <2>2. taken' \in 0..MaxTaken
    BY OutputAssumption DEF OutputAssumption, TypeOK
  <2> QED
    BY <1>4, <2>1, <2>2 DEF TypeOK
<1>6. NumberInv'
  BY DEF NumberInv
<1>7. AccountInv'
  <2>1. taken \in Nat /\ kept \in Nat
    BY DEF TypeOK
  <2>2. sub'.limit = sub.limit /\ sub'.dropped = sub.dropped + Excess + 1
    BY <1>2
  <2>3. samples' = samples + 1 - Excess /\ taken' = taken + 1 /\ kept' = kept
    OBVIOUS
  <2> HIDE DEF OutputInv, Sample
  <2>4. AccountInv
    BY DEF OutputInv
  <2>5. sub'.dropped = taken' + (kept' + taken' - samples')
    BY <1>1, <1>3, <2>1, <2>2, <2>3, <2>4 DEF AccountInv
  <2>6. kept' + taken' <= sub'.limit => samples' = kept' + taken'
    BY <1>1, <2>1, <2>2, <2>3, <2>4 DEF AccountInv
  <2>7. kept' + taken' > sub'.limit => samples' = sub'.limit
    BY <1>1, <2>1, <2>2, <2>3, <2>4 DEF AccountInv
  <2> QED
    BY <2>1, <2>3, <2>5, <2>6, <2>7 DEF AccountInv
<1> QED
  BY <1>4, <1>5, <1>6, <1>7

LEMMA EmitKeepsInv ==
  ASSUME OutputInv, NEW c \in Conns, Emit(c) PROVE OutputInv'
<1> USE DEF OutputInv, Emit, Polls
<1>1. /\ samples \in Nat /\ Excess \in Nat
      /\ samples + 1 - Excess \in 0..MaxLimit
  BY ExcessIsCut
<1>2. sub' = [limit |-> sub.limit, quiet |-> TRUE, dropped |-> 0]
  BY DEF TypeOK, Sub
<1>3. SubInv' /\ sub' \in Sub /\ sub' # NoSub
  BY <1>2, SubGoesOn
<1>4. TypeOK'
  <2>1. event' \in [batch: 0..MaxLimit, dropped: Nat]
    BY <1>1 DEF SubInv
  <2>2. seq' \in 0..MaxSeq /\ told' \in [Conns -> 0..MaxSeq]
    BY NumberKeepsNumbers
  <2>3. 0 \in 0..MaxLimit /\ 0 \in 0..MaxTaken
    BY MaxLimitIsLargest, OutputAssumption DEF OutputAssumption
  <2> QED
    BY <1>3, <2>1, <2>2, <2>3 DEF TypeOK
<1>5. NumberInv'
  BY NumberKeepsNumbers
<1>6. AccountInv'
  BY <1>2 DEF AccountInv
<1> QED
  BY <1>3, <1>4, <1>5, <1>6

LEMMA ElapseKeepsInv ==
  ASSUME OutputInv, Elapse PROVE OutputInv'
<1> USE DEF OutputInv, Elapse, history
<1>1. sub' = [limit |-> sub.limit, quiet |-> FALSE, dropped |-> sub.dropped]
  BY DEF TypeOK, Sub
<1>2. sub # NoSub /\ sub.dropped \in Nat
  BY DEF SubInv, NoSub
<1>3. SubInv' /\ sub' \in Sub /\ sub' # NoSub
  BY <1>1, <1>2, SubGoesOn
<1>4. TypeOK'
  BY <1>3 DEF TypeOK
<1>5. NumberInv' /\ AccountInv'
  BY <1>1 DEF NumberInv, AccountInv
<1> QED
  BY <1>3, <1>4, <1>5

LEMMA OutputInvStep == OutputInv /\ [Next]_vars => OutputInv'
<1> SUFFICES ASSUME OutputInv, [Next]_vars PROVE OutputInv'
  OBVIOUS
<1>1. ASSUME NEW c \in Conns, ConnStep(c) PROVE OutputInv'
  BY <1>1, SessionActionsKeepInv, SubscriptionKeepsInv, AnswerKeepsInv,
     SampleKeepsInv, EmitKeepsInv DEF ConnStep
<1>2. CASE SessionEnds
  BY <1>2, SessionKeepsInv DEF OutputInv, TypeOK, SessionEnds
<1>3. CASE Elapse
  BY <1>3, ElapseKeepsInv
<1>4. CASE UNCHANGED vars
  BY <1>4, SessionKeepsInv DEF OutputInv, TypeOK, vars, session, history
<1> QED
  BY <1>1, <1>2, <1>3, <1>4 DEF Next

LEMMA OutputInvHolds == Spec => []OutputInv
  BY OutputInvInit, OutputInvStep, PTL DEF Spec

----------------------------------------------------------------------------
(* The theorems                                                            *)

\* Every reachable state of the subscription is well typed: the pending batch
\* of app/engine.py never exceeds the largest limit a client asked for.
THEOREM OutputTypeCorrect == Spec => []TypeOK
<1>1. OutputInv => TypeOK
  BY DEF OutputInv
<1> QED
  BY <1>1, OutputInvHolds, PTL

LEMMA StepIsMonotonic ==
  ASSUME OutputInv, [Next]_vars, NEW c \in Conns, NEW d \in Conns,
         told'[c] # told[c]
  PROVE  told'[c] > told[d]
<1>1. PICK e \in Conns : Number(e)
  BY DEF Next, ConnStep, Bind, Initialize, Lost, Subscribe, Unsubscribe,
         Answer, Sample, Emit, Sent, EmitterFails, SessionEnds, Elapse, vars
<1>2. told'[c] = seq
  BY <1>1 DEF OutputInv, TypeOK, Number
<1>3. told[d] < seq
  BY DEF OutputInv, NumberInv
<1>4. told[d] \in Nat /\ seq \in Nat
  BY DEF OutputInv, TypeOK
<1> QED
  BY <1>2, <1>3, <1>4

\* Whichever connection and task sends outputs of a session, answer or event,
\* the later has the higher number: an emitter that outlives its session's
\* reset, and two emitters of one session, share one counter.
THEOREM NumbersGrow == Spec => SeqIsMonotonic
<1>1. OutputInv /\ [Next]_vars =>
        [\A c, d \in Conns : told'[c] # told[c] => told'[c] > told[d]]_vars
  BY StepIsMonotonic
<1> QED
  BY <1>1, OutputInvHolds, PTL DEF Spec, SeqIsMonotonic

\* What a step that sends an event makes of the samples
Explains(c) ==
  LET all == kept + taken + 1 IN
  emitter[c] = "polling" /\ emitter'[c] = "sending" =>
    /\ event'.batch = IF all > sub.limit THEN sub.limit ELSE all
    /\ event'.dropped = taken + (all - event'.batch)

LEMMA EmitExplains ==
  ASSUME OutputInv, NEW c \in Conns, Emit(c) PROVE Explains(c)
<1> USE DEF OutputInv, Emit, Polls
<1>1. /\ sub.limit \in Nat \ {0} /\ samples \in Nat /\ Excess \in Nat
      /\ samples < sub.limit => Excess = 0
      /\ samples >= sub.limit => samples + 1 - Excess = sub.limit
  BY ExcessIsCut
<1>2. taken \in Nat /\ kept \in Nat /\ sub.dropped \in Nat
  BY DEF TypeOK, SubInv
<1>3. /\ event'.batch = samples + 1 - Excess
      /\ event'.dropped = sub.dropped + Excess
  OBVIOUS
<1> DEFINE all == kept + taken + 1
<1>4. event'.batch = IF all > sub.limit THEN sub.limit ELSE all
  BY <1>1, <1>2, <1>3 DEF AccountInv
<1>5. event'.dropped = taken + (all - event'.batch)
  BY <1>1, <1>2, <1>3 DEF AccountInv
<1> QED
  BY <1>4, <1>5 DEF Explains

LEMMA StepExplains ==
  ASSUME OutputInv, [Next]_vars, NEW c \in Conns PROVE Explains(c)
<1> SUFFICES ASSUME emitter[c] = "polling", emitter'[c] = "sending"
             PROVE  Explains(c)
  BY DEF Explains
<1>1. PICK e \in Conns : Emit(e)
  BY DEF OutputInv, TypeOK, Next, ConnStep, Bind, Initialize, Lost, Subscribe,
         Unsubscribe, Answer, Sample, Sent, EmitterFails, SessionEnds, Elapse,
         vars
<1>2. e = c
  BY <1>1 DEF OutputInv, TypeOK, Emit
<1> QED
  BY <1>1, <1>2, EmitExplains

\* Every event of a subscription accounts for all the samples since the last
\* one, those that a smaller batch of a new subscription inherits included.
THEOREM SamplesAreAccountedFor == Spec => DropsAreExplained
<1>1. OutputInv /\ [Next]_vars => [\A c \in Conns : Explains(c)]_vars
  BY StepExplains
<1> QED
  BY <1>1, OutputInvHolds, PTL DEF Spec, DropsAreExplained, Explains

=============================================================================
