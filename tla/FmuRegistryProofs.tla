------------------------- MODULE FmuRegistryProofs -------------------------
(***************************************************************************)
(* Theorems about FmuRegistry, for every set of sessions and connections   *)
(* and every capacity, grace and lifetime: first its invariants, then what *)
(* a step can do to one session, from which it follows that sessions are   *)
(* detached by their owner and removed for a reason, and that FmuRegistry  *)
(* implements SessionLease.                                                *)
(***************************************************************************)
EXTENDS FmuRegistry, TLAPS, FiniteSetTheorems

----------------------------------------------------------------------------
(* The operators on a session object                                       *)

LEMMA TimerFacts ==
  /\ NoTimer \in Timer(Grace) /\ NoTimer \in Timer(MaxTTL)
  /\ NoTimer # 0
  /\ Grace \in Timer(Grace)
  /\ Grace # NoTimer
BY RegistryAssumption DEF Timer, NoTimer

LEMMA CountDownType ==
  ASSUME NEW n \in Nat, NEW t \in Timer(n)
  PROVE  /\ CountDown(t) \in Timer(n)
         /\ CountDown(t) = NoTimer <=> t = NoTimer
BY DEF CountDown, Timer, NoTimer

LEMMA UnbornType == Unborn \in Session
BY TimerFacts DEF Unborn, Session

\* terminate() keeps a session's type and, unless it returned early, leaves
\* it without attachment, deadline and owner
LEMMA EndedFacts ==
  ASSUME NEW r \in Session
  PROVE  /\ Ended(r) \in Session
         /\ Ended(r).kind = r.kind
         /\ Ended(r).ttl = r.ttl
         /\ Ended(r).work = r.work
         /\ Ended(r).terminated
         /\ r.terminated => Ended(r) = r
         /\ ~r.terminated => /\ ~Ended(r).attached
                             /\ Ended(r).grace = NoTimer
                             /\ Ended(r).owner = NoConn
BY TimerFacts DEF Ended, Session

LEMMA MarkAttachedFacts ==
  ASSUME NEW r \in Session, NEW c \in Conns
  PROVE  /\ MarkAttached(r, c) \in Session
         /\ MarkAttached(r, c).kind = r.kind
         /\ MarkAttached(r, c).ttl = r.ttl
         /\ MarkAttached(r, c).work = r.work
         /\ MarkAttached(r, c).terminated = r.terminated
         /\ MarkAttached(r, c).attached
         /\ MarkAttached(r, c).grace = NoTimer
         /\ MarkAttached(r, c).owner = c
BY TimerFacts DEF MarkAttached, Session

\* mark_detached() changes nothing unless the caller owns the attachment
LEMMA MarkDetachedFacts ==
  ASSUME NEW r \in Session, NEW c \in Conns
  PROVE  /\ MarkDetached(r, c) \in Session
         /\ MarkDetached(r, c).kind = r.kind
         /\ MarkDetached(r, c).ttl = r.ttl
         /\ MarkDetached(r, c).work = r.work
         /\ MarkDetached(r, c).terminated = r.terminated
         /\ r.owner # c \/ r.terminated => MarkDetached(r, c) = r
         /\ r.owner = c /\ ~r.terminated =>
              /\ ~MarkDetached(r, c).attached
              /\ MarkDetached(r, c).grace = Grace
              /\ MarkDetached(r, c).owner = NoConn
BY TimerFacts DEF MarkDetached, Session

LEMMA CountedDownFacts ==
  ASSUME NEW r \in Session, NEW q,
         q = [r EXCEPT !.grace = CountDown(@), !.ttl = CountDown(@)]
  PROVE  /\ q \in Session
         /\ q.kind = r.kind
         /\ q.attached = r.attached
         /\ q.terminated = r.terminated
         /\ q.owner = r.owner
         /\ q.grace = NoTimer <=> r.grace = NoTimer
<1>1. /\ CountDown(r.grace) \in Timer(Grace)
      /\ CountDown(r.ttl) \in Timer(MaxTTL)
      /\ CountDown(r.grace) = NoTimer <=> r.grace = NoTimer
  BY CountDownType, RegistryAssumption DEF Session
<1>2. q = [r EXCEPT !.grace = CountDown(r.grace), !.ttl = CountDown(r.ttl)]
  BY DEF Session
<1> QED
  BY <1>1, <1>2 DEF Session

LEMMA RevivedFacts ==
  ASSUME NEW r \in Session
  PROVE  /\ [r EXCEPT !.terminated = FALSE] \in Session
         /\ [r EXCEPT !.terminated = FALSE].kind = r.kind
         /\ [r EXCEPT !.terminated = FALSE].attached = r.attached
         /\ [r EXCEPT !.terminated = FALSE].owner = r.owner
         /\ [r EXCEPT !.terminated = FALSE].grace = r.grace
         /\ ~[r EXCEPT !.terminated = FALSE].terminated
BY DEF Session

----------------------------------------------------------------------------
(* The inductive invariant                                                 *)

\* An attachment, its owner and the owner's connection agree; a terminated
\* session has no attachment and no deadline; only constructed sessions are
\* registered.  AttachedHasLiveOwner alone is not inductive: mark_detached()
\* tests the owner, so the owner must be None whenever nothing is attached.
SessionInv(s) ==
  /\ sess[s].attached =>
       /\ s \in registry
       /\ sess[s].kind = "realtime"
       /\ ~sess[s].terminated
       /\ sess[s].grace = NoTimer
       /\ sess[s].owner \in Conns
       /\ conns[sess[s].owner].state # "down"
       /\ conns[sess[s].owner].session = s
  /\ sess[s].owner # NoConn => sess[s].attached
  /\ sess[s].terminated => sess[s].grace = NoTimer
  /\ s \in registry => sess[s].kind # "unborn"

ConnInv(c) ==
  /\ conns[c].state = "down" => conns[c].session = NoSession
  /\ conns[c].session # NoSession => sess[conns[c].session].kind = "realtime"

RegistryInv ==
  /\ TypeOK
  /\ RegistryWithinCapacity
  /\ \A s \in Sessions : SessionInv(s)
  /\ \A c \in Conns : ConnInv(c)

LEMMA InvInit == Init => RegistryInv
<1> SUFFICES ASSUME Init PROVE RegistryInv
  OBVIOUS
<1>1. TypeOK
  BY UnbornType DEF Init, TypeOK, Conn, Down
<1>2. RegistryWithinCapacity
  BY FS_EmptySet, RegistryAssumption DEF Init, RegistryWithinCapacity
<1>3. \A s \in Sessions : SessionInv(s)
  BY DEF Init, SessionInv, Unborn
<1>4. \A c \in Conns : ConnInv(c)
  BY DEF Init, ConnInv, Down
<1> QED
  BY <1>1, <1>2, <1>3, <1>4 DEF RegistryInv

\* What is removed does not make the registry larger
LEMMA ShrinkingKeepsCapacity ==
  ASSUME TypeOK, RegistryWithinCapacity, registry' \subseteq registry
  PROVE  RegistryWithinCapacity'
<1>1. IsFiniteSet(registry)
  BY FS_Subset, RegistryAssumption DEF TypeOK
<1>2. /\ Cardinality(registry') <= Cardinality(registry)
      /\ Cardinality(registry') \in Nat /\ Cardinality(registry) \in Nat
  BY <1>1, FS_Subset, FS_CardinalityType
<1> QED
  BY <1>2, RegistryAssumption DEF RegistryWithinCapacity

\* create_session: what the new registry and the objects in it look like
LEMMA RegisterFacts ==
  ASSUME RegistryInv, NEW s \in Sessions, NEW r \in Session, Register(s, r)
  PROVE  /\ registry' \subseteq Sessions
         /\ RegistryWithinCapacity'
         /\ s \in registry' /\ s \notin registry
         /\ sess' \in [Sessions -> Session]
         /\ sess'[s] = r
         /\ \A t \in Sessions \ {s} :
              \/ sess'[t] = sess[t] /\ (t \in registry <=> t \in registry')
              \/ /\ sess'[t] = Ended(sess[t])
                 /\ t \in registry /\ t \notin registry'
                 /\ t \in Stale
<1> DEFINE kept == registry \ Stale
<1>1. /\ registry \subseteq Sessions
      /\ sess \in [Sessions -> Session]
  BY DEF RegistryInv, TypeOK
<1>2. s \notin registry
  BY DEF RegistryInv, SessionInv, Register
<1>3. IsFiniteSet(kept) /\ Cardinality(kept) \in Nat
  BY <1>1, FS_Subset, FS_CardinalityType, RegistryAssumption
<1>4. /\ registry' = kept \cup {s}
      /\ Cardinality(kept) < MaxSessions
  BY DEF Register, HasFreeSlot
<1>5. RegistryWithinCapacity'
  <2> HIDE DEF kept
  <2>1. Cardinality(kept \cup {s}) = Cardinality(kept) + 1
    <3>1. s \notin kept
      BY <1>2 DEF kept
    <3> QED
      BY <3>1, <1>3, FS_AddElement
  <2> QED
    BY <2>1, <1>3, <1>4, RegistryAssumption DEF RegistryWithinCapacity
<1>6. Stale \subseteq registry
  BY DEF Stale
<1>7. sess' = [t \in Sessions |-> IF t = s THEN r
                                  ELSE IF t \in Stale THEN Ended(sess[t])
                                  ELSE sess[t]]
  BY DEF Register
<1>8. sess' \in [Sessions -> Session]
  BY <1>1, <1>7, EndedFacts
<1> QED
  BY <1>1, <1>2, <1>4, <1>5, <1>6, <1>7, <1>8

\* remove_session: who is ended and who is left alone
LEMMA RemoveFacts ==
  ASSUME TypeOK, NEW S, Remove(S)
  PROVE  /\ registry' \subseteq registry
         /\ sess' \in [Sessions -> Session]
         /\ \A t \in Sessions :
              \/ sess'[t] = sess[t] /\ (t \in registry <=> t \in registry')
              \/ /\ sess'[t] = Ended(sess[t])
                 /\ t \in S
                 /\ t \in registry /\ t \notin registry'
BY EndedFacts DEF Remove, TypeOK

----------------------------------------------------------------------------
(* Every step preserves the invariant                                      *)

LEMMA RegisterKeepsSessions ==
  ASSUME RegistryInv, NEW s \in Sessions, NEW r \in Session, Register(s, r),
         NEW t \in Sessions \ {s},
         \A c \in Conns : sess[t].owner = c => UNCHANGED conns[c]
  PROVE  SessionInv(t)'
<1>1. SessionInv(t) /\ sess[t] \in Session
  BY DEF RegistryInv, TypeOK
<1>2. CASE sess'[t] = sess[t] /\ (t \in registry <=> t \in registry')
  BY <1>1, <1>2 DEF SessionInv
<1>3. CASE sess'[t] = Ended(sess[t]) /\ t \notin registry'
  BY <1>1, <1>3, EndedFacts DEF SessionInv
<1> QED
  BY <1>2, <1>3, RegisterFacts

LEMMA RegisterKeepsKinds ==
  ASSUME RegistryInv, NEW s \in Sessions, NEW r \in Session, Register(s, r),
         NEW t \in Sessions, sess[t].kind = "realtime"
  PROVE  sess'[t].kind = "realtime" /\ t # s
<1>1. t # s
  BY DEF Register
<1>2. sess[t] \in Session
  BY DEF RegistryInv, TypeOK
<1> QED
  BY <1>1, <1>2, RegisterFacts, EndedFacts

LEMMA RemoveKeepsInv ==
  ASSUME RegistryInv, NEW S, Remove(S), UNCHANGED conns, up' \in BOOLEAN
  PROVE  RegistryInv'
<1>1. TypeOK /\ RegistryWithinCapacity
  BY DEF RegistryInv
<1>2. TypeOK'
  BY <1>1, RemoveFacts DEF TypeOK
<1>3. RegistryWithinCapacity'
  BY <1>1, RemoveFacts, ShrinkingKeepsCapacity
<1>4. ASSUME NEW t \in Sessions PROVE SessionInv(t)'
  <2>1. SessionInv(t) /\ sess[t] \in Session
    BY <1>1 DEF RegistryInv, TypeOK
  <2>2. CASE sess'[t] = sess[t] /\ (t \in registry <=> t \in registry')
    BY <2>1, <2>2 DEF SessionInv
  <2>3. CASE sess'[t] = Ended(sess[t]) /\ t \notin registry'
    BY <2>1, <2>3, EndedFacts DEF SessionInv
  <2> QED
    BY <1>1, <2>2, <2>3, RemoveFacts
<1>5. ASSUME NEW c \in Conns PROVE ConnInv(c)'
  <2>1. ConnInv(c) /\ conns[c] \in Conn
    BY <1>1 DEF RegistryInv, TypeOK
  <2>2. CASE conns[c].session = NoSession
    BY <2>1, <2>2 DEF ConnInv
  <2>3. CASE conns[c].session \in Sessions
    BY <1>1, <2>1, <2>3, RemoveFacts, EndedFacts, RegistryAssumption
       DEF ConnInv, TypeOK
  <2> QED
    BY <2>1, <2>2, <2>3 DEF Conn
<1> QED
  BY <1>2, <1>3, <1>4, <1>5 DEF RegistryInv

\* A step that changes a session's run, and perhaps gives its slot back
LEMMA RunStepKeepsInv ==
  ASSUME RegistryInv, NEW s \in Sessions, RunStep(s), up' \in BOOLEAN
  PROVE  RegistryInv'
<1> USE DEF RegistryInv
<1>0. /\ TypeOK
      /\ \A t \in Sessions : sess[t] \in Session /\ SessionInv(t)
      /\ \A c \in Conns : conns[c] \in Conn /\ ConnInv(c)
  BY DEF TypeOK
<1>1. CASE ReserveSlot(s)
  <2>1. PICK work \in {"pending", "running"} : Register(s, Slot(work))
    BY <1>1 DEF ReserveSlot
  <2>2. /\ Slot(work) \in Session
        /\ ~Slot(work).attached
        /\ Slot(work).grace = NoTimer
        /\ Slot(work).owner = NoConn
        /\ Slot(work).kind = "slot"
    BY TimerFacts DEF Slot, Unborn, Session
  <2>3. UNCHANGED conns
    BY <1>1 DEF ReserveSlot
  <2>4. TypeOK' /\ RegistryWithinCapacity'
    BY <2>1, <2>2, <2>3, RegisterFacts DEF TypeOK
  <2>5. ASSUME NEW t \in Sessions PROVE SessionInv(t)'
    <3>1. CASE t = s
      BY <2>1, <2>2, <3>1, RegisterFacts DEF SessionInv
    <3>2. CASE t # s
      BY <2>1, <2>2, <2>3, <3>2, RegisterKeepsSessions
    <3> QED
      BY <3>1, <3>2
  <2>6. ASSUME NEW c \in Conns PROVE ConnInv(c)'
    BY <1>0, <2>1, <2>2, <2>3, RegisterKeepsKinds DEF ConnInv, Conn
  <2> QED
    BY <2>4, <2>5, <2>6
<1>2. CASE StartStream(s) \/ AbandonStream(s)
  <2>1. /\ UNCHANGED <<registry, conns>>
        /\ sess' \in [Sessions -> Session]
        /\ \A t \in Sessions :
             /\ sess'[t].kind = sess[t].kind
             /\ sess'[t].attached = sess[t].attached
             /\ sess'[t].terminated = sess[t].terminated
             /\ sess'[t].grace = sess[t].grace
             /\ sess'[t].owner = sess[t].owner
    BY <1>0, <1>2 DEF StartStream, AbandonStream, TypeOK, Session
  <2>2. TypeOK' /\ RegistryWithinCapacity'
    BY <2>1 DEF TypeOK, RegistryWithinCapacity
  <2>3. \A t \in Sessions : SessionInv(t)'
    BY <1>0, <2>1 DEF SessionInv
  <2>4. \A c \in Conns : ConnInv(c)'
    BY <1>0, <2>1 DEF ConnInv, Conn
  <2> QED
    BY <2>2, <2>3, <2>4
<1>3. CASE FinishRun(s)
  <2>1. /\ registry' = registry \ {s}
        /\ UNCHANGED conns
        /\ \A t \in Sessions \ {s} : sess'[t] = sess[t]
    BY <1>0, <1>3 DEF FinishRun, TypeOK
  <2> DEFINE r == IF s \in registry THEN Ended(sess[s]) ELSE sess[s]
  <2>2. r \in Session
    BY <1>0, EndedFacts
  <2>3. /\ sess' = [sess EXCEPT ![s] = [r EXCEPT !.work = "done"]]
        /\ [r EXCEPT !.work = "done"] \in Session
    BY <1>3, <2>2 DEF FinishRun, Session
  <2>4. /\ sess' \in [Sessions -> Session]
        /\ sess'[s].kind = sess[s].kind
        /\ sess'[s].attached = r.attached
        /\ sess'[s].terminated = r.terminated
        /\ sess'[s].grace = r.grace
        /\ sess'[s].owner = r.owner
    BY <1>0, <2>2, <2>3, EndedFacts DEF TypeOK, Session
  <2>5. TypeOK' /\ RegistryWithinCapacity'
    BY <1>0, <2>1, <2>4, ShrinkingKeepsCapacity DEF TypeOK
  <2>6. SessionInv(s)'
    BY <1>0, <2>1, <2>4, EndedFacts DEF SessionInv
  <2>7. \A t \in Sessions \ {s} : SessionInv(t)'
    BY <1>0, <2>1 DEF SessionInv
  <2>8. \A c \in Conns : ConnInv(c)'
    BY <1>0, <2>1, <2>4 DEF ConnInv, Conn
  <2> QED
    BY <2>5, <2>6, <2>7, <2>8
<1> QED
  BY <1>1, <1>2, <1>3 DEF RunStep

\* A connection binds a new session, or leaves one nobody holds
LEMMA CreateKeepsInv ==
  ASSUME RegistryInv, NEW c \in Conns, NEW s \in Sessions, up' \in BOOLEAN,
         CreateSession(c, s) \/ CreateFails(c, s)
  PROVE  RegistryInv'
<1> USE DEF RegistryInv
<1>0. /\ TypeOK
      /\ \A t \in Sessions : sess[t] \in Session /\ SessionInv(t)
      /\ \A d \in Conns : conns[d] \in Conn /\ ConnInv(d)
  BY DEF TypeOK
<1> DEFINE New(ttl) == [Unborn EXCEPT !.kind = "realtime", !.ttl = ttl]
<1>1. \A ttl \in Timer(MaxTTL) :
        /\ New(ttl) \in Session
        /\ New(ttl).kind = "realtime" /\ New(ttl).ttl = ttl
        /\ ~New(ttl).attached /\ ~New(ttl).terminated
        /\ New(ttl).grace = NoTimer /\ New(ttl).owner = NoConn
  BY TimerFacts DEF Unborn, Session
<1>2. CASE CreateFails(c, s)
  <2>1. PICK ttl \in Timer(MaxTTL) : Register(s, New(ttl))
    BY <1>2 DEF CreateFails
  <2> HIDE DEF New
  <2>2. UNCHANGED conns
    BY <1>2 DEF CreateFails
  <2>3. TypeOK' /\ RegistryWithinCapacity'
    BY <1>1, <2>1, <2>2, RegisterFacts DEF TypeOK
  <2>4. ASSUME NEW t \in Sessions PROVE SessionInv(t)'
    <3>1. CASE t = s
      BY <1>1, <2>1, <3>1, RegisterFacts DEF SessionInv
    <3>2. CASE t # s
      BY <1>1, <2>1, <2>2, <3>2, RegisterKeepsSessions
    <3> QED
      BY <3>1, <3>2
  <2>5. ASSUME NEW d \in Conns PROVE ConnInv(d)'
    BY <1>0, <1>1, <2>1, <2>2, RegisterKeepsKinds DEF ConnInv, Conn
  <2> QED
    BY <2>3, <2>4, <2>5
<1>3. CASE CreateSession(c, s)
  <2>1. PICK ttl \in Timer(MaxTTL) :
          /\ Register(s, MarkAttached(New(ttl), c))
          /\ conns' = [conns EXCEPT ![c].session = s,
                                    ![c].expiry = ExpiryTarget(s, ttl)]
    BY <1>3 DEF CreateSession
  <2> DEFINE r == MarkAttached(New(ttl), c)
  <2> HIDE DEF New
  <2>2. /\ r \in Session
        /\ r.kind = "realtime" /\ r.attached /\ ~r.terminated
        /\ r.grace = NoTimer /\ r.owner = c
    BY <1>1, MarkAttachedFacts
  <2> HIDE DEF r
  <2>3. Register(s, r)
    BY <2>1 DEF r
  <2>4. conns[c].state = "open" /\ conns[c].session = NoSession
    BY <1>3 DEF CreateSession
  <2>5. /\ conns' \in [Conns -> Conn]
        /\ conns'[c].session = s /\ conns'[c].state = "open"
        /\ \A d \in Conns \ {c} : conns'[d] = conns[d]
    <3>1. /\ conns' = [conns EXCEPT ![c].session = s,
                                    ![c].expiry = ExpiryTarget(s, ttl)]
          /\ ExpiryTarget(s, ttl) \in Sessions \cup {NoSession}
      BY <2>1 DEF ExpiryTarget
    <3>2. conns \in [Conns -> Conn]
      BY <1>0 DEF TypeOK
    <3> QED
      BY <2>4, <3>1, <3>2 DEF Conn
  <2>6. TypeOK' /\ RegistryWithinCapacity'
    BY <2>2, <2>3, <2>5, RegisterFacts DEF TypeOK
  <2>7. ASSUME NEW t \in Sessions PROVE SessionInv(t)'
    <3>1. CASE t = s
      BY <2>2, <2>3, <2>5, <3>1, RegisterFacts, RegistryAssumption DEF SessionInv
    <3>2. CASE t # s
      <4>1. sess[t].owner # c
        BY <1>0, <2>4, RegistryAssumption DEF SessionInv
      <4> QED
        BY <2>2, <2>3, <2>5, <3>2, <4>1, RegisterKeepsSessions
    <3> QED
      BY <3>1, <3>2
  <2>8. ASSUME NEW d \in Conns PROVE ConnInv(d)'
    <3>1. CASE d = c
      BY <2>2, <2>3, <2>5, <3>1, RegisterFacts DEF ConnInv
    <3>2. CASE d # c
      BY <1>0, <2>2, <2>3, <2>5, <3>2, RegisterKeepsKinds DEF ConnInv, Conn
    <3> QED
      BY <3>1, <3>2
  <2> QED
    BY <2>6, <2>7, <2>8
<1> QED
  BY <1>2, <1>3

\* A connection takes a session that is detached or held by another
LEMMA AttachKeepsInv ==
  ASSUME RegistryInv, NEW c \in Conns, NEW s \in Sessions, up' \in BOOLEAN,
         AttachSession(c, s)
  PROVE  RegistryInv'
<1> USE DEF RegistryInv
<1>0. /\ TypeOK
      /\ \A t \in Sessions : sess[t] \in Session /\ SessionInv(t)
      /\ \A d \in Conns : conns[d] \in Conn /\ ConnInv(d)
  BY DEF TypeOK
<1>1. /\ conns[c].state = "open" /\ conns[c].session \in {NoSession, s}
      /\ s \in registry /\ sess[s].kind = "realtime" /\ ~sess[s].terminated
      /\ registry' = registry
  BY DEF AttachSession, CanAttach
<1>2. /\ sess' \in [Sessions -> Session]
      /\ sess'[s] = MarkAttached(sess[s], c)
      /\ \A t \in Sessions \ {s} : sess'[t] = sess[t]
  BY <1>0, MarkAttachedFacts DEF AttachSession, TypeOK
<1>3. /\ conns' \in [Conns -> Conn]
      /\ conns'[c].session = s /\ conns'[c].state = "open"
      /\ \A d \in Conns \ {c} : conns'[d] = conns[d]
  BY <1>0, <1>1 DEF AttachSession, ExpiryTarget, TypeOK, Conn
<1>4. TypeOK' /\ RegistryWithinCapacity'
  BY <1>0, <1>1, <1>2, <1>3 DEF TypeOK, RegistryWithinCapacity
<1>5. SessionInv(s)'
  BY <1>0, <1>1, <1>2, <1>3, MarkAttachedFacts, RegistryAssumption DEF SessionInv
<1>6. ASSUME NEW t \in Sessions \ {s} PROVE SessionInv(t)'
  <2>1. sess[t].owner # c
    BY <1>0, <1>1, RegistryAssumption DEF SessionInv
  <2> QED
    BY <1>0, <1>1, <1>2, <1>3, <2>1 DEF SessionInv
<1>7. \A t \in Sessions : sess'[t].kind = sess[t].kind
  BY <1>0, <1>2, MarkAttachedFacts
<1>8. \A d \in Conns : ConnInv(d)'
  BY <1>0, <1>1, <1>3, <1>7 DEF ConnInv, Conn
<1> QED
  BY <1>4, <1>5, <1>6, <1>8

\* A connection's steps that end or detach its session
LEMMA LeaveKeepsInv ==
  ASSUME RegistryInv, NEW c \in Conns, up' \in BOOLEAN,
         \/ BeginTerminate(c)
         \/ EndTerminate(c)
         \/ Expire(c)
         \/ Detach(c)
  PROVE  RegistryInv'
<1> USE DEF RegistryInv
<1>0. /\ TypeOK
      /\ \A t \in Sessions : sess[t] \in Session /\ SessionInv(t)
      /\ \A d \in Conns : conns[d] \in Conn /\ ConnInv(d)
  BY DEF TypeOK
<1> DEFINE s == conns[c].session
<1>1. CASE BeginTerminate(c)
  <2>1. /\ s \in Sessions
        /\ sess' \in [Sessions -> Session]
        /\ sess'[s] = Ended(sess[s])
        /\ \A t \in Sessions \ {s} : sess'[t] = sess[t]
    BY <1>0, <1>1, EndedFacts DEF BeginTerminate, CommandAllowed, TypeOK, Conn
  <2>2. /\ conns' \in [Conns -> Conn]
        /\ conns'[c].state = "terminating" /\ conns'[c].session = s
        /\ \A d \in Conns \ {c} : conns'[d] = conns[d]
        /\ registry' = registry
    BY <1>0, <1>1 DEF BeginTerminate, TypeOK, Conn
  <2>3. TypeOK' /\ RegistryWithinCapacity'
    BY <1>0, <2>1, <2>2 DEF TypeOK, RegistryWithinCapacity
  <2>4. ASSUME NEW t \in Sessions PROVE SessionInv(t)'
    <3>1. CASE t = s
      BY <1>0, <2>1, <2>2, <3>1, EndedFacts DEF SessionInv
    <3>2. CASE t # s
      BY <1>0, <2>1, <2>2, <3>2 DEF SessionInv
    <3> QED
      BY <3>1, <3>2
  <2>5. ASSUME NEW d \in Conns PROVE ConnInv(d)'
    <3>1. \A t \in Sessions : sess'[t].kind = sess[t].kind
      BY <1>0, <2>1, EndedFacts
    <3> QED
      BY <1>0, <2>2, <3>1, EndedFacts DEF ConnInv, Conn
  <2> QED
    BY <2>3, <2>4, <2>5
<1>2. ASSUME Remove({s}), conns' \in [Conns -> Conn],
             conns[c].state # "down",
             conns'[c].session = NoSession,
             \A d \in Conns \ {c} : conns'[d] = conns[d]
      PROVE  RegistryInv'
  <2>1. TypeOK' /\ RegistryWithinCapacity'
    BY <1>0, <1>2, RemoveFacts, ShrinkingKeepsCapacity DEF TypeOK
  <2>2. ASSUME NEW t \in Sessions PROVE SessionInv(t)'
    <3>1. CASE sess'[t] = Ended(sess[t]) /\ t \notin registry'
      BY <1>0, <3>1, EndedFacts DEF SessionInv
    <3>2. CASE sess'[t] = sess[t] /\ (t \in registry <=> t \in registry')
      <4>1. sess[t].attached => t # s
        BY <1>2, <3>2 DEF Remove, SessionInv
      <4>2. sess[t].attached => sess[t].owner # c
        BY <1>0, <4>1 DEF SessionInv
      <4> QED
        BY <1>0, <1>2, <3>2, <4>2 DEF SessionInv
    <3> QED
      BY <1>0, <1>2, <3>1, <3>2, RemoveFacts
  <2>3. ASSUME NEW d \in Conns PROVE ConnInv(d)'
    <3>1. \A t \in Sessions : sess'[t].kind = sess[t].kind
      BY <1>0, <1>2, RemoveFacts, EndedFacts
    <3> QED
      BY <1>0, <1>2, <3>1 DEF ConnInv, Conn
  <2> QED
    BY <2>1, <2>2, <2>3
<1>3. CASE EndTerminate(c)
  <2>1. /\ Remove({s})
        /\ conns[c].state # "down"
        /\ conns' = [conns EXCEPT ![c] = [Down EXCEPT !.state = "open"]]
    BY <1>3 DEF EndTerminate
  <2>2. [Down EXCEPT !.state = "open"] \in Conn /\ Down.session = NoSession
    BY DEF Down, Conn
  <2> QED
    BY <1>0, <1>2, <2>1, <2>2 DEF TypeOK, Down
<1>4. CASE Expire(c)
  <2> DEFINE e == conns[c].expiry
  <2>1. CASE s # e \/ sess[e].terminated
    <3>1. /\ conns' \in [Conns -> Conn]
          /\ \A d \in Conns : /\ conns'[d].state = conns[d].state
                               /\ conns'[d].session = conns[d].session
          /\ UNCHANGED <<registry, sess>>
      BY <1>0, <1>4, <2>1 DEF Expire, TypeOK, Conn
    <3>2. TypeOK' /\ RegistryWithinCapacity'
      BY <1>0, <3>1 DEF TypeOK, RegistryWithinCapacity
    <3> QED
      BY <1>0, <3>1, <3>2 DEF SessionInv, ConnInv
  <2>2. CASE s = e /\ ~sess[e].terminated
    <3>1. /\ Remove({s})
          /\ s # NoSession
          /\ conns' = [conns EXCEPT ![c].session = NoSession,
                                    ![c].expiry = NoSession]
      BY <1>4, <2>2 DEF Expire
    <3>2. /\ conns' \in [Conns -> Conn]
          /\ conns'[c].session = NoSession
          /\ \A d \in Conns \ {c} : conns'[d] = conns[d]
      BY <1>0, <3>1 DEF TypeOK, Conn
    <3>3. conns[c].state # "down"
      BY <1>0, <3>1 DEF ConnInv
    <3> QED
      BY <1>2, <3>1, <3>2, <3>3
  <2> QED
    BY <2>1, <2>2
<1>5. CASE Detach(c)
  <2>1. /\ sess' \in [Sessions -> Session]
        /\ \A t \in Sessions :
             sess'[t] = IF t = s /\ t \in registry
                        THEN MarkDetached(sess[t], c) ELSE sess[t]
    BY <1>0, <1>5, MarkDetachedFacts DEF Detach, TypeOK
  <2>2. /\ conns' = [conns EXCEPT ![c] = Down]
        /\ registry' = registry
        /\ conns[c].state = "detaching"
    BY <1>5 DEF Detach
  <2>3. Down \in Conn /\ Down.session = NoSession
    BY DEF Down, Conn
  <2>4. /\ conns' \in [Conns -> Conn]
        /\ conns'[c].session = NoSession
        /\ \A d \in Conns \ {c} : conns'[d] = conns[d]
    BY <1>0, <2>2, <2>3 DEF TypeOK
  <2>5. TypeOK' /\ RegistryWithinCapacity'
    BY <1>0, <2>1, <2>2, <2>4 DEF TypeOK, RegistryWithinCapacity
  <2>6. ASSUME NEW t \in Sessions PROVE SessionInv(t)'
    <3>1. CASE sess[t].owner = c
      <4>1. t = s /\ t \in registry /\ ~sess[t].terminated
        BY <1>0, <3>1, RegistryAssumption DEF SessionInv
      <4> QED
        BY <1>0, <2>1, <2>2, <3>1, <4>1, MarkDetachedFacts DEF SessionInv
    <3>2. CASE sess[t].owner # c
      <4>1. sess'[t] = sess[t]
        BY <1>0, <2>1, <3>2, MarkDetachedFacts
      <4> QED
        BY <1>0, <2>2, <2>4, <3>2, <4>1 DEF SessionInv
    <3> QED
      BY <3>1, <3>2
  <2>7. ASSUME NEW d \in Conns PROVE ConnInv(d)'
    <3>1. \A t \in Sessions : sess'[t].kind = sess[t].kind
      BY <1>0, <2>1, MarkDetachedFacts
    <3> QED
      BY <1>0, <2>4, <3>1 DEF ConnInv, Conn
  <2> QED
    BY <2>5, <2>6, <2>7
<1> QED
  BY <1>1, <1>3, <1>4, <1>5

\* The steps that touch no attachment: a connection opens or begins to close,
\* sim.initialize clears _terminated, and time passes
LEMMA QuietStepKeepsInv ==
  ASSUME RegistryInv, up' \in BOOLEAN,
         \/ \E c \in Conns : \/ Connect(c) \/ Disconnect(c)
                             \/ CancelExpiry(c) \/ Revive(c)
         \/ Tick
  PROVE  RegistryInv'
<1> USE DEF RegistryInv
<1>0. /\ TypeOK
      /\ \A t \in Sessions : sess[t] \in Session /\ SessionInv(t)
      /\ \A d \in Conns : conns[d] \in Conn /\ ConnInv(d)
  BY DEF TypeOK
<1>1. ASSUME NEW c \in Conns, Connect(c) \/ Disconnect(c) \/ CancelExpiry(c)
      PROVE  RegistryInv'
  <2>1. /\ UNCHANGED <<registry, sess>>
        /\ conns' \in [Conns -> Conn]
        /\ conns'[c].state # "down"
        /\ conns'[c].session = conns[c].session
        /\ \A d \in Conns \ {c} : conns'[d] = conns[d]
    BY <1>0, <1>1 DEF Connect, Disconnect, CancelExpiry, TypeOK, Conn
  <2>2. TypeOK' /\ RegistryWithinCapacity'
    BY <1>0, <2>1 DEF TypeOK, RegistryWithinCapacity
  <2>3. \A t \in Sessions : SessionInv(t)'
    BY <1>0, <2>1 DEF SessionInv
  <2>4. \A d \in Conns : ConnInv(d)'
    BY <1>0, <2>1 DEF ConnInv
  <2> QED
    BY <2>2, <2>3, <2>4
<1>2. ASSUME NEW c \in Conns, Revive(c) PROVE RegistryInv'
  <2>0. PICK s \in Sessions :
          /\ sess[s].terminated
          /\ sess' = [sess EXCEPT ![s].terminated = FALSE]
    BY <1>2 DEF Revive
  <2>1. /\ UNCHANGED <<registry, conns>>
        /\ sess[s].terminated
        /\ sess' = [sess EXCEPT ![s] = [sess[s] EXCEPT !.terminated = FALSE]]
    BY <1>0, <1>2, <2>0 DEF Revive
  <2>2. /\ sess' \in [Sessions -> Session]
        /\ sess'[s] = [sess[s] EXCEPT !.terminated = FALSE]
        /\ \A t \in Sessions \ {s} : sess'[t] = sess[t]
    BY <1>0, <2>1, RevivedFacts DEF TypeOK
  <2>3. TypeOK' /\ RegistryWithinCapacity'
    BY <1>0, <2>1, <2>2 DEF TypeOK, RegistryWithinCapacity
  <2>4. SessionInv(s)'
    BY <1>0, <2>1, <2>2, RevivedFacts DEF SessionInv
  <2>5. \A t \in Sessions \ {s} : SessionInv(t)'
    BY <1>0, <2>1, <2>2 DEF SessionInv
  <2>6. \A d \in Conns : ConnInv(d)'
    <3>1. \A t \in Sessions : sess'[t].kind = sess[t].kind
      BY <1>0, <2>1, <2>2, RevivedFacts
    <3> QED
      BY <1>0, <2>1, <3>1 DEF ConnInv, Conn
  <2>7. \A t \in Sessions : SessionInv(t)'
    BY <2>4, <2>5
  <2> QED
    BY <2>3, <2>6, <2>7
<1>3. ASSUME Tick PROVE RegistryInv'
  <2>1. /\ UNCHANGED <<registry, conns>>
        /\ sess' \in [Sessions -> Session]
        /\ \A t \in Sessions :
             /\ sess'[t].kind = sess[t].kind
             /\ sess'[t].attached = sess[t].attached
             /\ sess'[t].terminated = sess[t].terminated
             /\ sess'[t].owner = sess[t].owner
             /\ sess'[t].grace = NoTimer <=> sess[t].grace = NoTimer
    <3>1. /\ UNCHANGED <<registry, conns>>
          /\ sess' = [t \in Sessions |->
                [sess[t] EXCEPT !.grace = CountDown(@), !.ttl = CountDown(@)]]
      BY <1>3 DEF Tick
    <3>2. \A t \in Sessions : sess'[t] =
            [sess[t] EXCEPT !.grace = CountDown(@), !.ttl = CountDown(@)]
      BY <3>1
    <3>3. \A t \in Sessions :
            /\ sess'[t] \in Session
            /\ sess'[t].kind = sess[t].kind
            /\ sess'[t].attached = sess[t].attached
            /\ sess'[t].terminated = sess[t].terminated
            /\ sess'[t].owner = sess[t].owner
            /\ sess'[t].grace = NoTimer <=> sess[t].grace = NoTimer
      BY <1>0, <3>2, CountedDownFacts
    <3> HIDE DEF RegistryInv
    <3> QED
      BY <3>1, <3>3
  <2>2. TypeOK' /\ RegistryWithinCapacity'
    BY <1>0, <2>1 DEF TypeOK, RegistryWithinCapacity
  <2>3. \A t \in Sessions : SessionInv(t)'
    BY <1>0, <2>1 DEF SessionInv
  <2>4. \A d \in Conns : ConnInv(d)'
    BY <1>0, <2>1 DEF ConnInv, Conn
  <2> QED
    BY <2>2, <2>3, <2>4
<1> QED
  BY <1>1, <1>2, <1>3

\* The process stops: nothing is registered, nobody is connected
LEMMA ShutdownKeepsInv ==
  ASSUME RegistryInv, Shutdown
  PROVE  RegistryInv'
<1> USE DEF RegistryInv
<1>0. /\ TypeOK
      /\ \A t \in Sessions : sess[t] \in Session /\ SessionInv(t)
  BY DEF TypeOK
<1>1. /\ up' = FALSE
      /\ registry' = {}
      /\ conns' = [c \in Conns |-> Down]
      /\ sess' = [s \in Sessions |->
                    IF sess[s].kind = "unborn" THEN sess[s]
                    ELSE [Ended(sess[s]) EXCEPT !.work =
                            IF sess[s].kind = "slot" THEN "done" ELSE "none"]]
  BY DEF Shutdown
<1>2. \A s \in Sessions :
        /\ sess'[s] \in Session
        /\ ~sess'[s].attached
        /\ sess'[s].owner = NoConn
        /\ sess'[s].terminated => sess'[s].grace = NoTimer
  <2> TAKE s \in Sessions
  <2>1. CASE sess[s].kind = "unborn"
    BY <1>0, <1>1, <2>1 DEF SessionInv
  <2>2. CASE sess[s].kind # "unborn"
    <3> DEFINE w == IF sess[s].kind = "slot" THEN "done" ELSE "none"
    <3>1. sess'[s] = [Ended(sess[s]) EXCEPT !.work = w]
      BY <1>1, <2>2
    <3>2. /\ Ended(sess[s]) \in Session
          /\ ~Ended(sess[s]).attached
          /\ Ended(sess[s]).owner = NoConn
          /\ Ended(sess[s]).grace = NoTimer
      BY <1>0, EndedFacts DEF SessionInv
    <3> QED
      BY <3>1, <3>2 DEF Session
  <2> QED
    BY <2>1, <2>2
<1>3. TypeOK'
  <2>1. sess' \in [Sessions -> Session]
    BY <1>1, <1>2
  <2>2. Down \in Conn
    BY DEF Down, Conn
  <2> QED
    BY <1>1, <2>1, <2>2 DEF TypeOK
<1>4. RegistryWithinCapacity'
  BY <1>1, FS_EmptySet, RegistryAssumption DEF RegistryWithinCapacity
<1>5. \A s \in Sessions : SessionInv(s)'
  BY <1>1, <1>2 DEF SessionInv
<1>6. \A c \in Conns : ConnInv(c)'
  BY <1>1 DEF ConnInv, Down
<1> QED
  BY <1>3, <1>4, <1>5, <1>6

LEMMA CollectKeepsInv ==
  ASSUME RegistryInv, up' \in BOOLEAN, NEW s \in Sessions, Collect(s)
  PROVE  RegistryInv'
<1> USE DEF RegistryInv
<1>0. /\ TypeOK
      /\ \A t \in Sessions : sess[t] \in Session /\ SessionInv(t)
      /\ \A d \in Conns : conns[d] \in Conn /\ ConnInv(d)
  BY DEF TypeOK
<1>1. /\ UNCHANGED <<registry, conns>>
      /\ s \notin registry
      /\ ~sess[s].terminated
      /\ sess' = [sess EXCEPT ![s] = Ended(sess[s])]
  BY DEF Collect
<1>2. /\ sess' \in [Sessions -> Session]
      /\ sess'[s] = Ended(sess[s])
      /\ \A t \in Sessions \ {s} : sess'[t] = sess[t]
  BY <1>0, <1>1, EndedFacts DEF TypeOK
<1>3. TypeOK' /\ RegistryWithinCapacity'
  BY <1>0, <1>1, <1>2 DEF TypeOK, RegistryWithinCapacity
<1>4. SessionInv(s)'
  BY <1>0, <1>1, <1>2, EndedFacts DEF SessionInv
<1>5. \A t \in Sessions \ {s} : SessionInv(t)'
  BY <1>0, <1>1, <1>2 DEF SessionInv
<1>6. \A d \in Conns : ConnInv(d)'
  <2>1. \A t \in Sessions : sess'[t].kind = sess[t].kind
    BY <1>0, <1>2, EndedFacts
  <2> QED
    BY <1>0, <1>1, <2>1 DEF ConnInv, Conn
<1> QED
  BY <1>3, <1>4, <1>5, <1>6

LEMMA InvStep == RegistryInv /\ [Next]_vars => RegistryInv'
<1> SUFFICES ASSUME RegistryInv, [Next]_vars PROVE RegistryInv'
  OBVIOUS
<1>0. up' \in BOOLEAN \/ UNCHANGED up
  BY DEF Next, vars, Shutdown, Startup
<1>1. CASE up /\ Serve /\ UNCHANGED up
  <2>0. up' \in BOOLEAN
    BY <1>1 DEF RegistryInv, TypeOK
  <2>1. ASSUME NEW s \in Sessions, RunStep(s) PROVE RegistryInv'
    BY <2>0, <2>1, RunStepKeepsInv
  <2>2. ASSUME NEW c \in Conns, ConnStep(c) PROVE RegistryInv'
    <3>1. ASSUME NEW s \in Sessions, CreateSession(c, s) \/ CreateFails(c, s)
          PROVE  RegistryInv'
      BY <2>0, <3>1, CreateKeepsInv
    <3>2. ASSUME NEW s \in Sessions, AttachSession(c, s) PROVE RegistryInv'
      BY <2>0, <3>2, AttachKeepsInv
    <3>3. ASSUME NEW s \in Sessions, AttachTooLate(c, s) PROVE RegistryInv'
      BY <2>0, <3>3, RemoveKeepsInv DEF AttachTooLate
    <3>4. CASE BeginTerminate(c) \/ EndTerminate(c) \/ Expire(c) \/ Detach(c)
      BY <2>0, <3>4, LeaveKeepsInv
    <3>5. CASE Connect(c) \/ Disconnect(c) \/ CancelExpiry(c) \/ Revive(c)
      BY <2>0, <3>5, QuietStepKeepsInv
    <3> QED
      BY <2>2, <3>1, <3>2, <3>3, <3>4, <3>5 DEF ConnStep
  <2>3. CASE Sweep
    BY <2>0, <2>3, RemoveKeepsInv DEF Sweep
  <2>4. CASE Tick
    BY <2>0, <2>4, QuietStepKeepsInv
  <2>5. ASSUME NEW s \in Sessions, Collect(s) PROVE RegistryInv'
    BY <2>0, <2>5, CollectKeepsInv
  <2> QED
    BY <1>1, <2>1, <2>2, <2>3, <2>4, <2>5 DEF Serve
<1>2. CASE Shutdown
  BY <1>2, ShutdownKeepsInv
<1>3. CASE Startup \/ UNCHANGED vars
  <2>1. UNCHANGED <<registry, sess, conns>> /\ up' \in BOOLEAN
    BY <1>3 DEF Startup, vars, RegistryInv, TypeOK
  <2> QED
    BY <2>1 DEF RegistryInv, TypeOK, RegistryWithinCapacity, SessionInv, ConnInv
<1> QED
  BY <1>1, <1>2, <1>3 DEF Next

----------------------------------------------------------------------------
(* Theorems                                                                *)

\* Every reachable state of the registry, its sessions and its connections
\* satisfies the invariant: an attachment, its owner and the owner's
\* connection always agree (mark_attached, mark_detached, the finally block).
THEOREM RegistryInvariant == Spec => []RegistryInv
BY InvInit, InvStep, PTL DEF Spec

\* The model is well typed: no step puts a session, a connection or a
\* deadline outside the values the code can give it.
THEOREM TypeCorrect == Spec => []TypeOK
<1>1. RegistryInv => TypeOK
  BY DEF RegistryInv
<1> QED
  BY <1>1, RegistryInvariant, PTL

\* create_session never lets the registry exceed FMU_MAX_SESSIONS, however
\* many connections create, attach, expire and disconnect.
THEOREM CapacityRespected == Spec => []RegistryWithinCapacity
<1>1. RegistryInv => RegistryWithinCapacity
  BY DEF RegistryInv
<1> QED
  BY <1>1, RegistryInvariant, PTL

\* An attached session, which the cleanup loop will not touch, always has a
\* connection that still exists and whose finally block will detach it.
THEOREM AttachmentsAreOwned == Spec => []AttachedHasLiveOwner
<1>1. RegistryInv => AttachedHasLiveOwner
  BY DEF RegistryInv, SessionInv, AttachedHasLiveOwner
<1> QED
  BY <1>1, RegistryInvariant, PTL

----------------------------------------------------------------------------
(* What a step can do to one session                                       *)

\* A run is only ever recorded on a capacity slot
WorkInv == \A s \in Sessions : sess[s].work # "none" => sess[s].kind = "slot"

Justified(t) ==
  \/ sess[t].ttl = 0
  \/ ~sess[t].attached /\ sess[t].grace \in {0, NoTimer}
  \/ \E c \in Conns : /\ conns[c].state = "terminating"
                      /\ conns[c].session = t

----------------------------------------------------------------------------
(* The five fates of a session in a step                                   *)

Untouched(t) ==
  /\ t \in registry <=> t \in registry'
  /\ sess'[t].kind = sess[t].kind
  /\ sess'[t].attached = sess[t].attached
  /\ sess'[t].owner = sess[t].owner
  /\ sess'[t].grace = NoTimer <=> sess[t].grace = NoTimer

GivenUp(t) ==
  /\ sess[t].kind # "unborn"
  /\ sess'[t].kind = sess[t].kind
  /\ sess'[t].terminated /\ ~sess'[t].attached
  /\ sess'[t].grace = NoTimer /\ sess'[t].owner = NoConn
  /\ t \in registry' => t \in registry
  /\ t \in registry \ registry' /\ up' /\ sess[t].kind = "realtime"
       => Justified(t)

Born(t) ==
  /\ sess[t].kind = "unborn" /\ t \notin registry
  /\ ~sess'[t].attached /\ sess'[t].grace = NoTimer
  /\ sess'[t].owner = NoConn
  /\ sess'[t].kind # "unborn"

TakenBy(t, c) ==
  /\ conns[c].state = "open" /\ conns[c].session \in {NoSession, t}
  /\ \/ sess[t].kind = "unborn" /\ t \notin registry
     \/ /\ sess[t].kind = "realtime" /\ t \in registry
        /\ sess[t].attached \/ sess[t].grace # NoTimer
  /\ t \in registry' /\ sess'[t].kind = "realtime"
  /\ sess'[t].attached /\ sess'[t].owner = c

DroppedBy(t, c) ==
  /\ t \in registry /\ t \in registry'
  /\ sess[t].kind = "realtime" /\ sess'[t].kind = "realtime"
  /\ sess[t].attached /\ ~sess'[t].attached
  /\ sess[t].owner = c /\ sess'[t].owner = NoConn
  /\ sess'[t].grace # NoTimer
  /\ conns[c].state = "detaching" /\ conns'[c].state = "down"

Fate(t) ==
  \/ Untouched(t)
  \/ GivenUp(t)
  \/ Born(t)
  \/ \E c \in Conns : TakenBy(t, c) \/ DroppedBy(t, c)

LEMMA SameIsUntouched ==
  ASSUME NEW t \in Sessions, sess'[t] = sess[t],
         t \in registry <=> t \in registry'
  PROVE  Fate(t)
BY DEF Fate, Untouched

\* An ended session has been given up if its removal is justified
LEMMA EndedIsGivenUp ==
  ASSUME RegistryInv, NEW t \in Sessions, sess'[t] = Ended(sess[t]),
         sess[t].kind # "unborn",
         t \in registry' => t \in registry,
         t \in registry \ registry' /\ up' /\ sess[t].kind = "realtime"
           => Justified(t)
  PROVE  Fate(t)
<1>1. sess[t] \in Session /\ SessionInv(t)
  BY DEF RegistryInv, TypeOK
<1>2. /\ sess'[t].kind = sess[t].kind
      /\ sess'[t].terminated /\ ~sess'[t].attached
      /\ sess'[t].grace = NoTimer /\ sess'[t].owner = NoConn
  BY <1>1, EndedFacts DEF SessionInv
<1> QED
  BY <1>2 DEF Fate, GivenUp

\* What can no longer be attached has passed one of its deadlines
LEMMA UnattachableIsJustified ==
  ASSUME RegistryInv, NEW t \in Sessions, ~CanAttach(t)
  PROVE  Justified(t)
<1>1. SessionInv(t)
  BY DEF RegistryInv
<1> QED
  BY <1>1, TimerFacts DEF CanAttach, SessionInv, Justified

LEMMA RegisterFate ==
  ASSUME RegistryInv, NEW s \in Sessions, NEW r \in Session, Register(s, r),
         NEW t \in Sessions \ {s}
  PROVE  Fate(t)
<1>1. CASE sess'[t] = sess[t] /\ (t \in registry <=> t \in registry')
  BY <1>1, SameIsUntouched
<1>2. CASE /\ sess'[t] = Ended(sess[t])
           /\ t \in registry /\ t \notin registry'
           /\ t \in Stale
  <2>1. Justified(t)
    BY <1>2, UnattachableIsJustified DEF Stale
  <2>2. sess[t].kind # "unborn"
    BY <1>2 DEF RegistryInv, SessionInv
  <2> QED
    BY <1>2, <2>1, <2>2, EndedIsGivenUp
<1> QED
  BY <1>1, <1>2, RegisterFacts

LEMMA RemoveFate ==
  ASSUME RegistryInv, NEW S, Remove(S),
         NEW t \in Sessions, t \in S => Justified(t)
  PROVE  Fate(t)
<1>0. TypeOK
  BY DEF RegistryInv
<1>1. CASE sess'[t] = sess[t] /\ (t \in registry <=> t \in registry')
  BY <1>1, SameIsUntouched
<1>2. CASE /\ sess'[t] = Ended(sess[t])
           /\ t \in S
           /\ t \in registry /\ t \notin registry'
  <2>1. sess[t].kind # "unborn"
    BY <1>2 DEF RegistryInv, SessionInv
  <2> QED
    BY <1>2, <2>1, EndedIsGivenUp
<1> QED
  BY <1>0, <1>1, <1>2, RemoveFacts

LEMMA RunStepFate ==
  ASSUME RegistryInv, WorkInv, NEW s \in Sessions, RunStep(s),
         NEW t \in Sessions
  PROVE  Fate(t)
<1>0. /\ TypeOK
      /\ sess[t] \in Session /\ SessionInv(t)
  BY DEF RegistryInv, TypeOK
<1>1. CASE ReserveSlot(s)
  <2>1. PICK work \in {"pending", "running"} : Register(s, Slot(work))
    BY <1>1 DEF ReserveSlot
  <2>2. /\ Slot(work) \in Session
        /\ ~Slot(work).attached
        /\ Slot(work).grace = NoTimer
        /\ Slot(work).owner = NoConn
        /\ Slot(work).kind = "slot"
    BY TimerFacts DEF Slot, Unborn, Session
  <2>3. CASE t = s
    BY <2>1, <2>2, <2>3, RegisterFacts DEF Fate, Born, Register
  <2>4. CASE t # s
    BY <2>1, <2>2, <2>4, RegisterFate
  <2> QED
    BY <2>3, <2>4
<1>2. CASE StartStream(s) \/ AbandonStream(s)
  <2>1. Untouched(t)
    BY <1>0, <1>2 DEF StartStream, AbandonStream, TypeOK, Session, Untouched
  <2> QED
    BY <2>1 DEF Fate
<1>3. CASE FinishRun(s)
  <2>1. CASE t # s
    <3>1. sess'[t] = sess[t] /\ (t \in registry <=> t \in registry')
      BY <1>0, <1>3, <2>1 DEF FinishRun, TypeOK
    <3> QED
      BY <3>1, SameIsUntouched
  <2>2. CASE t = s /\ s \notin registry
    <3>1. Untouched(t)
      BY <1>0, <1>3, <2>2 DEF FinishRun, TypeOK, Session, Untouched
    <3> QED
      BY <3>1 DEF Fate
  <2>3. CASE t = s /\ s \in registry
    <3>1. sess[t].kind = "slot"
      BY <1>3, <2>3 DEF FinishRun, WorkInv
    <3>2. sess'[t] = [Ended(sess[t]) EXCEPT !.work = "done"]
      BY <1>0, <1>3, <2>3, EndedFacts DEF FinishRun, TypeOK, Session
    <3>3. /\ Ended(sess[t]) \in Session
          /\ Ended(sess[t]).kind = "slot"
          /\ Ended(sess[t]).terminated /\ ~Ended(sess[t]).attached
          /\ Ended(sess[t]).grace = NoTimer /\ Ended(sess[t]).owner = NoConn
      BY <1>0, <3>1, EndedFacts DEF SessionInv
    <3>4. /\ sess'[t].kind = "slot"
          /\ sess'[t].terminated /\ ~sess'[t].attached
          /\ sess'[t].grace = NoTimer /\ sess'[t].owner = NoConn
      BY <3>2, <3>3 DEF Session
    <3> QED
      BY <2>3, <3>1, <3>4 DEF Fate, GivenUp
  <2> QED
    BY <2>1, <2>2, <2>3
<1> QED
  BY <1>1, <1>2, <1>3 DEF RunStep

LEMMA BindFate ==
  ASSUME RegistryInv, NEW c \in Conns, NEW s \in Sessions,
         CreateSession(c, s) \/ CreateFails(c, s) \/ AttachSession(c, s),
         NEW t \in Sessions
  PROVE  Fate(t)
<1>0. /\ TypeOK
      /\ sess[t] \in Session /\ SessionInv(t)
  BY DEF RegistryInv, TypeOK
<1> DEFINE New(ttl) == [Unborn EXCEPT !.kind = "realtime", !.ttl = ttl]
<1>1. \A ttl \in Timer(MaxTTL) :
        /\ New(ttl) \in Session
        /\ New(ttl).kind = "realtime"
        /\ ~New(ttl).attached
        /\ New(ttl).grace = NoTimer /\ New(ttl).owner = NoConn
  BY TimerFacts DEF Unborn, Session
<1>2. CASE CreateFails(c, s)
  <2>1. PICK ttl \in Timer(MaxTTL) : Register(s, New(ttl))
    BY <1>2 DEF CreateFails
  <2> HIDE DEF New
  <2>2. CASE t = s
    BY <1>1, <2>1, <2>2, RegisterFacts DEF Fate, Born, Register
  <2>3. CASE t # s
    BY <1>1, <2>1, <2>3, RegisterFate
  <2> QED
    BY <2>2, <2>3
<1>3. CASE CreateSession(c, s)
  <2>1. PICK ttl \in Timer(MaxTTL) : Register(s, MarkAttached(New(ttl), c))
    BY <1>3 DEF CreateSession
  <2> HIDE DEF New
  <2>2. /\ MarkAttached(New(ttl), c) \in Session
        /\ MarkAttached(New(ttl), c).kind = "realtime"
        /\ MarkAttached(New(ttl), c).attached
        /\ MarkAttached(New(ttl), c).owner = c
    BY <1>1, MarkAttachedFacts
  <2>3. CASE t = s
    <3>1. TakenBy(t, c)
      BY <1>3, <2>1, <2>2, <2>3, RegisterFacts
         DEF TakenBy, Register, CreateSession
    <3> QED
      BY <3>1 DEF Fate
  <2>4. CASE t # s
    BY <2>1, <2>2, <2>4, RegisterFate
  <2> QED
    BY <2>3, <2>4
<1>4. CASE AttachSession(c, s)
  <2>1. CASE t = s
    <3>1. sess'[t] = MarkAttached(sess[t], c)
      BY <1>0, <1>4, <2>1 DEF AttachSession, TypeOK
    <3>2. TakenBy(t, c)
      BY <1>0, <1>4, <2>1, <3>1, MarkAttachedFacts
         DEF TakenBy, AttachSession, CanAttach
    <3> QED
      BY <3>2 DEF Fate
  <2>2. CASE t # s
    <3>1. sess'[t] = sess[t] /\ registry' = registry
      BY <1>0, <1>4, <2>2 DEF AttachSession, TypeOK
    <3> QED
      BY <3>1, SameIsUntouched
  <2> QED
    BY <2>1, <2>2
<1> QED
  BY <1>2, <1>3, <1>4

LEMMA LeaveFate ==
  ASSUME RegistryInv, NEW c \in Conns, NEW t \in Sessions,
         BeginTerminate(c) \/ EndTerminate(c) \/ Expire(c) \/ Detach(c)
  PROVE  Fate(t)
<1>0. /\ TypeOK
      /\ sess[t] \in Session /\ SessionInv(t)
      /\ conns[c] \in Conn /\ ConnInv(c)
  BY DEF RegistryInv, TypeOK
<1>1. CASE BeginTerminate(c)
  <2>1. CASE t = conns[c].session
    <3>1. /\ sess'[t] = Ended(sess[t])
          /\ registry' = registry
          /\ sess[t].kind # "unborn"
      BY <1>0, <1>1, <2>1 DEF BeginTerminate, CommandAllowed, ConnInv, TypeOK
    <3> QED
      BY <3>1, EndedIsGivenUp
  <2>2. CASE t # conns[c].session
    <3>1. sess'[t] = sess[t] /\ registry' = registry
      BY <1>0, <1>1, <2>2 DEF BeginTerminate, TypeOK
    <3> QED
      BY <3>1, SameIsUntouched
  <2> QED
    BY <2>1, <2>2
<1>2. CASE EndTerminate(c)
  <2>1. t \in {conns[c].session} => Justified(t)
    BY <1>2 DEF EndTerminate, Justified
  <2>2. Remove({conns[c].session})
    BY <1>2 DEF EndTerminate
  <2> QED
    BY <2>1, <2>2, RemoveFate
<1>3. CASE Expire(c)
  <2>1. CASE UNCHANGED <<registry, sess>>
    BY <2>1, SameIsUntouched
  <2>2. CASE Remove({conns[c].expiry})
    <3>1. t \in {conns[c].expiry} => Justified(t)
      BY <1>3 DEF Expire, Justified
    <3> QED
      BY <2>2, <3>1, RemoveFate
  <2> QED
    BY <1>3, <2>1, <2>2 DEF Expire
<1>4. CASE Detach(c)
  <2>1. /\ registry' = registry
        /\ sess'[t] = IF t = conns[c].session /\ t \in registry
                      THEN MarkDetached(sess[t], c) ELSE sess[t]
        /\ conns[c].state = "detaching"
        /\ conns'[c].state = "down"
    BY <1>0, <1>4 DEF Detach, TypeOK, Down
  <2>2. CASE sess'[t] = sess[t]
    BY <2>1, <2>2, SameIsUntouched
  <2>3. CASE sess'[t] # sess[t]
    <3>1. /\ t \in registry /\ sess[t].owner = c /\ ~sess[t].terminated
          /\ sess'[t] = MarkDetached(sess[t], c)
      BY <1>0, <2>1, <2>3, MarkDetachedFacts
    <3>2. sess[t].attached /\ sess[t].kind = "realtime"
      BY <1>0, <3>1, RegistryAssumption DEF SessionInv
    <3>3. DroppedBy(t, c)
      BY <1>0, <2>1, <3>1, <3>2, MarkDetachedFacts, TimerFacts DEF DroppedBy
    <3> QED
      BY <3>3 DEF Fate
  <2> QED
    BY <2>2, <2>3
<1> QED
  BY <1>1, <1>2, <1>3, <1>4

\* Every step of the registry deals one of the five fates to each session
LEMMA SessionFate ==
  ASSUME RegistryInv, WorkInv, [Next]_vars, NEW t \in Sessions
  PROVE  Fate(t)
<1>0. /\ TypeOK
      /\ sess[t] \in Session /\ SessionInv(t)
  BY DEF RegistryInv, TypeOK
<1>1. ASSUME NEW s \in Sessions, RunStep(s) PROVE Fate(t)
  BY <1>1, RunStepFate
<1>2. ASSUME NEW c \in Conns, ConnStep(c) PROVE Fate(t)
  <2>1. ASSUME NEW s \in Sessions,
               CreateSession(c, s) \/ CreateFails(c, s) \/ AttachSession(c, s)
        PROVE  Fate(t)
    BY <2>1, BindFate
  <2>2. ASSUME NEW s \in Sessions, AttachTooLate(c, s) PROVE Fate(t)
    <3>1. Remove({s}) /\ (t \in {s} => Justified(t))
      BY <2>2, UnattachableIsJustified DEF AttachTooLate
    <3> QED
      BY <3>1, RemoveFate
  <2>3. CASE BeginTerminate(c) \/ EndTerminate(c) \/ Expire(c) \/ Detach(c)
    BY <2>3, LeaveFate
  <2>4. CASE Connect(c) \/ Disconnect(c) \/ CancelExpiry(c)
    BY <2>4, SameIsUntouched DEF Connect, Disconnect, CancelExpiry
  <2>5. CASE Revive(c)
    <3>1. Untouched(t)
      BY <1>0, <2>5 DEF Revive, TypeOK, Session, Untouched
    <3> QED
      BY <3>1 DEF Fate
  <2> QED
    BY <1>2, <2>1, <2>2, <2>3, <2>4, <2>5 DEF ConnStep
<1>3. CASE Sweep
  <2>1. Remove(Stale) /\ (t \in Stale => Justified(t))
    BY <1>3, UnattachableIsJustified DEF Sweep, Stale
  <2> QED
    BY <2>1, RemoveFate
<1>4. CASE Tick
  <2>1. sess'[t] =
          [sess[t] EXCEPT !.grace = CountDown(@), !.ttl = CountDown(@)]
    BY <1>4 DEF Tick
  <2>2. /\ sess'[t].kind = sess[t].kind
        /\ sess'[t].attached = sess[t].attached
        /\ sess'[t].owner = sess[t].owner
        /\ sess'[t].grace = NoTimer <=> sess[t].grace = NoTimer
    BY <1>0, <2>1, CountedDownFacts
  <2> QED
    BY <1>4, <2>2 DEF Fate, Untouched, Tick
<1>5. CASE Shutdown
  <2>1. CASE sess[t].kind = "unborn"
    <3>1. t \notin registry /\ registry' = {} /\ sess'[t] = sess[t]
      BY <1>0, <1>5, <2>1 DEF SessionInv, Shutdown
    <3> QED
      BY <3>1, SameIsUntouched
  <2>2. CASE sess[t].kind # "unborn"
    <3> DEFINE w == IF sess[t].kind = "slot" THEN "done" ELSE "none"
    <3>1. /\ sess'[t] = [Ended(sess[t]) EXCEPT !.work = w]
          /\ ~up' /\ registry' = {}
      BY <1>5, <2>2 DEF Shutdown
    <3>2. /\ Ended(sess[t]) \in Session
          /\ Ended(sess[t]).kind = sess[t].kind
          /\ Ended(sess[t]).terminated /\ ~Ended(sess[t]).attached
          /\ Ended(sess[t]).grace = NoTimer /\ Ended(sess[t]).owner = NoConn
      BY <1>0, EndedFacts DEF SessionInv
    <3>3. /\ sess'[t].kind = sess[t].kind
          /\ sess'[t].terminated /\ ~sess'[t].attached
          /\ sess'[t].grace = NoTimer /\ sess'[t].owner = NoConn
      BY <3>1, <3>2 DEF Session
    <3> QED
      BY <2>2, <3>1, <3>3 DEF Fate, GivenUp
  <2> QED
    BY <2>1, <2>2
<1>6. CASE Startup \/ UNCHANGED vars
  BY <1>6, SameIsUntouched DEF Startup, vars
<1>7. ASSUME NEW s \in Sessions, Collect(s) PROVE Fate(t)
  <2>1. CASE t = s
    <3>1. /\ sess'[t] = Ended(sess[t])
          /\ registry' = registry
          /\ sess[t].kind # "unborn"
      BY <1>0, <1>7, <2>1 DEF Collect, TypeOK
    <3> QED
      BY <3>1, EndedIsGivenUp
  <2>2. CASE t # s
    <3>1. sess'[t] = sess[t] /\ registry' = registry
      BY <1>0, <1>7, <2>2 DEF Collect, TypeOK
    <3> QED
      BY <3>1, SameIsUntouched
  <2> QED
    BY <2>1, <2>2
<1> QED
  BY <1>1, <1>2, <1>3, <1>4, <1>5, <1>6, <1>7 DEF Next, Serve

----------------------------------------------------------------------------
(* WorkInv is an invariant                                                 *)

\* A run that goes on or is still to start
Underway(t) == sess[t].work \in {"pending", "running"}

\* A step that leaves a session's kind and run alone, or gives both to a
\* session that is new, or takes a slot's run further
WorkKept(t) ==
  \/ sess'[t].kind = sess[t].kind /\ sess'[t].work = sess[t].work
  \/ /\ sess'[t].work # "none" => sess'[t].kind = "slot"
     /\ Underway(t)' => Underway(t) \/ t \in registry'

LEMMA RegisterKeepsWork ==
  ASSUME RegistryInv, NEW s \in Sessions, NEW r \in Session, Register(s, r),
         r.work # "none" => r.kind = "slot",
         NEW t \in Sessions
  PROVE  WorkKept(t)
<1>1. sess[t] \in Session
  BY DEF RegistryInv, TypeOK
<1> QED
  BY <1>1, RegisterFacts, EndedFacts DEF WorkKept, Underway

LEMMA RemoveKeepsWork ==
  ASSUME RegistryInv, NEW S, Remove(S), NEW t \in Sessions
  PROVE  WorkKept(t)
<1>1. sess[t] \in Session /\ TypeOK
  BY DEF RegistryInv, TypeOK
<1> QED
  BY <1>1, RemoveFacts, EndedFacts DEF WorkKept

LEMMA StepKeepsWork ==
  ASSUME RegistryInv, WorkInv, [Next]_vars, NEW t \in Sessions
  PROVE  WorkKept(t)
<1>0. /\ TypeOK
      /\ sess[t] \in Session /\ SessionInv(t)
  BY DEF RegistryInv, TypeOK
<1>1. ASSUME NEW s \in Sessions, RunStep(s) PROVE WorkKept(t)
  <2>1. CASE ReserveSlot(s)
    <3>1. PICK work \in {"pending", "running"} : Register(s, Slot(work))
      BY <2>1 DEF ReserveSlot
    <3>2. Slot(work) \in Session /\ Slot(work).kind = "slot"
      BY TimerFacts DEF Slot, Unborn, Session
    <3> QED
      BY <3>1, <3>2, RegisterKeepsWork
  <2>2. CASE StartStream(s) \/ AbandonStream(s) \/ FinishRun(s)
    <3>1. CASE t # s
      BY <1>0, <2>2, <3>1
         DEF StartStream, AbandonStream, FinishRun, TypeOK, WorkKept
    <3>2. CASE t = s
      <4>1. sess[t].kind = "slot"
        BY <2>2, <3>2 DEF StartStream, AbandonStream, FinishRun, WorkInv
      <4>2. sess'[t].kind = "slot"
        BY <1>0, <2>2, <3>2, <4>1, EndedFacts
           DEF StartStream, AbandonStream, FinishRun, TypeOK, Session
      <4>3. Underway(t)' => Underway(t)
        BY <1>0, <2>2, <3>2, EndedFacts
           DEF StartStream, AbandonStream, FinishRun, TypeOK, Session, Underway
      <4> QED
        BY <4>2, <4>3 DEF WorkKept
    <3> QED
      BY <3>1, <3>2
  <2> QED
    BY <1>1, <2>1, <2>2 DEF RunStep
<1>2. ASSUME NEW c \in Conns, ConnStep(c) PROVE WorkKept(t)
  <2> DEFINE New(ttl) == [Unborn EXCEPT !.kind = "realtime", !.ttl = ttl]
  <2>1. \A ttl \in Timer(MaxTTL) :
          New(ttl) \in Session /\ New(ttl).work = "none"
    BY TimerFacts DEF Unborn, Session
  <2>2. ASSUME NEW s \in Sessions, CreateFails(c, s) PROVE WorkKept(t)
    <3>1. PICK ttl \in Timer(MaxTTL) : Register(s, New(ttl))
      BY <2>2 DEF CreateFails
    <3> HIDE DEF New
    <3> QED
      BY <2>1, <3>1, RegisterKeepsWork
  <2>3. ASSUME NEW s \in Sessions, CreateSession(c, s) PROVE WorkKept(t)
    <3>1. PICK ttl \in Timer(MaxTTL) : Register(s, MarkAttached(New(ttl), c))
      BY <2>3 DEF CreateSession
    <3> HIDE DEF New
    <3>2. /\ MarkAttached(New(ttl), c) \in Session
          /\ MarkAttached(New(ttl), c).work = "none"
      BY <2>1, MarkAttachedFacts
    <3> QED
      BY <3>1, <3>2, RegisterKeepsWork
  <2>4. ASSUME NEW s \in Sessions, AttachSession(c, s) PROVE WorkKept(t)
    BY <1>0, <2>4, MarkAttachedFacts DEF AttachSession, TypeOK, WorkKept
  <2>5. ASSUME NEW S, Remove(S) PROVE WorkKept(t)
    BY <2>5, RemoveKeepsWork
  <2>6. CASE BeginTerminate(c)
    BY <1>0, <2>6, EndedFacts DEF BeginTerminate, TypeOK, WorkKept
  <2>7. CASE Revive(c)
    BY <1>0, <2>7 DEF Revive, TypeOK, Session, WorkKept
  <2>8. CASE Detach(c)
    BY <1>0, <2>8, MarkDetachedFacts DEF Detach, TypeOK, WorkKept
  <2>9. CASE UNCHANGED sess
    BY <2>9 DEF WorkKept
  <2> QED
    BY <1>2, <2>2, <2>3, <2>4, <2>5, <2>6, <2>7, <2>8, <2>9
       DEF ConnStep, AttachTooLate, EndTerminate, Expire,
           Connect, Disconnect, CancelExpiry
<1>3. CASE Sweep
  BY <1>3, RemoveKeepsWork DEF Sweep
<1>4. CASE Tick
  <2>1. sess'[t] =
          [sess[t] EXCEPT !.grace = CountDown(@), !.ttl = CountDown(@)]
    BY <1>4 DEF Tick
  <2> QED
    BY <1>0, <2>1 DEF Session, WorkKept
<1>5. CASE Shutdown
  <2>1. sess'[t] = IF sess[t].kind = "unborn" THEN sess[t]
                   ELSE [Ended(sess[t]) EXCEPT !.work =
                          IF sess[t].kind = "slot" THEN "done" ELSE "none"]
    BY <1>5 DEF Shutdown
  <2> QED
    BY <1>0, <2>1, EndedFacts DEF Session, WorkKept, Underway
<1>6. CASE Startup \/ UNCHANGED vars
  BY <1>6 DEF Startup, vars, WorkKept
<1>7. ASSUME NEW s \in Sessions, Collect(s) PROVE WorkKept(t)
  BY <1>0, <1>7, EndedFacts DEF Collect, TypeOK, WorkKept
<1> QED
  BY <1>1, <1>2, <1>3, <1>4, <1>5, <1>6, <1>7 DEF Next, Serve

LEMMA WorkInvStep ==
  RegistryInv /\ WorkInv /\ [Next]_vars => RegistryInv' /\ WorkInv'
<1> SUFFICES ASSUME RegistryInv, WorkInv, [Next]_vars
             PROVE  RegistryInv' /\ WorkInv'
  OBVIOUS
<1>1. WorkInv'
  BY StepKeepsWork DEF WorkKept, WorkInv
<1> QED
  BY <1>1, InvStep

LEMMA WorkInvariant == Spec => [](RegistryInv /\ WorkInv)
<1>1. Init => RegistryInv /\ WorkInv
  BY InvInit DEF Init, WorkInv, Unborn
<1> QED
  BY <1>1, WorkInvStep, PTL DEF Spec

----------------------------------------------------------------------------
(* Theorems                                                                *)

\* "the stale cleanup must not detach the newer connection": only the finally
\* block of the connection that owns a live session detaches it.
THEOREM OnlyTheOwnerDetaches == Spec => DetachedByItsOwner
<1> DEFINE P == \A s \in Sessions :
       sess[s].attached /\ ~sess'[s].attached /\ ~sess'[s].terminated =>
         /\ conns[sess[s].owner].state = "detaching"
         /\ conns'[sess[s].owner].state = "down"
<1>1. ASSUME RegistryInv, WorkInv, [Next]_vars PROVE P
  <2> SUFFICES ASSUME NEW s \in Sessions, sess[s].attached,
                      ~sess'[s].attached, ~sess'[s].terminated
               PROVE  /\ conns[sess[s].owner].state = "detaching"
                      /\ conns'[sess[s].owner].state = "down"
    OBVIOUS
  <2>1. Fate(s)
    BY <1>1, SessionFate
  <2>2. SessionInv(s)
    BY <1>1 DEF RegistryInv
  <2>3. ~Born(s)
    BY <1>1, <2>2 DEF Born, SessionInv
  <2> QED
    BY <2>1, <2>3 DEF Fate, Untouched, GivenUp, TakenBy, DroppedBy
<1>2. RegistryInv /\ WorkInv /\ [Next]_vars => [P]_vars
  BY <1>1
<1> QED
  BY <1>2, WorkInvariant, PTL DEF Spec, DetachedByItsOwner

\* While the service is up, a realtime session leaves the registry only past
\* its reservation, past its grace, or on a client's session.terminate.
THEOREM NoSessionIsLost == Spec => RemovalIsJustified
<1> DEFINE P == \A s \in registry \ registry' :
       up' /\ sess[s].kind = "realtime" =>
         \/ sess[s].ttl = 0
         \/ ~sess[s].attached /\ sess[s].grace \in {0, NoTimer}
         \/ \E c \in Conns : /\ conns[c].state = "terminating"
                             /\ conns[c].session = s
<1>1. ASSUME RegistryInv, WorkInv, [Next]_vars PROVE P
  <2> SUFFICES ASSUME NEW s \in registry \ registry', up',
                      sess[s].kind = "realtime"
               PROVE  Justified(s)
    BY DEF Justified
  <2>1. s \in Sessions
    BY <1>1 DEF RegistryInv, TypeOK
  <2>2. Fate(s)
    BY <1>1, <2>1, SessionFate
  <2> QED
    BY <2>2 DEF Fate, Untouched, GivenUp, Born, TakenBy, DroppedBy
<1>2. RegistryInv /\ WorkInv /\ [Next]_vars => [P]_vars
  BY <1>1
<1> QED
  BY <1>2, WorkInvariant, PTL DEF Spec, RemovalIsJustified

----------------------------------------------------------------------------
(* FmuRegistry implements SessionLease                                     *)

LinkOf == [c \in Conns |-> conns[c].state \in {"open", "terminating"}]
HolderOf == [s \in Sessions |-> sess[s].owner]

\* A connection holds at most the session it has
LEMMA OneHolding ==
  ASSUME RegistryInv, NEW t \in Sessions, NEW c \in Conns, sess[t].owner = c
  PROVE  conns[c].session = t /\ conns[c].state # "down"
BY RegistryAssumption DEF RegistryInv, SessionInv

LEMMA FateIsLeaseStep ==
  ASSUME RegistryInv, NEW t \in Sessions, Fate(t)
  PROVE  Lease!Keep(t) \/ Lease!Open(t) \/ Lease!Take(t)
           \/ Lease!Drop(t) \/ Lease!Close(t)
<1>0. SessionInv(t) /\ sess[t] \in Session
  BY DEF RegistryInv, TypeOK
<1>1. CASE Untouched(t)
  <2>1. Lease!Keep(t)
    BY <1>0, <1>1 DEF Untouched, Lease!Keep, LeaseOf
  <2> QED
    BY <2>1
<1>2. CASE GivenUp(t) \/ Born(t)
  <2>1. CASE sess'[t].kind = "realtime"
    <3>1. Lease!Close(t)
      BY <1>2, <2>1 DEF GivenUp, Born, Lease!Close, LeaseOf
    <3> QED
      BY <3>1
  <2>2. CASE sess'[t].kind # "realtime"
    <3>1. sess[t].kind # "realtime" /\ sess[t].owner = NoConn
      BY <1>0, <1>2, <2>2 DEF GivenUp, Born, SessionInv
    <3>2. Lease!Keep(t)
      BY <1>2, <2>2, <3>1 DEF GivenUp, Born, Lease!Keep, LeaseOf
    <3> QED
      BY <3>2
  <2> QED
    BY <2>1, <2>2
<1>3. ASSUME NEW c \in Conns, TakenBy(t, c)
      PROVE  Lease!Open(t) \/ Lease!Take(t)
  <2>1. \A s \in Sessions \ {t} : sess[s].owner # c
    BY <1>3, OneHolding, RegistryAssumption DEF TakenBy
  <2>2. Lease!Hold(t)
    BY <1>3, <2>1 DEF TakenBy, Lease!Hold, LeaseOf
  <2>3. LeaseOf[t] \in {"none", "held", "grace"}
    BY <1>3 DEF TakenBy, LeaseOf
  <2> QED
    BY <2>2, <2>3 DEF Lease!Open, Lease!Take
<1>4. ASSUME NEW c \in Conns, DroppedBy(t, c) PROVE Lease!Drop(t)
  BY <1>4 DEF DroppedBy, Lease!Drop, LeaseOf
<1> QED
  BY <1>1, <1>2, <1>3, <1>4 DEF Fate

\* Only a connection that was down, and so held nothing, comes up
LEMMA LinksAreFresh ==
  ASSUME RegistryInv, [Next]_vars, NEW c \in Conns
  PROVE  Lease!LinkStep(c)
<1> DEFINE Linked(d) == conns[d].state \in {"open", "terminating"}
<1>0. TypeOK
  BY DEF RegistryInv
<1>1. conns'[c].state \in {"open", "terminating"} =>
        Linked(c) \/ conns[c].state = "down"
  <2>1. ASSUME NEW s \in Sessions, RunStep(s) PROVE UNCHANGED conns
    BY <2>1 DEF RunStep, ReserveSlot, StartStream, AbandonStream, FinishRun
  <2>2. ASSUME NEW d \in Conns, ConnStep(d)
        PROVE  conns'[c].state \in {"open", "terminating"} =>
                 Linked(c) \/ conns[c].state = "down"
    <3>1. CASE \E s \in Sessions : \/ CreateFails(d, s)
                                   \/ AttachTooLate(d, s)
      BY <3>1 DEF CreateFails, AttachTooLate
    <3>2. CASE \E s \in Sessions : \/ CreateSession(d, s)
                                   \/ AttachSession(d, s)
      BY <1>0, <3>2 DEF CreateSession, AttachSession, TypeOK, Conn
    <3>3. CASE Connect(d) \/ BeginTerminate(d) \/ EndTerminate(d)
      BY <1>0, <3>3 DEF Connect, BeginTerminate, EndTerminate,
                        CommandAllowed, TypeOK, Conn
    <3>4. CASE Revive(d)
      BY <3>4 DEF Revive
    <3>5. CASE Expire(d)
      BY <1>0, <3>5 DEF Expire, TypeOK, Conn
    <3>6. CASE Disconnect(d) \/ CancelExpiry(d) \/ Detach(d)
      BY <1>0, <3>6 DEF Disconnect, CancelExpiry, Detach, Down, TypeOK, Conn
    <3> QED
      BY <2>2, <3>1, <3>2, <3>3, <3>4, <3>5, <3>6 DEF ConnStep
  <2>3. CASE Shutdown
    BY <2>3 DEF Shutdown, Down
  <2> QED
    BY <2>1, <2>2, <2>3 DEF Next, Serve, Sweep, Tick, Collect, Startup, vars
<1>2. \A s \in Sessions : conns[c].state = "down" => sess[s].owner # c
  BY OneHolding
<1> QED
  BY <1>1, <1>2 DEF Lease!LinkStep

\* The registry implements the abstract lease: one holder at a time, dropped
\* only when its client is gone, never back once removed.
THEOREM ImplementsTheLease == Spec => ImplementsLease
<1>1. Init => Lease!Init
  <2> SUFFICES ASSUME Init PROVE Lease!Init
    OBVIOUS
  <2>1. \A s \in Sessions : sess[s].kind = "unborn" /\ sess[s].owner = NoConn
    BY DEF Init, Unborn
  <2>2. LeaseOf = [s \in Sessions |-> "none"]
    BY <2>1 DEF LeaseOf
  <2>3. HolderOf = [s \in Sessions |-> NoConn]
    BY <2>1 DEF HolderOf
  <2>4. \A c \in Conns :
          (conns[c].state \in {"open", "terminating"}) = FALSE
    BY DEF Init, Down
  <2>5. LinkOf = [c \in Conns |-> FALSE]
    BY <2>4, Zenon DEF LinkOf
  <2> QED
    BY <2>2, <2>3, <2>5 DEF Lease!Init, HolderOf, LinkOf
<1>2. RegistryInv /\ RegistryInv' /\ WorkInv /\ [Next]_vars
        => [Lease!Next]_(Lease!lvars)
  <2> SUFFICES ASSUME RegistryInv, RegistryInv', WorkInv, [Next]_vars
               PROVE  Lease!Next
    OBVIOUS
  <2>1. \A s \in Sessions : \/ Lease!Keep(s) \/ Lease!Open(s)
                            \/ Lease!Take(s) \/ Lease!Drop(s)
                            \/ Lease!Close(s)
    BY SessionFate, FateIsLeaseStep
  <2>2. \A c \in Conns : Lease!LinkStep(c)
    BY LinksAreFresh
  <2>3. LeaseOf' \in [Sessions -> {"none", "held", "grace", "gone"}]
    BY DEF LeaseOf
  <2>4. HolderOf' \in [Sessions -> Conns \cup {NoConn}]
    BY DEF HolderOf, RegistryInv, TypeOK, Session
  <2>5. LinkOf' \in [Conns -> BOOLEAN]
    BY DEF LinkOf
  <2> QED
    BY <2>1, <2>2, <2>3, <2>4, <2>5 DEF Lease!Next, HolderOf, LinkOf
<1> QED
  BY <1>1, <1>2, WorkInvariant, PTL DEF Spec, ImplementsLease, Lease!Spec

----------------------------------------------------------------------------
(* What it takes for more runs than the capacity                           *)

\* No sweep gives up the slot of a run that goes on or is still to start
NoRunSwept == \A s \in registry \ registry' : ~Underway(s)'

\* "Effective max concurrent FMU executions": it is, as long as no slot of a
\* run under way is swept.  That cleanup_expired_sessions takes such a slot for
\* stale is the only way to the violation of ExecutionsWithinCapacity.
THEOREM OnlySweptRunsExceed ==
  Spec /\ [][NoRunSwept]_vars => []ExecutionsWithinCapacity
<1> DEFINE SlotsHeld == \A s \in Sessions : Underway(s) => s \in registry
<1>1. Init => SlotsHeld
  BY DEF Init, Unborn, Underway
<1>2. RegistryInv /\ WorkInv /\ SlotsHeld /\ [Next]_vars /\ [NoRunSwept]_vars
        => SlotsHeld'
  <2> SUFFICES ASSUME RegistryInv, WorkInv, SlotsHeld,
                      [Next]_vars, [NoRunSwept]_vars
               PROVE  SlotsHeld'
    OBVIOUS
  <2>1. ASSUME NEW s \in Sessions, Underway(s)' PROVE s \in registry'
    <3>1. Underway(s) \/ s \in registry'
      BY <2>1, StepKeepsWork DEF WorkKept, Underway
    <3>2. s \in registry => s \in registry'
      BY <2>1 DEF NoRunSwept, vars
    <3> QED
      BY <3>1, <3>2
  <2> QED
    BY <2>1
<1>3. RegistryInv /\ SlotsHeld => ExecutionsWithinCapacity
  <2> SUFFICES ASSUME RegistryInv, SlotsHeld PROVE ExecutionsWithinCapacity
    OBVIOUS
  <2>1. Executions \subseteq registry
    BY DEF Executions, Underway
  <2>2. IsFiniteSet(registry)
    BY FS_Subset, RegistryAssumption DEF RegistryInv, TypeOK
  <2>3. /\ Cardinality(Executions) <= Cardinality(registry)
        /\ Cardinality(Executions) \in Nat /\ Cardinality(registry) \in Nat
    BY <2>1, <2>2, FS_Subset, FS_CardinalityType
  <2> QED
    BY <2>3, RegistryAssumption
    DEF RegistryInv, RegistryWithinCapacity, ExecutionsWithinCapacity
<1> HIDE DEF SlotsHeld
<1> QED
  BY <1>1, <1>2, <1>3, WorkInvariant, PTL DEF Spec

=============================================================================
