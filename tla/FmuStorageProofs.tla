-------------------------- MODULE FmuStorageProofs --------------------------
(***************************************************************************)
(* The FMU store for any keys, files and number of faults: a quarantine    *)
(* holds, no file is lost, and what a release restores is available.       *)
(***************************************************************************)
EXTENDS FmuStorage, TLAPS

\* A quarantine is recorded in one of two places, on disk if it has to
\* survive; a release has given up the record before it undoes anything
RecordInv ==
  /\ \A k \in heldOnDisk : note[k] # NoReason
  /\ \A k \in held : note[k] # NoReason \/ cache[k] # NoReason
  /\ step \in {"found", "unnote", "forget"} => key \notin held

\* What a release knows about its key at each of its steps
ReleaseInv ==
  /\ step = "found" => vault[key] # NoCopy
  /\ step \in {"unnote", "forget"} /\ moved => root[key] # NoCopy
  /\ step = "forget" => note[key] = NoReason

StorageInv == TypeOK /\ RecordInv /\ ReleaseInv /\ NoCopyIsLost

LEMMA StorageInvInit == Init => StorageInv
<1> SUFFICES ASSUME Init PROVE StorageInv
  OBVIOUS
<1> USE StorageAssumption DEF StorageAssumption, Init
<1>0. 0 \in 0..MaxFaults
  OBVIOUS
<1>1. TypeOK
  BY <1>0 DEF TypeOK
<1>2. RecordInv /\ ReleaseInv /\ NoCopyIsLost
  BY DEF RecordInv, ReleaseInv, NoCopyIsLost
<1> QED
  BY <1>1, <1>2 DEF StorageInv

----------------------------------------------------------------------------
(* One lemma per group of actions                                          *)

LEMMA ProvisionKeepsInv ==
  ASSUME StorageInv, NEW k \in Keys, NEW c \in Copies, Provision(k, c)
  PROVE  StorageInv'
<1> USE StorageAssumption DEF StorageAssumption, StorageInv
<1>1. TypeOK'
  BY DEF TypeOK, Provision, handler
<1>2. RecordInv'
  BY DEF RecordInv, Provision, handler
<1>3. ReleaseInv'
  BY DEF TypeOK, ReleaseInv, Provision, handler
<1>4. NoCopyIsLost'
  BY DEF TypeOK, NoCopyIsLost, Provision, handler
<1> QED
  BY <1>1, <1>2, <1>3, <1>4

LEMMA ReloadKeepsInv ==
  ASSUME StorageInv, LookUp \/ Restart PROVE StorageInv'
<1> USE StorageAssumption DEF StorageAssumption, StorageInv
<1>1. CASE LookUp
  <2>1. TypeOK'
    BY <1>1 DEF TypeOK, LookUp, Loaded, disk, handler, past
  <2>2. RecordInv'
    BY <1>1 DEF TypeOK, RecordInv, LookUp, Loaded, disk, handler, past
  <2>3. ReleaseInv' /\ NoCopyIsLost'
    BY <1>1 DEF ReleaseInv, NoCopyIsLost, LookUp, disk, handler, past
  <2> QED
    BY <2>1, <2>2, <2>3
<1>2. CASE Restart
  <2>1. TypeOK'
    BY <1>2 DEF TypeOK, Restart, Fault, disk
  <2>2. RecordInv'
    BY <1>2 DEF TypeOK, RecordInv, Restart, disk
  <2>3. ReleaseInv' /\ NoCopyIsLost'
    BY <1>2 DEF ReleaseInv, NoCopyIsLost, Restart, disk
  <2> QED
    BY <2>1, <2>2, <2>3
<1> QED
  BY <1>1, <1>2

LEMMA RequestKeepsInv ==
  ASSUME StorageInv, NEW k \in Keys, Request(k) PROVE StorageInv'
<1> USE StorageAssumption DEF StorageAssumption, StorageInv, Indexed, Noted
<1>1. ASSUME NEW r \in Reasons, QuarantineMissing(k, r) PROVE StorageInv'
  <2>1. TypeOK'
    BY <1>1 DEF TypeOK, QuarantineMissing, disk, handler
  <2>2. RecordInv' /\ ReleaseInv' /\ NoCopyIsLost'
    BY <1>1 DEF TypeOK, RecordInv, ReleaseInv, NoCopyIsLost,
                QuarantineMissing, disk, handler
  <2> QED
    BY <2>1, <2>2
<1>2. ASSUME NEW r \in Reasons, BeginQuarantine(k, r) PROVE StorageInv'
  <2>1. TypeOK'
    BY <1>2 DEF TypeOK, BeginQuarantine
  <2>2. RecordInv' /\ ReleaseInv' /\ NoCopyIsLost'
    BY <1>2 DEF TypeOK, RecordInv, ReleaseInv, NoCopyIsLost, BeginQuarantine
  <2> QED
    BY <2>1, <2>2
<1>3. ASSUME NEW r \in Reasons, NoteFails(k, r) PROVE StorageInv'
  <2>1. TypeOK'
    BY <1>3 DEF TypeOK, NoteFails, Fault, handler
  <2>2. RecordInv' /\ ReleaseInv' /\ NoCopyIsLost'
    BY <1>3 DEF TypeOK, RecordInv, ReleaseInv, NoCopyIsLost, NoteFails, handler
  <2> QED
    BY <2>1, <2>2
<1>4. CASE ReleaseMissing(k)
  <2>1. TypeOK'
    BY <1>4 DEF TypeOK, ReleaseMissing, disk, handler
  <2>2. RecordInv' /\ ReleaseInv' /\ NoCopyIsLost'
    BY <1>4 DEF TypeOK, RecordInv, ReleaseInv, NoCopyIsLost,
                ReleaseMissing, disk, handler
  <2> QED
    BY <2>1, <2>2
<1>5. CASE BeginRelease(k)
  <2>1. TypeOK'
    BY <1>5 DEF TypeOK, BeginRelease, disk
  <2>2. RecordInv' /\ ReleaseInv' /\ NoCopyIsLost'
    BY <1>5 DEF TypeOK, RecordInv, ReleaseInv, NoCopyIsLost, BeginRelease, disk
  <2> QED
    BY <2>1, <2>2
<1> QED
  BY <1>1, <1>2, <1>3, <1>4, <1>5 DEF Request

\* A move takes a copy from one place to a free one, or leaves it in both
LEMMA MoveKeepsInv ==
  ASSUME StorageInv, MoveOut \/ MoveOutFails \/ MoveBack \/ MoveBackFails
  PROVE  StorageInv'
<1> USE StorageAssumption DEF StorageAssumption, StorageInv, Free
<1>1. CASE MoveOut
  <2>1. TypeOK'
    BY <1>1 DEF TypeOK, MoveOut, past
  <2>2. RecordInv' /\ ReleaseInv'
    BY <1>1 DEF TypeOK, RecordInv, ReleaseInv, MoveOut, past
  <2>3. NoCopyIsLost'
    BY <1>1 DEF TypeOK, NoCopyIsLost, MoveOut, past
  <2> QED
    BY <2>1, <2>2, <2>3
<1>2. CASE MoveOutFails
  <2>1. TypeOK'
    BY <1>2 DEF TypeOK, MoveOutFails, Fault
  <2>2. RecordInv' /\ ReleaseInv'
    BY <1>2 DEF TypeOK, RecordInv, ReleaseInv, MoveOutFails
  <2>3. NoCopyIsLost'
    BY <1>2 DEF TypeOK, NoCopyIsLost, MoveOutFails
  <2> QED
    BY <2>1, <2>2, <2>3
<1>3. CASE MoveBack
  <2>1. TypeOK'
    BY <1>3 DEF TypeOK, MoveBack, past
  <2>2. RecordInv' /\ ReleaseInv'
    BY <1>3 DEF TypeOK, RecordInv, ReleaseInv, MoveBack, past
  <2>3. NoCopyIsLost'
    BY <1>3 DEF TypeOK, NoCopyIsLost, MoveBack, past
  <2> QED
    BY <2>1, <2>2, <2>3
<1>4. CASE MoveBackFails
  <2>1. TypeOK'
    BY <1>4 DEF TypeOK, MoveBackFails, Fault
  <2>2. RecordInv' /\ ReleaseInv'
    BY <1>4 DEF TypeOK, RecordInv, ReleaseInv, MoveBackFails
  <2>3. NoCopyIsLost'
    BY <1>4 DEF TypeOK, NoCopyIsLost, MoveBackFails
  <2> QED
    BY <2>1, <2>2, <2>3
<1> QED
  BY <1>1, <1>2, <1>3, <1>4

LEMMA IndexKeepsInv ==
  ASSUME StorageInv,
         EndQuarantine \/ RemoveNote \/ RemoveNoteFails \/ EndRelease
  PROVE  StorageInv'
<1> USE StorageAssumption
    DEF StorageAssumption, StorageInv, Indexed, NoteGoes
<1>1. CASE EndQuarantine
  <2>1. TypeOK'
    BY <1>1 DEF TypeOK, EndQuarantine, disk, past
  <2>2. RecordInv' /\ ReleaseInv' /\ NoCopyIsLost'
    BY <1>1 DEF TypeOK, RecordInv, ReleaseInv, NoCopyIsLost, EndQuarantine, disk, past
  <2> QED
    BY <2>1, <2>2
<1>2. CASE RemoveNote
  <2>1. TypeOK'
    BY <1>2 DEF TypeOK, RemoveNote, past
  <2>2. RecordInv' /\ ReleaseInv' /\ NoCopyIsLost'
    BY <1>2 DEF TypeOK, RecordInv, ReleaseInv, NoCopyIsLost, RemoveNote, past
  <2> QED
    BY <2>1, <2>2
<1>3. CASE EndRelease
  <2>1. TypeOK'
    BY <1>3 DEF TypeOK, EndRelease, disk
  <2>2. RecordInv' /\ ReleaseInv' /\ NoCopyIsLost'
    BY <1>3 DEF TypeOK, RecordInv, ReleaseInv, NoCopyIsLost, EndRelease, disk
  <2> QED
    BY <2>1, <2>2
<1>4. CASE RemoveNoteFails
  <2>1. TypeOK'
    BY <1>4 DEF TypeOK, RemoveNoteFails, Fault, disk
  <2>2. RecordInv' /\ ReleaseInv' /\ NoCopyIsLost'
    BY <1>4 DEF RecordInv, ReleaseInv, NoCopyIsLost, RemoveNoteFails, disk
  <2> QED
    BY <2>1, <2>2
<1> QED
  BY <1>1, <1>2, <1>3, <1>4

LEMMA StorageInvStep == StorageInv /\ [Next]_vars => StorageInv'
<1> SUFFICES ASSUME StorageInv, [Next]_vars PROVE StorageInv'
  OBVIOUS
<1>1. ASSUME NEW k \in Keys, Request(k) PROVE StorageInv'
  BY <1>1, RequestKeepsInv
<1>2. CASE Handler
  BY <1>2, MoveKeepsInv, IndexKeepsInv DEF Handler
<1>3. CASE LookUp \/ Restart
  BY <1>3, ReloadKeepsInv
<1>4. ASSUME NEW k \in Keys, NEW c \in Copies, Provision(k, c)
      PROVE StorageInv'
  BY <1>4, ProvisionKeepsInv
<1>5. CASE UNCHANGED vars
  BY <1>5 DEF vars, disk, handler, past, StorageInv, TypeOK, RecordInv,
              ReleaseInv, NoCopyIsLost
<1> QED
  BY <1>1, <1>2, <1>3, <1>4, <1>5 DEF Next

----------------------------------------------------------------------------

\* The inductive invariant of the store.
LEMMA StorageInvariant == Spec => []StorageInv
BY StorageInvInit, StorageInvStep, PTL DEF Spec

\* Every reachable state of the store is well typed.
THEOREM StorageTypeCorrect == Spec => []TypeOK
<1>1. StorageInv => TypeOK
  BY DEF StorageInv
<1> QED
  BY <1>1, StorageInvariant, PTL

\* No look-up finds an FMU that was quarantined and not released, whatever
\* file operation failed and wherever the process died (is_quarantined, fmu_exists).
THEOREM QuarantineIsKept == Spec => []QuarantineHolds
<1>1. StorageInv => QuarantineHolds
  BY StorageAssumption
     DEF StorageAssumption, StorageInv, TypeOK, RecordInv, QuarantineHolds,
         Available, IsQuarantined, Loaded
<1> QED
  BY <1>1, StorageInvariant, PTL

\* The moves of quarantine and unquarantine lose no file and overwrite none.
THEOREM FilesAreKept == Spec => []NoCopyIsLost
<1>1. StorageInv => NoCopyIsLost
  BY DEF StorageInv
<1> QED
  BY <1>1, StorageInvariant, PTL

\* unquarantine returns restored: true only for an FMU that a look-up finds.
THEOREM RestoringWorks == Spec => RestoredIsAvailable
<1>1. StorageInv /\ StorageInv' /\ [Next]_vars
        => [EndRelease /\ moved => Available(key)']_vars
  <2> SUFFICES ASSUME StorageInv, EndRelease, moved
               PROVE  Available(key)'
    OBVIOUS
  <2>1. key \in Keys /\ key' = key
    BY DEF StorageInv, TypeOK, EndRelease
  <2>2. root'[key] # NoCopy /\ note'[key] = NoReason
    BY DEF StorageInv, ReleaseInv, EndRelease, disk
  <2>3. cache'[key] = NoReason
    BY <2>1 DEF StorageInv, TypeOK, EndRelease, Indexed
  <2> QED
    BY <2>1, <2>2, <2>3 DEF Available, IsQuarantined, Loaded
<1> QED
  BY <1>1, StorageInvariant, PTL DEF Spec, RestoredIsAvailable

----------------------------------------------------------------------------
(* What it takes for a release to have no effect                           *)

\* Until a file operation fails or the process dies, a reason file has its FMU beside
\* it or its handler under way, so that a release that finds no FMU in the
\* quarantine directory has no reason file to remove either
NotesInv ==
  faults = 0 =>
    /\ \A k \in Keys : note[k] # NoReason =>
         vault[k] # NoCopy \/ (key = k /\ step \in {"noted", "unnote"})
    /\ step = "noted" => root[key] # NoCopy
    /\ step # "idle" => key \notin released
    /\ \A k \in released : cache[k] = NoReason /\ note[k] = NoReason

LEMMA NotesInvStep == StorageInv /\ NotesInv /\ [Next]_vars => NotesInv'
<1> SUFFICES ASSUME StorageInv, NotesInv, [Next]_vars, faults' = 0
             PROVE  NotesInv'
  BY DEF NotesInv
<1> USE StorageAssumption DEF StorageAssumption, NotesInv, disk, handler, past
<1>1. TypeOK /\ ReleaseInv
  BY DEF StorageInv
<1>2. faults \in Nat /\ ~Fault
  BY <1>1 DEF TypeOK, Fault
<1>3. ASSUME NEW k \in Keys, Request(k) PROVE NotesInv'
  <2>1. ASSUME NEW r \in Reasons, QuarantineMissing(k, r) PROVE NotesInv'
    BY <1>1, <1>2, <2>1 DEF TypeOK, QuarantineMissing, Indexed
  <2>2. ASSUME NEW r \in Reasons, BeginQuarantine(k, r) PROVE NotesInv'
    BY <1>1, <1>2, <2>2 DEF TypeOK, BeginQuarantine, Noted
  <2>3. CASE ReleaseMissing(k)
    BY <1>1, <1>2, <2>3 DEF TypeOK, ReleaseMissing, Indexed
  <2>4. CASE BeginRelease(k)
    BY <1>1, <1>2, <2>4 DEF TypeOK, BeginRelease
  <2> QED
    BY <1>2, <1>3, <2>1, <2>2, <2>3, <2>4 DEF Request, NoteFails
<1>4. CASE Handler
  <2>1. CASE MoveOut
    BY <1>1, <1>2, <2>1 DEF TypeOK, MoveOut, Free
  <2>2. CASE MoveBack
    BY <1>1, <1>2, <2>2 DEF TypeOK, MoveBack, Free
  <2>3. CASE EndQuarantine \/ EndRelease
    BY <1>1, <1>2, <2>3
    DEF TypeOK, ReleaseInv, EndQuarantine, EndRelease, Indexed
  <2>4. CASE RemoveNote
    BY <1>1, <1>2, <2>4 DEF TypeOK, RemoveNote, NoteGoes
  <2> QED
    BY <1>2, <1>4, <2>1, <2>2, <2>3, <2>4
    DEF Handler, MoveOutFails, MoveBackFails, RemoveNoteFails
<1>5. CASE LookUp
  BY <1>1, <1>2, <1>5 DEF TypeOK, LookUp, Loaded
<1>6. ASSUME NEW k \in Keys, NEW c \in Copies, Provision(k, c) PROVE NotesInv'
  BY <1>1, <1>2, <1>6 DEF TypeOK, Provision
<1>7. CASE UNCHANGED vars
  BY <1>7 DEF vars
<1> QED
  BY <1>2, <1>3, <1>4, <1>5, <1>6, <1>7 DEF Next, Restart

\* "Removes an FMU from quarantine": it does, as long as no move, writing or
\* deleting of a reason file has failed and the process has not died
\* (quarantine, unquarantine).  A reason file that one of these leaves without
\* its FMU is the only way to the violation of ReleaseIsEffective.
THEOREM ReleasesWorkWithoutFaults == Spec => [](faults = 0 => ReleaseIsEffective)
<1>1. Init => NotesInv
  BY DEF Init, NotesInv
<1>2. StorageInv /\ NotesInv => (faults = 0 => ReleaseIsEffective)
  BY DEF StorageInv, TypeOK, NotesInv, ReleaseIsEffective, IsQuarantined, Loaded
<1> QED
  BY <1>1, <1>2, NotesInvStep, StorageInvariant, PTL DEF Spec

=============================================================================
