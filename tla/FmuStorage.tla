----------------------------- MODULE FmuStorage -----------------------------
(***************************************************************************)
(* The FMU store of the executor (fmu-executor/app/fmu_storage.py): files  *)
(* provisioned under FMU_ROOT, a quarantine directory beside them with one *)
(* reason file per FMU, and an in-memory index of what is quarantined.     *)
(*                                                                         *)
(* A handler runs to its end without another one between its steps (none   *)
(* of them awaits); the process may die between any two of them, a move    *)
(* and the writing and deleting of a reason file may fail, which ends the  *)
(* handler, and the operator provisions files between any two of them.     *)
(* A look for an existing target and the move that follows are one step.   *)
(***************************************************************************)
EXTENDS Integers, FiniteSets

CONSTANTS
  Keys,       \* access keys, each of one file or one-FMU directory
  Copies,     \* FMU files the operator provisions, each one once
  NoCopy,
  Reasons,
  NoReason,
  MaxFaults   \* bound: deaths of the process and failing file operations

ASSUME StorageAssumption ==
  /\ NoCopy \notin Copies
  /\ NoReason \notin Reasons
  /\ MaxFaults \in Nat

VARIABLES
  \* on disk
  root,       \* the FMU at a key in FMU_ROOT
  vault,      \* ... in .quarantine
  note,       \* the reason file beside it
  \* in the process
  cache,      \* _quarantine_cache
  step,       \* how far the handler under way has come
  key,        \* ... and its access key
  why,        \* ... and its reason
  moved,      \* ... and whether it restored the FMU
  \* history
  used,       \* copies provisioned so far
  held,       \* keys quarantined and not released since
  heldOnDisk, \* ... with a reason file
  released,   \* keys whose last request was a release that returned
  faults

disk == <<root, vault, note>>
handler == <<step, key, why, moved>>
past == <<used, held, heldOnDisk, released, faults>>
vars == <<disk, cache, handler, past>>

TypeOK ==
  /\ root \in [Keys -> Copies \cup {NoCopy}]
  /\ vault \in [Keys -> Copies \cup {NoCopy}]
  /\ note \in [Keys -> Reasons \cup {NoReason}]
  /\ cache \in [Keys -> Reasons \cup {NoReason}]
  /\ step \in {"idle", "noted", "cache", "found", "unnote", "forget"}
  /\ key \in Keys
  /\ why \in Reasons
  /\ moved \in BOOLEAN
  /\ used \subseteq Copies
  /\ heldOnDisk \subseteq held /\ held \subseteq Keys
  /\ released \subseteq Keys
  /\ faults \in 0..MaxFaults

Init ==
  /\ root = [k \in Keys |-> NoCopy]
  /\ vault = [k \in Keys |-> NoCopy]
  /\ note = [k \in Keys |-> NoReason]
  /\ cache = [k \in Keys |-> NoReason]
  /\ step = "idle" /\ key \in Keys /\ why \in Reasons /\ moved = FALSE
  /\ used = {} /\ held = {} /\ heldOnDisk = {} /\ released = {}
  /\ faults = 0

----------------------------------------------------------------------------
(* Look-ups                                                                *)

\* _load_quarantine_cache: reason files the index does not know
Loaded == [k \in Keys |-> IF cache[k] = NoReason THEN note[k] ELSE cache[k]]

\* is_quarantined, the index loaded first
IsQuarantined(k) == Loaded[k] # NoReason

\* fmu_exists
Available(k) == root[k] # NoCopy /\ ~IsQuarantined(k)

\* Any request that reads the catalogue or the quarantine list
LookUp ==
  /\ step = "idle"
  /\ cache' = Loaded
  /\ UNCHANGED <<disk, handler, past>>

----------------------------------------------------------------------------
(* The environment                                                         *)

\* The operator puts an FMU where there is none
Provision(k, c) ==
  /\ root[k] = NoCopy /\ c \notin used
  /\ root' = [root EXCEPT ![k] = c]
  /\ used' = used \cup {c}
  /\ UNCHANGED <<vault, note, cache, handler, held, heldOnDisk, released, faults>>

Fault == faults < MaxFaults /\ faults' = faults + 1

\* The process dies and is started again
Restart ==
  /\ Fault
  /\ cache' = [k \in Keys |-> NoReason]
  /\ step' = "idle"
  /\ held' = heldOnDisk
  /\ UNCHANGED <<disk, key, why, moved, used, heldOnDisk, released>>

----------------------------------------------------------------------------
(* quarantine                                                              *)

\* Faulty variant: the entry is dropped where it should be set
DroppedFromIndex(k, r) == cache' = [x \in Keys \ {k} |-> cache[x]]

Indexed(k, r) == cache' = [cache EXCEPT ![k] = r]

\* Nothing to move: the index alone knows of it
QuarantineMissing(k, r) ==
  /\ step = "idle" /\ root[k] = NoCopy
  /\ Indexed(k, r)
  /\ held' = held \cup {k}
  /\ released' = released \ {k}
  /\ UNCHANGED <<disk, handler, used, heldOnDisk, faults>>

\* Faulty variant: the quarantine is kept in the index alone
NotNoted(k, r) == note' = note

\* The reason file is written first
Noted(k, r) == note' = [note EXCEPT ![k] = r]

\* ... which may fail with the file created or not: the request is refused
NoteFails(k, r) ==
  /\ step = "idle" /\ root[k] # NoCopy
  /\ Fault
  /\ UNCHANGED note \/ note' = [note EXCEPT ![k] = r]
  /\ released' = released \ {k}
  /\ UNCHANGED <<root, vault, cache, handler, used, held, heldOnDisk>>

BeginQuarantine(k, r) ==
  /\ step = "idle" /\ root[k] # NoCopy
  /\ Noted(k, r)
  /\ step' = "noted" /\ key' = k /\ why' = r
  /\ held' = held \cup {k}
  /\ heldOnDisk' = heldOnDisk \cup {k}
  /\ released' = released \ {k}
  /\ UNCHANGED <<root, vault, cache, moved, used, faults>>

\* Faulty variant: an FMU is moved over one that is there already
FreeOrNot(place) == TRUE

Free(place) == place[key] = NoCopy

\* shutil.move, unless the vault holds an FMU of this key already
MoveOut ==
  /\ step = "noted"
  /\ step' = "cache"
  /\ IF Free(vault)
       THEN /\ vault' = [vault EXCEPT ![key] = root[key]]
            /\ root' = [root EXCEPT ![key] = NoCopy]
       ELSE UNCHANGED <<root, vault>>
  /\ UNCHANGED <<note, cache, key, why, moved, past>>

\* ... or fails: it renames, else copies and cannot delete an FMU in use
MoveOutFails ==
  /\ step = "noted" /\ Free(vault)
  /\ Fault
  /\ step' = "idle"
  /\ vault' \in {vault, [vault EXCEPT ![key] = root[key]]}
  /\ UNCHANGED <<root, note, cache, key, why, moved, used, held, heldOnDisk, released>>

EndQuarantine ==
  /\ step = "cache"
  /\ Indexed(key, why)
  /\ step' = "idle"
  /\ UNCHANGED <<disk, key, why, moved, past>>

----------------------------------------------------------------------------
(* unquarantine                                                            *)

\* Nothing in the vault: the index forgets it
ReleaseMissing(k) ==
  /\ step = "idle" /\ vault[k] = NoCopy
  /\ Indexed(k, NoReason)
  /\ held' = held \ {k} /\ heldOnDisk' = heldOnDisk \ {k}
  /\ released' = released \cup {k}
  /\ UNCHANGED <<disk, handler, used, faults>>

BeginRelease(k) ==
  /\ step = "idle" /\ vault[k] # NoCopy
  /\ step' = "found" /\ key' = k
  /\ held' = held \ {k} /\ heldOnDisk' = heldOnDisk \ {k}
  /\ released' = released \ {k}
  /\ UNCHANGED <<disk, cache, why, moved, used, faults>>

\* The FMU goes back, unless the operator has put another one there
MoveBack ==
  /\ step = "found"
  /\ step' = "unnote"
  /\ moved' = Free(root)
  /\ IF Free(root)
       THEN /\ root' = [root EXCEPT ![key] = vault[key]]
            /\ vault' = [vault EXCEPT ![key] = NoCopy]
       ELSE UNCHANGED <<root, vault>>
  /\ UNCHANGED <<note, cache, key, why, past>>

MoveBackFails ==
  /\ step = "found" /\ Free(root)
  /\ Fault
  /\ step' = "idle"
  /\ root' \in {root, [root EXCEPT ![key] = vault[key]]}
  /\ UNCHANGED <<vault, note, cache, key, why, moved, used, held, heldOnDisk, released>>

\* Faulty variant: the reason file is left behind
NoteStays == note

NoteGoes == [note EXCEPT ![key] = NoReason]

RemoveNote ==
  /\ step = "unnote"
  /\ step' = "forget"
  /\ note' = NoteGoes
  /\ UNCHANGED <<root, vault, cache, key, why, moved, past>>

\* The FMU is back, and its reason file cannot be deleted
RemoveNoteFails ==
  /\ step = "unnote" /\ note[key] # NoReason
  /\ Fault
  /\ step' = "idle"
  /\ UNCHANGED <<disk, cache, key, why, moved, used, held, heldOnDisk, released>>

EndRelease ==
  /\ step = "forget"
  /\ step' = "idle"
  /\ Indexed(key, NoReason)
  /\ released' = released \cup {key}
  /\ UNCHANGED <<disk, key, why, moved, used, held, heldOnDisk, faults>>

----------------------------------------------------------------------------

Handler ==
  \/ MoveOut \/ MoveOutFails \/ EndQuarantine
  \/ MoveBack \/ MoveBackFails
  \/ RemoveNote \/ RemoveNoteFails \/ EndRelease

Request(k) ==
  \/ \E r \in Reasons : \/ QuarantineMissing(k, r)
                        \/ BeginQuarantine(k, r)
                        \/ NoteFails(k, r)
  \/ ReleaseMissing(k)
  \/ BeginRelease(k)

Next ==
  \/ \E k \in Keys : Request(k)
  \/ Handler
  \/ LookUp
  \/ \E k \in Keys, c \in Copies : Provision(k, c)
  \/ Restart

Spec == Init /\ [][Next]_vars

----------------------------------------------------------------------------
(* Properties                                                              *)

\* A quarantined FMU cannot be described or run until it is released, also
\* when the process died halfway, a file operation failed, or a new file of the
\* same key was provisioned.  (One that was missing is held until a restart.)
QuarantineHolds == \A k \in held : ~Available(k)

\* No FMU the operator provisioned disappears, whatever move fails.
NoCopyIsLost ==
  \A c \in used : \E k \in Keys : c \in {root[k], vault[k]}

\* A release that reports restored: true has made the FMU available.
RestoredIsAvailable ==
  [][EndRelease /\ moved => Available(key)']_vars

\* "Removes an FMU from quarantine": no release that returned leaves its FMU
\* quarantined.
ReleaseIsEffective == \A k \in released : ~IsQuarantined(k)

=============================================================================
