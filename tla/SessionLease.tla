---------------------------- MODULE SessionLease ----------------------------
(***************************************************************************)
(* What the FMU executor promises about a realtime session, whatever its   *)
(* registry does inside: a lease that one connection holds at a time.      *)
(*                                                                         *)
(* A session is opened once.  While it is held or in its grace period a    *)
(* live connection may take it over; it falls back to its grace period     *)
(* only when the link of the connection that holds it is down; once gone   *)
(* it is gone for good.  No connection holds two sessions.                 *)
(*                                                                         *)
(* Several leases may change in one step (a sweep, a shutdown), so the     *)
(* next-state relation is the life cycle of each session and each link.    *)
(***************************************************************************)
CONSTANTS Sessions, Conns, NoConn

VARIABLES
  lease,   \* where each session is in its life
  holder,  \* the connection that holds it
  link     \* whether the connection's client is still there

lvars == <<lease, holder, link>>

LeaseTypeOK ==
  /\ lease \in [Sessions -> {"none", "held", "grace", "gone"}]
  /\ holder \in [Sessions -> Conns \cup {NoConn}]
  /\ link \in [Conns -> BOOLEAN]

Init ==
  /\ lease = [s \in Sessions |-> "none"]
  /\ holder = [s \in Sessions |-> NoConn]
  /\ link = [c \in Conns |-> FALSE]

Keep(s) == lease'[s] = lease[s] /\ holder'[s] = holder[s]

\* A connection with a live link comes to hold s, and held no other session
Hold(s) ==
  /\ lease'[s] = "held"
  /\ holder'[s] \in Conns
  /\ link[holder'[s]]
  /\ \A t \in Sessions \ {s} : holder[t] # holder'[s]

Open(s) == lease[s] = "none" /\ Hold(s)

Take(s) == lease[s] \in {"held", "grace"} /\ Hold(s)

Drop(s) ==
  /\ lease[s] = "held"
  /\ ~link[holder[s]]
  /\ lease'[s] = "grace"
  /\ holder'[s] = NoConn

Close(s) == lease'[s] = "gone" /\ holder'[s] = NoConn

\* A connection's place is reused only when it holds nothing any more
LinkStep(c) ==
  (~link[c] /\ link'[c]) => \A s \in Sessions : holder[s] # c

Next ==
  /\ \A s \in Sessions : Keep(s) \/ Open(s) \/ Take(s) \/ Drop(s) \/ Close(s)
  /\ \A c \in Conns : LinkStep(c)
  /\ lease' \in [Sessions -> {"none", "held", "grace", "gone"}]
  /\ holder' \in [Sessions -> Conns \cup {NoConn}]
  /\ link' \in [Conns -> BOOLEAN]

Spec == Init /\ [][Next]_lvars

=============================================================================
