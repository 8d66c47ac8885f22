--------------------------- MODULE BoundedAccept ----------------------------
(***************************************************************************)
(* The connection cap of a server (ConnectionLimiter, accept_bounded and   *)
(* refuse of src/server/accept_bounded.rs): the accept loop takes peers    *)
(* one by one, admits a peer with a permit of the semaphore or refuses it  *)
(* with a few bytes under a timeout, and an admitted connection's task     *)
(* holds the permit until it ends.  An error of the listener ends the      *)
(* loop, and with it the listener: nobody is answered after that.          *)
(*                                                                         *)
(* Peers may never read and never leave; Connections adds the idle bound   *)
(* that closes an admitted connection whose peer is gone.                  *)
(***************************************************************************)
EXTENDS Naturals, FiniteSets

CONSTANTS Peers,
          Requested   \* the cap the server asks for

ASSUME AcceptAssumption == IsFiniteSet(Peers) /\ Requested \in Nat

VARIABLES listening,  \* the accept loop has not ended
          permits,    \* available permits
          peer,       \* where each peer stands
          deaf        \* peers that do not read their refusal

vars == <<listening, permits, peer, deaf>>

\* ConnectionLimiter::new: a cap of zero is taken for one.
max == IF Requested = 0 THEN 1 ELSE Requested

In(where) == {p \in Peers : peer[p] = where}

TypeOK ==
    /\ listening \in BOOLEAN
    /\ permits \in Nat
    /\ peer \in [Peers -> {"away", "backlog", "accepted", "admitted", "refusing", "refused",
                       "ended"}]
    /\ deaf \subseteq Peers

Init ==
    /\ listening = TRUE
    /\ permits = max
    /\ peer = [p \in Peers |-> "away"]
    /\ deaf = {}

Goes(p, from, to) == peer[p] = from /\ peer' = [peer EXCEPT ![p] = to]

-----------------------------------------------------------------------------
\* A peer connects; it may come back.
connect(p) ==
    /\ listening
    /\ Goes(p, "away", "backlog")
    /\ UNCHANGED <<listening, permits, deaf>>

come_back(p) ==
    /\ Goes(p, "refused", "away") \/ Goes(p, "ended", "away")
    /\ UNCHANGED <<listening, permits, deaf>>

\* listener.accept, one peer at a time, and not while another is refused.
LoopIsFree == In("accepted") = {} /\ In("refusing") = {}
accept(p) ==
    /\ listening /\ LoopIsFree
    /\ Goes(p, "backlog", "accepted")
    /\ UNCHANGED <<listening, permits, deaf>>

\* listener.accept fails: the caller leaves its loop and drops the listener,
\* and the kernel resets whoever is in the backlog.  Connections stay.
listener_fails ==
    /\ listening /\ LoopIsFree
    /\ listening' = FALSE
    /\ peer' = [p \in Peers |-> IF peer[p] = "backlog" THEN "away" ELSE peer[p]]
    /\ UNCHANGED <<permits, deaf>>

\* try_acquire, which never waits; the peer may be one that does not read.
HasSlot == permits > 0
try_acquire(p) ==
    /\ \/ /\ HasSlot
          /\ permits' = permits - 1
          /\ Goes(p, "accepted", "admitted")
          /\ UNCHANGED deaf
       \/ /\ ~HasSlot
          /\ Goes(p, "accepted", "refusing")
          /\ deaf' \in {deaf, deaf \cup {p}}
          /\ UNCHANGED permits
    /\ UNCHANGED listening

\* refuse: the bytes and the shutdown go out, or the timeout ends the wait.
NoTimeout(p) == p \notin deaf
TimeBounded(p) == TRUE
RefusalEnds(p) == TimeBounded(p)
refuse(p) ==
    /\ RefusalEnds(p)
    /\ Goes(p, "refusing", "refused")
    /\ deaf' = deaf \ {p}
    /\ UNCHANGED <<listening, permits>>

\* The connection's task ends, by itself, by the idle bound or by an abort,
\* and drops the permit.
Leaked == permits
Returned == permits + 1
Released == Returned
end_connection(p) ==
    /\ Goes(p, "admitted", "ended")
    /\ permits' = Released
    /\ UNCHANGED <<listening, deaf>>

Next == \/ \E p \in Peers : \/ connect(p) \/ come_back(p)
                            \/ accept(p) \/ try_acquire(p) \/ refuse(p) \/ end_connection(p)
        \/ listener_fails

Spec == Init /\ [][Next]_vars

\* While the listener works the loop runs (its backlog is first come, first
\* served: nobody is left out), and a refusal ends.
LoopFairness ==
    \A p \in Peers : SF_vars(accept(p)) /\ WF_vars(try_acquire(p)) /\ WF_vars(refuse(p))

-----------------------------------------------------------------------------
(***************************************************************************)
(* The permits and the admitted connections always make up the cap: no     *)
(* more than max connections are open, no slot is lost, and in_use is the  *)
(* number of admitted connections.                                         *)
(***************************************************************************)
SlotsConserved == permits + Cardinality(In("admitted")) = max

(***************************************************************************)
(* "Nothing here may block the accept loop": every peer in the backlog is  *)
(* admitted or turned away, however many peers before it fill the cap, do  *)
(* not read their refusal or never leave, unless the listener fails.       *)
(***************************************************************************)
EveryPeerIsAnswered ==
    \A p \in Peers : peer[p] = "backlog" ~> peer[p] \in {"admitted", "refused"} \/ ~listening

(***************************************************************************)
(* The server is never shut by its cap (a requested cap of zero included): *)
(* as long as peers come, a connection is open again and again.            *)
(***************************************************************************)
KeepsAdmitting ==
    ([]<> (In("backlog") # {})) => []<> (In("admitted") # {})

(***************************************************************************)
(* The invariant of the accept loop: its types, and the slots.             *)
(***************************************************************************)
AcceptInv == TypeOK /\ SlotsConserved

(***************************************************************************)
(* The accept loop is never stuck: every peer is answered, and the server  *)
(* keeps admitting.                                                        *)
(***************************************************************************)
KeepsAccepting == EveryPeerIsAnswered /\ KeepsAdmitting
=============================================================================
