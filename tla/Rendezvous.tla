----------------------------- MODULE Rendezvous -----------------------------
(***************************************************************************)
(* What a question with one answer and a deadline promises, whoever        *)
(* implements it: a protocol server asks, someone may answer, and the      *)
(* answerer is told whether the answer was accepted.                       *)
(*                                                                         *)
(* An answer is acknowledged at most while the asker still listens, and    *)
(* received only if acknowledged; an asker whose answer was acknowledged   *)
(* in time neither gives up nor is refused.  Between the moment the        *)
(* deadline fires ("late") and the moment the asker stops listening an     *)
(* answer may still be acknowledged, and is lost.                          *)
(***************************************************************************)
CONSTANT Requests

VARIABLES asker,        \* where each asker stands
          acknowledged  \* requests whose answerer was told Ok

vars == <<asker, acknowledged>>

Init == /\ asker = [r \in Requests |-> "idle"]
        /\ acknowledged = {}

Goes(r, from, to) == asker[r] = from /\ asker' = [asker EXCEPT ![r] = to]

Ask(r) == Goes(r, "idle", "open") /\ UNCHANGED acknowledged

Acknowledge(r) == /\ asker[r] \in {"open", "late"}
                  /\ r \notin acknowledged
                  /\ acknowledged' = acknowledged \cup {r}
                  /\ UNCHANGED asker

Receive(r) == /\ r \in acknowledged
              /\ Goes(r, "open", "answered")
              /\ UNCHANGED acknowledged

Refuse(r) == /\ r \notin acknowledged
             /\ Goes(r, "open", "refused")
             /\ UNCHANGED acknowledged

Elapse(r) == /\ r \notin acknowledged
             /\ Goes(r, "open", "late")
             /\ UNCHANGED acknowledged

GiveUp(r) == Goes(r, "late", "gone") /\ UNCHANGED acknowledged

\* The asker's own task is cancelled.
Abandon(r) == Goes(r, "open", "gone") /\ UNCHANGED acknowledged

Next == \E r \in Requests : \/ Ask(r) \/ Acknowledge(r) \/ Receive(r) \/ Refuse(r)
                            \/ Elapse(r) \/ GiveUp(r) \/ Abandon(r)

Spec == Init /\ [][Next]_vars
=============================================================================
