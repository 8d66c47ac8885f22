----------------------------- MODULE IdleWatch ------------------------------
(***************************************************************************)
(* Closing idle connections (src/server/accept_bounded.rs): a              *)
(* ConnectionActivity is touched by what crosses the connection and by the *)
(* handlers that work for it, and a watchdog (watch_idle_with_probe;       *)
(* watch_idle and the TCP server's read_bounded are the same without the   *)
(* probe) reads it and resolves once it has been idle for too long.        *)
(*                                                                         *)
(* The two atomics, `last` and `in_flight`, are read and written one at a  *)
(* time.  Handlers run in tasks of their own, and begin_work asks nobody   *)
(* whether the watchdog has fired.  Time is counted in steps of the        *)
(* watchdog's tick; `last` is represented by its age, which stops counting *)
(* at Idle.  The watchdog looks at least once per tick, a live peer        *)
(* answers a probe within one, and no thread stops for as long as a tick   *)
(* between two accesses.                                                   *)
(***************************************************************************)
EXTENDS Naturals, Sequences

CONSTANTS Idle,      \* the bound, in ticks
          Handlers   \* pieces of work, each done at most once

IdleIsFourTicks == Idle \in Nat /\ Idle >= 4

VARIABLES age,       \* time since `last`
          inflight,  \* in_flight
          work,      \* where each handler stands
          watch,     \* where the watchdog stands
          probed,    \* its flag for the current silent stretch
          looked,    \* it has looked in this tick
          peer,      \* "live", "dead" (vanished without a FIN) or "silent" (its
                     \* host is there; it neither reads nor writes)
          ping       \* a probe is on its way to the peer

vars == <<age, inflight, work, watch, probed, looked, peer, ping>>

TypeOK ==
    /\ age \in 0..Idle
    /\ inflight \in Nat
    /\ work \in [Handlers -> {"none", "begun", "working", "ending", "done"}]
    /\ watch \in {"sleeping", "looking", "fired"}
    /\ probed \in BOOLEAN
    /\ looked \in BOOLEAN
    /\ peer \in {"live", "dead", "silent"}
    /\ ping \in BOOLEAN

Init ==
    /\ age = 0
    /\ inflight = 0
    /\ work = [h \in Handlers |-> "none"]
    /\ watch = "sleeping"
    /\ probed = FALSE
    /\ looked = FALSE
    /\ peer = "live"
    /\ ping = FALSE

-----------------------------------------------------------------------------
\* One access to an atomic.
Do(access) ==
    CASE access = "touch" -> age' = 0 /\ UNCHANGED inflight
      [] access = "raise" -> inflight' = inflight + 1 /\ UNCHANGED age
      [] access = "lower" -> inflight' = inflight - 1 /\ UNCHANGED age

WorkGoes(h, from, to) == work[h] = from /\ work' = [work EXCEPT ![h] = to]

\* begin_work.
RaiseThenTouch == <<"raise", "touch">>
TouchThenRaise == <<"touch", "raise">>
BeginWork == TouchThenRaise

begin_work(h) ==
    /\ \/ WorkGoes(h, "none", "begun") /\ Do(BeginWork[1])
       \/ WorkGoes(h, "begun", "working") /\ Do(BeginWork[2])
    /\ UNCHANGED <<watch, probed, looked, peer, ping>>

\* end_work, from the drop of the BusyGuard on every exit.
EndWork == <<"lower", "touch">>

end_work(h) ==
    /\ \/ WorkGoes(h, "working", "ending") /\ Do(EndWork[1])
       \/ WorkGoes(h, "ending", "done") /\ Do(EndWork[2])
    /\ UNCHANGED <<watch, probed, looked, peer, ping>>

\* Something arrives from the peer, its answer to a probe included; a silent
\* one is back.
touch ==
    /\ peer \in {"live", "silent"}
    /\ peer' = "live"
    /\ age' = 0
    /\ ping' = FALSE
    /\ UNCHANGED <<inflight, work, watch, probed, looked>>

vanish ==
    /\ peer = "live"
    /\ peer' \in {"dead", "silent"}
    /\ UNCHANGED <<age, inflight, work, watch, probed, looked, ping>>

\* The last handle on the activity goes, and with it what it recorded.
dropped ==
    /\ age' = 0 /\ inflight' = 0
    /\ work' = [h \in Handlers |-> "none"]
    /\ watch' = "sleeping"
    /\ probed' = FALSE /\ looked' = FALSE /\ ping' = FALSE
    /\ peer' = "live"

-----------------------------------------------------------------------------
\* The watchdog wakes up: idle_for loads in_flight ...
look ==
    /\ watch = "sleeping" /\ ~looked
    /\ IF inflight > 0
         THEN probed' = FALSE /\ looked' = TRUE /\ UNCHANGED watch
         ELSE watch' = "looking" /\ UNCHANGED <<probed, looked>>
    /\ UNCHANGED <<age, inflight, work, peer, ping>>

\* ... and then `last`: long idle, half idle (probe once), or heard from, and
\* the next silent stretch gets its own probe.
StaysProbed == probed
NewStretch == FALSE
HeardFrom == NewStretch
judge ==
    /\ watch = "looking"
    /\ looked' = TRUE
    /\ \/ /\ age >= Idle
          /\ watch' = "fired"
          /\ UNCHANGED <<probed, ping>>
       \/ /\ age < Idle /\ age >= Idle \div 2
          /\ watch' = "sleeping"
          /\ probed' = TRUE
          /\ ping' = (ping \/ ~probed)
       \/ /\ age < Idle \div 2
          /\ watch' = "sleeping"
          /\ probed' = HeardFrom
          /\ UNCHANGED ping
    /\ UNCHANGED <<age, inflight, work, peer>>

\* Time passes.
AtMost(n, m) == IF n < m THEN n ELSE m
tick ==
    /\ looked
    /\ ~(ping /\ peer = "live")
    /\ \A h \in Handlers : work[h] \notin {"begun", "ending"}
    /\ looked' = FALSE
    /\ age' = AtMost(age + 1, Idle)
    /\ UNCHANGED <<inflight, work, watch, probed, peer, ping>>

watchdog == look \/ judge

Next == \/ \E h \in Handlers : begin_work(h) \/ end_work(h)
        \/ touch \/ vanish \/ watchdog \/ tick

Spec == Init /\ [][Next]_vars

-----------------------------------------------------------------------------
(***************************************************************************)
(* "A live-but-silent client is never closed": a connection that does no   *)
(* work hears from its live peer in time, because every silent stretch     *)
(* gets its probe at half of the bound, whatever was left over from the    *)
(* stretch before it.  (A handler between the two accesses of end_work is  *)
(* still to touch the clock.)                                              *)
(***************************************************************************)
LivePeerIsHeard ==
    (peer = "live" /\ inflight = 0 /\ \A h \in Handlers : work[h] # "ending")
       => age <= Idle \div 2

(***************************************************************************)
(* The watchdog fires on a connection that does no work, although it reads *)
(* the counter before the clock and work may begin between the two; and on *)
(* a live peer only in one window: while a handler stands between the two  *)
(* accesses of end_work the connection is no longer busy and not yet heard *)
(* from, and the whole time of the work is taken for silence.              *)
(***************************************************************************)
FiresOnlyWhenIdle ==
    [][watch # "fired" /\ watch' = "fired" =>
          /\ \A h \in Handlers : work[h] \notin {"begun", "working"}
          /\ peer = "live" => \E h \in Handlers : work[h] = "ending"]_vars

(***************************************************************************)
(* The invariant of the watchdog: its types, and the probe that keeps a    *)
(* live peer.                                                              *)
(***************************************************************************)
WatchInv == TypeOK /\ LivePeerIsHeard
=============================================================================
