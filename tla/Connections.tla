---------------------------- MODULE Connections -----------------------------
(***************************************************************************)
(* The connection cap and the idle bound together                          *)
(* (src/server/accept_bounded.rs, as the servers use it): one peer's       *)
(* connection has a ConnectionActivity and a watchdog, and when that fires *)
(* the server ends the connection's task.  The permit goes back to the     *)
(* limiter with the last task that holds it: a WebSocket connection has a  *)
(* writer task, which may still be sending.  The other peers come, stay    *)
(* and go as they like.                                                    *)
(***************************************************************************)
EXTENDS BoundedAccept

CONSTANTS Watched,   \* the peer that is followed
          Idle,      \* as in IdleWatch
          Handlers

VARIABLES age, inflight, work, watch, probed, looked, link, ping,
          reading     \* the connection's reader has not ended

watchVars == <<age, inflight, work, watch, probed, looked, link, ping>>
allVars == <<vars, watchVars, reading>>

W == INSTANCE IdleWatch WITH peer <- link

ASSUME WatchAssumption == Watched \in Peers /\ W!IdleIsFourTicks

\* The activity is made when the connection is admitted; nothing touches it
\* before.
ConnectionsInit == Init /\ W!Init /\ reading = TRUE

Others == Peers \ {Watched}

\* The accept loop, and the other peers.
limiter_step ==
    /\ \/ \E p \in Peers : \/ connect(p) \/ accept(p)
                           \/ try_acquire(p) \/ refuse(p)
       \/ \E p \in Others : come_back(p) \/ end_connection(p)
       \/ listener_fails
    /\ UNCHANGED <<watchVars, reading>>

\* The watched connection is open: traffic, handlers, watchdog, clock.
IsOpen == peer[Watched] = "admitted" /\ reading
watch_step ==
    /\ IsOpen
    /\ W!Next
    /\ UNCHANGED <<vars, reading>>

\* Its reader ends, with the peer or with the server ...
reader_ends ==
    /\ IsOpen
    /\ reading' = FALSE
    /\ UNCHANGED <<vars, watchVars>>

\* ... and for certain once the watchdog has fired.
KeepsOpen == FALSE
Fired == watch = "fired"
EndsTask == Fired
idle_close == EndsTask /\ reader_ends

\* The last holder of the permit goes: the reader itself (TCP, PostgreSQL), or
\* the writer task it does not wait for longer than five seconds (WebSocket).
\* Activity and watchdog are dropped with the connection.
last_drop ==
    /\ ~reading
    /\ end_connection(Watched)
    /\ W!dropped
    /\ UNCHANGED reading

ConnectionsNext == limiter_step \/ watch_step \/ reader_ends \/ last_drop

\* While the connection is open time passes, the watchdog is polled, and a
\* handler does not stop inside begin_work.
ByWatch(step) == IsOpen /\ step /\ UNCHANGED <<vars, reading>>
WatchFairness ==
    /\ WF_allVars(ByWatch(W!tick)) /\ WF_allVars(ByWatch(W!watchdog))
    /\ \A h \in Handlers : WF_allVars(ByWatch(work[h] = "begun" /\ W!begin_work(h)))
    /\ WF_allVars(idle_close)

\* A write to the peer has no timeout: a handler or a writer task that writes
\* to a peer that is there and does not read may never go on.  To a host that
\* is gone a write ends with an error, when the kernel stops retransmitting.
WritesFail ==
    /\ \A h \in Handlers : WF_allVars(link = "dead" /\ ByWatch(W!end_work(h)))
    /\ WF_allVars(link = "dead" /\ last_drop)

\* No peer owes the server anything: the watched one may vanish or fall
\* silent, the others may stay for ever.
ConnectionsFairness == LoopFairness /\ WatchFairness /\ WritesFail

ConnectionsSpec ==
    ConnectionsInit /\ [][ConnectionsNext]_allVars /\ ConnectionsFairness

-----------------------------------------------------------------------------
(***************************************************************************)
(* A vanished peer gives its slot back: though it never closes or answers, *)
(* and whatever work was begun for it, its connection ends.  (A peer whose *)
(* host is there and that does not read may keep the slot: the task that   *)
(* writes to it holds the permit, and nothing aborts it.)                  *)
(***************************************************************************)
VanishedPeerFreesSlot ==
    (link = "dead" /\ peer[Watched] = "admitted") ~> peer[Watched] = "ended"

(***************************************************************************)
(* A live peer is probed in time (IdleWatch).                              *)
(***************************************************************************)
WatchInv == W!WatchInv

(***************************************************************************)
(* The watchdog fires neither on a connection at work nor, but for the     *)
(* window in end_work, on a live peer (IdleWatch).  Nothing is said of     *)
(* work that begins after it fired and before the connection is closed.    *)
(***************************************************************************)
FiresOnlyWhenIdle == W!FiresOnlyWhenIdle
=============================================================================
