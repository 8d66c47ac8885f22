--------------------------- MODULE TcpConnection ----------------------------
(***************************************************************************)
(* One connection of the TCP server (src/server/tcp/mod.rs, whose shape    *)
(* the other stream servers copy): the reader hands every read to a task   *)
(* of its own, and the tasks share the connection's entry, a state (Idle,  *)
(* Processing, Accumulating) and a queue of bytes.  A task that finds the  *)
(* connection Processing queues its read; any other takes what is next,    *)
(* asks the model, and goes on until nothing is queued.                    *)
(*                                                                         *)
(* The entry is behind a mutex that is taken anew for each access, so each *)
(* locked section is a step.  The write half is behind another, held       *)
(* across write_all and flush, which end when the peer reads or the        *)
(* connection breaks and have no timeout; a close waits for it.            *)
(*                                                                         *)
(* A read counts as one unit of the queue's bound.  The stop of the        *)
(* server, which aborts every task, is in ServerLifecycle, the idle bound  *)
(* in IdleWatch, the worker that writes the operator's commands through    *)
(* the same write half in PeerCommands.                                    *)
(***************************************************************************)
EXTENDS Naturals, Sequences, FiniteSets, SequencesExt

CONSTANTS LastRead,   \* bound: tasks, for reads and for the connect event
          MaxQueued   \* MAX_QUEUED_BYTES

ASSUME TcpAssumption == LastRead \in Nat /\ MaxQueued \in Nat

Reads == 1..LastRead
Tasks == 0..LastRead   \* task 0 answers the connect event

VARIABLES state,      \* ConnectionData.state, or "gone" from the map
          queued,     \* queued_data
          chunks,     \* queued_chunks
          reader,     \* the reader task
          sent,       \* reads so far
          at,         \* where each task stands
          data,       \* all_data of each task
          batching,   \* the server's setting as the task read it
          answered    \* reads the model has answered

vars == <<state, queued, chunks, reader, sent, at, data, batching, answered>>

Closing == {"shutting", "removing", "opening_closed"}
Working == {"entering", "calling", "writing", "sending", "holding", "rejoining", "checking",
            "taking", "idling"}
Greeting == {"greeting", "writing_greeting", "sending_greeting", "opening", "handing"}

TypeOK ==
    /\ state \in {"gone", "idle", "processing", "accumulating"}
    /\ queued \in Seq(Reads) /\ chunks \in Seq(Nat \ {0})
    /\ reader \in {"waiting", "reading", "ended"}
    /\ sent \in 0..LastRead
    /\ at \in [Tasks -> {"unborn", "new", "queueing", "merging", "merging_held",
                         "dropping", "done"} \cup Working \cup Greeting \cup Closing]
    /\ data \in [Tasks -> Seq(Reads)]
    /\ batching \in [Tasks -> BOOLEAN]
    /\ answered \subseteq Reads

\* The accept loop registers the connection before it spawns a task; a
\* send_first server starts it Processing, with the connect event on its way.
Init ==
    /\ \E send_first \in BOOLEAN :
          /\ state = IF send_first THEN "processing" ELSE "idle"
          /\ reader = IF send_first THEN "waiting" ELSE "reading"
          /\ at = [t \in Tasks |-> IF t = 0 /\ send_first THEN "greeting" ELSE "unborn"]
    /\ queued = <<>> /\ chunks = <<>>
    /\ sent = 0
    /\ data = [t \in Tasks |-> <<>>]
    /\ batching = [t \in Tasks |-> FALSE]
    /\ answered = {}

Goes(t, to) == at' = [at EXCEPT ![t] = to]
Carries(t, reads) == data' = [data EXCEPT ![t] = reads]

\* A locked section of task t that needs the entry; a task that does not find
\* it returns.
Locked(t, section) ==
    \/ state # "gone" /\ section
    \/ /\ state = "gone"
       /\ Goes(t, "done") /\ Carries(t, <<>>)
       /\ UNCHANGED <<state, queued, chunks>>

RemoveEntry == state' = "gone" /\ queued' = <<>> /\ chunks' = <<>>

-----------------------------------------------------------------------------
\* The entry's methods.
SetQueue(s) == queued' = s /\ chunks' = IF s = <<>> THEN <<>> ELSE <<Len(s)>>

Pushed(d) == queued \o d
PushedChunks(d) == IF d = <<>> THEN chunks ELSE Append(chunks, Len(d))

\* take_next: all that is queued, or the oldest read.
NextLen(s, c, all) == IF all \/ Len(c) <= 1 THEN Len(s) ELSE c[1]
Rest(s, n) == SubSeq(s, n + 1, Len(s))

take_next(t, s, c, all) ==
    LET n == NextLen(s, c, all)
    IN  /\ Carries(t, SubSeq(s, 1, n))
        /\ queued' = Rest(s, n)
        /\ chunks' = IF all \/ Len(c) <= 1 THEN <<>> ELSE Tail(c)

-----------------------------------------------------------------------------
\* The reader: a read goes to a new task; at the end of the stream, an error
\* or the idle bound it removes the entry.
TasksSoFar == IF at[0] = "unborn" THEN sent ELSE sent + 1
read ==
    /\ reader = "reading" /\ TasksSoFar < LastRead
    /\ sent' = sent + 1
    /\ at' = [at EXCEPT ![sent + 1] = "new"]
    /\ data' = [data EXCEPT ![sent + 1] = <<sent + 1>>]
    /\ UNCHANGED <<state, queued, chunks, reader, batching, answered>>

end_of_stream ==
    /\ reader = "reading"
    /\ reader' = "ended"
    /\ RemoveEntry
    /\ UNCHANGED <<sent, at, data, batching, answered>>

-----------------------------------------------------------------------------
\* handle_data_with_actions: the settings and the state, ...
check_state(t) ==
    /\ at[t] = "new"
    /\ Locked(t, /\ Goes(t, CASE state = "processing"   -> "queueing"
                              [] state = "accumulating" -> "merging_held"
                              [] state = "idle"         -> "merging")
                 /\ UNCHANGED <<state, queued, chunks, data>>)
    /\ \E b \in BOOLEAN :
          batching' = [batching EXCEPT ![t] = b /\ at'[t] \in {"merging", "merging_held"}]
    /\ UNCHANGED <<reader, sent, answered>>

\* ... and later, under another lock: queue the read, up to the bound, ...
Overflows(s) == Len(s) > MaxQueued
queue_data(t) ==
    /\ at[t] = "queueing"
    /\ Locked(t, /\ queued' = Pushed(data[t]) /\ chunks' = PushedChunks(data[t])
                 /\ Goes(t, IF Overflows(queued') THEN "shutting" ELSE "done")
                 /\ Carries(t, <<>>)
                 /\ UNCHANGED state)
    /\ UNCHANGED <<reader, sent, batching, answered>>

\* ... or merge it with what is queued and take what comes next.
merge(t) ==
    /\ at[t] \in {"merging", "merging_held"}
    /\ Locked(t, /\ state' = "processing"
                 /\ take_next(t, Pushed(data[t]), PushedChunks(data[t]),
                              batching[t] \/ at[t] = "merging_held")
                 /\ Goes(t, "entering"))
    /\ UNCHANGED <<reader, sent, batching, answered>>

\* The loop: the entry is looked up for its memory and write half ...
enter(t) ==
    /\ at[t] = "entering"
    /\ Locked(t, Goes(t, "calling") /\ UNCHANGED <<state, queued, chunks, data>>)
    /\ UNCHANGED <<reader, sent, batching, answered>>

\* ... and the model is asked.  It answers, asking for more, hanging up or
\* neither, ...
answer(t) ==
    \/ Goes(t, "holding") /\ UNCHANGED <<answered, data>>
    \/ /\ at' \in {[at EXCEPT ![t] = "checking"], [at EXCEPT ![t] = "dropping"]}
       /\ answered' = answered \cup ToSet(data[t])
       /\ Carries(t, <<>>)

\* ... after the bytes of the answer, if it has any, are written; or the call
\* fails.
call_llm(t) ==
    /\ at[t] = "calling"
    /\ \/ answer(t)
       \/ Goes(t, "writing") /\ UNCHANGED <<answered, data>>
       \/ Goes(t, "shutting") /\ UNCHANGED <<answered, data>>
    /\ UNCHANGED <<state, queued, chunks, reader, sent, batching>>

\* The write half: nobody has it while it is free.
WriteHalfFree == \A u \in Tasks : at[u] \notin {"sending", "sending_greeting"}

lock_write(t) ==
    /\ WriteHalfFree
    /\ \/ at[t] = "writing" /\ Goes(t, "sending")
       \/ at[t] = "writing_greeting" /\ Goes(t, "sending_greeting")
    /\ UNCHANGED <<state, queued, chunks, reader, sent, data, batching, answered>>

\* write_all and flush return: the peer has read, or the connection broke (the
\* error is logged).  What else the answer asks for comes next.
write(t) ==
    /\ at[t] = "sending"
    /\ answer(t)
    /\ UNCHANGED <<state, queued, chunks, reader, sent, batching>>

\* wait_for_more: the payload goes back to the head of the queue.  What has
\* arrived meanwhile is the more it asked for: another lock, another round.
Fragment(t) == data[t] \o queued
FragmentDropped(t) == queued
Held(t) == Fragment(t)

AnythingHeld(t) == Held(t) # <<>>
ArrivedDuringCall(t) == queued # <<>>
GoesRound(t) == ArrivedDuringCall(t)

hold(t) ==
    /\ at[t] = "holding"
    /\ Locked(t, /\ SetQueue(Held(t))
                 /\ Carries(t, <<>>)
                 /\ state' = "accumulating"
                 /\ Goes(t, IF Overflows(Held(t)) THEN "shutting"
                            ELSE IF GoesRound(t) THEN "rejoining" ELSE "done"))
    /\ UNCHANGED <<reader, sent, batching, answered>>

rejoin(t) ==
    /\ at[t] = "rejoining"
    /\ Locked(t, /\ state' = "processing"
                 /\ take_next(t, queued, chunks, TRUE)
                 /\ Goes(t, "entering"))
    /\ UNCHANGED <<reader, sent, batching, answered>>

\* Anything queued?  Three locked sections: look, take, go Idle.
check_queued(t) ==
    /\ at[t] = "checking"
    /\ Goes(t, IF state # "gone" /\ queued # <<>> THEN "taking" ELSE "idling")
    /\ UNCHANGED <<state, queued, chunks, reader, sent, data, batching, answered>>

take_queued(t) ==
    /\ at[t] = "taking"
    /\ Locked(t, /\ take_next(t, queued, chunks, batching[t])
                 /\ Goes(t, IF data'[t] = <<>> THEN "idling" ELSE "entering")
                 /\ UNCHANGED state)
    /\ UNCHANGED <<reader, sent, batching, answered>>

go_idle(t) ==
    /\ at[t] = "idling"
    /\ Locked(t, state' = "idle" /\ Goes(t, "done") /\ UNCHANGED <<queued, chunks, data>>)
    /\ UNCHANGED <<reader, sent, batching, answered>>

\* The model hung up: the entry goes, nothing else.
model_close(t) ==
    /\ at[t] = "dropping"
    /\ RemoveEntry
    /\ Goes(t, "done")
    /\ UNCHANGED <<reader, sent, data, batching, answered>>

\* A failed call, an overflow and a connect event that ends the connection:
\* FIN, for which the write half must be free, and then the entry goes.
shutdown(t) ==
    /\ at[t] = "shutting" /\ WriteHalfFree
    /\ Goes(t, "removing")
    /\ UNCHANGED <<state, queued, chunks, reader, sent, data, batching, answered>>

remove(t) ==
    /\ at[t] = "removing"
    /\ RemoveEntry
    /\ Goes(t, IF t = 0 /\ reader = "waiting" THEN "opening_closed" ELSE "done")
    /\ Carries(t, <<>>)
    /\ UNCHANGED <<reader, sent, batching, answered>>

-----------------------------------------------------------------------------
\* handle_connection_opened.  The greeting goes out, or the connection is
\* closed; then the reader is let go, and what it queued is handed over.
greet ==
    /\ at[0] = "greeting"
    /\ Goes(0, "writing_greeting") \/ Goes(0, "opening") \/ Goes(0, "shutting")
    /\ UNCHANGED <<state, queued, chunks, reader, sent, data, batching, answered>>

write_greeting ==
    /\ at[0] = "sending_greeting"
    /\ Goes(0, "opening") \/ Goes(0, "shutting")
    /\ UNCHANGED <<state, queued, chunks, reader, sent, data, batching, answered>>

opened ==
    /\ at[0] \in {"opening", "opening_closed"}
    /\ reader' = "reading"
    /\ Goes(0, IF at[0] = "opening" THEN "handing" ELSE "done")
    /\ UNCHANGED <<state, queued, chunks, sent, data, batching, answered>>

hand_over ==
    /\ at[0] = "handing"
    /\ Locked(0, /\ state' = "idle"
                 /\ Goes(0, IF queued = <<>> THEN "done" ELSE "new")
                 /\ UNCHANGED <<queued, chunks, data>>)
    /\ UNCHANGED <<reader, sent, batching, answered>>

connect_step == greet \/ opened \/ hand_over

task_step(t) ==
    \/ check_state(t) \/ queue_data(t) \/ merge(t) \/ enter(t) \/ call_llm(t)
    \/ lock_write(t) \/ hold(t) \/ rejoin(t) \/ check_queued(t) \/ take_queued(t) \/ go_idle(t)
    \/ model_close(t) \/ shutdown(t) \/ remove(t)

Next ==
    \/ read \/ end_of_stream \/ connect_step \/ write_greeting
    \/ \E t \in Tasks : task_step(t) \/ write(t)

Spec == Init /\ [][Next]_vars

\* Tasks run and the model's calls return.  That a peer reads what is written
\* to it is not assumed: nothing bounds a write.
Fairness == WF_vars(connect_step) /\ \A t \in Tasks : WF_vars(task_step(t))

FairSpec == Spec /\ Fairness

-----------------------------------------------------------------------------
(***************************************************************************)
(* A connection never wedges: while its state is Processing, so that every *)
(* read is only queued, some task is at work that will take the queue or   *)
(* reset the state (or close the connection).  Several tasks write the     *)
(* state, each under locks it gives up in between.                         *)
(***************************************************************************)
ProcessingIsBacked ==
    state = "processing" =>
        \E t \in Tasks : at[t] \in Working \cup Greeting \cup Closing \cup {"dropping"}

(***************************************************************************)
(* No byte is shown to the model twice or lost: while the connection is    *)
(* there, every read is in one place, with a task, in the queue or         *)
(* answered.  Both mistakes were made here before ("re-sent the SAME       *)
(* bytes", "dropping them was the one thing that could not be right").     *)
(***************************************************************************)
Places(r) ==
    Cardinality({t \in Tasks : Contains(data[t], r)})
      + Cardinality({i \in DOMAIN queued : queued[i] = r})
      + Cardinality(answered \cap {r})
EachReadOnce == state # "gone" => \A r \in 1..sent : Places(r) = 1

(***************************************************************************)
(* queued_chunks says where each queued read ended, "summing to            *)
(* queued_data.len()": with it wrong, take_next cuts a read in two.        *)
(***************************************************************************)
Covers(c, n) ==
    \E end \in [0..Len(c) -> 0..n] :
        /\ end[0] = 0 /\ end[Len(c)] = n
        /\ \A i \in 1..Len(c) : end[i] = end[i - 1] + c[i]
ChunksCoverQueue == Covers(chunks, Len(queued))

(***************************************************************************)
(* A queue above the bound belongs to a connection that a task is closing, *)
(* however the tasks that queue, hold and take interleave.  (The close     *)
(* itself waits for the write half, without limit if the peer never reads, *)
(* so nothing is said of how far above the bound the queue then gets.)     *)
(***************************************************************************)
QueueBounded ==
    (state # "gone" /\ Len(queued) > MaxQueued) => \E t \in Tasks : at[t] \in Closing

(***************************************************************************)
(* No task asks the model for ever: after the peer's last read the loop of *)
(* every task ends, however often the model asks for more and whatever     *)
(* other tasks put back into the queue, unless a write to the peer does    *)
(* not end.                                                                *)
(***************************************************************************)
WritesEnd == []<>(\A t \in Tasks : at[t] \notin {"sending", "sending_greeting"})
TasksEnd == WritesEnd => <>[] (\A t \in Tasks : at[t] \in {"unborn", "done"})

(***************************************************************************)
(* "Per-connection state (Idle, Processing, Accumulating) prevents         *)
(* concurrent LLM calls": at most one task is asking the model.            *)
(***************************************************************************)
OneCallAtATime ==
    Cardinality({t \in Tasks : at[t] \in {"greeting", "calling"}}) <= 1

(***************************************************************************)
(* The invariant of a TCP connection: its types, somebody at work while it *)
(* is Processing, every read in one place, chunks that cover the queue,    *)
(* and a bounded queue.                                                    *)
(***************************************************************************)
TcpInv ==
    /\ TypeOK /\ ProcessingIsBacked /\ EachReadOnce
    /\ ChunksCoverQueue /\ QueueBounded
=============================================================================
