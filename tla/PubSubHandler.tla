---------------------------- MODULE PubSubHandler ----------------------------
(***************************************************************************)
(* The subscription handler of src/pkg/pubsub/client.go.                   *)
(*                                                                         *)
(* Topic.Subscribe exports a handler{ms: ch} as a chan.Sender capability.  *)
(* The remote topic calls Send once per message; the capnp server runs     *)
(* those calls one at a time, in order, until a call Acks, which lets the  *)
(* next call start while the acked one keeps running.  Send tries a       *)
(* non-blocking send on ms (fast path); if ch is full it Acks and then     *)
(* blocks in a select between sending and ctx.Done().  When the last       *)
(* reference is released the capnp server waits for running calls and     *)
(* calls Shutdown, which closes ms.                                        *)
(*                                                                         *)
(* Go semantics kept here: a send on a full buffered channel queues the    *)
(* goroutine (waitQ, FIFO); a receive takes the buffer's head and moves    *)
(* the first queued sender's value to the tail; a select with several     *)
(* ready cases picks any of them.                                          *)
(***************************************************************************)
EXTENDS Integers, Sequences, FiniteSets, SequencesExt

CONSTANTS
    N,    \* messages the remote topic sends, numbered 1..N in sending order
    Cap   \* cap(ch), the subscriber's buffer

ASSUME N \in Nat \ {0} /\ Cap \in Nat \ {0}

Msgs == 1..N

VARIABLES
    next,     \* the message whose Send call the server starts next
    ms,       \* the buffer of ch
    acked,    \* calls past call.Ack() that have not yet entered the select
    waitQ,    \* calls blocked in the select's send, in the channel's FIFO order
    failed,   \* calls that returned ctx.Err()
    ctxDone,  \* calls whose context is cancelled
    got,      \* what the subscriber has received from ch, in order
    released, \* the capability's last reference is gone: no more calls start
    closed    \* Shutdown has run: close(h.ms)

vars == <<next, ms, acked, waitQ, failed, ctxDone, got, released, closed>>

\* Calls started and not yet returned.
Running == acked \cup ToSet(waitQ)

-----------------------------------------------------------------------------
(***************************************************************************)
(* handler.Send up to the Ack: the fast path's select either sends (room   *)
(* in ch) and returns, or falls to default and Acks.  Nothing between the  *)
(* start of the call and that select touches shared state.                 *)
(***************************************************************************)
\* Mutant of Send: the default case returns instead of taking the slow path.
SendDropWhenFull ==
    /\ ~released /\ next <= N
    /\ IF Len(ms) < Cap
         THEN ms' = Append(ms, next)
         ELSE UNCHANGED ms
    /\ next' = next + 1
    /\ UNCHANGED <<acked, waitQ, failed, ctxDone, got, released, closed>>

Send ==
    /\ ~released /\ next <= N
    /\ IF Len(ms) < Cap
         THEN ms' = Append(ms, next) /\ UNCHANGED acked
         ELSE acked' = acked \cup {next} /\ UNCHANGED ms
    /\ next' = next + 1
    /\ UNCHANGED <<waitQ, failed, ctxDone, got, released, closed>>

\* The slow path's select finds room in ch and sends.
SlowSend(i) ==
    /\ i \in acked
    /\ Len(ms) < Cap
    /\ ms' = Append(ms, i)
    /\ acked' = acked \ {i}
    /\ UNCHANGED <<next, waitQ, failed, ctxDone, got, released, closed>>

\* The slow path's select finds ch full and ctx live: the goroutine queues.
SlowBlock(i) ==
    /\ i \in acked
    /\ Len(ms) = Cap
    /\ i \notin ctxDone
    /\ waitQ' = Append(waitQ, i)
    /\ acked' = acked \ {i}
    /\ UNCHANGED <<next, ms, failed, ctxDone, got, released, closed>>

\* The slow path's select takes <-ctx.Done() and returns ctx.Err().
SlowCancel(i) ==
    /\ i \in acked
    /\ i \in ctxDone
    /\ failed' = failed \cup {i}
    /\ acked' = acked \ {i}
    /\ UNCHANGED <<next, ms, waitQ, ctxDone, got, released, closed>>

\* Mutant of WaitCancel: the select has no ctx.Done() case.
WaitCancelNever(i) == FALSE

\* A queued call wakes on ctx.Done() and leaves the channel's send queue.
WaitCancel(i) ==
    /\ i \in ToSet(waitQ)
    /\ i \in ctxDone
    /\ waitQ' = SelectSeq(waitQ, LAMBDA j : j # i)
    /\ failed' = failed \cup {i}
    /\ UNCHANGED <<next, ms, acked, ctxDone, got, released, closed>>

(***************************************************************************)
(* handler.Shutdown: called by the capnp server once the last reference is *)
(* released and no call is running; closes ms and releases the topic.     *)
(***************************************************************************)
Shutdown ==
    /\ released /\ ~closed
    /\ Running = {}
    /\ closed' = TRUE
    /\ UNCHANGED <<next, ms, acked, waitQ, failed, ctxDone, got, released>>

-----------------------------------------------------------------------------
(* Environment: the subscriber reading ch, the caller, the releasing side. *)

\* The subscriber receives; the first queued sender's value enters the buffer.
Receive ==
    /\ ms # << >>
    /\ got' = Append(got, Head(ms))
    /\ IF waitQ = << >>
         THEN ms' = Tail(ms) /\ UNCHANGED waitQ
         ELSE ms' = Append(Tail(ms), Head(waitQ)) /\ waitQ' = Tail(waitQ)
    /\ UNCHANGED <<next, acked, failed, ctxDone, released, closed>>

\* The remote caller cancels a running call.
Cancel(i) ==
    /\ i \in Running \ ctxDone
    /\ ctxDone' = ctxDone \cup {i}
    /\ UNCHANGED <<next, ms, acked, waitQ, failed, got, released, closed>>

\* The release func returned by Subscribe (h.Release) drops the capability.
Release ==
    /\ ~released
    /\ released' = TRUE
    /\ UNCHANGED <<next, ms, acked, waitQ, failed, ctxDone, got, closed>>

Init ==
    /\ next = 1
    /\ ms = << >> /\ acked = {} /\ waitQ = << >>
    /\ failed = {} /\ ctxDone = {} /\ got = << >>
    /\ released = FALSE /\ closed = FALSE

Next ==
    \/ Send
    \/ \E i \in Msgs : SlowSend(i) \/ SlowBlock(i) \/ SlowCancel(i) \/ WaitCancel(i)
    \/ Shutdown
    \/ Receive
    \/ \E i \in Msgs : Cancel(i)
    \/ Release

(***************************************************************************)
(* Each acked call runs on its own goroutine, and the Go runtime wakes a   *)
(* goroutine whose select has a ready case; the capnp server eventually    *)
(* calls Shutdown.  The subscriber, the caller and the release get no      *)
(* fairness: a subscriber may stop reading for good.                       *)
(***************************************************************************)
Spec ==
    /\ Init /\ [][Next]_vars
    /\ \A i \in Msgs : WF_vars(SlowSend(i) \/ SlowBlock(i) \/ SlowCancel(i))
    /\ \A i \in Msgs : WF_vars(WaitCancel(i))
    /\ WF_vars(Shutdown)

-----------------------------------------------------------------------------
(***************************************************************************)
(* Every message whose Send has started is, exactly once, received by the  *)
(* subscriber, buffered in ch, in a running slow path, or in a call that   *)
(* returned ctx.Err() after its context was cancelled: neither the fast    *)
(* path's default nor the Ack hand-over loses or duplicates a message.     *)
(***************************************************************************)
MessagesConserved ==
    /\ \A i \in 1..next-1 :
         LET places == <<Cardinality({k \in DOMAIN got : got[k] = i}),
                         Cardinality({k \in DOMAIN ms : ms[k] = i}),
                         Cardinality({k \in DOMAIN waitQ : waitQ[k] = i}),
                         IF i \in acked THEN 1 ELSE 0,
                         IF i \in failed THEN 1 ELSE 0>>
         IN  places[1] + places[2] + places[3] + places[4] + places[5] = 1
    /\ failed \subseteq ctxDone

(***************************************************************************)
(* A Send whose context is cancelled returns, even when the subscriber has *)
(* stopped reading ch: the slow path never holds a call (and so the capnp  *)
(* server's Shutdown) forever.                                             *)
(***************************************************************************)
CancelledSendReturns ==
    \A i \in Msgs : (i \in ctxDone) ~> (i \notin Running)
=============================================================================
