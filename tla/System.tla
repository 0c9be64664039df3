------------------------------- MODULE System -------------------------------
(***************************************************************************)
(* A running node end to end: the event loop of                            *)
(* src/pkg/server/eventloop.go (translator and neighborhood tracker, as in *)
(* Pipeline) feeding the Graph service of                                  *)
(* src/pkg/runtime/service/graph.go through the EvtNeighborhoodChanged     *)
(* subscription.  The tracker's e.Emit(out) appends to the buffer that     *)
(* Graph's subloop receives from: Pipeline's nhQ is Graph's nhoodQ, and    *)
(* Graph's own stand-in publisher (NhoodChanged) is not used.              *)
(*                                                                         *)
(* All goroutines live in one process: a panic in the event loop          *)
(* (crashed) or in subloop stops every one of them.  The node is never     *)
(* stopped here: the order in which fx would run the OnStop hooks of the  *)
(* event loop and of Graph is decided outside src/, and Stop of each part  *)
(* is checked on its own in Pipeline and Graph.                            *)
(***************************************************************************)
EXTENDS Pipeline

CONSTANTS Deadlines, Deltas, TCap, RCap

VARIABLES tstepQ, nhoodOpen, emittersOpen, cq, stopPc, ev, elapsed, deadline,
          subPc, neighborsOpen, emitPc, cur, errs, errsOpen, reqs, handoffs

\* Each connection yields at most an Opened and a Closed, so at most twice as
\* many neighborhood events as connections reach Graph.
G == INSTANCE Graph WITH nhoodQ <- nhQ, nhSent <- 0,
                         MaxNhood <- 2 * Cardinality(Conns)

graphVars == <<tstepQ, nhoodOpen, emittersOpen, cq, stopPc, ev, elapsed,
               deadline, subPc, neighborsOpen, emitPc, cur, errs, errsOpen,
               reqs, handoffs>>
sysVars == <<vars, graphVars>>

\* A step of the event loop or of libp2p; it needs the process alive.
PipeStep(A) == G!Alive /\ A /\ UNCHANGED graphVars

\* A step of Graph's goroutines or of its environment.
GraphStep(A) ==
    /\ ~crashed
    /\ A
    /\ UNCHANGED <<connState, idState, agent, pidQ, pidPending, crashed, connQ,
                   hooks, m, out, emitting>>

SysInit == Init /\ G!Init

SysNext ==
    \/ \E c \in Conns : PipeStep(TranslatorStep(T!Dial(c)))
    \/ \E c \in Conns : PipeStep(TranslatorStep(T!IdentifyStore(c)))
    \/ \E c \in Conns : PipeStep(TranslatorStep(T!IdentifyPublish(c)))
    \/ \E c \in Conns : PipeStep(TranslatorStep(T!Close(c)))
    \/ PipeStep(TranslatorStep(T!PidRecv))
    \/ PipeStep(TranslatorStep(T!PidEmit))
    \/ \E c \in Conns : PipeStep(TranslatorStep(T!DisconnectPanic(c)))
    \/ \E c \in Conns : PipeStep(TranslatorStep(T!DisconnectEmit(c)))
    \/ PipeStep(TrackerStep(TrackerRecv))
    \/ PipeStep(TrackerStep(N!EmitNhood))
    \/ GraphStep(G!SubTimestep)
    \/ GraphStep(G!SubNhood)
    \/ GraphStep(G!SubSend)
    \/ GraphStep(G!EmitRequest)
    \/ GraphStep(\E d \in Deltas : G!Timestep(d))
    \/ GraphStep(G!TakeRequest)

(***************************************************************************)
(* The fairness of Pipeline and of Graph for the goroutines that run while *)
(* the node is up: the pidEvt loop, the network notifier, the tracker,     *)
(* subloop, emitloop, the periodic timestep publisher and the request      *)
(* subscribers.  Dialing, identify and closing connections get none.       *)
(***************************************************************************)
SysFairness ==
    /\ WF_sysVars(PipeStep(TranslatorStep(T!PidRecv)))
    /\ WF_sysVars(PipeStep(TranslatorStep(T!PidEmit)))
    /\ \A c \in Conns :
         WF_sysVars(PipeStep(TranslatorStep(T!DisconnectPanic(c) \/ T!DisconnectEmit(c))))
    /\ WF_sysVars(PipeStep(TrackerStep(TrackerRecv)))
    /\ WF_sysVars(PipeStep(TrackerStep(N!EmitNhood)))
    /\ WF_sysVars(GraphStep(G!SubTimestep \/ G!SubNhood))
    /\ WF_sysVars(GraphStep(G!SubSend))
    /\ WF_sysVars(GraphStep(G!EmitRequest))
    /\ WF_sysVars(GraphStep(\E d \in Deltas : G!Timestep(d)))
    /\ WF_sysVars(GraphStep(G!TakeRequest))

SysSpec == SysInit /\ [][SysNext]_sysVars /\ SysFairness

-----------------------------------------------------------------------------
\* Some Boot request is waiting for its subscribers.
BootPending == \E i \in 1..Len(reqs) : reqs[i] = "Boot"

(***************************************************************************)
(* spec.md's end-to-end scenario (section 7): once the tracker has evicted *)
(* the last neighbor (its EvtNeighborhoodChanged says Closed with n = 0),  *)
(* the node is Orphaned and Graph's emitloop eventually emits Boot, unless *)
(* the process has died.  The tracker computes To with neighborhood.Phase, *)
(* whose only Orphaned case is k < 0.                                      *)
(***************************************************************************)
OrphanedNodeBoots ==
    (out.state = "Closed" /\ out.n = 0)
        ~> (crashed \/ ~G!Alive \/ BootPending)

=============================================================================
