------------------------------ MODULE Pipeline ------------------------------
(***************************************************************************)
(* The server's event loop end to end (eventloop in                        *)
(* src/pkg/server/eventloop.go): the translator feeding the neighborhood   *)
(* tracker through the EvtConnectionChanged subscription, with Graph's     *)
(* subloop taking EvtNeighborhoodChanged downstream.                       *)
(*                                                                         *)
(* Both components run in one process: a panic in any goroutine (crashed) *)
(* stops all of them.                                                      *)
(***************************************************************************)
EXTENDS Integers, Sequences, FiniteSets

CONSTANTS Peers, ClientPeers, Conns, ConnPeer, KMin, KMax, ZeroPhase,
          NoPeer, NoState, NoEvent, QCap, PCap, NCap

VARIABLES connState, idState, agent, pidQ, pidPending, crashed, connQ, hooks,
          m, out, emitting, nhQ

vars == <<connState, idState, agent, pidQ, pidPending, crashed, connQ, hooks,
          m, out, emitting, nhQ>>

T == INSTANCE Translator
N == INSTANCE Neighborhood

\* A step of the translator or of libp2p leaves the tracker alone.
TranslatorStep(A) == A /\ UNCHANGED <<m, out, emitting, nhQ>>

\* A step of neighborhoodEventLoop, which only runs while the process lives.
TrackerStep(A) ==
    /\ ~crashed
    /\ A
    /\ UNCHANGED <<connState, idState, agent, pidQ, pidPending, crashed, hooks>>

\* `range sub.Out()` ends once sub is closed: no event is taken after that.
TrackerRecv == T!SubOpen /\ N!HandleConnEvt

\* Graph's subloop receives from its nhood subscription.
ConsumeNhood ==
    /\ ~crashed
    /\ nhQ # << >>
    /\ nhQ' = Tail(nhQ)
    /\ UNCHANGED <<connState, idState, agent, pidQ, pidPending, crashed, connQ,
                   hooks, m, out, emitting>>

\* eventloop: dispatchNetworkEvts, then dispatchNeighborhoodEvts.
Init == T!TranslatorInit /\ N!TrackerInit /\ nhQ = << >>

Next ==
    \/ \E c \in Conns : TranslatorStep(T!Dial(c))
    \/ \E c \in Conns : TranslatorStep(T!IdentifyStore(c))
    \/ \E c \in Conns : TranslatorStep(T!IdentifyPublish(c))
    \/ \E c \in Conns : TranslatorStep(T!Close(c))
    \/ TranslatorStep(T!PidRecv)
    \/ TranslatorStep(T!PidEmit)
    \/ \E c \in Conns : TranslatorStep(T!DisconnectPanic(c))
    \/ \E c \in Conns : TranslatorStep(T!DisconnectEmit(c))
    \/ TrackerStep(TrackerRecv)
    \/ TrackerStep(N!EmitNhood)
    \/ ConsumeNhood
    \/ TranslatorStep(T!StopTracker)
    \/ TranslatorStep(T!StopTranslator)

(***************************************************************************)
(* The goroutines the code starts (pidEvt loop, tracker loop, the network  *)
(* notifier running DisconnectedF, Graph's subloop) are scheduled by the   *)
(* Go runtime: each one that can go on eventually does.  libp2p's dialing, *)
(* identify and closing get no fairness: they may never happen.  Stop may  *)
(* never be called, but once fx has run the first OnStop hook it runs the  *)
(* next.                                                                   *)
(***************************************************************************)
Fairness ==
    /\ WF_vars(TranslatorStep(T!PidRecv))
    /\ WF_vars(TranslatorStep(T!PidEmit))
    /\ \A c \in Conns : WF_vars(TranslatorStep(T!DisconnectPanic(c) \/ T!DisconnectEmit(c)))
    /\ WF_vars(TrackerStep(TrackerRecv))
    /\ WF_vars(TrackerStep(N!EmitNhood))
    /\ WF_vars(ConsumeNhood)
    /\ WF_vars(TranslatorStep(T!StopTranslator))

Spec == Init /\ [][Next]_vars /\ Fairness

-----------------------------------------------------------------------------
\* Nothing is in flight: every event produced so far has reached neighborhood.m.
Quiescent ==
    /\ ~crashed /\ hooks = "running"
    /\ pidQ = << >> /\ pidPending = NoEvent
    /\ connQ = << >> /\ ~emitting
    /\ \A c \in Conns : connState[c] # "closing"

\* p has an open connection whose identification has been published.
LiveIdentified(p) ==
    \E c \in Conns : /\ ConnPeer[c] = p
                     /\ connState[c] = "open"
                     /\ idState[c] = "published"

(***************************************************************************)
(* Once every event is processed, the neighborhood is exactly the set of   *)
(* host peers with an open, identified connection (spec.md section 3): no  *)
(* peer stays in it after its last connection closed, and none is missing  *)
(* while one of its identified connections is open.                        *)
(***************************************************************************)
QuiescentNeighborhoodExact ==
    Quiescent => DOMAIN m = {p \in N!HostPeers : LiveIdentified(p)}

(***************************************************************************)
(* No goroutine of the event loop panics: isClient, called from the        *)
(* DisconnectedF callback and from the pidEvt loop, always finds the       *)
(* peer's AgentVersion (the comment at eventloop.go:78 relies on this).    *)
(***************************************************************************)
NoPanic == ~crashed

(***************************************************************************)
(* The DisconnectedF callback never blocks the network layer's thread      *)
(* (spec.md section 5): whenever onDisconnected is running and will not    *)
(* panic, its e.Emit(Closed) can complete at once.                         *)
(***************************************************************************)
CallbackNeverBlocks ==
    \A c \in Conns :
        (connState[c] = "closing" /\ ~crashed /\ ~T!Panics(ConnPeer[c]))
            => Len(connQ) < QCap

(***************************************************************************)
(* Every DisconnectedF callback returns (its Closed event is emitted) or   *)
(* the process has died: back-pressure from the tracker and from Graph     *)
(* never blocks the network notifier forever.                              *)
(***************************************************************************)
DisconnectReturns ==
    \A c \in Conns : connState[c] = "closing" ~> (connState[c] = "closed" \/ crashed)

(***************************************************************************)
(* Fed by the real translator, whose events can arrive unpaired (a Closed  *)
(* for a connection never identified) or out of order (a Closed before its *)
(* Opened), and stopped by the OnStop hooks while it may be blocked in     *)
(* e.Emit, neighborhoodEventLoop still implements NeighborhoodLog: what    *)
(* reaches Graph is an in-order change log of the key set of m, however   *)
(* wrong that key set may be.                                              *)
(***************************************************************************)
TrackerRefinesLog == N!Log!Spec

=============================================================================
