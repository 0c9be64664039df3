----------------------------- MODULE Translator -----------------------------
(***************************************************************************)
(* The event translator of src/pkg/server/eventloop.go (dispatchNetworkEvts *)
(* and onDisconnected), which turns libp2p network notifications into      *)
(* EvtConnectionChanged on the bus.                                        *)
(*                                                                         *)
(* Opened and Closed for one connection take different paths:              *)
(*  - Opened: the identify service stores the peer's AgentVersion in the   *)
(*    peerstore and publishes EvtPeerIdentificationCompleted; a goroutine  *)
(*    ranging over that subscription calls isClient and emits Opened;      *)
(*  - Closed: the network calls DisconnectedF on its own goroutine, which  *)
(*    calls isClient and emits Closed directly.                            *)
(* isClient panics when the peerstore has no AgentVersion for the peer.    *)
(*                                                                         *)
(* Teardown runs the fx OnStop hooks in reverse order of registration: the *)
(* tracker's sub.Close(), then the translator's pidEvt.Close(),            *)
(* connEvt.Close() and strmEvt.Close().  A closed subscription drops its   *)
(* buffered events and no longer receives (an Emit no longer waits on      *)
(* it); an Emit on a closed emitter returns an error at once.              *)
(*                                                                         *)
(* The libp2p side (dialling, identify, closing) is the environment: its   *)
(* steps are the ones the translator's code reacts to.                     *)
(***************************************************************************)
EXTENDS Integers, Sequences

CONSTANTS
    Peers,        \* peer.IDs of remote participants
    ClientPeers,  \* those whose AgentVersion is ww.ClientUAgent
    Conns,        \* network.Conn values
    ConnPeer,     \* Conns -> Peers: conn.RemotePeer()
    QCap,         \* buffer of the tracker's EvtConnectionChanged subscription
    PCap,         \* buffer of the EvtPeerIdentificationCompleted subscription
    NoEvent       \* the goroutine holds no event

ASSUME /\ ClientPeers \subseteq Peers
       /\ ConnPeer \in [Conns -> Peers]
       /\ QCap \in Nat \ {0} /\ PCap \in Nat \ {0}

ConnStates == {"new", "open", "closing", "closed"}
IdStates == {"none", "stored", "published"}

VARIABLES
    connState,  \* lifecycle of each connection in the network layer
    idState,    \* progress of the identify protocol on each connection
    agent,      \* peers with an AgentVersion entry in the peerstore
    pidQ,       \* pidEvt.Out(): peers of EvtPeerIdentificationCompleted not yet received
    pidPending, \* event the pidEvt goroutine has built and is emitting (blocked on a full buffer)
    crashed,    \* a goroutine panicked: the process is gone
    connQ,      \* the tracker's EvtConnectionChanged subscription buffer
    hooks       \* OnStop progress: "running", "subClosed", "stopped"

translatorVars == <<connState, idState, agent, pidQ, pidPending, crashed, connQ, hooks>>

\* The tracker's subscription is open; the translator's bus handles are open.
SubOpen == hooks = "running"
BusOpen == hooks # "stopped"

(***************************************************************************)
(* connEvt.Emit(ev): waits for room in the open subscription's buffer and  *)
(* delivers there; with the subscription closed it delivers nowhere.       *)
(***************************************************************************)
CanEmitConn == SubOpen => Len(connQ) < QCap
EmitConn(ev) == connQ' = IF SubOpen THEN Append(connQ, ev) ELSE connQ

(***************************************************************************)
(* isClient(p, ps): the AgentVersion comparison when the entry exists; the *)
(* ErrNotFound case panics, which Panics(p) names.                         *)
(***************************************************************************)
Panics(p) == p \notin agent

IsClient(p) == p \in ClientPeers

ConnChanged(p, st) == [peer |-> p, client |-> IsClient(p), state |-> st]

-----------------------------------------------------------------------------
(* Environment: the network layer and the identify service.                *)

Dial(c) ==
    /\ ~crashed
    /\ connState[c] = "new"
    /\ connState' = [connState EXCEPT ![c] = "open"]
    /\ UNCHANGED <<idState, agent, pidQ, pidPending, crashed, connQ, hooks>>

\* Identify records the remote's AgentVersion in the peerstore.
IdentifyStore(c) ==
    /\ ~crashed
    /\ connState[c] = "open" /\ idState[c] = "none"
    /\ idState' = [idState EXCEPT ![c] = "stored"]
    /\ agent' = agent \cup {ConnPeer[c]}
    /\ UNCHANGED <<connState, pidQ, pidPending, crashed, connQ, hooks>>

\* Identify emits EvtPeerIdentificationCompleted (blocking while pidEvt is full).
IdentifyPublish(c) ==
    /\ ~crashed
    /\ connState[c] = "open" /\ idState[c] = "stored"
    /\ BusOpen => Len(pidQ) < PCap
    /\ idState' = [idState EXCEPT ![c] = "published"]
    /\ pidQ' = IF BusOpen THEN Append(pidQ, ConnPeer[c]) ELSE pidQ
    /\ UNCHANGED <<connState, agent, pidPending, crashed, connQ, hooks>>

\* The connection closes; the network starts the DisconnectedF notification.
Close(c) ==
    /\ ~crashed
    /\ connState[c] = "open"
    /\ connState' = [connState EXCEPT ![c] = "closing"]
    /\ UNCHANGED <<idState, agent, pidQ, pidPending, crashed, connQ, hooks>>

-----------------------------------------------------------------------------
(* The translator's code.                                                  *)

(***************************************************************************)
(* The pidEvt goroutine receives an EvtPeerIdentificationCompleted and     *)
(* builds the Opened event, calling isClient(ev.Peer, ...).                *)
(***************************************************************************)
PidRecv ==
    /\ ~crashed
    /\ pidPending = NoEvent
    /\ pidQ # << >>
    /\ LET p == Head(pidQ) IN
         /\ pidQ' = Tail(pidQ)
         /\ IF Panics(p)
              THEN crashed' = TRUE /\ UNCHANGED pidPending
              ELSE pidPending' = ConnChanged(p, "Opened") /\ UNCHANGED crashed
    /\ UNCHANGED <<connState, idState, agent, connQ, hooks>>

\* connEvt.Emit(...) in the goroutine: returns once the event is buffered.
PidEmit ==
    /\ ~crashed
    /\ pidPending # NoEvent
    /\ CanEmitConn
    /\ EmitConn(pidPending)
    /\ pidPending' = NoEvent
    /\ UNCHANGED <<connState, idState, agent, pidQ, crashed, hooks>>

\* onDisconnected: isClient finds no AgentVersion and panics.
DisconnectPanic(c) ==
    /\ ~crashed
    /\ connState[c] = "closing"
    /\ Panics(ConnPeer[c])
    /\ crashed' = TRUE
    /\ UNCHANGED <<connState, idState, agent, pidQ, pidPending, connQ, hooks>>

\* onDisconnected: e.Emit(Closed) on the notifier's goroutine, then return.
DisconnectEmit(c) ==
    /\ ~crashed
    /\ connState[c] = "closing"
    /\ ~Panics(ConnPeer[c])
    /\ CanEmitConn
    /\ EmitConn(ConnChanged(ConnPeer[c], "Closed"))
    /\ connState' = [connState EXCEPT ![c] = "closed"]
    /\ UNCHANGED <<idState, agent, pidQ, pidPending, crashed, hooks>>

TranslatorInit ==
    /\ connState = [c \in Conns |-> "new"]
    /\ idState = [c \in Conns |-> "none"]
    /\ agent = {}
    /\ pidQ = << >>
    /\ pidPending = NoEvent
    /\ crashed = FALSE
    /\ connQ = << >>
    /\ hooks = "running"

(***************************************************************************)
(* OnStop of dispatchNeighborhoodEvts, run first: sub.Close() drops the    *)
(* tracker's buffered events.                                              *)
(***************************************************************************)
StopTracker ==
    /\ ~crashed
    /\ hooks = "running"
    /\ hooks' = "subClosed"
    /\ connQ' = << >>
    /\ UNCHANGED <<connState, idState, agent, pidQ, pidPending, crashed>>

\* OnStop of dispatchNetworkEvts: pidEvt.Close(), connEvt.Close(), strmEvt.Close().
StopTranslator ==
    /\ ~crashed
    /\ hooks = "subClosed"
    /\ hooks' = "stopped"
    /\ pidQ' = << >>
    /\ UNCHANGED <<connState, idState, agent, pidPending, crashed, connQ>>

=============================================================================
