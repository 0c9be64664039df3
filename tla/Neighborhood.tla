---------------------------- MODULE Neighborhood ----------------------------
(***************************************************************************)
(* The neighborhood tracker of src/pkg/server/eventloop.go.                *)
(*                                                                         *)
(* neighborhoodEventLoop is a single goroutine ranging over a bus          *)
(* subscription to EvtConnectionChanged.  It skips client connections,     *)
(* feeds host connections into the refcounted map neighborhood.m (Add on   *)
(* Opened, Rm on Closed) and, when Add reports a lease or Rm an eviction,  *)
(* builds an EvtNeighborhoodChanged from the previous event's To, the new  *)
(* Phase() and Len(), and emits it on the bus.                             *)
(*                                                                         *)
(* Only the tracker's own steps are here; the producer of connQ and the    *)
(* consumer of nhQ are supplied by MC_Neighborhood (a well-behaved         *)
(* translator) or by Pipeline (the real one).                              *)
(***************************************************************************)
EXTENDS Integers, Sequences, FiniteSets, Functions

CONSTANTS
    Peers,        \* peer.IDs of remote participants
    ClientPeers,  \* those whose user agent is ww.ClientUAgent
    KMin, KMax,   \* evtLoopConfig.KMin / KMax
    ZeroPhase,    \* the zero value of ww.Phase (out.To before any event)
    NoPeer,       \* the zero value of peer.ID in the zero EvtNeighborhoodChanged
    NoState,      \* the zero value of ww.ConnState in the same
    QCap,         \* buffer of the EvtConnectionChanged subscription
    NCap          \* buffer of the downstream EvtNeighborhoodChanged subscription

Phases == {"Orphaned", "Partial", "Complete", "Overloaded"}
Opened == "Opened"
Closed == "Closed"
HostPeers == Peers \ ClientPeers

ASSUME /\ ClientPeers \subseteq Peers
       /\ KMin \in Nat /\ KMax \in Nat /\ KMin <= KMax
       /\ ZeroPhase \in Phases
       /\ QCap \in Nat \ {0} /\ NCap \in Nat \ {0}

ConnEvent == [peer : Peers, client : BOOLEAN, state : {Opened, Closed}]
NhoodEvent == [peer : Peers \cup {NoPeer}, state : {Opened, Closed, NoState},
               from : Phases, to : Phases, n : Nat]

VARIABLES
    m,        \* neighborhood.m : peer -> refcount (a Go map: DOMAIN is its key set)
    out,      \* the loop's variable out: the last EvtNeighborhoodChanged built
    emitting, \* TRUE while the loop is inside e.Emit(out), blocked on a full buffer
    connQ,    \* sub.Out(): EvtConnectionChanged not yet received by the loop
    nhQ       \* EvtNeighborhoodChanged emitted and not yet taken downstream

trackerVars == <<m, out, emitting>>

(***************************************************************************)
(* neighborhood.Len and neighborhood.Phase, as the code computes them.     *)
(***************************************************************************)
NLen(nm) == Cardinality(DOMAIN nm)

PhaseOf(k) ==
    CASE k < 0     -> "Orphaned"
      [] k < KMin  -> "Partial"
      [] k < KMax  -> "Complete"
      [] k >= KMax -> "Overloaded"

(***************************************************************************)
(* neighborhood.Add: a lease when the peer was absent; the count becomes   *)
(* the old one (zero when absent) plus one.                                *)
(***************************************************************************)
\* Mutant of Leased: every Add reports a lease.
LeasedAlways(p) == TRUE

Leased(p) == p \notin DOMAIN m

AddTo(p) == [q \in DOMAIN m \cup {p} |->
                IF q = p THEN (IF Leased(p) THEN 0 ELSE m[p]) + 1 ELSE m[q]]

(***************************************************************************)
(* neighborhood.Rm: deletes the key, and reports an eviction, only when    *)
(* the peer is present with count exactly 1; otherwise the map is left     *)
(* as it is.                                                               *)
(***************************************************************************)
\* Mutant of Evicted: the `i == 1` test dropped, any present peer is deleted.
EvictedIfPresent(p) == p \in DOMAIN m

Evicted(p) == p \in DOMAIN m /\ m[p] = 1

\* Mutant of RmFrom: the count is decremented but the key never deleted.
RmDecrementOnly(p) == IF p \in DOMAIN m THEN [m EXCEPT ![p] = @ - 1] ELSE m

RmFrom(p) == IF Evicted(p) THEN RestrictDomain(m, LAMBDA q : q # p) ELSE m

(***************************************************************************)
(* One iteration of the range loop over sub.Out(): receive the head,       *)
(* `continue` on a client event, otherwise Add or Rm and, when that        *)
(* fires, build out from the previous out.To and the new Phase()/Len().    *)
(* The emission itself is the step EmitNhood, since e.Emit blocks while    *)
(* the subscriber's buffer is full.                                        *)
(***************************************************************************)
HandleConnEvt ==
    /\ ~emitting
    /\ connQ # << >>
    /\ LET ev   == Head(connQ)
           fire == IF ev.state = Opened THEN Leased(ev.peer) ELSE Evicted(ev.peer)
           m2   == IF ev.state = Opened THEN AddTo(ev.peer) ELSE RmFrom(ev.peer)
       IN  /\ connQ' = Tail(connQ)
           /\ IF ev.client
                THEN UNCHANGED <<m, out, emitting>>
                ELSE /\ m' = m2
                     /\ emitting' = fire
                     /\ out' = IF fire
                                 THEN [peer |-> ev.peer, state |-> ev.state,
                                       from |-> out.to,
                                       to   |-> PhaseOf(NLen(m2)),
                                       n    |-> NLen(m2)]
                                 ELSE out
    /\ UNCHANGED nhQ

\* Mutant of EmitNhood: the loop never leaves the emit (a missing reset).
EmitNhoodKeepsEmitting ==
    /\ emitting
    /\ Len(nhQ) < NCap
    /\ nhQ' = Append(nhQ, out)
    /\ UNCHANGED <<m, out, connQ, emitting>>

\* e.Emit(out): returns once the event is in the subscriber's buffer.
EmitNhood ==
    /\ emitting
    /\ Len(nhQ) < NCap
    /\ nhQ' = Append(nhQ, out)
    /\ emitting' = FALSE
    /\ UNCHANGED <<m, out, connQ>>

TrackerInit ==
    /\ m = [p \in {} |-> 0]
    /\ out = [peer |-> NoPeer, state |-> NoState, from |-> ZeroPhase,
              to |-> ZeroPhase, n |-> 0]
    /\ emitting = FALSE

-----------------------------------------------------------------------------
TrackerTypeOK ==
    /\ DOMAIN m \subseteq Peers
    /\ \A p \in DOMAIN m : m[p] \in Nat \ {0}
    /\ out \in NhoodEvent
    /\ emitting \in BOOLEAN
    /\ connQ \in Seq(ConnEvent) /\ Len(connQ) <= QCap
    /\ nhQ \in Seq(NhoodEvent) /\ Len(nhQ) <= NCap

(***************************************************************************)
(* The refinement mapping to NeighborhoodLog: the neighborhood is the key  *)
(* set of neighborhood.m; the reports made are those in the subscriber's   *)
(* buffer followed by out while the loop is still inside e.Emit(out); the  *)
(* latest report is out.                                                   *)
(***************************************************************************)
Reported == nhQ \o (IF emitting THEN << out >> ELSE << >>)

Log == INSTANCE NeighborhoodLog
         WITH nbrs <- DOMAIN m, log <- Reported, last <- out, Phase <- PhaseOf

=============================================================================
