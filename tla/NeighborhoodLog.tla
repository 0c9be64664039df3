-------------------------- MODULE NeighborhoodLog --------------------------
(***************************************************************************)
(* What the neighborhood tracker promises its subscribers, stated without  *)
(* refcounts, connections or blocking: the neighborhood is a set of host   *)
(* peers that gains or loses one peer at a time, and every change is       *)
(* reported once, in order, as an EvtNeighborhoodChanged carrying the peer, *)
(* the direction, the new size, the phase of that size, and as From the    *)
(* To of the report before it.  Subscribers take reports from the front.   *)
(***************************************************************************)
EXTENDS Integers, Sequences, FiniteSets

CONSTANTS
    HostPeers,   \* peers that can be neighbors
    Phase(_),    \* the phase of a neighborhood size
    ZeroPhase,   \* To of the report before the first one
    NoPeer,
    NoState

VARIABLES
    nbrs,   \* the neighborhood
    log,    \* reports made and not yet taken by the subscriber
    last    \* the latest report

Report(p, st, k) == [peer |-> p, state |-> st, from |-> last.to, to |-> Phase(k), n |-> k]

Init ==
    /\ nbrs = {}
    /\ log = << >>
    /\ last = [peer |-> NoPeer, state |-> NoState, from |-> ZeroPhase,
               to |-> ZeroPhase, n |-> 0]

\* p becomes a neighbor, and the change is reported.
Join(p) ==
    /\ p \notin nbrs
    /\ nbrs' = nbrs \cup {p}
    /\ last' = Report(p, "Opened", Cardinality(nbrs) + 1)
    /\ log' = Append(log, last')

\* p stops being a neighbor, and the change is reported.
Leave(p) ==
    /\ p \in nbrs
    /\ nbrs' = nbrs \ {p}
    /\ last' = Report(p, "Closed", Cardinality(nbrs) - 1)
    /\ log' = Append(log, last')

\* The subscriber takes the oldest report.
Take ==
    /\ log # << >>
    /\ log' = Tail(log)
    /\ UNCHANGED <<nbrs, last>>

Next == Take \/ \E p \in HostPeers : Join(p) \/ Leave(p)

Spec == Init /\ [][Next]_<<nbrs, log, last>>
=============================================================================
