------------------------------- MODULE Graph -------------------------------
(***************************************************************************)
(* The Graph service of src/pkg/runtime/service/graph.go.                  *)
(*                                                                         *)
(* Two goroutines started by Start:                                        *)
(*   subloop  selects on the EvtTimestep subscription, the                 *)
(*            EvtNeighborhoodChanged subscription and the cancel channel   *)
(*            cq; it caches the latest neighborhood event in ev, advances  *)
(*            a jittered scheduler on each timestep, and hands ev to       *)
(*            emitloop over the unbuffered channel g.neighbors;            *)
(*   emitloop ranges over g.neighbors and emits Boot, Graft or Prune for   *)
(*            the event's To phase; a failed Emit is raised on g.errs      *)
(*            (capacity one) unless cq is closed.                          *)
(* Stop closes cq, then the nhood subscription and the three emitters.     *)
(*                                                                         *)
(* Of a neighborhood event the service reads only its To phase: ev holds   *)
(* that phase, and the events in nhoodQ are records with at least a to     *)
(* field (System's tracker sends the whole EvtNeighborhoodChanged).       *)
(* The scheduler (newScheduler, Advance, Reset) is not in the source tree  *)
(* and follows spec.md: elapsed time accumulates until it reaches a        *)
(* deadline drawn from Deadlines, then is reset.                           *)
(***************************************************************************)
EXTENDS Integers, Sequences, FiniteSets

CONSTANTS
    ZeroPhase,   \* the zero value of ww.Phase: ev.To before any event
    Deadlines,   \* the jittered deadlines the scheduler may draw
    Deltas,      \* EvtTimestep.Delta values
    TCap,        \* buffer of the EvtTimestep subscription
    NCap,        \* buffer of the EvtNeighborhoodChanged subscription
    RCap,        \* buffer of the Boot/Graft/Prune subscribers
    MaxNhood     \* bound: neighborhood events delivered over a behaviour

Phases == {"Orphaned", "Partial", "Complete", "Overloaded"}
Requests == {"Boot", "Graft", "Prune"}
ErrCap == 1      \* make(chan error, 1)

ASSUME /\ ZeroPhase \in Phases
       /\ Deadlines \subseteq Nat \ {0} /\ Deadlines # {}
       /\ Deltas \subseteq Nat \ {0} /\ Deltas # {}
       /\ {TCap, NCap, RCap} \subseteq Nat \ {0} /\ MaxNhood \in Nat

VARIABLES
    tstepQ,       \* g.tstep.Out(): buffered EvtTimestep deltas
    nhoodQ,       \* g.nhood.Out(): buffered neighborhood events
    nhoodOpen,    \* g.nhood not yet closed
    emittersOpen, \* g.boot, g.graft, g.prune not yet closed
    cq,           \* TRUE once close(g.cq)
    stopPc,       \* progress of Stop: "running", "closing", "stopped"
    ev,           \* subloop's cached EvtNeighborhoodChanged (its To)
    elapsed,      \* scheduler: time accumulated since the last Reset
    deadline,     \* scheduler: the current jittered deadline
    subPc,        \* subloop: "select", "send", "done", "panicked"
    neighborsOpen,\* g.neighbors not yet closed (deferred close in subloop)
    emitPc,       \* emitloop: "recv", "emit", "raise", "done"
    cur,          \* emitloop's ev
    errs,         \* number of errors buffered in g.errs
    errsOpen,     \* g.errs not yet closed (deferred close in emitloop)
    reqs,         \* requests emitted and not yet taken by their subscribers
    handoffs,     \* history: sends on g.neighbors since the scheduler's last Reset
    nhSent        \* history: neighborhood events delivered so far

\* A panic in subloop ends the process: no further step of anyone.
Alive == subPc # "panicked"

subVars == <<ev, elapsed, deadline, subPc, neighborsOpen, handoffs>>
emitVars == <<emitPc, cur, errs, errsOpen, reqs>>
stopVars == <<cq, stopPc, nhoodOpen, emittersOpen>>
vars == <<tstepQ, nhoodQ, nhSent, subVars, emitVars, stopVars>>

(***************************************************************************)
(* The scheduler, from spec.md section 4.3: Advance adds the delta and     *)
(* reports whether the deadline is reached; Reset zeroes the accumulator   *)
(* and draws a new jittered deadline.                                      *)
(***************************************************************************)
Advance(d) == elapsed + d >= deadline

\* Mutant of Reset: draws a new deadline but keeps the accumulated time.
ResetKeepElapsed == /\ UNCHANGED elapsed
                    /\ deadline' \in Deadlines

Reset == /\ elapsed' = 0
         /\ deadline' \in Deadlines

\* The switch of emitloop: the request emitted for a phase (none for Complete).
RequestFor(ph) ==
    CASE ph = "Orphaned"   -> "Boot"
      [] ph = "Partial"    -> "Graft"
      [] ph = "Overloaded" -> "Prune"

SubTimestep ==
    /\ Alive
    /\ subPc = "select"
    /\ tstepQ # << >>
    /\ tstepQ' = Tail(tstepQ)
    /\ IF Advance(Head(tstepQ))
         THEN /\ Reset
              /\ subPc' = "send"
              /\ handoffs' = 0
         ELSE /\ elapsed' = elapsed + Head(tstepQ)
              /\ UNCHANGED <<deadline, subPc, handoffs>>
    /\ UNCHANGED <<ev, neighborsOpen, nhoodQ, nhSent, emitVars, stopVars>>

\* case v := <-g.nhood.Out(): ev = v.(EvtNeighborhoodChanged)
SubNhood ==
    /\ Alive
    /\ subPc = "select"
    /\ nhoodQ # << >>
    /\ ev' = Head(nhoodQ).to
    /\ nhoodQ' = Tail(nhoodQ)
    /\ subPc' = "send"
    /\ UNCHANGED <<elapsed, deadline, neighborsOpen, handoffs, tstepQ, nhSent,
                   emitVars, stopVars>>

(***************************************************************************)
(* The same case once Stop has closed the subscription and its buffer is   *)
(* empty: the receive yields a nil interface and the type assertion        *)
(* v.(EvtNeighborhoodChanged) panics, which ends the process.              *)
(***************************************************************************)
SubNhoodClosed ==
    /\ Alive
    /\ subPc = "select"
    /\ ~nhoodOpen
    /\ nhoodQ = << >>
    /\ subPc' = "panicked"
    /\ UNCHANGED <<ev, elapsed, deadline, neighborsOpen, handoffs, tstepQ,
                   nhoodQ, nhSent, emitVars, stopVars>>

\* case <-g.cq: return, running the deferred close(g.neighbors).
SubCancel ==
    /\ Alive
    /\ subPc \in {"select", "send"}
    /\ cq
    /\ subPc' = "done"
    /\ neighborsOpen' = FALSE
    /\ UNCHANGED <<ev, elapsed, deadline, handoffs, tstepQ, nhoodQ, nhSent,
                   emitVars, stopVars>>

(***************************************************************************)
(* subloop, second select: g.neighbors <- ev, a rendezvous with emitloop   *)
(* waiting in its range loop.                                              *)
(***************************************************************************)
SubSend ==
    /\ Alive
    /\ subPc = "send"
    /\ emitPc = "recv"
    /\ cur' = ev
    /\ emitPc' = "emit"
    /\ subPc' = "select"
    /\ handoffs' = handoffs + 1
    /\ UNCHANGED <<ev, elapsed, deadline, neighborsOpen, errs, errsOpen, reqs,
                   tstepQ, nhoodQ, nhSent, stopVars>>

(***************************************************************************)
(* emitloop.                                                               *)
(***************************************************************************)
\* The range loop ends when g.neighbors is closed; deferred close(g.errs).
EmitDone ==
    /\ Alive
    /\ emitPc = "recv"
    /\ ~neighborsOpen
    /\ emitPc' = "done"
    /\ errsOpen' = FALSE
    /\ UNCHANGED <<cur, errs, reqs, tstepQ, nhoodQ, nhSent, subVars, stopVars>>

\* The switch on ev.To: no case for Complete; otherwise an Emit that succeeds.
EmitRequest ==
    /\ Alive
    /\ emitPc = "emit"
    /\ \/ /\ cur = "Complete"
          /\ UNCHANGED reqs
       \/ /\ cur # "Complete"
          /\ emittersOpen
          /\ Len(reqs) < RCap
          /\ reqs' = Append(reqs, RequestFor(cur))
    /\ emitPc' = "recv"
    /\ UNCHANGED <<cur, errs, errsOpen, tstepQ, nhoodQ, nhSent, subVars, stopVars>>

\* Emit on a closed emitter returns an error, passed to g.raise.
EmitFailed ==
    /\ Alive
    /\ emitPc = "emit"
    /\ cur # "Complete"
    /\ ~emittersOpen
    /\ emitPc' = "raise"
    /\ UNCHANGED <<cur, errs, errsOpen, reqs, tstepQ, nhoodQ, nhSent, subVars,
                   stopVars>>

\* Mutant of Raise: a plain send on g.errs, without the <-g.cq case.
RaiseNoCancel ==
    /\ Alive
    /\ emitPc = "raise"
    /\ errs < ErrCap
    /\ errs' = errs + 1
    /\ emitPc' = "recv"
    /\ UNCHANGED <<cur, errsOpen, reqs, tstepQ, nhoodQ, nhSent, subVars, stopVars>>

\* raise: select { case g.errs <- err: case <-g.cq: }
Raise ==
    /\ Alive
    /\ emitPc = "raise"
    /\ \/ /\ errs < ErrCap
          /\ errs' = errs + 1
       \/ /\ cq
          /\ UNCHANGED errs
    /\ emitPc' = "recv"
    /\ UNCHANGED <<cur, errsOpen, reqs, tstepQ, nhoodQ, nhSent, subVars, stopVars>>

(***************************************************************************)
(* Stop: close(g.cq), then Close the nhood subscription and the emitters.  *)
(* Closing the subscription discards what its buffer still holds.          *)
(***************************************************************************)
StopCancel ==
    /\ Alive
    /\ stopPc = "running"
    /\ cq' = TRUE
    /\ stopPc' = "closing"
    /\ UNCHANGED <<nhoodOpen, emittersOpen, tstepQ, nhoodQ, nhSent, subVars, emitVars>>

StopClose ==
    /\ Alive
    /\ stopPc = "closing"
    /\ nhoodOpen' = FALSE
    /\ nhoodQ' = << >>
    /\ emittersOpen' = FALSE
    /\ stopPc' = "stopped"
    /\ UNCHANGED <<cq, tstepQ, nhSent, subVars, emitVars>>

(***************************************************************************)
(* Environment: the timestep publisher, the neighborhood tracker's         *)
(* emitter, the subscribers of the requests and the reader of Errors().    *)
(***************************************************************************)
Timestep(d) ==
    /\ Alive
    /\ Len(tstepQ) < TCap
    /\ tstepQ' = Append(tstepQ, d)
    /\ UNCHANGED <<nhoodQ, nhSent, subVars, emitVars, stopVars>>

NhoodChanged(ph) ==
    /\ Alive
    /\ nhoodOpen
    /\ nhSent < MaxNhood
    /\ Len(nhoodQ) < NCap
    /\ nhoodQ' = Append(nhoodQ, [to |-> ph])
    /\ nhSent' = nhSent + 1
    /\ UNCHANGED <<tstepQ, subVars, emitVars, stopVars>>

TakeRequest ==
    /\ Alive
    /\ reqs # << >>
    /\ reqs' = Tail(reqs)
    /\ UNCHANGED <<emitPc, cur, errs, errsOpen, tstepQ, nhoodQ, nhSent, subVars,
                   stopVars>>

ReadError ==
    /\ Alive
    /\ errs > 0
    /\ errs' = errs - 1
    /\ UNCHANGED <<emitPc, cur, errsOpen, reqs, tstepQ, nhoodQ, nhSent, subVars,
                   stopVars>>

(***************************************************************************)
(* subloop's start: g.neighbors open until its deferred close, a fresh     *)
(* scheduler with some jittered deadline, and ev the zero                  *)
(* EvtNeighborhoodChanged, whose To is the zero Phase.                     *)
(***************************************************************************)
SubloopInit ==
    /\ ev = ZeroPhase
    /\ elapsed = 0
    /\ deadline \in Deadlines
    /\ subPc = "select"
    /\ neighborsOpen = TRUE

Init ==
    /\ tstepQ = << >>
    /\ nhoodQ = << >>
    /\ nhoodOpen = TRUE
    /\ emittersOpen = TRUE
    /\ cq = FALSE
    /\ stopPc = "running"
    /\ SubloopInit
    /\ emitPc = "recv"
    /\ cur = ZeroPhase
    /\ errs = 0
    /\ errsOpen = TRUE
    /\ reqs = << >>
    /\ handoffs = 0
    /\ nhSent = 0

Next ==
    \/ SubTimestep \/ SubNhood \/ SubNhoodClosed \/ SubCancel \/ SubSend
    \/ EmitDone \/ EmitRequest \/ EmitFailed \/ Raise
    \/ StopCancel \/ StopClose
    \/ \E d \in Deltas : Timestep(d)
    \/ \E ph \in Phases : NhoodChanged(ph)
    \/ TakeRequest \/ ReadError

(***************************************************************************)
(* Both loops are goroutines the Go scheduler keeps running, the timestep  *)
(* publisher is periodic and the request subscribers keep reading: weak    *)
(* fairness.  A select with several ready cases picks one uniformly at     *)
(* random, so a case that stays ready, like <-g.cq once closed, is taken   *)
(* eventually: it has weak fairness of its own.  Stop, neighborhood churn  *)
(* and reading Errors() may never happen.                                  *)
(***************************************************************************)
Fairness ==
    /\ WF_vars(SubTimestep \/ SubNhood \/ SubNhoodClosed \/ SubCancel)
    /\ WF_vars(SubCancel)
    /\ WF_vars(SubSend)
    /\ WF_vars(EmitDone \/ EmitRequest \/ EmitFailed \/ Raise)
    /\ WF_vars(StopClose)
    /\ WF_vars(\E d \in Deltas : Timestep(d))
    /\ WF_vars(TakeRequest)

Spec == Init /\ [][Next]_vars /\ Fairness

-----------------------------------------------------------------------------
TypeOK ==
    /\ tstepQ \in Seq(Deltas) /\ Len(tstepQ) <= TCap
    /\ Len(nhoodQ) <= NCap /\ \A i \in 1..Len(nhoodQ) : nhoodQ[i].to \in Phases
    /\ {nhoodOpen, emittersOpen, cq, neighborsOpen, errsOpen} \subseteq BOOLEAN
    /\ stopPc \in {"running", "closing", "stopped"}
    /\ ev \in Phases /\ cur \in Phases
    /\ deadline \in Deadlines
    /\ elapsed \in 0..(deadline - 1)
    /\ subPc \in {"select", "send", "done", "panicked"}
    /\ emitPc \in {"recv", "emit", "raise", "done"}
    /\ errs \in 0..ErrCap
    /\ reqs \in Seq(Requests) /\ Len(reqs) <= RCap
    /\ handoffs \in 0..(MaxNhood + 1)
    /\ nhSent \in 0..MaxNhood

StopTerminates ==
    stopPc = "stopped" ~> (~Alive \/ (subPc = "done" /\ emitPc = "done"))

(***************************************************************************)
(* Rate limiting (spec.md sections 4.3 and 8): the cached event is handed  *)
(* on for action at most once per scheduler firing; a burst of             *)
(* neighborhood events between two firings yields at most one request.    *)
(***************************************************************************)
RateLimited == handoffs <= 1

(***************************************************************************)
(* Cancellation (spec.md sections 4.3 and 7): Stop makes the loops exit    *)
(* gracefully; subloop never dies on the subscription Stop has closed.     *)
(***************************************************************************)
NoPanicOnStop == Alive

=============================================================================
