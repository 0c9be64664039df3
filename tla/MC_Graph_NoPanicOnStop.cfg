\* Deadlines of 2 or 3 timesteps of delta 1 or 2, so that a deadline is met
\* exactly and overshot; two neighborhood events, one-slot buffers so that
\* every publisher and the emitloop can block.
CONSTANTS
    ZeroPhase = "Orphaned"
    Deadlines = {2, 3}
    Deltas = {1, 2}
    TCap = 1
    NCap = 1
    RCap = 1
    MaxNhood = 2

SPECIFICATION Spec
INVARIANT NoPanicOnStop
\* After Stop the service ends (and the timestep publisher then blocks on the
\* subscription Stop leaves open): a final state, not a deadlock.
CHECK_DEADLOCK FALSE
