\* Three messages into a one-slot channel: the second and third take the
\* slow path, so Acked, queued and cancelled calls coexist.
CONSTANTS
    N = 3
    Cap = 1

SPECIFICATION Spec
INVARIANT MessagesConserved
PROPERTY CancelledSendReturns
\* After Shutdown, or once the subscriber stops reading, nothing may happen.
CHECK_DEADLOCK FALSE
