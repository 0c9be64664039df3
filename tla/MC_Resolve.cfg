\* Two symbols, one value, chains of up to three frames: a symbol can be
\* bound, missing or erroring at each depth, shadowed by an inner frame, or
\* missing everywhere.
CONSTANTS
    s1 = s1
    s2 = s2
    x1 = x1
    Syms = {s1, s2}
    Vals = {x1}
    MaxDepth = 3
    NoValue = NoValue
    NotSymbol = NotSymbol

SPECIFICATION Spec
INVARIANT TypeOK
INVARIANT EvalMatchesDoc
PROPERTY EvalTerminates
\* Eval has returned: nothing more happens.
CHECK_DEADLOCK FALSE
