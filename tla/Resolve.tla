------------------------------- MODULE Resolve -------------------------------
(***************************************************************************)
(* Symbol resolution of src/pkg/lang/expr.go (ResolveExpr.Eval).          *)
(*                                                                         *)
(* Eval decodes the symbol, then walks the environment chain from the      *)
(* given frame to its parents: a frame's ErrNotFound moves to the parent,  *)
(* anything else (a value or another error) ends the walk.  An            *)
(* environment is a sequence of frames, innermost first; a frame maps each *)
(* symbol to what env.Resolve returns for it.                              *)
(***************************************************************************)
EXTENDS Integers, Sequences, FiniteSets

CONSTANTS
    Syms,      \* symbol names
    Vals,      \* values a frame can bind
    MaxDepth,  \* longest environment chain checked
    NoValue,   \* the nil core.Any
    NotSymbol  \* a raw value whose .Symbol() fails

ErrNotFound == "ErrNotFound"   \* core.ErrNotFound
ErrOther == "ErrOther"         \* any other error of env.Resolve
ErrDecode == "ErrDecode"       \* the error of re.Symbol.Raw.Symbol()
NoErr == "nil"

\* What env.Resolve(sym) can give: a bound value, ErrNotFound or another error.
Lookups == Vals \cup {ErrNotFound, ErrOther}
Frames == [Syms -> Lookups]
Chains == UNION {[1..d -> Frames] : d \in 1..MaxDepth}

\* Mutant of ResolveFrame: the lookup's outcome is returned as the value.
ResolveFrameAsValue(l) == <<l, IF l \in Vals THEN NoErr ELSE l>>

\* The pair (v, err) env.Resolve returns for one lookup.
ResolveFrame(l) ==
    IF l \in Vals THEN <<l, NoErr>> ELSE <<NoValue, l>>

(***************************************************************************)
(* The loop as a recursive operator: frames from index i outwards.  When   *)
(* the chain runs out, (v, err) are those of the last lookup.              *)
(***************************************************************************)
RECURSIVE ResolveFrom(_, _, _, _)
ResolveFrom(chain, sym, i, last) ==
    IF i > Len(chain) THEN last
    ELSE LET r == ResolveFrame(chain[i][sym])
         IN  IF r[2] = ErrNotFound THEN ResolveFrom(chain, sym, i + 1, r) ELSE r

EvalResult(chain, raw) ==
    IF raw = NotSymbol THEN <<NoValue, ErrDecode>>
    ELSE ResolveFrom(chain, raw, 1, <<NoValue, NoErr>>)

(***************************************************************************)
(* The doc comment of Eval: the symbol's result in the innermost frame     *)
(* that knows it, and ErrNotFound when no frame of the hierarchy does.     *)
(***************************************************************************)
DocResult(chain, raw) ==
    IF raw = NotSymbol THEN <<NoValue, ErrDecode>>
    ELSE LET knows == {i \in 1..Len(chain) : chain[i][raw] # ErrNotFound}
         IN  IF knows = {} THEN <<NoValue, ErrNotFound>>
             ELSE ResolveFrame(chain[CHOOSE i \in knows :
                                        \A j \in knows : i <= j][raw])

-----------------------------------------------------------------------------
(* The loop of Eval step by step, over every chain and symbol.             *)

VARIABLES chain, raw, env, v, err, pc

vars == <<chain, raw, env, v, err, pc>>

Init ==
    /\ chain \in Chains
    /\ raw \in Syms \cup {NotSymbol}
    /\ env = 1
    /\ v = NoValue /\ err = NoErr
    /\ pc = "decode"

\* sym, err = re.Symbol.Raw.Symbol(); return on error.
Decode ==
    /\ pc = "decode"
    /\ IF raw = NotSymbol
         THEN err' = ErrDecode /\ pc' = "done"
         ELSE pc' = "loop" /\ UNCHANGED err
    /\ UNCHANGED <<chain, raw, env, v>>

\* Mutant of Lookup: every error moves to the parent (err != nil instead of errors.Is).
LookupSkipsErrors ==
    /\ pc = "loop" /\ env <= Len(chain)
    /\ LET r == ResolveFrame(chain[env][raw])
       IN  /\ v' = r[1] /\ err' = r[2]
           /\ IF r[2] # NoErr THEN env' = env + 1 /\ UNCHANGED pc
                              ELSE pc' = "done" /\ UNCHANGED env
    /\ UNCHANGED <<chain, raw>>

\* Mutant of Lookup: ErrNotFound continues without env = env.Parent().
LookupNoParent ==
    /\ pc = "loop" /\ env <= Len(chain)
    /\ LET r == ResolveFrame(chain[env][raw])
       IN  /\ v' = r[1] /\ err' = r[2]
           /\ IF r[2] = ErrNotFound THEN UNCHANGED <<env, pc>>
                                    ELSE pc' = "done" /\ UNCHANGED env
    /\ UNCHANGED <<chain, raw>>

\* v, err = env.Resolve(sym); ErrNotFound: env = env.Parent(); otherwise break.
Lookup ==
    /\ pc = "loop" /\ env <= Len(chain)
    /\ LET r == ResolveFrame(chain[env][raw])
       IN  /\ v' = r[1] /\ err' = r[2]
           /\ IF r[2] = ErrNotFound THEN env' = env + 1 /\ UNCHANGED pc
                                    ELSE pc' = "done" /\ UNCHANGED env
    /\ UNCHANGED <<chain, raw>>

\* env == nil: the root's parent is reached and the loop ends.
ChainEnd ==
    /\ pc = "loop" /\ env > Len(chain)
    /\ pc' = "done"
    /\ UNCHANGED <<chain, raw, env, v, err>>

Next == Decode \/ Lookup \/ ChainEnd

Spec == Init /\ [][Next]_vars /\ WF_vars(Next)

-----------------------------------------------------------------------------
TypeOK ==
    /\ chain \in Chains /\ raw \in Syms \cup {NotSymbol}
    /\ env \in 1..MaxDepth + 1
    /\ v \in Vals \cup {NoValue}
    /\ err \in {NoErr, ErrNotFound, ErrOther, ErrDecode}
    /\ pc \in {"decode", "loop", "done"}

(***************************************************************************)
(* Eval returns what its doc comment promises for every non-empty chain:   *)
(* the innermost frame's answer, ErrNotFound after the whole hierarchy,    *)
(* and it agrees with the recursive statement of the loop.                 *)
(***************************************************************************)
EvalMatchesDoc ==
    pc = "done" =>
        /\ <<v, err>> = DocResult(chain, raw)
        /\ <<v, err>> = EvalResult(chain, raw)

\* Eval always returns: every walk of the chain ends.
EvalTerminates == <>(pc = "done")
=============================================================================
