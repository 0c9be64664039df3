------------------------------- MODULE Anchor -------------------------------
(***************************************************************************)
(* The anchor tree server of src/pkg/host/anchor.go: the capnp handlers     *)
(* rootAnchorCap and anchorCap, and the ww.Anchor values they wrap         *)
(* (rootAnchor, localAnchor).                                              *)
(*                                                                         *)
(* Remote clients hold capabilities and call Walk, Store and Go on them.   *)
(* Each handler call is one step: the tree package makes node.Store and    *)
(* node.Txn atomic, and nothing else in a handler touches shared state.   *)
(* A capability is a record: the ww.Anchor the anchorCap wraps ("root" for *)
(* rootAnchor, "local" for a localAnchor, "remote" for an anchor on       *)
(* another host), the node path, and whether it carries the parens env.    *)
(* The served root capability (rootAnchorCap) is "served".                 *)
(***************************************************************************)
EXTENDS Integers, Sequences, FiniteSets

CONSTANTS
    Names,     \* path segments, host IDs among them
    LocalID,   \* h.ID().String(): root.localPath
    Vals,      \* values a client can store
    Proc,      \* the MemVal of a spawned process
    NoValue,   \* an empty node: t.Load().Nil()
    Peers,     \* root.Peers(): the hosts in the routing table
    MaxDepth   \* deepest node path below the local root

ASSUME LocalID \in Names /\ Peers \subseteq Names /\ MaxDepth \in Nat

SeqsUpTo(n) == UNION {[1..d -> Names] : d \in 0..n}
NodePaths == SeqsUpTo(MaxDepth)
\* anchorpath.Parts(path) of the path strings a client sends.
WalkInputs == SeqsUpTo(MaxDepth + 1)

\* A localAnchor{root, node, env}: its Path() is root followed by the node's
\* path, kept here as host and path; other kinds reuse the same fields.
Cap(kind, host, path, env) == [kind |-> kind, host |-> host, path |-> path, env |-> env]
Served == Cap("served", LocalID, << >>, TRUE)
Caps == {Served} \cup
        {Cap(k, h, p, e) : k \in {"root", "local", "remote"}, h \in Names,
                           p \in SeqsUpTo(MaxDepth + 1), e \in BOOLEAN}

VARIABLES
    node,     \* the tree: what each node holds
    caps,     \* capabilities the clients hold
    made,     \* tree nodes that exist: node.Walk creates them
    acked,    \* Store calls that returned nil: [cap, val]
    loaded,   \* Load calls and what they returned: [cap, val, after]
    crashed,  \* a handler panicked: the host process is gone
    failed,   \* handler calls that returned an error: [cap, call]
    listed    \* host paths rootAnchorCap.Ls has answered

vars == <<node, caps, made, acked, loaded, crashed, failed, listed>>

\* The handler returns an error to the caller of c.
Fail(c, call) == failed' = failed \cup {[cap |-> c, call |-> call]}

\* rootAnchor.isLocal
IsLocal(parts) == parts # << >> /\ parts[1] = LocalID

(***************************************************************************)
(* rootAnchor.Walk: the root for an empty path, a localAnchor carrying the *)
(* env for a path under this host, otherwise anchor.Walk, which dials       *)
(* path[0] as a host.                                                      *)
(***************************************************************************)
RootWalk(parts) ==
    IF parts = << >> THEN Cap("root", LocalID, << >>, TRUE)
    ELSE IF IsLocal(parts) THEN Cap("local", LocalID, Tail(parts), TRUE)
    ELSE Cap("remote", parts[1], Tail(parts), FALSE)

\* localAnchor.Walk: the same root, node.Walk(path); env is not copied.
LocalWalk(c, parts) == Cap("local", c.host, c.path \o parts, FALSE)

\* node.Walk creates the nodes along the path of a local anchor.
MadeBy(sub) ==
    IF sub.kind = "local" THEN made \cup {SubSeq(sub.path, 1, i) : i \in 0..Len(sub.path)}
                          ELSE made

\* rootAnchor.Ls: anchor.NewHost(root.term, p) for each peer.
RootLs == {Cap("remote", p, << >>, FALSE) : p \in Peers}

\* localAnchor.Ls: a localAnchor{root, n}, without env, per child n.
LocalLs(c) ==
    {Cap("local", c.host, q, FALSE) :
        q \in {q \in made : Len(q) = Len(c.path) + 1 /\ SubSeq(q, 1, Len(c.path)) = c.path}}

\* rootAnchor implements Walk and Ls; its Load, Store and Go return errors.
RootImplements == {"walk", "ls"}

\* localAnchor.Load: the node's value; an empty node is lang.Nil{}.
LoadAnswer(c) == node[c.path]

\* Values whose Store on this local anchor's node returned nil.
AckedAt(c) ==
    IF c.kind # "local" THEN {}
    ELSE {a.val : a \in {a \in acked : a.cap.kind = "local" /\ a.cap.path = c.path}}

-----------------------------------------------------------------------------
(***************************************************************************)
(* rootAnchorCap.Walk: reject a path that is not under this host, then     *)
(* wrap a.root.Walk(ctx, parts[1:]) in an anchorCap.                        *)
(***************************************************************************)
ServedWalk(parts) ==
    /\ ~crashed
    /\ \/ /\ IsLocal(parts)
          /\ caps' = caps \cup {RootWalk(Tail(parts))}
          /\ made' = MadeBy(RootWalk(Tail(parts)))
          /\ UNCHANGED failed
       \/ /\ ~IsLocal(parts)
          /\ Fail(Served, "walk")
          /\ UNCHANGED <<caps, made>>
    /\ UNCHANGED <<node, acked, loaded, crashed, listed>>

\* anchorCap.Walk on a root or local anchor: sub = a.anchor.Walk(nil, parts).
CapWalk(c, parts) ==
    /\ ~crashed
    /\ c \in caps /\ c.kind \in {"root", "local"}
    /\ LET sub == IF c.kind = "root" THEN RootWalk(parts) ELSE LocalWalk(c, parts)
       IN  /\ Len(sub.path) <= MaxDepth
           /\ caps' = caps \cup {sub}
           /\ made' = MadeBy(sub)
    /\ UNCHANGED <<node, acked, loaded, crashed, failed, listed>>

(***************************************************************************)
(* anchorCap.Ls: rootAnchor.Ls gives a host anchor (anchor.NewHost) per    *)
(* peer of the routing table; localAnchor.Ls gives a localAnchor without   *)
(* env per child of node.List().                                           *)
(***************************************************************************)
CapLs(c) ==
    /\ ~crashed
    /\ c \in caps /\ c.kind \in {"root", "local"}
    /\ caps' = caps \cup IF c.kind = "root" THEN RootLs ELSE LocalLs(c)
    /\ UNCHANGED <<node, made, acked, loaded, crashed, failed, listed>>

(***************************************************************************)
(* rootAnchorCap.Ls: for each anchor of root.Ls a SubAnchor carrying only  *)
(* the host's path (SetRoot, SetPath), and no capability.                  *)
(***************************************************************************)
ServedLs ==
    /\ ~crashed
    /\ listed' = listed \cup {<< a.host >> : a \in RootLs}
    /\ UNCHANGED <<node, caps, made, acked, loaded, crashed, failed>>

\* rootAnchorCap.Load: root.Load returns its error.
ServedLoad ==
    /\ ~crashed
    /\ "load" \notin RootImplements
    /\ Fail(Served, "load")
    /\ UNCHANGED <<node, caps, made, acked, loaded, crashed, listed>>

\* anchorCap.Load: a.anchor.Load, then SetValue; an error is returned as is.
CapLoad(c) ==
    /\ ~crashed
    /\ c \in caps /\ c.kind \in {"root", "local"}
    /\ \/ /\ c.kind = "local"
          /\ loaded' = loaded \cup {[cap |-> c, val |-> LoadAnswer(c), after |-> AckedAt(c)]}
          /\ UNCHANGED failed
       \/ /\ c.kind = "root" /\ "load" \notin RootImplements
          /\ Fail(c, "load")
          /\ UNCHANGED loaded
    /\ UNCHANGED <<node, caps, made, acked, crashed, listed>>

(***************************************************************************)
(* anchorCap.Store: `if err == nil { return err }` returns nil as soon as  *)
(* the value decodes, before lang.AsAny and a.anchor.Store.                 *)
(***************************************************************************)
CapStore(c, x) ==
    /\ ~crashed
    /\ c \in caps /\ c.kind # "served"
    /\ acked' = acked \cup {[cap |-> c, val |-> x]}
    /\ UNCHANGED <<node, caps, made, loaded, crashed, failed, listed>>

\* rootAnchorCap.Store: root.Store returns its error.
ServedStore ==
    /\ ~crashed
    /\ "store" \notin RootImplements
    /\ Fail(Served, "store")
    /\ UNCHANGED <<node, caps, made, acked, loaded, crashed, listed>>

\* rootAnchorCap.Go: the arguments decode; root.Go returns its error.
ServedGo ==
    /\ ~crashed
    /\ "go" \notin RootImplements
    /\ Fail(Served, "go")
    /\ UNCHANGED <<node, caps, made, acked, loaded, crashed, listed>>

(***************************************************************************)
(* anchorCap.Go on a local anchor, through localAnchor.Go.  In node.Txn:   *)
(* a non-empty node gives ErrAnchorNotEmpty; otherwise proc.Spawn(         *)
(* a.env.Fork(), args...) either fails or its process is stored.  The      *)
(* inner `var p` shadows the named result, so Go returns (nil, nil) after  *)
(* a spawn, and the handler's p.MemVal() panics on the nil interface.      *)
(* When the anchor came from localAnchor.Walk its env is nil, and Fork on  *)
(* a nil *parens.Env may panic before the spawn.                           *)
(***************************************************************************)
GoOutcomes(c) ==
    IF c.env THEN {"spawned", "failed"} ELSE {"spawned", "failed", "forkPanic"}

CapGo(c, outcome) ==
    /\ ~crashed
    /\ c \in caps
    /\ \/ /\ c.kind = "root" /\ "go" \notin RootImplements
          /\ Fail(c, "go")
          /\ UNCHANGED <<node, crashed>>
       \/ /\ c.kind = "local" /\ node[c.path] # NoValue
          /\ Fail(c, "go")
          /\ UNCHANGED <<node, crashed>>
       \/ /\ c.kind = "local" /\ node[c.path] = NoValue
          /\ outcome \in GoOutcomes(c)
          /\ node' = IF outcome = "spawned" THEN [node EXCEPT ![c.path] = Proc]
                                            ELSE node
          /\ crashed' = (outcome # "failed")
          /\ IF outcome = "failed" THEN Fail(c, "go") ELSE UNCHANGED failed
    /\ UNCHANGED <<caps, made, acked, loaded, listed>>

\* newAnchor / newRootAnchor: an empty tree, the root capability served.
Init ==
    /\ node = [p \in NodePaths |-> NoValue]
    /\ caps = {Served}
    /\ made = {<< >>}
    /\ acked = {} /\ loaded = {}
    /\ crashed = FALSE
    /\ failed = {}
    /\ listed = {}

Next ==
    \/ \E parts \in WalkInputs : ServedWalk(parts)
    \/ \E c \in caps, parts \in WalkInputs : CapWalk(c, parts)
    \/ ServedLs \/ ServedLoad \/ ServedStore \/ ServedGo
    \/ \E c \in caps : CapLs(c) \/ CapLoad(c)
    \/ \E c \in caps, x \in Vals : CapStore(c, x)
    \/ \E c \in caps, o \in {"spawned", "failed", "forkPanic"} : CapGo(c, o)

Spec == Init /\ [][Next]_vars

-----------------------------------------------------------------------------
TypeOK ==
    /\ node \in [NodePaths -> Vals \cup {Proc, NoValue}]
    /\ caps \subseteq Caps /\ made \subseteq NodePaths
    /\ acked \subseteq [cap : Caps, val : Vals]
    /\ crashed \in BOOLEAN
    /\ listed \subseteq {<< p >> : p \in Peers}
    /\ failed \subseteq [cap : Caps, call : {"walk", "load", "store", "go"}]

(***************************************************************************)
(* A Load of a local anchor after a Store to it returned nil answers the   *)
(* stored value: localAnchor.Store returns nil only once node.Store has    *)
(* put the value in the empty node (ErrAnchorNotEmpty otherwise), and      *)
(* localAnchor.Load returns the node's value.  It fails if anchorCap.Store *)
(* reports a store that did not happen.                                    *)
(***************************************************************************)
LoadSeesStore ==
    \A l \in loaded : l.after # {} => l.val \in l.after
=============================================================================
