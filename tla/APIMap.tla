------------------------------ MODULE APIMap -------------------------------
(***************************************************************************)
(* internal/store/store.go, GetAPIMap: the tree of the paths of a host     *)
(* with the number of requests of each.  insertPath puts the paths into    *)
(* the tree one by one, in the order Go happens to walk a map;             *)
(* aggregateNodeStats then adds every node to its parent.                  *)
(*                                                                         *)
(* A path is what stands between its slashes after the first one: "/" is   *)
(* <<"">>, "/x/" is <<"x", "">>.  A tree maps a node, which is the parts   *)
(* that lead to it, to what the node has.  `stats` stands for the methods, *)
(* the statuses and the note, which are set and cleared together.          *)
(***************************************************************************)
EXTENDS Naturals, Sequences, FiniteSetsExt

\* strings.Trim and strings.Split
SplitPath(path) ==
    LET named == {i \in DOMAIN path : path[i] # ""}
    IN IF named = {} THEN <<>> ELSE SubSeq(path, Min(named), Max(named))

RootPath == <<"">>
Root == <<>>
NewNode == [leaf |-> FALSE, count |-> 0, stats |-> 0]
EmptyTree == [n \in {Root} |-> NewNode]

PathPrefixes(parts) == {SubSeq(parts, 1, i) : i \in 1 .. Len(parts)}

\* Fault: a node that turns out to have children loses its count as well.
Inner_ClearsCount(node) ==
    IF node.leaf THEN NewNode ELSE node

\* A node on the way that was a leaf loses its methods, statuses and note, so
\* that nothing is left over; its count stays.
Inner(node) ==
    IF node.leaf THEN [node EXCEPT !.leaf = FALSE, !.stats = 0] ELSE node

\* The node of the path gets the count of the path, whatever it had before.
\* A path of slashes only has no node, except "/", which is the root.
InsertPath(tree, path, count) ==
    LET parts == SplitPath(path)
        full == [leaf |-> TRUE, count |-> count, stats |-> count]
        old(n) == IF n \in DOMAIN tree THEN tree[n] ELSE NewNode
    IN IF parts = Root /\ path # RootPath
       THEN tree
       ELSE [n \in DOMAIN tree \cup PathPrefixes(parts) |->
                CASE n = parts -> full
                  [] n # parts /\ n \in PathPrefixes(parts) -> Inner(old(n))
                  [] OTHER -> tree[n]]

Children(tree, node) ==
    {n \in DOMAIN tree : Len(n) = Len(node) + 1 /\ SubSeq(n, 1, Len(node)) = node}

\* Every node after its children.
AggregateNodeStats(tree) ==
    LET sum[n \in DOMAIN tree] ==
          LET kids == Children(tree, n) IN
          [leaf  |-> tree[n].leaf /\ kids = {},
           count |-> tree[n].count + MapThenSumSet(LAMBDA c : sum[c].count, kids),
           stats |-> tree[n].stats + MapThenSumSet(LAMBDA c : sum[c].stats, kids)]
    IN sum

-----------------------------------------------------------------------------
\* Paths that the tree cannot tell apart, or has no node for.
SameNode(p, q) == p # q /\ SplitPath(p) = SplitPath(q)
NoNode(p) == SplitPath(p) = Root /\ p # RootPath

\* One path leads through the node of the other.
Through(p, q) == SplitPath(p) # Root /\ SplitPath(p) # SplitPath(q) /\ SplitPath(p) \in PathPrefixes(SplitPath(q))
=============================================================================
