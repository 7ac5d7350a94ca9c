---------------------------- MODULE StoreViews -----------------------------
(***************************************************************************)
(* internal/store/store.go: what the pages of the browser are filled with, *)
(* while requests are stored and deleted.                                  *)
(*                                                                         *)
(* ListHosts, the hosts with the number of requests of each, ports merged, *)
(* is kept for hostCacheTTL and thrown away by every write.  Writers hold  *)
(* s.mu from their statement to the invalidation.  A reader looks at the   *)
(* cache under s.mu, queries the database without it (over the read-only   *)
(* connection) and takes s.mu again to fill the cache.                     *)
(*                                                                         *)
(* GetAPIMap, the tree of the paths of one host, is not cached (APIMap).   *)
(* Search, paging and the order of the list are left out, and so are the   *)
(* notes.                                                                  *)
(***************************************************************************)
EXTENDS APIMap, Naturals, TLC

CONSTANTS
    Kinds,      \* the requests there are: [host |-> [base, port], path]
    Readers,    \* concurrent calls of ListHosts without a search
    MaxRows,    \* rows in the table (bound)
    TTL,        \* hostCacheTTL (5 minutes), in ticks
    None

\* stripPort
StripPort(host) == [host EXCEPT !.port = None]

Hosts == {k.host : k \in Kinds}
Bases == {StripPort(h) : h \in Hosts}
Paths == {k.path : k \in Kinds}
List == [Bases -> 0 .. MaxRows]

ASSUME ViewsAssumption ==
    /\ IsFiniteSet(Kinds) /\ \A k \in Kinds : k.path \in Seq(STRING)
    /\ MaxRows \in Nat \ {0}
    /\ TTL \in Nat \ {0}
    /\ None \notin [list : List, age : 0 .. TTL]

VARIABLES
    db,         \* db[k]: stored requests of kind k
    mu,         \* "free", or what the writer holding s.mu does next:
                \* "reset" the cache, delete the "logs"
    cache,      \* None, or [list, age]
    pc,         \* pc[r]: "idle", "query", "fill"
    snap,       \* snap[r]: what r's query has returned
    raced,      \* a write came between the query and the fill of the cache
    partial,    \* a deletion has failed halfway since the cache was filled
    apiMap      \* None, or the call of GetAPIMap under way: the counts of its
                \* paths, the paths not yet inserted, the tree

listVars == <<cache, pc, snap, raced, partial>>
viewsVars == <<db, mu, listVars, apiMap>>

Empty == [k \in Kinds |-> 0]
Rows(table) == MapThenSumSet(LAMBDA k : table[k], DOMAIN table)
NoHosts == [b \in Bases |-> 0]

ViewsInit ==
    /\ db = Empty
    /\ mu = "free" /\ cache = None
    /\ pc = [r \in Readers |-> "idle"]
    /\ snap = [r \in Readers |-> NoHosts]
    /\ raced = FALSE /\ partial = FALSE
    /\ apiMap = None

-----------------------------------------------------------------------------
(***************************************************************************)
(* Writers.  A statement that fails at once changes nothing.               *)
(***************************************************************************)
\* Save adds a row, SaveBatch all of its rows or none.
Save ==
    /\ mu = "free"
    /\ \E K \in SUBSET Kinds :
         /\ db' = [k \in Kinds |-> IF k \in K THEN db[k] + 1 ELSE db[k]]
         /\ Rows(db') <= MaxRows
    /\ mu' = "reset"
    /\ UNCHANGED <<listVars, apiMap>>

Delete ==
    /\ mu = "free"
    /\ \E k \in Kinds : db[k] > 0 /\ db' = [db EXCEPT ![k] = @ - 1]
    /\ mu' = "reset"
    /\ UNCHANGED <<listVars, apiMap>>

\* The star of a row that exists.
SetStarred ==
    /\ mu = "free"
    /\ db # Empty
    /\ mu' = "reset"
    /\ UNCHANGED <<db, listVars, apiMap>>

\* Clear deletes all requests, Cleanup those behind the retention period, on
\* the ticker of main or for an administrator ...
Clear ==
    /\ mu = "free"
    /\ db' = Empty
    /\ mu' = "logs"
    /\ UNCHANGED <<listVars, apiMap>>

Cleanup ==
    /\ mu = "free"
    /\ \E left \in [Kinds -> 0 .. MaxRows] :
         /\ \A k \in Kinds : left[k] <= db[k]
         /\ db' = left
    /\ mu' = "logs"
    /\ UNCHANGED <<listVars, apiMap>>

\* ... and then logs; if that fails, the cache is left as it is.
DeleteLogs ==
    /\ mu = "logs"
    /\ \/ mu' = "reset" /\ UNCHANGED partial
       \/ mu' = "free" /\ partial' = TRUE
    /\ UNCHANGED <<db, cache, pc, snap, raced, apiMap>>

\* Fault: the write does not throw the cache away.
Reset_Not ==
    /\ mu = "reset"
    /\ mu' = "free"
    /\ UNCHANGED <<db, listVars, apiMap>>

Reset ==
    /\ mu = "reset"
    /\ cache' = None
    /\ mu' = "free"
    /\ raced' = FALSE /\ partial' = FALSE
    /\ UNCHANGED <<db, pc, snap, apiMap>>

(***************************************************************************)
(* ListHosts                                                               *)
(***************************************************************************)
\* The counts of a host and of the same host with a port are added.
Merged(table) ==
    [b \in Bases |->
        MapThenSumSet(LAMBDA k : table[k], {k \in Kinds : StripPort(k.host) = b})]

\* Fault: the age of the entry is not looked at.
Servable_AnyAge ==
    /\ cache # None
    /\ cache.list # NoHosts

\* A list of no hosts is not served from the cache.
Servable ==
    /\ cache # None
    /\ cache.list # NoHosts
    /\ cache.age < TTL

Look(r) ==
    /\ pc[r] = "idle" /\ mu = "free"
    /\ ~Servable            \* otherwise the call returns cache.list
    /\ pc' = [pc EXCEPT ![r] = "query"]
    /\ UNCHANGED <<db, mu, cache, snap, raced, partial, apiMap>>

Query(r) ==
    /\ pc[r] = "query"
    /\ \/ snap' = [snap EXCEPT ![r] = Merged(db)] /\ pc' = [pc EXCEPT ![r] = "fill"]
       \/ pc' = [pc EXCEPT ![r] = "idle"] /\ UNCHANGED snap
    /\ UNCHANGED <<db, mu, cache, raced, partial, apiMap>>

Fill(r) ==
    /\ pc[r] = "fill" /\ mu = "free"
    /\ cache' = [list |-> snap[r], age |-> 0]
    /\ raced' = (snap[r] # Merged(db))
    /\ partial' = FALSE
    /\ pc' = [pc EXCEPT ![r] = "idle"]
    /\ snap' = [snap EXCEPT ![r] = NoHosts]
    /\ UNCHANGED <<db, mu, apiMap>>

Tick ==
    /\ cache # None
    /\ cache.age < TTL
    /\ cache' = [cache EXCEPT !.age = @ + 1]
    /\ UNCHANGED <<db, mu, pc, snap, raced, partial, apiMap>>

(***************************************************************************)
(* GetAPIMap                                                               *)
(***************************************************************************)
\* The rows of the host, with the port asked for or without.  The query also
\* has a LIKE for every other port, with ESCAPE '\\' in a raw string: two
\* characters, which SQLite refuses when it comes to evaluate it, that is for
\* the first row of another host or port.
Asked(host) == {k \in Kinds : k.host \in {host, StripPort(host)}}
LikeRefused(host) == \E k \in Kinds \ Asked(host) : db[k] > 0

\* Bound: the call shares nothing but its one query with the rest, so it is
\* followed from states in which nothing else is under way, to its end.
Quiet == mu = "free" /\ cache = None /\ \A r \in Readers : pc[r] = "idle"

\* The query succeeds, and the rows are counted by path.
MapQuery(host) ==
    /\ apiMap = None /\ Quiet
    /\ ~LikeRefused(host)
    /\ LET counts == [p \in Paths |->
                        MapThenSumSet(LAMBDA k : db[k], {k \in Asked(host) : k.path = p})]
       IN apiMap' = [counts |-> counts, tree |-> EmptyTree,
                     left |-> {p \in Paths : counts[p] > 0}]
    /\ UNCHANGED <<db, mu, listVars>>

\* Go walks the map of the paths in an order of its own.
MapInsert ==
    /\ apiMap # None
    /\ \E p \in apiMap.left :
         apiMap' = [apiMap EXCEPT !.left = @ \ {p},
                                  !.tree = InsertPath(@, p, apiMap.counts[p])]
    /\ UNCHANGED <<db, mu, listVars>>

MapReturn ==
    /\ apiMap # None
    /\ apiMap.left = {}
    /\ apiMap' = None
    /\ UNCHANGED <<db, mu, listVars>>

-----------------------------------------------------------------------------
ViewsNext ==
    \/ /\ apiMap = None
       /\ \/ Save \/ Delete \/ SetStarred \/ Clear \/ Cleanup \/ DeleteLogs \/ Reset
          \/ \E r \in Readers : Look(r) \/ Query(r) \/ Fill(r)
          \/ Tick
          \/ \E h \in Hosts : MapQuery(h)
    \/ MapInsert \/ MapReturn

ViewsSpec == ViewsInit /\ [][ViewsNext]_viewsVars

\* Time passes and a call that has its rows ends; nobody needs to write or read.
ViewsFairSpec == ViewsSpec /\ WF_viewsVars(Tick) /\ WF_viewsVars(MapInsert \/ MapReturn)

-----------------------------------------------------------------------------
(***************************************************************************)
(* Properties                                                              *)
(***************************************************************************)
\* The types of what the store and its readers keep.
ViewsTypeOK ==
    /\ db \in [Kinds -> 0 .. MaxRows]
    /\ mu \in {"free", "reset", "logs"}
    /\ cache \in [list : List, age : 0 .. TTL] \cup {None}
    /\ pc \in [Readers -> {"idle", "query", "fill"}]
    /\ snap \in [Readers -> List]
    /\ raced \in BOOLEAN /\ partial \in BOOLEAN
    /\ apiMap # None =>
         /\ apiMap.counts \in [Paths -> 0 .. MaxRows]
         /\ apiMap.left \subseteq Paths
         /\ Root \in DOMAIN apiMap.tree

\* ListHosts: a list that is served is the one in the database, unless a write fell
\* between the query and the fill, or a deletion failed halfway.
FreshUnlessRaced ==
    mu = "free" /\ Servable /\ cache.list # Merged(db) => raced \/ partial

\* Both, for ListHosts and the writes that throw its cache away.
ViewsInv == ViewsTypeOK /\ FreshUnlessRaced

\* A stale list is not served for ever: hostCacheTTL ends it.
StaleListsEnd ==
    Servable /\ cache.list # Merged(db) ~> ~(Servable /\ cache.list # Merged(db))

\* The map that GetAPIMap returns counts every request once, in whatever order
\* the paths were inserted, but for paths that differ in their outer slashes
\* only, of which the last one counts.  The numbers by status may be fewer, if
\* a path was inserted before one that leads through it.
MapIsExact ==
    apiMap # None /\ apiMap.left = {} =>
      LET paths == {p \in Paths : apiMap.counts[p] > 0}
          root == AggregateNodeStats(apiMap.tree)[Root]
          rows == MapThenSumSet(LAMBDA p : apiMap.counts[p], paths)
      IN /\ root.stats <= root.count
         /\ root.count <= rows
         /\ (\A p, q \in paths : ~SameNode(p, q) /\ ~NoNode(p)) => root.count = rows
         /\ (\A p, q \in paths : ~Through(p, q)) => root.stats = root.count
=============================================================================
