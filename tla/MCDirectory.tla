---------------------------- MODULE MCDirectory ----------------------------
(* Two vendors that a query finds in either order, the second of them with *)
(* a feed that moves, or the first one twice; one feed is that of a known  *)
(* podcast.  Two threads, three requests; enough ids that a fresh one is   *)
(* always left.  Two threads that search first make two rows for the       *)
(* query, which then are like those of two queries.                        *)
EXTENDS Directory

CONSTANTS r1, r2, q1, v1, v2, f1, f2

MCRequests == {r1, r2}
MCQueries == {q1}
MCVendors == {v1, v2}
MCFeeds == {f1, f2}
MCPodcasts == 1..2
MCKnownPodcasts == [f \in MCFeeds |-> IF f = f2 THEN 1 ELSE 0]
MCResults ==
    LET Found == SearchResult(v1, f1)
        Known == SearchResult(v2, f2)
        Moved == SearchResult(v2, f1)
    IN  {<<Found, Known>>, <<Moved, Found>>, <<Found, Found>>}
MCSearches == 1..3
MCEntries == 1..3
=============================================================================
