-------------------------- MODULE MCGrantRequests --------------------------
(* Grant requests, and the other paged lists, on a small instance. *)
EXTENDS GrantRequests, Listing

CONSTANTS p1, s1, t1, a1

Policy(tool, constraint, duration, readOnly) ==
    [server |-> s1, tool |-> tool, constraint |-> constraint, duration |-> duration,
     future |-> tool = Null, readOnly |-> readOnly]

\* A whole server, read-only or not, and a tool of it, constrained, for a while.
MCPolicies == {Policy(Null, Null, Null, FALSE), Policy(Null, Null, Null, TRUE), Policy(t1, [version |-> 1, atoms |-> {a1}], 1, FALSE)}

\* A behaviour pages through lists of requests, or moves the clock and issues grants,
\* or pages through another list: the three do not read each other's state.
VARIABLE focus

\* Where rows are listed as they were inserted their keys do not matter.
OneKey == Now.order = "sequence" => \A s \in DOMAIN table.rows : table.rows[s].key = 1

\* The tools of a catalog may be numbered as they are sorted when the walk begins: nothing
\* tells one from another but its key.
Numbered ==
  Kind = "active" => \A r, s \in DOMAIN table.rows : r < s => table.rows[r].key <= table.rows[s].key

MCInit == /\ focus \in {"lists", "grants", "pages"}
          /\ RequestsInit
          /\ IF focus = "pages" THEN ListingInit /\ OneKey /\ Numbered
             ELSE listing = Null /\ table = Null /\ world = Null /\ reader = Null

MCNext == /\ UNCHANGED focus
          /\ IF focus = "pages" THEN ListingNext /\ OneKey' /\ UNCHANGED requestVars
             ELSE /\ RequestsNext /\ UNCHANGED listingVars
                  /\ focus = "lists" => clock' = clock /\ db'.grants = {}
                  /\ focus = "grants" => walk' = Null

MCSpec == MCInit /\ [][MCNext]_<<requestVars, listingVars, focus>>

\* Whoever pages through a list to its end, of requests or of anything else, while rows
\* come, change and go, has read one list: no row twice, none missing.
WalksComplete == WalkComplete /\ (focus = "pages" => ListingsAreWhole)
=============================================================================
