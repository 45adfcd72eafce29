------------------------------ MODULE Listing ------------------------------
(* The paged lists of the gateway, read page by page while what they list changes.

   A first page captures a position and what its cursor is bound to; a later one is served
   only while that holds.  The lists differ in what they bind.  Some only fix an upper
   insertion sequence and let rows change and go (ListPrincipals, ListServers, ...); some are
   refused after any change of what they show, recognised by a revision, a generation, a
   digest of everything listed or a pair of counts.  Two are not read in one step:
   queryServers joins stored rows with what each server does, and tools/list joins the
   policy of the caller with the catalog. *)
EXTENDS Integers, FiniteSets, SequencesExt

CONSTANTS
  Keys,         \* what rows are sorted by
  PageRows,     \* rows of a page
  LastRow,      \* bound: insertion sequences
  Retained,     \* terminal rows that are kept of operations and flows
  MaxChanges    \* bound: changes during a walk

ASSUME ListingAssumption ==
  Keys \subseteq Nat /\ PageRows \in Nat \ {0} /\ LastRow \in Nat /\ Retained \in Nat /\ MaxChanges \in Nat

VARIABLES
  listing,   \* the list that is read, and its filter
  table,     \* [rows, last, floor, revision, generation]: what it lists
  world,     \* [process, subject, policy, allowed, lease]: who serves and who asks
  reader     \* the walk: [state, upper, position, after, bound, lapsed, page, seen, base, kept, ...]

listingVars == <<listing, table, world, reader>>

-----------------------------------------------------------------------------
(* The lists.  Where a page starts: after an insertion sequence ("after"), at an offset
   ("position"), or behind a row that must still be there ("anchor"). *)

List(name, order, start, upper, binds) ==
  [table |-> name, order |-> order, start |-> start, upper |-> upper, binds |-> binds]

ListPrincipals  == List("principals",  "sequence", "after",    TRUE,  {"seal"})
ListGrants      == List("grants",      "sequence", "after",    TRUE,  {"seal"})
ListSelfGrants  == List("grants",      "sequence", "after",    TRUE,  {"key", "subject"})
ListServers     == List("servers",     "sequence", "after",    TRUE,  {})
ListOperations  == List("operations",  "sequence", "after",    TRUE,  {"floor"})
ListAuthFlows   == List("flows",       "sequence", "after",    TRUE,  {"floor"})
ListDescriptors == List("descriptors", "sequence", "after",    TRUE,  {"revision"})
ListActive      == List("active",      "sequence", "after",    TRUE,  {"generation"})
QueryActive     == List("active",      "key",      "position", TRUE,  {"generation"})
QueryDescriptors == List("descriptors", "key",     "position", TRUE,  {"key", "revision"})
QueryOperations == List("operations",  "key",      "position", TRUE,  {"key", "floor", "counts"})
QueryServers    == List("servers",     "key",      "position", TRUE,  {"key", "digest"})
QueryPrincipals == List("principals",  "key",      "position", FALSE, {"seal", "digest"})
QueryGrants     == List("grants",      "key",      "position", FALSE, {"seal", "digest"})
SelectGitCollection  == List("grants", "key",      "anchor",   FALSE, {"seal", "digest"})
SelectCredentialPage == List("grants", "key",      "anchor",   FALSE, {"seal", "digest"})
ListTools       == List("active",      "key",      "position", FALSE, {"key", "generation", "subject", "policy"})

Lists ==
  [ListPrincipals |-> ListPrincipals, ListGrants |-> ListGrants, ListSelfGrants |-> ListSelfGrants,
   ListServers |-> ListServers, ListOperations |-> ListOperations, ListAuthFlows |-> ListAuthFlows,
   ListDescriptors |-> ListDescriptors,
   ListActive |-> ListActive, QueryActive |-> QueryActive, QueryDescriptors |-> QueryDescriptors,
   QueryOperations |-> QueryOperations, QueryServers |-> QueryServers, QueryPrincipals |-> QueryPrincipals,
   QueryGrants |-> QueryGrants, SelectGitCollection |-> SelectGitCollection,
   SelectCredentialPage |-> SelectCredentialPage, ListTools |-> ListTools]

Now == Lists[listing.name]
Kind == Now.table
Progressing == {"operations", "flows"}   \* rows that end, and are pruned
Ended(row) == row.phase = "done"

\* The rows a page is chosen from, up to the sequence its first page captured.
WithinUpper(rows, upper) == Restrict(rows, {s \in DOMAIN rows : Now.upper => s <= upper})
Matching(rows) == {s \in DOMAIN rows : listing.filter = "all" \/ rows[s].phase = listing.filter}

\* Sorted by the key, or by insertion, and equal keys by identifier.
Before(rows, a, b) ==
  \/ Now.order = "key" /\ rows[a].key < rows[b].key
  \/ (Now.order = "key" => rows[a].key = rows[b].key) /\ a < b
Ordered(rows) ==
  LET s == SetToSortSeq(Matching(rows), LAMBDA a, b : Before(rows, a, b))
  IN  [i \in DOMAIN s |-> [seq |-> s[i], row |-> rows[s[i]]]]

InPhase(rows, phase) == Cardinality({s \in DOMAIN rows : rows[s].phase = phase})

\* What the cursor of a list is bound to, as it is now; "key" is the process that sealed it.
Bound(candidates, policy) ==
  [b \in Now.binds |->
     CASE b \in {"seal", "key"} -> world.process
       [] b = "floor"      -> table.floor
       [] b = "revision"   -> table.revision
       [] b = "generation" -> <<world.process, table.generation>>
       [] b = "subject"    -> policy.subject
       [] b = "policy"     -> policy.revision
       [] b = "digest"     -> candidates
       [] b = "counts"     -> <<InPhase(candidates, "scheduled"), InPhase(candidates, "running")>>]

CurrentPolicy == [subject |-> world.subject, revision |-> world.policy, allowed |-> world.allowed]

\* LoadDiscoveryPolicy and structurallyVisible: what the caller may see of a catalog.
Visible(rows, policy) == Restrict(rows, {s \in DOMAIN rows : s \in policy.allowed /\ rows[s].phase = "live"})

-----------------------------------------------------------------------------
(* A page. *)

Idle == [state |-> "idle", upper |-> 0, position |-> 0, after |-> 0, bound |-> <<>>, lapsed |-> FALSE,
         first |-> TRUE, pages |-> 0, seen |-> <<>>, base |-> <<>>, kept |-> {}, truth |-> <<>>,
         stored |-> <<>>, unread |-> {}, policy |-> <<>>, fresh |-> <<>>, changes |-> 0]

End(state) == reader' = [reader EXCEPT !.state = state]

\* How many of the ordered rows the cursor has passed; -1 when its place is lost.
Start(order) ==
  CASE reader.after = 0 -> 0
    [] Now.start = "position" -> IF reader.position <= Len(order) THEN reader.position ELSE -1
    [] Now.start = "after"    -> Cardinality({i \in DOMAIN order : order[i].seq <= reader.after})
    [] Now.start = "anchor"   -> IF \E i \in DOMAIN order : order[i].seq = reader.after
                                 THEN CHOOSE i \in DOMAIN order : order[i].seq = reader.after ELSE -1
\* Three of the lists refuse a page behind the last row, where others serve an empty one.
Behind(order, start) ==
  listing.name \in {"SelectCredentialPage", "QueryOperations", "ListTools"} /\ start > 0 /\ start = Len(order)

\* authenticCursor and the comparisons of each list: the cursor is genuine, unexpired and still bound.
Accepted(bound) == reader.first \/ (reader.bound = bound /\ ("seal" \in Now.binds => ~reader.lapsed))

\* Position, slice and next cursor over the rows that were read.
Serve(candidates, upper, bound) ==
  LET order == Ordered(candidates)
      start == Start(order)
      end   == IF start + PageRows < Len(order) THEN start + PageRows ELSE Len(order)
  IN  IF ~Accepted(bound) \/ start = -1 \/ Behind(order, start) THEN End("refused")
      ELSE reader' = [reader EXCEPT
             !.state = IF end < Len(order) THEN "between" ELSE "done",
             !.upper = upper, !.position = end, !.after = IF end = 0 THEN 0 ELSE order[end].seq, !.bound = bound,
             !.first = FALSE, !.pages = @ + 1, !.seen = @ \o SubSeq(order, start + 1, end),
             !.base = IF reader.first THEN SubSeq(order, start + 1, Len(order)) ELSE @,
             !.kept = IF reader.first THEN {order[i].seq : i \in start + 1 .. Len(order)} ELSE @,
             !.stored = <<>>, !.policy = <<>>, !.fresh = <<>>]

Watermark == IF reader.first THEN IF table.rows = <<>> THEN 0 ELSE Max(DOMAIN table.rows) ELSE reader.upper
Turn == reader.state \in {"idle", "between"}

\* The lists that are read in one transaction or under one lock.
ReadPage ==
  /\ Turn /\ listing.name \notin {"QueryServers", "ListTools"}
  /\ LET candidates == WithinUpper(table.rows, Watermark)
     IN  Serve(candidates, Watermark, Bound(candidates, CurrentPolicy))
  /\ UNCHANGED <<listing, table, world>>

\* A client of an earlier version resumes behind a row with a cursor that is not sealed.
ResumeLegacy ==
  /\ reader = Idle /\ Now.start = "anchor" /\ listing.filter = "all"
  /\ \E s \in DOMAIN table.rows : reader' = [reader EXCEPT !.after = s]
  /\ UNCHANGED <<listing, table, world>>

\* queryServers: the stored rows in one transaction, then what each server does, one by one.
Inventory ==
  /\ Turn /\ listing.name = "QueryServers"
  /\ IF reader.first \/ reader.bound["key"] = world.process
     THEN LET stored == WithinUpper(table.rows, Watermark)
          IN  reader' = [reader EXCEPT !.state = "observing", !.upper = Watermark,
                                       !.stored = stored, !.unread = DOMAIN stored]
     ELSE End("refused")
  /\ UNCHANGED <<listing, table, world>>
ServerResource ==
  /\ reader.state = "observing" /\ reader.unread # {}
  /\ LET s == Min(reader.unread)
     IN  reader' = [reader EXCEPT !.stored[s].phase = table.rows[s].phase, !.unread = @ \ {s}]
  /\ UNCHANGED <<listing, table, world>>
AnswerInventory ==
  /\ reader.state = "observing" /\ reader.unread = {}
  /\ Serve(reader.stored, reader.upper, Bound(reader.stored, CurrentPolicy))
  /\ UNCHANGED <<listing, table, world>>

\* tools/list: the policy, the catalog, the lease and the generation again, the lease once more.
LoadDiscoveryPolicy ==
  /\ Turn /\ listing.name = "ListTools"
  /\ reader' = [reader EXCEPT !.state = "admitted", !.policy = CurrentPolicy,
                             !.truth = Ordered(Visible(table.rows, CurrentPolicy))]
  /\ world' = [world EXCEPT !.lease = "current"]
  /\ UNCHANGED <<listing, table>>
CurrentSnapshot ==
  /\ reader.state = "admitted"
  /\ LET bound == Bound(<<>>, reader.policy)
     IN  IF Accepted(bound)
         THEN reader' = [reader EXCEPT !.state = "projecting", !.fresh = bound,
                                       !.stored = Visible(table.rows, reader.policy)]
         ELSE End("refused")
  /\ UNCHANGED <<listing, table, world>>
Project ==
  /\ reader.state = "projecting"
  /\ IF world.lease = "current" /\ Bound(<<>>, reader.policy) = reader.fresh
     THEN reader' = [reader EXCEPT !.state = "projected"] ELSE End("refused")
  /\ UNCHANGED <<listing, table, world>>
AnswerToolsList ==
  /\ reader.state = "projected"
  /\ IF world.lease = "current" THEN Serve(reader.stored, 0, reader.fresh) ELSE End("refused")
  /\ UNCHANGED <<listing, table, world>>

-----------------------------------------------------------------------------
(* What changes meanwhile. *)

\* The rows a walk owes its reader: those that have matched ever since it began, or, where
\* deletions are fenced by a floor, all it began with.
Kept(rows) == IF "floor" \in Now.binds THEN reader.kept ELSE reader.kept \cap Matching(rows)

Change(t) ==
  /\ reader.changes < MaxChanges
  /\ table' = t
  /\ reader' = [reader EXCEPT !.changes = @ + 1, !.kept = Kept(t.rows)]
  /\ UNCHANGED <<listing, world>>

Put(rows, s, row) == [r \in DOMAIN rows \cup {s} |-> IF r = s THEN row ELSE rows[r]]
Row(key, phase) == [key |-> key, phase |-> phase]

\* Terminal rows beyond the newest ones are deleted with the change that made them too many.
Prune(t) ==
  LET over == {s \in DOMAIN t.rows : /\ Ended(t.rows[s])
                                     /\ Cardinality({r \in DOMAIN t.rows : r > s /\ Ended(t.rows[r])}) >= Retained}
  IN  IF over = {} THEN t ELSE [t EXCEPT !.rows = Restrict(@, DOMAIN @ \ over), !.floor = @ + 1]

First == CASE Kind = "operations" -> "scheduled" [] Kind = "flows" -> "running" [] OTHER -> "live"

\* Create: a new row has the next insertion sequence, which is never used again.
Insert ==
  /\ Kind \notin {"active", "descriptors"} /\ table.last < LastRow
  /\ \E key \in Keys :
       LET t == [table EXCEPT !.rows = Put(@, table.last + 1, Row(key, First)), !.last = @ + 1]
       IN  Change(IF Kind = "flows" THEN Prune(t) ELSE t)

\* Patch, or a grant that expires: any of what a row is sorted and selected by.
Edit ==
  /\ Kind \in {"principals", "grants", "servers"}
  /\ \E s \in DOMAIN table.rows, key \in Keys, phase \in {"live", "off"} :
       Row(key, phase) # table.rows[s] /\ Change([table EXCEPT !.rows[s] = Row(key, phase)])

\* Principals and servers keep their rows.
Delete ==
  /\ Kind = "grants"
  /\ \E s \in DOMAIN table.rows : Change([table EXCEPT !.rows = Restrict(@, DOMAIN @ \ {s})])

\* An operation starts, ends, or is superseded before it starts; a flow ends.
Advance ==
  /\ Kind \in Progressing
  /\ \E s \in DOMAIN table.rows, key \in Keys, phase \in {"running", "done"} :
       /\ ~Ended(table.rows[s]) /\ table.rows[s].phase # phase
       /\ LET t == [table EXCEPT !.rows[s] = Row(key, phase)]
          IN  Change(IF phase = "done" THEN Prune(t) ELSE t)

\* Repository.Commit: the tools of a traversal are seen now, all others are retired.
CommitCatalog ==
  /\ Kind = "descriptors"
  /\ \E live \in SUBSET (DOMAIN table.rows \cup ({table.last + 1} \cap 1 .. LastRow)), key \in Keys :
       Change([table EXCEPT !.rows = [s \in DOMAIN @ \cup live |->
                                        IF s \in live THEN Row(key, "live")
                                                      ELSE [@[s] EXCEPT !.phase = "off"]],
                            !.last = IF table.last + 1 \in live THEN @ + 1 ELSE @,
                            !.revision = @ + 1])

\* Publish, Withdraw, markStale: every change of the active catalog advances its counter.
PublishCatalog ==
  /\ Kind = "active"
  /\ \E tools \in SUBSET (1 .. LastRow), key \in Keys, phase \in {"live", "off"} :
       LET rows == [s \in tools |->
                      IF s \in DOMAIN table.rows THEN [table.rows[s] EXCEPT !.phase = phase]
                                                 ELSE Row(key, phase)]
       IN  rows # table.rows /\ Change([table EXCEPT !.rows = rows, !.generation = @ + 1])

\* A change of grants advances the authorization revision, and no lease is cancelled for it.
ChangeGrants ==
  /\ listing.name = "ListTools" /\ reader.changes < MaxChanges
  /\ \E allowed \in SUBSET (1 .. LastRow) :
       allowed # world.allowed /\ world' = [world EXCEPT !.allowed = allowed, !.policy = @ + 1]
  /\ reader' = [reader EXCEPT !.changes = @ + 1]
  /\ UNCHANGED <<listing, table>>

\* The principal or its credential changes; the leases it affects are cancelled after the commit.
ChangeSubject ==
  /\ "subject" \in Now.binds /\ reader.changes < MaxChanges
  /\ world' = [world EXCEPT !.subject = @ + 1, !.lease = IF @ = "current" THEN "doomed" ELSE @]
  /\ reader' = [reader EXCEPT !.changes = @ + 1]
  /\ UNCHANGED <<listing, table>>
CancelLease ==
  /\ world.lease = "doomed"
  /\ world' = [world EXCEPT !.lease = "cancelled"]
  /\ UNCHANGED <<listing, table, reader>>

\* A cursor's lifetime ends.
Lapse ==
  /\ reader.state = "between" /\ ~reader.lapsed
  /\ reader' = [reader EXCEPT !.lapsed = TRUE]
  /\ UNCHANGED <<listing, table, world>>

\* Another process serves the rest: new keys and epochs, and no active catalog yet.
Restarted ==
  /\ reader.state = "between" /\ reader.changes < MaxChanges
  /\ world' = [world EXCEPT !.process = @ + 1]
  /\ table' = IF Kind = "active" THEN [table EXCEPT !.rows = <<>>, !.generation = 0] ELSE table
  /\ reader' = [reader EXCEPT !.changes = @ + 1, !.kept = Kept(table'.rows)]
  /\ UNCHANGED listing

-----------------------------------------------------------------------------

Phases(kind) ==
  CASE kind = "operations" -> {"scheduled", "running", "done"} [] kind = "flows" -> {"running", "done"}
    [] OTHER -> {"live", "off"}

\* Some lists select rows by what may change; the others show all, or select by what does not.
Filters(name) ==
  IF name = "ListDescriptors" \/ (Lists[name].order = "key" /\ name # "ListTools")
  THEN {"all"} \cup Phases(Lists[name].table) ELSE {"all"}

ListingInit ==
  /\ \E name \in DOMAIN Lists : \E filter \in Filters(name) : listing = [name |-> name, filter |-> filter]
  /\ \E rows \in [1 .. LastRow - 1 ->
                   [key : Keys, phase : IF Kind \in Progressing THEN Phases(Kind) ELSE {"live"}]] :
       /\ Kind \in Progressing => Cardinality({s \in DOMAIN rows : Ended(rows[s])}) <= Retained
       /\ table = [rows |-> rows, last |-> LastRow - 1, floor |-> 0, revision |-> 1, generation |-> 1]
  /\ world = [process |-> 1, subject |-> 1, policy |-> 1, allowed |-> 1 .. LastRow, lease |-> "none"]
  /\ reader = Idle

ListingNext ==
  \/ ReadPage \/ ResumeLegacy \/ Inventory \/ ServerResource \/ AnswerInventory
  \/ LoadDiscoveryPolicy \/ CurrentSnapshot \/ Project \/ AnswerToolsList
  \/ Insert \/ Edit \/ Delete \/ Advance \/ CommitCatalog \/ PublishCatalog
  \/ ChangeGrants \/ ChangeSubject \/ CancelLease \/ Lapse \/ Restarted

ListingSpec == ListingInit /\ [][ListingNext]_listingVars

-----------------------------------------------------------------------------
(* Properties. *)

Exact == Now.binds \cap {"digest", "revision", "generation", "counts"} # {}
SeenRows == {reader.seen[i].seq : i \in DOMAIN reader.seen}

\* A list that is bound to what it shows is read, over all its pages, as it was on the first
\* one, whole when the walk ends; the others show no row twice, none that was inserted after
\* they began, and when they end every row that was there all along, or, where rows are
\* pruned, every row that was there at the beginning.
PagesAreOneList ==
  IF Exact
  THEN IsPrefix(reader.seen, reader.base) /\ (reader.state = "done" => reader.seen = reader.base)
  ELSE /\ \A i, j \in DOMAIN reader.seen : i < j => reader.seen[i].seq < reader.seen[j].seq
       /\ \A s \in SeenRows : s <= reader.upper
       /\ reader.state = "done" => reader.kept \subseteq SeenRows

\* An agent's list of tools that took several pages is what one moment would have shown it:
\* the policy and the catalog are read apart, but none of the two changed in between.
ToolsAreCoherent ==
  listing.name = "ListTools" /\ reader.pages >= 2 /\ reader.state \in {"between", "done"}
    => reader.truth = reader.base

ListingsAreWhole == PagesAreOneList /\ ToolsAreCoherent
=============================================================================
