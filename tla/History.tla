------------------------------ MODULE History ------------------------------
(* The retained histories an administrator reads: the control audit log and the
   traffic store's MCP, HTTP and Git records. Every list is read newest first in
   pages, each page in a transaction of its own; a cursor carries what the first
   page saw (generation, pruning, high-water mark, recognised names) and the server
   refuses it once that has changed. The export walks the same records oldest
   first, bounded by the high-water mark of its first page. Nothing pins a snapshot:
   records arrive, are pruned and are replaced between two pages. *)
EXTENDS FiniteSetsExt, Integers, Sequences

CONSTANTS
  Null,          \* no cursor
  MaxRecords     \* the records appended in a behaviour

VARIABLES
  hist,          \* the history: its generation, high-water mark and retained records
  names          \* what the names the filter recognises are resolved to

historyVars == <<hist, names>>

ASSUME MaxRecordsAssumption == MaxRecords \in Nat \ {0}

EmptyHistory == [gen |-> 1, high |-> 0, kept |-> {}]

HistoryInit == hist = EmptyHistory /\ names = 1

\* How many records of this generation are gone.
Pruning == hist.high - Cardinality(hist.kept)
\* The oldest retained record; 0 when there is none.
Oldest == IF hist.kept = {} THEN 0 ELSE Min(hist.kept)

----------------------------------------------------------------------------
(* What changes a history. *)

AppendTx ==
  /\ hist.high < MaxRecords
  /\ hist' = [hist EXCEPT !.high = @ + 1, !.kept = @ \union {hist.high + 1}]
  /\ UNCHANGED names

\* A log loses its oldest record to an insertion. In the audit log the new record is
\* one of its own; in the traffic store it may be of another protocol.
Prune(audit) ==
  /\ hist.kept # {}
  /\ audit => Cardinality(hist.kept) > 1
  /\ hist' = [hist EXCEPT !.kept = @ \ {Oldest}]
  /\ UNCHANGED names

\* A restore replaces the audit log, a recovery the traffic generation.
Replace ==
  /\ hist.gen = 1 /\ hist.high > 0
  /\ hist' = [EmptyHistory EXCEPT !.gen = 2]
  /\ UNCHANGED names

Rename ==
  /\ names = 1
  /\ names' = 2
  /\ UNCHANGED hist

----------------------------------------------------------------------------
(* One page. A record is identified by its generation and sequence. *)

Record(n) == [gen |-> hist.gen, n |-> n]

\* The newest record at or below a bound; the page holds one record and the cursor
\* stands for the next.
Newest(bound) ==
  LET below == {n \in hist.kept : n <= bound}
  IN  IF below = {} THEN <<>> ELSE <<Record(Max(below))>>

Page(items, next) == [code |-> "ok", items |-> items, next |-> next, gen |-> hist.gen, oldest |-> Oldest]
Refused(code) == [code |-> code, items |-> <<>>, next |-> Null, gen |-> hist.gen, oldest |-> Oldest]

\* The cursor of a page whose first page saw the high-water mark upper.
Cursor(items, upper) ==
  IF items = <<>> \/ {n \in hist.kept : n < items[1].n} = {} THEN Null
  ELSE [gen |-> hist.gen, pruning |-> Pruning, oldest |-> Oldest, names |-> names,
        upper |-> upper, before |-> items[1].n]

\* The records a page starts from, and the mark its walk started at.
Items(cursor) == Newest(IF cursor = Null THEN hist.high ELSE cursor.before - 1)
Upper(cursor) == IF cursor = Null THEN hist.high ELSE cursor.upper

\* The audit log: a caller that knows a generation is told of a replacement; a moved
\* retention boundary or a different set of recognised targets makes a cursor stale.
AuditList(cursor, known) ==
  IF (known # 0 /\ known # hist.gen) \/ (cursor # Null /\ cursor.gen # hist.gen) THEN Refused("replaced")
  ELSE IF cursor # Null /\ (cursor.oldest # Oldest \/ cursor.names # names) THEN Refused("stale")
  ELSE Page(Items(cursor), Cursor(Items(cursor), Upper(cursor)))

\* MCP invocations: the cursor names the next record itself, which must be retained.
InvocationList(cursor) ==
  IF /\ cursor # Null
     /\ \/ cursor.gen # hist.gen \/ cursor.pruning # Pruning \/ cursor.names # names
        \/ Oldest = 0 \/ Oldest >= cursor.before
  THEN Refused("stale") ELSE Page(Items(cursor), Cursor(Items(cursor), Upper(cursor)))

\* HTTP exchanges: as above, and the high-water mark may not have fallen.
HTTPList(cursor) ==
  IF /\ cursor # Null
     /\ \/ cursor.gen # hist.gen \/ cursor.pruning # Pruning \/ cursor.names # names
        \/ cursor.upper > hist.high
  THEN Refused("stale") ELSE Page(Items(cursor), Cursor(Items(cursor), Upper(cursor)))

\* Git exchanges: the repository's name is recorded with the exchange, so a rename
\* does not disturb a walk.
GitList(cursor) ==
  IF /\ cursor # Null
     /\ \/ cursor.gen # hist.gen \/ cursor.pruning # Pruning \/ cursor.upper > hist.high
  THEN Refused("stale") ELSE Page(Items(cursor), Cursor(Items(cursor), Upper(cursor)))

\* One record, by its identity: the first of generation 1.
ReadItem(known) ==
  IF known # 0 /\ known # hist.gen THEN Refused("replaced")
  ELSE IF hist.gen = 1 /\ 1 \in hist.kept THEN Page(<<[gen |-> 1, n |-> 1]>>, Null)
  ELSE Refused("missing")

\* The export: the retained records after a sequence, at most through a mark, one
\* record a page, with the counters the reader checks its walk against (and, for the
\* properties only, all that was retained).
ExportHistoryThrough(after, through) ==
  LET due == {n \in hist.kept : n > after /\ (through = Null \/ n <= through)}
  IN  [code |-> "ok", gen |-> hist.gen, high |-> hist.high, pruning |-> Pruning,
       retained |-> Cardinality(hist.kept), truncated |-> Cardinality(due) > 1,
       items |-> IF due = {} THEN <<>> ELSE <<Record(Min(due))>>, all |-> hist.kept]
=============================================================================
