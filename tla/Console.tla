------------------------------ MODULE Console ------------------------------
(* The administrator's web console: the session client and its epochs, the view
   coordinator that reads the panels of the current page and keeps them fresh from
   the event stream, and the controllers of the pages that show a retained history.

   One page shows at most two panels. "count" stands for every panel that shows the
   server's current state as one value (the pending-request count, the status, the
   resources of a page); "history" is the list of one history page, whose controller
   is config.kind. Each callback of the browser (a click, a response, a timer, an
   effect of a render) is one step. *)
EXTENDS History

CONSTANTS
  Controllers,   \* the history controllers under study
  MaxDrops,      \* streams that end or are refused
  MaxMoves,      \* navigations
  MaxFails,      \* reads the network or the server fails
  MaxClicks,     \* refreshes, polls and list controls
  MaxLosses      \* sessions that are lost or ended

ASSUME ConsoleAssumption ==
  /\ Controllers \subseteq {"audit", "invocations", "http", "git", "related", "export"}
  /\ {MaxDrops, MaxMoves, MaxFails, MaxClicks, MaxLosses} \subseteq Nat

VARIABLES
  config,        \* the history controller and the scope of the other panel
  life,          \* SessionClient.lifecycle
  epoch,         \* SessionClient.epoch
  session,       \* what the server thinks of the session cookie
  ui,            \* the view coordinator, its panels and the controllers' values
  stream,        \* the event stream: its state and the events on it
  retry,         \* a reconnection is scheduled
  unpublished,   \* changes committed whose event the hub has not seen yet
  used           \* how much of each bound is used up

consoleVars == <<config, life, epoch, session, ui, stream, retry, unpublished, used>>
pageVars == <<historyVars, consoleVars>>

Panels == {"count", "history"}
Views == {"overview", "list", "item"}
Automatic == {"invalidation", "reconnect", "poll"}
Traffic == {"invocations", "http", "git"}

NoStream == [state |-> "none", queue |-> 0]
Connected == stream.state = "open"

Loading == [status |-> "loading", hasValue |-> FALSE, refreshing |-> FALSE]

\* A history controller before it has read anything.
EmptyList ==
  [key |-> "none", live |-> TRUE, paused |-> FALSE, items |-> <<>>, next |-> Null, continuation |-> Null,
   loading |-> FALSE, error |-> FALSE, olderError |-> FALSE, updates |-> FALSE, loaded |-> FALSE,
   known |-> 0, item |-> "none", all |-> {}]

ConsoleInit ==
  /\ HistoryInit
  /\ config \in [kind : Controllers, scope : {"session", "view"}]
  /\ life = "bootstrapping" /\ epoch = 0
  /\ session \in {"ok", "gone"}
  /\ \E v \in Views :
       ui = [view |-> v, active |-> FALSE, panels |-> [p \in Panels |-> Loading], reads |-> {},
             shown |-> Null, pending |-> {}, list |-> EmptyList]
  /\ stream = NoStream /\ retry = FALSE /\ unpublished = 0
  /\ used = [drops |-> 0, moves |-> 0, fails |-> 0, clicks |-> 0, losses |-> 0]

Use(what, bound) == used[what] < bound /\ used' = [used EXCEPT ![what] = @ + 1]

----------------------------------------------------------------------------
(* Panels: where they are visible, what invalidates them, when they are read. *)

\* The pending-request count belongs to the session, the other values to a page.
CountMatches(v) == config.scope = "session" \/ v = "overview"

\* The audit, invocation and HTTP controllers show a list and one record; the Git
\* controller a list; related history and the export one page each.
HistoryMatches(v) ==
  IF config.kind \in {"audit", "invocations", "http"} THEN v \in {"list", "item"} ELSE v = "list"

Matches(p, v) == IF p = "count" THEN CountMatches(v) ELSE HistoryMatches(v)
Visible(u) == {p \in Panels : Matches(p, u.view)}

\* Mutant: only the Live switch counts.
FollowsHeadWhilePaused(u) == u.list.live
\* A paused or switched-off list is not replaced behind its reader.
FollowsHead(u) == u.list.live /\ ~u.list.paused

AuditShouldRefresh(u, reason) == reason \notin Automatic \/ u.view = "item" \/ FollowsHead(u)
InvocationsShouldRefresh(u, reason) == reason \in Automatic => u.view = "item" \/ FollowsHead(u)
HTTPShouldRefresh(u, reason) == reason \notin Automatic \/ u.view = "item" \/ FollowsHead(u)
GitShouldRefresh(u, reason) == reason \notin Automatic \/ FollowsHead(u)
RelatedShouldRefresh(reason) == reason \in {"navigation", "manual", "panel"}

ShouldRefresh(u, p, reason) ==
  p = "history" =>
    CASE config.kind = "audit" -> AuditShouldRefresh(u, reason)
      [] config.kind = "invocations" -> InvocationsShouldRefresh(u, reason)
      [] config.kind = "http" -> HTTPShouldRefresh(u, reason)
      [] config.kind = "git" -> GitShouldRefresh(u, reason)
      [] config.kind = "related" -> RelatedShouldRefresh(reason)
      [] config.kind = "export" -> reason = "panel"

\* A controller starts to read. On another page than its value's it begins again,
\* keeping the reader's choices; only an explicit panel refresh continues a walk.
StartList(u) ==
  LET l == u.list
      kept == IF l.key = u.view THEN l
              ELSE [EmptyList EXCEPT !.key = u.view, !.live = l.live, !.paused = l.paused, !.known = l.known]
  IN  [kept EXCEPT !.continuation = IF u.view = "list" THEN Null ELSE @,
                   !.loading = @ \/ config.kind \in {"related", "export"}]

Continuation(u, reason) ==
  IF u.list.key = u.view /\ u.view = "list" /\ reason = "panel" THEN u.list.continuation ELSE Null

NewRead(u, p, reason) ==
  LET cursor == IF p = "history" THEN Continuation(u, reason) ELSE Null
  IN  [panel |-> p, view |-> u.view, epoch |-> epoch, current |-> TRUE, aborted |-> FALSE, reason |-> reason,
       cursor |-> cursor, previous |-> IF cursor = Null THEN <<>> ELSE u.list.items,
       serial |-> TRUE, expect |-> IF p = "history" /\ config.kind = "audit" THEN u.list.known ELSE 0,
       walk |-> Null, response |-> Null]

\* Reads whose panel has been aborted. A read that watches its signal is rejected and
\* has no further effect; the principal directory's does not, and answers later.
Aborted(reads, panels) ==
  {r \in reads : r.panel \notin panels}
    \union {[r EXCEPT !.aborted = TRUE] : r \in {x \in reads : x.panel \in panels /\ x.panel = "count" /\ x.current}}
Superseded(reads, panels) ==
  {[r EXCEPT !.current = r.current /\ r.panel \notin panels] : r \in Aborted(reads, panels)}

\* The controller's serial moves on: an earlier read no longer carries it.
Bump(reads) == {[r EXCEPT !.serial = r.serial /\ r.panel # "history"] : r \in reads}

\* What the rejection of a continuation does: the controller that awaits it clears
\* its progress mark.
SettleOlder(u, panels) ==
  IF /\ "history" \in panels /\ config.kind \in {"invocations", "http"}
     /\ \E r \in u.reads : r.panel = "history" /\ r.cursor # Null
  THEN [u.list EXCEPT !.loading = FALSE] ELSE u.list

\* ViewCoordinator.refresh: the selected panels' reads are superseded and begun again.
Refresh(u, candidates, reason, connected) ==
  LET selected == {p \in candidates : Matches(p, u.view) /\ ShouldRefresh(u, p, reason)}
      settled == [u EXCEPT !.list = SettleOlder(u, selected)]
  IN  [settled EXCEPT
        !.reads = Superseded(@, selected) \union {NewRead(settled, p, reason) : p \in selected},
        !.panels = [p \in Panels |->
          IF p \in selected
          THEN [status |-> IF ~@[p].hasValue THEN "loading" ELSE IF connected THEN "current" ELSE "stale",
                hasValue |-> @[p].hasValue, refreshing |-> TRUE]
          ELSE @[p]],
        !.list = IF "history" \in selected THEN StartList(settled) ELSE @]

MarkVisiblePanelsStale(u) ==
  [u EXCEPT !.panels = [p \in Panels |->
     IF p \in Visible(u)
     THEN [status |-> IF @[p].hasValue THEN "stale" ELSE "loading", hasValue |-> @[p].hasValue, refreshing |-> FALSE]
     ELSE @[p]]]

MarkVisiblePanelsLoading(u) ==
  [u EXCEPT !.panels = [p \in Panels |->
     IF p \in Visible(u) /\ ~(p = "count" /\ config.scope = "session") THEN Loading ELSE @[p]]]

CancelPanelRead(u) ==
  [u EXCEPT !.reads = Superseded(@, {"history"}),
            !.list = SettleOlder(u, {"history"}),
            !.panels["history"].refreshing = FALSE]

\* The protected state of the view owner and of every controller is cleared.
Reset(u) ==
  [u EXCEPT !.active = FALSE, !.reads = Aborted(@, Panels), !.pending = {}, !.shown = Null,
            !.list = EmptyList, !.panels = [p \in Panels |-> Loading]]

----------------------------------------------------------------------------
(* The session client. *)

\* Every request and timer of the old epoch is cancelled, protected state cleared.
AdvanceEpoch(next) ==
  /\ life' = next /\ epoch' = epoch + 1
  /\ ui' = Reset(ui)
  /\ stream' = NoStream /\ retry' = FALSE

\* The answer to a bootstrap, at the start or after a session loss.
Bootstrap ==
  /\ life \in {"bootstrapping", "reauthenticating"}
  /\ \/ /\ session # "gone" /\ session' = "ok"
        /\ AdvanceEpoch("authenticated")
        /\ UNCHANGED used
     \/ /\ IF session = "gone" THEN UNCHANGED used ELSE Use("fails", MaxFails)
        /\ life' = "signed_out"
        /\ UNCHANGED <<session, epoch, ui, stream, retry>>
  /\ UNCHANGED <<historyVars, config, unpublished>>

\* Signing in leads to the overview.
Exchange ==
  /\ life = "signed_out"
  /\ session' = "ok"
  /\ life' = "authenticated" /\ epoch' = epoch + 1
  /\ ui' = [Reset(ui) EXCEPT !.view = "overview"]
  /\ stream' = NoStream /\ retry' = FALSE
  /\ UNCHANGED <<historyVars, config, unpublished, used>>

\* Logging out is final here whether or not the server confirms it.
Logout ==
  /\ life = "authenticated"
  /\ Use("losses", MaxLosses)
  /\ session' \in {session, "gone"}
  /\ AdvanceEpoch("signed_out")
  /\ UNCHANGED <<historyVars, config, unpublished>>

\* The server no longer accepts the session, or another page took its CSRF token over.
LoseSession ==
  /\ session = "ok"
  /\ Use("losses", MaxLosses)
  /\ session' \in {"csrf", "gone"}
  /\ UNCHANGED <<historyVars, config, life, epoch, ui, stream, retry, unpublished>>

\* runProtected: a result counts only in the epoch it was asked for.
ProtectedCurrent(r) == life = "authenticated" /\ r.epoch = epoch

\* One recovery per lost epoch.
RecoverAfterSessionLoss(r) ==
  IF ProtectedCurrent(r) THEN AdvanceEpoch("reauthenticating")
  ELSE ui' = [ui EXCEPT !.reads = @ \ {r}] /\ UNCHANGED <<life, epoch, stream, retry>>

----------------------------------------------------------------------------
(* The event stream. *)

\* The effect of a render that found the session authenticated: the page's panels
\* wait for the stream.
Activate ==
  /\ life = "authenticated" /\ ~ui.active
  /\ ui' = MarkVisiblePanelsStale(MarkVisiblePanelsLoading(
              [ui EXCEPT !.active = TRUE, !.reads = Aborted(@, Panels)]))
  /\ stream' = [NoStream EXCEPT !.state = "sent"]
  /\ UNCHANGED <<historyVars, config, life, epoch, session, retry, unpublished, used>>

Reconnect ==
  /\ retry /\ ui.active /\ life = "authenticated"
  /\ retry' = FALSE
  /\ stream' = [NoStream EXCEPT !.state = "sent"]
  /\ ui' = MarkVisiblePanelsStale(ui)
  /\ UNCHANGED <<historyVars, config, life, epoch, session, unpublished, used>>

\* The server subscribes the stream to its hub before it answers.
SubscribeStream ==
  /\ stream.state = "sent" /\ session = "ok"
  /\ stream' = [stream EXCEPT !.state = "subscribed"]
  /\ UNCHANGED <<historyVars, config, life, epoch, session, ui, retry, unpublished, used>>

StreamLost ==
  /\ stream.state = "sent" /\ session # "ok"
  /\ AdvanceEpoch("reauthenticating")
  /\ UNCHANGED <<historyVars, config, session, unpublished, used>>

\* The answer arrives: everything on the page is read after the subscription.
StreamOpened ==
  /\ stream.state = "subscribed"
  /\ stream' = [stream EXCEPT !.state = "open"]
  /\ ui' = Refresh(ui, Visible(ui), "reconnect", TRUE)
  /\ UNCHANGED <<historyVars, config, life, epoch, session, retry, unpublished, used>>

\* Mutant: no reconnection is scheduled.
StreamEndsForGood ==
  /\ stream.state # "none"
  /\ Use("drops", MaxDrops)
  /\ stream' = NoStream
  /\ ui' = MarkVisiblePanelsStale(ui)
  /\ UNCHANGED <<historyVars, config, life, epoch, session, retry, unpublished>>
\* The stream is refused, ends, or carries something the reader rejects.
StreamEnds ==
  /\ stream.state # "none"
  /\ Use("drops", MaxDrops)
  /\ stream' = NoStream /\ retry' = TRUE
  /\ ui' = MarkVisiblePanelsStale(ui)
  /\ UNCHANGED <<historyVars, config, life, epoch, session, unpublished>>

\* What an invalidation does to a panel of the page: a list that follows its head is
\* due for a read; one that does not only tells its reader.
InvocationsOnInvalidation(u) == u.view = "item" \/ FollowsHead(u)

Invalidated(u) ==
  Visible(u) \ (IF config.kind \notin Traffic \/ (config.kind = "invocations" /\ ~InvocationsOnInvalidation(u))
                THEN {"history"} ELSE {})

ConsumeEvent ==
  /\ Connected /\ stream.queue > 0
  /\ stream' = [stream EXCEPT !.queue = @ - 1]
  /\ ui' = [ui EXCEPT !.pending = @ \union Invalidated(ui),
                     !.list.updates = @ \/ (/\ config.kind = "invocations" /\ "history" \in Visible(ui)
                                            /\ ~InvocationsOnInvalidation(ui))]
  /\ UNCHANGED <<historyVars, config, life, epoch, session, retry, unpublished, used>>

\* The coalescing timer: whatever became due in its window is read once.
InvalidationTimer ==
  /\ ui.pending # {}
  /\ ui' = Refresh([ui EXCEPT !.pending = {}], ui.pending, "invalidation", Connected)
  /\ UNCHANGED <<historyVars, config, life, epoch, session, stream, retry, unpublished, used>>

----------------------------------------------------------------------------
(* The reader. *)

Signed == life = "authenticated" /\ ui.active
Acted(u) ==
  /\ ui' = u
  /\ UNCHANGED <<historyVars, config, life, epoch, session, stream, retry, unpublished>>

\* The page an export runs on cancels it when it is left.
LeaveList(u) == IF config.kind = "export" THEN EmptyList ELSE SettleOlder(u, Panels)

Navigate(v) ==
  LET left == MarkVisiblePanelsLoading([ui EXCEPT !.view = v, !.reads = Aborted(@, Panels), !.list = LeaveList(ui)])
  IN  /\ Signed /\ v # ui.view
      /\ Use("moves", MaxMoves)
      /\ Acted(Refresh(left, Visible(left), "navigation", Connected))

ManualRefresh == Signed /\ Use("clicks", MaxClicks) /\ Acted(Refresh(ui, Visible(ui), "manual", Connected))

\* The panels with a polling interval: the count's and the audit log's.
Polled == {"count"} \union (IF config.kind = "audit" THEN {"history"} ELSE {})
Poll ==
  /\ Signed /\ Polled \intersect Visible(ui) # {}
  /\ Use("clicks", MaxClicks)
  /\ Acted(Refresh(ui, Polled \intersect Visible(ui), "poll", Connected))

OnList == Signed /\ ui.view = "list"

RefreshPanel(u) == Refresh(u, {"history"}, "panel", Connected)

\* Back to the newest records, following them again.
Resumed(u) ==
  [u EXCEPT !.reads = Bump(@), !.list.paused = FALSE, !.list.continuation = Null,
            !.list.loading = IF config.kind \in {"audit", "git"} THEN FALSE ELSE @]
Resume ==
  /\ OnList /\ config.kind \in {"audit", "invocations", "http", "git"}
  /\ Use("clicks", MaxClicks)
  /\ Acted(RefreshPanel(Resumed(ui)))

\* Switching Live cancels the read under way; the list is read again when it has
\* never been or when it follows its head from now on.
SetLive(live) ==
  LET cancelled == CancelPanelRead(ui)
      chosen == [cancelled EXCEPT !.reads = Bump(@), !.list.live = live, !.list.continuation = Null,
                                  !.list.loading = FALSE]
  IN  /\ OnList /\ config.kind \in {"audit", "invocations", "http", "git"}
      /\ Use("clicks", MaxClicks)
      /\ Acted(IF chosen.list.loaded /\ ~(live /\ ~chosen.list.paused) THEN chosen
               ELSE RefreshPanel(IF config.kind \in {"audit", "git"} THEN Resumed(chosen) ELSE chosen))

\* Loading older records pauses the list before its one continuation starts.
CanLoadOlder ==
  /\ ~ui.list.loading /\ ui.list.next # Null
  /\ config.kind # "related" => ui.list.key = ui.view /\ ~ui.panels["history"].refreshing
  /\ config.kind = "audit" => ui.panels["history"].status # "error"
  /\ config.kind \in Traffic => ~ui.list.error
LoadOlder ==
  /\ OnList /\ config.kind # "export" /\ CanLoadOlder
  /\ Use("clicks", MaxClicks)
  /\ Acted(RefreshPanel(
       [ui EXCEPT !.reads = IF config.kind \in {"invocations", "http"} THEN Bump(@) ELSE @,
                  !.list.continuation = ui.list.next,
                  !.list.paused = config.kind # "related",
                  !.list.loading = config.kind # "related",
                  !.list.olderError = FALSE]))

\* The related list is read again from its newest record.
RefreshRelated ==
  /\ OnList /\ config.kind = "related" /\ ~ui.list.loading
  /\ Use("clicks", MaxClicks)
  /\ Acted(RefreshPanel([ui EXCEPT !.list.continuation = Null]))

ExportHistory ==
  /\ OnList /\ config.kind = "export" /\ ~ui.list.loading
  /\ Use("clicks", MaxClicks)
  /\ Acted(RefreshPanel([ui EXCEPT !.list = [EmptyList EXCEPT !.key = "list", !.loading = TRUE]]))
CancelHistory ==
  /\ OnList /\ config.kind = "export" /\ ui.list.loading
  /\ Use("clicks", MaxClicks)
  /\ Acted([CancelPanelRead(ui) EXCEPT !.list = EmptyList])

----------------------------------------------------------------------------
(* The server: changes, their events, and the answers to reads. *)

Served == UNCHANGED <<config, life, epoch, session, ui, stream, retry, used>>

\* A change is announced after it is committed; retention and renames are not.
Change == (AppendTx \/ Replace) /\ unpublished' = unpublished + 1 /\ Served
Retain == Prune(config.kind = "audit") /\ UNCHANGED unpublished /\ Served
RenameTarget == Rename /\ UNCHANGED unpublished /\ Served

Publish ==
  /\ unpublished > 0 /\ unpublished' = unpublished - 1
  /\ stream' = [stream EXCEPT !.queue = IF stream.state \in {"subscribed", "open"} THEN @ + 1 ELSE @]
  /\ UNCHANGED <<historyVars, config, life, epoch, session, ui, retry, used>>

ServeHistory(r) ==
  CASE r.view = "item" -> ReadItem(r.expect)
    [] config.kind = "audit" -> AuditList(r.cursor, r.expect)
    [] config.kind = "invocations" -> InvocationList(r.cursor)
    [] config.kind \in {"http", "related"} -> HTTPList(r.cursor)
    [] config.kind = "git" -> GitList(r.cursor)
    [] config.kind = "export" ->
         IF r.walk = Null THEN ExportHistoryThrough(0, Null)
         ELSE ExportHistoryThrough(r.walk.after, r.walk.high)

\* A read is answered, refused because the session is gone, or fails on the way.
Serve(r) ==
  /\ r.response = Null
  /\ \/ /\ session = "ok" /\ UNCHANGED used
        /\ ui' = [ui EXCEPT !.reads = (@ \ {r}) \union
             {[r EXCEPT !.response =
                 IF r.panel = "count" THEN [code |-> "ok", value |-> <<hist.gen, hist.high>>] ELSE ServeHistory(r)]}]
     \/ /\ session # "ok" /\ UNCHANGED used
        /\ ui' = [ui EXCEPT !.reads = (@ \ {r}) \union {[r EXCEPT !.response = [code |-> "lost"]]}]
     \/ /\ Use("fails", MaxFails)
        /\ ui' = [ui EXCEPT !.reads = (@ \ {r}) \union {[r EXCEPT !.response = [code |-> "fail"]]}]
  /\ UNCHANGED <<historyVars, config, life, epoch, session, stream, retry, unpublished>>

----------------------------------------------------------------------------
(* Answers. A controller's read either asks again (the same read, without a cursor),
   throws, or is published; then the panel is current again. *)

\* Mutant: the panel's generation is not compared.
PanelCurrentInView(r) == ui.active /\ ui.view = r.view
\* A result is published on the page it was read for, unless a later read began.
PanelCurrent(r) == ui.active /\ ui.view = r.view /\ r.current

Settled(u, p, status) ==
  [u EXCEPT !.panels[p] = [status |-> status, hasValue |-> status # "error" \/ @.hasValue, refreshing |-> FALSE]]
PublishedStatus == IF Connected THEN "current" ELSE "stale"

Without(r) == [ui EXCEPT !.reads = @ \ {r}]
Threw(r) == Settled([Without(r) EXCEPT !.list.loading = FALSE], "history", "error")
Published(r, list) == Settled([Without(r) EXCEPT !.list = list], "history", PublishedStatus)
AskedAgain(r, list) ==
  [Without(r) EXCEPT !.list = list,
     !.reads = @ \union {[r EXCEPT !.cursor = Null, !.previous = <<>>, !.expect = 0, !.response = Null]}]

ReceiveCount(r) ==
  IF ~(ProtectedCurrent(r) /\ PanelCurrent(r)) THEN Without(r)
  ELSE IF r.response.code = "ok"
  THEN Settled([Without(r) EXCEPT !.shown = [epoch |-> r.epoch, value |-> r.response.value]], "count", PublishedStatus)
  ELSE IF r.aborted THEN Without(r) ELSE Settled(Without(r), "count", "error")

\* A continuation that goes on where the list ends.
Continues(r) ==
  \A i \in 1..Len(r.previous), j \in 1..Len(r.response.items) : r.previous[i] # r.response.items[j]
Appended(r) == IF r.cursor = Null THEN r.response.items ELSE r.previous \o r.response.items

\* The audit controller's list: a replaced log or a stale cursor discards what is
\* shown and starts over; a failed continuation keeps it.
AuditRead(r) ==
  LET l == ui.list
      a == r.response
      fresh == [EmptyList EXCEPT !.key = l.key, !.live = l.live, !.paused = l.paused, !.known = l.known]
      page == [fresh EXCEPT !.items = Appended(r), !.next = a.next, !.known = a.gen, !.loaded = TRUE]
  IN  CASE a.code = "replaced" \/ (a.code = "stale" /\ r.cursor # Null) -> AskedAgain(r, fresh)
        [] a.code = "ok" /\ Continues(r) -> Published(r, IF r.serial THEN page ELSE l)
        [] OTHER -> IF r.cursor # Null /\ l.next = r.cursor
                    THEN Published(r, [l EXCEPT !.loading = FALSE, !.olderError = TRUE])
                    ELSE Threw(r)

\* A result nobody asked for is not shown over a choice made since.
Ignored(r) == r.reason \in Automatic /\ (~r.serial \/ ~FollowsHead(ui))

Discarded(l) == [l EXCEPT !.items = <<>>, !.next = Null, !.loaded = FALSE]
Failed(l, r) == [l EXCEPT !.loading = FALSE, !.error = r.cursor = Null, !.olderError = r.cursor # Null]
Paged(l, r) ==
  [l EXCEPT !.items = Appended(r), !.next = r.response.next, !.loaded = TRUE, !.error = FALSE,
            !.olderError = FALSE, !.loading = FALSE]

InvocationsRead(r) ==
  LET l == ui.list IN
    CASE r.response.code = "stale" /\ r.cursor # Null -> AskedAgain(r, Discarded(l))
      [] Ignored(r) -> Published(r, l)
      [] r.response.code = "ok" /\ Continues(r) -> Published(r, [Paged(l, r) EXCEPT !.updates = FALSE])
      [] OTHER -> Published(r, Failed(l, r))

HTTPRead(r) ==
  LET l == ui.list IN
    CASE r.response.code = "stale" /\ r.cursor # Null -> AskedAgain(r, Discarded(l))
      [] Ignored(r) -> Published(r, l)
      [] r.response.code = "ok" /\ Continues(r) -> Published(r, Paged(l, r))
      [] OTHER -> Published(r, Failed(l, r))

GitRead(r) ==
  LET l == ui.list IN
    CASE r.response.code = "stale" /\ r.cursor # Null -> AskedAgain(r, Discarded(l))
      [] ~r.serial -> Published(r, l)
      [] r.response.code = "ok" /\ Continues(r) -> Published(r, Paged(l, r))
      [] OTHER -> Published(r, Failed(l, r))

\* The page of related records. The read of their parent that comes before every page
\* (http-traffic.tsx:140) is left out: it ends the read with an error or with nothing.
RelatedRead(r) ==
  LET l == ui.list IN
    CASE r.response.code = "stale" -> Published(r, [EmptyList EXCEPT !.key = l.key, !.error = TRUE])
      [] r.response.code = "ok" -> Published(r, Paged(l, r))
      [] OTHER -> Published(r, [l EXCEPT !.loading = FALSE, !.error = TRUE])

\* One record: shown, missing, or lost with the log it was in.
ItemRead(r) ==
  LET l == ui.list
      code == r.response.code IN
    CASE code = "ok" -> Published(r, [l EXCEPT !.item = "found", !.error = FALSE,
                                               !.known = IF config.kind = "audit" THEN r.response.gen ELSE @])
      [] code \in {"missing", "replaced"} -> Published(r, [l EXCEPT !.item = code])
      [] OTHER -> Threw(r)

\* Mutant: another generation with the same counters passes.
SameCounters(a, w) == a.pruning = w.pruning /\ a.high >= w.high
SameWalk(a, w) == a.gen = w.gen /\ a.pruning = w.pruning /\ a.high >= w.high

\* readHistoryExport: every page belongs to the walk of the first, nothing is
\* pruned meanwhile, and the count comes out; otherwise there is no file.
ExportRead(r) ==
  LET a == r.response
      w == IF r.walk = Null
           THEN [gen |-> a.gen, high |-> a.high, pruning |-> a.pruning, retained |-> a.retained,
                 after |-> 0, items |-> <<>>, all |-> a.all]
           ELSE r.walk
      items == w.items \o a.items
      after == IF a.items = <<>> THEN w.after ELSE a.items[1].n
  IN  IF \/ a.code # "ok" \/ ~SameWalk(a, w)
         \/ Len(items) > w.retained
         \/ IF a.truncated THEN after >= w.high ELSE Len(items) # w.retained \/ (items # <<>> /\ after # w.high)
      THEN [Threw(r) EXCEPT !.list.error = TRUE]
      ELSE IF a.truncated
      THEN [Without(r) EXCEPT !.reads = @ \union
              {[r EXCEPT !.walk = [w EXCEPT !.after = after, !.items = items], !.response = Null]}]
      ELSE Published(r, [ui.list EXCEPT !.loading = FALSE, !.loaded = TRUE, !.items = items, !.all = w.all])

ReceiveHistory(r) ==
  CASE r.view = "item" -> ItemRead(r)
    [] config.kind = "audit" -> AuditRead(r)
    [] config.kind = "invocations" -> InvocationsRead(r)
    [] config.kind = "http" -> HTTPRead(r)
    [] config.kind = "git" -> GitRead(r)
    [] config.kind = "related" -> RelatedRead(r)
    [] config.kind = "export" -> ExportRead(r)

ReceiveAnswer(r) ==
  /\ r.response # Null
  /\ IF r.response.code = "lost" THEN RecoverAfterSessionLoss(r)
     ELSE /\ ui' = IF r.panel = "count" THEN ReceiveCount(r) ELSE ReceiveHistory(r)
          /\ UNCHANGED <<life, epoch, stream, retry>>
  /\ UNCHANGED <<historyVars, config, session, unpublished, used>>

----------------------------------------------------------------------------

Browser ==
  \/ Bootstrap \/ Activate \/ Reconnect \/ SubscribeStream \/ StreamLost \/ StreamOpened
  \/ ConsumeEvent \/ InvalidationTimer \/ Publish
  \/ \E r \in ui.reads : Serve(r) \/ ReceiveAnswer(r)

Person ==
  \/ Exchange \/ Logout \/ \E v \in Views : Navigate(v)
  \/ ManualRefresh \/ Poll \/ Resume \/ LoadOlder \/ RefreshRelated \/ ExportHistory \/ CancelHistory
  \/ \E live \in BOOLEAN : SetLive(live)

ConsoleNext == Browser \/ Person \/ LoseSession \/ StreamEnds \/ Change \/ Retain \/ RenameTarget

\* Fairness: the browser's timers and effects run, the server answers, and the
\* network either delivers or fails a request. Nothing is assumed of the person.
ConsoleSpec == ConsoleInit /\ [][ConsoleNext]_pageVars
----------------------------------------------------------------------------
(* Properties. *)

Fresh(p) ==
  IF p = "count" THEN ui.shown # Null /\ ui.shown.value = <<hist.gen, hist.high>>
  ELSE ui.list.error
       \/ (hist.high \in hist.kept => ui.list.items # <<>> /\ ui.list.items[1] = Record(hist.high))

\* The panels that promise to follow the server by its events.
Following(p) == p = "count" \/ (config.kind \in Traffic /\ ui.view = "list" /\ ui.list.live /\ ~ui.list.paused)

\* A panel the console calls current, with no event left to come and no read under
\* way, shows what the server has: no answer that was overtaken by a later read, a
\* navigation or a reconnection is left on the page, and no change falls between the
\* subscription and the first read (ViewCoordinator.refresh, readPanel, connect).
CurrentIsFresh ==
  \A p \in Visible(ui) :
    /\ Following(p) /\ ui.active /\ Connected /\ stream.queue = 0 /\ unpublished = 0
    /\ ui.panels[p].status = "current" /\ ~ui.panels[p].refreshing /\ p \notin ui.pending
    => Fresh(p)

\* Nothing read in one session is shown in another: a late answer of an ended epoch
\* is dropped, even one whose request ignores its abort signal (SessionClient.runProtected).
SessionIsFenced == ui.shown # Null => life = "authenticated" /\ ui.shown.epoch = epoch

\* A list put together from several pages is one walk: newest first, of one
\* generation, and without a gap where a record is still retained, although the log
\* grew, was pruned, renamed or replaced between the pages.
ListIsOneWalk ==
  config.kind # "export" =>
    \A i \in 1..(Len(ui.list.items) - 1) :
      LET newer == ui.list.items[i] IN LET older == ui.list.items[i + 1] IN
        /\ newer.gen = older.gen /\ newer.n > older.n
        /\ newer.gen = hist.gen => ~\E n \in hist.kept : older.n < n /\ n < newer.n

\* A finished export holds exactly the records retained when it began
\* (readHistoryExport's checks on generation, pruning and counts).
ExportIsComplete ==
  config.kind = "export" /\ ui.list.loaded =>
    /\ {ui.list.items[i].n : i \in 1..Len(ui.list.items)} = ui.list.all
    /\ \A i, j \in 1..Len(ui.list.items) : ui.list.items[i].gen = ui.list.items[j].gen

\* "superseded/in-flight automatic results cannot override a later pause or Live-off
\* choice": the rows of a list that does not follow its head change only for a read
\* its reader asked for.
PauseHolds ==
  [][/\ ui.list.loaded /\ ui.list.items # ui'.list.items /\ (ui.list.paused \/ ~ui.list.live)
     /\ ui.view = "list" /\ ui'.view = ui.view /\ epoch' = epoch /\ used'.clicks = used.clicks
     => \E r \in ui.reads : r.panel = "history" /\ r.reason \notin Automatic]_pageVars

\* Once the disturbances stop, a signed-in console has its stream and every panel
\* that follows the server is up to date or says that it failed.
AtRest ==
  life = "authenticated" =>
    /\ ui.active /\ Connected
    /\ \A p \in Visible(ui) : Following(p) =>
         /\ ~ui.panels[p].refreshing
         /\ ui.panels[p].status = "error" \/ (ui.panels[p].status = "current" /\ Fresh(p))

\* Nothing stale and nothing of another session is on the page.
PageIsTrue == CurrentIsFresh /\ SessionIsFenced

\* What was read page by page is one record of the history.
WalksAreWhole == ListIsOneWalk /\ ExportIsComplete
=============================================================================
