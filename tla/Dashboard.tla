----------------------------- MODULE Dashboard -----------------------------
(***************************************************************************)
(* The dashboard page of one browser tab (web/src/pages/Dashboard.tsx)     *)
(* between the user, the HTTP API and one WebSocket.                       *)
(*                                                                         *)
(* JavaScript runs one handler at a time; what interleaves are the clicks, *)
(* the replies to the requests under way, which come in any order, and the *)
(* messages of the socket.  After a handler React renders the new state    *)
(* and runs the effects whose dependencies changed; both are taken to be   *)
(* part of the handler's step.                                             *)
(*                                                                         *)
(* The API is modelled as the page uses it: a request reads or writes the  *)
(* issues in one step and its reply is under way from then on.  A list is  *)
(* a set: its order on the screen is left out.                             *)
(***************************************************************************)
EXTENDS Integers, Sequences, FiniteSets

CONSTANTS
  Project,      \* projects
  Issue,        \* issue ids
  ProjectOf,    \* the project of each issue
  Existing,     \* the issues that exist, open, when the page is loaded
  Mine,         \* the projects the user owns when the page is loaded
  Hash,         \* bound: the project and issue the URL's hash may name
  PageSize,     \* limit of a list request (25)
  MaxEvents,    \* bound: events that arrive while the page is open
  MaxClicks,    \* bound: what the user does
  MaxTroubles,  \* bound: connections that are lost and requests that fail
  None          \* null

\* Issues are numbered from 1.
ASSUME IssueAssumption ==
  Issue \subseteq Nat \ {0} /\ IsFiniteSet(Issue) /\ \A i \in Issue : i <= Cardinality(Issue)
ASSUME ProjectOfAssumption == ProjectOf \in [Issue -> Project]
ASSUME ExistingAssumption ==
  Existing \subseteq Issue /\ Mine \subseteq Project /\ \A i \in Existing : ProjectOf[i] \in Mine
ASSUME HashAssumption == Hash \subseteq (Project \cup {None}) \X (Issue \cup {None})
ASSUME PageAssumption == PageSize \in Nat \ {0}

\* The reply that is an error.
Failed == [failed |-> TRUE]

ASSUME NoneAssumption == None \notin Issue /\ None \notin Project /\ None # Failed

VARIABLES
  server,    \* server[i]: the status of issue i, and when it was seen last (0: never)
  owned,     \* the user's projects
  page,      \* the component: React state and requests under way
  socket,    \* the WebSocket of the realtime effect
  notified,  \* notified[i]: last_seen of i at the last notification delivered (history)
  overtaken, \* a list of projects has replaced the chosen project, which it lacks (history)
  spent      \* how much of each bound is used up

dashVars == <<server, owned, page, socket, notified, overtaken, spent>>

Status == {"open", "resolved", "ignored"}

\* What the API says of issue i, and what the page remembers of it.
IssueOf(i) == [id |-> i, status |-> server[i].status, seen |-> server[i].seen]

Ids(issues) == {issue.id : issue \in issues}

NoDuplicates(issues) == \A x, y \in issues : x.id = y.id => x = y

Without(issues, i) == {issue \in issues : issue.id # i}

\* Mutant: the new data are added to the old.
Replace_Adds(issues, issue) ==
  IF issue.id \in Ids(issues) THEN issues \cup {issue} ELSE issues

Replace(issues, issue) ==
  IF issue.id \in Ids(issues) THEN Without(issues, issue.id) \cup {issue} ELSE issues

\* Add those that are not known yet, and leave the known ones as they are.
Extend(issues, received) ==
  issues \cup {issue \in received : issue.id \notin Ids(issues)}

\* A request and its reply.  after is the cursor of a list, and the notification a
\* refresh follows; current is whether detailVersion is still that of an update.
Request(kind, project, issue, status, after) ==
  [kind |-> kind, project |-> project, issue |-> issue, status |-> status,
   after |-> after, current |-> TRUE, reply |-> None]

\* The component before its first effects: project and issue are those of the URL's
\* hash, and the projects are requested.
NewPage(project, issue) ==
  [projects |-> {}, projectId |-> project, filter |-> "open", selectedId |-> issue,
   issues |-> {}, habitatIssues |-> {}, detail |-> None, nextCursor |-> None,
   loadingIssues |-> FALSE, loadingMore |-> FALSE, loadingDetail |-> FALSE,
   updating |-> FALSE, error |-> FALSE, detailError |-> FALSE, realtimeNotice |-> FALSE,
   requests |-> {Request("projects", None, None, None, None)}]

UnderWay(kind) == \E r \in page.requests : r.kind = kind

DashTypeOK ==
  /\ server \in [Issue -> [status : Status, seen : Nat]]
  /\ Mine \subseteq owned /\ owned \subseteq Project
  /\ page.projects \subseteq owned
  /\ page.projectId \in Project \cup {None}
  /\ page.filter \in Status
  /\ page.selectedId \in Issue \cup {None}
  /\ \A issue \in page.issues \cup page.habitatIssues :
       issue.id \in Issue /\ issue.status \in Status /\ issue.seen <= server[issue.id].seen
  /\ NoDuplicates(page.issues) /\ NoDuplicates(page.habitatIssues)
  /\ socket.state \in {"none", "connecting", "open", "live", "waiting", "refused"}
  /\ notified \in [Issue -> Nat]

----------------------------------------------------------------------------
(* The callbacks of the component, as functions of its state.              *)

Send(pg, request) == [pg EXCEPT !.requests = @ \cup {request}]

\* Mutant: replies to older list requests are applied.
NewRequestVersion_Ignored(pg) == pg

\* ++requestVersion: whatever comes in reply to an older request for the list is
\* ignored, the reset of the loading flags included.  So the request is forgotten.
NewRequestVersion(pg) == [pg EXCEPT !.requests = {r \in @ : r.kind # "issues"}]

\* Mutant: replies to older requests for a detail are applied.
NewDetailVersion_Ignored(pg) == pg

\* ++detailVersion: the same for an issue's detail; an update still takes effect on
\* the server, but its reply is ignored.
NewDetailVersion(pg) ==
  [pg EXCEPT !.requests = {[r EXCEPT !.current = r.current /\ r.kind # "update"] :
                             r \in {r \in @ : r.kind # "detail"}}]

\* changeSelection
ChangeSelection(pg, project, issue) ==
  IF page.projectId = project /\ page.selectedId = issue THEN pg
  ELSE [NewDetailVersion(NewRequestVersion(pg)) EXCEPT
          !.detail = None, !.detailError = FALSE, !.updating = FALSE,
          !.realtimeNotice = FALSE,
          !.projectId = project, !.selectedId = issue,
          !.issues = IF page.projectId = project THEN @ ELSE {},
          !.habitatIssues = IF page.projectId = project THEN @ ELSE {},
          !.nextCursor = IF page.projectId = project THEN @ ELSE None]

\* loadIssues: the first page, or after a cursor one more to append.
LoadIssues(pg, after) ==
  IF pg.projectId = None THEN pg
  ELSE [Send(NewRequestVersion(pg), Request("issues", pg.projectId, None, pg.filter, after))
          EXCEPT !.loadingMore = @ \/ after # None,
                 !.loadingIssues = @ \/ after = None,
                 !.error = FALSE]

\* Mutant: deselecting leaves the loading flag of the request it makes void.
LoadDetail_KeepLoading(pg) ==
  LET newer == NewDetailVersion(pg)
  IN IF pg.projectId = None \/ pg.selectedId = None
     THEN [newer EXCEPT !.detail = None]
     ELSE [Send(newer, Request("detail", pg.projectId, pg.selectedId, None, None))
             EXCEPT !.loadingDetail = TRUE, !.detailError = FALSE]

LoadDetail(pg) ==
  LET newer == NewDetailVersion(pg)
  IN IF pg.projectId = None \/ pg.selectedId = None
     THEN [newer EXCEPT !.detail = None, !.loadingDetail = FALSE]
     ELSE [Send(newer, Request("detail", pg.projectId, pg.selectedId, None, None))
             EXCEPT !.loadingDetail = TRUE, !.detailError = FALSE]

\* Mutant: refreshes that were under way for another project are applied.
Cancel_Never(pg) == pg

\* The cleanup of the realtime effect: its refreshes are ignored from now on.
Cancel(pg) == [pg EXCEPT !.requests = {r \in @ : r.kind # "refresh"}]

\* Rendering pg after old: the effects run whose dependencies changed.  That of the
\* detail depends on the array of issues too, which newIssues says has been replaced.
Render(old, pg, newIssues) ==
  LET newProject == pg.projectId # old.projectId
      begun == IF newProject THEN Cancel(pg) ELSE pg
      listed == IF newProject \/ pg.filter # old.filter
                THEN LoadIssues([begun EXCEPT !.nextCursor = None], None) ELSE begun
  IN IF newProject \/ pg.selectedId # old.selectedId \/ newIssues
     THEN LoadDetail(listed) ELSE listed

\* The realtime effect connects for each new project, having closed its last socket.
SocketFor(project) ==
  [state |-> IF project = None THEN "none" ELSE "connecting",
   connectedOnce |-> FALSE, inbox |-> <<>>]

\* A handler leaves pg behind; clearing the issues of a project replaces the array.
Rendered(pg, newIssues) ==
  LET newProject == pg.projectId # page.projectId
  IN /\ page' = Render(page, pg, newIssues \/ newProject)
     /\ socket' = IF newProject THEN SocketFor(pg.projectId) ELSE socket

DashInit ==
  /\ server = [i \in Issue |-> [status |-> "open", seen |-> IF i \in Existing THEN i ELSE 0]]
  /\ owned = Mine
  /\ \E hash \in Hash :
       /\ page = Render(NewPage(None, None), NewPage(hash[1], hash[2]), FALSE)
       /\ socket = SocketFor(hash[1])
  /\ notified = [i \in Issue |-> 0]
  /\ overtaken = FALSE
  /\ spent = [events |-> 0, clicks |-> 0, closes |-> 0, failures |-> 0]

----------------------------------------------------------------------------
(* Clicks.                                                                 *)

Click(pg) ==
  /\ spent.clicks < MaxClicks
  /\ spent' = [spent EXCEPT !.clicks = @ + 1]
  /\ Rendered(pg, FALSE)
  /\ overtaken' = (overtaken /\ pg.projectId = page.projectId)
  /\ UNCHANGED <<server, owned, notified>>

\* In the picker, whose first entry is no project, or on the cards; the picker is
\* disabled while the projects are loading.
SelectProject(p) ==
  /\ p \in page.projects \/ (p = None /\ page.projectId # None /\ ~UnderWay("projects"))
  /\ Click([ChangeSelection(page, p, None) EXCEPT !.filter = "open"])

\* Without a project "Create your first project" takes the place of the lists.
ListsShown == page.projectId # None \/ UnderWay("projects")

\* In the list, which "Loading issues..." replaces, or in the terrarium.
SelectIssue(i) ==
  /\ ListsShown
  /\ i \in Ids(page.habitatIssues) \/ (~page.loadingIssues /\ i \in Ids(page.issues))
  /\ Click(ChangeSelection(page, page.projectId, i))

SetFilter(status) == [ChangeSelection(page, page.projectId, None) EXCEPT !.filter = status]

ChooseFilter(status) ==
  /\ ListsShown /\ ~page.loadingIssues
  /\ Click(SetFilter(status))

\* "Issues" in the sidebar.
ShowIssues == page.filter # "open" /\ Click(SetFilter("open"))

LoadMore ==
  /\ ListsShown /\ ~page.loadingIssues /\ ~page.loadingMore /\ page.nextCursor # None
  /\ Click(LoadIssues(page, page.nextCursor))

\* The button of the notice.
RefreshIssues ==
  /\ page.realtimeNotice
  /\ Click(LoadIssues([page EXCEPT !.realtimeNotice = FALSE], None))

\* The issue's panel has a button to resolve or ignore it when it is open, else to
\* reopen it.
StatusButton(status) ==
  /\ page.detail # None /\ ~page.loadingDetail /\ ~page.detailError /\ ~page.updating
  /\ (page.detail.status = "open") = (status # "open")

UpdateStatus(status) ==
  /\ StatusButton(status)
  /\ page.projectId # None /\ page.selectedId # None
  /\ Click(Send([page EXCEPT !.updating = TRUE],
                Request("update", page.projectId, page.selectedId, status, None)))

CreateProject(p) ==
  /\ p \notin owned
  /\ \A r \in page.requests : r.kind # "create"
  /\ Click(Send([page EXCEPT !.error = FALSE], Request("create", p, None, None, None)))

----------------------------------------------------------------------------
(* The server.                                                             *)

\* ListIssues: the issues of a project and status that were seen before the cursor.
Matching(r) ==
  {i \in Issue : /\ server[i].seen > 0
                 /\ ProjectOf[i] = r.project /\ server[i].status = r.status
                 /\ r.after # None => server[i].seen < r.after}

\* The PageSize of them that were seen last.
PageOf(r) ==
  {i \in Matching(r) :
     Cardinality({j \in Matching(r) : server[j].seen > server[i].seen}) < PageSize}

CursorAfter(r) ==
  IF PageOf(r) = Matching(r) THEN None
  ELSE CHOOSE n \in {server[i].seen : i \in PageOf(r)} :
         \A i \in PageOf(r) : n <= server[i].seen

Reply(issues, cursor) == [issues |-> issues, cursor |-> cursor, projects |-> owned]

Visible(r) == r.project \in owned /\ (r.issue # None =>
                server[r.issue].seen > 0 /\ ProjectOf[r.issue] = r.project)

ReplyTo(r) ==
  IF r.kind \in {"projects", "create"} THEN Reply({}, None)
  ELSE IF ~Visible(r) THEN Failed
  ELSE CASE r.kind = "issues" -> Reply({IssueOf(i) : i \in PageOf(r)}, CursorAfter(r))
         [] r.kind = "update" -> Reply({[IssueOf(r.issue) EXCEPT !.status = r.status]}, None)
         [] OTHER -> Reply({IssueOf(r.issue)}, None)

Answered(r, reply) ==
  page' = [page EXCEPT !.requests = (@ \ {r}) \cup {[r EXCEPT !.reply = reply]}]

\* A status change is not notified to anyone.
Apply(r) ==
  /\ server' = IF r.kind = "update" /\ Visible(r)
               THEN [server EXCEPT ![r.issue].status = r.status] ELSE server
  /\ owned' = IF r.kind = "create" THEN owned \cup {r.project} ELSE owned

Answer(r) ==
  /\ r.reply = None
  /\ Apply(r)
  /\ Answered(r, ReplyTo(r))
  /\ UNCHANGED <<socket, notified, overtaken, spent>>

Trouble == spent.closes + spent.failures < MaxTroubles

\* The request is not served, or its answer is lost.
RequestFails(r) ==
  /\ r.reply = None /\ Trouble
  /\ Apply(r) \/ UNCHANGED <<server, owned>>
  /\ Answered(r, Failed)
  /\ spent' = [spent EXCEPT !.failures = @ + 1]
  /\ UNCHANGED <<socket, notified, overtaken>>

\* The worker commits an event of issue i, new or known, and notifies the hub.
EventArrives(i) ==
  /\ spent.events < MaxEvents /\ ProjectOf[i] \in owned
  /\ LET seen == Cardinality(Issue) + spent.events + 1
         status == IF server[i].status = "resolved" THEN "open" ELSE server[i].status
     IN /\ server' = [server EXCEPT ![i] = [status |-> status, seen |-> seen]]
        /\ socket' = IF /\ socket.state \in {"open", "live"}
                        /\ page.projectId = ProjectOf[i]
                     THEN [socket EXCEPT !.inbox = Append(@, [issue |-> i, seen |-> seen])]
                     ELSE socket
  /\ spent' = [spent EXCEPT !.events = @ + 1]
  /\ UNCHANGED <<owned, page, notified, overtaken>>

----------------------------------------------------------------------------
(* Replies.                                                                *)

Receives(kind, r) == r.kind = kind /\ r.reply # None

\* The state to go on with when the reply to r has come in.
Settle(r) == [page EXCEPT !.requests = @ \ {r}]

\* The issue in the reply to a detail, refresh or update.
IssueIn(reply) == CHOOSE issue \in reply.issues : TRUE

Continue(pg) ==
  /\ Rendered(pg, FALSE)
  /\ overtaken' = (overtaken /\ pg.projectId = page.projectId)
  /\ UNCHANGED <<server, owned, notified, spent>>

\* The same when setIssues was given another array.
ContinueWithIssues(pg) ==
  Rendered(pg, TRUE) /\ UNCHANGED <<server, owned, notified, overtaken, spent>>

\* The first of the projects loaded.
First(loaded) == IF loaded = {} THEN {None} ELSE loaded

\* A chosen project that was not loaded gives way to one that was, without more ado:
\* that of the hash, when it is not the user's, and one created in the meantime.
ReceiveProjects(r) ==
  /\ Receives("projects", r)
  /\ \/ r.reply = Failed /\ Continue([Settle(r) EXCEPT !.error = TRUE])
     \/ /\ r.reply # Failed
        /\ \E p \in First(r.reply.projects) :
             Rendered([Settle(r) EXCEPT
                         !.projects = r.reply.projects,
                         !.projectId = IF @ \in r.reply.projects THEN @ ELSE p], FALSE)
        /\ overtaken' = (overtaken \/ (page.projectId \notin r.reply.projects
                                       /\ page.issues \cup page.habitatIssues # {}))
        /\ UNCHANGED <<server, owned, notified, spent>>

ReceiveCreated(r) ==
  /\ Receives("create", r)
  /\ LET pg == Settle(r)
     IN Continue(IF r.reply = Failed THEN [pg EXCEPT !.error = TRUE]
                 ELSE ChangeSelection([pg EXCEPT !.projects = @ \cup {r.project},
                                                 !.filter = "open"], r.project, None))

ReceiveIssues(r) ==
  /\ Receives("issues", r)
  /\ LET done == [Settle(r) EXCEPT !.loadingIssues = FALSE, !.loadingMore = FALSE]
         Merge(known) == IF r.after = None THEN r.reply.issues ELSE Extend(known, r.reply.issues)
     IN IF r.reply = Failed THEN Continue([done EXCEPT !.error = TRUE])
        ELSE ContinueWithIssues(
               [done EXCEPT !.issues = Merge(@),
                            !.habitatIssues = IF r.status = "open" THEN Merge(@) ELSE @,
                            !.nextCursor = r.reply.cursor])

ReceiveDetail(r) ==
  /\ Receives("detail", r)
  /\ LET done == [Settle(r) EXCEPT !.loadingDetail = FALSE]
     IN Continue(IF r.reply = Failed THEN [done EXCEPT !.detailError = TRUE]
                 ELSE [done EXCEPT !.detail = IssueIn(r.reply)])

\* refreshIssue, after a notification.
ReceiveRefresh(r) ==
  /\ Receives("refresh", r)
  /\ LET pg == Settle(r)
         loaded == IssueIn(r.reply)
         wasLoaded == r.issue \in Ids(pg.issues)
         shown == [pg EXCEPT
                    !.issues = IF loaded.status = pg.filter THEN Replace(@, loaded)
                               ELSE Without(@, r.issue),
                    !.habitatIssues = Without(@, r.issue)
                                        \cup {issue \in {loaded} : issue.status = "open"},
                    !.detail = IF pg.selectedId = r.issue THEN loaded ELSE @,
                    !.realtimeNotice = @ \/ ~wasLoaded]
     IN \/ r.reply = Failed /\ Continue([pg EXCEPT !.realtimeNotice = TRUE])
        \/ r.reply # Failed /\ wasLoaded /\ ContinueWithIssues(shown)
        \/ r.reply # Failed /\ ~wasLoaded /\ Continue(shown)

\* The reply to a status change counts, and ends "Saving...", only while the detail it
\* was made on is current: a newer detailVersion leaves updating as it is.
ReceiveUpdate(r) ==
  /\ Receives("update", r)
  /\ LET pg == Settle(r)
         saved == [pg EXCEPT !.updating = FALSE]
         updated == IssueIn(r.reply)
         Shown(issues, wanted) ==
           IF updated.status = wanted THEN Replace(issues, updated) ELSE Without(issues, r.issue)
     IN \/ ~r.current /\ Continue(pg)
        \/ r.current /\ r.reply = Failed /\ Continue([saved EXCEPT !.detailError = TRUE])
        \/ /\ r.current /\ r.reply # Failed
           /\ ContinueWithIssues(
                [saved EXCEPT !.issues = Shown(@, pg.filter),
                              !.habitatIssues = Shown(@, "open"),
                              !.detail = IF @ = None THEN None ELSE updated])

----------------------------------------------------------------------------
(* The socket.                                                             *)

Ready == [issue |-> None, seen |-> 0]

\* The server has authenticated the connection and registered it with the hub.
Subscribe ==
  /\ socket.state = "connecting" /\ page.projectId \in owned
  /\ socket' = [socket EXCEPT !.state = "open", !.inbox = <<Ready>>]
  /\ UNCHANGED <<server, owned, page, notified, overtaken, spent>>

\* Close code 1008: not the user's project.  The page does not try again.
Refuse ==
  /\ socket.state = "connecting" /\ page.projectId \notin owned
  /\ socket' = [socket EXCEPT !.state = "refused"]
  /\ page' = [page EXCEPT !.realtimeNotice = TRUE]
  /\ UNCHANGED <<server, owned, notified, overtaken, spent>>

\* Any other end of the connection; 1008 as well, when the server is shutting down
\* or its database does not answer.
Disconnect ==
  /\ socket.state \in {"connecting", "open", "live"} /\ Trouble
  /\ spent' = [spent EXCEPT !.closes = @ + 1]
  /\ \/ socket' = [socket EXCEPT !.state = "waiting", !.inbox = <<>>] /\ page' = page
     \/ /\ socket.state = "connecting"
        /\ socket' = [socket EXCEPT !.state = "refused", !.inbox = <<>>]
        /\ page' = [page EXCEPT !.realtimeNotice = TRUE]
  /\ UNCHANGED <<server, owned, notified, overtaken>>

Reconnect ==
  /\ socket.state = "waiting"
  /\ socket' = [socket EXCEPT !.state = "connecting"]
  /\ UNCHANGED <<server, owned, page, notified, overtaken, spent>>

\* The list is loaded again when the socket is ready again, not the first time.
ReceiveReady ==
  /\ socket.inbox # <<>> /\ Head(socket.inbox) = Ready
  /\ socket' = [state |-> "live", connectedOnce |-> TRUE, inbox |-> Tail(socket.inbox)]
  /\ page' = IF socket.connectedOnce THEN LoadIssues(page, None) ELSE page
  /\ UNCHANGED <<server, owned, notified, overtaken, spent>>

ReceiveNotification ==
  /\ socket.inbox # <<>> /\ Head(socket.inbox) # Ready
  /\ LET message == Head(socket.inbox)
         i == message.issue
     IN /\ page' = Send(page, Request("refresh", ProjectOf[i], i, None, message.seen))
        /\ notified' = [notified EXCEPT ![i] = message.seen]
  /\ socket' = [socket EXCEPT !.inbox = Tail(@)]
  /\ UNCHANGED <<server, owned, overtaken, spent>>

----------------------------------------------------------------------------

UserActs ==
  \/ \E p \in Project \cup {None} : SelectProject(p)
  \/ \E p \in Project : CreateProject(p)
  \/ \E i \in Issue : SelectIssue(i)
  \/ \E status \in Status : ChooseFilter(status) \/ UpdateStatus(status)
  \/ ShowIssues \/ LoadMore \/ RefreshIssues

Receive(r) ==
  \/ ReceiveProjects(r) \/ ReceiveCreated(r) \/ ReceiveIssues(r)
  \/ ReceiveDetail(r) \/ ReceiveRefresh(r) \/ ReceiveUpdate(r)

ReplyComes == \E r \in page.requests : Receive(r)

ServerAnswers == \E r \in page.requests : Answer(r)

SocketStep == Subscribe \/ Refuse \/ Reconnect \/ ReceiveReady \/ ReceiveNotification

DashNext ==
  \/ UserActs \/ ReplyComes \/ ServerAnswers \/ SocketStep \/ Disconnect
  \/ \E r \in page.requests : RequestFails(r)
  \/ \E i \in Issue : EventArrives(i)

DashSafety == DashInit /\ [][DashNext]_dashVars

----------------------------------------------------------------------------
(* Properties.                                                             *)

\* "Each project keeps its issues and ingestion key separate": the list and the
\* terrarium show no issue of another project than the chosen one.
ShownOfProject ==
  page.projectId # None =>
    \A issue \in page.issues \cup page.habitatIssues : ProjectOf[issue.id] = page.projectId

\* So it is, whatever replies were under way when the project changed, unless it was
\* the late list of projects that changed it.
ListsOfProject == ~overtaken => ShownOfProject

\* The detail is that of the selected issue, though replies to the selection before,
\* refreshes and status changes may arrive at any time.
DetailOfSelection ==
  page.detail # None => page.detail.id = page.selectedId

\* The list under a filter holds issues of that status only, unless it is loading or
\* a request has failed: a list that could not be loaded leaves the one before.
ListMatchesFilter ==
  ~page.loadingIssues /\ spent.failures = 0 /\ page.projectId # None =>
    \A issue \in page.issues : issue.status = page.filter

\* "Loading issue..." is shown only while a request for the detail is under way: each
\* of the many places that make an older request void makes a new one.
DetailIsLoading == page.loadingDetail => UnderWay("detail")

\* "Loading..." is shown only while a request for issues is under way.
IssuesAreLoading ==
  page.projectId # None /\ (page.loadingIssues \/ page.loadingMore) => UnderWay("issues")

\* Everything that was asked for has come in, and the page is connected.
AtRest == page.requests = {} /\ socket.state = "live" /\ socket.inbox = <<>>

\* After a notification the page has reloaded the issue: what it lists is as recent
\* as the last notification.
NotifiedIsShown ==
  AtRest => \A issue \in page.issues : issue.seen >= notified[issue.id]

\* "This view will update when matching issues arrive."
EmptyViewUpdates ==
  AtRest /\ page.issues = {} =>
    \A i \in Issue :
      ~(notified[i] > 0 /\ ProjectOf[i] = page.projectId /\ server[i].status = page.filter)
=============================================================================
