-------------------------- MODULE DashboardProofs --------------------------
(***************************************************************************)
(* Proofs about Dashboard: the invariants of the run dashboard, for any    *)
(* projects, issues, hash, and number of clicks, events and troubles.      *)
(*                                                                         *)
(* None of them is inductive.  What the page shows comes from replies to   *)
(* requests made earlier, so the invariant says of every request that may  *)
(* still be applied what it was about: Aimed ties it to the project,       *)
(* filter and selection of now, which is what the version counters are     *)
(* for, and ReplyOK ties its reply to the server.                          *)
(***************************************************************************)
EXTENDS Dashboard, FiniteSetTheorems, TLAPS

----------------------------------------------------------------------------
(* The inductive invariant.  Its parts take the page, the server and so on *)
(* as parameters, to speak of the states between a handler and its effects.*)

EntryOK(e, srv) ==
  /\ e.id \in Issue /\ e.status \in Status /\ e.seen \in Nat
  /\ e.seen <= srv[e.id].seen

ListOK(issues, srv) == (\A e \in issues : EntryOK(e, srv)) /\ NoDuplicates(issues)

AboutOneIssue == {"detail", "refresh", "update"}

Kinds == {"projects", "create", "issues"} \cup AboutOneIssue

\* What the reply to r may say.
ReplyOK(r, srv, own) ==
  /\ r.kind = "projects" => r.reply.projects \subseteq own
  /\ r.kind # "projects" => r.project \in own
  /\ r.kind = "issues" =>
       /\ ListOK(r.reply.issues, srv)
       /\ \A e \in r.reply.issues : ProjectOf[e.id] = r.project /\ e.status = r.status
  /\ r.kind \in AboutOneIssue =>
       \E e : /\ r.reply.issues = {e} /\ EntryOK(e, srv)
              /\ e.id = r.issue /\ ProjectOf[e.id] = r.project

\* A request has these fields.
IsRequest(r) ==
  /\ r = [kind |-> r.kind, project |-> r.project, issue |-> r.issue, status |-> r.status,
          after |-> r.after, current |-> r.current, reply |-> r.reply]
  /\ r.current \in BOOLEAN

RequestOK(r, srv, own) ==
  /\ IsRequest(r)
  /\ r.kind \in Kinds
  /\ r.kind # "projects" => r.project \in Project
  /\ r.kind \in AboutOneIssue => r.issue \in Issue
  /\ r.kind \notin AboutOneIssue => r.issue = None
  /\ r.kind \in {"issues", "update"} => r.status \in Status
  /\ r.kind = "refresh" => ProjectOf[r.issue] = r.project
  /\ r.reply # None /\ r.reply # Failed => ReplyOK(r, srv, own)

\* The component has these fields.
IsPage(pg) ==
  pg = [projects |-> pg.projects, projectId |-> pg.projectId, filter |-> pg.filter,
        selectedId |-> pg.selectedId, issues |-> pg.issues,
        habitatIssues |-> pg.habitatIssues, detail |-> pg.detail,
        nextCursor |-> pg.nextCursor, loadingIssues |-> pg.loadingIssues,
        loadingMore |-> pg.loadingMore, loadingDetail |-> pg.loadingDetail,
        updating |-> pg.updating, error |-> pg.error, detailError |-> pg.detailError,
        realtimeNotice |-> pg.realtimeNotice, requests |-> pg.requests]

PageTyped(pg, srv, own) ==
  /\ IsPage(pg)
  /\ pg.projects \subseteq own
  /\ pg.projectId \in Project \cup {None}
  /\ pg.filter \in Status
  /\ pg.selectedId \in Issue \cup {None}
  /\ pg.loadingIssues \in BOOLEAN /\ pg.loadingDetail \in BOOLEAN
  /\ ListOK(pg.issues, srv) /\ ListOK(pg.habitatIssues, srv)
  /\ \A r \in pg.requests : RequestOK(r, srv, own)

\* A reply that would be applied to the lists or the detail is about what is chosen.
AimedAtSelection(r, pg) ==
  r.kind = "detail" \/ (r.kind = "update" /\ r.current) =>
    r.project = pg.projectId /\ r.issue = pg.selectedId

AimedAtProject(r, pg) == r.kind = "refresh" => r.project = pg.projectId

AimedAtList(r, pg) ==
  r.kind = "issues" =>
    \/ pg.projectId = None
    \/ r.project = pg.projectId /\ r.status = pg.filter

Aimed(r, pg) == AimedAtSelection(r, pg) /\ AimedAtProject(r, pg) /\ AimedAtList(r, pg)

AtMostOne(kind, pg) ==
  \A r, s \in pg.requests : r.kind = kind /\ s.kind = kind => r = s

\* A first page under way is not overtaken by a further one.
FirstPageOnly(pg) ==
  pg.loadingIssues => \A r \in pg.requests : r.kind = "issues" => r.after = None

\* Only the user's projects have issues to show.
OnlyOwned(pg, own) == pg.issues # {} => pg.projectId \in own \cup {None}

\* A list that is refused, not failed, is that of a project that is not the user's.
RefusedIsEmpty(pg, failures) ==
  failures = 0 /\ pg.projectId # None =>
    \A r \in pg.requests : r.kind = "issues" /\ r.reply = Failed => pg.issues = {}

\* Until the projects are loaded, no project means that none has been chosen yet.
NothingBefore(pg) ==
  pg.projectId = None /\ (\E r \in pg.requests : r.kind = "projects") =>
    /\ pg.issues = {} /\ pg.habitatIssues = {}
    /\ \A r \in pg.requests : r.kind # "issues"

OfProject(pg) ==
  pg.projectId # None =>
    \A e \in pg.issues \cup pg.habitatIssues : ProjectOf[e.id] = pg.projectId

OfFilter(pg, failures) ==
  ~pg.loadingIssues /\ failures = 0 /\ pg.projectId # None =>
    \A e \in pg.issues : e.status = pg.filter

OfSelection(pg) == pg.detail # None => pg.detail.id = pg.selectedId

DetailOnItsWay(pg) == pg.loadingDetail => \E r \in pg.requests : r.kind = "detail"

PageInv(pg, srv, own, late, failures) ==
  /\ PageTyped(pg, srv, own)
  /\ \A r \in pg.requests : Aimed(r, pg)
  /\ AtMostOne("issues", pg) /\ AtMostOne("projects", pg)
  /\ FirstPageOnly(pg)
  /\ OnlyOwned(pg, own)
  /\ RefusedIsEmpty(pg, failures)
  /\ NothingBefore(pg)
  /\ ~late => OfProject(pg)
  /\ OfFilter(pg, failures)
  /\ OfSelection(pg)
  /\ DetailOnItsWay(pg)

\* What makes the effects run.
NewProject(old, pg) == pg.projectId # old.projectId

NewList(old, pg) == NewProject(old, pg) \/ pg.filter # old.filter

NewSelection(old, pg) == NewProject(old, pg) \/ pg.selectedId # old.selectedId

NewDetail(old, pg, newIssues) == NewSelection(old, pg) \/ newIssues

\* What a handler leaves behind for the effects: the parts of the invariant that they
\* restore may be missing.
Left(old, pg, srv, own, late, failures) ==
  /\ PageTyped(pg, srv, own)
  /\ \A r \in pg.requests :
       /\ NewSelection(old, pg) \/ AimedAtSelection(r, pg)
       /\ NewProject(old, pg) \/ AimedAtProject(r, pg)
       /\ NewList(old, pg) \/ AimedAtList(r, pg)
  /\ AtMostOne("issues", pg) /\ AtMostOne("projects", pg)
  /\ FirstPageOnly(pg)
  /\ OnlyOwned(pg, own)
  /\ NewList(old, pg) \/ RefusedIsEmpty(pg, failures)
  /\ NothingBefore(pg)
  /\ ~late => OfProject(pg)
  /\ NewList(old, pg) \/ OfFilter(pg, failures)
  /\ OfSelection(pg)
  /\ NewSelection(old, pg) \/ DetailOnItsWay(pg)

Messages == {Ready} \cup [issue : Issue, seen : Nat]

SocketInv ==
  /\ socket \in [state : {"none", "connecting", "open", "live", "waiting", "refused"},
                 connectedOnce : BOOLEAN, inbox : Seq(Messages)]
  /\ \A k \in 1..Len(socket.inbox) :
       socket.inbox[k] # Ready => ProjectOf[socket.inbox[k].issue] = page.projectId

ServerInv ==
  /\ server \in [Issue -> [status : Status, seen : Nat]]
  /\ Mine \subseteq owned /\ owned \subseteq Project
  /\ spent \in [events : Nat, clicks : Nat, closes : Nat, failures : Nat]
  /\ \A i \in Issue : server[i].seen <= Cardinality(Issue) + spent.events

DashInv ==
  /\ ServerInv
  /\ SocketInv
  /\ notified \in [Issue -> Nat] /\ overtaken \in BOOLEAN
  /\ PageInv(page, server, owned, overtaken, spent.failures)

----------------------------------------------------------------------------
(* The helpers of the component.                                           *)

ListRequest(pg, after) == Request("issues", pg.projectId, None, pg.filter, after)

DetailRequest(pg) == Request("detail", pg.projectId, pg.selectedId, None, None)

SameChoice(new, pg) ==
  /\ new.projects = pg.projects /\ new.projectId = pg.projectId
  /\ new.filter = pg.filter /\ new.selectedId = pg.selectedId

SameLists(new, pg) == new.issues = pg.issues /\ new.habitatIssues = pg.habitatIssues

SameLoading(new, pg) ==
  new.loadingIssues = pg.loadingIssues /\ new.loadingDetail = pg.loadingDetail

LEMMA RequestsExcept ==
  ASSUME NEW pg, IsPage(pg), NEW requests, NEW new, new = [pg EXCEPT !.requests = requests]
  PROVE  /\ IsPage(new)
         /\ SameChoice(new, pg) /\ SameLists(new, pg) /\ new.detail = pg.detail
         /\ SameLoading(new, pg)
         /\ new.requests = requests
BY DEF IsPage, SameChoice, SameLists, SameLoading

LEMMA CancelFields ==
  ASSUME NEW pg, IsPage(pg)
  PROVE  LET new == Cancel(pg)
         IN /\ IsPage(new)
            /\ SameChoice(new, pg) /\ SameLists(new, pg) /\ new.detail = pg.detail
            /\ SameLoading(new, pg)
            /\ new.requests = {r \in pg.requests : r.kind # "refresh"}
BY RequestsExcept DEF Cancel

LEMMA SendFields ==
  ASSUME NEW pg, IsPage(pg), NEW r
  PROVE  LET new == Send(pg, r)
         IN /\ IsPage(new)
            /\ SameChoice(new, pg) /\ SameLists(new, pg) /\ new.detail = pg.detail
            /\ SameLoading(new, pg)
            /\ new.requests = pg.requests \cup {r}
BY RequestsExcept DEF Send

LEMMA NewRequestVersionFields ==
  ASSUME NEW pg, IsPage(pg)
  PROVE  LET new == NewRequestVersion(pg)
         IN /\ IsPage(new)
            /\ SameChoice(new, pg) /\ SameLists(new, pg) /\ new.detail = pg.detail
            /\ SameLoading(new, pg)
            /\ new.requests = {r \in pg.requests : r.kind # "issues"}
BY RequestsExcept DEF NewRequestVersion

LEMMA LoadIssuesFields ==
  ASSUME NEW pg, IsPage(pg), NEW after, pg.projectId # None
  PROVE  LET new == LoadIssues(pg, after)
         IN /\ IsPage(new)
            /\ SameChoice(new, pg) /\ SameLists(new, pg) /\ new.detail = pg.detail
            /\ new.loadingDetail = pg.loadingDetail
            /\ new.loadingIssues = (pg.loadingIssues \/ after = None)
            /\ new.requests = {r \in pg.requests : r.kind # "issues"}
                                 \cup {ListRequest(pg, after)}
<1> DEFINE newer == NewRequestVersion(pg)
           sent == Send(newer, ListRequest(pg, after))
<1>1. /\ IsPage(sent)
      /\ SameChoice(sent, pg) /\ SameLists(sent, pg) /\ sent.detail = pg.detail
      /\ SameLoading(sent, pg)
      /\ sent.requests = {r \in pg.requests : r.kind # "issues"} \cup {ListRequest(pg, after)}
  <2> HIDE DEF newer
  <2>1. IsPage(newer) /\ newer.requests = {r \in pg.requests : r.kind # "issues"}
    BY NewRequestVersionFields DEF newer
  <2>2. /\ SameChoice(newer, pg) /\ SameLists(newer, pg) /\ newer.detail = pg.detail
        /\ SameLoading(newer, pg)
    BY NewRequestVersionFields DEF newer
  <2> QED BY <2>1, <2>2, SendFields DEF SameChoice, SameLists, SameLoading
<1> DEFINE new == LoadIssues(pg, after)
           more == sent.loadingMore \/ after # None
           loading == sent.loadingIssues \/ after = None
<1>2. new = [sent EXCEPT !.loadingMore = more, !.loadingIssues = loading, !.error = FALSE]
  BY DEF LoadIssues, ListRequest
<1>3. loading = (pg.loadingIssues \/ after = None)
  BY <1>1 DEF SameLoading
<1>4. /\ IsPage(new)
      /\ SameChoice(new, sent) /\ SameLists(new, sent) /\ new.detail = sent.detail
      /\ new.loadingDetail = sent.loadingDetail /\ new.loadingIssues = loading
      /\ new.requests = sent.requests
  <2> HIDE DEF new, sent, more, loading
  <2> QED BY <1>1, <1>2 DEF IsPage, SameChoice, SameLists
<1>5. /\ SameChoice(new, pg) /\ SameLists(new, pg) /\ new.detail = pg.detail
      /\ new.loadingDetail = pg.loadingDetail
  <2> HIDE DEF new, sent, more, loading
  <2> QED BY <1>1, <1>4 DEF SameChoice, SameLists, SameLoading
<1> HIDE DEF new, sent, loading
<1>6. /\ new.loadingIssues = (pg.loadingIssues \/ after = None)
      /\ new.requests = {r \in pg.requests : r.kind # "issues"} \cup {ListRequest(pg, after)}
  BY <1>1, <1>3, <1>4
<1> QED BY <1>4, <1>5, <1>6, Zenon DEF new

LEMMA NewDetailVersionFields ==
  ASSUME NEW pg, IsPage(pg), \A r \in pg.requests : IsRequest(r)
  PROVE  LET new == NewDetailVersion(pg)
         IN /\ IsPage(new)
            /\ SameChoice(new, pg) /\ SameLists(new, pg) /\ new.detail = pg.detail
            /\ SameLoading(new, pg)
            /\ new.requests = {r \in pg.requests : r.kind \notin {"detail", "update"}}
                 \cup {[r EXCEPT !.current = FALSE] : r \in {r \in pg.requests : r.kind = "update"}}
<1> DEFINE new == NewDetailVersion(pg)
           Void(r) == [r EXCEPT !.current = r.current /\ r.kind # "update"]
<1>1. /\ IsPage(new)
      /\ SameChoice(new, pg) /\ SameLists(new, pg) /\ new.detail = pg.detail
      /\ SameLoading(new, pg)
      /\ new.requests = {Void(r) : r \in {r \in pg.requests : r.kind # "detail"}}
  BY RequestsExcept DEF NewDetailVersion
<1>2. \A r \in pg.requests : r.kind # "update" => Void(r) = r
  BY DEF IsRequest
<1>3. \A r \in pg.requests : r.kind = "update" => Void(r) = [r EXCEPT !.current = FALSE]
  BY DEF IsRequest
<1>4. {Void(r) : r \in {r \in pg.requests : r.kind # "detail"}}
        = {r \in pg.requests : r.kind \notin {"detail", "update"}}
            \cup {[r EXCEPT !.current = FALSE] : r \in {r \in pg.requests : r.kind = "update"}}
  <2> HIDE DEF Void, new
  <2> QED BY <1>2, <1>3
<1> QED BY <1>1, <1>4

LEMMA LoadDetailFields ==
  ASSUME NEW pg, IsPage(pg), \A r \in pg.requests : IsRequest(r)
  PROVE  LET new == LoadDetail(pg)
             chosen == pg.projectId # None /\ pg.selectedId # None
         IN /\ IsPage(new)
            /\ SameChoice(new, pg) /\ SameLists(new, pg)
            /\ new.detail \in {pg.detail, None}
            /\ new.loadingIssues = pg.loadingIssues /\ new.loadingDetail = chosen
            /\ new.requests = NewDetailVersion(pg).requests
                                 \cup {r \in {DetailRequest(pg)} : chosen}
<1> DEFINE newer == NewDetailVersion(pg)
<1>1. /\ IsPage(newer)
      /\ SameChoice(newer, pg) /\ SameLists(newer, pg) /\ newer.detail = pg.detail
      /\ newer.loadingIssues = pg.loadingIssues
  BY NewDetailVersionFields DEF SameLoading
<1> DEFINE new == LoadDetail(pg)
<1>2. CASE pg.projectId = None \/ pg.selectedId = None
  <2>1. new = [newer EXCEPT !.detail = None, !.loadingDetail = FALSE]
    BY <1>2 DEF LoadDetail
  <2> HIDE DEF newer, new
  <2>2. /\ IsPage(new) /\ SameChoice(new, newer) /\ SameLists(new, newer)
        /\ new.detail = None /\ new.loadingDetail = FALSE
        /\ new.loadingIssues = newer.loadingIssues /\ new.requests = newer.requests
    BY <1>1, <2>1 DEF IsPage, SameChoice, SameLists
  <2>3. SameChoice(new, pg) /\ SameLists(new, pg) /\ new.loadingIssues = pg.loadingIssues
    BY <1>1, <2>2 DEF SameChoice, SameLists
  <2>4. new.requests = newer.requests
          \cup {r \in {DetailRequest(pg)} : pg.projectId # None /\ pg.selectedId # None}
    BY <1>2, <2>2
  <2> QED BY <1>2, <2>2, <2>3, <2>4 DEF newer, new
<1>3. CASE pg.projectId # None /\ pg.selectedId # None
  <2> DEFINE sent == Send(newer, DetailRequest(pg))
  <2>1. new = [sent EXCEPT !.loadingDetail = TRUE, !.detailError = FALSE]
    BY <1>3 DEF LoadDetail, DetailRequest
  <2>2. /\ IsPage(sent) /\ SameChoice(sent, newer) /\ SameLists(sent, newer)
        /\ sent.detail = newer.detail /\ sent.loadingIssues = newer.loadingIssues
        /\ sent.requests = newer.requests \cup {DetailRequest(pg)}
    <3> HIDE DEF newer
    <3> QED BY <1>1, SendFields DEF SameLoading
  <2> HIDE DEF newer, new, sent
  <2>3. /\ IsPage(new) /\ SameChoice(new, sent) /\ SameLists(new, sent)
        /\ new.detail = sent.detail /\ new.loadingDetail = TRUE
        /\ new.loadingIssues = sent.loadingIssues /\ new.requests = sent.requests
    BY <2>1, <2>2 DEF IsPage, SameChoice, SameLists
  <2>4. /\ SameChoice(new, pg) /\ SameLists(new, pg) /\ new.detail = pg.detail
        /\ new.loadingIssues = pg.loadingIssues
    BY <1>1, <2>2, <2>3 DEF SameChoice, SameLists
  <2>5. new.requests = newer.requests
          \cup {r \in {DetailRequest(pg)} : pg.projectId # None /\ pg.selectedId # None}
    BY <1>3, <2>2, <2>3
  <2> QED BY <1>3, <2>3, <2>4, <2>5 DEF newer, new
<1> QED BY <1>2, <1>3

\* A request that has been kept, an update's reply perhaps no longer counting.
Kept(r, requests) ==
  \/ r \in requests
  \/ \E s \in requests : s.kind = "update" /\ r = [s EXCEPT !.current = FALSE]

ListAgain(old, pg) == NewList(old, pg) /\ pg.projectId # None

Chosen(pg) == pg.projectId # None /\ pg.selectedId # None

\* What rendering pg after old leaves: the fields of the component,
RenderedFields(new, old, pg, newIssues) ==
  /\ IsPage(new)
  /\ SameChoice(new, pg) /\ SameLists(new, pg) /\ new.detail \in {pg.detail, None}
  /\ ListAgain(old, pg) => new.loadingIssues = TRUE
  /\ ~ListAgain(old, pg) => new.loadingIssues = pg.loadingIssues
  /\ NewDetail(old, pg, newIssues) => new.loadingDetail = Chosen(pg)
  /\ ~NewDetail(old, pg, newIssues) => new.loadingDetail = pg.loadingDetail

\* where each request comes from and which ones are gone,
RenderedRequest(r, old, pg, newIssues) ==
  /\ \/ Kept(r, pg.requests)
     \/ ListAgain(old, pg) /\ r = ListRequest(pg, None)
     \/ NewDetail(old, pg, newIssues) /\ Chosen(pg) /\ r = DetailRequest(pg)
  /\ NewProject(old, pg) => r.kind # "refresh"
  /\ ListAgain(old, pg) /\ r.kind = "issues" => r = ListRequest(pg, None)
  /\ NewDetail(old, pg, newIssues) /\ r.kind = "detail" => r = DetailRequest(pg)
  /\ NewDetail(old, pg, newIssues) /\ r.kind = "update" => ~r.current

\* and that a request for the detail is made or kept.
RenderedDetail(new, old, pg, newIssues) ==
  /\ NewDetail(old, pg, newIssues) /\ Chosen(pg) => DetailRequest(pg) \in new.requests
  /\ ~NewDetail(old, pg, newIssues) =>
       \A r \in pg.requests : r.kind = "detail" => r \in new.requests

LEMMA RenderFields ==
  ASSUME NEW old, NEW pg, NEW newIssues \in BOOLEAN, IsPage(pg),
         \A r \in pg.requests : IsRequest(r)
  PROVE  /\ RenderedFields(Render(old, pg, newIssues), old, pg, newIssues)
         /\ \A r \in Render(old, pg, newIssues).requests : RenderedRequest(r, old, pg, newIssues)
         /\ RenderedDetail(Render(old, pg, newIssues), old, pg, newIssues)
<1> DEFINE new == Render(old, pg, newIssues)
           listAgain == ListAgain(old, pg)
           chosen == Chosen(pg)
           detailAgain == NewDetail(old, pg, newIssues)
           begun == IF NewProject(old, pg) THEN Cancel(pg) ELSE pg
           cleared == [begun EXCEPT !.nextCursor = None]
           listed == IF NewList(old, pg) THEN LoadIssues(cleared, None) ELSE begun
<1>1. new = IF detailAgain THEN LoadDetail(listed) ELSE listed
  BY DEF Render, NewProject, NewList, NewSelection, NewDetail
<1>2. /\ IsPage(begun)
      /\ SameChoice(begun, pg) /\ SameLists(begun, pg) /\ begun.detail = pg.detail
      /\ SameLoading(begun, pg)
      /\ begun.requests = {r \in pg.requests : ~(NewProject(old, pg) /\ r.kind = "refresh")}
  <2>1. CASE NewProject(old, pg)
    BY <2>1, CancelFields
  <2>2. CASE ~NewProject(old, pg)
    BY <2>2 DEF SameChoice, SameLists, SameLoading
  <2> QED BY <2>1, <2>2
<1>3. /\ IsPage(cleared)
      /\ SameChoice(cleared, begun) /\ SameLists(cleared, begun)
      /\ cleared.detail = begun.detail
      /\ SameLoading(cleared, begun) /\ cleared.requests = begun.requests
  <2> HIDE DEF begun
  <2> QED BY <1>2 DEF IsPage, SameChoice, SameLists, SameLoading
<1>4. /\ IsPage(cleared)
      /\ SameChoice(cleared, pg) /\ SameLists(cleared, pg) /\ cleared.detail = pg.detail
      /\ SameLoading(cleared, pg) /\ cleared.requests = begun.requests
  <2> HIDE DEF begun, cleared
  <2> QED BY <1>2, <1>3 DEF SameChoice, SameLists, SameLoading
<1>5. /\ IsPage(listed)
      /\ SameChoice(listed, pg) /\ SameLists(listed, pg) /\ listed.detail = pg.detail
      /\ listed.loadingDetail = pg.loadingDetail
      /\ listAgain => listed.loadingIssues = TRUE
      /\ ~listAgain => listed.loadingIssues = pg.loadingIssues
      /\ listed.requests = {r \in begun.requests : ~(listAgain /\ r.kind = "issues")}
                             \cup {r \in {ListRequest(pg, None)} : listAgain}
  <2>1. CASE ~NewList(old, pg)
    <3>1. listed = begun
      BY <2>1
    <3> HIDE DEF listed, begun
    <3> QED BY <1>2, <2>1, <3>1 DEF SameLoading, ListAgain
  <2>2. CASE NewList(old, pg) /\ pg.projectId = None
    <3>1. listed = cleared
      BY <1>4, <2>2 DEF LoadIssues, SameChoice
    <3> HIDE DEF listed, cleared, begun
    <3> QED BY <1>4, <2>2, <3>1 DEF SameLoading, ListAgain
  <2>3. CASE NewList(old, pg) /\ pg.projectId # None
    <3>1. listed = LoadIssues(cleared, None)
      BY <2>3
    <3>2. cleared.projectId # None /\ ListRequest(cleared, None) = ListRequest(pg, None)
      BY <1>4, <2>3 DEF SameChoice, ListRequest
    <3> HIDE DEF cleared
    <3>3. /\ IsPage(listed)
          /\ SameChoice(listed, cleared) /\ SameLists(listed, cleared)
          /\ listed.detail = cleared.detail /\ listed.loadingDetail = cleared.loadingDetail
          /\ listed.loadingIssues = (cleared.loadingIssues \/ None = None)
          /\ listed.requests = {r \in cleared.requests : r.kind # "issues"}
                                 \cup {ListRequest(cleared, None)}
      <4> HIDE DEF listed
      <4> QED BY <1>4, <3>1, <3>2, LoadIssuesFields
    <3> HIDE DEF listed, begun
    <3>4. /\ SameChoice(listed, pg) /\ SameLists(listed, pg) /\ listed.detail = pg.detail
          /\ listed.loadingDetail = pg.loadingDetail /\ listed.loadingIssues = TRUE
      BY <1>4, <3>3 DEF SameChoice, SameLists, SameLoading
    <3> QED BY <1>4, <2>3, <3>2, <3>3, <3>4 DEF ListAgain
  <2> QED BY <2>1, <2>2, <2>3
<1>6. \A r \in listed.requests : IsRequest(r)
  <2>1. IsRequest(ListRequest(pg, None))
    BY DEF IsRequest, ListRequest, Request
  <2> HIDE DEF listed, begun
  <2> QED BY <1>2, <1>5, <2>1
<1>7. DetailRequest(listed) = DetailRequest(pg)
  BY <1>5 DEF SameChoice, DetailRequest
<1>8. CASE ~detailAgain
  <2>1. new = listed
    BY <1>1, <1>8
  <2>2. ASSUME NEW r \in new.requests
        PROVE  /\ \/ Kept(r, pg.requests)
                  \/ listAgain /\ r = ListRequest(pg, None)
               /\ NewProject(old, pg) => r.kind # "refresh"
               /\ listAgain /\ r.kind = "issues" => r = ListRequest(pg, None)
    <3>1. ListRequest(pg, None).kind = "issues"
      BY DEF ListRequest, Request
    <3> HIDE DEF new, listed, begun
    <3> QED BY <1>2, <1>5, <2>1, <2>2, <3>1 DEF Kept
  <2>3. ASSUME NEW r \in pg.requests, r.kind = "detail"
        PROVE  r \in new.requests
    <3> HIDE DEF new, listed, begun
    <3> QED BY <1>2, <1>5, <2>1, <2>3
  <2>4. /\ IsPage(new)
        /\ SameChoice(new, pg) /\ SameLists(new, pg) /\ new.detail = pg.detail
        /\ listAgain => new.loadingIssues = TRUE
        /\ ~listAgain => new.loadingIssues = pg.loadingIssues
        /\ new.loadingDetail = pg.loadingDetail
    <3> HIDE DEF new, listed, begun
    <3> QED BY <1>5, <2>1
  <2> HIDE DEF new, listed, begun
  <2> QED BY <1>8, <2>2, <2>3, <2>4 DEF new, RenderedFields, RenderedRequest, RenderedDetail
<1>9. CASE detailAgain
  <2>1. new = LoadDetail(listed)
    BY <1>1, <1>9
  <2>2. (listed.projectId # None /\ listed.selectedId # None) = chosen
    BY <1>5 DEF SameChoice, Chosen
  <2> DEFINE newer == NewDetailVersion(listed)
  <2>3. newer.requests = {r \in listed.requests : r.kind \notin {"detail", "update"}}
          \cup {[r EXCEPT !.current = FALSE] : r \in {r \in listed.requests : r.kind = "update"}}
    <3> HIDE DEF listed
    <3> QED BY <1>5, <1>6, NewDetailVersionFields
  <2>4. /\ IsPage(new)
        /\ SameChoice(new, listed) /\ SameLists(new, listed)
        /\ new.detail \in {listed.detail, None}
        /\ new.loadingIssues = listed.loadingIssues /\ new.loadingDetail = chosen
        /\ new.requests = newer.requests \cup {r \in {DetailRequest(pg)} : chosen}
    <3> HIDE DEF listed, chosen
    <3> QED BY <1>5, <1>6, <1>7, <2>1, <2>2, LoadDetailFields
  <2> HIDE DEF new, newer, listed, begun
  <2>5. /\ SameChoice(new, pg) /\ SameLists(new, pg) /\ new.detail \in {pg.detail, None}
        /\ listAgain => new.loadingIssues = TRUE
        /\ ~listAgain => new.loadingIssues = pg.loadingIssues
    BY <1>5, <2>4 DEF SameChoice, SameLists
  <2>6. \A r \in listed.requests :
          \/ r \in pg.requests
          \/ listAgain /\ r = ListRequest(pg, None)
    BY <1>2, <1>5
  <2>7. ListRequest(pg, None).kind = "issues" /\ DetailRequest(pg).kind = "detail"
    BY DEF ListRequest, DetailRequest, Request
  <2>8. ASSUME NEW s \in listed.requests, s.kind = "update"
        PROVE  /\ [s EXCEPT !.current = FALSE].kind = "update"
               /\ [s EXCEPT !.current = FALSE].current = FALSE
               /\ s \in pg.requests
    BY <1>6, <2>6, <2>7, <2>8 DEF IsRequest
  <2>9. ASSUME NEW r \in new.requests
        PROVE  /\ \/ Kept(r, pg.requests)
                  \/ listAgain /\ r = ListRequest(pg, None)
                  \/ detailAgain /\ chosen /\ r = DetailRequest(pg)
               /\ NewProject(old, pg) => r.kind # "refresh"
               /\ listAgain /\ r.kind = "issues" => r = ListRequest(pg, None)
               /\ detailAgain /\ r.kind = "detail" => r = DetailRequest(pg)
               /\ detailAgain /\ r.kind = "update" => ~r.current
    <3>1. CASE r \in listed.requests /\ r.kind \notin {"detail", "update"}
      BY <1>2, <1>5, <2>7, <3>1 DEF Kept
    <3>2. CASE \E s \in listed.requests :
                 s.kind = "update" /\ r = [s EXCEPT !.current = FALSE]
      BY <2>8, <3>2 DEF Kept
    <3>3. CASE chosen /\ r = DetailRequest(pg)
      BY <1>9, <2>7, <3>3
    <3> QED BY <2>3, <2>4, <3>1, <3>2, <3>3
  <2>10. chosen => DetailRequest(pg) \in new.requests
    BY <2>4
  <2> QED BY <1>9, <2>4, <2>5, <2>9, <2>10
          DEF new, RenderedFields, RenderedRequest, RenderedDetail
<1> QED BY <1>8, <1>9

\* A request whose reply no longer counts says what it said before.
LEMMA KeptFields ==
  ASSUME NEW requests, \A s \in requests : IsRequest(s), NEW r, Kept(r, requests)
  PROVE  /\ IsRequest(r)
         /\ \E s \in requests :
              /\ r.kind = s.kind /\ r.project = s.project /\ r.issue = s.issue
              /\ r.status = s.status /\ r.after = s.after /\ r.reply = s.reply
              /\ r.current => s.current
              /\ r.kind # "update" => r = s
<1>1. CASE r \in requests
  BY <1>1
<1>2. ASSUME NEW s \in requests, s.kind = "update", r = [s EXCEPT !.current = FALSE]
      PROVE  /\ IsRequest(r)
             /\ r.kind = s.kind /\ r.project = s.project /\ r.issue = s.issue
             /\ r.status = s.status /\ r.after = s.after /\ r.reply = s.reply
             /\ ~r.current
  <2>1. ASSUME NEW current, r = [s EXCEPT !.current = current]
        PROVE  /\ r = [kind |-> r.kind, project |-> r.project, issue |-> r.issue,
                       status |-> r.status, after |-> r.after, current |-> r.current,
                       reply |-> r.reply]
               /\ r.kind = s.kind /\ r.project = s.project /\ r.issue = s.issue
               /\ r.status = s.status /\ r.after = s.after /\ r.reply = s.reply
               /\ r.current = current
    BY <2>1 DEF IsRequest
  <2>2. r.current = FALSE
    BY <1>2, <2>1
  <2> QED BY <1>2, <2>1, <2>2 DEF IsRequest
<1> QED BY <1>1, <1>2 DEF Kept

LEMMA KeptOK ==
  ASSUME NEW requests, NEW srv, NEW own, \A s \in requests : RequestOK(s, srv, own),
         NEW r, Kept(r, requests)
  PROVE  RequestOK(r, srv, own)
<1>1. PICK s \in requests :
        /\ r.kind = s.kind /\ r.project = s.project /\ r.issue = s.issue
        /\ r.status = s.status /\ r.after = s.after /\ r.reply = s.reply
  BY KeptFields DEF RequestOK
<1>2. IsRequest(r)
  BY KeptFields DEF RequestOK
<1>3. RequestOK(s, srv, own)
  OBVIOUS
<1>4. ReplyOK(s, srv, own) => ReplyOK(r, srv, own)
  BY <1>1 DEF ReplyOK
<1> QED BY <1>1, <1>2, <1>3, <1>4 DEF RequestOK

LEMMA ListRequestOK ==
  ASSUME NEW pg, NEW srv, NEW own, PageTyped(pg, srv, own), pg.projectId # None, NEW after
  PROVE  RequestOK(ListRequest(pg, after), srv, own)
<1> DEFINE r == ListRequest(pg, after)
<1>1. /\ IsRequest(r)
      /\ r.kind = "issues" /\ r.project = pg.projectId /\ r.issue = None
      /\ r.status = pg.filter /\ r.reply = None
  <2>1. r = Request("issues", pg.projectId, None, pg.filter, after)
    BY DEF ListRequest
  <2> HIDE DEF r
  <2> QED BY <2>1 DEF Request, IsRequest
<1> HIDE DEF r
<1> QED BY <1>1 DEF RequestOK, PageTyped, Kinds, AboutOneIssue, r

LEMMA DetailRequestOK ==
  ASSUME NEW pg, NEW srv, NEW own, PageTyped(pg, srv, own),
         pg.projectId # None, pg.selectedId # None
  PROVE  RequestOK(DetailRequest(pg), srv, own)
<1> DEFINE r == DetailRequest(pg)
<1>1. /\ IsRequest(r)
      /\ r.kind = "detail" /\ r.project = pg.projectId /\ r.issue = pg.selectedId
      /\ r.reply = None
  <2>1. r = Request("detail", pg.projectId, pg.selectedId, None, None)
    BY DEF DetailRequest
  <2> HIDE DEF r
  <2> QED BY <2>1 DEF Request, IsRequest
<1> HIDE DEF r
<1> QED BY <1>1 DEF RequestOK, PageTyped, Kinds, AboutOneIssue, r

\* The effects restore what a handler may leave undone.
LEMMA RenderRestores ==
  ASSUME NEW old, NEW pg, NEW newIssues \in BOOLEAN,
         NEW srv, NEW own, NEW late, NEW failures,
         Left(old, pg, srv, own, late, failures)
  PROVE  PageInv(Render(old, pg, newIssues), srv, own, late, failures)
<1> DEFINE new == Render(old, pg, newIssues)
           newProject == NewProject(old, pg)
           listAgain == ListAgain(old, pg)
           chosen == Chosen(pg)
           detailAgain == NewDetail(old, pg, newIssues)
           list == ListRequest(pg, None)
           detail == DetailRequest(pg)
<1>1. PageTyped(pg, srv, own) /\ IsPage(pg) /\ \A r \in pg.requests : IsRequest(r)
  BY DEF Left, PageTyped, RequestOK
<1> HIDE DEF new, list, detail
<1>2. /\ IsPage(new)
      /\ SameChoice(new, pg) /\ SameLists(new, pg) /\ new.detail \in {pg.detail, None}
      /\ listAgain => new.loadingIssues = TRUE
      /\ ~listAgain => new.loadingIssues = pg.loadingIssues
      /\ detailAgain => new.loadingDetail = chosen
      /\ ~detailAgain => new.loadingDetail = pg.loadingDetail
  <2>1. RenderedFields(new, old, pg, newIssues)
    BY <1>1, RenderFields DEF new
  <2> QED BY <2>1 DEF RenderedFields
<1>22. \A r \in new.requests : RenderedRequest(r, old, pg, newIssues)
  BY <1>1, RenderFields DEF new
<1>3. \A r \in new.requests :
        \/ Kept(r, pg.requests)
        \/ listAgain /\ r = list
        \/ detailAgain /\ chosen /\ r = detail
  BY <1>22 DEF RenderedRequest, list, detail
<1>4. \A r \in new.requests :
        /\ newProject => r.kind # "refresh"
        /\ listAgain /\ r.kind = "issues" => r = list
        /\ detailAgain /\ r.kind = "detail" => r = detail
        /\ detailAgain /\ r.kind = "update" => ~r.current
  BY <1>22 DEF RenderedRequest, list, detail
<1>5. /\ detailAgain /\ chosen => detail \in new.requests
      /\ ~detailAgain => \A r \in pg.requests : r.kind = "detail" => r \in new.requests
  <2>1. RenderedDetail(new, old, pg, newIssues)
    BY <1>1, RenderFields DEF new
  <2> QED BY <2>1 DEF RenderedDetail, detail
<1>6. /\ list.kind = "issues" /\ list.project = pg.projectId /\ list.status = pg.filter
      /\ list.after = None /\ list.reply = None
      /\ detail.kind = "detail" /\ detail.project = pg.projectId /\ detail.issue = pg.selectedId
  <2>1. list = Request("issues", pg.projectId, None, pg.filter, None)
    BY DEF list, ListRequest
  <2>2. detail = Request("detail", pg.projectId, pg.selectedId, None, None)
    BY DEF detail, DetailRequest
  <2>3. /\ list.kind = "issues" /\ list.project = pg.projectId /\ list.status = pg.filter
        /\ list.after = None /\ list.reply = None
    BY <2>1 DEF Request, IsRequest
  <2>4. detail.kind = "detail" /\ detail.project = pg.projectId /\ detail.issue = pg.selectedId
    BY <2>2 DEF Request, IsRequest
  <2> QED BY <2>3, <2>4
<1>7. ASSUME NEW r \in new.requests, Kept(r, pg.requests)
      PROVE  \E s \in pg.requests :
               /\ r.kind = s.kind /\ r.project = s.project /\ r.issue = s.issue
               /\ r.status = s.status /\ r.after = s.after /\ r.reply = s.reply
               /\ r.current => s.current
               /\ r.kind # "update" => r = s
  BY <1>1, <1>7, KeptFields
<1>8. newProject => NewList(old, pg) /\ detailAgain
  BY DEF NewProject, NewList, NewSelection, NewDetail
<1> HIDE DEF newProject, detailAgain
<1>9. \A r \in new.requests : RequestOK(r, srv, own)
  <2>1. listAgain => RequestOK(list, srv, own)
    BY <1>1, ListRequestOK DEF list, ListAgain
  <2>2. chosen => RequestOK(detail, srv, own)
    BY <1>1, DetailRequestOK DEF detail, Chosen
  <2>3. \A r : Kept(r, pg.requests) => RequestOK(r, srv, own)
    BY <1>1, KeptOK DEF PageTyped
  <2> QED BY <1>3, <2>1, <2>2, <2>3
<1>10. PageTyped(new, srv, own)
  <2>1. new.loadingIssues \in BOOLEAN /\ new.loadingDetail \in BOOLEAN
    BY <1>1, <1>2 DEF PageTyped, Chosen
  <2> QED BY <1>1, <1>2, <1>9, <2>1 DEF PageTyped, SameChoice, SameLists
<1>11. ASSUME NEW r \in new.requests
       PROVE  Aimed(r, new)
  <2>1. AimedAtSelection(r, new)
    <3>1. CASE detailAgain
      BY <1>2, <1>4, <1>6, <3>1 DEF AimedAtSelection, SameChoice
    <3>2. CASE ~detailAgain
      <4>1. \A s \in pg.requests : AimedAtSelection(s, pg)
        BY <3>2 DEF Left, NewDetail, detailAgain
      <4> QED BY <1>2, <1>3, <1>6, <1>7, <3>2, <4>1 DEF AimedAtSelection, SameChoice
    <3> QED BY <3>1, <3>2
  <2>2. AimedAtProject(r, new)
    <3>1. CASE newProject
      BY <1>4, <3>1 DEF AimedAtProject
    <3>2. CASE ~newProject
      <4>1. \A s \in pg.requests : AimedAtProject(s, pg)
        BY <3>2 DEF Left, newProject
      <4> QED BY <1>2, <1>3, <1>6, <1>7, <4>1 DEF AimedAtProject, SameChoice
    <3> QED BY <3>1, <3>2
  <2>3. AimedAtList(r, new)
    <3>1. CASE pg.projectId = None
      BY <1>2, <3>1 DEF AimedAtList, SameChoice
    <3>2. CASE listAgain
      BY <1>2, <1>4, <1>6, <3>2 DEF AimedAtList, SameChoice
    <3>3. CASE ~NewList(old, pg)
      <4>1. \A s \in pg.requests : AimedAtList(s, pg)
        BY <3>3 DEF Left
      <4> QED BY <1>2, <1>3, <1>6, <1>7, <3>3, <4>1 DEF AimedAtList, SameChoice, ListAgain
    <3> QED BY <3>1, <3>2, <3>3 DEF ListAgain
  <2> QED BY <2>1, <2>2, <2>3 DEF Aimed
<1>12. AtMostOne("issues", new)
  <2>1. CASE listAgain
    BY <1>4, <2>1 DEF AtMostOne
  <2>2. CASE ~listAgain
    <3>1. \A r \in new.requests : r.kind = "issues" => r \in pg.requests
      BY <1>3, <1>6, <1>7, <2>2
    <3> QED BY <3>1 DEF AtMostOne, Left
  <2> QED BY <2>1, <2>2
<1>13. AtMostOne("projects", new)
  <2>1. \A r \in new.requests : r.kind = "projects" => r \in pg.requests
    BY <1>3, <1>6, <1>7
  <2> QED BY <2>1 DEF AtMostOne, Left
<1>14. FirstPageOnly(new)
  <2>1. CASE listAgain
    BY <1>4, <1>6, <2>1 DEF FirstPageOnly
  <2>2. CASE ~listAgain
    <3>1. \A r \in new.requests : r.kind = "issues" => r \in pg.requests
      BY <1>3, <1>6, <1>7, <2>2
    <3> QED BY <1>2, <2>2, <3>1 DEF FirstPageOnly, Left
  <2> QED BY <2>1, <2>2
<1>15. OnlyOwned(new, own)
  BY <1>2 DEF OnlyOwned, Left, SameChoice, SameLists
<1>16. RefusedIsEmpty(new, failures)
  <2>1. CASE pg.projectId = None
    BY <1>2, <2>1 DEF RefusedIsEmpty, SameChoice
  <2>2. CASE listAgain
    <3>1. list.reply # Failed
      BY <1>6, NoneAssumption
    <3> QED BY <1>4, <2>2, <3>1 DEF RefusedIsEmpty
  <2>3. CASE ~NewList(old, pg)
    <3>1. \A r \in new.requests : r.kind = "issues" => r \in pg.requests
      BY <1>3, <1>6, <1>7, <2>3 DEF ListAgain
    <3> QED BY <1>2, <2>3, <3>1 DEF RefusedIsEmpty, Left, SameChoice, SameLists
  <2> QED BY <2>1, <2>2, <2>3 DEF ListAgain
<1>17. NothingBefore(new)
  <2> SUFFICES ASSUME new.projectId = None, NEW r \in new.requests, r.kind = "projects"
               PROVE  /\ new.issues = {} /\ new.habitatIssues = {}
                      /\ \A s \in new.requests : s.kind # "issues"
    BY DEF NothingBefore
  <2>1. pg.projectId = None
    BY <1>2 DEF SameChoice
  <2>2. r \in pg.requests
    BY <1>3, <1>6, <1>7
  <2>3. /\ pg.issues = {} /\ pg.habitatIssues = {}
        /\ \A s \in pg.requests : s.kind # "issues"
    BY <2>1, <2>2 DEF Left, NothingBefore
  <2> QED BY <1>2, <1>3, <1>6, <1>7, <2>1, <2>3 DEF SameLists, ListAgain
<1>18. ~late => OfProject(new)
  BY <1>2 DEF OfProject, Left, SameChoice, SameLists
<1>19. OfFilter(new, failures)
  <2>1. CASE pg.projectId = None
    BY <1>2, <2>1 DEF OfFilter, SameChoice
  <2>2. CASE listAgain
    BY <1>2, <2>2 DEF OfFilter
  <2>3. CASE ~NewList(old, pg)
    BY <1>2, <2>3 DEF OfFilter, ListAgain, Left, SameChoice, SameLists
  <2> QED BY <2>1, <2>2, <2>3 DEF ListAgain
<1>20. OfSelection(new)
  BY <1>2 DEF OfSelection, Left, SameChoice
<1>21. DetailOnItsWay(new)
  <2>1. CASE detailAgain
    BY <1>2, <1>5, <1>6, <2>1 DEF DetailOnItsWay
  <2>2. CASE ~detailAgain
    BY <1>2, <1>5, <2>2 DEF DetailOnItsWay, Left, NewDetail, detailAgain
  <2> QED BY <2>1, <2>2
<1> QED BY <1>10, <1>11, <1>12, <1>13, <1>14, <1>15, <1>16, <1>17, <1>18, <1>19, <1>20, <1>21
        DEF PageInv, new

----------------------------------------------------------------------------
(* What keeps the invariant of the page.                                   *)

\* Fields that the invariant says nothing about may change.
SamePage(new, pg) ==
  /\ IsPage(new)
  /\ SameChoice(new, pg) /\ SameLists(new, pg) /\ new.detail = pg.detail
  /\ SameLoading(new, pg)
  /\ new.requests = pg.requests

LEMMA SamePageInv ==
  ASSUME NEW pg, NEW new, SamePage(new, pg),
         NEW srv, NEW own, NEW late, NEW failures, PageInv(pg, srv, own, late, failures)
  PROVE  PageInv(new, srv, own, late, failures)
<1>1. PageTyped(new, srv, own)
  BY DEF SamePage, SameChoice, SameLists, SameLoading, PageInv, PageTyped
<1>2. \A r \in new.requests : Aimed(r, new)
  BY DEF SamePage, SameChoice, PageInv, Aimed, AimedAtSelection, AimedAtProject, AimedAtList
<1>3. AtMostOne("issues", new) /\ AtMostOne("projects", new)
  BY DEF SamePage, PageInv, AtMostOne
<1>4. FirstPageOnly(new) /\ OnlyOwned(new, own) /\ RefusedIsEmpty(new, failures)
  BY DEF SamePage, SameChoice, SameLists, SameLoading, PageInv, FirstPageOnly, OnlyOwned,
         RefusedIsEmpty
<1>5. NothingBefore(new)
  BY DEF SamePage, SameChoice, SameLists, PageInv, NothingBefore
<1>6. (~late => OfProject(new)) /\ OfFilter(new, failures)
  BY DEF SamePage, SameChoice, SameLists, SameLoading, PageInv, OfProject, OfFilter
<1>7. OfSelection(new) /\ DetailOnItsWay(new)
  BY DEF SamePage, SameChoice, SameLoading, PageInv, OfSelection, DetailOnItsWay
<1> QED BY <1>1, <1>2, <1>3, <1>4, <1>5, <1>6, <1>7 DEF PageInv

\* A handler that leaves the invariant intact leaves enough for the effects.
LEMMA IntactIsLeft ==
  ASSUME NEW old, NEW pg,
         NEW srv, NEW own, NEW late, NEW failures, PageInv(pg, srv, own, late, failures)
  PROVE  Left(old, pg, srv, own, late, failures)
BY DEF PageInv, Left, Aimed

\* Time passes on the server: issues are seen again, and projects created.
LEMMA ServerAdvances ==
  ASSUME NEW pg, NEW srv, NEW own, NEW srv2, NEW own2, NEW late, NEW failures,
         PageInv(pg, srv, own, late, failures), own \subseteq own2,
         \A i \in Issue : srv[i].seen \in Nat /\ srv2[i].seen \in Nat /\ srv[i].seen <= srv2[i].seen
  PROVE  PageInv(pg, srv2, own2, late, failures)
<1>1. \A e : EntryOK(e, srv) => EntryOK(e, srv2)
  <2> SUFFICES ASSUME NEW e, EntryOK(e, srv) PROVE e.seen <= srv2[e.id].seen
    BY DEF EntryOK
  <2>1. /\ e.seen \in Nat /\ e.seen <= srv[e.id].seen
        /\ srv[e.id].seen \in Nat /\ srv2[e.id].seen \in Nat /\ srv[e.id].seen <= srv2[e.id].seen
    BY DEF EntryOK
  <2> QED BY <2>1
<1>2. \A issues : ListOK(issues, srv) => ListOK(issues, srv2)
  BY <1>1 DEF ListOK
<1>3. \A r : ReplyOK(r, srv, own) => ReplyOK(r, srv2, own2)
  BY <1>1, <1>2 DEF ReplyOK
<1>4. \A r : RequestOK(r, srv, own) => RequestOK(r, srv2, own2)
  BY <1>3 DEF RequestOK
<1>5. PageTyped(pg, srv2, own2)
  BY <1>2, <1>4 DEF PageInv, PageTyped
<1>6. OnlyOwned(pg, own2)
  BY DEF PageInv, OnlyOwned
<1> QED BY <1>5, <1>6 DEF PageInv

\* Requests that may be made at any time.
LEMMA SendKeeps ==
  ASSUME NEW pg, NEW srv, NEW own, NEW late, NEW failures, PageInv(pg, srv, own, late, failures),
         NEW r, RequestOK(r, srv, own), Aimed(r, pg), r.kind \notin {"issues", "projects"}
  PROVE  PageInv(Send(pg, r), srv, own, late, failures)
<1> DEFINE new == Send(pg, r)
<1>1. /\ IsPage(new)
      /\ SameChoice(new, pg) /\ SameLists(new, pg) /\ new.detail = pg.detail
      /\ SameLoading(new, pg)
      /\ new.requests = pg.requests \cup {r}
  BY SendFields DEF PageInv, PageTyped
<1> HIDE DEF new
<1>2. PageTyped(new, srv, own)
  BY <1>1 DEF SameChoice, SameLists, SameLoading, PageInv, PageTyped
<1>3. \A s \in new.requests : Aimed(s, new)
  BY <1>1 DEF SameChoice, PageInv, Aimed, AimedAtSelection, AimedAtProject, AimedAtList
<1>4. AtMostOne("issues", new) /\ AtMostOne("projects", new)
  BY <1>1 DEF PageInv, AtMostOne
<1>5. FirstPageOnly(new) /\ OnlyOwned(new, own) /\ RefusedIsEmpty(new, failures)
  BY <1>1 DEF SameChoice, SameLists, SameLoading, PageInv, FirstPageOnly, OnlyOwned,
              RefusedIsEmpty
<1>6. NothingBefore(new)
  BY <1>1 DEF SameChoice, SameLists, PageInv, NothingBefore
<1>7. (~late => OfProject(new)) /\ OfFilter(new, failures)
  BY <1>1 DEF SameChoice, SameLists, SameLoading, PageInv, OfProject, OfFilter
<1>8. OfSelection(new) /\ DetailOnItsWay(new)
  BY <1>1 DEF SameChoice, SameLoading, PageInv, OfSelection, DetailOnItsWay
<1> QED BY <1>2, <1>3, <1>4, <1>5, <1>6, <1>7, <1>8 DEF PageInv, new

\* A list may be loaded at any time too: the request before is forgotten.
LEMMA LoadIssuesKeeps ==
  ASSUME NEW pg, NEW srv, NEW own, NEW late, NEW failures, PageInv(pg, srv, own, late, failures),
         NEW after, pg.loadingIssues => after = None
  PROVE  PageInv(LoadIssues(pg, after), srv, own, late, failures)
<1>1. CASE pg.projectId = None
  BY <1>1 DEF LoadIssues
<1>2. CASE pg.projectId # None
  <2> DEFINE new == LoadIssues(pg, after)
             list == ListRequest(pg, after)
  <2>1. /\ IsPage(new)
        /\ SameChoice(new, pg) /\ SameLists(new, pg) /\ new.detail = pg.detail
        /\ new.loadingDetail = pg.loadingDetail
        /\ new.loadingIssues = (pg.loadingIssues \/ after = None)
        /\ new.requests = {r \in pg.requests : r.kind # "issues"} \cup {list}
    BY <1>2, LoadIssuesFields DEF PageInv, PageTyped
  <2>2. /\ list.kind = "issues" /\ list.project = pg.projectId /\ list.status = pg.filter
        /\ list.after = after /\ list.reply = None
    BY DEF ListRequest, Request
  <2>3. RequestOK(list, srv, own)
    BY <1>2, ListRequestOK DEF PageInv
  <2> HIDE DEF new, list
  <2>4. pg.loadingIssues \in BOOLEAN
    BY DEF PageInv, PageTyped
  <2>5. PageTyped(new, srv, own)
    BY <2>1, <2>3, <2>4 DEF SameChoice, SameLists, PageInv, PageTyped
  <2>6. \A r \in new.requests : Aimed(r, new)
    BY <2>1, <2>2 DEF SameChoice, PageInv, Aimed, AimedAtSelection, AimedAtProject, AimedAtList
  <2>7. AtMostOne("issues", new) /\ AtMostOne("projects", new)
    BY <2>1, <2>2 DEF PageInv, AtMostOne
  <2>8. FirstPageOnly(new)
    BY <2>1, <2>2, <2>4 DEF FirstPageOnly
  <2>9. OnlyOwned(new, own) /\ RefusedIsEmpty(new, failures)
    BY <2>1, <2>2, NoneAssumption DEF SameChoice, SameLists, PageInv, OnlyOwned, RefusedIsEmpty
  <2>10. NothingBefore(new)
    BY <1>2, <2>1 DEF SameChoice, NothingBefore
  <2>11. (~late => OfProject(new)) /\ OfFilter(new, failures)
    BY <2>1, <2>4 DEF SameChoice, SameLists, PageInv, OfProject, OfFilter
  <2>12. OfSelection(new) /\ DetailOnItsWay(new)
    BY <2>1, <2>2 DEF SameChoice, PageInv, OfSelection, DetailOnItsWay
  <2> QED BY <2>5, <2>6, <2>7, <2>8, <2>9, <2>10, <2>11, <2>12 DEF PageInv, new
<1> QED BY <1>1, <1>2

LEMMA SettleFields ==
  ASSUME NEW r, IsPage(page)
  PROVE  /\ IsPage(Settle(r))
         /\ SameChoice(Settle(r), page) /\ SameLists(Settle(r), page)
         /\ Settle(r).detail = page.detail
         /\ SameLoading(Settle(r), page)
         /\ Settle(r).requests = page.requests \ {r}
BY RequestsExcept DEF Settle

\* A reply that comes in concerns nothing but what its handler changes; only that to a
\* request for the detail was waited for.
LEMMA SettleKeeps ==
  ASSUME NEW srv, NEW own, NEW late, NEW failures, PageInv(page, srv, own, late, failures),
         NEW r \in page.requests, r.kind # "detail"
  PROVE  PageInv(Settle(r), srv, own, late, failures)
<1> DEFINE new == Settle(r)
<1>1. /\ IsPage(new)
      /\ SameChoice(new, page) /\ SameLists(new, page) /\ new.detail = page.detail
      /\ SameLoading(new, page)
      /\ new.requests = page.requests \ {r}
  BY SettleFields DEF PageInv, PageTyped
<1> HIDE DEF new
<1>2. PageTyped(new, srv, own)
  BY <1>1 DEF SameChoice, SameLists, SameLoading, PageInv, PageTyped
<1>3. \A s \in new.requests : Aimed(s, new)
  BY <1>1 DEF SameChoice, PageInv, Aimed, AimedAtSelection, AimedAtProject, AimedAtList
<1>4. AtMostOne("issues", new) /\ AtMostOne("projects", new)
  BY <1>1 DEF PageInv, AtMostOne
<1>5. FirstPageOnly(new) /\ OnlyOwned(new, own) /\ RefusedIsEmpty(new, failures)
  BY <1>1 DEF SameChoice, SameLists, SameLoading, PageInv, FirstPageOnly, OnlyOwned,
              RefusedIsEmpty
<1>6. NothingBefore(new)
  BY <1>1 DEF SameChoice, SameLists, PageInv, NothingBefore
<1>7. (~late => OfProject(new)) /\ OfFilter(new, failures)
  BY <1>1 DEF SameChoice, SameLists, SameLoading, PageInv, OfProject, OfFilter
<1>8. OfSelection(new) /\ DetailOnItsWay(new)
  BY <1>1 DEF SameChoice, SameLoading, PageInv, OfSelection, DetailOnItsWay
<1> QED BY <1>2, <1>3, <1>4, <1>5, <1>6, <1>7, <1>8 DEF PageInv, new

----------------------------------------------------------------------------
(* Choosing a project, an issue or a filter.                               *)

SameSelection(project, issue) == page.projectId = project /\ page.selectedId = issue

\* What is left of a list when project has been chosen.
ListsFor(project, issues) == IF page.projectId = project THEN issues ELSE {}

LEMMA ChangeSelectionFields ==
  ASSUME NEW pg, IsPage(pg), \A r \in pg.requests : IsRequest(r),
         NEW project, NEW issue, ~SameSelection(project, issue)
  PROVE  LET new == ChangeSelection(pg, project, issue)
         IN /\ IsPage(new)
            /\ new.projects = pg.projects /\ new.filter = pg.filter
            /\ new.projectId = project /\ new.selectedId = issue
            /\ new.issues = ListsFor(project, pg.issues)
            /\ new.habitatIssues = ListsFor(project, pg.habitatIssues)
            /\ new.detail = None
            /\ SameLoading(new, pg)
            /\ \A r \in new.requests :
                 /\ Kept(r, pg.requests)
                 /\ r.kind \notin {"issues", "detail"}
                 /\ r.kind = "update" => ~r.current
<1> DEFINE newer == NewRequestVersion(pg)
           void == NewDetailVersion(newer)
           new == ChangeSelection(pg, project, issue)
           issues == ListsFor(project, void.issues)
           habitat == ListsFor(project, void.habitatIssues)
<1>1. /\ IsPage(newer)
      /\ SameChoice(newer, pg) /\ SameLists(newer, pg) /\ newer.detail = pg.detail
      /\ SameLoading(newer, pg)
      /\ newer.requests = {r \in pg.requests : r.kind # "issues"}
  BY NewRequestVersionFields
<1>2. /\ IsPage(void)
      /\ SameChoice(void, newer) /\ SameLists(void, newer) /\ void.detail = newer.detail
      /\ SameLoading(void, newer)
      /\ void.requests = {r \in newer.requests : r.kind \notin {"detail", "update"}}
           \cup {[r EXCEPT !.current = FALSE] : r \in {r \in newer.requests : r.kind = "update"}}
  <2> HIDE DEF newer
  <2> QED BY <1>1, NewDetailVersionFields
<1>3. PICK cursors :
        new = [void EXCEPT
                 !.detail = None, !.detailError = FALSE, !.updating = FALSE,
                 !.realtimeNotice = FALSE, !.projectId = project, !.selectedId = issue,
                 !.issues = issues, !.habitatIssues = habitat, !.nextCursor = cursors]
  BY DEF ChangeSelection, SameSelection, ListsFor
<1>4. /\ IsPage(new)
      /\ new.projects = void.projects /\ new.filter = void.filter
      /\ new.projectId = project /\ new.selectedId = issue
      /\ new.issues = issues /\ new.habitatIssues = habitat /\ new.detail = None
      /\ SameLoading(new, void)
      /\ new.requests = void.requests
  <2> HIDE DEF new, void, issues, habitat
  <2> QED BY <1>2, <1>3 DEF IsPage, SameLoading
<1>5. void.issues = pg.issues /\ void.habitatIssues = pg.habitatIssues
  <2> HIDE DEF void, newer
  <2> QED BY <1>1, <1>2 DEF SameLists
<1>6. new.projects = pg.projects /\ new.filter = pg.filter /\ SameLoading(new, pg)
  <2> HIDE DEF new, void, newer
  <2> QED BY <1>1, <1>2, <1>4 DEF SameChoice, SameLoading
<1>7. ASSUME NEW r \in new.requests
      PROVE  /\ Kept(r, pg.requests)
             /\ r.kind \notin {"issues", "detail"}
             /\ r.kind = "update" => ~r.current
  <2>1. CASE r \in pg.requests /\ r.kind \notin {"issues", "detail", "update"}
    BY <2>1 DEF Kept
  <2>2. ASSUME NEW t \in pg.requests, t.kind = "update", r = [t EXCEPT !.current = FALSE]
        PROVE  Kept(r, pg.requests) /\ r.kind = "update" /\ r.current = FALSE
    <3>1. Kept(r, pg.requests)
      BY <2>2 DEF Kept
    <3>2. IsRequest(t)
      OBVIOUS
    <3> HIDE DEF new
    <3>3. r.kind = t.kind /\ r.current = FALSE
      BY <2>2, <3>2 DEF IsRequest
    <3> QED BY <2>2, <3>1, <3>3
  <2> HIDE DEF new, void, newer
  <2>3. \/ r \in newer.requests /\ r.kind \notin {"detail", "update"}
        \/ \E t \in newer.requests : t.kind = "update" /\ r = [t EXCEPT !.current = FALSE]
    BY <1>2, <1>4
  <2>4. newer.requests \subseteq pg.requests /\ \A t \in newer.requests : t.kind # "issues"
    BY <1>1
  <2> QED BY <2>1, <2>2, <2>3, <2>4
<1> HIDE DEF new
<1> QED BY <1>4, <1>5, <1>6, <1>7 DEF new

Alike(r, s) ==
  /\ r.kind = s.kind /\ r.project = s.project /\ r.issue = s.issue
  /\ r.status = s.status /\ (r.current => s.current)

LEMMA AimedAlike ==
  ASSUME NEW r, NEW s, Alike(r, s), NEW pg, NEW new, new.projectId = pg.projectId
  PROVE  /\ new.selectedId = pg.selectedId /\ AimedAtSelection(s, pg) => AimedAtSelection(r, new)
         /\ AimedAtProject(s, pg) => AimedAtProject(r, new)
         /\ new.filter = pg.filter /\ AimedAtList(s, pg) => AimedAtList(r, new)
BY DEF Alike, AimedAtSelection, AimedAtProject, AimedAtList

\* The component with project and issue selected: whatever they are, the requests that
\* were made for another choice do not count.
Reselected(new, project, issue, own) ==
  /\ IsPage(new) /\ new.projects \subseteq own /\ new.filter \in Status
  /\ new.projectId = project /\ new.selectedId = issue
  /\ new.issues = ListsFor(project, page.issues)
  /\ new.habitatIssues = ListsFor(project, page.habitatIssues)
  /\ new.detail \in {page.detail, None}
  /\ SameLoading(new, page)
  /\ \A r \in new.requests : Kept(r, page.requests)
  /\ ~SameSelection(project, issue) =>
       /\ new.detail = None
       /\ \A r \in new.requests :
            r.kind \notin {"issues", "detail"} /\ (r.kind = "update" => ~r.current)
  /\ SameSelection(project, issue) =>
       \A r \in page.requests : r.kind = "detail" => r \in new.requests

LEMMA ReselectedLeft ==
  ASSUME NEW srv, NEW own, NEW late, NEW failures, PageInv(page, srv, own, late, failures),
         NEW project \in Project \cup {None}, NEW issue \in Issue \cup {None},
         NEW later, late /\ project = page.projectId => later,
         NEW new, Reselected(new, project, issue, own)
  PROVE  Left(page, new, srv, own, later, failures)
<1> USE DEF Reselected
<1>1. /\ PageTyped(page, srv, own)
      /\ \A s \in page.requests : RequestOK(s, srv, own) /\ IsRequest(s)
  BY DEF PageInv, PageTyped, RequestOK
<1>2. \A r \in new.requests : \E s \in page.requests :
        /\ r.kind = s.kind /\ r.project = s.project /\ r.issue = s.issue
        /\ r.status = s.status /\ r.after = s.after /\ r.reply = s.reply
        /\ r.current => s.current
        /\ r.kind # "update" => r = s
  BY <1>1, KeptFields
<1>3. \A r \in new.requests : r.kind # "update" => r \in page.requests
  BY <1>2
<1>4. NewProject(page, new) <=> project # page.projectId
  BY DEF NewProject
<1>5. NewSelection(page, new) <=> ~SameSelection(project, issue)
  BY DEF NewProject, NewSelection, SameSelection
<1>6. ~NewList(page, new) => project = page.projectId /\ new.filter = page.filter
  BY DEF NewProject, NewList
<1>7. project = page.projectId => SameLists(new, page)
  BY DEF SameLists, ListsFor
<1>8. project # page.projectId =>
        /\ new.issues = {} /\ new.habitatIssues = {}
        /\ ~SameSelection(project, issue)
  BY DEF SameSelection, ListsFor
<1>9. PageTyped(new, srv, own)
  <2>1. \A r \in new.requests : RequestOK(r, srv, own)
    BY <1>1, KeptOK
  <2>2. ListOK({}, srv)
    BY DEF ListOK, NoDuplicates
  <2>3. ListOK(new.issues, srv) /\ ListOK(new.habitatIssues, srv)
    BY <1>1, <1>7, <1>8, <2>2 DEF PageTyped, SameLists
  <2> QED BY <1>1, <2>1, <2>3 DEF PageTyped, SameLoading
<1>10. ASSUME NEW r \in new.requests
       PROVE  /\ NewSelection(page, new) \/ AimedAtSelection(r, new)
              /\ NewProject(page, new) \/ AimedAtProject(r, new)
              /\ NewList(page, new) \/ AimedAtList(r, new)
  <2>1. PICK s \in page.requests : Alike(r, s)
    BY <1>2 DEF Alike
  <2>2. AimedAtSelection(s, page) /\ AimedAtProject(s, page) /\ AimedAtList(s, page)
    BY DEF PageInv, Aimed
  <2>3. SameSelection(project, issue) => AimedAtSelection(r, new)
    BY <2>1, <2>2, AimedAlike DEF SameSelection
  <2>4. project = page.projectId => AimedAtProject(r, new)
    BY <2>1, <2>2, AimedAlike
  <2>5. project = page.projectId /\ new.filter = page.filter => AimedAtList(r, new)
    BY <2>1, <2>2, AimedAlike
  <2> QED BY <1>4, <1>5, <1>6, <2>3, <2>4, <2>5
<1>11. AtMostOne("issues", new) /\ AtMostOne("projects", new) /\ FirstPageOnly(new)
  BY <1>3 DEF PageInv, AtMostOne, FirstPageOnly, SameLoading
<1>12. OnlyOwned(new, own)
  BY <1>7, <1>8 DEF PageInv, OnlyOwned, SameLists
<1>13. NewList(page, new) \/ RefusedIsEmpty(new, failures)
  BY <1>3, <1>6, <1>7 DEF PageInv, RefusedIsEmpty, SameLists
<1>14. NothingBefore(new)
  <2>1. CASE project = page.projectId
    BY <1>3, <1>7, <2>1 DEF PageInv, NothingBefore, SameLists
  <2>2. CASE project # page.projectId
    BY <1>8, <2>2 DEF NothingBefore
  <2> QED BY <2>1, <2>2
<1>15. ~later => OfProject(new)
  BY <1>7, <1>8 DEF PageInv, OfProject, SameLists
<1>16. NewList(page, new) \/ OfFilter(new, failures)
  BY <1>6, <1>7 DEF PageInv, OfFilter, SameLists, SameLoading
<1>17. OfSelection(new)
  BY DEF PageInv, OfSelection, SameSelection
<1>18. NewSelection(page, new) \/ DetailOnItsWay(new)
  BY <1>5 DEF PageInv, DetailOnItsWay, SameLoading
<1> QED BY <1>9, <1>10, <1>11, <1>12, <1>13, <1>14, <1>15, <1>16, <1>17, <1>18 DEF Left

\* The component with another filter, otherwise as it was.
SameButFilter(new, pg) ==
  /\ IsPage(new)
  /\ new.projects = pg.projects /\ new.projectId = pg.projectId
  /\ new.selectedId = pg.selectedId
  /\ SameLists(new, pg) /\ new.detail = pg.detail /\ SameLoading(new, pg)
  /\ new.requests = pg.requests

\* The component with other projects, a request less and another filter.
ChoiceUntouched(pg, own) ==
  /\ IsPage(pg)
  /\ pg.projects \subseteq own
  /\ pg.projectId = page.projectId /\ pg.selectedId = page.selectedId
  /\ SameLists(pg, page) /\ pg.detail = page.detail /\ SameLoading(pg, page)
  /\ pg.requests \subseteq page.requests
  /\ \A r \in page.requests : r.kind = "detail" => r \in pg.requests

LEMMA ChangeSelectionLeft ==
  ASSUME NEW srv, NEW own, NEW late, NEW failures, PageInv(page, srv, own, late, failures),
         NEW project \in Project \cup {None}, NEW issue \in Issue \cup {None},
         NEW later, late /\ project = page.projectId => later,
         NEW pg, ChoiceUntouched(pg, own),
         NEW new, SameButFilter(new, ChangeSelection(pg, project, issue)), new.filter \in Status
  PROVE  Left(page, new, srv, own, later, failures)
<1> DEFINE change == ChangeSelection(pg, project, issue)
<1>1. \A r \in page.requests : IsRequest(r)
  BY DEF PageInv, PageTyped, RequestOK
<1>2. \A r \in pg.requests : r \in page.requests /\ IsRequest(r)
  BY <1>1 DEF ChoiceUntouched
<1>3. CASE SameSelection(project, issue)
  <2>1. change = pg
    BY <1>3 DEF ChangeSelection, SameSelection
  <2>2. /\ IsPage(new) /\ new.projects \subseteq own
        /\ new.projectId = project /\ new.selectedId = issue
        /\ SameLists(new, page) /\ new.detail = page.detail /\ SameLoading(new, page)
        /\ new.requests = pg.requests
    BY <1>3, <2>1 DEF SameSelection, SameButFilter, ChoiceUntouched, SameLists, SameLoading
  <2>3. /\ new.issues = ListsFor(project, page.issues)
        /\ new.habitatIssues = ListsFor(project, page.habitatIssues)
    BY <1>3, <2>2 DEF SameSelection, SameLists, ListsFor
  <2>4. \A r \in new.requests : Kept(r, page.requests)
    BY <1>2, <2>2 DEF Kept
  <2>5. \A r \in page.requests : r.kind = "detail" => r \in new.requests
    BY <2>2 DEF ChoiceUntouched
  <2>6. Reselected(new, project, issue, own)
    BY <1>3, <2>2, <2>3, <2>4, <2>5 DEF Reselected
  <2> QED BY <2>6, ReselectedLeft
<1>4. CASE ~SameSelection(project, issue)
  <2>1. /\ IsPage(change)
        /\ change.projects = pg.projects /\ change.filter = pg.filter
        /\ change.projectId = project /\ change.selectedId = issue
        /\ change.issues = ListsFor(project, pg.issues)
        /\ change.habitatIssues = ListsFor(project, pg.habitatIssues)
        /\ change.detail = None
        /\ SameLoading(change, pg)
        /\ \A r \in change.requests :
             /\ Kept(r, pg.requests)
             /\ r.kind \notin {"issues", "detail"}
             /\ r.kind = "update" => ~r.current
    BY <1>2, <1>4, ChangeSelectionFields DEF ChoiceUntouched
  <2> HIDE DEF change
  <2>2. /\ IsPage(new) /\ new.projects \subseteq own
        /\ new.projectId = project /\ new.selectedId = issue
        /\ new.issues = ListsFor(project, page.issues)
        /\ new.habitatIssues = ListsFor(project, page.habitatIssues)
        /\ new.detail = None /\ SameLoading(new, page)
        /\ new.requests = change.requests
    <3>1. SameButFilter(new, change)
      BY DEF change
    <3> QED BY <2>1, <3>1 DEF SameButFilter, ChoiceUntouched, SameLists, SameLoading
  <2>3. \A r \in new.requests :
          /\ Kept(r, page.requests)
          /\ r.kind \notin {"issues", "detail"} /\ (r.kind = "update" => ~r.current)
    BY <1>2, <2>1, <2>2 DEF Kept
  <2>4. Reselected(new, project, issue, own)
    BY <1>4, <2>2, <2>3 DEF Reselected
  <2> QED BY <2>4, ReselectedLeft
<1> QED BY <1>3, <1>4

LEMMA PageIsUntouched ==
  ASSUME NEW srv, NEW own, NEW late, NEW failures, PageInv(page, srv, own, late, failures)
  PROVE  ChoiceUntouched(page, own)
BY DEF PageInv, PageTyped, ChoiceUntouched, SameLists, SameLoading

LEMMA ChangeSelectionIsPage ==
  ASSUME NEW srv, NEW own, NEW late, NEW failures, PageInv(page, srv, own, late, failures),
         NEW project, NEW issue
  PROVE  /\ IsPage(ChangeSelection(page, project, issue))
         /\ ChangeSelection(page, project, issue).filter = page.filter
         /\ ChangeSelection(page, project, issue).projectId = project
<1>1. IsPage(page) /\ \A r \in page.requests : IsRequest(r)
  BY DEF PageInv, PageTyped, RequestOK
<1>2. CASE SameSelection(project, issue)
  BY <1>1, <1>2 DEF ChangeSelection, SameSelection
<1>3. CASE ~SameSelection(project, issue)
  BY <1>1, <1>3, ChangeSelectionFields
<1> QED BY <1>2, <1>3

WithFilter(pg, filter) == [pg EXCEPT !.filter = filter]

\* What choosing a project or a filter leaves for the effects.
LEMMA ChooseFields ==
  ASSUME NEW srv, NEW own, NEW late, NEW failures, PageInv(page, srv, own, late, failures),
         NEW project, NEW issue, NEW filter
  PROVE  LET change == ChangeSelection(page, project, issue)
             new == WithFilter(change, filter)
         IN SameButFilter(new, change) /\ new.filter = filter /\ new.projectId = project
<1> DEFINE change == ChangeSelection(page, project, issue)
           new == WithFilter(change, filter)
<1>1. IsPage(change) /\ change.projectId = project
  BY ChangeSelectionIsPage
<1> HIDE DEF change
<1>2. new = [change EXCEPT !.filter = filter]
  BY DEF WithFilter
<1>3. SameButFilter(new, change) /\ new.filter = filter /\ new.projectId = project
  <2> HIDE DEF new
  <2> QED BY <1>1, <1>2 DEF IsPage, SameButFilter, SameLists, SameLoading
<1> QED BY <1>3 DEF change

LEMMA ChooseLeft ==
  ASSUME NEW srv, NEW own, NEW late, NEW failures, PageInv(page, srv, own, late, failures),
         NEW project \in Project \cup {None}, NEW issue \in Issue \cup {None}, NEW f \in Status,
         NEW later, late /\ project = page.projectId => later,
         NEW new, new = WithFilter(ChangeSelection(page, project, issue), f)
  PROVE  Left(page, new, srv, own, later, failures)
<1>1. SameButFilter(new, ChangeSelection(page, project, issue)) /\ new.filter \in Status
  BY ChooseFields
<1>2. ChoiceUntouched(page, own)
  BY PageIsUntouched
<1> QED BY <1>1, <1>2, ChangeSelectionLeft

\* Choosing an issue leaves the filter as it is.
LEMMA ChooseIssueLeft ==
  ASSUME NEW srv, NEW own, NEW late, NEW failures, PageInv(page, srv, own, late, failures),
         NEW project \in Project \cup {None}, NEW issue \in Issue \cup {None},
         NEW later, late /\ project = page.projectId => later,
         NEW new, new = ChangeSelection(page, project, issue)
  PROVE  Left(page, new, srv, own, later, failures)
<1>1. IsPage(new) /\ new.filter = page.filter
  BY ChangeSelectionIsPage
<1>2. page.filter \in Status
  BY DEF PageInv, PageTyped
<1>3. SameButFilter(new, ChangeSelection(page, project, issue)) /\ new.filter \in Status
  BY <1>1, <1>2 DEF SameButFilter, SameLists, SameLoading
<1>4. ChoiceUntouched(page, own)
  BY PageIsUntouched
<1> QED BY <1>3, <1>4, ChangeSelectionLeft

----------------------------------------------------------------------------
(* Steps that render.                                                      *)

LEMMA RenderedStep ==
  ASSUME NEW pg, NEW newIssues \in BOOLEAN, Rendered(pg, newIssues), SocketInv,
         NEW srv, NEW own, NEW late, NEW failures,
         Left(page, pg, srv, own, late, failures)
  PROVE  PageInv(page', srv, own, late, failures) /\ SocketInv'
<1> DEFINE again == NewProject(page, pg)
           effects == newIssues \/ again
<1>1. page' = Render(page, pg, effects)
  BY DEF Rendered, NewProject
<1>2. socket' = IF again THEN SocketFor(pg.projectId) ELSE socket
  BY DEF Rendered, NewProject
<1>3. again \in BOOLEAN /\ effects \in BOOLEAN
  BY DEF NewProject
<1>5. PageInv(Render(page, pg, effects), srv, own, late, failures)
  <2> HIDE DEF effects
  <2> QED BY <1>3, RenderRestores
<1>6. page'.projectId = pg.projectId
  <2>1. IsPage(pg) /\ \A r \in pg.requests : IsRequest(r)
    BY DEF Left, PageTyped, RequestOK
  <2> HIDE DEF effects
  <2>2. RenderedFields(Render(page, pg, effects), page, pg, effects)
    BY <1>3, <2>1, RenderFields
  <2> QED BY <1>1, <2>2 DEF RenderedFields, SameChoice
<1>7. SocketInv'
  <2>1. CASE again
    <3>1. socket' = [state |-> IF pg.projectId = None THEN "none" ELSE "connecting",
                     connectedOnce |-> FALSE, inbox |-> <<>>]
      BY <1>2, <2>1 DEF SocketFor
    <3> QED BY <3>1 DEF SocketInv
  <2>2. CASE ~again
    BY <1>2, <1>6, <2>2 DEF SocketInv, NewProject
  <2> QED BY <2>1, <2>2
<1> QED BY <1>1, <1>5, <1>7

LEMMA ClickStep ==
  ASSUME DashInv, NEW pg, Click(pg),
         Left(page, pg, server, owned, overtaken', spent.failures)
  PROVE  DashInv'
<1>1. PageInv(page', server, owned, overtaken', spent.failures) /\ SocketInv'
  BY RenderedStep DEF DashInv, Click
<1>2. /\ server' = server /\ owned' = owned /\ notified' = notified
      /\ overtaken' \in BOOLEAN /\ spent' = [spent EXCEPT !.clicks = spent.clicks + 1]
  BY DEF Click
<1>3. ServerInv' /\ spent'.failures = spent.failures
  BY <1>2 DEF DashInv, ServerInv
<1> QED BY <1>1, <1>2, <1>3 DEF DashInv

LEMMA ContinueStep ==
  ASSUME DashInv, NEW pg, Continue(pg),
         Left(page, pg, server, owned, overtaken', spent.failures)
  PROVE  DashInv'
<1>1. PageInv(page', server, owned, overtaken', spent.failures) /\ SocketInv'
  BY RenderedStep DEF DashInv, Continue
<1>2. /\ server' = server /\ owned' = owned /\ notified' = notified /\ spent' = spent
      /\ overtaken' \in BOOLEAN
  BY DEF Continue
<1> QED BY <1>1, <1>2 DEF DashInv, ServerInv

LEMMA ContinueWithIssuesStep ==
  ASSUME DashInv, NEW pg, ContinueWithIssues(pg),
         Left(page, pg, server, owned, overtaken, spent.failures)
  PROVE  DashInv'
<1>1. PageInv(page', server, owned, overtaken, spent.failures) /\ SocketInv'
  BY RenderedStep DEF DashInv, ContinueWithIssues
<1>2. /\ server' = server /\ owned' = owned /\ notified' = notified /\ spent' = spent
      /\ overtaken' = overtaken
  BY DEF ContinueWithIssues
<1> QED BY <1>1, <1>2 DEF DashInv, ServerInv

----------------------------------------------------------------------------
(* Clicks.                                                                 *)

LEMMA SelectProjectStep ==
  ASSUME DashInv, NEW p \in Project \cup {None}, SelectProject(p)
  PROVE  DashInv'
<1> DEFINE pg == WithFilter(ChangeSelection(page, p, None), "open")
<1>1. Click(pg) /\ overtaken' = (overtaken /\ pg.projectId = page.projectId)
  BY DEF SelectProject, Click, WithFilter
<1>2. PageInv(page, server, owned, overtaken, spent.failures)
  BY DEF DashInv
<1>3. pg.projectId = p
  BY <1>2, ChooseFields
<1>4. overtaken /\ p = page.projectId => overtaken'
  BY <1>1, <1>3
<1>5. None \in Issue \cup {None} /\ "open" \in Status
  BY DEF Status
<1>6. Left(page, pg, server, owned, overtaken', spent.failures)
  BY <1>2, <1>4, <1>5, ChooseLeft
<1> HIDE DEF pg
<1> QED BY <1>1, <1>6, ClickStep

LEMMA SetFilterStep ==
  ASSUME DashInv, NEW status \in Status, Click(SetFilter(status))
  PROVE  DashInv'
<1>7. PICK p : p = page.projectId
  OBVIOUS
<1> DEFINE pg == WithFilter(ChangeSelection(page, p, None), status)
<1>1. Click(pg) /\ overtaken' = (overtaken /\ pg.projectId = page.projectId)
  BY <1>7 DEF SetFilter, Click, WithFilter
<1>2. PageInv(page, server, owned, overtaken, spent.failures) /\ p \in Project \cup {None}
  BY <1>7 DEF DashInv, PageInv, PageTyped
<1>3. pg.projectId = p
  BY <1>2, ChooseFields
<1>4. overtaken /\ p = page.projectId => overtaken'
  BY <1>1, <1>3
<1>5. None \in Issue \cup {None}
  OBVIOUS
<1>6. Left(page, pg, server, owned, overtaken', spent.failures)
  BY <1>2, <1>4, <1>5, ChooseLeft
<1> HIDE DEF pg
<1> QED BY <1>1, <1>6, ClickStep

LEMMA SelectIssueStep ==
  ASSUME DashInv, NEW i \in Issue, SelectIssue(i)
  PROVE  DashInv'
<1>6. PICK p : p = page.projectId
  OBVIOUS
<1> DEFINE pg == ChangeSelection(page, p, i)
<1>1. Click(pg) /\ overtaken' = (overtaken /\ pg.projectId = page.projectId)
  BY <1>6 DEF SelectIssue, Click
<1>2. PageInv(page, server, owned, overtaken, spent.failures) /\ p \in Project \cup {None}
  BY <1>6 DEF DashInv, PageInv, PageTyped
<1>3. pg.projectId = p
  BY <1>2, ChangeSelectionIsPage
<1>4. overtaken /\ p = page.projectId => overtaken'
  BY <1>1, <1>3
<1>5. Left(page, pg, server, owned, overtaken', spent.failures)
  BY <1>2, <1>4, ChooseIssueLeft
<1> HIDE DEF pg
<1> QED BY <1>1, <1>5, ClickStep

\* A handler that keeps the invariant, and the project, is a step.
LEMMA IntactClickStep ==
  ASSUME DashInv, NEW pg, Click(pg), pg.projectId = page.projectId,
         PageInv(pg, server, owned, overtaken, spent.failures)
  PROVE  DashInv'
<1>1. overtaken' = overtaken
  BY DEF Click, DashInv
<1>2. Left(page, pg, server, owned, overtaken, spent.failures)
  BY IntactIsLeft
<1> QED BY <1>1, <1>2, ClickStep

LEMMA LoadIssuesProject ==
  ASSUME NEW pg, IsPage(pg), NEW after
  PROVE  LoadIssues(pg, after).projectId = pg.projectId
<1>1. CASE pg.projectId = None
  BY <1>1 DEF LoadIssues
<1>2. CASE pg.projectId # None
  BY <1>2, LoadIssuesFields DEF SameChoice
<1> QED BY <1>1, <1>2

LEMMA LoadMoreStep ==
  ASSUME DashInv, LoadMore
  PROVE  DashInv'
<1>1. PICK pg : pg = LoadIssues(page, page.nextCursor)
  OBVIOUS
<1>2. Click(pg) /\ ~page.loadingIssues
  BY <1>1 DEF LoadMore
<1>3. PageInv(page, server, owned, overtaken, spent.failures) /\ IsPage(page)
  BY DEF DashInv, PageInv, PageTyped
<1>4. PageInv(pg, server, owned, overtaken, spent.failures)
  BY <1>1, <1>2, <1>3, LoadIssuesKeeps
<1>5. pg.projectId = page.projectId
  BY <1>1, <1>3, LoadIssuesProject
<1> QED BY <1>2, <1>4, <1>5, IntactClickStep

LEMMA RefreshIssuesStep ==
  ASSUME DashInv, RefreshIssues
  PROVE  DashInv'
<1>1. PICK told : told = [page EXCEPT !.realtimeNotice = FALSE]
  OBVIOUS
<1>2. PICK pg : pg = LoadIssues(told, None)
  OBVIOUS
<1>3. Click(pg)
  BY <1>1, <1>2 DEF RefreshIssues
<1>4. PageInv(page, server, owned, overtaken, spent.failures) /\ IsPage(page)
  BY DEF DashInv, PageInv, PageTyped
<1>5. SamePage(told, page)
  BY <1>1, <1>4 DEF IsPage, SamePage, SameChoice, SameLists, SameLoading
<1>6. PageInv(told, server, owned, overtaken, spent.failures)
  BY <1>4, <1>5, SamePageInv
<1>7. PageInv(pg, server, owned, overtaken, spent.failures)
  BY <1>2, <1>6, LoadIssuesKeeps
<1>8. pg.projectId = page.projectId
  BY <1>2, <1>5, LoadIssuesProject DEF SamePage, SameChoice
<1> QED BY <1>3, <1>7, <1>8, IntactClickStep

LEMMA UpdateStatusStep ==
  ASSUME DashInv, NEW status \in Status, UpdateStatus(status)
  PROVE  DashInv'
<1>1. PICK saving : saving = [page EXCEPT !.updating = TRUE]
  OBVIOUS
<1>2. PICK r : r = Request("update", page.projectId, page.selectedId, status, None)
  OBVIOUS
<1>3. PICK pg : pg = Send(saving, r)
  OBVIOUS
<1>4. Click(pg) /\ page.projectId # None /\ page.selectedId # None
  BY <1>1, <1>2, <1>3 DEF UpdateStatus
<1>5. PageInv(page, server, owned, overtaken, spent.failures) /\ IsPage(page)
  BY DEF DashInv, PageInv, PageTyped
<1>6. SamePage(saving, page)
  BY <1>1, <1>5 DEF IsPage, SamePage, SameChoice, SameLists, SameLoading
<1>7. PageInv(saving, server, owned, overtaken, spent.failures)
  BY <1>5, <1>6, SamePageInv
<1>8. /\ IsRequest(r)
      /\ r.kind = "update" /\ r.project = page.projectId /\ r.issue = page.selectedId
      /\ r.status = status /\ r.reply = None
  BY <1>2 DEF Request, IsRequest
<1>9. RequestOK(r, server, owned)
  <2>1. page.projectId \in Project /\ page.selectedId \in Issue
    BY <1>4, <1>5 DEF PageInv, PageTyped
  <2> QED BY <1>8, <2>1 DEF RequestOK, Kinds, AboutOneIssue
<1>10. Aimed(r, saving)
  BY <1>6, <1>8 DEF SamePage, SameChoice, Aimed, AimedAtSelection, AimedAtProject, AimedAtList
<1>11. PageInv(pg, server, owned, overtaken, spent.failures)
  BY <1>3, <1>7, <1>8, <1>9, <1>10, SendKeeps
<1>12. pg.projectId = page.projectId
  BY <1>3, <1>6, SendFields DEF SamePage, SameChoice
<1> QED BY <1>4, <1>11, <1>12, IntactClickStep

LEMMA CreateProjectStep ==
  ASSUME DashInv, NEW p \in Project, CreateProject(p)
  PROVE  DashInv'
<1>1. PICK cleared : cleared = [page EXCEPT !.error = FALSE]
  OBVIOUS
<1>2. PICK r : r = Request("create", p, None, None, None)
  OBVIOUS
<1>3. PICK pg : pg = Send(cleared, r)
  OBVIOUS
<1>4. Click(pg)
  BY <1>1, <1>2, <1>3 DEF CreateProject
<1>5. PageInv(page, server, owned, overtaken, spent.failures) /\ IsPage(page)
  BY DEF DashInv, PageInv, PageTyped
<1>6. SamePage(cleared, page)
  BY <1>1, <1>5 DEF IsPage, SamePage, SameChoice, SameLists, SameLoading
<1>7. PageInv(cleared, server, owned, overtaken, spent.failures)
  BY <1>5, <1>6, SamePageInv
<1>8. /\ IsRequest(r)
      /\ r.kind = "create" /\ r.project = p /\ r.issue = None /\ r.reply = None
  BY <1>2 DEF Request, IsRequest
<1>9. RequestOK(r, server, owned)
  BY <1>8 DEF RequestOK, Kinds, AboutOneIssue
<1>10. Aimed(r, cleared)
  BY <1>8 DEF Aimed, AimedAtSelection, AimedAtProject, AimedAtList
<1>11. PageInv(pg, server, owned, overtaken, spent.failures)
  BY <1>3, <1>7, <1>8, <1>9, <1>10, SendKeeps
<1>12. pg.projectId = page.projectId
  BY <1>3, <1>6, SendFields DEF SamePage, SameChoice
<1> QED BY <1>4, <1>11, <1>12, IntactClickStep

\* Every click keeps the invariant.
LEMMA UserActsStep ==
  ASSUME DashInv, UserActs
  PROVE  DashInv'
<1>1. ASSUME NEW status \in Status, ChooseFilter(status)
      PROVE  DashInv'
  BY <1>1, SetFilterStep DEF ChooseFilter
<1>2. ASSUME ShowIssues
      PROVE  DashInv'
  BY <1>2, SetFilterStep DEF ShowIssues, Status
<1> QED BY <1>1, <1>2, SelectProjectStep, CreateProjectStep, SelectIssueStep, UpdateStatusStep,
           LoadMoreStep, RefreshIssuesStep DEF UserActs

----------------------------------------------------------------------------
(* Replies.                                                                *)

LEMMA IntactContinueStep ==
  ASSUME DashInv, NEW pg, Continue(pg), pg.projectId = page.projectId,
         PageInv(pg, server, owned, overtaken, spent.failures)
  PROVE  DashInv'
<1>1. overtaken' = overtaken
  BY DEF Continue, DashInv
<1>2. Left(page, pg, server, owned, overtaken, spent.failures)
  BY IntactIsLeft
<1> QED BY <1>1, <1>2, ContinueStep

\* A reply that changes only what the invariant does not speak of, as every error does
\* but one that ends "Loading...".
LEMMA ReplyLeavesPage ==
  ASSUME DashInv, NEW r \in page.requests, r.kind # "detail",
         NEW pg, Continue(pg), SamePage(pg, Settle(r))
  PROVE  DashInv'
<1>1. PageInv(page, server, owned, overtaken, spent.failures) /\ IsPage(page)
  BY DEF DashInv, PageInv, PageTyped
<1>2. PageInv(Settle(r), server, owned, overtaken, spent.failures)
  BY <1>1, SettleKeeps
<1>3. PageInv(pg, server, owned, overtaken, spent.failures)
  BY <1>2, SamePageInv
<1>4. pg.projectId = page.projectId
  BY <1>1, SettleFields DEF SamePage, SameChoice
<1> QED BY <1>3, <1>4, IntactContinueStep

\* What the reply about one issue says.
LEMMA IssueInReply ==
  ASSUME NEW srv, NEW own, NEW r, RequestOK(r, srv, own), r.kind \in AboutOneIssue,
         r.reply # None, r.reply # Failed
  PROVE  /\ EntryOK(IssueIn(r.reply), srv) /\ IssueIn(r.reply).id = r.issue
         /\ ProjectOf[r.issue] = r.project /\ r.project \in own
<1>1. ReplyOK(r, srv, own) /\ r.kind # "projects"
  BY DEF RequestOK, AboutOneIssue
<1>2. PICK e : /\ r.reply.issues = {e} /\ EntryOK(e, srv)
               /\ e.id = r.issue /\ ProjectOf[e.id] = r.project
  BY <1>1 DEF ReplyOK
<1>3. IssueIn(r.reply) = e
  BY <1>2 DEF IssueIn
<1> QED BY <1>1, <1>2, <1>3 DEF ReplyOK

LEMMA DetailComes ==
  ASSUME NEW srv, NEW own, NEW late, NEW failures, PageInv(page, srv, own, late, failures),
         NEW r, NEW new, IsPage(new), SameChoice(new, page), SameLists(new, page),
         new.loadingIssues = page.loadingIssues, new.loadingDetail = FALSE,
         new.detail # None => new.detail.id = page.selectedId,
         new.requests = page.requests \ {r}
  PROVE  PageInv(new, srv, own, late, failures)
<1>1. PageTyped(new, srv, own)
  BY DEF SameChoice, SameLists, PageInv, PageTyped
<1>2. \A s \in new.requests : Aimed(s, new)
  BY DEF SameChoice, PageInv, Aimed, AimedAtSelection, AimedAtProject, AimedAtList
<1>3. AtMostOne("issues", new) /\ AtMostOne("projects", new)
  BY DEF PageInv, AtMostOne
<1>4. FirstPageOnly(new) /\ OnlyOwned(new, own) /\ RefusedIsEmpty(new, failures)
  BY DEF SameChoice, SameLists, PageInv, FirstPageOnly, OnlyOwned, RefusedIsEmpty
<1>5. NothingBefore(new)
  BY DEF SameChoice, SameLists, PageInv, NothingBefore
<1>6. (~late => OfProject(new)) /\ OfFilter(new, failures)
  BY DEF SameChoice, SameLists, PageInv, OfProject, OfFilter
<1>7. OfSelection(new) /\ DetailOnItsWay(new)
  BY DEF SameChoice, OfSelection, DetailOnItsWay
<1> QED BY <1>1, <1>2, <1>3, <1>4, <1>5, <1>6, <1>7 DEF PageInv

LEMMA ReceiveDetailStep ==
  ASSUME DashInv, NEW r \in page.requests, ReceiveDetail(r)
  PROVE  DashInv'
<1>1. PageInv(page, server, owned, overtaken, spent.failures) /\ IsPage(page)
  BY DEF DashInv, PageInv, PageTyped
<1>2. PICK settled : settled = Settle(r)
  OBVIOUS
<1>3. /\ IsPage(settled)
      /\ SameChoice(settled, page) /\ SameLists(settled, page) /\ settled.detail = page.detail
      /\ SameLoading(settled, page)
      /\ settled.requests = page.requests \ {r}
  BY <1>1, <1>2, SettleFields
<1>4. PICK done : done = [settled EXCEPT !.loadingDetail = FALSE]
  OBVIOUS
<1>5. /\ IsPage(done)
      /\ SameChoice(done, page) /\ SameLists(done, page) /\ done.detail = page.detail
      /\ done.loadingIssues = page.loadingIssues /\ done.loadingDetail = FALSE
      /\ done.requests = page.requests \ {r}
  BY <1>3, <1>4 DEF IsPage, SameChoice, SameLists, SameLoading
<1>6. r.kind = "detail" /\ r.reply # None
  BY DEF ReceiveDetail, Receives
<1>7. CASE r.reply = Failed
  <2>1. PICK new : new = [done EXCEPT !.detailError = TRUE]
    OBVIOUS
  <2>2. Continue(new)
    BY <1>2, <1>4, <1>7, <2>1 DEF ReceiveDetail
  <2>3. /\ IsPage(new)
        /\ SameChoice(new, page) /\ SameLists(new, page) /\ new.detail = page.detail
        /\ new.loadingIssues = page.loadingIssues /\ new.loadingDetail = FALSE
        /\ new.requests = page.requests \ {r}
    BY <1>5, <2>1 DEF IsPage, SameChoice, SameLists
  <2>4. new.detail # None => new.detail.id = page.selectedId
    BY <1>1, <2>3 DEF PageInv, OfSelection
  <2>5. PageInv(new, server, owned, overtaken, spent.failures)
    BY <1>1, <2>3, <2>4, DetailComes
  <2> QED BY <2>2, <2>3, <2>5, IntactContinueStep DEF SameChoice
<1>8. CASE r.reply # Failed
  <2>1. PICK loaded : loaded = IssueIn(r.reply)
    OBVIOUS
  <2>2. PICK new : new = [done EXCEPT !.detail = loaded]
    OBVIOUS
  <2>3. Continue(new)
    BY <1>2, <1>4, <1>8, <2>1, <2>2 DEF ReceiveDetail
  <2>4. /\ IsPage(new)
        /\ SameChoice(new, page) /\ SameLists(new, page) /\ new.detail = loaded
        /\ new.loadingIssues = page.loadingIssues /\ new.loadingDetail = FALSE
        /\ new.requests = page.requests \ {r}
    BY <1>5, <2>2 DEF IsPage, SameChoice, SameLists
  <2>5. loaded.id = page.selectedId
    <3>1. RequestOK(r, server, owned) /\ AimedAtSelection(r, page)
      BY <1>1 DEF PageInv, PageTyped, Aimed
    <3>2. r.issue = page.selectedId
      BY <1>6, <3>1 DEF AimedAtSelection
    <3>3. loaded.id = r.issue
      BY <1>6, <1>8, <2>1, <3>1, IssueInReply DEF AboutOneIssue
    <3> QED BY <3>2, <3>3
  <2>6. PageInv(new, server, owned, overtaken, spent.failures)
    BY <1>1, <2>4, <2>5, DetailComes
  <2> QED BY <2>3, <2>4, <2>6, IntactContinueStep DEF SameChoice
<1> QED BY <1>7, <1>8

\* The component when the projects have been loaded: a chosen one that is missing gives
\* way to p.
ProjectsLoaded(new, r, loaded, p) ==
  /\ IsPage(new) /\ new.projects = loaded
  /\ new.projectId = IF page.projectId \in loaded THEN page.projectId ELSE p
  /\ new.filter = page.filter /\ new.selectedId = page.selectedId
  /\ SameLists(new, page) /\ new.detail = page.detail /\ SameLoading(new, page)
  /\ new.requests = page.requests \ {r}

\* The page is overtaken, if its lists stay though their project does not.
OvertakenBy(late, later, loaded) ==
  /\ late => later
  /\ page.projectId \notin loaded /\ page.issues \cup page.habitatIssues # {} => later

LEMMA ProjectsLeft ==
  ASSUME NEW srv, NEW own, own \subseteq Project, NEW late, NEW failures,
         PageInv(page, srv, own, late, failures),
         NEW r \in page.requests, r.kind = "projects",
         NEW loaded, loaded \subseteq own, NEW p \in own \cup {None},
         NEW new, ProjectsLoaded(new, r, loaded, p),
         NEW later, OvertakenBy(late, later, loaded)
  PROVE  Left(page, new, srv, own, later, failures)
<1> USE DEF ProjectsLoaded, OvertakenBy
<1>1. NewProject(page, new) <=> new.projectId # page.projectId
  BY DEF NewProject
<1>2. PageTyped(new, srv, own)
  BY DEF SameLists, SameLoading, PageInv, PageTyped
<1>3. ASSUME NEW s \in new.requests
      PROVE  /\ NewSelection(page, new) \/ AimedAtSelection(s, new)
             /\ NewProject(page, new) \/ AimedAtProject(s, new)
             /\ NewList(page, new) \/ AimedAtList(s, new)
  BY <1>1 DEF NewSelection, NewList, PageInv, Aimed, AimedAtSelection, AimedAtProject,
              AimedAtList
<1>4. AtMostOne("issues", new) /\ AtMostOne("projects", new)
  BY DEF PageInv, AtMostOne
<1>5. FirstPageOnly(new)
  BY DEF SameLoading, PageInv, FirstPageOnly
<1>6. OnlyOwned(new, own)
  BY DEF OnlyOwned
<1>7. NewList(page, new) \/ RefusedIsEmpty(new, failures)
  BY <1>1 DEF NewList, SameLists, PageInv, RefusedIsEmpty
<1>8. NothingBefore(new)
  BY DEF PageInv, AtMostOne, NothingBefore
<1>9. ~later => OfProject(new)
  BY DEF SameLists, PageInv, OfProject
<1>10. NewList(page, new) \/ OfFilter(new, failures)
  BY <1>1 DEF NewList, SameLists, SameLoading, PageInv, OfFilter
<1>11. OfSelection(new)
  BY DEF PageInv, OfSelection
<1>12. NewSelection(page, new) \/ DetailOnItsWay(new)
  BY DEF SameLoading, PageInv, DetailOnItsWay
<1> QED BY <1>2, <1>3, <1>4, <1>5, <1>6, <1>7, <1>8, <1>9, <1>10, <1>11, <1>12 DEF Left

LEMMA ReceiveProjectsStep ==
  ASSUME DashInv, NEW r \in page.requests, ReceiveProjects(r)
  PROVE  DashInv'
<1>1. PageInv(page, server, owned, overtaken, spent.failures) /\ IsPage(page)
  BY DEF DashInv, PageInv, PageTyped
<1>2. PICK settled : settled = Settle(r)
  OBVIOUS
<1>3. /\ IsPage(settled)
      /\ SameChoice(settled, page) /\ SameLists(settled, page) /\ settled.detail = page.detail
      /\ SameLoading(settled, page)
      /\ settled.requests = page.requests \ {r}
  BY <1>1, <1>2, SettleFields
<1>4. r.kind = "projects" /\ r.reply # None
  BY DEF ReceiveProjects, Receives
<1>5. CASE r.reply = Failed
  <2>1. PICK new : new = [settled EXCEPT !.error = TRUE]
    OBVIOUS
  <2>2. Continue(new)
    BY <1>2, <1>5, <2>1 DEF ReceiveProjects
  <2>3. SamePage(new, settled)
    BY <1>3, <2>1 DEF IsPage, SamePage, SameChoice, SameLists, SameLoading
  <2> QED BY <1>2, <1>4, <2>2, <2>3, ReplyLeavesPage
<1>6. CASE r.reply # Failed
  <2>1. PICK loaded : loaded = r.reply.projects
    OBVIOUS
  <2>2. PICK p \in First(loaded) :
          Rendered([settled EXCEPT
                      !.projects = loaded,
                      !.projectId = IF @ \in loaded THEN @ ELSE p], FALSE)
    BY <1>2, <1>6, <2>1 DEF ReceiveProjects
  <2>3. PICK project : project = IF settled.projectId \in loaded THEN settled.projectId ELSE p
    OBVIOUS
  <2>4. PICK new : new = [settled EXCEPT !.projects = loaded, !.projectId = project]
    OBVIOUS
  <2>5. Rendered(new, FALSE)
    BY <2>2, <2>3, <2>4
  <2>6. PICK no \in BOOLEAN : Rendered(new, no)
    BY <2>5
  <2>7. loaded \subseteq owned
    <3>1. RequestOK(r, server, owned)
      BY <1>1 DEF PageInv, PageTyped
    <3> QED BY <1>4, <1>6, <2>1, <3>1 DEF RequestOK, ReplyOK
  <2>8. owned \subseteq Project
    BY DEF DashInv, ServerInv
  <2>9. p \in owned \cup {None}
    BY <2>2, <2>7 DEF First
  <2>10. /\ IsPage(new) /\ new.projects = loaded /\ new.projectId = project
         /\ new.filter = page.filter /\ new.selectedId = page.selectedId
         /\ SameLists(new, page) /\ new.detail = page.detail /\ SameLoading(new, page)
         /\ new.requests = page.requests \ {r}
    BY <1>3, <2>4 DEF IsPage, SameChoice, SameLists, SameLoading
  <2>11. ProjectsLoaded(new, r, loaded, p)
    BY <1>3, <2>3, <2>10 DEF SameChoice, ProjectsLoaded
  <2>12. PICK later \in BOOLEAN : later = overtaken'
    BY <1>6 DEF ReceiveProjects, Continue
  <2>13. OvertakenBy(overtaken, later, loaded)
    BY <1>6, <2>1, <2>12 DEF ReceiveProjects, OvertakenBy
  <2>14. Left(page, new, server, owned, later, spent.failures)
    BY <1>1, <1>4, <2>7, <2>8, <2>9, <2>11, <2>13, ProjectsLeft
  <2>15. PageInv(page', server, owned, later, spent.failures) /\ SocketInv'
    BY <2>6, <2>14, RenderedStep DEF DashInv
  <2>16. UNCHANGED <<server, owned, notified, spent>>
    BY <1>6 DEF ReceiveProjects
  <2> QED BY <2>12, <2>15, <2>16 DEF DashInv, ServerInv
<1> QED BY <1>5, <1>6

LEMMA ReceiveCreatedStep ==
  ASSUME DashInv, NEW r \in page.requests, ReceiveCreated(r)
  PROVE  DashInv'
<1>1. PageInv(page, server, owned, overtaken, spent.failures) /\ IsPage(page)
  BY DEF DashInv, PageInv, PageTyped
<1>2. PICK settled : settled = Settle(r)
  OBVIOUS
<1>3. /\ IsPage(settled)
      /\ SameChoice(settled, page) /\ SameLists(settled, page) /\ settled.detail = page.detail
      /\ SameLoading(settled, page)
      /\ settled.requests = page.requests \ {r}
  BY <1>1, <1>2, SettleFields
<1>4. r.kind = "create" /\ r.reply # None
  BY DEF ReceiveCreated, Receives
<1>5. CASE r.reply = Failed
  <2>1. PICK new : new = [settled EXCEPT !.error = TRUE]
    OBVIOUS
  <2>2. Continue(new)
    BY <1>2, <1>5, <2>1 DEF ReceiveCreated
  <2>3. SamePage(new, settled)
    BY <1>3, <2>1 DEF IsPage, SamePage, SameChoice, SameLists, SameLoading
  <2> QED BY <1>2, <1>4, <2>2, <2>3, ReplyLeavesPage
<1>6. CASE r.reply # Failed
  <2>1. PICK project : project = r.project
    OBVIOUS
  <2>2. project \in owned /\ owned \subseteq Project
    <3>1. RequestOK(r, server, owned)
      BY <1>1 DEF PageInv, PageTyped
    <3> QED BY <1>4, <1>6, <2>1, <3>1 DEF RequestOK, ReplyOK, DashInv, ServerInv
  <2>3. PICK known : known = settled.projects \cup {project}
    OBVIOUS
  <2>4. PICK pg : pg = [settled EXCEPT !.projects = known, !.filter = "open"]
    OBVIOUS
  <2>5. PICK new : new = ChangeSelection(pg, project, None)
    OBVIOUS
  <2>6. Continue(new)
    BY <1>2, <1>6, <2>1, <2>3, <2>4, <2>5 DEF ReceiveCreated
  <2>7. /\ IsPage(pg) /\ pg.projects = known /\ pg.filter = "open"
        /\ pg.projectId = page.projectId /\ pg.selectedId = page.selectedId
        /\ SameLists(pg, page) /\ pg.detail = page.detail /\ SameLoading(pg, page)
        /\ pg.requests = page.requests \ {r}
    BY <1>3, <2>4 DEF IsPage, SameChoice, SameLists, SameLoading
  <2>8. ChoiceUntouched(pg, owned)
    <3>1. known \subseteq owned
      BY <1>1, <1>3, <2>2, <2>3 DEF SameChoice, PageInv, PageTyped
    <3> QED BY <1>4, <2>7, <3>1 DEF ChoiceUntouched
  <2>9. IsPage(new) /\ new.filter = "open" /\ new.projectId = project
    <3>1. CASE SameSelection(project, None)
      BY <2>5, <2>7, <3>1 DEF ChangeSelection, SameSelection
    <3>2. CASE ~SameSelection(project, None)
      <4>1. \A s \in pg.requests : IsRequest(s)
        BY <1>1, <2>7 DEF PageInv, PageTyped, RequestOK
      <4> QED BY <2>5, <2>7, <3>2, <4>1, ChangeSelectionFields
    <3> QED BY <3>1, <3>2
  <2>10. SameButFilter(new, ChangeSelection(pg, project, None)) /\ new.filter \in Status
    BY <2>5, <2>9 DEF SameButFilter, SameLists, SameLoading, Status
  <2>11. project \in Project \cup {None} /\ None \in Issue \cup {None}
    BY <2>2
  <2>12. overtaken /\ project = page.projectId => overtaken'
    BY <2>6, <2>9 DEF Continue
  <2>13. Left(page, new, server, owned, overtaken', spent.failures)
    BY <1>1, <2>8, <2>10, <2>11, <2>12, ChangeSelectionLeft
  <2> QED BY <2>6, <2>13, ContinueStep
<1> QED BY <1>5, <1>6

\* What replaces one issue of a list, adds those that are new, or drops one.
LEMMA ReplaceOK ==
  ASSUME NEW srv, NEW issues, ListOK(issues, srv), NEW e, EntryOK(e, srv)
  PROVE  /\ ListOK(Replace(issues, e), srv)
         /\ \A x \in Replace(issues, e) : x \in issues \/ x = e
         /\ issues = {} => Replace(issues, e) = {}
<1>1. \A x \in Replace(issues, e) : x \in issues \/ x = e
  BY DEF Replace, Without
<1>2. issues = {} => Replace(issues, e) = {}
  BY DEF Replace, Ids
<1>3. NoDuplicates(Replace(issues, e))
  BY DEF Replace, Without, ListOK, NoDuplicates
<1> QED BY <1>1, <1>2, <1>3 DEF ListOK

LEMMA WithoutOK ==
  ASSUME NEW srv, NEW issues, ListOK(issues, srv), NEW i
  PROVE  /\ ListOK(Without(issues, i), srv)
         /\ \A x \in Without(issues, i) : x \in issues /\ x.id # i
         /\ issues = {} => Without(issues, i) = {}
BY DEF Without, ListOK, NoDuplicates

LEMMA ExtendOK ==
  ASSUME NEW srv, NEW issues, ListOK(issues, srv), NEW received, ListOK(received, srv)
  PROVE  /\ ListOK(Extend(issues, received), srv)
         /\ \A x \in Extend(issues, received) : x \in issues \/ x \in received
BY DEF Extend, Ids, ListOK, NoDuplicates

\* The reply about one issue replaces it in the lists, and in the detail.
IssueReplaced(new, r) ==
  /\ IsPage(new) /\ SameChoice(new, page) /\ SameLoading(new, page)
  /\ new.requests = page.requests \ {r}
  /\ \A e \in new.issues :
       e \in page.issues \/ (ProjectOf[e.id] = r.project /\ e.status = page.filter)
  /\ \A e \in new.habitatIssues : e \in page.habitatIssues \/ ProjectOf[e.id] = r.project
  /\ page.issues = {} => new.issues = {}
  /\ new.detail # None => new.detail.id = page.selectedId

LEMMA IssueReplacedKeeps ==
  ASSUME NEW srv, NEW own, NEW late, NEW failures, PageInv(page, srv, own, late, failures),
         NEW r \in page.requests, r.kind \in {"refresh", "update"},
         page.projectId = r.project, r.project \in Project,
         NEW new, IssueReplaced(new, r),
         ListOK(new.issues, srv), ListOK(new.habitatIssues, srv)
  PROVE  PageInv(new, srv, own, late, failures)
<1> USE DEF IssueReplaced
<1>1. PageTyped(new, srv, own)
  BY DEF SameChoice, SameLoading, PageInv, PageTyped
<1>2. \A s \in new.requests : Aimed(s, new)
  BY DEF SameChoice, PageInv, Aimed, AimedAtSelection, AimedAtProject, AimedAtList
<1>3. AtMostOne("issues", new) /\ AtMostOne("projects", new)
  BY DEF PageInv, AtMostOne
<1>4. FirstPageOnly(new) /\ OnlyOwned(new, own) /\ RefusedIsEmpty(new, failures)
  BY DEF SameChoice, SameLoading, PageInv, FirstPageOnly, OnlyOwned, RefusedIsEmpty
<1>5. NothingBefore(new)
  BY NoneAssumption DEF SameChoice, NothingBefore
<1>6. (~late => OfProject(new)) /\ OfFilter(new, failures)
  BY DEF SameChoice, SameLoading, PageInv, OfProject, OfFilter
<1>7. OfSelection(new)
  BY DEF SameChoice, OfSelection
<1>8. DetailOnItsWay(new)
  BY DEF SameLoading, PageInv, DetailOnItsWay
<1> QED BY <1>1, <1>2, <1>3, <1>4, <1>5, <1>6, <1>7, <1>8 DEF PageInv

LEMMA IntactContinueWithIssuesStep ==
  ASSUME DashInv, NEW pg, ContinueWithIssues(pg),
         PageInv(pg, server, owned, overtaken, spent.failures)
  PROVE  DashInv'
<1>1. Left(page, pg, server, owned, overtaken, spent.failures)
  BY IntactIsLeft
<1> QED BY <1>1, ContinueWithIssuesStep

LEMMA ReceiveRefreshStep ==
  ASSUME DashInv, NEW r \in page.requests, ReceiveRefresh(r)
  PROVE  DashInv'
<1>1. PageInv(page, server, owned, overtaken, spent.failures) /\ IsPage(page)
  BY DEF DashInv, PageInv, PageTyped
<1>2. PICK pg : pg = Settle(r)
  OBVIOUS
<1>3. /\ IsPage(pg)
      /\ SameChoice(pg, page) /\ SameLists(pg, page) /\ pg.detail = page.detail
      /\ SameLoading(pg, page)
      /\ pg.requests = page.requests \ {r}
  BY <1>1, <1>2, SettleFields
<1>4. r.kind = "refresh" /\ r.reply # None
  BY DEF ReceiveRefresh, Receives
<1>5. CASE r.reply = Failed
  <2>1. PICK new : new = [pg EXCEPT !.realtimeNotice = TRUE]
    OBVIOUS
  <2>2. Continue(new)
    BY <1>2, <1>5, <2>1 DEF ReceiveRefresh
  <2>3. SamePage(new, pg)
    BY <1>3, <2>1 DEF IsPage, SamePage, SameChoice, SameLists, SameLoading
  <2> QED BY <1>2, <1>4, <2>2, <2>3, ReplyLeavesPage
<1>6. CASE r.reply # Failed
  <2>1. PICK loaded : loaded = IssueIn(r.reply)
    OBVIOUS
  <2>2. RequestOK(r, server, owned) /\ AimedAtProject(r, page)
    BY <1>1 DEF PageInv, PageTyped, Aimed
  <2>3. /\ EntryOK(loaded, server) /\ loaded.id = r.issue
        /\ ProjectOf[loaded.id] = r.project /\ r.project \in owned
    BY <1>4, <1>6, <2>1, <2>2, IssueInReply DEF AboutOneIssue
  <2>4. page.projectId = r.project
    BY <1>4, <2>2 DEF AimedAtProject
  <2>5. PICK issues : issues = IF loaded.status = pg.filter THEN Replace(pg.issues, loaded)
                               ELSE Without(pg.issues, r.issue)
    OBVIOUS
  <2>6. PICK habitat : habitat = Without(pg.habitatIssues, r.issue)
                                   \cup {issue \in {loaded} : issue.status = "open"}
    OBVIOUS
  <2>7. PICK detail : detail = IF pg.selectedId = r.issue THEN loaded ELSE pg.detail
    OBVIOUS
  <2>8. PICK notice : notice = (pg.realtimeNotice \/ ~(r.issue \in Ids(pg.issues)))
    OBVIOUS
  <2>9. PICK new : new = [pg EXCEPT !.issues = issues, !.habitatIssues = habitat,
                                    !.detail = detail, !.realtimeNotice = notice]
    OBVIOUS
  <2>10. ContinueWithIssues(new) \/ Continue(new)
    BY <1>2, <1>6, <2>1, <2>5, <2>6, <2>7, <2>8, <2>9 DEF ReceiveRefresh
  <2>11. /\ IsPage(new) /\ SameChoice(new, page) /\ SameLoading(new, page)
         /\ new.issues = issues /\ new.habitatIssues = habitat /\ new.detail = detail
         /\ new.requests = page.requests \ {r}
    BY <1>3, <2>9 DEF IsPage, SameChoice, SameLoading
  <2>12. ListOK(page.issues, server) /\ ListOK(page.habitatIssues, server)
    BY <1>1 DEF PageInv, PageTyped
  <2>13. /\ ListOK(issues, server)
         /\ \A e \in issues : e \in page.issues \/ (e = loaded /\ e.status = page.filter)
         /\ page.issues = {} => issues = {}
    BY <1>3, <2>3, <2>5, <2>12, ReplaceOK, WithoutOK DEF SameLists, SameChoice
  <2>14. /\ ListOK(habitat, server)
         /\ \A e \in habitat : e \in page.habitatIssues \/ e = loaded
    <3>1. ListOK(Without(page.habitatIssues, r.issue), server)
      BY <2>12, WithoutOK
    <3>2. \A e \in Without(page.habitatIssues, r.issue) :
            e \in page.habitatIssues /\ e.id # r.issue
      BY <2>12, WithoutOK
    <3>3. \A e \in habitat : e \in Without(page.habitatIssues, r.issue) \/ e = loaded
      BY <1>3, <2>6 DEF SameLists
    <3> QED BY <2>3, <3>1, <3>2, <3>3 DEF ListOK, NoDuplicates
  <2>15. detail # None => detail.id = page.selectedId
    BY <1>1, <1>3, <2>3, <2>7 DEF SameChoice, PageInv, OfSelection
  <2>16. IssueReplaced(new, r)
    BY <2>3, <2>11, <2>13, <2>14, <2>15 DEF IssueReplaced
  <2>17. r.project \in Project
    BY <2>3 DEF DashInv, ServerInv
  <2>18. PageInv(new, server, owned, overtaken, spent.failures)
    BY <1>1, <1>4, <2>4, <2>11, <2>13, <2>14, <2>16, <2>17, IssueReplacedKeeps
  <2>19. new.projectId = page.projectId
    BY <2>11 DEF SameChoice
  <2> QED BY <2>10, <2>18, <2>19, IntactContinueStep, IntactContinueWithIssuesStep
<1> QED BY <1>5, <1>6

LEMMA ReceiveUpdateStep ==
  ASSUME DashInv, NEW r \in page.requests, ReceiveUpdate(r)
  PROVE  DashInv'
<1>1. PageInv(page, server, owned, overtaken, spent.failures) /\ IsPage(page)
  BY DEF DashInv, PageInv, PageTyped
<1>2. PICK pg : pg = Settle(r)
  OBVIOUS
<1>3. /\ IsPage(pg)
      /\ SameChoice(pg, page) /\ SameLists(pg, page) /\ pg.detail = page.detail
      /\ SameLoading(pg, page)
      /\ pg.requests = page.requests \ {r}
  BY <1>1, <1>2, SettleFields
<1>4. r.kind = "update" /\ r.reply # None
  BY DEF ReceiveUpdate, Receives
<1>5. PICK saved : saved = [pg EXCEPT !.updating = FALSE]
  OBVIOUS
<1>6. SamePage(saved, pg)
  BY <1>3, <1>5 DEF IsPage, SamePage, SameChoice, SameLists, SameLoading
<1>7. CASE ~r.current
  <2>1. Continue(pg)
    BY <1>2, <1>7 DEF ReceiveUpdate
  <2>2. SamePage(pg, pg)
    BY <1>3 DEF SamePage, SameChoice, SameLists, SameLoading
  <2> QED BY <1>2, <1>4, <2>1, <2>2, ReplyLeavesPage
<1>8. CASE r.current /\ r.reply = Failed
  <2>1. PICK new : new = [saved EXCEPT !.detailError = TRUE]
    OBVIOUS
  <2>2. Continue(new)
    BY <1>2, <1>5, <1>8, <2>1 DEF ReceiveUpdate
  <2>3. SamePage(new, pg)
    BY <1>6, <2>1 DEF IsPage, SamePage, SameChoice, SameLists, SameLoading
  <2> QED BY <1>2, <1>4, <2>2, <2>3, ReplyLeavesPage
<1>9. CASE r.current /\ r.reply # Failed
  <2>1. PICK updated : updated = IssueIn(r.reply)
    OBVIOUS
  <2>2. RequestOK(r, server, owned) /\ AimedAtSelection(r, page)
    BY <1>1 DEF PageInv, PageTyped, Aimed
  <2>3. /\ EntryOK(updated, server) /\ updated.id = r.issue
        /\ ProjectOf[updated.id] = r.project /\ r.project \in owned
    BY <1>4, <1>9, <2>1, <2>2, IssueInReply DEF AboutOneIssue
  <2>4. page.projectId = r.project /\ page.selectedId = r.issue
    BY <1>4, <1>9, <2>2 DEF AimedAtSelection
  <2> DEFINE Shown(known, wanted) ==
               IF updated.status = wanted THEN Replace(known, updated)
               ELSE Without(known, r.issue)
  <2>5. PICK issues : issues = Shown(saved.issues, pg.filter)
    OBVIOUS
  <2>6. PICK habitat : habitat = Shown(saved.habitatIssues, "open")
    OBVIOUS
  <2>7. PICK detail : detail = IF saved.detail = None THEN None ELSE updated
    OBVIOUS
  <2>8. PICK new : new = [saved EXCEPT !.issues = issues, !.habitatIssues = habitat,
                                       !.detail = detail]
    OBVIOUS
  <2>9. ContinueWithIssues(new)
    BY <1>2, <1>5, <1>9, <2>1, <2>5, <2>6, <2>7, <2>8 DEF ReceiveUpdate
  <2>10. /\ SameChoice(saved, page) /\ SameLists(saved, page) /\ SameLoading(saved, page)
         /\ saved.requests = page.requests \ {r} /\ IsPage(saved)
    BY <1>3, <1>6 DEF SamePage, SameChoice, SameLists, SameLoading
  <2>11. /\ IsPage(new) /\ SameChoice(new, page) /\ SameLoading(new, page)
         /\ new.issues = issues /\ new.habitatIssues = habitat /\ new.detail = detail
         /\ new.requests = page.requests \ {r}
    BY <2>8, <2>10 DEF IsPage, SameChoice, SameLoading
  <2>12. ListOK(page.issues, server) /\ ListOK(page.habitatIssues, server)
    BY <1>1 DEF PageInv, PageTyped
  <2>13. /\ ListOK(issues, server)
         /\ \A e \in issues : e \in page.issues \/ (e = updated /\ e.status = page.filter)
         /\ page.issues = {} => issues = {}
    BY <1>3, <2>3, <2>5, <2>10, <2>12, ReplaceOK, WithoutOK DEF SameLists, SameChoice
  <2>14. /\ ListOK(habitat, server)
         /\ \A e \in habitat : e \in page.habitatIssues \/ e = updated
    BY <2>3, <2>6, <2>10, <2>12, ReplaceOK, WithoutOK DEF SameLists
  <2>15. detail # None => detail.id = page.selectedId
    BY <2>3, <2>4, <2>7
  <2>16. IssueReplaced(new, r)
    BY <2>3, <2>11, <2>13, <2>14, <2>15 DEF IssueReplaced
  <2>17. r.project \in Project
    BY <2>3 DEF DashInv, ServerInv
  <2>18. PageInv(new, server, owned, overtaken, spent.failures)
    BY <1>1, <1>4, <2>4, <2>11, <2>13, <2>14, <2>16, <2>17, IssueReplacedKeeps
  <2> QED BY <2>9, <2>18, IntactContinueWithIssuesStep
<1> QED BY <1>7, <1>8, <1>9 DEF ReceiveUpdate

\* A page of the list has come: it replaces the list, or is added to it.
PageOfList(known, r) ==
  IF r.after = None THEN r.reply.issues ELSE Extend(known, r.reply.issues)

\* The component when the reply to r, the request for issues under way, has come in.
IssuesLoaded(new, r) ==
  /\ IsPage(new) /\ SameChoice(new, page) /\ new.detail = page.detail
  /\ new.loadingIssues = FALSE /\ new.loadingDetail = page.loadingDetail
  /\ new.requests = page.requests \ {r}

LEMMA PageOfListOK ==
  ASSUME NEW srv, NEW own, NEW r, RequestOK(r, srv, own), r.kind = "issues",
         r.reply # None, r.reply # Failed, NEW issues, ListOK(issues, srv)
  PROVE  /\ ListOK(PageOfList(issues, r), srv)
         /\ \A e \in PageOfList(issues, r) :
              \/ e \in issues /\ r.after # None
              \/ ProjectOf[e.id] = r.project /\ e.status = r.status
<1>1. /\ ListOK(r.reply.issues, srv)
      /\ \A e \in r.reply.issues : ProjectOf[e.id] = r.project /\ e.status = r.status
  BY DEF RequestOK, ReplyOK
<1>2. CASE r.after = None
  BY <1>1, <1>2 DEF PageOfList
<1>3. CASE r.after # None
  BY <1>1, <1>3, ExtendOK DEF PageOfList
<1> QED BY <1>2, <1>3

\* No list is shown of a project that is not the user's; a list that has come is that
\* of the chosen project and filter.
LEMMA IssuesLoadedKeeps ==
  ASSUME NEW srv, NEW own, NEW late, NEW failures, PageInv(page, srv, own, late, failures),
         NEW r \in page.requests, r.kind = "issues",
         NEW new, IssuesLoaded(new, r),
         ListOK(new.issues, srv), ListOK(new.habitatIssues, srv),
         OnlyOwned(new, own), ~late => OfProject(new), OfFilter(new, failures)
  PROVE  PageInv(new, srv, own, late, failures)
<1> USE DEF IssuesLoaded
<1>1. PageTyped(new, srv, own)
  BY DEF SameChoice, PageInv, PageTyped
<1>2. \A s \in new.requests : Aimed(s, new)
  BY DEF SameChoice, PageInv, Aimed, AimedAtSelection, AimedAtProject, AimedAtList
<1>3. AtMostOne("issues", new) /\ AtMostOne("projects", new)
  BY DEF PageInv, AtMostOne
<1>4. \A s \in new.requests : s.kind # "issues"
  BY DEF PageInv, AtMostOne
<1>5. FirstPageOnly(new) /\ RefusedIsEmpty(new, failures)
  BY <1>4 DEF FirstPageOnly, RefusedIsEmpty
<1>6. NothingBefore(new)
  BY DEF SameChoice, PageInv, NothingBefore
<1>7. OfSelection(new) /\ DetailOnItsWay(new)
  BY DEF SameChoice, PageInv, OfSelection, DetailOnItsWay
<1> QED BY <1>1, <1>2, <1>3, <1>5, <1>6, <1>7 DEF PageInv

LEMMA ReceiveIssuesStep ==
  ASSUME DashInv, NEW r \in page.requests, ReceiveIssues(r)
  PROVE  DashInv'
<1>1. PageInv(page, server, owned, overtaken, spent.failures) /\ IsPage(page)
  BY DEF DashInv, PageInv, PageTyped
<1>2. PICK settled : settled = Settle(r)
  OBVIOUS
<1>3. /\ IsPage(settled)
      /\ SameChoice(settled, page) /\ SameLists(settled, page) /\ settled.detail = page.detail
      /\ SameLoading(settled, page)
      /\ settled.requests = page.requests \ {r}
  BY <1>1, <1>2, SettleFields
<1>4. r.kind = "issues" /\ r.reply # None
  BY DEF ReceiveIssues, Receives
<1>5. PICK done : done = [settled EXCEPT !.loadingIssues = FALSE, !.loadingMore = FALSE]
  OBVIOUS
<1>6. IssuesLoaded(done, r) /\ SameLists(done, page) /\ SameChoice(done, page)
  BY <1>3, <1>5 DEF IsPage, IssuesLoaded, SameChoice, SameLists, SameLoading
<1>7. ListOK(page.issues, server) /\ ListOK(page.habitatIssues, server)
  BY <1>1 DEF PageInv, PageTyped
<1>8. CASE r.reply = Failed
  <2>1. PICK new : new = [done EXCEPT !.error = TRUE]
    OBVIOUS
  <2>2. Continue(new)
    BY <1>2, <1>5, <1>8, <2>1 DEF ReceiveIssues
  <2>3. IssuesLoaded(new, r) /\ SameLists(new, page) /\ SameChoice(new, page)
    BY <1>6, <2>1 DEF IsPage, IssuesLoaded, SameChoice, SameLists
  <2>4. OnlyOwned(new, owned) /\ (~overtaken => OfProject(new))
    BY <1>1, <2>3 DEF SameChoice, SameLists, PageInv, OnlyOwned, OfProject
  <2>5. OfFilter(new, spent.failures)
    BY <1>1, <1>4, <1>8, <2>3 DEF SameChoice, SameLists, PageInv, RefusedIsEmpty, OfFilter
  <2>6. PageInv(new, server, owned, overtaken, spent.failures)
    BY <1>1, <1>4, <1>7, <2>3, <2>4, <2>5, IssuesLoadedKeeps DEF SameLists
  <2> QED BY <2>2, <2>3, <2>6, IntactContinueStep DEF SameChoice
<1>9. CASE r.reply # Failed
  <2>1. PICK issues : issues = PageOfList(done.issues, r)
    OBVIOUS
  <2>2. PICK habitat : habitat = IF r.status = "open" THEN PageOfList(done.habitatIssues, r)
                                 ELSE done.habitatIssues
    OBVIOUS
  <2>3. PICK cursor : cursor = r.reply.cursor
    OBVIOUS
  <2>4. PICK new : new = [done EXCEPT !.issues = issues, !.habitatIssues = habitat,
                                      !.nextCursor = cursor]
    OBVIOUS
  <2>5. ContinueWithIssues(new)
    BY <1>2, <1>5, <1>9, <2>1, <2>2, <2>3, <2>4 DEF ReceiveIssues, PageOfList
  <2>6. /\ IssuesLoaded(new, r) /\ SameChoice(new, page)
        /\ new.issues = issues /\ new.habitatIssues = habitat
    BY <1>6, <2>4 DEF IsPage, IssuesLoaded, SameChoice
  <2>7. RequestOK(r, server, owned) /\ AimedAtList(r, page)
    BY <1>1 DEF PageInv, PageTyped, Aimed
  <2>8. page.projectId = None \/ (r.project = page.projectId /\ r.status = page.filter)
    BY <1>4, <2>7 DEF AimedAtList
  <2>9. /\ ListOK(issues, server)
        /\ \A e \in issues : \/ e \in page.issues /\ r.after # None
                             \/ ProjectOf[e.id] = r.project /\ e.status = r.status
    BY <1>4, <1>6, <1>7, <1>9, <2>1, <2>7, PageOfListOK DEF SameLists
  <2>10. /\ ListOK(habitat, server)
         /\ \A e \in habitat : e \in page.habitatIssues \/ ProjectOf[e.id] = r.project
    BY <1>4, <1>6, <1>7, <1>9, <2>2, <2>7, PageOfListOK DEF SameLists
  <2>11. OnlyOwned(new, owned)
    <3>1. r.project \in owned
      BY <1>4, <1>9, <2>7 DEF RequestOK, ReplyOK
    <3> QED BY <2>6, <2>8, <3>1 DEF SameChoice, OnlyOwned
  <2>12. ~overtaken => OfProject(new)
    BY <1>1, <2>6, <2>8, <2>9, <2>10 DEF SameChoice, PageInv, OfProject
  <2>13. OfFilter(new, spent.failures)
    <3>1. r.after # None => ~page.loadingIssues
      BY <1>1, <1>4 DEF PageInv, FirstPageOnly
    <3> QED BY <1>1, <2>6, <2>8, <2>9, <3>1 DEF SameChoice, PageInv, OfFilter
  <2>14. PageInv(new, server, owned, overtaken, spent.failures)
    BY <1>1, <1>4, <2>6, <2>9, <2>10, <2>11, <2>12, <2>13, IssuesLoadedKeeps
  <2> QED BY <2>5, <2>14, IntactContinueWithIssuesStep
<1> QED BY <1>8, <1>9

\* So does every reply that comes in.
LEMMA ReplyComesStep ==
  ASSUME DashInv, ReplyComes
  PROVE  DashInv'
BY ReceiveProjectsStep, ReceiveCreatedStep, ReceiveIssuesStep, ReceiveDetailStep,
   ReceiveRefreshStep, ReceiveUpdateStep DEF ReplyComes, Receive

----------------------------------------------------------------------------
(* The server.                                                             *)

\* A request that fails excuses the lists.
LEMMA FailuresExcuse ==
  ASSUME NEW pg, NEW srv, NEW own, NEW late, NEW failures, NEW more, more = 0 => failures = 0,
         PageInv(pg, srv, own, late, failures)
  PROVE  PageInv(pg, srv, own, late, more)
BY DEF PageInv, RefusedIsEmpty, OfFilter

\* An answer changes nothing on the page yet; a list is refused, when no request fails,
\* only if its project is not the user's.
LEMMA AnsweredKeeps ==
  ASSUME NEW srv, NEW own, NEW late, NEW failures, PageInv(page, srv, own, late, failures),
         NEW r \in page.requests, r.reply = None,
         NEW reply, NEW s, s = [r EXCEPT !.reply = reply], RequestOK(s, srv, own),
         NEW new, new = [page EXCEPT !.requests = (page.requests \ {r}) \cup {s}],
         r.kind = "issues" /\ reply = Failed /\ failures = 0 => r.project \notin own
  PROVE  PageInv(new, srv, own, late, failures)
<1>1. PICK requests : requests = (page.requests \ {r}) \cup {s}
  OBVIOUS
<1>2. IsPage(page) /\ IsRequest(r)
  BY DEF PageInv, PageTyped, RequestOK
<1>3. /\ IsPage(new)
      /\ SameChoice(new, page) /\ SameLists(new, page) /\ new.detail = page.detail
      /\ SameLoading(new, page)
      /\ new.requests = (page.requests \ {r}) \cup {s}
  BY <1>1, <1>2, RequestsExcept
<1>4. /\ s.kind = r.kind /\ s.project = r.project /\ s.issue = r.issue /\ s.status = r.status
      /\ s.after = r.after /\ s.current = r.current /\ s.reply = reply
  BY <1>2 DEF IsRequest
<1>5. PageTyped(new, srv, own)
  BY <1>3 DEF SameChoice, SameLists, SameLoading, PageInv, PageTyped
<1>6. \A t \in new.requests : Aimed(t, new)
  <2>1. Aimed(r, page)
    BY DEF PageInv
  <2>2. Aimed(s, page)
    BY <1>4, <2>1 DEF Aimed, AimedAtSelection, AimedAtProject, AimedAtList
  <2>3. \A t \in new.requests : Aimed(t, page)
    BY <1>3, <2>2 DEF PageInv
  <2> QED BY <1>3, <2>3 DEF SameChoice, Aimed, AimedAtSelection, AimedAtProject, AimedAtList
<1>7. AtMostOne("issues", new) /\ AtMostOne("projects", new)
  <2>1. ASSUME NEW kind, AtMostOne(kind, page)
        PROVE  AtMostOne(kind, new)
    <3> SUFFICES ASSUME NEW t \in new.requests, NEW u \in new.requests,
                        t.kind = kind, u.kind = kind
                 PROVE  t = u
      BY DEF AtMostOne
    <3>1. t = s \/ (t \in page.requests /\ t # r)
      BY <1>3
    <3>2. u = s \/ (u \in page.requests /\ u # r)
      BY <1>3
    <3> QED BY <1>4, <2>1, <3>1, <3>2 DEF AtMostOne
  <2> QED BY <2>1 DEF PageInv
<1>8. FirstPageOnly(new) /\ OnlyOwned(new, own)
  <2>1. FirstPageOnly(new)
    BY <1>3, <1>4 DEF SameLoading, PageInv, FirstPageOnly
  <2>2. OnlyOwned(new, own)
    BY <1>3 DEF SameChoice, SameLists, PageInv, OnlyOwned
  <2> QED BY <2>1, <2>2
<1>9. RefusedIsEmpty(new, failures)
  <2> SUFFICES ASSUME failures = 0, new.projectId # None, NEW t \in new.requests,
                      t.kind = "issues", t.reply = Failed
               PROVE  new.issues = {}
    BY DEF RefusedIsEmpty
  <2>1. CASE t \in page.requests
    BY <1>3, <2>1 DEF SameChoice, SameLists, PageInv, RefusedIsEmpty
  <2>2. CASE t = s
    <3>1. r.project \notin own /\ r.project = page.projectId
      BY <1>3, <1>4, <2>2 DEF SameChoice, PageInv, Aimed, AimedAtList
    <3> QED BY <1>3, <3>1 DEF SameChoice, SameLists, PageInv, OnlyOwned
  <2> QED BY <1>3, <2>1, <2>2
<1>10. NothingBefore(new)
  BY <1>3, <1>4 DEF SameChoice, SameLists, PageInv, NothingBefore
<1>11. (~late => OfProject(new)) /\ OfFilter(new, failures)
  BY <1>3 DEF SameChoice, SameLists, SameLoading, PageInv, OfProject, OfFilter
<1>12. OfSelection(new) /\ DetailOnItsWay(new)
  BY <1>3, <1>4 DEF SameChoice, SameLoading, PageInv, OfSelection, DetailOnItsWay
<1> QED BY <1>5, <1>6, <1>7, <1>8, <1>9, <1>10, <1>11, <1>12 DEF PageInv

\* A list on the server holds what was asked for.
LEMMA ListReply ==
  ASSUME DashInv, NEW r, NEW issues, issues = {IssueOf(i) : i \in PageOf(r)}
  PROVE  /\ ListOK(issues, server)
         /\ \A e \in issues : ProjectOf[e.id] = r.project /\ e.status = r.status
<1>1. server \in [Issue -> [status : Status, seen : Nat]]
  BY DEF DashInv, ServerInv
<1>2. \A i \in PageOf(r) :
        i \in Issue /\ ProjectOf[i] = r.project /\ server[i].status = r.status
  BY DEF PageOf, Matching
<1>3. ASSUME NEW i \in PageOf(r)
      PROVE  /\ IssueOf(i).id = i /\ EntryOK(IssueOf(i), server)
             /\ ProjectOf[IssueOf(i).id] = r.project /\ IssueOf(i).status = r.status
  <2>1. /\ IssueOf(i).id = i /\ IssueOf(i).status = server[i].status
        /\ IssueOf(i).seen = server[i].seen
    BY DEF IssueOf
  <2>2. server[i].status \in Status /\ server[i].seen \in Nat
    BY <1>1, <1>2
  <2>3. server[i].seen <= server[i].seen
    BY <2>2
  <2> HIDE DEF IssueOf
  <2> QED BY <1>2, <2>1, <2>2, <2>3 DEF EntryOK
<1>4. NoDuplicates(issues)
  BY <1>3 DEF NoDuplicates
<1> QED BY <1>3, <1>4 DEF ListOK

\* The server is sound whatever of a request it has applied.
LEMMA ApplyKeeps ==
  ASSUME DashInv, NEW r \in page.requests, Apply(r) \/ UNCHANGED <<server, owned>>
  PROVE  /\ server' \in [Issue -> [status : Status, seen : Nat]]
         /\ \A i \in Issue : server'[i].seen = server[i].seen
         /\ owned \subseteq owned' /\ owned' \subseteq Project
         /\ r.kind # "update" => server' = server
         /\ Apply(r) /\ r.kind = "create" => r.project \in owned'
<1>1. server \in [Issue -> [status : Status, seen : Nat]] /\ owned \subseteq Project
  BY DEF DashInv, ServerInv
<1>2. RequestOK(r, server, owned)
  BY DEF DashInv, PageInv, PageTyped
<1>3. CASE UNCHANGED <<server, owned>>
  BY <1>1, <1>3 DEF Apply
<1>4. CASE Apply(r)
  <2>1. owned \subseteq owned' /\ owned' \subseteq Project
    BY <1>1, <1>2, <1>4 DEF Apply, RequestOK
  <2>2. r.kind = "create" => r.project \in owned'
    BY <1>4 DEF Apply
  <2>3. CASE r.kind = "update" /\ Visible(r)
    <3>1. r.issue \in Issue /\ r.status \in Status
      BY <1>2, <2>3 DEF RequestOK, AboutOneIssue
    <3>2. server' = [server EXCEPT ![r.issue].status = r.status]
      BY <1>4, <2>3 DEF Apply
    <3>3. server' \in [Issue -> [status : Status, seen : Nat]]
      BY <1>1, <3>1, <3>2
    <3>4. \A i \in Issue : server'[i].seen = server[i].seen
      BY <1>1, <3>1, <3>2
    <3> QED BY <2>1, <2>2, <2>3, <3>3, <3>4
  <2>4. CASE ~(r.kind = "update" /\ Visible(r))
    <3>1. server' = server
      BY <1>4, <2>4 DEF Apply
    <3> QED BY <1>1, <2>1, <2>2, <3>1
  <2> QED BY <2>3, <2>4
<1> QED BY <1>3, <1>4

LEMMA ReplyFields ==
  ASSUME NEW issues, NEW cursor
  PROVE  /\ Reply(issues, cursor).issues = issues
         /\ Reply(issues, cursor).projects = owned
         /\ Reply(issues, cursor) # Failed
<1>1. DOMAIN Reply(issues, cursor) = {"issues", "cursor", "projects"}
  BY DEF Reply
<1>2. DOMAIN Failed = {"failed"}
  BY DEF Failed
<1> QED BY <1>1, <1>2 DEF Reply

LEMMA RefusesInvisible ==
  ASSUME NEW r, r.kind # "projects", r.kind # "create", ~Visible(r)
  PROVE  ReplyTo(r) = Failed
BY DEF ReplyTo

\* What the reply says is true of the server that has applied the request.
LEMMA ReplyToOK ==
  ASSUME DashInv, NEW r \in page.requests, r.reply = None, Apply(r),
         NEW reply, reply = ReplyTo(r), reply # Failed,
         NEW s, s.reply = reply, s.kind = r.kind, s.project = r.project, s.issue = r.issue,
         s.status = r.status
  PROVE  ReplyOK(s, server', owned')
<1>1. RequestOK(r, server, owned)
  BY DEF DashInv, PageInv, PageTyped
<1>2. /\ server' \in [Issue -> [status : Status, seen : Nat]]
      /\ \A i \in Issue : server'[i].seen = server[i].seen
      /\ owned \subseteq owned'
      /\ r.kind # "update" => server' = server
      /\ r.kind = "create" => r.project \in owned'
  BY ApplyKeeps
<1>3. server \in [Issue -> [status : Status, seen : Nat]]
  BY DEF DashInv, ServerInv
<1>4. CASE r.kind = "projects"
  <2>1. reply = Reply({}, None)
    BY <1>4 DEF ReplyTo
  <2>2. reply.projects = owned
    BY <2>1, ReplyFields
  <2> QED BY <1>2, <1>4, <2>2 DEF ReplyOK, AboutOneIssue
<1>5. CASE r.kind = "create"
  BY <1>2, <1>5 DEF ReplyOK, AboutOneIssue
<1>6. CASE r.kind = "issues"
  <2>1. Visible(r)
    BY <1>6, RefusesInvisible
  <2>2. PICK issues : issues = {IssueOf(i) : i \in PageOf(r)}
    OBVIOUS
  <2>3. PICK cursor : cursor = CursorAfter(r)
    OBVIOUS
  <2>4. reply = Reply(issues, cursor)
    BY <1>6, <2>1, <2>2, <2>3 DEF ReplyTo
  <2>5. reply.issues = issues
    BY <2>4, ReplyFields
  <2>6. /\ ListOK(issues, server)
        /\ \A e \in issues : ProjectOf[e.id] = r.project /\ e.status = r.status
    BY <2>2, ListReply
  <2>7. server' = server
    BY <1>2, <1>6
  <2>8. r.project \in owned'
    BY <1>2, <2>1 DEF Visible
  <2> QED BY <1>6, <2>5, <2>6, <2>7, <2>8 DEF ReplyOK, AboutOneIssue
<1>7. CASE r.kind \in AboutOneIssue
  <2>1. Visible(r)
    BY <1>7, RefusesInvisible DEF AboutOneIssue
  <2>2. r.issue \in Issue
    BY <1>1, <1>7 DEF RequestOK
  <2>3. r.project \in owned' /\ ProjectOf[r.issue] = r.project
    BY <1>2, <2>1, <2>2, NoneAssumption DEF Visible
  <2>4. PICK e : /\ reply = Reply({e}, None)
                 /\ e.id = r.issue /\ e.status \in Status /\ e.seen = server[r.issue].seen
    <3>1. PICK known : known = IssueOf(r.issue)
      OBVIOUS
    <3>2. /\ known = [id |-> r.issue, status |-> server[r.issue].status,
                      seen |-> server[r.issue].seen]
          /\ server[r.issue].status \in Status
      BY <1>3, <2>2, <3>1 DEF IssueOf
    <3>3. CASE r.kind = "update"
      <4>1. PICK e : e = [known EXCEPT !.status = r.status]
        OBVIOUS
      <4>2. reply = Reply({e}, None)
        BY <2>1, <3>1, <3>3, <4>1 DEF ReplyTo
      <4>3. r.status \in Status
        BY <1>1, <3>3 DEF RequestOK
      <4>4. e.id = r.issue /\ e.status = r.status /\ e.seen = server[r.issue].seen
        BY <3>2, <4>1
      <4> QED BY <4>2, <4>3, <4>4
    <3>4. CASE r.kind # "update"
      <4>1. reply = Reply({known}, None)
        BY <1>7, <2>1, <3>1, <3>4 DEF ReplyTo, AboutOneIssue
      <4>2. /\ known.id = r.issue /\ known.status = server[r.issue].status
            /\ known.seen = server[r.issue].seen
        BY <3>2
      <4> QED BY <3>2, <4>1, <4>2
    <3> QED BY <3>3, <3>4
  <2>5. reply.issues = {e}
    BY <2>4, ReplyFields
  <2>6. EntryOK(e, server')
    <3>1. server'[r.issue].seen \in Nat /\ e.seen = server'[r.issue].seen
      BY <1>2, <2>2, <2>4
    <3> QED BY <2>2, <2>4, <3>1 DEF EntryOK
  <2> QED BY <1>7, <2>3, <2>4, <2>5, <2>6 DEF ReplyOK, AboutOneIssue
<1> QED BY <1>1, <1>4, <1>5, <1>6, <1>7 DEF RequestOK, Kinds

\* A list is refused because the project is not the user's.
LEMMA RefusedList ==
  ASSUME NEW r, r.kind = "issues", r.issue = None, ReplyTo(r) = Failed
  PROVE  r.project \notin owned
<1>1. CASE Visible(r)
  <2>1. PICK issues : issues = {IssueOf(i) : i \in PageOf(r)}
    OBVIOUS
  <2>2. PICK cursor : cursor = CursorAfter(r)
    OBVIOUS
  <2>3. ReplyTo(r) = Reply(issues, cursor)
    BY <1>1, <2>1, <2>2 DEF ReplyTo
  <2> QED BY <2>3, ReplyFields
<1>2. CASE ~Visible(r)
  BY <1>2 DEF Visible
<1> QED BY <1>1, <1>2

\* The page when the server has applied what it may have of the request.
LEMMA AppliedKeeps ==
  ASSUME DashInv, NEW r \in page.requests, Apply(r) \/ UNCHANGED <<server, owned>>
  PROVE  PageInv(page, server', owned', overtaken, spent.failures)
<1>1. /\ server' \in [Issue -> [status : Status, seen : Nat]]
      /\ \A i \in Issue : server'[i].seen = server[i].seen
      /\ owned \subseteq owned'
  BY ApplyKeeps
<1>2. \A i \in Issue : /\ server[i].seen \in Nat /\ server'[i].seen \in Nat
                       /\ server[i].seen <= server'[i].seen
  BY <1>1
<1> QED BY <1>1, <1>2, ServerAdvances DEF DashInv

\* The same with the answer under way.
LEMMA AnsweredRequestOK ==
  ASSUME NEW srv, NEW own, NEW r, RequestOK(r, srv, own), NEW reply,
         NEW s, s = [r EXCEPT !.reply = reply],
         reply # None /\ reply # Failed => ReplyOK(s, srv, own)
  PROVE  RequestOK(s, srv, own)
<1>1. IsRequest(r)
  BY DEF RequestOK
<1>2. /\ IsRequest(s)
      /\ s.kind = r.kind /\ s.project = r.project /\ s.issue = r.issue /\ s.status = r.status
      /\ s.reply = reply
  BY <1>1 DEF IsRequest
<1> QED BY <1>2 DEF RequestOK

LEMMA AppliedServerInv ==
  ASSUME DashInv, NEW r \in page.requests, Apply(r) \/ UNCHANGED <<server, owned>>,
         spent' \in [events : Nat, clicks : Nat, closes : Nat, failures : Nat],
         spent'.events = spent.events
  PROVE  ServerInv'
<1>1. /\ server' \in [Issue -> [status : Status, seen : Nat]]
      /\ \A i \in Issue : server'[i].seen = server[i].seen
      /\ owned \subseteq owned' /\ owned' \subseteq Project
  BY ApplyKeeps
<1> QED BY <1>1 DEF DashInv, ServerInv

\* The socket is that of the page's project still.
LEMMA SameSocket ==
  ASSUME SocketInv, socket' = socket, page'.projectId = page.projectId
  PROVE  SocketInv'
BY DEF SocketInv

LEMMA AnswerStep ==
  ASSUME DashInv, NEW r \in page.requests, Answer(r)
  PROVE  DashInv'
<1>1. PageInv(page, server', owned', overtaken, spent.failures)
  BY AppliedKeeps DEF Answer
<1>2. PICK reply : reply = ReplyTo(r)
  OBVIOUS
<1>3. PICK s : s = [r EXCEPT !.reply = reply]
  OBVIOUS
<1>4. PICK new : new = [page EXCEPT !.requests = (page.requests \ {r}) \cup {s}]
  OBVIOUS
<1>5. page' = new
  BY <1>2, <1>3, <1>4 DEF Answer, Answered
<1>6. r.reply = None /\ Apply(r) /\ UNCHANGED <<socket, notified, overtaken, spent>>
  BY DEF Answer
<1>7. RequestOK(r, server', owned') /\ IsPage(page) /\ IsRequest(r)
  BY <1>1 DEF PageInv, PageTyped, RequestOK
<1>8. RequestOK(s, server', owned')
  <2>1. /\ s.kind = r.kind /\ s.project = r.project /\ s.issue = r.issue
        /\ s.status = r.status /\ s.reply = reply
    BY <1>3, <1>7 DEF IsRequest
  <2>2. reply # Failed => ReplyOK(s, server', owned')
    BY <1>2, <1>6, <2>1, ReplyToOK
  <2> QED BY <1>3, <1>7, <2>2, AnsweredRequestOK
<1>9. r.kind = "issues" /\ reply = Failed => r.project \notin owned'
  <2> SUFFICES ASSUME r.kind = "issues", reply = Failed PROVE r.project \notin owned'
    OBVIOUS
  <2>1. r.issue = None
    BY <1>7 DEF RequestOK, AboutOneIssue
  <2>2. r.project \notin owned
    BY <1>2, <2>1, RefusedList
  <2> QED BY <1>6, <2>2 DEF Apply
<1>10. PageInv(new, server', owned', overtaken, spent.failures)
  BY <1>1, <1>3, <1>4, <1>6, <1>8, <1>9, AnsweredKeeps
<1>11. page'.projectId = page.projectId
  <2>1. PICK requests : requests = (page.requests \ {r}) \cup {s}
    OBVIOUS
  <2> QED BY <1>4, <1>5, <1>7, <2>1, RequestsExcept DEF SameChoice
<1>12. SocketInv'
  BY <1>6, <1>11, SameSocket DEF DashInv
<1>13. ServerInv'
  BY <1>6, AppliedServerInv DEF DashInv, ServerInv
<1> QED BY <1>5, <1>6, <1>10, <1>12, <1>13 DEF DashInv

LEMMA RequestFailsStep ==
  ASSUME DashInv, NEW r \in page.requests, RequestFails(r)
  PROVE  DashInv'
<1>1. /\ r.reply = None /\ (Apply(r) \/ UNCHANGED <<server, owned>>)
      /\ spent' = [spent EXCEPT !.failures = spent.failures + 1]
      /\ UNCHANGED <<socket, notified, overtaken>>
  BY DEF RequestFails
<1>2. PageInv(page, server', owned', overtaken, spent.failures)
  BY <1>1, AppliedKeeps
<1>3. PICK reply : reply = Failed
  OBVIOUS
<1>4. PICK s : s = [r EXCEPT !.reply = reply]
  OBVIOUS
<1>5. PICK new : new = [page EXCEPT !.requests = (page.requests \ {r}) \cup {s}]
  OBVIOUS
<1>6. page' = new
  BY <1>3, <1>4, <1>5 DEF RequestFails, Answered
<1>7. RequestOK(r, server', owned') /\ IsPage(page)
  BY <1>2 DEF PageInv, PageTyped
<1>8. RequestOK(s, server', owned')
  BY <1>3, <1>4, <1>7, AnsweredRequestOK
<1>9. /\ spent' \in [events : Nat, clicks : Nat, closes : Nat, failures : Nat]
      /\ spent'.events = spent.events /\ spent'.failures # 0
  BY <1>1 DEF DashInv, ServerInv
<1>10. PageInv(page, server', owned', overtaken, spent'.failures)
  BY <1>2, <1>9, FailuresExcuse
<1>11. PageInv(new, server', owned', overtaken, spent'.failures)
  BY <1>1, <1>4, <1>5, <1>8, <1>9, <1>10, AnsweredKeeps
<1>12. page'.projectId = page.projectId
  <2>1. PICK requests : requests = (page.requests \ {r}) \cup {s}
    OBVIOUS
  <2> QED BY <1>5, <1>6, <1>7, <2>1, RequestsExcept DEF SameChoice
<1>13. SocketInv'
  BY <1>1, <1>12, SameSocket DEF DashInv
<1>14. ServerInv'
  BY <1>1, <1>9, AppliedServerInv
<1> QED BY <1>1, <1>6, <1>11, <1>13, <1>14 DEF DashInv

\* Messages of the page's project.
InboxOK(inbox) ==
  /\ inbox \in Seq(Messages)
  /\ \A k \in 1..Len(inbox) : inbox[k] # Ready => ProjectOf[inbox[k].issue] = page.projectId

\* The socket goes on with other messages of the project.
LEMMA InboxBecomes ==
  ASSUME SocketInv, NEW inbox, InboxOK(inbox),
         socket' = [socket EXCEPT !.inbox = inbox], page'.projectId = page.projectId
  PROVE  SocketInv'
<1>1. /\ socket' \in [state : {"none", "connecting", "open", "live", "waiting", "refused"},
                      connectedOnce : BOOLEAN, inbox : Seq(Messages)]
      /\ socket'.inbox = inbox
  BY DEF SocketInv, InboxOK
<1> QED BY <1>1 DEF SocketInv, InboxOK

\* It changes its state with them.
LEMMA SocketBecomes ==
  ASSUME SocketInv, NEW inbox, InboxOK(inbox),
         NEW state \in {"none", "connecting", "open", "live", "waiting", "refused"},
         socket' = [socket EXCEPT !.state = state, !.inbox = inbox],
         page'.projectId = page.projectId
  PROVE  SocketInv'
<1>1. /\ socket' \in [state : {"none", "connecting", "open", "live", "waiting", "refused"},
                      connectedOnce : BOOLEAN, inbox : Seq(Messages)]
      /\ socket'.inbox = inbox
  BY DEF SocketInv, InboxOK
<1> QED BY <1>1 DEF SocketInv, InboxOK

LEMMA AppendOK ==
  ASSUME SocketInv, NEW message \in Messages, ProjectOf[message.issue] = page.projectId
  PROVE  InboxOK(Append(socket.inbox, message))
<1>1. PICK old : old = socket.inbox
  OBVIOUS
<1>2. PICK inbox : inbox = Append(old, message)
  OBVIOUS
<1>3. old \in Seq(Messages)
  BY <1>1 DEF SocketInv
<1>4. /\ inbox \in Seq(Messages) /\ Len(inbox) = Len(old) + 1
      /\ inbox[Len(inbox)] = message
      /\ \A k \in 1..Len(old) : inbox[k] = old[k]
  BY <1>2, <1>3
<1>5. ASSUME NEW k \in 1..Len(inbox), inbox[k] # Ready
      PROVE  ProjectOf[inbox[k].issue] = page.projectId
  <2>1. k \in 1..Len(old) \/ k = Len(inbox)
    BY <1>3, <1>4
  <2> QED BY <1>1, <1>4, <1>5, <2>1 DEF SocketInv
<1> QED BY <1>1, <1>2, <1>4, <1>5 DEF InboxOK

\* An event makes its issue the one seen last.
LEMMA EventArrivesStep ==
  ASSUME DashInv, NEW i \in Issue, EventArrives(i)
  PROVE  DashInv'
<1>1. PICK seen : seen = Cardinality(Issue) + spent.events + 1
  OBVIOUS
<1>2. PICK status : status = IF server[i].status = "resolved" THEN "open" ELSE server[i].status
  OBVIOUS
<1>3. /\ server' = [server EXCEPT ![i] = [status |-> status, seen |-> seen]]
      /\ spent' = [spent EXCEPT !.events = spent.events + 1]
      /\ UNCHANGED <<owned, page, notified, overtaken>>
  BY <1>1, <1>2 DEF EventArrives
<1>4. /\ server \in [Issue -> [status : Status, seen : Nat]]
      /\ Mine \subseteq owned /\ owned \subseteq Project
      /\ spent \in [events : Nat, clicks : Nat, closes : Nat, failures : Nat]
      /\ \A j \in Issue : server[j].seen <= Cardinality(Issue) + spent.events
  BY DEF DashInv, ServerInv
<1>5. Cardinality(Issue) \in Nat
  BY IssueAssumption, FS_CardinalityType
<1>6. seen \in Nat /\ status \in Status
  BY <1>1, <1>2, <1>4, <1>5 DEF Status
<1>7. /\ spent' \in [events : Nat, clicks : Nat, closes : Nat, failures : Nat]
      /\ spent'.events = spent.events + 1 /\ spent'.failures = spent.failures
  BY <1>3, <1>4
<1>8. server' \in [Issue -> [status : Status, seen : Nat]]
  BY <1>3, <1>4, <1>6
<1>9. ASSUME NEW j \in Issue
      PROVE  server[j].seen <= server'[j].seen /\ server'[j].seen <= seen
  <2>1. server[j].seen \in Nat /\ server[j].seen <= seen
    BY <1>1, <1>4, <1>5
  <2>2. CASE j = i
    BY <1>3, <1>4, <1>6, <2>1, <2>2
  <2>3. CASE j # i
    BY <1>3, <1>4, <2>1, <2>3
  <2> QED BY <2>2, <2>3
<1>10. seen = Cardinality(Issue) + spent'.events
  BY <1>1, <1>4, <1>5, <1>7
<1>11. ServerInv'
  BY <1>3, <1>4, <1>7, <1>8, <1>9, <1>10 DEF ServerInv
<1>12. PageInv(page', server', owned', overtaken', spent'.failures)
  <2>1. \A j \in Issue : /\ server[j].seen \in Nat /\ server'[j].seen \in Nat
                         /\ server[j].seen <= server'[j].seen
    BY <1>4, <1>8, <1>9
  <2>2. PageInv(page, server', owned, overtaken, spent.failures)
    BY <2>1, ServerAdvances DEF DashInv
  <2> QED BY <1>3, <1>7, <2>2
<1>13. SocketInv'
  <2>1. CASE page.projectId = ProjectOf[i] /\ socket.state \in {"open", "live"}
    <3>1. PICK message : message = [issue |-> i, seen |-> seen]
      OBVIOUS
    <3>2. PICK inbox : inbox = Append(socket.inbox, message)
      OBVIOUS
    <3>3. socket' = [socket EXCEPT !.inbox = inbox]
      BY <1>1, <2>1, <3>1, <3>2 DEF EventArrives
    <3>4. message \in Messages /\ message.issue = i
      BY <1>6, <3>1 DEF Messages
    <3>5. InboxOK(inbox)
      BY <2>1, <3>2, <3>4, AppendOK DEF DashInv
    <3> QED BY <1>3, <3>3, <3>5, InboxBecomes DEF DashInv
  <2>2. CASE ~(page.projectId = ProjectOf[i] /\ socket.state \in {"open", "live"})
    <3>1. socket' = socket
      BY <2>2 DEF EventArrives
    <3> QED BY <1>3, <3>1, SameSocket DEF DashInv
  <2> QED BY <2>1, <2>2
<1> QED BY <1>3, <1>11, <1>12, <1>13 DEF DashInv

----------------------------------------------------------------------------
(* The socket.                                                             *)

\* What the socket does to the page alone.
LEMMA SocketStepKeeps ==
  ASSUME DashInv, UNCHANGED <<server, owned, overtaken>>, spent'.failures = spent.failures,
         spent' \in [events : Nat, clicks : Nat, closes : Nat, failures : Nat],
         spent'.events = spent.events,
         notified' \in [Issue -> Nat],
         PageInv(page', server, owned, overtaken, spent.failures), SocketInv'
  PROVE  DashInv'
BY DEF DashInv, ServerInv

LEMMA SubscribeStep ==
  ASSUME DashInv, Subscribe
  PROVE  DashInv'
<1>1. socket' = [socket EXCEPT !.state = "open", !.inbox = <<Ready>>]
  BY DEF Subscribe
<1>2. Ready \in Messages
  BY DEF Messages
<1>3. SocketInv'
  <2>1. PICK inbox : inbox = <<Ready>>
    OBVIOUS
  <2>2. inbox \in Seq(Messages) /\ Len(inbox) = 1 /\ inbox[1] = Ready
    BY <1>2, <2>1
  <2>3. InboxOK(inbox)
    BY <2>2 DEF InboxOK
  <2>4. PICK state : state = "open"
    OBVIOUS
  <2>5. socket' = [socket EXCEPT !.state = state, !.inbox = inbox]
    BY <1>1, <2>1, <2>4
  <2> QED BY <2>3, <2>4, <2>5, SocketBecomes DEF Subscribe, DashInv
<1> QED BY <1>3, SocketStepKeeps DEF Subscribe, DashInv, ServerInv

LEMMA NoticeKeeps ==
  ASSUME DashInv, page' = [page EXCEPT !.realtimeNotice = TRUE]
  PROVE  /\ PageInv(page', server, owned, overtaken, spent.failures)
         /\ page'.projectId = page.projectId
<1>1. PageInv(page, server, owned, overtaken, spent.failures) /\ IsPage(page)
  BY DEF DashInv, PageInv, PageTyped
<1>2. SamePage(page', page)
  BY <1>1 DEF IsPage, SamePage, SameChoice, SameLists, SameLoading
<1> QED BY <1>1, <1>2, SamePageInv DEF SamePage, SameChoice

LEMMA RefuseStep ==
  ASSUME DashInv, Refuse
  PROVE  DashInv'
<1>1. /\ PageInv(page', server, owned, overtaken, spent.failures)
      /\ page'.projectId = page.projectId
  BY NoticeKeeps DEF Refuse
<1>2. socket' = [socket EXCEPT !.state = "refused"]
  BY DEF Refuse
<1>3. SocketInv'
  BY <1>1, <1>2 DEF DashInv, SocketInv
<1> QED BY <1>1, <1>3, SocketStepKeeps DEF Refuse, DashInv, ServerInv

LEMMA DisconnectStep ==
  ASSUME DashInv, Disconnect
  PROVE  DashInv'
<1>1. page' = page \/ page' = [page EXCEPT !.realtimeNotice = TRUE]
  BY DEF Disconnect
<1>2. /\ PageInv(page', server, owned, overtaken, spent.failures)
      /\ page'.projectId = page.projectId
  BY <1>1, NoticeKeeps DEF DashInv
<1>3. PICK state \in {"waiting", "refused"} :
        socket' = [socket EXCEPT !.state = state, !.inbox = <<>>]
  BY DEF Disconnect
<1>4. SocketInv'
  <2>1. PICK inbox : inbox = <<>>
    OBVIOUS
  <2>2. inbox \in Seq(Messages) /\ Len(inbox) = 0
    BY <2>1
  <2>3. InboxOK(inbox)
    BY <2>2 DEF InboxOK
  <2>4. socket' = [socket EXCEPT !.state = state, !.inbox = inbox]
    BY <1>3, <2>1
  <2> QED BY <1>2, <2>3, <2>4, SocketBecomes DEF DashInv
<1>5. spent' = [spent EXCEPT !.closes = spent.closes + 1]
  BY DEF Disconnect
<1>6. /\ spent' \in [events : Nat, clicks : Nat, closes : Nat, failures : Nat]
      /\ spent'.events = spent.events /\ spent'.failures = spent.failures
  BY <1>5 DEF DashInv, ServerInv
<1> QED BY <1>2, <1>4, <1>6, SocketStepKeeps DEF Disconnect, DashInv

LEMMA ReconnectStep ==
  ASSUME DashInv, Reconnect
  PROVE  DashInv'
<1>1. SocketInv'
  BY DEF Reconnect, DashInv, SocketInv
<1> QED BY <1>1, SocketStepKeeps DEF Reconnect, DashInv, ServerInv

\* The message read is the first; those after it stay.
LEMMA InboxTail ==
  ASSUME SocketInv, socket.inbox # <<>>
  PROVE  /\ Head(socket.inbox) \in Messages
         /\ Head(socket.inbox) # Ready =>
              ProjectOf[Head(socket.inbox).issue] = page.projectId
         /\ InboxOK(Tail(socket.inbox))
<1>1. PICK inbox : inbox = socket.inbox
  OBVIOUS
<1>2. /\ inbox \in Seq(Messages) /\ inbox # <<>>
      /\ \A k \in 1..Len(inbox) : inbox[k] # Ready => ProjectOf[inbox[k].issue] = page.projectId
  BY <1>1 DEF SocketInv
<1>3. Head(inbox) = inbox[1] /\ Head(inbox) \in Messages /\ 1 \in 1..Len(inbox)
  BY <1>2
<1>4. /\ Tail(inbox) \in Seq(Messages)
      /\ \A k \in 1..Len(Tail(inbox)) : Tail(inbox)[k] = inbox[k + 1] /\ k + 1 \in 1..Len(inbox)
  BY <1>2
<1> QED BY <1>1, <1>2, <1>3, <1>4 DEF InboxOK

LEMMA ReceiveReadyStep ==
  ASSUME DashInv, ReceiveReady
  PROVE  DashInv'
<1>1. PageInv(page, server, owned, overtaken, spent.failures) /\ IsPage(page)
  BY DEF DashInv, PageInv, PageTyped
<1>2. page' = LoadIssues(page, None) \/ page' = page
  BY DEF ReceiveReady
<1>3. /\ PageInv(page', server, owned, overtaken, spent.failures)
      /\ page'.projectId = page.projectId
  BY <1>1, <1>2, LoadIssuesKeeps, LoadIssuesProject
<1>4. PICK rest : rest = Tail(socket.inbox)
  OBVIOUS
<1>5. socket' = [state |-> "live", connectedOnce |-> TRUE, inbox |-> rest]
  BY <1>4 DEF ReceiveReady
<1>6. InboxOK(rest)
  BY <1>4, InboxTail DEF ReceiveReady, DashInv
<1>7. SocketInv'
  BY <1>3, <1>5, <1>6 DEF SocketInv, InboxOK
<1> QED BY <1>3, <1>7, SocketStepKeeps DEF ReceiveReady, DashInv, ServerInv

\* A refresh is about the page's project, for the socket is.
LEMMA ReceiveNotificationStep ==
  ASSUME DashInv, ReceiveNotification
  PROVE  DashInv'
<1>1. PageInv(page, server, owned, overtaken, spent.failures) /\ IsPage(page)
  BY DEF DashInv, PageInv, PageTyped
<1>2. PICK message : message = Head(socket.inbox)
  OBVIOUS
<1>3. /\ message \in Messages /\ message # Ready
      /\ ProjectOf[message.issue] = page.projectId
  BY <1>2, InboxTail DEF ReceiveNotification, DashInv
<1>4. message.issue \in Issue /\ message.seen \in Nat
  BY <1>3 DEF Messages
<1>5. PICK r : r = Request("refresh", ProjectOf[message.issue], message.issue, None, message.seen)
  OBVIOUS
<1>6. /\ page' = Send(page, r)
      /\ notified' = [notified EXCEPT ![message.issue] = message.seen]
  BY <1>2, <1>5 DEF ReceiveNotification
<1>7. /\ IsRequest(r)
      /\ r.kind = "refresh" /\ r.project = ProjectOf[message.issue]
      /\ r.issue = message.issue /\ r.reply = None
  BY <1>5 DEF Request, IsRequest
<1>8. RequestOK(r, server, owned)
  BY <1>4, <1>7, ProjectOfAssumption DEF RequestOK, Kinds, AboutOneIssue
<1>9. Aimed(r, page)
  BY <1>3, <1>7 DEF Aimed, AimedAtSelection, AimedAtProject, AimedAtList
<1>10. PageInv(page', server, owned, overtaken, spent.failures)
  BY <1>1, <1>6, <1>7, <1>8, <1>9, SendKeeps
<1>11. page'.projectId = page.projectId
  BY <1>1, <1>6, SendFields DEF SameChoice
<1>12. notified' \in [Issue -> Nat]
  BY <1>4, <1>6 DEF DashInv
<1>13. PICK rest : rest = Tail(socket.inbox)
  OBVIOUS
<1>14. socket' = [socket EXCEPT !.inbox = rest]
  BY <1>13 DEF ReceiveNotification
<1>15. InboxOK(rest)
  BY <1>13, InboxTail DEF ReceiveNotification, DashInv
<1>16. SocketInv'
  BY <1>11, <1>14, <1>15, InboxBecomes DEF DashInv
<1> QED BY <1>10, <1>12, <1>16, SocketStepKeeps DEF ReceiveNotification, DashInv, ServerInv

----------------------------------------------------------------------------
(* The theorems.                                                           *)

\* The component before its first effects shows nothing.
LEMMA NewPageLeft ==
  ASSUME NEW project \in Project \cup {None}, NEW issue \in Issue \cup {None}, NEW old,
         NEW pg, pg = NewPage(project, issue), NEW srv, NEW own, NEW late,
         old.projectId = None, old.selectedId = None
  PROVE  Left(old, pg, srv, own, late, 0)
<1>1. PICK r : r = Request("projects", None, None, None, None)
  OBVIOUS
<1>2. /\ IsRequest(r) /\ r.kind = "projects" /\ r.issue = None /\ r.reply = None
  BY <1>1 DEF Request, IsRequest
<1>3. PICK requests : requests = {r}
  OBVIOUS
<1>4. pg = [projects |-> {}, projectId |-> project, filter |-> "open", selectedId |-> issue,
            issues |-> {}, habitatIssues |-> {}, detail |-> None, nextCursor |-> None,
            loadingIssues |-> FALSE, loadingMore |-> FALSE, loadingDetail |-> FALSE,
            updating |-> FALSE, error |-> FALSE, detailError |-> FALSE,
            realtimeNotice |-> FALSE, requests |-> requests]
  BY <1>1, <1>3 DEF NewPage
<1>5. /\ IsPage(pg) /\ pg.projects = {} /\ pg.projectId = project /\ pg.filter = "open"
      /\ pg.selectedId = issue /\ pg.issues = {} /\ pg.habitatIssues = {} /\ pg.detail = None
      /\ pg.loadingIssues = FALSE /\ pg.loadingDetail = FALSE /\ pg.requests = requests
  BY <1>4 DEF IsPage
<1>6. PageTyped(pg, srv, own)
  <2>1. RequestOK(r, srv, own)
    BY <1>2 DEF RequestOK, Kinds, AboutOneIssue
  <2>2. ListOK({}, srv)
    BY DEF ListOK, NoDuplicates
  <2> QED BY <1>3, <1>5, <2>1, <2>2 DEF PageTyped, Status
<1>7. ASSUME NEW s \in pg.requests
      PROVE  AimedAtSelection(s, pg) /\ AimedAtProject(s, pg) /\ AimedAtList(s, pg)
  BY <1>2, <1>3, <1>5 DEF AimedAtSelection, AimedAtProject, AimedAtList
<1>8. AtMostOne("issues", pg) /\ AtMostOne("projects", pg) /\ FirstPageOnly(pg)
  BY <1>3, <1>5 DEF AtMostOne, FirstPageOnly
<1>9. OnlyOwned(pg, own) /\ NothingBefore(pg) /\ OfProject(pg) /\ OfSelection(pg)
  BY <1>2, <1>3, <1>5 DEF OnlyOwned, NothingBefore, OfProject, OfSelection
<1>10. DetailOnItsWay(pg) /\ RefusedIsEmpty(pg, 0) /\ OfFilter(pg, 0)
  BY <1>5 DEF DetailOnItsWay, RefusedIsEmpty, OfFilter
<1> QED BY <1>6, <1>7, <1>8, <1>9, <1>10 DEF Left

LEMMA DashInitInv ==
  ASSUME DashInit
  PROVE  DashInv
<1>1. PICK hash \in Hash :
        /\ page = Render(NewPage(None, None), NewPage(hash[1], hash[2]), FALSE)
        /\ socket = SocketFor(hash[1])
  BY DEF DashInit
<1>2. PICK project \in Project \cup {None}, issue \in Issue \cup {None} :
        project = hash[1] /\ issue = hash[2]
  BY <1>1, HashAssumption
<1>3. PICK old : old = NewPage(None, None)
  OBVIOUS
<1>4. PICK pg : pg = NewPage(project, issue)
  OBVIOUS
<1>5. PICK no \in BOOLEAN : page = Render(old, pg, no)
  BY <1>1, <1>2, <1>3, <1>4
<1>6. old.projectId = None /\ old.selectedId = None
  BY <1>3 DEF NewPage
<1>7. PICK late \in BOOLEAN : late = overtaken
  BY DEF DashInit
<1>8. Left(old, pg, server, owned, late, 0)
  BY <1>4, <1>6, NewPageLeft
<1>9. PageInv(page, server, owned, overtaken, spent.failures)
  <2>1. spent.failures = 0
    BY DEF DashInit
  <2> QED BY <1>5, <1>7, <1>8, <2>1, RenderRestores
<1>10. ServerInv
  <2>1. Cardinality(Issue) \in Nat /\ \A i \in Issue : i \in Nat /\ i <= Cardinality(Issue)
    BY IssueAssumption, FS_CardinalityType
  <2>2. \A i \in Issue : /\ server[i].seen \in Nat /\ server[i].seen <= Cardinality(Issue)
                         /\ server[i].status = "open"
    BY <2>1 DEF DashInit
  <2>3. server \in [Issue -> [status : Status, seen : Nat]]
    BY <2>1 DEF DashInit, Status
  <2>4. /\ spent \in [events : Nat, clicks : Nat, closes : Nat, failures : Nat]
        /\ spent.events = 0
    BY DEF DashInit
  <2>5. Mine \subseteq owned /\ owned \subseteq Project
    BY ExistingAssumption DEF DashInit
  <2> QED BY <2>1, <2>2, <2>3, <2>4, <2>5 DEF ServerInv
<1>11. SocketInv
  <2>1. PICK inbox : inbox = <<>>
    OBVIOUS
  <2>2. inbox \in Seq(Messages) /\ Len(inbox) = 0
    BY <2>1
  <2>3. socket = [state |-> IF project = None THEN "none" ELSE "connecting",
                  connectedOnce |-> FALSE, inbox |-> inbox]
    BY <1>1, <1>2, <2>1 DEF SocketFor
  <2> QED BY <2>2, <2>3 DEF SocketInv
<1>12. notified \in [Issue -> Nat] /\ overtaken \in BOOLEAN
  BY DEF DashInit
<1> QED BY <1>9, <1>10, <1>11, <1>12 DEF DashInv

LEMMA DashNextInv ==
  ASSUME DashInv, [DashNext]_dashVars
  PROVE  DashInv'
<1>1. CASE UserActs
  BY <1>1, UserActsStep
<1>2. CASE ReplyComes
  BY <1>2, ReplyComesStep
<1>3. CASE ServerAnswers
  BY <1>3, AnswerStep DEF ServerAnswers
<1>4. CASE SocketStep
  BY <1>4, SubscribeStep, RefuseStep, ReconnectStep, ReceiveReadyStep,
     ReceiveNotificationStep DEF SocketStep
<1>5. CASE Disconnect
  BY <1>5, DisconnectStep
<1>6. CASE \E r \in page.requests : RequestFails(r)
  BY <1>6, RequestFailsStep
<1>7. CASE \E i \in Issue : EventArrives(i)
  BY <1>7, EventArrivesStep
<1>8. CASE UNCHANGED dashVars
  BY <1>8 DEF dashVars, DashInv, ServerInv, SocketInv
<1> QED BY <1>1, <1>2, <1>3, <1>4, <1>5, <1>6, <1>7, <1>8 DEF DashNext

\* The inductive invariant: every reply that may still be applied is about what the
\* page shows now.
THEOREM DashInvariant == DashSafety => []DashInv
BY DashInitInv, DashNextInv, PTL DEF DashSafety

\* The lists hold each issue once, as it was on the server then or before, and the
\* socket is in one of its states.
THEOREM DashTypes == DashSafety => []DashTypeOK
<1>1. DashInv => DashTypeOK
  <2> SUFFICES ASSUME DashInv PROVE DashTypeOK
    OBVIOUS
  <2>1. PageTyped(page, server, owned)
    BY DEF DashInv, PageInv
  <2> QED BY <2>1 DEF DashTypeOK, DashInv, ServerInv, SocketInv, PageTyped, ListOK, EntryOK
<1> QED BY <1>1, DashInvariant, PTL

\* No issue of another project is listed, until a late list of projects takes the
\* chosen project away: every other change of the project clears the lists, and makes
\* the requests that were under way for the project before void.
THEOREM ListsAreOfProject == DashSafety => []ListsOfProject
<1>1. DashInv => ListsOfProject
  BY DEF DashInv, PageInv, OfProject, ListsOfProject, ShownOfProject
<1> QED BY <1>1, DashInvariant, PTL

\* The detail is that of the selected issue.
THEOREM DetailIsOfSelection == DashSafety => []DetailOfSelection
<1>1. DashInv => DetailOfSelection
  BY DEF DashInv, PageInv, OfSelection, DetailOfSelection
<1> QED BY <1>1, DashInvariant, PTL

\* A list that is not loading has the chosen status only, unless a request failed.
THEOREM ListIsFiltered == DashSafety => []ListMatchesFilter
<1>1. DashInv => ListMatchesFilter
  BY DEF DashInv, PageInv, OfFilter, ListMatchesFilter
<1> QED BY <1>1, DashInvariant, PTL

\* While "Loading issue..." is shown the detail is on its way.
THEOREM DetailIsRequested == DashSafety => []DetailIsLoading
<1>1. DashInv => DetailIsLoading
  BY DEF DashInv, PageInv, DetailOnItsWay, DetailIsLoading, UnderWay
<1> QED BY <1>1, DashInvariant, PTL

=============================================================================
