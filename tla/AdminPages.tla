----------------------------- MODULE AdminPages -----------------------------
(***************************************************************************)
(* The admin panel and the API behind it: one signed-in person's browser   *)
(* (app/admin/*, lib/admin.ts, lib/adminContext.tsx, Pager.tsx,            *)
(* FeatureOverrides.tsx), its requests on their way through the role guard *)
(* and the statements of AdminService, and other admins who change the     *)
(* same rows.  A request goes on after the page that sent it is left.      *)
(***************************************************************************)
EXTENDS Money, SequencesExt, FiniteSets

CONSTANTS UserId, Me,     \* the users, newest first in ListedFirst, and who is signed in
          ListedFirst,    \* UserId in the order of createdAt desc
          Feature, PlanKey, FlagKey,
          Start,          \* the tables a behaviour begins with, up to one's own role
          RoleChoice, TierChoice, Payload, Price, \* what can be picked or typed
          Matches,        \* per text of the users' search box, the users it matches
          ActionFilter,   \* texts of the audit page's box, "" or an action
          TakeUsers, TakeAudit, \* TAKE of the two list pages
          MaxCalls,       \* bound on requests of the browser in flight
          MaxWrites,      \* bound on changes asked for, by anybody
          None, NoRow

VARIABLES store,   \* users, overrides, plans and flags in the database
          audit,   \* the AuditLog, oldest first
          page,    \* "checking", a page of the panel, or outside: "login", "dashboard"
          goal,    \* the page that opens when the gate lets the visitor in
          gate,    \* GET /auth/me of the layout is outstanding
          role,    \* AdminRoleContext
          view,    \* what the page shows
          modal,   \* FeatureOverrides, or NoDialog
          calls,   \* per slot the request in flight, or NoCall
          writes,  \* changes asked for, for the bound
          halved,  \* HISTORY: a request failed between its two statements
          began,   \* HISTORY: one's own role when the behaviour began
          mixed    \* HISTORY: two requests of this page overlapped, one failed, or
                   \* somebody else changed the tables since the page was opened

vars == <<store, audit, page, goal, gate, role, view, modal, calls, writes, halved,
          began, mixed>>
------------------------------------------------------------------------------
(* Who may do what *)

AdminRoles == {"ADMIN", "SUPERADMIN", "SUPPORT", "ANALYST"}
AdminLevel == {"ADMIN", "SUPERADMIN"}
Role       == AdminRoles \cup {"USER", "ADVISOR"}

\* @Roles of AdminController, per request.
Allowed(name) ==
    CASE name \in {"role", "erase"} -> {"SUPERADMIN"}
      [] name = "status"            -> {"ADMIN", "SUPERADMIN", "SUPPORT"}
      [] name \in {"overrides", "override", "clear", "tier", "export", "plan", "flag"} ->
            AdminLevel
      [] name \in {"users", "audit", "plans", "flags"} -> AdminRoles

\* FAULT: the panel offers to erase and to change roles on every admin level.
OfferedToAdmins(name) ==
    IF name \in {"role", "erase", "tier", "override", "clear"} THEN AdminLevel
    ELSE AdminRoles

\* canChangeRole, canErase, canManageFeatures; the rest is offered to everybody.
Offered(name) ==
    CASE name \in {"role", "erase"}               -> {"SUPERADMIN"}
      [] name \in {"tier", "override", "clear"}   -> AdminLevel
      [] name \in {"status", "export", "plan", "flag"} -> AdminRoles
------------------------------------------------------------------------------
(* The tables *)

UserRow == [role : Role, status : {"active", "suspended"}, tier : TierChoice]

Tables ==
    [users : [UserId -> UserRow \cup {NoRow}],
     overrides : [UserId -> [Feature -> {"default", "granted", "revoked"}]],
     plans : [PlanKey -> [active : BOOLEAN, features : SUBSET Feature, price : Price]],
     flags : [FlagKey -> [enabled : BOOLEAN, payload : Payload \cup {None}] \cup {None}]]

ASSUME AdminAssumption ==
    /\ Me \in UserId /\ ListedFirst \in Seq(UserId) /\ Range(ListedFirst) = UserId
    /\ RoleChoice \subseteq Role
    /\ Start \in Tables /\ Start.users[Me] \in UserRow /\ NoRow \notin UserRow
    /\ "" \in DOMAIN Matches \cap ActionFilter
    /\ TakeUsers \in Nat \ {0} /\ TakeAudit \in Nat \ {0}
    /\ MaxCalls \in Nat \ {0} /\ MaxWrites \in Nat
------------------------------------------------------------------------------
(* AdminService *)

Has(id) == id \in UserId /\ store.users[id] # NoRow

\* The row a statement needs: a flag is upserted, and deleteMany finds nothing.
Possible(op) == op.name \in {"plan", "flag", "clear"} \/ Has(op.on)

NoOverrides == [f \in Feature |-> "default"]
NewFlag == [enabled |-> FALSE, payload |-> None]

\* A row after an update of the columns that were sent.
Updated(row, data) ==
    [column \in DOMAIN row |-> IF column \in DOMAIN data THEN data[column] ELSE row[column]]

\* The statement that changes the tables.
Applied(op) ==
    CASE op.name \in {"status", "role", "tier"} ->
            [store EXCEPT !.users[op.on] = Updated(@, op.set)]
      [] op.name \in {"override", "clear"} ->
            [store EXCEPT !.overrides[op.on] = IF Has(op.on) THEN Updated(@, op.set) ELSE @]
      [] op.name = "erase" ->
            [store EXCEPT !.users[op.on] = NoRow, !.overrides[op.on] = NoOverrides]
      [] op.name = "export" -> store
      [] op.name = "plan" -> [store EXCEPT !.plans[op.on] = Updated(@, op.set)]
      [] op.name = "flag" ->
            [store EXCEPT !.flags[op.on] = Updated(IF @ = None THEN NewFlag ELSE @, op.set)]

\* FAULT: setUserRole does not record.
RecordNoRoles(op) ==
    IF op.name = "role" THEN audit ELSE Append(audit, [action |-> op.name, on |-> op.on])

Record(op) == Append(audit, [action |-> op.name, on |-> op.on])

\* FAULT: eraseUser deletes before it records.
LogFirstNever == {}

\* eraseUser records before it deletes; the others change, then record.
LogFirst == {"erase"}

\* The rows at some places of a table, in its order.
RowsAt(rows, places) == [n \in 1..Cardinality(places) |-> rows[Nth(places, n)]]

\* listUsers and auditLog: the rows that match, newest first.
Listing(name, text) ==
    IF name = "users"
    THEN RowsAt(ListedFirst, {n \in DOMAIN ListedFirst : /\ Has(ListedFirst[n])
                                                        /\ ListedFirst[n] \in Matches[text]})
    ELSE Reverse(RowsAt(audit, {n \in DOMAIN audit : text \in {"", audit[n].action}}))

\* What the list of users says of one.
Listed(id) == [id |-> id, role |-> store.users[id].role, status |-> store.users[id].status,
               tier |-> store.users[id].tier]

Take(name) == IF name = "users" THEN TakeUsers ELSE TakeAudit

PageOf(name, q) ==
    LET all == Listing(name, q.text)
        page1 == SubSeq(all, q.skip + 1, Smaller(q.skip + Take(name), Len(all)))
    IN  IF name = "users" THEN [n \in DOMAIN page1 |-> Listed(page1[n])] ELSE page1

\* What a load returns: a page of a list and how many rows there are, or the rows asked for.
ReadOf(name, q) ==
    CASE name \in {"users", "audit"} ->
            [rows |-> PageOf(name, q), total |-> Len(Listing(name, q.text))]
      [] name = "plans"     -> [rows |-> store.plans]
      [] name = "flags"     -> [rows |-> store.flags]
      [] name = "overrides" -> [rows |-> store.overrides[q]]
------------------------------------------------------------------------------
(* The browser *)

Panel == {"users", "audit", "plans", "flags"}
Blank == [rows |-> <<>>, total |-> 0, skip |-> 0, box |-> "", fresh |-> FALSE]

Load(name, q, for) ==
    [name |-> name, q |-> q, for |-> for, got |-> <<>>, phase |-> "sent"]
Save(op, then, for) ==
    [name |-> op.name, op |-> op, then |-> then, for |-> for, phase |-> "sent"]

NoCall   == [phase |-> "none"]
NoDialog == [user |-> None]

\* What a request is for: the page or dialog that is open, a dialog that was closed
\* (its code runs on), or nothing any more: "gone".
Open == {"page", "modal"}
Everything == Open \cup {"closed"}

Busy == \E s \in 1..MaxCalls : calls[s] # NoCall /\ calls[s].for \in Open

\* The first slot without a request.
Free(s) == calls[s] = NoCall /\ \A t \in 1..(s - 1) : calls[t] # NoCall

Send(s, call) ==
    /\ Free(s)
    /\ calls' = [calls EXCEPT ![s] = call]
    /\ mixed' = (mixed \/ Busy)

\* The page that sent them is unloaded: what was read is dropped, while the API
\* goes on with what it was asked to change.
Abandoned ==
    [s \in 1..MaxCalls |->
        IF "op" \in DOMAIN calls[s] THEN [calls[s] EXCEPT !.for = "gone"] ELSE NoCall]

\* A link of AdminShell or an address typed: the page loads anew, the layout asks
\* who is there.
Visit(p) ==
    /\ page' = "checking" /\ goal' = p /\ gate' = TRUE /\ role' = None
    /\ view' = Blank /\ modal' = NoDialog
    /\ calls' = Abandoned /\ mixed' = FALSE
    /\ UNCHANGED <<store, audit, writes, halved, began>>

Outside(p) ==
    /\ page' = p /\ gate' = FALSE /\ role' = None
    /\ view' = Blank /\ modal' = NoDialog
    /\ goal' = p

\* Sign out, or back to the app.
Leave(p) ==
    /\ page \in Panel /\ p \in {"login", "dashboard"}
    /\ Outside(p)
    /\ calls' = Abandoned /\ mixed' = FALSE
    /\ UNCHANGED <<store, audit, writes, halved, began>>

\* The page is mounted and sends its first load.
Mounted(s, r) ==
    /\ page' = goal /\ gate' = FALSE /\ role' = r
    /\ Free(s)
    /\ calls' = [calls EXCEPT ![s] = Load(goal, [skip |-> 0, text |-> ""], "page")]
    /\ mixed' = FALSE
    /\ UNCHANGED <<store, audit, goal, view, modal, writes, halved, began>>

Stays == UNCHANGED <<store, audit, calls, writes, halved, began, mixed>>

\* Whoever the token belongs to, as JwtStrategy finds them now.
MyRole == IF Has(Me) THEN store.users[Me].role ELSE None
Active == Has(Me) /\ store.users[Me].status = "active"

\* AdminLayout: /auth/me answers with an admin role, with another one, or fails.
GateAnswers(s) ==
    /\ page = "checking" /\ gate
    /\ \/ Active /\ MyRole \in AdminRoles /\ Mounted(s, MyRole)
       \/ Active /\ MyRole \notin AdminRoles /\ Outside("dashboard") /\ Stays
       \/ Outside("login") /\ Stays

\* The query of load() with its defaults: what the page is at as it is drawn.
Again == Load(page, [skip |-> view.skip, text |-> view.box], "page")

ListPage == page \in {"users", "audit"}

TypeText(text) ==
    /\ ListPage /\ modal = NoDialog /\ text # view.box
    /\ text \in IF page = "users" THEN DOMAIN Matches ELSE ActionFilter
    /\ view' = [view EXCEPT !.box = text]
    /\ UNCHANGED <<store, audit, page, goal, gate, role, modal, calls, writes, halved, began, mixed>>

\* runSearch, Filter.
RunSearch(s) ==
    /\ ListPage /\ modal = NoDialog
    /\ Send(s, Load(page, [skip |-> 0, text |-> view.box], "page"))
    /\ UNCHANGED <<store, audit, page, goal, gate, role, view, modal, writes, halved, began>>

CanPrev == view.skip > 0
CanNext == view.skip + Take(page) < view.total

\* Pager: the text typed, searched for or not, goes with it.
TurnPage(s) ==
    /\ ListPage /\ modal = NoDialog
    /\ \E skip \in {n \in {view.skip - Take(page), view.skip + Take(page)} :
                        IF n < view.skip THEN CanPrev ELSE CanNext} :
          Send(s, Load(page, [skip |-> Larger(0, skip), text |-> view.box], "page"))
    /\ UNCHANGED <<store, audit, page, goal, gate, role, view, modal, writes, halved, began>>
------------------------------------------------------------------------------
(* Changes asked for with a click; confirm and prompt come before the request *)

Ask(s, op, then, for) ==
    /\ role \in Offered(op.name)
    /\ writes < MaxWrites
    /\ Send(s, Save(op, then, for))
    /\ writes' = writes + 1
    /\ UNCHANGED <<store, audit, page, goal, gate, role, view, modal, halved, began>>

Op(name, on, set) == [name |-> name, on |-> on, set |-> set]

\* toggleStatus, changeRole, changeTier, erase: of the row as it is shown.
RowOps(id, u) ==
    {Op("status", id, [status |-> IF u.status = "active" THEN "suspended" ELSE "active"]),
     Op("erase", id, <<>>)}
    \cup {Op("role", id, [role |-> r]) : r \in RoleChoice \ {u.role}}
    \cup {Op("tier", id, [tier |-> t]) : t \in TierChoice \ {u.tier}}

ClickUser(s) ==
    /\ page = "users" /\ modal = NoDialog
    /\ \E n \in DOMAIN view.rows :
          \/ \E op \in RowOps(view.rows[n].id, view.rows[n]) : Ask(s, op, Again, "page")
          \/ Ask(s, Op("export", view.rows[n].id, <<>>), NoCall, "page")

\* toggleFeature: the list that is shown, with one box ticked or cleared.
FeaturesAfter(p, f) == IF f \in p.features THEN p.features \ {f} ELSE p.features \cup {f}

\* toggleActive, toggleFeature, savePrice and, likewise, saveName.
PlanOps(k, p) ==
    {Op("plan", k, [active |-> ~p.active])}
    \cup {Op("plan", k, [features |-> FeaturesAfter(p, f)]) : f \in Feature}
    \cup {Op("plan", k, [price |-> x]) : x \in Price \ {p.price}}

ClickPlan(s) ==
    /\ page = "plans" /\ view.fresh
    /\ \E k \in PlanKey : \E op \in PlanOps(k, view.rows[k]) : Ask(s, op, Again, "page")

\* FlagRow: the switch and the payload, empty or not; createFlag: a key not shown.
FlagOps(k, f) ==
    IF f = None THEN {Op("flag", k, [enabled |-> FALSE])}
    ELSE {Op("flag", k, [enabled |-> ~f.enabled])}
         \cup {Op("flag", k, [payload |-> x]) : x \in Payload \cup {None}}

ClickFlag(s) ==
    /\ page = "flags"
    /\ \E k \in FlagKey :
          \E op \in FlagOps(k, IF view.fresh THEN view.rows[k] ELSE None) : Ask(s, op, Again, "page")

OverridesOf(u) == Load("overrides", u, "modal")

OpenFeatures(s) ==
    /\ page = "users" /\ modal = NoDialog /\ role \in AdminLevel
    /\ \E n \in DOMAIN view.rows :
          /\ modal' = [user |-> view.rows[n].id, loading |-> TRUE, overrides |-> NoOverrides]
          /\ Send(s, OverridesOf(view.rows[n].id))
    /\ UNCHANGED <<store, audit, page, goal, gate, role, view, writes, halved, began>>

\* The dialog goes, what it is waiting for does not: handle() and load() run on.
CloseFeatures ==
    /\ modal # NoDialog
    /\ modal' = NoDialog
    /\ calls' = [s \in 1..MaxCalls |->
                   IF calls[s] # NoCall /\ calls[s].for = "modal"
                   THEN [calls[s] EXCEPT !.for = "closed"] ELSE calls[s]]
    /\ UNCHANGED <<store, audit, page, goal, gate, role, view, writes, halved, began, mixed>>

\* FeatureOverrides.set: another state than the one that is lit.
SetOverride(s) ==
    /\ modal # NoDialog /\ ~modal.loading
    /\ \E f \in Feature : \E next \in {"default", "granted", "revoked"} \ {modal.overrides[f]} :
          Ask(s, Op(IF next = "default" THEN "clear" ELSE "override", modal.user,
                    [x \in {f} |-> next]), OverridesOf(modal.user), "modal")
------------------------------------------------------------------------------
(* A request on its way *)

Step(s, call) == calls' = [calls EXCEPT ![s] = call]
At(s, phase)  == calls[s] # NoCall /\ calls[s].phase = phase
InPhase(s, phase) == [calls[s] EXCEPT !.phase = phase]
Browser == UNCHANGED <<page, goal, gate, role, view, modal, writes>>
Changes(s) == "op" \in DOMAIN calls[s]

\* A write of a request whose page or dialog is gone is unknown to the page of now.
Surprise(s) == mixed' = (mixed \/ calls[s].for \notin Open)

\* JwtStrategy, then RolesGuard; the access token may have expired.  What a load
\* asks for, in queries that are sent together, is read at once.
Guard(s) ==
    /\ At(s, "sent")
    /\ \/ /\ Active /\ MyRole \in Allowed(calls[s].name)
          /\ Step(s, IF Changes(s) THEN InPhase(s, "in")
                     ELSE [calls[s] EXCEPT !.got = ReadOf(calls[s].name, calls[s].q),
                                           !.phase = "ok"])
       \/ Active /\ MyRole \notin Allowed(calls[s].name) /\ Step(s, InPhase(s, "forbidden"))
       \/ Step(s, InPhase(s, "unauthorized"))
    /\ Browser /\ UNCHANGED <<store, audit, halved, began, mixed>>

\* The change itself, first or after its record.
Change(s) ==
    LET last == calls[s].name \in LogFirst
    IN  /\ Changes(s) /\ At(s, IF last THEN "half" ELSE "in")
        /\ IF Possible(calls[s].op)
           THEN /\ store' = Applied(calls[s].op)
                /\ Step(s, InPhase(s, IF last THEN "ok" ELSE "half"))
           ELSE Step(s, InPhase(s, "failed")) /\ UNCHANGED store
        /\ Surprise(s) /\ Browser /\ UNCHANGED <<audit, halved, began>>

\* AuditService.log.
Log(s) ==
    LET first == calls[s].name \in LogFirst
    IN  /\ Changes(s) /\ At(s, IF first THEN "in" ELSE "half")
        /\ audit' = Record(calls[s].op)
        /\ Step(s, InPhase(s, IF first THEN "half" ELSE "ok"))
        /\ Surprise(s) /\ Browser /\ UNCHANGED <<store, halved, began>>

\* A statement fails, or the process, the connection or the answer is lost.
Fail(s) ==
    /\ IF Changes(s) THEN \E phase \in {"in", "half", "ok"} : At(s, phase) ELSE At(s, "sent")
    /\ halved' = (halved \/ At(s, "half"))
    /\ Step(s, InPhase(s, "failed"))
    /\ Browser /\ UNCHANGED <<store, audit, began, mixed>>

Answered(s) == \E phase \in {"ok", "failed", "forbidden", "unauthorized"} : At(s, phase)

\* FAULT: the page is not loaded again after a change.
AfterOnce(s) == NoCall

\* What goes out once a request succeeded: a change is followed by its load.
After(s) ==
    IF ~Changes(s) THEN NoCall
    ELSE IF calls[s].for = "closed" THEN [calls[s].then EXCEPT !.for = "closed"]
    ELSE calls[s].then

\* handle(): away on 401 and 403; a change is followed by load(), a load is shown
\* if there is still a page or dialog to show it.
Receive(s) ==
    LET call == calls[s]
    IN  /\ Answered(s) /\ call.for # "gone"
        /\ CASE call.phase \in {"forbidden", "unauthorized"} ->
                  /\ Outside(IF call.phase = "forbidden" THEN "dashboard" ELSE "login")
                  /\ calls' = [Abandoned EXCEPT ![s] = NoCall]
                  /\ mixed' = FALSE
             [] call.phase = "failed" ->
                  /\ Step(s, NoCall) /\ mixed' = TRUE
                  /\ modal' = IF call.for = "modal" THEN [modal EXCEPT !.loading = FALSE] ELSE modal
                  /\ UNCHANGED <<page, goal, gate, role, view>>
             [] OTHER ->
                  /\ Step(s, After(s))
                  /\ IF Changes(s) \/ call.for = "closed" THEN UNCHANGED <<view, modal>>
                     ELSE IF call.for = "modal"
                     THEN /\ modal' = [modal EXCEPT !.loading = FALSE, !.overrides = call.got.rows]
                          /\ UNCHANGED view
                     ELSE /\ view' = [Updated(view, call.got) EXCEPT !.skip = call.q.skip, !.fresh = TRUE]
                          /\ UNCHANGED modal
                  /\ UNCHANGED <<page, goal, gate, role, mixed>>
        /\ UNCHANGED <<store, audit, writes, halved, began>>

\* Nobody waits for it any more.
Forget(s) ==
    /\ Answered(s) /\ calls[s].for = "gone"
    /\ Step(s, NoCall)
    /\ Browser /\ UNCHANGED <<store, audit, halved, began, mixed>>

\* Another admin's request, which is over at once.
Other ==
    /\ writes < MaxWrites
    /\ \E op \in (UNION {RowOps(u, store.users[u]) : u \in {v \in UserId : Has(v)}})
                 \cup (UNION {PlanOps(k, store.plans[k]) : k \in PlanKey})
                 \cup (UNION {FlagOps(k, store.flags[k]) : k \in FlagKey}) :
          store' = Applied(op) /\ audit' = Record(op)
    /\ writes' = writes + 1
    /\ mixed' = TRUE
    /\ UNCHANGED <<page, goal, gate, role, view, modal, calls, halved, began>>
------------------------------------------------------------------------------
\* The tables as they were in the beginning.
First == [Start EXCEPT !.users[Me].role = began]

Init ==
    /\ began \in AdminRoles \cup {"USER"} /\ store = First
    /\ audit = <<>>
    /\ page = "dashboard" /\ goal = "dashboard" /\ gate = FALSE /\ role = None
    /\ view = Blank /\ modal = NoDialog
    /\ calls = [s \in 1..MaxCalls |-> NoCall]
    /\ writes = 0 /\ halved = FALSE /\ mixed = FALSE

Click(s) ==
    \/ RunSearch(s) \/ TurnPage(s) \/ ClickUser(s) \/ ClickPlan(s) \/ ClickFlag(s)
    \/ OpenFeatures(s) \/ SetOverride(s)

Serve(s) == Guard(s) \/ Change(s) \/ Log(s) \/ Fail(s)
Return(s) == Receive(s) \/ Forget(s)

Next ==
    \/ \E p \in Panel : Visit(p)
    \/ \E p \in {"login", "dashboard"} : Leave(p)
    \/ \E s \in 1..MaxCalls : GateAnswers(s) \/ Click(s) \/ Serve(s) \/ Return(s)
    \/ \E text \in DOMAIN Matches \cup ActionFilter : TypeText(text)
    \/ CloseFeatures
    \/ Other

Spec == Init /\ [][Next]_vars
------------------------------------------------------------------------------
(* Properties *)

Quiet == page \in Panel /\ ~mixed /\ ~Busy

\* A page that has loaded and asked for one thing at a time shows what is stored,
\* after every change it made: on a list page the rows of the place it says it is
\* at and the number of rows for one text of the box; and an empty page of a list that is not
\* empty leaves a way back (load, save, Pager, FeatureOverrides).
QuietPageIsTrue ==
    Quiet /\ view.fresh =>
        /\ ListPage =>
              /\ \E text \in IF page = "users" THEN DOMAIN Matches ELSE ActionFilter :
                    /\ view.rows = PageOf(page, [skip |-> view.skip, text |-> text])
                    /\ view.total = Len(Listing(page, text))
              /\ view.rows = <<>> /\ view.total > 0 => CanPrev
        /\ page = "plans" => view.rows = store.plans
        /\ page = "flags" => view.rows = store.flags
        /\ modal # NoDialog /\ ~modal.loading => modal.overrides = store.overrides[modal.user]

\* The audit log names every user who is gone, however the erasing request
\* ended; and as long as no request failed between its two statements, it names
\* whatever differs from how it was (AdminService).
TrailIsComplete ==
    LET Named(names, id) == \E n \in DOMAIN audit : audit[n].action \in names /\ audit[n].on = id
        here == {u \in UserId : Has(u)}
    IN  /\ \A u \in UserId \ here : First.users[u] # NoRow => Named({"erase"}, u)
        /\ ~halved /\ (\A s \in 1..MaxCalls : ~At(s, "half")) =>
            /\ \A u \in here :
                 /\ store.users[u].status # First.users[u].status => Named({"status"}, u)
                 /\ store.users[u].role # First.users[u].role => Named({"role"}, u)
                 /\ store.users[u].tier # First.users[u].tier => Named({"tier"}, u)
                 /\ store.overrides[u] # First.overrides[u] => Named({"override", "clear"}, u)
            /\ \A k \in PlanKey : store.plans[k] # First.plans[k] => Named({"plan"}, k)
            /\ \A k \in FlagKey : store.flags[k] # First.flags[k] => Named({"flag"}, k)

\* A 403, which throws its receiver out of the panel, is never the answer to an
\* ADMIN or SUPERADMIN whose role is still the one the panel was drawn for: what
\* is offered to them they may do (Offered, @Roles).  That goes for what a dialog
\* asked before it was closed; nobody hears the answer once the page is unloaded.
FullAdminIsNotRefused ==
    [][\A s \in 1..MaxCalls :
         /\ At(s, "sent") /\ calls[s].for # "gone"
         /\ calls'[s] # NoCall /\ calls'[s].phase = "forbidden"
         => role \notin AdminLevel \/ role # MyRole]_vars
=============================================================================
