----------------------------- MODULE AdminProofs -----------------------------
(***************************************************************************)
(* For any users, plans, flags and pages, any number of requests in flight *)
(* and of changes: the panel never asks, on behalf of a full admin, for    *)
(* what the API refuses to that role; every change of the store is named   *)
(* in the audit trail or was cut off before its entry; and a page that has *)
(* asked for one thing at a time shows what is stored.                     *)
(***************************************************************************)
EXTENDS AdminPages, MoneyProofs, SequenceTheorems

\* A request whose answer is still heard.
Live(call) == call # NoCall /\ call.for # "gone"

\* If the panel was drawn for a full admin, that role may do it.
Granted(name) == role \in AdminLevel => role \in Allowed(name)

Loads == Panel \cup {"overrides"}

Fields == {"name", "for", "phase"}

\* What follows a change is a load of the page or of the dialog.
LoadShape(call) ==
    Fields \subseteq DOMAIN call /\ "op" \notin DOMAIN call /\ call.name \in Loads /\ call.for \in Everything

\* A call comes from the page, a dialog, or neither any more.
CallShape(call) ==
    /\ Fields \subseteq DOMAIN call /\ call.for \in Everything \cup {"gone"}
    /\ "op" \in DOMAIN call => "then" \in DOMAIN call /\ (call.then # NoCall => LoadShape(call.then))

\* Calls are well formed, and a live one is one its full admin may make.
Calls ==
    /\ DOMAIN calls = 1..MaxCalls
    /\ \A s \in 1..MaxCalls : calls[s] # NoCall => CallShape(calls[s])
    /\ \A s \in 1..MaxCalls : Live(calls[s]) => Granted(calls[s].name)

\* Outside the panel nothing is live; the gate leads into it.
Away ==
    /\ page \notin Panel => modal = NoDialog /\ \A s \in 1..MaxCalls : ~Live(calls[s])
    /\ page = "checking" => goal \in Panel

IInv == Calls /\ Away
------------------------------------------------------------------------------
\* The names of what can be asked for with a click.
Clicked == {"status", "export", "plan", "flag", "role", "erase", "tier", "override", "clear"}

\* The lists of what the panel offers and what the API allows agree on full admins.
LEMMA OfferIsAllowed ==
    ASSUME NEW name \in Clicked, role \in Offered(name)
    PROVE  Granted(name)
BY DEF AdminLevel, Offered, Allowed, AdminRoles, Clicked, Granted

\* Every load is allowed to a full admin.
LEMMA LoadIsGranted == \A name \in Loads : Granted(name)
BY DEF Loads, Panel, Granted, Allowed, AdminLevel, AdminRoles

\* A request on its way keeps who it is from and what it is.
LEMMA PhaseKeeps ==
    ASSUME NEW call, CallShape(call), NEW phase, NEW next, next = [call EXCEPT !.phase = phase]
    PROVE  CallShape(next) /\ next.name = call.name /\ next.for = call.for
BY DEF CallShape, Fields

\* The same for a load that has its answer.
LEMMA GotKeeps ==
    ASSUME NEW call, CallShape(call), NEW got, NEW next,
           next = [call EXCEPT !.got = got, !.phase = "ok"]
    PROVE  CallShape(next) /\ next.name = call.name /\ next.for = call.for
BY DEF CallShape, Fields

\* A request that changes hands is the request it was.
LEMMA ForKeeps ==
    ASSUME NEW call, CallShape(call), NEW for \in Everything \cup {"gone"}, NEW next,
           next = [call EXCEPT !.for = for]
    PROVE  /\ CallShape(next) /\ next.for = for /\ next.name = call.name
           /\ next.phase = call.phase /\ next # NoCall
BY DEF CallShape, Fields, NoCall

\* A page that is left leaves no live call behind, and changes as they are.
LEMMA AbandonKeeps ==
    ASSUME IInv, NEW s \in 1..MaxCalls
    PROVE  /\ DOMAIN Abandoned = 1..MaxCalls
           /\ Abandoned[s] # NoCall => /\ calls[s] # NoCall /\ CallShape(Abandoned[s])
                                       /\ Abandoned[s].phase = calls[s].phase
           /\ ~Live(Abandoned[s])
<1>1. CASE "op" \notin DOMAIN calls[s]
    BY <1>1 DEF Abandoned, Live
<1>2. CASE "op" \in DOMAIN calls[s]
    <2>1. calls[s] # NoCall /\ CallShape(calls[s])
        BY <1>2 DEF NoCall, IInv, Calls
    <2>2. PICK next : next = [calls[s] EXCEPT !.for = "gone"]
        OBVIOUS
    <2>3. CallShape(next) /\ next.for = "gone" /\ next.phase = calls[s].phase
        BY <2>1, <2>2, ForKeeps
    <2>. QED
        BY <1>2, <2>1, <2>2, <2>3 DEF Abandoned, Live
<1>. QED
    BY <1>1, <1>2

\* What follows a request is a load, for what the request was for.
LEMMA AfterShape ==
    ASSUME NEW s \in 1..MaxCalls, CallShape(calls[s])
    PROVE  /\ After(s) # NoCall => LoadShape(After(s))
           /\ calls[s].for = "closed" => ~(After(s) # NoCall /\ After(s).for # "closed")
<1>1. CASE ~Changes(s) \/ calls[s].for # "closed"
    BY <1>1 DEF After, Changes, CallShape
<1>2. CASE Changes(s) /\ calls[s].for = "closed"
    <2>1. PICK then, next : then = calls[s].then /\ next = [then EXCEPT !.for = "closed"]
        OBVIOUS
    <2>2. After(s) = next
        BY <1>2, <2>1 DEF After
    <2>3. CASE then = NoCall
        BY <2>1, <2>2, <2>3 DEF NoCall
    <2>4. CASE then # NoCall
        <3>1. LoadShape(then)
            BY <1>2, <2>1, <2>4 DEF Changes, CallShape
        <3>2. DOMAIN next = DOMAIN then /\ next.for = "closed" /\ next.name = then.name
            BY <2>1, <3>1 DEF LoadShape, Fields
        <3>. QED
            BY <2>2, <3>1, <3>2 DEF LoadShape, Everything, Open
    <2>. QED
        BY <2>3, <2>4
<1>. QED
    BY <1>1, <1>2

\* A step that puts one call in its place while the panel stays as it is.
LEMMA CallStep ==
    ASSUME IInv, NEW s \in 1..MaxCalls, NEW call, calls' = [calls EXCEPT ![s] = call],
           UNCHANGED <<page, goal, role>>, modal' = modal \/ page \in Panel,
           call # NoCall => CallShape(call),
           Live(call) => Granted(call.name) /\ page \in Panel
    PROVE  IInv'
<1>1. /\ DOMAIN calls' = 1..MaxCalls /\ calls'[s] = call
      /\ \A t \in 1..MaxCalls : t # s => calls'[t] = calls[t]
    BY DEF IInv, Calls
<1>2. Calls'
    BY <1>1 DEF IInv, Calls, Live, Granted
<1>3. Away'
    BY <1>1 DEF IInv, Away, Live
<1>. QED
    BY <1>2, <1>3 DEF IInv

\* Outside the panel, at its gate or not, with every call abandoned.
LEMMA LeaveStep ==
    ASSUME IInv, page' \notin Panel, page' = "checking" => goal' \in Panel, modal' = NoDialog,
           DOMAIN calls' = 1..MaxCalls,
           \A s \in 1..MaxCalls : calls'[s] = NoCall \/ calls'[s] = Abandoned[s]
    PROVE  IInv'
<1>1. \A s \in 1..MaxCalls : ~Live(Abandoned[s])
    BY AbandonKeeps
<1>2. \A s \in 1..MaxCalls : ~Live(calls'[s])
    BY <1>1 DEF Live
<1>3. \A s \in 1..MaxCalls : calls'[s] # NoCall => CallShape(calls'[s])
    BY AbandonKeeps
<1>. QED
    BY <1>2, <1>3 DEF IInv, Calls, Away, Live

\* No request is in flight before the panel is opened.
LEMMA InitInv == Init => IInv
BY DEF Init, IInv, Calls, Away, Live, Panel

\* A load of the page or the dialog is well formed.
LEMMA LoadFacts ==
    ASSUME NEW name \in Loads, NEW q, NEW for \in Everything
    PROVE  LoadShape(Load(name, q, for)) /\ CallShape(Load(name, q, for))
           /\ Load(name, q, for).name = name
BY DEF Load, LoadShape, CallShape, Fields

\* So is a change with the load that follows it.
LEMMA SaveFacts ==
    ASSUME NEW op, NEW then, NEW for \in Everything, then # NoCall => LoadShape(then)
    PROVE  CallShape(Save(op, then, for)) /\ Save(op, then, for).name = op.name
BY DEF Save, CallShape, Fields

\* A click that loads: a search, a page, the overrides of a user.
LEMMA SendStep ==
    ASSUME IInv, NEW s \in 1..MaxCalls, NEW name \in Loads, NEW q, NEW for \in Everything,
           Send(s, Load(name, q, for)), page \in Panel, UNCHANGED <<page, goal, role>>
    PROVE  IInv'
<1>1. calls' = [calls EXCEPT ![s] = Load(name, q, for)]
    BY DEF Send
<1>. QED
    BY <1>1, LoadFacts, LoadIsGranted, CallStep

\* A click that changes something: the panel offers it to this role.
LEMMA AskStep ==
    ASSUME IInv, NEW s \in 1..MaxCalls, NEW op, op.name \in Clicked, NEW then,
           then # NoCall => LoadShape(then), NEW for \in Everything, Ask(s, op, then, for), page \in Panel
    PROVE  IInv'
<1>1. /\ calls' = [calls EXCEPT ![s] = Save(op, then, for)]
      /\ role \in Offered(op.name) /\ UNCHANGED <<page, goal, role, modal>>
    BY DEF Ask, Send
<1>2. Granted(op.name)
    BY <1>1, OfferIsAllowed
<1>3. CallShape(Save(op, then, for)) /\ Save(op, then, for).name = op.name
    BY SaveFacts
<1>. QED
    BY <1>1, <1>2, <1>3, CallStep

\* Whatever is clicked on a page or in the dialog.
LEMMA ClickStep == ASSUME IInv, NEW s \in 1..MaxCalls, Click(s) PROVE IInv'
<1>. USE DEF Op
<1>1. ASSUME page \in Panel PROVE LoadShape(Again)
    BY <1>1, LoadFacts DEF Again, Loads, Everything, Open
<1>2. CASE RunSearch(s)
    <2>1. page \in Panel /\ page \in Loads
        BY <1>2 DEF RunSearch, ListPage, Panel, Loads
    <2>. QED
        BY <1>2, <2>1, SendStep DEF RunSearch, Everything, Open
<1>3. CASE TurnPage(s)
    <2>1. page \in Panel /\ page \in Loads
        BY <1>3 DEF TurnPage, ListPage, Panel, Loads
    <2>2. PICK skip : Send(s, Load(page, [skip |-> Larger(0, skip), text |-> view.box], "page"))
        BY <1>3 DEF TurnPage
    <2>. QED
        BY <1>3, <2>1, <2>2, SendStep DEF TurnPage, Everything, Open
<1>4. CASE ClickUser(s)
    <2>1. page \in Panel
        BY <1>4 DEF ClickUser, Panel
    <2>2. ASSUME NEW n \in DOMAIN view.rows, NEW op \in RowOps(view.rows[n].id, view.rows[n]) PROVE op.name \in Clicked
        BY <2>2 DEF RowOps, Clicked
    <2>3. ASSUME NEW n \in DOMAIN view.rows, NEW op \in RowOps(view.rows[n].id, view.rows[n]), Ask(s, op, Again, "page")
          PROVE IInv'
        BY <1>1, <2>1, <2>2, <2>3, AskStep DEF Everything, Open
    <2>4. ASSUME NEW n \in DOMAIN view.rows, Ask(s, Op("export", view.rows[n].id, <<>>), NoCall, "page")
          PROVE IInv'
        BY <2>1, <2>4, AskStep DEF Everything, Open, Clicked
    <2>. QED
        BY <1>4, <2>3, <2>4 DEF ClickUser
<1>5. CASE ClickPlan(s)
    <2>1. page \in Panel
        BY <1>5 DEF ClickPlan, Panel
    <2>2. PICK k \in PlanKey : \E op \in PlanOps(k, view.rows[k]) : Ask(s, op, Again, "page")
        BY <1>5 DEF ClickPlan
    <2>3. PICK op \in PlanOps(k, view.rows[k]) : Ask(s, op, Again, "page")
        BY <2>2
    <2>4. op.name \in Clicked
        BY <2>3 DEF PlanOps, Clicked
    <2>. QED
        BY <1>1, <2>1, <2>3, <2>4, AskStep DEF Everything, Open
<1>6. CASE ClickFlag(s)
    <2>1. page \in Panel
        BY <1>6 DEF ClickFlag, Panel
    <2>2. PICK k \in FlagKey :
              \E op \in FlagOps(k, IF view.fresh THEN view.rows[k] ELSE None) : Ask(s, op, Again, "page")
        BY <1>6 DEF ClickFlag
    <2>3. PICK op \in FlagOps(k, IF view.fresh THEN view.rows[k] ELSE None) : Ask(s, op, Again, "page")
        BY <2>2
    <2>4. op.name \in Clicked
        BY <2>3 DEF FlagOps, Clicked
    <2>. QED
        BY <1>1, <2>1, <2>3, <2>4, AskStep DEF Everything, Open
<1>7. CASE OpenFeatures(s)
    <2>1. page \in Panel /\ "overrides" \in Loads
        BY <1>7 DEF OpenFeatures, Panel, Loads
    <2>2. PICK n \in DOMAIN view.rows : Send(s, OverridesOf(view.rows[n].id))
        BY <1>7 DEF OpenFeatures
    <2>. QED
        BY <1>7, <2>1, <2>2, SendStep DEF OpenFeatures, OverridesOf, Everything, Open
<1>8. CASE SetOverride(s)
    <2>1. page \in Panel
        BY <1>8 DEF SetOverride, IInv, Away
    <2>2. PICK op : /\ op.name \in Clicked
                    /\ Ask(s, op, OverridesOf(modal.user), "modal")
        <3>1. PICK f \in Feature, next \in {"default", "granted", "revoked"} :
                  Ask(s, Op(IF next = "default" THEN "clear" ELSE "override", modal.user,
                            [x \in {f} |-> next]), OverridesOf(modal.user), "modal")
            BY <1>8 DEF SetOverride
        <3>. QED
            BY <3>1 DEF Clicked
    <2>3. LoadShape(OverridesOf(modal.user))
        BY LoadFacts DEF OverridesOf, Loads, Everything, Open
    <2>. QED
        BY <2>1, <2>2, <2>3, AskStep DEF Everything, Open
<1>. QED
    BY <1>2, <1>3, <1>4, <1>5, <1>6, <1>7, <1>8 DEF Click

\* A request that moves on, or fails, is still the request it was.
LEMMA PhaseStep ==
    ASSUME IInv, NEW s \in 1..MaxCalls, calls[s] # NoCall, NEW phase, Step(s, InPhase(s, phase)), Browser
    PROVE  IInv'
<1>1. CallShape(calls[s]) /\ (Live(calls[s]) => Granted(calls[s].name) /\ page \in Panel)
    BY DEF IInv, Calls, Away
<1>2. PICK next : next = [calls[s] EXCEPT !.phase = phase]
    OBVIOUS
<1>3. CallShape(next) /\ next.name = calls[s].name /\ next.for = calls[s].for
    BY <1>1, <1>2, PhaseKeeps
<1>4. calls' = [calls EXCEPT ![s] = next]
    BY <1>2 DEF Step, InPhase
<1>5. Live(next) => Live(calls[s])
    BY <1>3 DEF Live
<1>. QED
    BY <1>1, <1>3, <1>4, <1>5, CallStep DEF Browser

\* The guards and the statements of a request.
LEMMA ServeStep == ASSUME IInv, NEW s \in 1..MaxCalls, Serve(s) PROVE IInv'
<1>1. CASE Guard(s)
    <2>1. calls[s] # NoCall /\ Browser
        BY <1>1 DEF Guard, At
    <2>2. CASE \E phase : Step(s, InPhase(s, phase))
        BY <2>1, <2>2, PhaseStep
    <2>3. CASE Step(s, [calls[s] EXCEPT !.got = ReadOf(calls[s].name, calls[s].q), !.phase = "ok"])
        <3>1. CallShape(calls[s]) /\ (Live(calls[s]) => Granted(calls[s].name) /\ page \in Panel)
            BY <2>1 DEF IInv, Calls, Away
        <3>2. PICK got, next : next = [calls[s] EXCEPT !.got = got, !.phase = "ok"] /\ Step(s, next)
            BY <2>3
        <3>3. CallShape(next) /\ next.name = calls[s].name /\ next.for = calls[s].for
            BY <3>1, <3>2, GotKeeps
        <3>4. calls' = [calls EXCEPT ![s] = next] /\ (Live(next) => Live(calls[s]))
            BY <2>1, <3>2, <3>3 DEF Step, Live
        <3>. QED
            BY <2>1, <3>1, <3>3, <3>4, CallStep DEF Browser
    <2>. QED
        BY <1>1, <2>2, <2>3 DEF Guard
<1>2. CASE Change(s) \/ Log(s) \/ Fail(s)
    <2>1. calls[s] # NoCall /\ Browser
        BY <1>2 DEF Change, Log, Fail, At
    <2>2. \E phase : Step(s, InPhase(s, phase))
        <3>1. CASE Change(s)
            BY <3>1 DEF Change
        <3>2. CASE Log(s)
            BY <3>2 DEF Log
        <3>3. CASE Fail(s)
            BY <3>3 DEF Fail
        <3>. QED
            BY <1>2, <3>1, <3>2, <3>3
    <2>. QED
        BY <2>1, <2>2, PhaseStep
<1>. QED
    BY <1>1, <1>2 DEF Serve

\* An answer that is shown, followed by a load, thrown away or sends one away.
LEMMA ReturnStep == ASSUME IInv, NEW s \in 1..MaxCalls, Return(s) PROVE IInv'
<1>1. CASE Receive(s)
    <2>1. calls[s] # NoCall /\ Live(calls[s]) /\ page \in Panel /\ CallShape(calls[s])
        BY <1>1 DEF Receive, Answered, At, IInv, Calls, Away, Live
    <2>2. CASE calls[s].phase \in {"forbidden", "unauthorized"}
        <3>1. PICK p \in {"dashboard", "login"} :
                  Outside(p) /\ calls' = [Abandoned EXCEPT ![s] = NoCall]
            BY <1>1, <2>2 DEF Receive
        <3>2. DOMAIN Abandoned = 1..MaxCalls
            BY AbandonKeeps
        <3>3. /\ DOMAIN calls' = 1..MaxCalls
              /\ \A t \in 1..MaxCalls : calls'[t] = NoCall \/ calls'[t] = Abandoned[t]
            BY <3>1, <3>2
        <3>. QED
            BY <3>1, <3>3, LeaveStep DEF Outside, Panel
    <2>3. CASE calls[s].phase = "failed"
        <3>1. calls' = [calls EXCEPT ![s] = NoCall] /\ UNCHANGED <<page, goal, role>>
            BY <1>1, <2>3 DEF Receive, Step
        <3>. QED
            BY <2>1, <3>1, CallStep DEF Live
    <2>4. CASE calls[s].phase \notin {"forbidden", "unauthorized", "failed"}
        <3>1. PICK next : next = After(s)
            OBVIOUS
        <3>2. calls' = [calls EXCEPT ![s] = next] /\ UNCHANGED <<page, goal, role>>
            BY <1>1, <2>4, <3>1 DEF Receive, Step
        <3>3. next # NoCall => LoadShape(next)
            BY <2>1, <3>1, AfterShape
        <3>4. next # NoCall => CallShape(next) /\ Granted(next.name)
            BY <3>3, LoadIsGranted DEF LoadShape, CallShape
        <3>. QED
            BY <2>1, <3>2, <3>4, CallStep DEF Live
    <2>. QED
        BY <2>2, <2>3, <2>4
<1>2. CASE Forget(s)
    <2>1. calls' = [calls EXCEPT ![s] = NoCall] /\ UNCHANGED <<page, goal, role, modal>>
        BY <1>2 DEF Forget, Step, Browser
    <2>. QED
        BY <2>1, CallStep DEF Live
<1>. QED
    BY <1>1, <1>2 DEF Return

\* The gate: into the panel with one load, or away from it.
LEMMA GateStep == ASSUME IInv, NEW s \in 1..MaxCalls, GateAnswers(s) PROVE IInv'
<1>1. page \notin Panel /\ goal \in Panel /\ modal = NoDialog
      /\ \A t \in 1..MaxCalls : ~Live(calls[t])
    BY DEF GateAnswers, IInv, Away, Panel
<1>2. CASE Mounted(s, MyRole)
    <2>1. PICK call : call = Load(goal, [skip |-> 0, text |-> ""], "page")
        OBVIOUS
    <2>2. CallShape(call) /\ call.name = goal /\ goal \in Loads
        BY <1>1, <2>1, LoadFacts DEF Loads, Everything, Open
    <2>3. /\ DOMAIN calls' = 1..MaxCalls /\ calls'[s] = call
          /\ \A t \in 1..MaxCalls : t # s => calls'[t] = calls[t]
          /\ page' = goal
        BY <1>2, <2>1 DEF Mounted, IInv, Calls
    <2>4. role' \in AdminLevel => role' \in Allowed(call.name)
        BY <2>2 DEF Loads, Panel, Allowed, AdminLevel, AdminRoles
    <2>5. Calls'
        <3>1. \A t \in 1..MaxCalls : calls'[t] # NoCall => CallShape(calls'[t])
            BY <2>2, <2>3 DEF IInv, Calls
        <3>2. \A t \in 1..MaxCalls : Live(calls'[t]) => calls'[t] = call
            BY <1>1, <2>3 DEF Live
        <3>. QED
            BY <2>3, <2>4, <3>1, <3>2 DEF Calls, Live, Granted
    <2>6. Away'
        BY <1>1, <2>3 DEF Away, Panel
    <2>. QED
        BY <2>5, <2>6 DEF IInv
<1>3. CASE (Outside("dashboard") \/ Outside("login")) /\ Stays
    <2>1. page' \notin Panel /\ page' # "checking" /\ modal' = NoDialog /\ calls' = calls
        BY <1>3 DEF Outside, Stays, Panel
    <2>. QED
        BY <1>1, <2>1 DEF IInv, Calls, Away, Live
<1>. QED
    BY <1>2, <1>3 DEF GateAnswers

\* A page that is opened, or left.
LEMMA VisitStep ==
    ASSUME IInv, (\E p \in Panel : Visit(p)) \/ (\E p \in {"login", "dashboard"} : Leave(p))
    PROVE  IInv'
<1>1. /\ page' \notin Panel /\ (page' = "checking" => goal' \in Panel) /\ modal' = NoDialog
      /\ calls' = Abandoned
    BY DEF Visit, Leave, Outside, Panel
<1>2. DOMAIN calls' = 1..MaxCalls
    BY <1>1 DEF Abandoned
<1>. QED
    BY <1>1, <1>2, LeaveStep

\* A dialog that is closed leaves its requests as they are, but for whom they are.
LEMMA CloseKeeps ==
    ASSUME IInv, CloseFeatures, NEW s \in 1..MaxCalls
    PROVE  /\ calls[s] = NoCall \/ calls[s].for # "modal" => calls'[s] = calls[s]
           /\ calls[s] # NoCall /\ calls[s].for = "modal" =>
                 /\ CallShape(calls'[s]) /\ calls'[s].for = "closed" /\ calls'[s] # NoCall
                 /\ calls'[s].name = calls[s].name /\ calls'[s].phase = calls[s].phase
<1>1. CASE calls[s] = NoCall \/ calls[s].for # "modal"
    BY <1>1 DEF CloseFeatures
<1>2. CASE calls[s] # NoCall /\ calls[s].for = "modal"
    <2>1. PICK next : next = [calls[s] EXCEPT !.for = "closed"]
        OBVIOUS
    <2>2. calls'[s] = next /\ CallShape(calls[s]) /\ "closed" \in Everything
        BY <1>2, <2>1 DEF CloseFeatures, IInv, Calls, Everything, Open
    <2>. QED
        BY <1>2, <2>1, <2>2, ForKeeps
<1>. QED
    BY <1>1, <1>2

LEMMA CloseStep == ASSUME IInv, CloseFeatures PROVE IInv'
<1>1. DOMAIN calls' = 1..MaxCalls /\ modal' = NoDialog /\ UNCHANGED <<page, goal, role>>
    BY DEF CloseFeatures
<1>2. \A s \in 1..MaxCalls : calls'[s] # NoCall =>
          CallShape(calls'[s]) /\ calls[s] # NoCall /\ calls'[s].name = calls[s].name
    BY CloseKeeps DEF IInv, Calls
<1>3. \A s \in 1..MaxCalls : Live(calls'[s]) => Live(calls[s])
    BY <1>2, CloseKeeps DEF Live
<1>. QED
    BY <1>1, <1>2, <1>3 DEF IInv, Calls, Away, Granted, Live

\* The invariant holds whatever is clicked, answered, lost, or done by others.
THEOREM Invariance == Spec => []IInv
<1>1. IInv /\ [Next]_vars => IInv'
    <2>. SUFFICES ASSUME IInv, [Next]_vars PROVE IInv'
        OBVIOUS
    <2>1. ASSUME UNCHANGED <<page, goal, role, modal, calls>> PROVE IInv'
        BY <2>1 DEF IInv, Calls, Away, Live, Granted
    <2>2. CASE UNCHANGED vars
        BY <2>1, <2>2 DEF vars
    <2>3. CASE Other \/ \E text \in DOMAIN Matches \cup ActionFilter : TypeText(text)
        BY <2>1, <2>3 DEF Other, TypeText
    <2>. QED
        BY <2>2, <2>3, GateStep, ClickStep, ServeStep, ReturnStep, VisitStep, CloseStep DEF Next
<1>. QED
    BY <1>1, InitInv, PTL DEF Spec

\* The answer to the request in slot s becomes a 403.
Refused(s) ==
    /\ At(s, "sent") /\ calls[s].for # "gone"
    /\ calls'[s] # NoCall /\ calls'[s].phase = "forbidden"

\* What is not served by its guard is not refused: it stays, ends or is given up.
LEMMA NotRefused ==
    ASSUME IInv, NEW s \in 1..MaxCalls,
           \/ calls'[s] \in {calls[s], NoCall, Abandoned[s]}
           \/ calls'[s].phase = calls[s].phase
    PROVE  ~Refused(s)
BY AbandonKeeps DEF Refused, At

\* A guard refuses a full admin only when the role has changed since the panel was drawn.
LEMMA RefusedNotOffered ==
    ASSUME IInv, NEW s \in 1..MaxCalls, Guard(s), Refused(s)
    PROVE  role \notin AdminLevel \/ role # MyRole
<1>1. CallShape(calls[s]) /\ Granted(calls[s].name) /\ DOMAIN calls = 1..MaxCalls
    BY DEF Refused, At, IInv, Calls, Live
<1>2. ASSUME NEW phase, Step(s, InPhase(s, phase)), phase # "forbidden" PROVE FALSE
    <2>1. calls'[s] = [calls[s] EXCEPT !.phase = phase]
        BY <1>1, <1>2 DEF Step, InPhase
    <2>. QED
        BY <1>1, <1>2, <2>1 DEF Refused, CallShape, Fields
<1>3. ASSUME Step(s, [calls[s] EXCEPT !.got = ReadOf(calls[s].name, calls[s].q), !.phase = "ok"])
      PROVE  FALSE
    <2>1. PICK got : calls'[s] = [calls[s] EXCEPT !.got = got, !.phase = "ok"]
        BY <1>1, <1>3 DEF Step
    <2>. QED
        BY <1>1, <2>1 DEF Refused, CallShape, Fields
<1>4. MyRole \notin Allowed(calls[s].name)
    BY <1>2, <1>3 DEF Guard
<1>. QED
    BY <1>1, <1>4 DEF Granted

\* A full admin whose role is the one the panel was drawn for never gets a 403 for
\* anything the panel offers (admin.controller.ts, page.tsx of the users).
THEOREM AdminsAreNotRefused == Spec => FullAdminIsNotRefused
<1>1. ASSUME IInv, [Next]_vars, NEW s \in 1..MaxCalls, Refused(s)
      PROVE  role \notin AdminLevel \/ role # MyRole
    <2>1. DOMAIN calls = 1..MaxCalls /\ calls[s] # NoCall /\ calls[s].phase = "sent"
        BY <1>1 DEF IInv, Calls, Refused, At
    <2>2. CASE calls'[s] \in {calls[s], NoCall, Abandoned[s]}
        BY <1>1, <2>2, NotRefused
    <2>3. CASE CloseFeatures
        <3>1. calls'[s] = calls[s] \/ calls'[s].phase = calls[s].phase
            BY <1>1, <2>3, CloseKeeps
        <3>. QED
            BY <1>1, <3>1, NotRefused
    <2>4. ASSUME NEW t \in 1..MaxCalls, Click(t) \/ GateAnswers(t) PROVE calls'[s] = calls[s]
        <3>1. calls' = calls \/ (Free(t) /\ \E call : calls' = [calls EXCEPT ![t] = call])
            <4>1. CASE GateAnswers(t)
                BY <4>1 DEF GateAnswers, Mounted, Stays
            <4>2. ASSUME NEW call, Send(t, call)
                  PROVE  Free(t) /\ \E next : calls' = [calls EXCEPT ![t] = next]
                BY <4>2 DEF Send
            <4>3. CASE Click(t)
                BY <4>2, <4>3
                DEF Click, RunSearch, TurnPage, ClickUser, ClickPlan, ClickFlag, OpenFeatures,
                    SetOverride, Ask
            <4>. QED
                BY <2>4, <4>1, <4>3
        <3>. QED
            BY <2>1, <3>1 DEF Free
    <2>5. ASSUME NEW t \in 1..MaxCalls, Change(t) \/ Log(t) \/ Return(t)
          PROVE  calls'[s] \in {calls[s], NoCall, Abandoned[s]}
        <3>1. ~At(t, "sent")
            BY <2>5 DEF Change, Log, Return, Receive, Forget, Answered, At
        <3>2. s # t
            BY <2>1, <3>1 DEF At
        <3>3. \/ calls' = [Abandoned EXCEPT ![t] = NoCall]
              \/ \E call : calls' = [calls EXCEPT ![t] = call]
            BY <2>5 DEF Change, Log, Return, Receive, Forget, Step
        <3>4. DOMAIN Abandoned = 1..MaxCalls
            BY DEF Abandoned
        <3>. QED
            BY <2>1, <3>2, <3>3, <3>4
    <2>6. ASSUME NEW t \in 1..MaxCalls, Fail(t) PROVE calls'[s] = calls[s]
        <3>1. calls' = [calls EXCEPT ![t] = [calls[t] EXCEPT !.phase = "failed"]]
            BY <2>6 DEF Fail, Step, InPhase
        <3>2. CallShape(calls[s])
            BY <1>1, <2>1 DEF IInv, Calls
        <3>3. s # t
            BY <1>1, <2>1, <3>1, <3>2 DEF Refused, CallShape, Fields
        <3>. QED
            BY <2>1, <3>1, <3>3
    <2>7. ASSUME NEW t \in 1..MaxCalls, Guard(t), s # t PROVE calls'[s] = calls[s]
        BY <2>1, <2>7 DEF Guard, Step
    <2>8. CASE (\E p \in Panel : Visit(p)) \/ (\E p \in {"login", "dashboard"} : Leave(p))
        BY <2>2, <2>8 DEF Visit, Leave
    <2>9. CASE UNCHANGED vars \/ Other \/ \E text \in DOMAIN Matches \cup ActionFilter : TypeText(text)
        BY <2>2, <2>9 DEF vars, Other, TypeText
    <2>. QED
        BY <1>1, <2>2, <2>3, <2>4, <2>5, <2>6, <2>7, <2>8, <2>9, RefusedNotOffered DEF Next, Serve
<1>2. IInv /\ [Next]_vars =>
          [\A s \in 1..MaxCalls :
             /\ At(s, "sent") /\ calls[s].for # "gone"
             /\ calls'[s] # NoCall /\ calls'[s].phase = "forbidden"
             => role \notin AdminLevel \/ role # MyRole]_vars
    BY <1>1 DEF Refused
<1>. QED
    BY <1>2, Invariance, PTL DEF Spec, FullAdminIsNotRefused
------------------------------------------------------------------------------
(* The audit trail *)

\* What the panel asks for names one action and fits the columns it changes.
OpShape(op) ==
    /\ op.name \in Clicked
    /\ op.name = "status" => op.set \in [status : {"active", "suspended"}]
    /\ op.name = "role" => op.set \in [role : RoleChoice]
    /\ op.name = "tier" => op.set \in [tier : TierChoice]

OpCall(call) == "op" \in DOMAIN call => call.name = call.op.name /\ OpShape(call.op)

\* A change between its two statements.
Halfway(call) == "op" \in DOMAIN call /\ call.phase = "half"

Recorded(name, on) == \E n \in DOMAIN audit : audit[n].action = name /\ audit[n].on = on

\* In the log, or done by a request that has its record still before it.
Known(name, on) ==
    \/ Recorded(name, on)
    \/ \E s \in 1..MaxCalls : /\ Halfway(calls[s]) /\ calls[s].op.name \notin LogFirst
                              /\ calls[s].op.name = name /\ calls[s].op.on = on

Keyed(s) ==
    /\ DOMAIN s = {"users", "overrides", "plans", "flags"}
    /\ s.users \in [UserId -> UserRow \cup {NoRow}]
    /\ DOMAIN s.overrides = UserId /\ DOMAIN s.plans = PlanKey /\ DOMAIN s.flags = FlagKey

\* The tables, the log and the requests are well formed.
Formed ==
    /\ Keyed(store)
    /\ audit \in Seq(Range(audit))
    /\ \A s \in 1..MaxCalls : OpCall(calls[s])

\* An erasure is recorded before it happens.
ErasureInv ==
    /\ \A u \in UserId :
          First.users[u] # NoRow /\ store.users[u] = NoRow => Recorded("erase", u)
    /\ \A s \in 1..MaxCalls :
          Halfway(calls[s]) /\ calls[s].op.name = "erase" => Recorded("erase", calls[s].op.on)

\* What differs from how it was is known.
ChangeInv ==
    /\ \A u \in UserId : store.users[u] # NoRow =>
          /\ store.users[u].status # First.users[u].status => Known("status", u)
          /\ store.users[u].role # First.users[u].role => Known("role", u)
          /\ store.users[u].tier # First.users[u].tier => Known("tier", u)
          /\ store.overrides[u] # First.overrides[u] => Known("override", u) \/ Known("clear", u)
    /\ \A k \in PlanKey : store.plans[k] # First.plans[k] => Known("plan", k)
    /\ \A k \in FlagKey : store.flags[k] # First.flags[k] => Known("flag", k)

TrailInv == Formed /\ ErasureInv /\ (halved \/ ChangeInv)
------------------------------------------------------------------------------
\* What next may differ in from the tables of now.
Touches(op, next) ==
    /\ \A u \in UserId :
          /\ next.users[u] = NoRow => store.users[u] = NoRow \/ (op.name = "erase" /\ op.on = u)
          /\ next.users[u] # NoRow =>
                /\ store.users[u] # NoRow
                /\ next.users[u].status # store.users[u].status => op.name = "status" /\ op.on = u
                /\ next.users[u].role # store.users[u].role => op.name = "role" /\ op.on = u
                /\ next.users[u].tier # store.users[u].tier => op.name = "tier" /\ op.on = u
                /\ next.overrides[u] # store.overrides[u] =>
                      op.name \in {"override", "clear"} /\ op.on = u
    /\ \A k \in PlanKey : next.plans[k] # store.plans[k] => op.name = "plan" /\ op.on = k
    /\ \A k \in FlagKey : next.flags[k] # store.flags[k] => op.name = "flag" /\ op.on = k

\* A statement changes what its request is about, and creates no user.
LEMMA AppliedFacts ==
    ASSUME Keyed(store), NEW op, OpShape(op), Possible(op), NEW next, next = Applied(op)
    PROVE  Keyed(next) /\ Touches(op, next)
<1>. USE DEF Keyed, Touches
<1>1. CASE op.name \in {"status", "role", "tier"}
    <2>1. Has(op.on) /\ store.users[op.on] \in UserRow
        BY <1>1 DEF Possible, Has
    <2>2. PICK row : row = Updated(store.users[op.on], op.set)
        OBVIOUS
    <2>3. /\ row \in UserRow
          /\ row.status # store.users[op.on].status => op.name = "status"
          /\ row.role # store.users[op.on].role => op.name = "role"
          /\ row.tier # store.users[op.on].tier => op.name = "tier"
        BY <1>1, <2>1, <2>2, AdminAssumption DEF Updated, OpShape, UserRow
    <2>4. next = [store EXCEPT !.users[op.on] = row]
        BY <1>1, <2>2 DEF Applied
    <2>5. op.on \in UserId /\ row # NoRow /\ store.users[op.on] # NoRow
        BY <2>1, <2>3, AdminAssumption DEF Has
    <2>. QED
        BY <2>3, <2>4, <2>5
<1>2. CASE op.name \in {"override", "clear"}
    <2>1. PICK row : next = [store EXCEPT !.overrides[op.on] = row]
        BY <1>2 DEF Applied
    <2>. QED
        BY <1>2, <2>1
<1>3. CASE op.name = "erase"
    <2>1. PICK row : next = [store EXCEPT !.users[op.on] = NoRow, !.overrides[op.on] = row]
        BY <1>3 DEF Applied
    <2>2. /\ DOMAIN next = DOMAIN store /\ next.plans = store.plans /\ next.flags = store.flags
          /\ next.users = [store.users EXCEPT ![op.on] = NoRow]
          /\ next.overrides = [store.overrides EXCEPT ![op.on] = row]
        BY <2>1
    <2>3. op.on \in UserId
        BY <1>3 DEF Possible, Has
    <2>. HIDE DEF Keyed
    <2>4. Keyed(next)
        BY <2>2, <2>3 DEF Keyed
    <2>5. \A u \in UserId : u # op.on => next.users[u] = store.users[u]
                                     /\ next.overrides[u] = store.overrides[u]
        BY <2>2, <2>3 DEF Keyed
    <2>6. next.users[op.on] = NoRow
        BY <2>2, <2>3 DEF Keyed
    <2>. QED
        BY <1>3, <2>2, <2>4, <2>5, <2>6
<1>4. CASE op.name = "export"
    BY <1>4 DEF Applied
<1>5. CASE op.name = "plan"
    <2>1. PICK row : next = [store EXCEPT !.plans[op.on] = row]
        BY <1>5 DEF Applied
    <2>. QED
        BY <1>5, <2>1
<1>6. CASE op.name = "flag"
    <2>1. PICK row : next = [store EXCEPT !.flags[op.on] = row]
        BY <1>6 DEF Applied
    <2>. QED
        BY <1>6, <2>1
<1>. QED
    BY <1>1, <1>2, <1>3, <1>4, <1>5, <1>6 DEF OpShape, Clicked

\* The log only grows, by what it is told.
LEMMA RecordFacts ==
    ASSUME audit \in Seq(Range(audit)), NEW op, audit' = Record(op)
    PROVE  /\ audit' \in Seq(Range(audit'))
           /\ Recorded(op.name, op.on)'
           /\ \A name, on : Recorded(name, on) => Recorded(name, on)'
<1>1. PICK e : e.action = op.name /\ e.on = op.on /\ audit' = Append(audit, e)
    BY DEF Record
<1>2. Len(audit) \in Nat /\ DOMAIN audit = 1..Len(audit)
    OBVIOUS
<1>3. audit \in Seq(Range(audit) \cup {e})
    OBVIOUS
<1>4. /\ Len(audit') = Len(audit) + 1 /\ DOMAIN audit' = 1..(Len(audit) + 1)
      /\ audit' \in Seq(Range(audit) \cup {e})
      /\ audit'[Len(audit) + 1] = e /\ \A n \in 1..Len(audit) : audit'[n] = audit[n]
    BY <1>1, <1>2, <1>3
<1>5. audit' \in Seq(Range(audit'))
    <2>1. \A n \in 1..Len(audit') : audit'[n] \in Range(audit')
        BY <1>4 DEF Range
    <2>. QED
        BY <1>4, <2>1
<1>. QED
    BY <1>1, <1>2, <1>4, <1>5 DEF Recorded

\* What the tables were at first does not change.
LEMMA FirstStays == ASSUME UNCHANGED began PROVE First' = First
BY DEF First

\* Tables, log and changes half done as they were.
LEMMA QuietStep ==
    ASSUME TrailInv, UNCHANGED <<store, audit, halved, began>>,
           \A s \in 1..MaxCalls :
              /\ OpCall(calls'[s]) /\ (Halfway(calls'[s]) <=> Halfway(calls[s]))
              /\ Halfway(calls[s]) => calls'[s].op = calls[s].op
    PROVE  TrailInv'
<1>1. \A name, on : /\ Recorded(name, on)' <=> Recorded(name, on)
                    /\ Known(name, on)' <=> Known(name, on)
    BY DEF Recorded, Known
<1>2. Formed'
    BY DEF TrailInv, Formed, Keyed
<1>3. ErasureInv'
    BY <1>1, FirstStays DEF TrailInv, ErasureInv
<1>4. ChangeInv => ChangeInv'
    BY <1>1, FirstStays DEF ChangeInv
<1>. QED
    BY <1>2, <1>3, <1>4 DEF TrailInv

\* A slot whose call was and is no change half done.
LEMMA SlotStep ==
    ASSUME IInv, TrailInv, UNCHANGED <<store, audit, halved, began>>, NEW s \in 1..MaxCalls, NEW call,
           calls' = [calls EXCEPT ![s] = call], OpCall(call), ~Halfway(call), ~Halfway(calls[s])
    PROVE  TrailInv'
<1>1. calls'[s] = call /\ \A t \in 1..MaxCalls : t # s => calls'[t] = calls[t]
    BY DEF IInv, Calls
<1>. QED
    BY <1>1, QuietStep DEF TrailInv, Formed

\* A request that changes hands is as far as it was.
LEMMA ForHalves ==
    ASSUME TrailInv, NEW s \in 1..MaxCalls, NEW for, NEW call, call = [calls[s] EXCEPT !.for = for]
    PROVE  /\ OpCall(call) /\ (Halfway(call) <=> Halfway(calls[s]))
           /\ Halfway(calls[s]) => call.op = calls[s].op
<1>1. DOMAIN call = DOMAIN calls[s]
    OBVIOUS
<1>2. /\ "op" \in DOMAIN call => call.op = calls[s].op
      /\ "op" \in DOMAIN call => call.name = calls[s].name
      /\ call.phase = calls[s].phase
    BY <1>1
<1>. QED
    BY <1>1, <1>2 DEF TrailInv, Formed, OpCall, Halfway

\* Leaving a page undoes nothing the API is at.
LEMMA AbandonHalves ==
    ASSUME TrailInv, NEW s \in 1..MaxCalls
    PROVE  /\ OpCall(Abandoned[s]) /\ (Halfway(Abandoned[s]) <=> Halfway(calls[s]))
           /\ Halfway(calls[s]) => Abandoned[s].op = calls[s].op
<1>1. Abandoned[s] = [calls[s] EXCEPT !.for = "gone"]
      \/ (Abandoned[s] = NoCall /\ "op" \notin DOMAIN calls[s])
    BY DEF Abandoned
<1>2. OpCall(NoCall) /\ ~Halfway(NoCall)
    BY DEF NoCall, OpCall, Halfway
<1>. QED
    BY <1>1, <1>2, ForHalves DEF Halfway

\* Every click sends a request that is new and well formed.
LEMMA ClickSends ==
    ASSUME NEW s \in 1..MaxCalls, Click(s)
    PROVE  \E call : /\ Free(s) /\ calls' = [calls EXCEPT ![s] = call]
                     /\ OpCall(call) /\ call.phase = "sent"
<1>. DEFINE Sends == \E call : /\ Free(s) /\ calls' = [calls EXCEPT ![s] = call]
                               /\ OpCall(call) /\ call.phase = "sent"
<1>1. ASSUME NEW name, NEW q, NEW for, Send(s, Load(name, q, for)) PROVE Sends
    <2>1. PICK call : call = Load(name, q, for)
        OBVIOUS
    <2>2. OpCall(call) /\ call.phase = "sent"
        BY <2>1 DEF Load, OpCall
    <2>. QED
        BY <1>1, <2>1, <2>2 DEF Send
<1>2. ASSUME NEW op, OpShape(op), NEW then, NEW for, Ask(s, op, then, for) PROVE Sends
    <2>1. PICK call : call = Save(op, then, for)
        OBVIOUS
    <2>2. OpCall(call) /\ call.phase = "sent"
        BY <1>2, <2>1 DEF Save, OpCall
    <2>. QED
        BY <1>2, <2>1, <2>2 DEF Ask, Send
<1>3. CASE RunSearch(s) \/ TurnPage(s) \/ OpenFeatures(s)
    BY <1>1, <1>3 DEF RunSearch, TurnPage, OpenFeatures, OverridesOf
<1>4. CASE ClickUser(s)
    <2>1. ASSUME NEW id, NEW u, NEW op \in RowOps(id, u) PROVE OpShape(op)
        BY <2>1 DEF RowOps, OpShape, Clicked, Op
    <2>2. \A id : OpShape(Op("export", id, <<>>))
        BY DEF OpShape, Clicked, Op
    <2>. QED
        BY <1>2, <1>4, <2>1, <2>2 DEF ClickUser
<1>5. CASE ClickPlan(s)
    <2>1. ASSUME NEW k, NEW p, NEW op \in PlanOps(k, p) PROVE OpShape(op)
        BY <2>1 DEF PlanOps, OpShape, Clicked, Op
    <2>. QED
        BY <1>2, <1>5, <2>1 DEF ClickPlan
<1>6. CASE ClickFlag(s)
    <2>1. ASSUME NEW k, NEW f, NEW op \in FlagOps(k, f) PROVE OpShape(op)
        BY <2>1 DEF FlagOps, OpShape, Clicked, Op
    <2>. QED
        BY <1>2, <1>6, <2>1 DEF ClickFlag
<1>7. CASE SetOverride(s)
    <2>1. PICK f \in Feature, next \in {"default", "granted", "revoked"} :
              Ask(s, Op(IF next = "default" THEN "clear" ELSE "override", modal.user,
                        [x \in {f} |-> next]), OverridesOf(modal.user), "modal")
        BY <1>7 DEF SetOverride
    <2>2. OpShape(Op(IF next = "default" THEN "clear" ELSE "override", modal.user,
                     [x \in {f} |-> next]))
        BY DEF OpShape, Clicked, Op
    <2>. QED
        BY <1>2, <2>1, <2>2
<1>. QED
    BY <1>3, <1>4, <1>5, <1>6, <1>7 DEF Click

\* A request that moves on, or fails, asks for what it asked for.
LEMMA PhaseOfOp ==
    ASSUME IInv, TrailInv, NEW s \in 1..MaxCalls, calls[s] # NoCall, NEW phase,
           Step(s, InPhase(s, phase))
    PROVE  /\ \A t \in 1..MaxCalls : t # s => calls'[t] = calls[t]
           /\ OpCall(calls'[s]) /\ calls'[s].phase = phase
           /\ DOMAIN calls'[s] = DOMAIN calls[s]
           /\ Changes(s) => calls'[s].op = calls[s].op
<1>1. CallShape(calls[s]) /\ DOMAIN calls = 1..MaxCalls /\ OpCall(calls[s])
    BY DEF IInv, Calls, TrailInv, Formed
<1>2. PICK call : call = [calls[s] EXCEPT !.phase = phase]
    OBVIOUS
<1>3. calls'[s] = call /\ \A t \in 1..MaxCalls : t # s => calls'[t] = calls[t]
    BY <1>1, <1>2 DEF Step, InPhase
<1>4. DOMAIN call = DOMAIN calls[s] /\ call.phase = phase /\ call.name = calls[s].name
    BY <1>1, <1>2 DEF CallShape, Fields
<1>5. "op" \in DOMAIN call => call.op = calls[s].op
    BY <1>2, <1>4
<1>. QED
    BY <1>1, <1>3, <1>4, <1>5 DEF OpCall, Changes

\* The guard lets a request in, answers it, or turns it away.
LEMMA GuardTrail == ASSUME IInv, TrailInv, NEW s \in 1..MaxCalls, Guard(s) PROVE TrailInv'
<1>1. calls[s] # NoCall /\ calls[s].phase = "sent" /\ UNCHANGED <<store, audit, halved, began>>
    BY DEF Guard, At
<1>2. ~Halfway(calls[s]) /\ DOMAIN calls = 1..MaxCalls
    BY <1>1 DEF Halfway, IInv, Calls
<1>3. ASSUME NEW phase, phase # "half", Step(s, InPhase(s, phase)) PROVE TrailInv'
    <2>1. OpCall(calls'[s]) /\ ~Halfway(calls'[s])
        BY <1>1, <1>3, PhaseOfOp DEF Halfway
    <2>2. calls' = [calls EXCEPT ![s] = InPhase(s, phase)] /\ calls'[s] = InPhase(s, phase)
        BY <1>2, <1>3 DEF Step
    <2>. QED
        BY <1>1, <1>2, <2>1, <2>2, SlotStep
<1>4. ASSUME ~Changes(s),
             Step(s, [calls[s] EXCEPT !.got = ReadOf(calls[s].name, calls[s].q), !.phase = "ok"])
      PROVE  TrailInv'
    <2>1. PICK got, call : call = [calls[s] EXCEPT !.got = got, !.phase = "ok"] /\ Step(s, call)
        BY <1>4
    <2>2. DOMAIN call = DOMAIN calls[s]
        BY <2>1
    <2>3. OpCall(call) /\ ~Halfway(call)
        BY <1>4, <2>2 DEF Changes, OpCall, Halfway
    <2>. QED
        BY <1>1, <1>2, <2>1, <2>3, SlotStep DEF Step
<1>. QED
    BY <1>3, <1>4 DEF Guard

\* The change: known from the log or from the request that records it next.
LEMMA ChangeTrail == ASSUME IInv, TrailInv, NEW s \in 1..MaxCalls, Change(s) PROVE TrailInv'
<1>. DEFINE last == calls[s].name \in LogFirst
<1>1. PICK op : op = calls[s].op
    OBVIOUS
<1>2. /\ calls[s] # NoCall /\ "op" \in DOMAIN calls[s] /\ UNCHANGED <<audit, halved, began>>
      /\ calls[s].phase = IF last THEN "half" ELSE "in"
      /\ calls[s].name = op.name /\ OpShape(op)
    BY <1>1 DEF Change, Changes, At, TrailInv, Formed, OpCall
<1>3. PICK phase : Step(s, InPhase(s, phase)) /\ phase \in {"half", "ok", "failed"}
                   /\ (phase = "half" => ~last) /\ (Possible(op) => phase = IF last THEN "ok" ELSE "half")
                   /\ (~Possible(op) => phase = "failed")
    BY <1>1 DEF Change
<1>4. /\ \A t \in 1..MaxCalls : t # s => calls'[t] = calls[t]
      /\ OpCall(calls'[s]) /\ calls'[s].phase = phase
      /\ "op" \in DOMAIN calls'[s] /\ calls'[s].op = op
    BY <1>1, <1>2, <1>3, PhaseOfOp DEF Changes
<1>5. \A name, on : Recorded(name, on)' <=> Recorded(name, on)
    BY <1>2 DEF Recorded
<1>6. \A name, on : Known(name, on) => Known(name, on)'
    BY <1>1, <1>2, <1>4, <1>5 DEF Known, Halfway
<1>7. \A t \in 1..MaxCalls : Halfway(calls'[t]) /\ calls'[t].op.name = "erase" =>
          Halfway(calls[t]) /\ calls'[t].op = calls[t].op
    BY <1>1, <1>2, <1>3, <1>4 DEF Halfway, LogFirst
<1>8. CASE ~Possible(op)
    <2>1. store' = store
        BY <1>1, <1>8 DEF Change
    <2>. QED
        BY <1>2, <1>4, <1>5, <1>6, <1>7, <2>1
        DEF TrailInv, Formed, ErasureInv, ChangeInv, Keyed, First
<1>9. CASE Possible(op)
    <2>1. store' = Applied(op) /\ Keyed(store)
        BY <1>1, <1>9 DEF Change, TrailInv, Formed
    <2>2. PICK next : next = store'
        OBVIOUS
    <2>3. Keyed(next) /\ Touches(op, next)
        BY <1>2, <1>9, <2>1, <2>2, AppliedFacts
    <2>4. op.name # "erase" => Known(op.name, op.on)'
        BY <1>2, <1>3, <1>4, <1>9 DEF Known, Halfway, LogFirst
    <2>5. op.name = "erase" => Recorded("erase", op.on)
        BY <1>1, <1>2 DEF LogFirst, TrailInv, ErasureInv, Halfway
    <2>6. Formed'
        BY <1>2, <1>4, <2>2, <2>3 DEF TrailInv, Formed
    <2>7. ErasureInv'
        BY <1>2, <1>5, <1>7, <2>2, <2>3, <2>5, FirstStays DEF TrailInv, ErasureInv, Touches
    <2>8. ChangeInv => ChangeInv'
        BY <1>2, <1>6, <2>2, <2>3, <2>4, FirstStays DEF ChangeInv, Touches
    <2>. QED
        BY <1>2, <2>6, <2>7, <2>8 DEF TrailInv
<1>. QED
    BY <1>8, <1>9

\* The record: of a change done, or of an erasure to come.
LEMMA LogTrail == ASSUME IInv, TrailInv, NEW s \in 1..MaxCalls, Log(s) PROVE TrailInv'
<1>1. PICK op : op = calls[s].op
    OBVIOUS
<1>2. /\ calls[s] # NoCall /\ "op" \in DOMAIN calls[s] /\ UNCHANGED <<store, halved, began>>
      /\ audit' = Record(op) /\ audit \in Seq(Range(audit))
    BY <1>1 DEF Log, Changes, At, TrailInv, Formed
<1>3. \E phase : Step(s, InPhase(s, phase))
    BY DEF Log
<1>4. /\ \A t \in 1..MaxCalls : t # s => calls'[t] = calls[t]
      /\ OpCall(calls'[s]) /\ calls'[s].op = op
    BY <1>1, <1>2, <1>3, PhaseOfOp DEF Changes
<1>5. /\ audit' \in Seq(Range(audit')) /\ Recorded(op.name, op.on)'
      /\ \A name, on : Recorded(name, on) => Recorded(name, on)'
    BY <1>2, RecordFacts
<1>6. \A name, on : Known(name, on) => Known(name, on)'
    BY <1>1, <1>4, <1>5 DEF Known
<1>7. Formed'
    BY <1>2, <1>4, <1>5 DEF TrailInv, Formed, Keyed
<1>8. ErasureInv'
    BY <1>1, <1>2, <1>4, <1>5, FirstStays DEF TrailInv, ErasureInv
<1>9. ChangeInv => ChangeInv'
    BY <1>2, <1>6, FirstStays DEF ChangeInv
<1>. QED
    BY <1>2, <1>7, <1>8, <1>9 DEF TrailInv

\* A failure loses a record only between the two statements.
LEMMA FailTrail == ASSUME IInv, TrailInv, NEW s \in 1..MaxCalls, Fail(s) PROVE TrailInv'
<1>1. /\ calls[s] # NoCall /\ UNCHANGED <<store, audit, began>>
      /\ halved' = (halved \/ calls[s].phase = "half") /\ Step(s, InPhase(s, "failed"))
    BY DEF Fail, At
<1>2. /\ \A t \in 1..MaxCalls : t # s => calls'[t] = calls[t]
      /\ OpCall(calls'[s]) /\ ~Halfway(calls'[s])
    BY <1>1, PhaseOfOp DEF Halfway
<1>3. \A name, on : Recorded(name, on)' <=> Recorded(name, on)
    BY <1>1 DEF Recorded
<1>4. ~halved' => \A name, on : Known(name, on) => Known(name, on)'
    BY <1>1, <1>2, <1>3 DEF Known, Halfway
<1>5. Formed'
    BY <1>1, <1>2 DEF TrailInv, Formed, Keyed
<1>6. ErasureInv'
    BY <1>1, <1>2, <1>3, FirstStays DEF TrailInv, ErasureInv
<1>7. ~halved' => ~halved /\ (ChangeInv => ChangeInv')
    BY <1>1, <1>4, FirstStays DEF ChangeInv
<1>. QED
    BY <1>5, <1>6, <1>7 DEF TrailInv

\* Another admin's change and its record come together.
LEMMA OtherTrail == ASSUME IInv, TrailInv, Other PROVE TrailInv'
<1>1. PICK op : /\ OpShape(op) /\ Possible(op)
                /\ store' = Applied(op) /\ audit' = Record(op)
    <2>1. ASSUME NEW u \in UserId, Has(u), NEW op \in RowOps(u, store.users[u])
          PROVE  OpShape(op) /\ Possible(op)
        BY <2>1 DEF RowOps, OpShape, Clicked, Op, Possible
    <2>2. ASSUME NEW k, NEW p, NEW op \in PlanOps(k, p) PROVE OpShape(op) /\ Possible(op)
        BY <2>2 DEF PlanOps, OpShape, Clicked, Op, Possible
    <2>3. ASSUME NEW k, NEW f, NEW op \in FlagOps(k, f) PROVE OpShape(op) /\ Possible(op)
        BY <2>3 DEF FlagOps, OpShape, Clicked, Op, Possible
    <2>4. PICK op : /\ store' = Applied(op) /\ audit' = Record(op)
                    /\ \/ \E u \in UserId : Has(u) /\ op \in RowOps(u, store.users[u])
                       \/ \E k \in PlanKey : op \in PlanOps(k, store.plans[k])
                       \/ \E k \in FlagKey : op \in FlagOps(k, store.flags[k])
        BY DEF Other
    <2>. QED
        BY <2>1, <2>2, <2>3, <2>4
<1>2. UNCHANGED <<calls, halved, began>> /\ Keyed(store) /\ audit \in Seq(Range(audit))
    BY DEF Other, TrailInv, Formed
<1>3. PICK next : next = store'
    OBVIOUS
<1>4. Keyed(next) /\ Touches(op, next)
    BY <1>1, <1>2, <1>3, AppliedFacts
<1>5. /\ audit' \in Seq(Range(audit')) /\ Recorded(op.name, op.on)'
      /\ \A name, on : Recorded(name, on) => Recorded(name, on)'
    BY <1>1, <1>2, RecordFacts
<1>6. /\ Known(op.name, op.on)'
      /\ \A name, on : Known(name, on) => Known(name, on)'
    BY <1>2, <1>5 DEF Known
<1>7. Formed'
    BY <1>2, <1>3, <1>4, <1>5 DEF TrailInv, Formed
<1>8. ErasureInv'
    BY <1>2, <1>3, <1>4, <1>5, FirstStays DEF TrailInv, ErasureInv, Touches
<1>9. ChangeInv => ChangeInv'
    BY <1>2, <1>3, <1>4, <1>6, FirstStays DEF ChangeInv, Touches
<1>. QED
    BY <1>2, <1>7, <1>8, <1>9 DEF TrailInv

\* An answer is taken: no change is between its statements any more.
LEMMA ReturnTrail == ASSUME IInv, TrailInv, NEW s \in 1..MaxCalls, Return(s) PROVE TrailInv'
<1>1. /\ calls[s] # NoCall /\ ~Halfway(calls[s]) /\ UNCHANGED <<store, audit, halved, began>>
      /\ CallShape(calls[s]) /\ DOMAIN calls = 1..MaxCalls
    BY DEF Return, Receive, Forget, Answered, At, Browser, Halfway, IInv, Calls
<1>2. OpCall(NoCall) /\ ~Halfway(NoCall)
    BY DEF NoCall, OpCall, Halfway
<1>3. OpCall(After(s)) /\ ~Halfway(After(s))
    <2>1. After(s) = NoCall \/ LoadShape(After(s))
        BY <1>1, AfterShape
    <2>. QED
        BY <1>2, <2>1 DEF LoadShape, OpCall, Halfway
<1>4. CASE calls' = [calls EXCEPT ![s] = NoCall] \/ calls' = [calls EXCEPT ![s] = After(s)]
    BY <1>1, <1>2, <1>3, <1>4, SlotStep
<1>5. CASE calls' = [Abandoned EXCEPT ![s] = NoCall]
    <2>1. DOMAIN Abandoned = 1..MaxCalls
        BY DEF Abandoned
    <2>2. /\ calls'[s] = NoCall
          /\ \A t \in 1..MaxCalls : t # s => calls'[t] = Abandoned[t]
        BY <1>5, <2>1
    <2>. QED
        BY <1>1, <1>2, <2>2, AbandonHalves, QuietStep
<1>. QED
    BY <1>4, <1>5 DEF Return, Receive, Forget, Step

\* Leaving pages and the dialog, being let in, clicking and typing.
LEMMA BrowserTrail ==
    ASSUME IInv, TrailInv,
           \/ \E p \in Panel : Visit(p)
           \/ \E p \in {"login", "dashboard"} : Leave(p)
           \/ \E s \in 1..MaxCalls : GateAnswers(s) \/ Click(s)
           \/ \E text \in DOMAIN Matches \cup ActionFilter : TypeText(text)
           \/ CloseFeatures
    PROVE  TrailInv'
<1>1. ASSUME UNCHANGED <<store, audit, halved, began>>, calls' = Abandoned PROVE TrailInv'
    BY <1>1, AbandonHalves, QuietStep
<1>2. ASSUME UNCHANGED <<store, audit, halved, began, calls>> PROVE TrailInv'
    BY <1>2, QuietStep DEF TrailInv, Formed
<1>3. ASSUME UNCHANGED <<store, audit, halved, began>>, NEW s \in 1..MaxCalls, Free(s), NEW call,
             calls' = [calls EXCEPT ![s] = call], OpCall(call), call.phase = "sent"
      PROVE  TrailInv'
    <2>1. ~Halfway(calls[s]) /\ ~Halfway(call)
        BY <1>3 DEF Free, Halfway, NoCall
    <2>. QED
        BY <1>3, <2>1, SlotStep
<1>4. ASSUME NEW s \in 1..MaxCalls, GateAnswers(s) PROVE TrailInv'
    <2>1. CASE Mounted(s, MyRole)
        <3>1. PICK call : call = Load(goal, [skip |-> 0, text |-> ""], "page")
            OBVIOUS
        <3>2. OpCall(call) /\ call.phase = "sent"
            BY <3>1 DEF Load, OpCall
        <3>. QED
            BY <1>3, <2>1, <3>1, <3>2 DEF Mounted
    <2>. QED
        BY <1>2, <1>4, <2>1 DEF GateAnswers, Stays
<1>5. ASSUME NEW s \in 1..MaxCalls, Click(s) PROVE TrailInv'
    <2>1. UNCHANGED <<store, audit, halved, began>>
        BY <1>5 DEF Click, RunSearch, TurnPage, ClickUser, ClickPlan, ClickFlag, OpenFeatures,
                    SetOverride, Ask
    <2>. QED
        BY <1>3, <1>5, <2>1, ClickSends
<1>6. ASSUME (\E p \in Panel : Visit(p)) \/ (\E p \in {"login", "dashboard"} : Leave(p))
      PROVE  TrailInv'
    BY <1>1, <1>6 DEF Visit, Leave
<1>7. CASE CloseFeatures
    <2>1. UNCHANGED <<store, audit, halved, began>>
        BY <1>7 DEF CloseFeatures
    <2>2. \A s \in 1..MaxCalls :
              calls'[s] = calls[s] \/ calls'[s] = [calls[s] EXCEPT !.for = "closed"]
        BY <1>7 DEF CloseFeatures
    <2>. QED
        <3>1. ASSUME NEW s \in 1..MaxCalls
              PROVE  /\ OpCall(calls'[s]) /\ (Halfway(calls'[s]) <=> Halfway(calls[s]))
                     /\ Halfway(calls[s]) => calls'[s].op = calls[s].op
            <4>1. PICK next : next = [calls[s] EXCEPT !.for = "closed"]
                OBVIOUS
            <4>2. calls'[s] = calls[s] \/ calls'[s] = next
                BY <2>2, <4>1
            <4>3. /\ OpCall(next) /\ (Halfway(next) <=> Halfway(calls[s]))
                  /\ Halfway(calls[s]) => next.op = calls[s].op
                BY <4>1, ForHalves
            <4>. QED
                BY <4>2, <4>3 DEF TrailInv, Formed
        <3>. QED
            BY <2>1, <3>1, QuietStep
<1>. QED
    BY <1>2, <1>4, <1>5, <1>6, <1>7 DEF TypeText

\* Nothing has changed in the beginning but one's own role.
LEMMA InitTrail == Init => TrailInv
<1>. SUFFICES ASSUME Init PROVE TrailInv
    OBVIOUS
<1>1. began \in Role /\ store = First
    BY DEF Init, Role
<1>2. Start \in Tables /\ Start.users[Me] \in UserRow /\ Me \in UserId
    BY AdminAssumption
<1>3. PICK row : row = [Start.users[Me] EXCEPT !.role = began]
    OBVIOUS
<1>4. row \in UserRow
    BY <1>1, <1>2, <1>3 DEF UserRow
<1>5. /\ DOMAIN First = DOMAIN Start /\ First.overrides = Start.overrides
      /\ First.plans = Start.plans /\ First.flags = Start.flags
      /\ First.users = [Start.users EXCEPT ![Me] = row]
    BY <1>2, <1>3 DEF First, Tables
<1>6. Keyed(store)
    BY <1>1, <1>2, <1>4, <1>5 DEF Keyed, Tables
<1>7. \A s \in 1..MaxCalls : OpCall(calls[s]) /\ ~Halfway(calls[s])
    BY DEF Init, NoCall, OpCall, Halfway
<1>8. audit \in Seq(Range(audit))
    BY DEF Init
<1>9. ErasureInv /\ ChangeInv
    BY <1>1, <1>7 DEF ErasureInv, ChangeInv
<1>. QED
    BY <1>6, <1>7, <1>8, <1>9 DEF TrailInv, Formed

\* The log is kept whatever is clicked, answered, lost, or done by others.
LEMMA TrailInvariance == Spec => []TrailInv
<1>1. IInv /\ TrailInv /\ [Next]_vars => TrailInv'
    <2>. SUFFICES ASSUME IInv, TrailInv, [Next]_vars PROVE TrailInv'
        OBVIOUS
    <2>1. CASE UNCHANGED vars
        BY <2>1, QuietStep DEF vars, TrailInv, Formed
    <2>. QED
        BY <2>1, BrowserTrail, GuardTrail, ChangeTrail, LogTrail, FailTrail, ReturnTrail, OtherTrail
        DEF Next, Serve
<1>. QED
    BY <1>1, InitTrail, Invariance, PTL DEF Spec

\* The audit log names every user who is gone, and whatever differs from how it was
\* as long as no request failed between its two statements (admin.service.ts: every
\* change is followed by its record, except an erasure, which is recorded first).
THEOREM AuditNamesChanges == Spec => []TrailIsComplete
<1>1. TrailInv => TrailIsComplete
    <2>. SUFFICES ASSUME TrailInv PROVE TrailIsComplete
        OBVIOUS
    <2>1. \A name, on : Recorded(name, on) =>
              \E n \in DOMAIN audit : audit[n].action \in {name} /\ audit[n].on = on
        BY DEF Recorded
    <2>2. ASSUME \A s \in 1..MaxCalls : ~At(s, "half")
          PROVE  \A name, on : Known(name, on) => Recorded(name, on)
        BY <2>2 DEF Known, Halfway, At, NoCall
    <2>3. \A u \in UserId : Has(u) <=> store.users[u] # NoRow
        BY DEF Has
    <2>4. ASSUME NEW u \in UserId, ~Has(u), First.users[u] # NoRow
          PROVE  Recorded("erase", u)
        BY <2>3, <2>4 DEF TrailInv, ErasureInv
    <2>5. ASSUME ~halved, \A s \in 1..MaxCalls : ~At(s, "half")
          PROVE  /\ \A u \in UserId : Has(u) =>
                       /\ store.users[u].status # First.users[u].status => Recorded("status", u)
                       /\ store.users[u].role # First.users[u].role => Recorded("role", u)
                       /\ store.users[u].tier # First.users[u].tier => Recorded("tier", u)
                       /\ store.overrides[u] # First.overrides[u] =>
                             Recorded("override", u) \/ Recorded("clear", u)
                 /\ \A k \in PlanKey : store.plans[k] # First.plans[k] => Recorded("plan", k)
                 /\ \A k \in FlagKey : store.flags[k] # First.flags[k] => Recorded("flag", k)
        BY <2>2, <2>3, <2>5 DEF TrailInv, ChangeInv
    <2>. QED
        BY <2>4, <2>5 DEF TrailIsComplete, Recorded
<1>. QED
    BY <1>1, TrailInvariance, PTL
------------------------------------------------------------------------------
(* Quiet pages *)

Texts(name) == IF name = "users" THEN DOMAIN Matches ELSE ActionFilter

\* A request that the page or the dialog that is open waits for.
Awaited(call) == call # NoCall /\ call.for \in Open

\* A load of the page that is open, or of the dialog.
PageLoad(call) ==
    /\ LoadShape(call) /\ {"q", "got"} \subseteq DOMAIN call /\ call.for = "page" /\ call.name = page
    /\ call.q.skip \in Nat
    /\ ListPage => call.q.text \in Texts(page)

DialogLoad(call) ==
    /\ LoadShape(call) /\ {"q", "got"} \subseteq DOMAIN call /\ call.for = "modal" /\ call.name = "overrides"
    /\ call.q = modal.user

\* A change after which no load is needed.
NoFollow(call) == "op" \in DOMAIN call /\ call.then = NoCall

\* What a live call brings or will bring is for the page or dialog that is open; only
\* an export is not followed by a load.
LiveLoad(call) ==
    /\ call.phase = "ok" => DOMAIN call.got \subseteq {"rows", "total"}
    /\ call.for = "page" => PageLoad(call)
    /\ call.for = "modal" => modal # NoDialog /\ DialogLoad(call)

LiveChange(call) ==
    /\ call.for = "page" =>
          IF call.then = NoCall THEN call.op.name = "export" /\ page = "users"
          ELSE PageLoad(call.then) /\ call.then.phase = "sent"
    /\ call.for = "modal" =>
          /\ modal # NoDialog /\ call.op.name \in {"override", "clear"}
          /\ call.then # NoCall /\ DialogLoad(call.then) /\ call.then.phase = "sent"

LiveShape(call) ==
    /\ "op" \notin DOMAIN call => LiveLoad(call)
    /\ "op" \in DOMAIN call => LiveChange(call)

\* What was read is still what is stored.
Exact(call) ==
    "op" \notin DOMAIN call /\ call.phase = "ok" => call.got = ReadOf(call.name, call.q)

\* The page, or the dialog, is about to be loaded.
PageComes ==
    \E s \in 1..MaxCalls : Awaited(calls[s]) /\ calls[s].for = "page" /\ ~NoFollow(calls[s])
DialogComes ==
    \E s \in 1..MaxCalls : Awaited(calls[s]) /\ calls[s].for = "modal"

\* The parts of QuietPageIsTrue.
ListTrue ==
    /\ \E text \in Texts(page) :
          /\ view.rows = PageOf(page, [skip |-> view.skip, text |-> text])
          /\ view.total = Len(Listing(page, text))
    /\ view.rows = <<>> /\ view.total > 0 => CanPrev
PageTrue ==
    view.fresh =>
        /\ ListPage => ListTrue
        /\ page = "plans" => view.rows = store.plans
        /\ page = "flags" => view.rows = store.flags
DialogTrue ==
    modal # NoDialog /\ ~modal.loading => modal.overrides = store.overrides[modal.user]

\* The page and the dialog are well formed.
PageShape ==
    /\ DOMAIN view = {"rows", "total", "skip", "box", "fresh"}
    /\ view.skip \in Nat
    /\ ListPage => view.box \in Texts(page)
    /\ page = "checking" => view = Blank
    /\ modal # NoDialog => page = "users" /\ DOMAIN modal = {"user", "loading", "overrides"}

\* One thing at a time: nothing but the call that is live can make them untrue.
Calm ==
    /\ \A s, t \in 1..MaxCalls : Awaited(calls[s]) /\ Awaited(calls[t]) => s = t
    /\ \A s \in 1..MaxCalls : Awaited(calls[s]) => Exact(calls[s])
    /\ \A s \in 1..MaxCalls : Awaited(calls[s]) /\ calls[s].for = "page" => modal = NoDialog
    /\ PageComes \/ PageTrue
    /\ DialogComes \/ DialogTrue

QuietInv ==
    /\ PageShape
    /\ \A s \in 1..MaxCalls : Awaited(calls[s]) => LiveShape(calls[s])
    /\ page \in Panel /\ ~mixed => Calm
------------------------------------------------------------------------------
\* Rows picked at places of a sequence are a sequence of as many.
LEMMA RowsAtType ==
    ASSUME NEW S, NEW rows \in Seq(S), NEW places, places \subseteq DOMAIN rows
    PROVE  /\ RowsAt(rows, places) \in Seq(S)
           /\ Len(RowsAt(rows, places)) \in Nat
<1>1. Len(rows) \in Nat /\ DOMAIN rows = 1..Len(rows)
    OBVIOUS
<1>2. IsFiniteSet(places) /\ places \subseteq Int
    <2>1. IsFiniteSet(1..Len(rows))
        BY <1>1, FS_Interval
    <2>. QED
        BY <1>1, <2>1, FS_Subset
<1>3. PICK c \in Nat : c = Cardinality(places)
    BY <1>2, NthExact
<1>4. \A n \in 1..c : Nth(places, n) \in DOMAIN rows
    BY <1>2, <1>3, NthExact
<1>5. RowsAt(rows, places) \in [1..c -> S]
    BY <1>1, <1>3, <1>4 DEF RowsAt
<1>. QED
    BY <1>3, <1>5, SeqDef, LenProperties

\* A list is a sequence.
LEMMA ListingType ==
    ASSUME Formed, NEW name, NEW text
    PROVE  \E S : Listing(name, text) \in Seq(S)
<1>1. CASE name = "users"
    BY <1>1, RowsAtType, AdminAssumption DEF Listing
<1>2. CASE name # "users"
    <2>1. PICK rows : rows = RowsAt(audit, {n \in DOMAIN audit : text \in {"", audit[n].action}})
        OBVIOUS
    <2>2. rows \in Seq(Range(audit)) /\ Len(rows) \in Nat /\ DOMAIN rows = 1..Len(rows)
        <3>1. PICK places : places = {n \in DOMAIN audit : text \in {"", audit[n].action}}
            OBVIOUS
        <3>2. places \subseteq DOMAIN audit /\ audit \in Seq(Range(audit))
            BY <3>1 DEF Formed
        <3>3. rows \in Seq(Range(audit)) /\ Len(rows) \in Nat
            BY <2>1, <3>1, <3>2, RowsAtType
        <3>. QED
            BY <3>3
    <2>3. Listing(name, text) = [i \in 1..Len(rows) |-> rows[Len(rows) - i + 1]]
        BY <1>2, <2>1 DEF Listing, Reverse
    <2>4. [i \in 1..Len(rows) |-> rows[Len(rows) - i + 1]] \in [1..Len(rows) -> Range(audit)]
        BY <2>2
    <2>. QED
        BY <2>2, <2>3, <2>4, SeqDef
<1>. QED
    BY <1>1, <1>2

\* The first page of a list is empty only if the list is.
LEMMA FirstPage ==
    ASSUME Formed, NEW name \in {"users", "audit"}, NEW q, q.skip = 0, PageOf(name, q) = <<>>
    PROVE  ~(Len(Listing(name, q.text)) > 0)
<1>. SUFFICES ASSUME Len(Listing(name, q.text)) > 0 PROVE FALSE
    OBVIOUS
<1>1. PICK all, S : all = Listing(name, q.text) /\ all \in Seq(S)
    BY ListingType
<1>2. Len(all) \in Nat \ {0}
    BY <1>1
<1>3. PICK m \in Nat \ {0} : m = Smaller(q.skip + Take(name), Len(all)) /\ m <= Len(all)
    <2>1. Take(name) \in Nat \ {0}
        BY AdminAssumption DEF Take
    <2>2. PICK t \in Nat \ {0}, k \in Nat \ {0} : t = Take(name) /\ k = Len(all)
        BY <1>2, <2>1
    <2>3. q.skip + Take(name) = t
        BY <2>2
    <2>4. Smaller(t, k) \in Nat \ {0} /\ Smaller(t, k) <= k
        BY DEF Smaller
    <2>. QED
        BY <2>2, <2>3, <2>4
<1>4. PICK page1 : page1 = SubSeq(all, q.skip + 1, m)
    OBVIOUS
<1>5. DOMAIN page1 = 1..m
    BY <1>1, <1>2, <1>3, <1>4
<1>6. DOMAIN PageOf(name, q) = 1..m
    BY <1>1, <1>3, <1>4, <1>5 DEF PageOf
<1>. QED
    BY <1>3, <1>6

\* The users' list is what it was as long as the users are; likewise the audit log's.
LEMMA SameLists ==
    /\ UNCHANGED store.users => \A q, text : /\ PageOf("users", q)' = PageOf("users", q)
                                             /\ Listing("users", text)' = Listing("users", text)
    /\ UNCHANGED audit => \A q, text : /\ PageOf("audit", q)' = PageOf("audit", q)
                                       /\ Listing("audit", text)' = Listing("audit", text)
<1>1. ASSUME UNCHANGED store.users
      PROVE  \A q, text : /\ PageOf("users", q)' = PageOf("users", q)
                          /\ Listing("users", text)' = Listing("users", text)
    <2>1. \A u : (Has(u)' <=> Has(u)) /\ Listed(u)' = Listed(u)
        BY <1>1 DEF Has, Listed
    <2>2. ASSUME NEW text PROVE Listing("users", text)' = Listing("users", text)
        BY <2>1 DEF Listing
    <2>3. ASSUME NEW q PROVE PageOf("users", q)' = PageOf("users", q)
        <3>1. Listing("users", q.text)' = Listing("users", q.text)
            BY <2>2
        <3>. QED
            BY <2>1, <3>1 DEF PageOf, Take
    <2>. QED
        BY <2>2, <2>3
<1>2. ASSUME UNCHANGED audit
      PROVE  \A q, text : /\ PageOf("audit", q)' = PageOf("audit", q)
                          /\ Listing("audit", text)' = Listing("audit", text)
    <2>1. ASSUME NEW text PROVE Listing("audit", text)' = Listing("audit", text)
        BY <1>2 DEF Listing
    <2>2. ASSUME NEW q PROVE PageOf("audit", q)' = PageOf("audit", q)
        <3>1. Listing("audit", q.text)' = Listing("audit", q.text)
            BY <2>1
        <3>. QED
            BY <3>1 DEF PageOf, Take
    <2>. QED
        BY <2>1, <2>2
<1>. QED
    BY <1>1, <1>2

\* What is read of the same tables and the same log is the same.
LEMMA SameReads ==
    ASSUME UNCHANGED <<store, audit>>
    PROVE  \A name \in Loads : \A q : ReadOf(name, q)' = ReadOf(name, q)
<1>1. ASSUME NEW q
      PROVE  /\ ReadOf("users", q)' = ReadOf("users", q)
             /\ ReadOf("audit", q)' = ReadOf("audit", q)
    BY SameLists DEF ReadOf
<1>2. ASSUME NEW q
      PROVE  /\ ReadOf("plans", q)' = ReadOf("plans", q)
             /\ ReadOf("flags", q)' = ReadOf("flags", q)
             /\ ReadOf("overrides", q)' = ReadOf("overrides", q)
    BY DEF ReadOf
<1>. QED
    BY <1>1, <1>2 DEF Loads, Panel

\* A page stays true as long as what it shows is stored.
LEMMA SamePage ==
    ASSUME UNCHANGED <<page, view>>, PageTrue,
           UNCHANGED store \/ (page = "users" /\ UNCHANGED store.users),
           UNCHANGED audit \/ page = "users"
    PROVE  PageTrue'
<1>1. ListPage /\ ListTrue => ListTrue'
    <2>1. CASE page = "users"
        BY <2>1, SameLists DEF ListTrue, Texts, CanPrev
    <2>2. CASE page = "audit"
        BY <2>2, SameLists DEF ListTrue, Texts, CanPrev
    <2>. QED
        BY <2>1, <2>2 DEF ListPage
<1>. QED
    BY <1>1 DEF PageTrue, ListPage
------------------------------------------------------------------------------
\* A slot gets another call, the page and the user of the dialog stay.
LEMMA SlotShape ==
    ASSUME IInv, QuietInv, NEW s \in 1..MaxCalls, NEW call, calls' = [calls EXCEPT ![s] = call],
           UNCHANGED page, Awaited(call) => LiveShape(call)',
           \/ modal' = modal \/ modal = NoDialog
           \/ modal' # NoDialog /\ modal'.user = modal.user
    PROVE  \A t \in 1..MaxCalls : Awaited(calls'[t]) => LiveShape(calls[t])'
<1>1. calls'[s] = call /\ \A t \in 1..MaxCalls : t # s => calls'[t] = calls[t]
    BY DEF IInv, Calls
<1>2. ASSUME NEW t \in 1..MaxCalls, t # s, Awaited(calls[t]) PROVE LiveShape(calls[t])'
    <2>1. LiveShape(calls[t]) /\ calls'[t] = calls[t]
        BY <1>1, <1>2 DEF QuietInv
    <2>. QED
        BY <2>1 DEF LiveShape, LiveLoad, LiveChange, PageLoad, DialogLoad, ListPage
<1>. QED
    BY <1>1, <1>2 DEF LiveShape

\* A click sends one request; if there was none, what is shown stays true.
LEMMA SendQuiet ==
    ASSUME IInv, QuietInv, NEW s \in 1..MaxCalls, NEW call, Send(s, call), page \in Panel,
           UNCHANGED <<store, audit, page, view>>, call.phase = "sent", LiveShape(call)',
           \/ modal' = modal /\ (call.for = "page" => modal = NoDialog)
           \/ /\ modal = NoDialog /\ page = "users" /\ call.for = "modal"
              /\ DOMAIN modal' = {"user", "loading", "overrides"} /\ modal'.loading = TRUE
    PROVE  QuietInv'
<1>1. /\ calls' = [calls EXCEPT ![s] = call] /\ mixed' = (mixed \/ Busy)
      /\ calls'[s] = call /\ \A t \in 1..MaxCalls : t # s => calls'[t] = calls[t]
    BY DEF Send, IInv, Calls
<1>2. PageShape'
    BY DEF QuietInv, PageShape, ListPage, Panel
<1>3. \A t \in 1..MaxCalls : Awaited(calls'[t]) => LiveShape(calls[t])'
    BY <1>1, SlotShape
<1>4. ASSUME ~mixed' PROVE Calm'
    <2>1. (\A t \in 1..MaxCalls : ~Awaited(calls[t])) /\ Calm
        BY <1>1, <1>4 DEF Busy, Awaited, QuietInv
    <2>2. \A t \in 1..MaxCalls : Awaited(calls'[t]) => t = s
        BY <1>1, <2>1
    <2>3. PageTrue /\ DialogTrue
        BY <2>1 DEF Calm, PageComes, DialogComes
    <2>4. PageTrue'
        BY <2>3, SamePage
    <2>5. DialogTrue'
        BY <2>3 DEF DialogTrue
    <2>6. Exact(calls[s])'
        BY <1>1 DEF Exact
    <2>. QED
        BY <1>1, <2>2, <2>4, <2>5, <2>6 DEF Calm
<1>. QED
    BY <1>2, <1>3, <1>4 DEF QuietInv

\* The load of the page that is open.
LEMMA LoadOfPage ==
    ASSUME QuietInv, page \in Panel, UNCHANGED page, NEW skip \in Nat,
           NEW call, call = Load(page, [skip |-> skip, text |-> view.box], "page")
    PROVE  /\ PageLoad(call)' /\ LiveShape(call)' /\ call.phase = "sent" /\ call.for = "page"
           /\ call # NoCall
<1>1. LoadShape(call) /\ "op" \notin DOMAIN call
    BY LoadFacts DEF Loads, Everything, Open, LoadShape
<1>2. /\ {"q", "got"} \subseteq DOMAIN call /\ call.for = "page" /\ call.name = page
      /\ call.q.skip = skip /\ call.q.text = view.box /\ call.phase = "sent"
    BY DEF Load
<1>3. PageLoad(call)'
    BY <1>1, <1>2 DEF PageLoad, QuietInv, PageShape, ListPage
<1>4. call # NoCall
    BY <1>1 DEF LoadShape, Fields, NoCall
<1>. QED
    BY <1>1, <1>2, <1>3, <1>4 DEF LiveShape, LiveLoad

\* A change of what the page shows, and the load that follows it.
LEMMA SaveOfPage ==
    ASSUME QuietInv, page \in Panel, UNCHANGED page, NEW op, NEW then,
           \/ then = Again
           \/ then = NoCall /\ op.name = "export" /\ page = "users",
           NEW call, call = Save(op, then, "page")
    PROVE  LiveShape(call)' /\ call.phase = "sent" /\ call.for = "page"
<1>1. /\ "op" \in DOMAIN call /\ call.op = op /\ call.then = then /\ call.for = "page"
      /\ call.phase = "sent"
    BY DEF Save
<1>2. CASE then = Again
    <2>1. view.skip \in Nat
        BY DEF QuietInv, PageShape
    <2>2. PageLoad(then)' /\ then.phase = "sent" /\ then # NoCall
        BY <1>2, <2>1, LoadOfPage DEF Again
    <2>. QED
        BY <1>1, <2>2 DEF LiveShape, LiveChange
<1>3. CASE then = NoCall /\ op.name = "export" /\ page = "users"
    BY <1>1, <1>3 DEF LiveShape, LiveChange
<1>. QED
    BY <1>2, <1>3

\* The load of a dialog, alone or after a change.
LEMMA LoadOfDialog ==
    ASSUME NEW call, call = OverridesOf(modal.user)'
    PROVE  /\ DialogLoad(call)' /\ "op" \notin DOMAIN call /\ call.phase = "sent"
           /\ call.for = "modal" /\ call # NoCall
<1>1. LoadShape(call) /\ "op" \notin DOMAIN call
    BY LoadFacts DEF OverridesOf, Loads, Everything, Open, LoadShape
<1>2. /\ {"q", "got"} \subseteq DOMAIN call /\ call.for = "modal" /\ call.name = "overrides"
      /\ call.q = modal'.user /\ call.phase = "sent"
    BY DEF OverridesOf, Load
<1>. QED
    BY <1>1, <1>2 DEF DialogLoad, LoadShape, Fields, NoCall

\* Whatever is clicked.
LEMMA ClickQuiet == ASSUME IInv, QuietInv, NEW s \in 1..MaxCalls, Click(s) PROVE QuietInv'
<1>1. CASE RunSearch(s)
    <2>1. PICK call : call = Load(page, [skip |-> 0, text |-> view.box], "page")
        OBVIOUS
    <2>2. /\ Send(s, call) /\ page \in Panel /\ modal = NoDialog
          /\ UNCHANGED <<store, audit, page, view, modal>>
        BY <1>1, <2>1 DEF RunSearch, ListPage, Panel
    <2>3. LiveShape(call)' /\ call.phase = "sent" /\ call.for = "page"
        BY <2>1, <2>2, LoadOfPage
    <2>. QED
        BY <2>2, <2>3, SendQuiet
<1>2. CASE TurnPage(s)
    <2>1. PICK k \in Nat : k = view.skip
        BY DEF QuietInv, PageShape
    <2>2. Take(page) \in Nat
        BY AdminAssumption DEF Take
    <2>3. PICK skip \in Int :
              Send(s, Load(page, [skip |-> Larger(0, skip), text |-> view.box], "page"))
        BY <1>2, <2>1, <2>2 DEF TurnPage
    <2>4. PICK at \in Nat : at = Larger(0, skip)
        BY DEF Larger
    <2>5. PICK call : call = Load(page, [skip |-> at, text |-> view.box], "page")
        OBVIOUS
    <2>6. /\ Send(s, call) /\ page \in Panel /\ modal = NoDialog
          /\ UNCHANGED <<store, audit, page, view, modal>>
        BY <1>2, <2>3, <2>4, <2>5 DEF TurnPage, ListPage, Panel
    <2>7. LiveShape(call)' /\ call.phase = "sent" /\ call.for = "page"
        BY <2>5, <2>6, LoadOfPage
    <2>. QED
        BY <2>6, <2>7, SendQuiet
<1>3. ASSUME NEW op, NEW then, Ask(s, op, then, "page"), page \in Panel, modal = NoDialog,
             then = Again \/ (then = NoCall /\ op.name = "export" /\ page = "users")
      PROVE  QuietInv'
    <2>1. PICK call : call = Save(op, then, "page")
        OBVIOUS
    <2>2. Send(s, call) /\ UNCHANGED <<store, audit, page, view, modal>>
        BY <1>3, <2>1 DEF Ask
    <2>3. LiveShape(call)' /\ call.phase = "sent" /\ call.for = "page"
        BY <1>3, <2>1, <2>2, SaveOfPage
    <2>. QED
        BY <1>3, <2>2, <2>3, SendQuiet
<1>4. CASE ClickUser(s)
    <2>1. page = "users" /\ page \in Panel /\ modal = NoDialog
        BY <1>4 DEF ClickUser, Panel
    <2>2. \A id : Op("export", id, <<>>).name = "export"
        BY DEF Op
    <2>. QED
        BY <1>3, <1>4, <2>1, <2>2 DEF ClickUser
<1>5. CASE ClickPlan(s) \/ ClickFlag(s)
    <2>1. page \in Panel /\ modal = NoDialog
        BY <1>5 DEF ClickPlan, ClickFlag, Panel, QuietInv, PageShape
    <2>2. \E op : Ask(s, op, Again, "page")
        BY <1>5 DEF ClickPlan, ClickFlag
    <2>. QED
        BY <1>3, <2>1, <2>2
<1>6. CASE OpenFeatures(s)
    <2>1. PICK n \in DOMAIN view.rows :
              /\ modal' = [user |-> view.rows[n].id, loading |-> TRUE, overrides |-> NoOverrides]
              /\ Send(s, OverridesOf(view.rows[n].id))
        BY <1>6 DEF OpenFeatures
    <2>2. PICK call : call = OverridesOf(view.rows[n].id)
        OBVIOUS
    <2>3. /\ page = "users" /\ page \in Panel /\ modal = NoDialog
          /\ UNCHANGED <<store, audit, page, view>>
        BY <1>6 DEF OpenFeatures, Panel
    <2>4. /\ DOMAIN modal' = {"user", "loading", "overrides"} /\ modal'.loading = TRUE
          /\ modal'.user = view.rows[n].id
        BY <2>1
    <2>5. modal' # NoDialog
        BY <2>4 DEF NoDialog
    <2>6. /\ DialogLoad(call)' /\ "op" \notin DOMAIN call /\ call.phase = "sent"
          /\ call.for = "modal"
        BY <2>2, <2>4, LoadOfDialog DEF OverridesOf
    <2>7. LiveShape(call)'
        BY <2>5, <2>6 DEF LiveShape, LiveLoad
    <2>. QED
        BY <2>1, <2>2, <2>3, <2>4, <2>6, <2>7, SendQuiet
<1>7. CASE SetOverride(s)
    <2>1. PICK op : /\ op.name \in {"override", "clear"}
                    /\ Ask(s, op, OverridesOf(modal.user), "modal")
        <3>1. PICK f \in Feature, next \in {"default", "granted", "revoked"} :
                  Ask(s, Op(IF next = "default" THEN "clear" ELSE "override", modal.user,
                            [x \in {f} |-> next]), OverridesOf(modal.user), "modal")
            BY <1>7 DEF SetOverride
        <3>. QED
            BY <3>1 DEF Op
    <2>2. PICK call, then : call = Save(op, then, "modal") /\ then = OverridesOf(modal.user)
        OBVIOUS
    <2>3. /\ Send(s, call) /\ UNCHANGED <<store, audit, page, view, modal>>
          /\ modal # NoDialog /\ page \in Panel
        BY <1>7, <2>1, <2>2 DEF Ask, SetOverride, QuietInv, PageShape, Panel
    <2>4. then = OverridesOf(modal.user)'
        BY <2>2, <2>3 DEF OverridesOf
    <2>5. DialogLoad(then)' /\ then.phase = "sent" /\ then # NoCall
        BY <2>4, LoadOfDialog
    <2>6. /\ "op" \in DOMAIN call /\ call.op = op /\ call.then = then /\ call.for = "modal"
          /\ call.phase = "sent"
        BY <2>2 DEF Save
    <2>7. LiveShape(call)'
        BY <2>1, <2>3, <2>5, <2>6 DEF LiveShape, LiveChange
    <2>. QED
        BY <2>3, <2>6, <2>7, SendQuiet
<1>. QED
    BY <1>1, <1>2, <1>4, <1>5, <1>6, <1>7 DEF Click
------------------------------------------------------------------------------
\* A request on its way is from where it was, and for what.
LEMMA PhaseShape ==
    ASSUME IInv, QuietInv, NEW s \in 1..MaxCalls, calls[s] # NoCall, NEW phase,
           Step(s, InPhase(s, phase)), Browser, phase # "ok" \/ Changes(s)
    PROVE  /\ \A t \in 1..MaxCalls : t # s => calls'[t] = calls[t]
           /\ DOMAIN calls'[s] = DOMAIN calls[s] /\ calls'[s].phase = phase
           /\ calls'[s].for = calls[s].for
           /\ Awaited(calls'[s]) <=> Awaited(calls[s])
           /\ Changes(s) => calls'[s].op = calls[s].op /\ calls'[s].then = calls[s].then
           /\ \A t \in 1..MaxCalls : Awaited(calls'[t]) => LiveShape(calls[t])'
<1>1. CallShape(calls[s]) /\ DOMAIN calls = 1..MaxCalls
    BY DEF IInv, Calls
<1>2. PICK call : call = [calls[s] EXCEPT !.phase = phase]
    OBVIOUS
<1>3. /\ calls' = [calls EXCEPT ![s] = call] /\ calls'[s] = call
      /\ \A t \in 1..MaxCalls : t # s => calls'[t] = calls[t]
    BY <1>1, <1>2 DEF Step, InPhase
<1>4. /\ DOMAIN call = DOMAIN calls[s] /\ call.phase = phase /\ call.for = calls[s].for
      /\ call.name = calls[s].name
    BY <1>1, <1>2 DEF CallShape, Fields
<1>5. Changes(s) => call.op = calls[s].op /\ call.then = calls[s].then
    BY <1>1, <1>2 DEF Changes, CallShape
<1>6. "q" \in DOMAIN calls[s] => call.q = calls[s].q
    BY <1>2
<1>7. Awaited(call) <=> Awaited(calls[s])
    <2>1. call # NoCall
        BY <1>1, <1>4 DEF CallShape, Fields, NoCall
    <2>. QED
        BY <1>4, <2>1 DEF Awaited
<1>8. Awaited(call) => LiveShape(call)'
    <2>. SUFFICES ASSUME Awaited(call) PROVE LiveShape(call)'
        OBVIOUS
    <2>1. LiveShape(calls[s]) /\ UNCHANGED <<page, modal>>
        BY <1>7 DEF QuietInv, Browser
    <2>2. ASSUME Changes(s) PROVE LiveChange(call)'
        BY <1>4, <1>5, <2>1, <2>2
        DEF Changes, LiveShape, LiveChange, PageLoad, DialogLoad, ListPage
    <2>3. ASSUME ~Changes(s) PROVE LiveLoad(call)'
        <3>1. LiveLoad(calls[s]) /\ "op" \notin DOMAIN calls[s]
            BY <2>1, <2>3 DEF Changes, LiveShape
        <3>2. LoadShape(calls[s]) => LoadShape(call)
            BY <1>4 DEF LoadShape
        <3>. QED
            BY <1>4, <1>6, <2>1, <2>3, <3>1, <3>2 DEF LiveLoad, PageLoad, DialogLoad, ListPage
    <2>. QED
        BY <1>4, <2>2, <2>3 DEF LiveShape, Changes
<1>9. \A t \in 1..MaxCalls : Awaited(calls'[t]) => LiveShape(calls[t])'
    BY <1>3, <1>8, SlotShape DEF Browser
<1>. QED
    BY <1>3, <1>4, <1>5, <1>7, <1>9

\* Of the same tables and log, everything read is as exact as it was.
LEMMA ExactKept ==
    ASSUME IInv, QuietInv, UNCHANGED <<store, audit>>, NEW t \in 1..MaxCalls,
           Awaited(calls[t]), calls'[t] = calls[t], Exact(calls[t])
    PROVE  Exact(calls[t])'
<1>1. CallShape(calls[t]) /\ LiveShape(calls[t])
    BY DEF IInv, Calls, Awaited, QuietInv
<1>2. "op" \notin DOMAIN calls[t] => calls[t].name \in Loads
    BY <1>1
    DEF CallShape, Awaited, Open, LiveShape, LiveLoad, PageLoad, DialogLoad, LoadShape
<1>3. PICK name, q : name = calls[t].name /\ q = calls[t].q
    OBVIOUS
<1>4. name \in Loads => ReadOf(name, q)' = ReadOf(name, q)
    BY SameReads
<1>. QED
    BY <1>2, <1>3, <1>4 DEF Exact

\* A step of the live request, or of one that changes nothing, leaves tables and log.
LEMMA StillQuiet ==
    ASSUME IInv, QuietInv, NEW s \in 1..MaxCalls, UNCHANGED <<store, audit, mixed>>, Browser,
           \A t \in 1..MaxCalls : t # s => calls'[t] = calls[t],
           DOMAIN calls'[s] = DOMAIN calls[s], calls'[s].for = calls[s].for,
           Awaited(calls'[s]) <=> Awaited(calls[s]),
           Changes(s) => calls'[s].then = calls[s].then,
           Awaited(calls'[s]) => Exact(calls[s])',
           \A t \in 1..MaxCalls : Awaited(calls'[t]) => LiveShape(calls[t])'
    PROVE  QuietInv'
<1>1. PageShape'
    BY DEF Browser, QuietInv, PageShape, ListPage
<1>2. ASSUME page' \in Panel, ~mixed' PROVE Calm'
    <2>1. Calm /\ page \in Panel
        BY <1>2 DEF Browser, QuietInv
    <2>2. \A t \in 1..MaxCalls : /\ Awaited(calls'[t]) <=> Awaited(calls[t])
                                 /\ calls'[t].for = calls[t].for
        OBVIOUS
    <2>3. \A t \in 1..MaxCalls : Awaited(calls'[t]) => Exact(calls[t])'
        BY <2>1, <2>2, ExactKept DEF Calm
    <2>4. PageComes => PageComes'
        BY <2>2 DEF PageComes, NoFollow, Changes
    <2>5. DialogComes => DialogComes'
        BY <2>2 DEF DialogComes
    <2>6. PageTrue => PageTrue'
        BY SamePage DEF Browser
    <2>7. DialogTrue => DialogTrue'
        BY DEF DialogTrue, Browser
    <2>. QED
        BY <2>1, <2>2, <2>3, <2>4, <2>5, <2>6, <2>7 DEF Calm, Browser
<1>. QED
    BY <1>1, <1>2 DEF QuietInv

\* The guard; what it lets a load read is exact.
LEMMA GuardQuiet == ASSUME IInv, QuietInv, NEW s \in 1..MaxCalls, Guard(s) PROVE QuietInv'
<1>1. /\ calls[s] # NoCall /\ UNCHANGED <<store, audit, mixed>> /\ Browser
      /\ CallShape(calls[s]) /\ DOMAIN calls = 1..MaxCalls
    BY DEF Guard, At, IInv, Calls
<1>2. ASSUME NEW phase, Step(s, InPhase(s, phase)), phase # "ok" PROVE QuietInv'
    <2>1. Exact(calls[s])'
        BY <1>1, <1>2, PhaseShape DEF Exact
    <2>. QED
        BY <1>1, <1>2, <2>1, PhaseShape, StillQuiet
<1>3. ASSUME ~Changes(s),
             Step(s, [calls[s] EXCEPT !.got = ReadOf(calls[s].name, calls[s].q), !.phase = "ok"])
      PROVE  QuietInv'
    <2>1. PICK got, call : /\ call = [calls[s] EXCEPT !.got = got, !.phase = "ok"]
                           /\ got = ReadOf(calls[s].name, calls[s].q)
        OBVIOUS
    <2>2. /\ calls' = [calls EXCEPT ![s] = call] /\ calls'[s] = call
          /\ \A t \in 1..MaxCalls : t # s => calls'[t] = calls[t]
        BY <1>1, <1>3, <2>1 DEF Step
    <2>3. /\ DOMAIN call = DOMAIN calls[s] /\ call.for = calls[s].for
          /\ call.name = calls[s].name
        BY <1>1, <2>1 DEF CallShape, Fields
    <2>4. "q" \in DOMAIN calls[s] => call.q = calls[s].q
        BY <2>1
    <2>5. "got" \in DOMAIN calls[s] => call.got = got
        BY <2>1
    <2>6. call # NoCall
        BY <1>1, <2>3 DEF CallShape, Fields, NoCall
    <2>7. Awaited(call) <=> Awaited(calls[s])
        BY <1>1, <2>3, <2>6 DEF Awaited
    <2>8. ASSUME Awaited(call)
          PROVE  /\ LiveShape(call)'
                 /\ {"q", "got"} \subseteq DOMAIN calls[s] /\ call.name \in Loads
        <3>1. LiveLoad(calls[s]) /\ "op" \notin DOMAIN calls[s] /\ UNCHANGED <<page, modal>>
            BY <1>1, <1>3, <2>7, <2>8 DEF QuietInv, LiveShape, Changes, Browser
        <3>2. calls[s].for \in Open
            BY <1>1, <2>7, <2>8 DEF Awaited
        <3>3. LoadShape(calls[s]) /\ {"q", "got"} \subseteq DOMAIN calls[s]
            BY <3>1, <3>2 DEF LiveLoad, PageLoad, DialogLoad, Open
        <3>4. LoadShape(call)
            BY <2>3, <3>3 DEF LoadShape
        <3>5. DOMAIN call.got \subseteq {"rows", "total"}
            BY <2>1, <2>3, <2>5, <3>3, <3>4 DEF ReadOf, LoadShape, Loads, Panel
        <3>6. LiveLoad(call)'
            BY <2>3, <2>4, <3>1, <3>3, <3>4, <3>5 DEF LiveLoad, PageLoad, DialogLoad, ListPage
        <3>. QED
            BY <2>3, <3>1, <3>3, <3>4, <3>6 DEF LiveShape, LoadShape
    <2>9. Awaited(call) => Exact(calls[s])'
        <3>. SUFFICES ASSUME Awaited(call) PROVE call.got = ReadOf(call.name, call.q)'
            BY <2>2 DEF Exact
        <3>1. call.got = ReadOf(call.name, call.q) /\ call.name \in Loads
            BY <2>1, <2>3, <2>4, <2>5, <2>8
        <3>. QED
            BY <1>1, <3>1, SameReads
    <2>10. \A t \in 1..MaxCalls : Awaited(calls'[t]) => LiveShape(calls[t])'
        BY <1>1, <2>2, <2>8, SlotShape DEF Browser
    <2>. QED
        BY <1>1, <1>3, <2>2, <2>3, <2>7, <2>9, <2>10, StillQuiet
<1>. QED
    BY <1>2, <1>3 DEF Guard

\* A request that fails.
LEMMA FailQuiet == ASSUME IInv, QuietInv, NEW s \in 1..MaxCalls, Fail(s) PROVE QuietInv'
<1>1. /\ calls[s] # NoCall /\ UNCHANGED <<store, audit, mixed>> /\ Browser
      /\ Step(s, InPhase(s, "failed"))
    BY DEF Fail, At
<1>2. Exact(calls[s])'
    BY <1>1, PhaseShape DEF Exact
<1>. QED
    BY <1>1, <1>2, PhaseShape, StillQuiet

\* The statements of a change: what they may make untrue is about to be loaded.
LEMMA StatementQuiet ==
    ASSUME IInv, TrailInv, QuietInv, NEW s \in 1..MaxCalls, Change(s) \/ Log(s)
    PROVE  QuietInv'
<1>1. /\ calls[s] # NoCall /\ Changes(s) /\ Browser /\ Surprise(s)
      /\ CallShape(calls[s]) /\ OpCall(calls[s])
    BY DEF Change, Log, At, IInv, Calls, TrailInv, Formed
<1>2. PICK phase : Step(s, InPhase(s, phase))
    BY DEF Change, Log
<1>3. /\ \A t \in 1..MaxCalls : t # s => calls'[t] = calls[t]
      /\ DOMAIN calls'[s] = DOMAIN calls[s] /\ calls'[s].for = calls[s].for
      /\ Awaited(calls'[s]) <=> Awaited(calls[s])
      /\ calls'[s].op = calls[s].op /\ calls'[s].then = calls[s].then
      /\ \A t \in 1..MaxCalls : Awaited(calls'[t]) => LiveShape(calls[t])'
    BY <1>1, <1>2, PhaseShape
<1>4. PageShape'
    BY <1>1 DEF Browser, QuietInv, PageShape, ListPage
<1>5. ASSUME page' \in Panel, ~mixed' PROVE Calm'
    <2>1. Calm /\ ~mixed /\ Awaited(calls[s]) /\ calls[s].for \in Open
        BY <1>1, <1>5 DEF Surprise, Browser, QuietInv, Awaited
    <2>2. \A t \in 1..MaxCalls : Awaited(calls[t]) => t = s
        BY <2>1 DEF Calm
    <2>3. \A t \in 1..MaxCalls : Awaited(calls'[t]) => t = s
        BY <1>3, <2>2
    <2>4. LiveChange(calls[s]) /\ "op" \in DOMAIN calls[s]
        BY <1>1, <2>1 DEF QuietInv, LiveShape, Changes
    <2>5. Exact(calls[s])'
        BY <1>3, <2>4 DEF Exact
    <2>6. UNCHANGED <<page, view, modal>>
        BY <1>1 DEF Browser
    <2>7. store' = store \/ store' = Applied(calls[s].op)
        BY DEF Change, Log
    <2>8. CASE calls[s].for = "page"
        <3>1. modal = NoDialog /\ DialogTrue'
            BY <2>1, <2>6, <2>8 DEF Calm, DialogTrue
        <3>2. PageComes' \/ PageTrue'
            <4>1. CASE calls[s].then # NoCall
                BY <1>3, <2>1, <2>8, <4>1 DEF PageComes, NoFollow
            <4>2. CASE calls[s].then = NoCall
                <5>1. page = "users" /\ calls[s].op.name = "export"
                    BY <2>4, <2>8, <4>2 DEF LiveChange
                <5>2. UNCHANGED store
                    BY <2>7, <5>1 DEF Applied
                <5>3. ~PageComes
                    BY <2>2, <2>4, <4>2 DEF PageComes, NoFollow
                <5>. QED
                    BY <2>1, <2>6, <5>1, <5>2, <5>3, SamePage DEF Calm
            <4>. QED
                BY <4>1, <4>2
        <3>. QED
            BY <2>3, <2>5, <2>6, <3>1, <3>2 DEF Calm
    <2>9. CASE calls[s].for = "modal"
        <3>1. calls[s].op.name \in {"override", "clear"} /\ modal # NoDialog
            BY <2>4, <2>9 DEF LiveChange
        <3>2. page = "users"
            BY <3>1 DEF QuietInv, PageShape
        <3>3. UNCHANGED store.users
            <4>1. CASE store' = Applied(calls[s].op)
                <5>1. PICK on, row : store' = [store EXCEPT !.overrides[on] = row]
                    BY <3>1, <4>1 DEF Applied
                <5>. QED
                    BY <5>1 DEF TrailInv, Formed, Keyed
            <4>. QED
                BY <2>7, <4>1
        <3>4. ~PageComes
            BY <2>2, <2>9 DEF PageComes
        <3>5. PageTrue'
            BY <2>1, <2>6, <3>2, <3>3, <3>4, SamePage DEF Calm
        <3>6. DialogComes'
            BY <1>3, <2>1, <2>9 DEF DialogComes
        <3>7. \A t \in 1..MaxCalls : Awaited(calls'[t]) => calls'[t].for # "page"
            BY <1>3, <2>3, <2>9
        <3>. QED
            BY <2>3, <2>5, <3>5, <3>6, <3>7 DEF Calm
    <2>. QED
        BY <2>1, <2>8, <2>9 DEF Open
<1>. QED
    BY <1>3, <1>4, <1>5 DEF QuietInv

\* What was read for the page makes it true.
LEMMA ShownIsTrue ==
    ASSUME IInv, TrailInv, QuietInv, NEW s \in 1..MaxCalls, Awaited(calls[s]),
           "op" \notin DOMAIN calls[s], calls[s].phase = "ok", calls[s].for = "page",
           page \in Panel, UNCHANGED <<store, audit, page>>,
           view' = [Updated(view, calls[s].got) EXCEPT !.skip = calls[s].q.skip, !.fresh = TRUE]
    PROVE  Exact(calls[s]) => PageTrue'
<1>1. PageLoad(calls[s]) /\ DOMAIN view = {"rows", "total", "skip", "box", "fresh"}
    BY DEF QuietInv, LiveShape, LiveLoad, PageShape
<1>2. PICK call : call = calls[s]
    OBVIOUS
<1>3. /\ call.name = page /\ call.q.skip \in Nat /\ view'.skip = call.q.skip
      /\ "rows" \in DOMAIN call.got => view'.rows = call.got.rows
      /\ "total" \in DOMAIN call.got => view'.total = call.got.total
    BY <1>1, <1>2 DEF PageLoad, Updated
<1>4. ASSUME Exact(call) PROVE PageTrue'
    <2>1. call.got = ReadOf(page, call.q)
        BY <1>2, <1>3, <1>4 DEF Exact
    <2>2. CASE ListPage
        <3>1. PICK name, q : name = page /\ q = call.q
            OBVIOUS
        <3>2. /\ name \in {"users", "audit"} /\ q.skip \in Nat /\ q.text \in Texts(name)
            BY <1>1, <1>2, <1>3, <2>2, <3>1 DEF ListPage, PageLoad
        <3>3. /\ view'.rows = PageOf(name, q) /\ view'.total = Len(Listing(name, q.text))
              /\ view'.skip = q.skip
            BY <1>3, <2>1, <3>1, <3>2 DEF ReadOf
        <3>4. PICK at : at = [skip |-> q.skip, text |-> q.text]
            OBVIOUS
        <3>5. PageOf(name, q) = PageOf(name, at)
            BY <3>4 DEF PageOf
        <3>6. /\ PageOf(name, at)' = PageOf(name, at)
              /\ Listing(name, q.text)' = Listing(name, q.text)
            BY <3>2, SameLists
        <3>7. view'.rows = <<>> /\ view'.total > 0 => view'.skip > 0
            <4>. SUFFICES ASSUME view'.rows = <<>>, view'.total > 0, ~(view'.skip > 0) PROVE FALSE
                OBVIOUS
            <4>1. q.skip = 0 /\ PageOf(name, q) = <<>> /\ Len(Listing(name, q.text)) > 0
                BY <3>2, <3>3
            <4>. QED
                BY <3>2, <4>1, FirstPage DEF TrailInv
        <3>8. ListTrue'
            BY <3>1, <3>2, <3>3, <3>4, <3>5, <3>6, <3>7 DEF ListTrue, CanPrev, Texts
        <3>. QED
            BY <2>2, <3>8 DEF PageTrue, ListPage
    <2>3. CASE page = "plans"
        BY <1>3, <2>1, <2>3 DEF ReadOf, PageTrue, ListPage
    <2>4. CASE page = "flags"
        BY <1>3, <2>1, <2>4 DEF ReadOf, PageTrue, ListPage
    <2>. QED
        BY <2>2, <2>3, <2>4 DEF Panel, ListPage
<1>. QED
    BY <1>2, <1>4

\* An answer that was read is shown, in the page or in the dialog.
LEMMA ShowQuiet ==
    ASSUME IInv, TrailInv, QuietInv, NEW s \in 1..MaxCalls, Receive(s), calls[s].for # "closed",
           calls[s].phase \notin {"forbidden", "unauthorized", "failed"}, ~Changes(s)
    PROVE  QuietInv'
<1>1. /\ Awaited(calls[s]) /\ page \in Panel /\ CallShape(calls[s]) /\ calls[s].phase = "ok"
      /\ "op" \notin DOMAIN calls[s] /\ DOMAIN calls = 1..MaxCalls
    <2>1. calls[s] # NoCall /\ calls[s].for # "gone" /\ CallShape(calls[s])
        BY DEF Receive, Answered, At, IInv, Calls
    <2>2. Awaited(calls[s]) /\ Live(calls[s])
        BY <2>1 DEF CallShape, Everything, Awaited, Live
    <2>. QED
        BY <2>1, <2>2 DEF Receive, Answered, At, IInv, Calls, Away, Changes
<1>2. /\ calls' = [calls EXCEPT ![s] = NoCall] /\ UNCHANGED <<store, audit, page, mixed>>
      /\ calls'[s] = NoCall /\ \A t \in 1..MaxCalls : t # s => calls'[t] = calls[t]
    BY <1>1 DEF Receive, Step, After, Changes
<1>3. LiveLoad(calls[s]) /\ calls[s].for \in Open /\ ~Awaited(NoCall)
    BY <1>1 DEF QuietInv, LiveShape, Awaited
<1>4. ASSUME Calm, NEW t \in 1..MaxCalls PROVE ~Awaited(calls'[t])
    BY <1>1, <1>2, <1>3, <1>4 DEF Calm
<1>5. CASE calls[s].for = "modal"
    <2>1. /\ UNCHANGED view
          /\ modal' = [modal EXCEPT !.loading = FALSE, !.overrides = calls[s].got.rows]
        BY <1>1, <1>5 DEF Receive, Changes
    <2>2. /\ modal # NoDialog /\ calls[s].q = modal.user /\ calls[s].name = "overrides"
          /\ DOMAIN modal = {"user", "loading", "overrides"}
        BY <1>3, <1>5 DEF LiveLoad, DialogLoad, QuietInv, PageShape
    <2>3. /\ DOMAIN modal' = {"user", "loading", "overrides"} /\ modal'.user = modal.user
          /\ modal'.overrides = calls[s].got.rows
        BY <2>1, <2>2
    <2>4. modal' # NoDialog
        BY <2>3 DEF NoDialog
    <2>5. PageShape'
        BY <1>2, <2>1, <2>2, <2>3 DEF QuietInv, PageShape, ListPage
    <2>6. \A t \in 1..MaxCalls : Awaited(calls'[t]) => LiveShape(calls[t])'
        BY <1>2, <1>3, <2>3, <2>4, SlotShape
    <2>7. ASSUME ~mixed' PROVE Calm'
        <3>1. Calm
            BY <1>1, <1>2, <2>7 DEF QuietInv
        <3>2. ~PageComes
            BY <1>1, <1>5, <3>1 DEF Calm, PageComes
        <3>3. PageTrue'
            BY <1>2, <2>1, <3>1, <3>2, SamePage DEF Calm
        <3>4. calls[s].got.rows = store.overrides[modal.user]
            <4>1. calls[s].got = ReadOf("overrides", modal.user)
                BY <1>1, <2>2, <3>1 DEF Calm, Exact
            <4>. QED
                BY <4>1 DEF ReadOf
        <3>5. DialogTrue'
            BY <1>2, <2>3, <3>4 DEF DialogTrue
        <3>. QED
            BY <1>4, <3>1, <3>3, <3>5 DEF Calm
    <2>. QED
        BY <2>5, <2>6, <2>7 DEF QuietInv
<1>6. CASE calls[s].for = "page"
    <2>1. /\ UNCHANGED modal
          /\ view' = [Updated(view, calls[s].got) EXCEPT !.skip = calls[s].q.skip, !.fresh = TRUE]
        BY <1>1, <1>6 DEF Receive, Changes
    <2>2. PageLoad(calls[s]) /\ DOMAIN view = {"rows", "total", "skip", "box", "fresh"}
        BY <1>3, <1>6 DEF LiveLoad, QuietInv, PageShape
    <2>3. /\ DOMAIN view' = DOMAIN view /\ view'.box = view.box
          /\ view'.skip = calls[s].q.skip
        BY <1>1, <1>3, <2>1, <2>2 DEF Updated, LiveLoad
    <2>4. PageShape'
        BY <1>1, <1>2, <2>1, <2>2, <2>3 DEF QuietInv, PageShape, PageLoad, ListPage, Panel
    <2>5. \A t \in 1..MaxCalls : Awaited(calls'[t]) => LiveShape(calls[t])'
        BY <1>2, <1>3, <2>1, SlotShape
    <2>6. ASSUME ~mixed' PROVE Calm'
        <3>1. Calm /\ Exact(calls[s])
            BY <1>1, <1>2, <2>6 DEF QuietInv, Calm
        <3>2. PageTrue'
            BY <1>1, <1>2, <1>6, <2>1, <3>1, ShownIsTrue
        <3>3. DialogTrue'
            BY <1>1, <1>6, <2>1, <3>1 DEF Calm, DialogTrue
        <3>. QED
            BY <1>4, <3>1, <3>2, <3>3 DEF Calm
    <2>. QED
        BY <2>4, <2>5, <2>6 DEF QuietInv
<1>. QED
    BY <1>3, <1>5, <1>6 DEF Open

\* After a change comes its load; only an export is over at once.
LEMMA FollowQuiet ==
    ASSUME IInv, QuietInv, NEW s \in 1..MaxCalls, Receive(s), calls[s].for # "closed",
           calls[s].phase \notin {"forbidden", "unauthorized", "failed"}, Changes(s)
    PROVE  QuietInv'
<1>1. /\ Awaited(calls[s]) /\ page \in Panel /\ CallShape(calls[s]) /\ "op" \in DOMAIN calls[s]
      /\ DOMAIN calls = 1..MaxCalls /\ calls[s].for \in Open
    <2>1. calls[s] # NoCall /\ calls[s].for # "gone" /\ CallShape(calls[s])
        BY DEF Receive, Answered, At, IInv, Calls
    <2>2. Awaited(calls[s]) /\ Live(calls[s])
        BY <2>1 DEF CallShape, Everything, Awaited, Live
    <2>. QED
        BY <2>1, <2>2 DEF IInv, Calls, Away, Changes, Awaited
<1>2. PICK then : then = calls[s].then
    OBVIOUS
<1>3. /\ calls' = [calls EXCEPT ![s] = then]
      /\ UNCHANGED <<store, audit, page, view, modal, mixed>>
      /\ calls'[s] = then /\ \A t \in 1..MaxCalls : t # s => calls'[t] = calls[t]
    BY <1>1, <1>2 DEF Receive, Step, After
<1>4. LiveChange(calls[s]) /\ ~Awaited(NoCall)
    BY <1>1 DEF QuietInv, LiveShape, Awaited
<1>5. then # NoCall => /\ "op" \notin DOMAIN then /\ then.phase = "sent"
                       /\ then.for = calls[s].for
    BY <1>1, <1>2, <1>4 DEF LiveChange, PageLoad, DialogLoad, LoadShape, Open
<1>6. Awaited(then) => LiveShape(then)'
    BY <1>1, <1>2, <1>3, <1>4, <1>5
    DEF LiveShape, LiveLoad, LiveChange, PageLoad, DialogLoad, Awaited, ListPage, Open
<1>7. \A t \in 1..MaxCalls : Awaited(calls'[t]) => LiveShape(calls[t])'
    BY <1>3, <1>6, SlotShape
<1>8. PageShape'
    BY <1>3 DEF QuietInv, PageShape, ListPage
<1>9. ASSUME ~mixed' PROVE Calm'
    <2>1. Calm
        BY <1>1, <1>3, <1>9 DEF QuietInv
    <2>2. \A t \in 1..MaxCalls : Awaited(calls[t]) => t = s
        BY <1>1, <2>1 DEF Calm
    <2>3. \A t \in 1..MaxCalls : Awaited(calls'[t]) => t = s
        BY <1>3, <2>2
    <2>4. Awaited(calls'[s]) => Exact(calls[s])' /\ calls'[s].for = calls[s].for
        BY <1>3, <1>4, <1>5 DEF Exact, Awaited
    <2>5. PageTrue => PageTrue'
        BY <1>3, SamePage
    <2>6. DialogTrue => DialogTrue'
        BY <1>3 DEF DialogTrue
    <2>7. PageComes => PageComes'
        <3>1. PageComes => calls[s].for = "page" /\ then # NoCall
            BY <1>1, <1>2, <2>2 DEF PageComes, NoFollow
        <3>2. then # NoCall => Awaited(then) /\ ~NoFollow(then)
            BY <1>1, <1>5 DEF Awaited, NoFollow, Open
        <3>. QED
            BY <1>3, <1>5, <3>1, <3>2 DEF PageComes
    <2>8. DialogComes => DialogComes'
        <3>1. DialogComes => calls[s].for = "modal" /\ then # NoCall
            BY <1>2, <1>4, <2>2 DEF DialogComes, LiveChange
        <3>2. then # NoCall => Awaited(then)
            BY <1>1, <1>5 DEF Awaited, Open
        <3>. QED
            BY <1>3, <1>5, <3>1, <3>2 DEF DialogComes
    <2>. QED
        BY <1>1, <1>3, <2>1, <2>3, <2>4, <2>5, <2>6, <2>7, <2>8 DEF Calm
<1>. QED
    BY <1>7, <1>8, <1>9 DEF QuietInv

\* Outside the panel nothing is live and nothing is shown.
LEMMA AwayQuiet ==
    ASSUME IInv', page' \notin Panel, view' = Blank, modal' = NoDialog
    PROVE  QuietInv'
<1>1. \A s \in 1..MaxCalls : ~Awaited(calls'[s])
    BY DEF IInv, Away, Live, Awaited, Open
<1>2. PageShape'
    BY DEF PageShape, Blank, ListPage, Panel
<1>. QED
    BY <1>1, <1>2 DEF QuietInv

\* A request that nobody waits for ends, or is followed by another such.
LEMMA UnseenQuiet ==
    ASSUME IInv, QuietInv, NEW s \in 1..MaxCalls, NEW call, ~Awaited(call), ~Awaited(calls[s]),
           calls' = [calls EXCEPT ![s] = call],
           UNCHANGED <<store, audit, page, view, modal, mixed>>
    PROVE  QuietInv'
<1>1. calls'[s] = call /\ \A t \in 1..MaxCalls : t # s => calls'[t] = calls[t]
    BY DEF IInv, Calls
<1>2. \A t \in 1..MaxCalls : Awaited(calls'[t]) => LiveShape(calls[t])'
    BY SlotShape
<1>3. PageShape'
    BY DEF QuietInv, PageShape, ListPage
<1>4. ASSUME page' \in Panel, ~mixed' PROVE Calm'
    <2>1. Calm /\ \A t \in 1..MaxCalls : Awaited(calls'[t]) <=> Awaited(calls[t])
        BY <1>1, <1>4 DEF QuietInv
    <2>2. \A t \in 1..MaxCalls : Awaited(calls[t]) => calls'[t] = calls[t]
        BY <1>1
    <2>3. \A t \in 1..MaxCalls : Awaited(calls'[t]) => Exact(calls[t])'
        BY <2>1, <2>2, ExactKept DEF Calm
    <2>4. (PageComes => PageComes') /\ (DialogComes => DialogComes')
        BY <2>1, <2>2 DEF PageComes, DialogComes
    <2>5. PageTrue => PageTrue'
        BY SamePage
    <2>6. DialogTrue => DialogTrue'
        BY DEF DialogTrue
    <2>. QED
        BY <2>1, <2>2, <2>3, <2>4, <2>5, <2>6 DEF Calm
<1>. QED
    BY <1>2, <1>3, <1>4 DEF QuietInv

\* An answer is shown, followed up, thrown away or sends one away.
LEMMA ReturnQuiet ==
    ASSUME IInv, IInv', TrailInv, QuietInv, NEW s \in 1..MaxCalls, Return(s)
    PROVE  QuietInv'
<1>1. ~Awaited(NoCall) /\ DOMAIN calls = 1..MaxCalls
    BY DEF Awaited, IInv, Calls
<1>2. CASE Receive(s) /\ calls[s].phase \in {"forbidden", "unauthorized"}
    <2>1. page' \notin Panel /\ view' = Blank /\ modal' = NoDialog
        BY <1>2 DEF Receive, Outside, Panel
    <2>. QED
        BY <2>1, AwayQuiet
<1>3. CASE Receive(s) /\ calls[s].phase = "failed"
    <2>1. /\ calls' = [calls EXCEPT ![s] = NoCall] /\ mixed' = TRUE /\ UNCHANGED <<page, view>>
          /\ modal' = IF calls[s].for = "modal" THEN [modal EXCEPT !.loading = FALSE] ELSE modal
        BY <1>3 DEF Receive, Step
    <2>2. CASE calls[s].for = "modal"
        <3>1. modal # NoDialog /\ DOMAIN modal = {"user", "loading", "overrides"}
            <4>1. Awaited(calls[s])
                BY <1>3, <2>2 DEF Receive, Answered, At, Awaited, Open
            <4>. QED
                BY <2>2, <4>1 DEF QuietInv, LiveShape, LiveLoad, LiveChange, PageShape
        <3>2. DOMAIN modal' = {"user", "loading", "overrides"} /\ modal'.user = modal.user
            BY <2>1, <2>2, <3>1
        <3>3. modal' # NoDialog
            BY <3>2 DEF NoDialog
        <3>4. PageShape'
            BY <2>1, <3>1, <3>2, <3>3 DEF QuietInv, PageShape, ListPage
        <3>. QED
            BY <1>1, <2>1, <3>2, <3>3, <3>4, SlotShape DEF QuietInv
    <2>3. CASE calls[s].for # "modal"
        <3>1. PageShape'
            BY <2>1, <2>3 DEF QuietInv, PageShape, ListPage
        <3>. QED
            BY <1>1, <2>1, <2>3, <3>1, SlotShape DEF QuietInv
    <2>. QED
        BY <2>2, <2>3
<1>4. CASE /\ Receive(s) /\ calls[s].for # "closed"
           /\ calls[s].phase \notin {"forbidden", "unauthorized", "failed"}
    BY <1>4, ShowQuiet, FollowQuiet
<1>5. CASE Forget(s)
    <2>1. /\ calls' = [calls EXCEPT ![s] = NoCall] /\ ~Awaited(calls[s])
          /\ UNCHANGED <<store, audit, page, view, modal, mixed>>
        BY <1>5 DEF Forget, Step, Awaited, Open, Browser
    <2>. QED
        BY <1>1, <2>1, UnseenQuiet
<1>6. CASE /\ Receive(s) /\ calls[s].for = "closed"
           /\ calls[s].phase \notin {"forbidden", "unauthorized", "failed"}
    <2>1. PICK next : next = After(s)
        OBVIOUS
    <2>2. calls[s] # NoCall /\ CallShape(calls[s]) /\ calls[s].phase = "ok"
        BY <1>6 DEF Receive, Answered, At, IInv, Calls
    <2>3. ~Awaited(next)
        BY <1>6, <2>1, <2>2, AfterShape DEF Awaited, Open
    <2>4. ~Awaited(calls[s])
        BY <1>6 DEF Awaited, Open
    <2>5. /\ calls' = [calls EXCEPT ![s] = next]
          /\ UNCHANGED <<store, audit, page, view, modal, mixed>>
        BY <1>6, <2>1, <2>2 DEF Receive, Step
    <2>. QED
        BY <2>3, <2>4, <2>5, UnseenQuiet
<1>. QED
    BY <1>2, <1>3, <1>4, <1>5, <1>6 DEF Return

\* Nothing that is read or shown, but perhaps the text of the box, is changed.
LEMMA IdleQuiet ==
    ASSUME IInv, QuietInv, UNCHANGED <<page, modal, calls>>,
           mixed' = TRUE \/ UNCHANGED <<store, audit, mixed>>,
           \/ view' = view
           \/ ListPage /\ \E text \in Texts(page) : view' = [view EXCEPT !.box = text]
    PROVE  QuietInv'
<1>1. /\ PageShape' /\ view'.skip = view.skip /\ view'.rows = view.rows
      /\ view'.total = view.total /\ view'.fresh = view.fresh
    <2>1. CASE view' = view
        BY <2>1 DEF QuietInv, PageShape, ListPage
    <2>2. CASE ListPage /\ \E text \in Texts(page) : view' = [view EXCEPT !.box = text]
        BY <2>2 DEF QuietInv, PageShape, ListPage
    <2>. QED
        BY <2>1, <2>2
<1>2. \A t \in 1..MaxCalls : Awaited(calls'[t]) => LiveShape(calls[t])'
    BY DEF QuietInv, LiveShape, LiveLoad, LiveChange, PageLoad, DialogLoad, ListPage
<1>3. ASSUME page' \in Panel, ~mixed' PROVE Calm'
    <2>1. Calm /\ UNCHANGED <<store, audit, mixed>>
        BY <1>3 DEF QuietInv
    <2>2. \A t \in 1..MaxCalls : Awaited(calls'[t]) => Exact(calls[t])'
        BY <2>1, ExactKept DEF Calm
    <2>3. ListPage /\ ListTrue => ListTrue'
        <3>1. CASE page = "users"
            BY <1>1, <2>1, <3>1, SameLists DEF ListTrue, Texts, CanPrev
        <3>2. CASE page = "audit"
            BY <1>1, <2>1, <3>2, SameLists DEF ListTrue, Texts, CanPrev
        <3>. QED
            BY <3>1, <3>2 DEF ListPage
    <2>4. PageTrue => PageTrue'
        BY <1>1, <2>1, <2>3 DEF PageTrue, ListPage
    <2>5. DialogTrue => DialogTrue'
        BY <2>1 DEF DialogTrue
    <2>6. (PageComes => PageComes') /\ (DialogComes => DialogComes')
        BY DEF PageComes, DialogComes
    <2>. QED
        BY <2>1, <2>2, <2>4, <2>5, <2>6 DEF Calm
<1>. QED
    BY <1>1, <1>2, <1>3 DEF QuietInv

\* The dialog is closed: the page was and stays true.
LEMMA CloseQuiet == ASSUME IInv, QuietInv, CloseFeatures PROVE QuietInv'
<1>1. /\ modal' = NoDialog /\ modal # NoDialog
      /\ UNCHANGED <<store, audit, page, view, mixed>>
    BY DEF CloseFeatures
<1>2. \A t \in 1..MaxCalls : Awaited(calls'[t]) => /\ calls'[t] = calls[t] /\ Awaited(calls[t])
                                                   /\ calls[t].for # "modal"
    BY CloseKeeps DEF Awaited, Open
<1>3. \A t \in 1..MaxCalls : Awaited(calls'[t]) => calls'[t].for = "page"
    BY <1>2 DEF Awaited, Open
<1>4. PageShape'
    BY <1>1 DEF QuietInv, PageShape, ListPage
<1>5. \A t \in 1..MaxCalls : Awaited(calls'[t]) => LiveShape(calls[t])'
    BY <1>1, <1>2, <1>3
    DEF QuietInv, LiveShape, LiveLoad, LiveChange, PageLoad, DialogLoad, ListPage
<1>6. ASSUME page' \in Panel, ~mixed' PROVE Calm'
    <2>1. Calm
        BY <1>1, <1>6 DEF QuietInv
    <2>2. \A t \in 1..MaxCalls : ~Awaited(calls'[t])
        BY <1>1, <1>2, <1>3, <2>1 DEF Calm
    <2>3. ~PageComes
        BY <1>1, <2>1 DEF Calm, PageComes
    <2>4. PageTrue'
        BY <1>1, <2>1, <2>3, SamePage DEF Calm
    <2>5. DialogTrue'
        BY <1>1 DEF DialogTrue
    <2>. QED
        BY <2>2, <2>4, <2>5 DEF Calm
<1>. QED
    BY <1>4, <1>5, <1>6 DEF QuietInv

\* Into the panel, with the load of a page that is still blank; or away from it.
LEMMA GateQuiet ==
    ASSUME IInv, IInv', QuietInv, NEW s \in 1..MaxCalls, GateAnswers(s)
    PROVE  QuietInv'
<1>1. /\ page = "checking" /\ view = Blank /\ modal = NoDialog /\ goal \in Panel
      /\ \A t \in 1..MaxCalls : ~Awaited(calls[t])
    BY DEF GateAnswers, QuietInv, PageShape, IInv, Away, Panel, Awaited, Live, Open
<1>2. CASE Mounted(s, MyRole)
    <2>1. PICK call : call = Load(goal, [skip |-> 0, text |-> ""], "page")
        OBVIOUS
    <2>2. /\ calls' = [calls EXCEPT ![s] = call] /\ page' = goal /\ mixed' = FALSE
          /\ UNCHANGED <<store, audit, view, modal>>
        BY <1>2, <2>1 DEF Mounted
    <2>3. calls'[s] = call /\ \A t \in 1..MaxCalls : t # s => calls'[t] = calls[t]
        BY <2>2 DEF IInv, Calls
    <2>4. LoadShape(call) /\ "op" \notin DOMAIN call
        BY <1>1, <2>1, LoadFacts DEF Loads, Everything, Open, LoadShape
    <2>5. /\ {"q", "got"} \subseteq DOMAIN call /\ call.for = "page" /\ call.name = goal
          /\ call.q.skip = 0 /\ call.q.text = "" /\ call.phase = "sent"
        BY <2>1 DEF Load
    <2>6. call # NoCall
        BY <2>4 DEF LoadShape, Fields, NoCall
    <2>7. \A name : "" \in Texts(name)
        BY AdminAssumption DEF Texts
    <2>8. LiveShape(call)'
        <3>1. PageLoad(call)'
            <4>1. call.name = page'
                BY <2>2, <2>5
            <4>2. call.q.skip \in Nat
                <5>1. call.q.skip = 0
                    BY <2>5
                <5>. QED
                    BY <5>1
            <4>3. call.q.text \in Texts(page')
                BY <2>5, AdminAssumption DEF Texts
            <4>. QED
                BY <2>4, <2>5, <4>1, <4>2, <4>3 DEF PageLoad, LoadShape
        <3>2. LiveLoad(call)'
            BY <2>5, <3>1 DEF LiveLoad
        <3>. QED
            BY <2>4, <3>2 DEF LiveShape
    <2>9. PageShape'
        BY <1>1, <2>2, <2>7 DEF PageShape, Blank, Panel
    <2>10. \A t \in 1..MaxCalls : Awaited(calls'[t]) => t = s
        BY <1>1, <2>3
    <2>11. \A t \in 1..MaxCalls : Awaited(calls'[t]) => LiveShape(calls[t])'
        BY <2>3, <2>8, <2>10 DEF LiveShape
    <2>12. PageTrue' /\ DialogTrue' /\ Exact(calls[s])'
        BY <1>1, <2>2, <2>3, <2>5 DEF PageTrue, Blank, DialogTrue, Exact
    <2>13. Calm'
        BY <1>1, <2>2, <2>10, <2>12 DEF Calm
    <2>. QED
        BY <2>9, <2>11, <2>13 DEF QuietInv
<1>3. CASE (Outside("dashboard") \/ Outside("login")) /\ Stays
    <2>1. page' \notin Panel /\ view' = Blank /\ modal' = NoDialog
        BY <1>3 DEF Outside, Panel
    <2>. QED
        BY <2>1, AwayQuiet
<1>. QED
    BY <1>2, <1>3 DEF GateAnswers

\* Whatever is clicked, answered, lost, or done by others.
LEMMA QuietInvariance == Spec => []QuietInv
<1>1. Init => QuietInv
    <2>. SUFFICES ASSUME Init PROVE QuietInv
        OBVIOUS
    <2>1. page = "dashboard" /\ view = Blank /\ modal = NoDialog
        BY DEF Init
    <2>2. \A s \in 1..MaxCalls : ~Awaited(calls[s])
        BY DEF Init, Awaited
    <2>3. page \notin Panel /\ ~ListPage
        BY <2>1 DEF Panel, ListPage
    <2>4. DOMAIN view = {"rows", "total", "skip", "box", "fresh"} /\ view.skip \in Nat
        BY <2>1 DEF Blank
    <2>. QED
        BY <2>1, <2>2, <2>3, <2>4 DEF QuietInv, PageShape
<1>2. IInv /\ IInv' /\ TrailInv /\ QuietInv /\ [Next]_vars => QuietInv'
    <2>. SUFFICES ASSUME IInv, IInv', TrailInv, QuietInv, [Next]_vars PROVE QuietInv'
        OBVIOUS
    <2>1. CASE UNCHANGED vars \/ Other
        BY <2>1, IdleQuiet DEF vars, Other
    <2>2. CASE \E text \in DOMAIN Matches \cup ActionFilter : TypeText(text)
        BY <2>2, IdleQuiet DEF TypeText, Texts, ListPage
    <2>3. CASE (\E p \in Panel : Visit(p)) \/ (\E p \in {"login", "dashboard"} : Leave(p))
        <3>1. page' \notin Panel /\ view' = Blank /\ modal' = NoDialog
            BY <2>3 DEF Visit, Leave, Outside, Panel
        <3>. QED
            BY <3>1, AwayQuiet
    <2>. QED
        BY <2>1, <2>2, <2>3, GateQuiet, ClickQuiet, GuardQuiet, StatementQuiet, FailQuiet,
           ReturnQuiet, CloseQuiet
        DEF Next, Serve
<1>. QED
    BY <1>1, <1>2, Invariance, TrailInvariance, PTL DEF Spec

\* A page of the panel that has asked for one thing at a time, and whose answers are
\* in, shows what is stored: list pages, plans, flags and the overrides of a user
\* (load, save, Pager, FeatureOverrides).
THEOREM QuietPagesAreTrue == Spec => []QuietPageIsTrue
<1>1. QuietInv => QuietPageIsTrue
    <2>. SUFFICES ASSUME QuietInv, Quiet PROVE view.fresh => PageTrue /\ DialogTrue
        BY DEF QuietPageIsTrue, PageTrue, ListTrue, DialogTrue, Texts
    <2>1. Calm /\ \A s \in 1..MaxCalls : ~Awaited(calls[s])
        BY DEF QuietInv, Quiet, Busy, Awaited
    <2>. QED
        BY <2>1 DEF Calm, PageComes, DialogComes
<1>. QED
    BY <1>1, QuietInvariance, PTL
=============================================================================
