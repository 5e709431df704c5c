------------------------------ MODULE UserPages ------------------------------
(***************************************************************************)
(* The pages of a signed-in household in one browser: login, onboarding,   *)
(* billing and the dashboard with its cards (app/*, components/*, lib/     *)
(* api.ts).  Every card sends its own requests, their answers come in any  *)
(* order or not at all, and the API may have done what it was asked for    *)
(* although the browser sees an error.                                     *)
(***************************************************************************)
EXTENDS Integers, Sequences, FiniteSets, Functions

CONSTANTS Cover,      \* what can be typed into the cover field
          CardSets,   \* the cards of the dashboard that are used in a behaviour
          Tiers,      \* the plans that cost something
          MaxActs,    \* bound on what the user does on the pages
          MaxCalls,   \* bound on requests in flight while the user acts
          Slot,       \* places for requests in flight
          None

Lists   == {"goals", "family"}
Cards   == {"add", "chart", "protection", "coach", "second"} \cup Lists
Forms   == {"login", "onboarding", "billing", "add", "chart", "coach", "second"}

\* What a component asks for when it is mounted.
Loads == [dashboard |-> "load", goals |-> "list", family |-> "list", chart |-> "timeline",
          protection |-> "profile", warning |-> "scan", billing |-> "plans"]

ASSUME UserAssumption ==
    /\ \A cards \in CardSets : cards \subseteq Cards
    /\ MaxActs \in Nat /\ MaxCalls \in Nat /\ "free" \notin Tiers
    /\ Slot \cap DOMAIN Loads = {}

VARIABLES store,     \* what the API keeps of this user
          token,     \* lcos_access is in localStorage
          onboarded, \* lcos_onboarded is
          page,      \* "login", "onboarding", "billing" or "dashboard"
          cards,     \* the cards that are used
          ui,        \* per component what it shows
          busy,      \* the forms whose button is off
          calls,     \* requests in flight: of a slot, or of the component it loads
          acts,      \* what the user did, for the bound
          made,      \* HISTORY: rows the form of now has made, and errors it has shown
          mixed      \* HISTORY: a request failed, or the rows changed unseen, since the
                     \* page was opened

vars == <<store, token, onboarded, page, cards, ui, busy, calls, acts, made, mixed>>
------------------------------------------------------------------------------
(* Requests *)

\* A request of a component: an operation and its argument; what the API
\* answered, once it did; the forms it keeps busy.
Req(of, op, arg, holds) ==
    [of |-> of, op |-> op, arg |-> arg, holds |-> holds, phase |-> "sent", got |-> None]

\* Protection has the scan below it.
Mounted(p) ==
    {p} \cup IF p # "dashboard" THEN {}
            ELSE cards \cup IF "protection" \in cards THEN {"warning"} ELSE {}
Mounts(p) == [c \in Mounted(p) \cap DOMAIN Loads |-> Req(c, Loads[c], None, {})]

Creates == {"addAccount", "saveAccount"}

\* What the API changes; a subscription it starts may have to be paid first.
Effect(r) ==
    CASE r.op \in Creates -> [store EXCEPT !.accounts = @ + 1]
      [] r.op \in {"addRow", "saveGoal"} ->
            [store EXCEPT !.ids = @ + 1, !.rows[r.arg] = @ \cup {store.ids}]
      [] r.op = "removeRow"   -> [store EXCEPT !.rows[r.arg[1]] = @ \ {r.arg[2]}]
      [] r.op = "saveProfile" -> [store EXCEPT !.profile = TRUE]
      [] r.op = "saveCover"   -> [store EXCEPT !.profile = TRUE, !.cover = r.arg]
      [] r.op = "capture"     -> [store EXCEPT !.snapshots = @ + 1]
      [] r.op = "subscribe"   -> [store EXCEPT !.tier = r.arg]
      [] OTHER -> store

\* What it keeps of that which a component shows, and what it answers.
Stored(c) ==
    CASE c = "dashboard" -> store.accounts
      [] c \in Lists     -> store.rows[c]
      [] c = "chart"     -> store.snapshots
      [] c = "billing"   -> store.tier
      [] c \in {"protection", "warning"} -> store.cover

IsLoad(r) == r.of \in DOMAIN Loads /\ r.op = Loads[r.of]
Answer(r) == IF IsLoad(r) THEN Stored(r.of) ELSE None

\* assertAiAccess of the coach and the second opinion.
Denied(r) == r.op \in {"coach", "opinion"} /\ store.tier = "free"
------------------------------------------------------------------------------
(* The browser *)

Shown == [dashboard |-> None, goals |-> {}, family |-> {}, protection |-> "", warning |-> None,
          chart |-> None, coach |-> <<>>, second |-> None, add |-> FALSE,
          onboarding |-> 1, billing |-> None, login |-> "request", starting |-> None, locked |-> {}]

NoneMade == [rows |-> 0, errors |-> 0]
NoCalls  == [n \in {} |-> None]

\* Requests under way, and more of them.
And(sent, more) ==
    [n \in DOMAIN sent \cup DOMAIN more |-> IF n \in DOMAIN sent THEN sent[n] ELSE more[n]]
One(n, r) == [k \in {n} |-> r]

Changes == Creates \cup {"addRow", "removeRow", "saveGoal", "saveProfile", "saveCover",
                         "capture", "subscribe"}

\* What the API was asked to change goes on without the page.
Gone == [n \in {k \in DOMAIN calls : calls[k].op \in Changes /\ calls[k].phase = "sent"} |->
            [calls[n] EXCEPT !.of = "gone"]]

\* window.location.href, a link or an address: the page is loaded afresh, and
\* without a token every page but login leads there.
Open(p, signedIn) ==
    LET q == IF signedIn THEN p ELSE "login"
    IN  /\ page' = q
        /\ ui' = Shown /\ busy' = {} /\ made' = NoneMade /\ mixed' = FALSE
        /\ calls' = And(Gone, Mounts(q))

Pages == {"login", "onboarding", "billing", "dashboard"}

Visit(p) ==
    /\ Open(p, token)
    /\ UNCHANGED <<store, token, onboarded, cards, acts>>

\* Sign out.
Logout ==
    /\ page = "dashboard" /\ acts < MaxActs /\ acts' = acts + 1
    /\ token' = FALSE
    /\ Open("login", FALSE)
    /\ UNCHANGED <<store, onboarded, cards>>

Act(r) ==
    /\ acts < MaxActs /\ acts' = acts + 1
    /\ Cardinality(DOMAIN calls) < MaxCalls /\ Slot \ DOMAIN calls # {}
    /\ calls' = And(calls, One(CHOOSE k \in Slot \ DOMAIN calls : TRUE, r))
    /\ busy' = busy \cup r.holds
    /\ mixed' = (mixed \/ DOMAIN calls # {})
    /\ UNCHANGED <<store, token, onboarded, page, cards>>

On(p, c) == page = p /\ c \notin busy
Card(c) == page = "dashboard" /\ c \in cards

\* EmailAuth.submit: its button is off meanwhile, but Enter sends again; and the two
\* steps of PhoneAuth, which are not guarded.
SignIn ==
    /\ page = "login" /\ Act(Req("login", "signIn", None, {"login"}))
    /\ UNCHANGED <<ui, made>>
Phone ==
    /\ page = "login"
    /\ Act(Req("login", IF ui.login = "request" THEN "requestOtp" ELSE "signIn", None, {}))
    /\ UNCHANGED <<ui, made>>

\* Onboarding: the profile, an account if a balance was typed, a goal likewise.
SaveProfile ==
    /\ On("onboarding", "onboarding") /\ ui.onboarding = 1
    /\ Act(Req("onboarding", "saveProfile", None, {"onboarding"}))
    /\ UNCHANGED <<ui, made>>
SaveAccount ==
    /\ On("onboarding", "onboarding") /\ ui.onboarding = 2
    /\ \/ Act(Req("onboarding", "saveAccount", None, {"onboarding"})) /\ UNCHANGED <<ui, made>>
       \/ /\ acts < MaxActs /\ acts' = acts + 1
          /\ ui' = [ui EXCEPT !.onboarding = 3]
          /\ UNCHANGED <<store, token, onboarded, page, cards, busy, calls, made, mixed>>

Done ==
    /\ onboarded' = TRUE
    /\ Open("dashboard", TRUE)
    /\ UNCHANGED <<store, token, cards>>

\* finish without a goal, and skip at any step.
Finish ==
    /\ page = "onboarding" /\ acts < MaxActs /\ acts' = acts + 1
    /\ Done
SaveGoal ==
    /\ On("onboarding", "onboarding") /\ ui.onboarding = 3
    /\ Act(Req("onboarding", "saveGoal", "goals", {"onboarding"}))
    /\ UNCHANGED <<ui, made>>

\* AddAccount: the form opens and is cancelled at any time, a complete form is sent.
ToggleForm ==
    /\ Card("add")
    /\ ui' = [ui EXCEPT !.add = ~@] /\ made' = NoneMade
    /\ UNCHANGED <<store, token, onboarded, page, cards, busy, calls, acts, mixed>>

\* FAULT: the button stays on while the request is under way.
AddAccountTwice ==
    /\ Card("add") /\ ui.add
    /\ Act(Req("add", "addAccount", None, {"add"}))
    /\ UNCHANGED <<ui, made>>

AddAccount ==
    /\ Card("add") /\ ui.add /\ "add" \notin busy
    /\ Act(Req("add", "addAccount", None, {"add"}))
    /\ UNCHANGED <<ui, made>>

\* Goals and Family: add and remove, as often as one clicks.
ChangeList(c) ==
    /\ Card(c)
    /\ \/ Act(Req(c, "addRow", c, {}))
       \/ \E id \in ui[c] : Act(Req(c, "removeRow", <<c, id>>, {}))
    /\ UNCHANGED <<ui, made>>

TypeCover(value) ==
    /\ Card("protection") /\ value # ui.protection
    /\ ui' = [ui EXCEPT !.protection = value]
    /\ UNCHANGED <<store, token, onboarded, page, cards, busy, calls, acts, made, mixed>>
SaveCover ==
    /\ Card("protection") /\ Act(Req("protection", "saveCover", ui.protection, {}))
    /\ UNCHANGED <<ui, made>>

Capture ==
    /\ Card("chart") /\ "chart" \notin busy /\ Act(Req("chart", "capture", None, {"chart"}))
    /\ UNCHANGED <<ui, made>>

\* FAULT: Enter sends while an answer is outstanding.
SendUnguarded ==
    /\ Card("coach") /\ "coach" \notin ui.locked
    /\ Act(Req("coach", "coach", Append(ui.coach, "user"), {"coach"}))
    /\ ui' = [ui EXCEPT !.coach = Append(@, "user")]
    /\ UNCHANGED made

\* WealthCoach.send: the conversation of this moment goes with the request.
Send ==
    /\ Card("coach") /\ "coach" \notin ui.locked /\ "coach" \notin busy
    /\ Act(Req("coach", "coach", Append(ui.coach, "user"), {"coach"}))
    /\ ui' = [ui EXCEPT !.coach = Append(@, "user")]
    /\ UNCHANGED made

SecondOpinion ==
    /\ Card("second") /\ "second" \notin ui.locked /\ "second" \notin busy
    /\ Act(Req("second", "opinion", None, {"second"}))
    /\ UNCHANGED <<ui, made>>

\* The button of the current plan and of the plan being started last is off.
Subscribe(tier) ==
    /\ page = "billing" /\ ui.billing \notin {None, tier}
    /\ "billing" \in busy => ui.starting # tier
    /\ Act(Req("billing", "subscribe", tier, {"billing"}))
    /\ ui' = [ui EXCEPT !.starting = tier]
    /\ UNCHANGED made
------------------------------------------------------------------------------
(* Answers *)

\* The API does what it is asked for, and the browser learns of it or not; or
\* the request fails.
Serve(n) ==
    LET r == calls[n]
        Ends(phase) ==
            calls' = IF r.of = "gone" THEN Restrict(calls, DOMAIN calls \ {n})
                     ELSE [calls EXCEPT ![n].phase = phase,
                                        ![n].got = IF phase = "ok" THEN Answer(r) ELSE None]
    IN  /\ r.phase = "sent"
        /\ \/ /\ ~Denied(r)
              /\ store' \in {Effect(r)} \cup (IF r.op = "subscribe" THEN {store} ELSE {})
              /\ \E phase \in {"ok"} \cup (IF r.op \in Changes THEN {"failed"} ELSE {}) : Ends(phase)
              /\ made' = IF r.op \in Creates /\ r.of # "gone" THEN [made EXCEPT !.rows = @ + 1]
                         ELSE made
           \/ Denied(r) /\ Ends("denied") /\ UNCHANGED <<store, made>>
           \/ Ends("failed") /\ UNCHANGED <<store, made>>
        /\ mixed' = (mixed \/ r.of = "gone")
        /\ UNCHANGED <<token, onboarded, page, cards, ui, busy, acts>>

\* FAULT: the dashboard is not loaded again after an account was added.
NoFollow(r) == <<>>

\* What a component sends once its request succeeded.
Follow(r) ==
    CASE r.op = "addAccount" -> <<Req("dashboard", "load", None, {})>>
      [] r.op \in {"addRow", "removeRow"} -> <<Req(r.of, "list", None, {})>>
      [] r.op = "saveCover"  -> <<Req("warning", "scan", None, {})>>
      [] r.op = "capture"    -> <<Req("chart", "timeline", None, r.holds)>>
      [] r.op = "subscribe"  -> <<Req("billing", "plans", None, r.holds)>>
      [] OTHER -> <<>>

\* What a component may show once its request failed: the billing page takes a
\* user whose entitlements it cannot get for a free one.
Failed(r) ==
    CASE r.op = "timeline" -> {[ui EXCEPT !.chart = 0]}
      [] r.op = "scan"     -> {[ui EXCEPT !.warning = "error"]}
      [] r.op = "plans"    -> {ui, [ui EXCEPT !.billing = "free"]}
      [] r.op = "coach"    -> {[ui EXCEPT !.locked = @ \cup {"coach"}]}
      [] r.op = "opinion" /\ r.phase = "denied" -> {[ui EXCEPT !.locked = @ \cup {"second"}]}
      [] OTHER -> {ui}

\* What it shows once its request succeeded; a profile without a cover leaves
\* what was typed, a new scan starts from nothing.
Succeeded(r) ==
    CASE IsLoad(r) /\ r.op # "profile" -> [ui EXCEPT ![r.of] = r.got]
      [] r.op = "profile"     -> IF r.got = "" THEN ui ELSE [ui EXCEPT !.protection = r.got]
      [] r.op = "requestOtp"  -> [ui EXCEPT !.login = "verify"]
      [] r.op = "saveProfile" -> [ui EXCEPT !.onboarding = 2]
      [] r.op = "saveAccount" -> [ui EXCEPT !.onboarding = 3]
      [] r.op = "addAccount"  -> [ui EXCEPT !.add = FALSE]
      [] r.op = "saveCover"   -> [ui EXCEPT !.warning = None]
      [] r.op = "coach"       -> [ui EXCEPT !.coach = Append(r.arg, "assistant")]
      [] r.op = "opinion"     -> [ui EXCEPT !.second = "review"]
      [] OTHER -> ui

\* The other requests; the scan of a card that is replaced is of no use.
Rest(n) ==
    Restrict(calls, {k \in DOMAIN calls \ {n} :
        ~(calls[n].op = "saveCover" /\ calls[n].phase = "ok" /\ calls[k].op = "scan")})

\* FAULT: the button is given back only when all went well.
FreesIfOk(r) == IF r.phase = "ok" THEN r.holds ELSE {}

\* The forms that are free again: not before what follows has been shown.
Frees(r) ==
    IF r.phase = "ok" /\ Follow(r) # <<>> THEN r.holds \ Follow(r)[1].holds ELSE r.holds

\* A failing load of the dashboard leads to the login page.
ReceiveError(n) ==
    LET r == calls[n]
    IN  /\ r.phase \in {"failed", "denied"}
        /\ IF r.op = "load" THEN Open("login", FALSE)
           ELSE /\ ui' \in Failed(r)
                /\ busy' = busy \ Frees(r)
                /\ calls' = Rest(n)
                /\ made' = IF r.op \in Creates THEN [made EXCEPT !.errors = @ + 1] ELSE made
                /\ mixed' = TRUE
                /\ UNCHANGED page
        /\ UNCHANGED <<store, token, onboarded, cards, acts>>

\* A household without accounts is sent to the onboarding, once.
SentToOnboarding(r) == r.op = "load" /\ r.got = 0 /\ ~onboarded

ReceiveOk(n) ==
    LET r == calls[n]
    IN  /\ r.phase = "ok"
        /\ CASE r.op = "signIn" ->
                  /\ token' = TRUE
                  /\ Open("dashboard", TRUE)
                  /\ UNCHANGED <<store, onboarded, cards>>
             [] r.op = "saveGoal" -> Done
             [] SentToOnboarding(r) ->
                  /\ Open("onboarding", TRUE)
                  /\ UNCHANGED <<store, token, onboarded, cards>>
             [] OTHER ->
                  /\ ui' = Succeeded(r)
                  /\ calls' = IF Follow(r) = <<>> THEN Rest(n) ELSE And(Rest(n), One(n, Follow(r)[1]))
                  /\ busy' = busy \ Frees(r)
                  /\ UNCHANGED <<store, token, onboarded, page, cards, made, mixed>>
        /\ UNCHANGED acts

------------------------------------------------------------------------------
Init ==
    /\ store \in [accounts : {0, 1}, rows : {[c \in Lists |-> {}]}, ids : {0}, profile : {FALSE},
                  cover : {""}, snapshots : {0}, tier : {"free"} \cup Tiers]
    /\ token \in BOOLEAN /\ onboarded = FALSE
    /\ page = "login" /\ cards \in CardSets
    /\ ui = Shown /\ busy = {} /\ calls = NoCalls /\ acts = 0
    /\ made = NoneMade /\ mixed = FALSE

User ==
    \/ \E p \in Pages : Visit(p)
    \/ Logout \/ SignIn \/ Phone
    \/ SaveProfile \/ SaveAccount \/ SaveGoal \/ Finish
    \/ ToggleForm \/ AddAccount \/ SaveCover \/ Capture \/ Send \/ SecondOpinion
    \/ \E c \in Lists : ChangeList(c)
    \/ \E value \in Cover : TypeCover(value)
    \/ \E tier \in Tiers : Subscribe(tier)

Network == \E n \in DOMAIN calls : Serve(n) \/ ReceiveOk(n) \/ ReceiveError(n)

Next == User \/ Network

Spec == Init /\ [][Next]_vars

\* Requests end, one way or the other; nobody is made to click.
FairSpec == Spec /\ WF_vars(Network)
------------------------------------------------------------------------------
(* Properties *)

\* A form adds one account for every time it was sent off, and is sent off again
\* only after it has shown an error: a household finds at most one account more
\* than the errors it was told about (AddAccount, saveAccount).
NoUnnoticedDouble == made.rows <= 1 + made.errors

\* The conversation sent to the coach alternates between the two and begins with
\* the user, and nothing is pending once the coach has the last word
\* (WealthCoach.send, whose replies append to the conversation as it was sent).
ChatAlternates ==
    /\ \A n \in DOMAIN ui.coach : ui.coach[n] = (IF n % 2 = 1 THEN "user" ELSE "assistant")
    /\ Len(ui.coach) % 2 = 0 => "coach" \notin busy
    /\ "coach" \in busy \/ "coach" \in ui.locked \/ Len(ui.coach) % 2 = 0

\* A page that asked for one thing at a time and whose answers have all come in
\* without an error shows what the API keeps: the accounts,
\* lists, timeline, the scan of the protection as it was saved, the plan.
SettledPageIsTrue ==
    (DOMAIN calls = {} /\ ~mixed) =>
        /\ page = "dashboard" =>
              /\ ui.dashboard = store.accounts
              /\ \A c \in cards \cap Lists : ui[c] = store.rows[c]
              /\ "chart" \in cards => ui.chart = store.snapshots
              /\ "protection" \in cards => ui.warning = store.cover
        /\ page = "billing" => ui.billing = store.tier

\* Every form can be used again after it was sent off (the finally blocks).
FormsComeBack == \A form \in Forms : []<>(form \notin busy)
=============================================================================
