----------------------------- MODULE PageProofs -----------------------------
(***************************************************************************)
(* For any cards, any number of requests in flight and answers in any      *)
(* order: what the pages of a household show, and what a form adds.        *)
(***************************************************************************)
EXTENDS UserPages, TLAPS

\* What a component sends, and the page that it is on.
Sends(c, op) ==
    \/ c = "login" /\ op \in {"signIn", "requestOtp"}
    \/ c = "onboarding" /\ op \in {"saveProfile", "saveAccount", "saveGoal"}
    \/ c = "billing" /\ op \in {"plans", "subscribe"}
    \/ c = "dashboard" /\ op = "load"
    \/ c \in Lists /\ op \in {"list", "addRow", "removeRow"}
    \/ c = "chart" /\ op \in {"timeline", "capture"}
    \/ c = "protection" /\ op \in {"profile", "saveCover"}
    \/ c = "warning" /\ op = "scan"
    \/ c = "coach" /\ op = "coach"
    \/ c = "add" /\ op = "addAccount"
    \/ c = "second" /\ op = "opinion"

PageOf(c) == IF c \in {"login", "onboarding", "billing"} THEN c ELSE "dashboard"

Live(n) == calls[n].of # "gone"

\* What may be under way for a component: forms are held by what they send, rows of
\* a list are of that list.
Proper(r) ==
    /\ Sends(r.of, r.op)
    /\ r.holds \subseteq {r.of} \cap Forms
    /\ r.op \in Changes \cup {"coach"} /\ r.of \in Forms => r.holds = {r.of}
    /\ r.op = "addRow" => r.arg = r.of
    /\ r.op = "removeRow" => r.arg[1] = r.of

\* Requests are those of this page; of a page that was left, changes on their way.
RequestOK(r) ==
    /\ r = [of |-> r.of, op |-> r.op, arg |-> r.arg, holds |-> r.holds,
            phase |-> r.phase, got |-> r.got]
    /\ r.phase \in {"sent", "ok", "failed", "denied"}
    /\ IF r.of = "gone" THEN r.op \in Changes /\ r.phase = "sent"
       ELSE Proper(r) /\ PageOf(r.of) = page

\* The API's tables and the page have their parts, and only what a component loads
\* is not in a slot.
StateOK ==
    /\ store = [accounts |-> store.accounts, rows |-> store.rows, ids |-> store.ids,
                profile |-> store.profile, cover |-> store.cover,
                snapshots |-> store.snapshots, tier |-> store.tier]
    /\ DOMAIN store.rows = Lists
    /\ page \in Pages /\ cards \subseteq Cards
    /\ DOMAIN ui = DOMAIN Shown
    /\ busy \subseteq Forms
    /\ made \in [rows : Nat, errors : Nat]
    /\ mixed \in BOOLEAN
    /\ \A n \in DOMAIN calls : RequestOK(calls[n])
    /\ \A n \in DOMAIN calls \ Slot : IsLoad(calls[n])

\* The forms that can be sent off again before the answer is in: with Enter, or for
\* another plan.
Resent == {"login", "billing"}

\* A form has at most one request under way, and is busy with it, but for these; and a
\* form is busy only with a request of this page.
OneEach ==
    /\ \A n, k \in DOMAIN calls :
          Live(n) /\ Live(k) /\ (calls[n].holds \cap calls[k].holds) \ Resent # {} => n = k
    /\ \A n \in DOMAIN calls : Live(n) => calls[n].holds \ Resent \subseteq busy
    /\ \A form \in busy : \E n \in DOMAIN calls : Live(n) /\ form \in calls[n].holds

\* The household was told of every account but one, which is that of a request
\* the API has answered or of a form that is closed.
Creating(n) == Live(n) /\ calls[n].op \in Creates
Closed ==
    CASE page = "dashboard"  -> ~ui.add
      [] page = "onboarding" -> ui.onboarding = 3
      [] OTHER -> TRUE
TellsAll ==
    /\ made.rows <= 1 + made.errors
    /\ made.rows > made.errors =>
          Closed \/ \E n \in DOMAIN calls : Creating(n) /\ calls[n].phase # "sent"
    /\ \A n \in DOMAIN calls : Creating(n) /\ calls[n].phase = "sent" => made.rows <= made.errors
    /\ \A n \in DOMAIN calls : Live(n) /\ calls[n].op = "saveProfile" => ui.onboarding = 1

\* A question under way is the conversation as it is shown.
Chat ==
    /\ ui.coach \in Seq({"user", "assistant"})
    /\ ChatAlternates
    /\ \A n \in DOMAIN calls :
          Live(n) /\ calls[n].op = "coach" =>
              /\ calls[n].arg = ui.coach /\ Len(ui.coach) % 2 = 1

\* A request that brings a component up to date: its load, or one that this follows.
Renews(r, c) == \/ r.of = c /\ r.op = Loads[c]
                \/ Follow(r) # <<>> /\ Follow(r)[1].of = c

Showing == (Mounted(page) \cap DOMAIN Loads) \ {"protection"}

\* As long as one thing was asked for at a time, what a component shows is what is
\* stored, or a request is under way that renews it, and the answers are not old.
Settles ==
    ~mixed =>
        /\ \A n \in DOMAIN calls : Live(n) /\ ~IsLoad(calls[n]) => DOMAIN calls = {n}
        /\ \A n \in DOMAIN calls :
              Live(n) /\ calls[n].of \in Showing /\ IsLoad(calls[n]) /\ calls[n].phase = "ok"
                  => calls[n].got = Stored(calls[n].of)
        /\ \A c \in Showing :
              ui[c] = Stored(c) \/ \E n \in DOMAIN calls : Live(n) /\ Renews(calls[n], c)

IInv == StateOK /\ OneEach /\ TellsAll /\ Chat /\ Settles
------------------------------------------------------------------------------
(* Requests *)

\* The loads, one by one.
LEMMA LoadFacts ==
    /\ DOMAIN Loads = {"dashboard", "goals", "family", "chart", "protection", "warning", "billing"}
    /\ Loads["dashboard"] = "load" /\ Loads["goals"] = "list" /\ Loads["family"] = "list"
    /\ Loads["chart"] = "timeline" /\ Loads["protection"] = "profile"
    /\ Loads["warning"] = "scan" /\ Loads["billing"] = "plans"
BY DEF Loads

\* A load changes nothing and is what its component sends.
LEMMA LoadsAreSent ==
    ASSUME NEW c \in DOMAIN Loads
    PROVE  /\ Sends(c, Loads[c]) /\ Loads[c] \notin Changes
           /\ Loads[c] \notin {"coach", "saveProfile", "addRow", "removeRow"} \cup Creates
BY LoadFacts DEF Sends, Lists, Changes, Creates

\* The parts of a request.
LEMMA ReqParts ==
    ASSUME NEW of, NEW op, NEW arg, NEW holds
    PROVE  LET r == Req(of, op, arg, holds) IN
           /\ r.of = of /\ r.op = op /\ r.arg = arg /\ r.holds = holds
           /\ r.phase = "sent" /\ r.got = None
           /\ r = [of |-> r.of, op |-> r.op, arg |-> r.arg, holds |-> r.holds,
                   phase |-> r.phase, got |-> r.got]
BY DEF Req

\* Requests that are under way stay, and others join them.
LEMMA Joined ==
    ASSUME NEW f, NEW g
    PROVE  /\ DOMAIN And(f, g) = DOMAIN f \cup DOMAIN g
           /\ \A n \in DOMAIN f : And(f, g)[n] = f[n]
           /\ \A n \in DOMAIN g \ DOMAIN f : And(f, g)[n] = g[n]
BY DEF And

\* What follows a request is the load of a component of the same page, which
\* holds what the request held or nothing.
LEMMA FollowFacts ==
    ASSUME NEW r, Sends(r.of, r.op), Follow(r) # <<>>
    PROVE  \E c \in DOMAIN Loads, holds \in {{}, r.holds} :
              /\ Follow(r) = <<Req(c, Loads[c], None, holds)>>
              /\ Follow(r)[1] = Req(c, Loads[c], None, holds)
              /\ PageOf(c) = PageOf(r.of)
              /\ holds # {} => c = r.of
              /\ c \in Lists => c = r.of
              /\ r.op # "coach" /\ ~IsLoad(r)
<1>1. CASE r.op = "addAccount"
    BY <1>1, LoadFacts DEF Follow, Sends, PageOf, Lists, IsLoad
<1>2. CASE r.op \in {"addRow", "removeRow"}
    BY <1>2, LoadFacts DEF Follow, Sends, PageOf, Lists, IsLoad
<1>3. CASE r.op = "saveCover"
    BY <1>3, LoadFacts DEF Follow, Sends, PageOf, Lists, IsLoad
<1>4. CASE r.op = "capture"
    BY <1>4, LoadFacts DEF Follow, Sends, PageOf, Lists, IsLoad
<1>5. CASE r.op = "subscribe"
    BY <1>5, LoadFacts DEF Follow, Sends, PageOf, Lists, IsLoad
<1>6. CASE r.op \notin {"addAccount", "addRow", "removeRow", "saveCover", "capture", "subscribe"}
    BY <1>6 DEF Follow
<1>. QED
    BY <1>1, <1>2, <1>3, <1>4, <1>5, <1>6
------------------------------------------------------------------------------
(* Something is asked for *)

\* A request that a component of this page may send now.
Asked(r) ==
    /\ r = Req(r.of, r.op, r.arg, r.holds)
    /\ Proper(r) /\ PageOf(r.of) = page /\ ~IsLoad(r)
    /\ (r.holds \ Resent) \cap busy = {}
    /\ r.op \in Creates => made.rows <= made.errors
    /\ r.op = "saveProfile" => ui.onboarding = 1

\* It joins those under way, and unless it is the only one the page is mixed.
LEMMA ActEffect ==
    ASSUME NEW r, Act(r), mixed \in BOOLEAN
    PROVE  /\ \E k \in Slot :
                    /\ k \notin DOMAIN calls /\ DOMAIN calls' = DOMAIN calls \cup {k}
                    /\ calls'[k] = r /\ \A n \in DOMAIN calls : calls'[n] = calls[n]
           /\ busy' = busy \cup r.holds
           /\ mixed' \in BOOLEAN /\ (~mixed' => ~mixed /\ DOMAIN calls = {})
           /\ UNCHANGED <<store, page, cards>>
<1>1. PICK k \in Slot \ DOMAIN calls : calls' = And(calls, One(k, r))
    BY DEF Act
<1>2. DOMAIN One(k, r) = {k} /\ One(k, r)[k] = r
    BY DEF One
<1>3. /\ DOMAIN calls' = DOMAIN calls \cup {k}
      /\ calls'[k] = r /\ \A n \in DOMAIN calls : calls'[n] = calls[n]
    <2> DEFINE more == One(k, r)
    <2> HIDE DEF more
    <2>1. calls' = And(calls, more) /\ DOMAIN more = {k} /\ more[k] = r
        BY <1>1, <1>2 DEF more
    <2>. QED
        BY <1>1, <2>1 DEF And
<1>. QED
    BY <1>1, <1>3 DEF Act

\* What is kept, and where a page is loaded from, is not told from the page.
LEMMA SameShowing ==
    ASSUME page' = page, cards' = cards
    PROVE  /\ Showing' = Showing
           /\ store' = store => \A c \in Showing : Stored(c)' = Stored(c)
BY DEF Showing, Mounted, Stored

\* Asking keeps all but the conversation right.
LEMMA ActStep ==
    ASSUME StateOK, OneEach, TellsAll, Settles, NEW r, Act(r), Asked(r), made' = made,
           DOMAIN ui' = DOMAIN ui,
           \A c \in DOMAIN ui \ {"coach", "starting"} : ui'[c] = ui[c]
    PROVE  StateOK' /\ OneEach' /\ TellsAll' /\ Settles'
<1>1. PICK k \in Slot :
               /\ k \notin DOMAIN calls /\ DOMAIN calls' = DOMAIN calls \cup {k}
               /\ calls'[k] = r /\ \A n \in DOMAIN calls : calls'[n] = calls[n]
    BY ActEffect DEF StateOK
<1>2. /\ busy' = busy \cup r.holds
      /\ mixed' \in BOOLEAN /\ (~mixed' => ~mixed /\ DOMAIN calls = {})
      /\ store' = store /\ page' = page /\ cards' = cards
    BY ActEffect DEF StateOK
<1>3. r.of # "gone" /\ r.phase = "sent" /\ RequestOK(r)
    BY ReqParts DEF Asked, Proper, Sends, Lists, RequestOK
<1>4. StateOK'
    <2>1. \A n \in DOMAIN calls' : RequestOK(calls'[n])
        BY <1>1, <1>3 DEF StateOK
    <2>2. (\A n \in DOMAIN calls : RequestOK(calls[n]))'
        BY <1>2, <2>1 DEF RequestOK
    <2>3. busy' \subseteq Forms
        BY <1>2 DEF StateOK, Asked, Proper, Sends, Lists, Forms
    <2>4. (\A n \in DOMAIN calls \ Slot : IsLoad(calls[n]))'
        BY <1>1 DEF StateOK
    <2>. QED
        BY <1>2, <2>2, <2>3, <2>4 DEF StateOK
<1>5. OneEach'
    <2>1. ASSUME NEW n \in DOMAIN calls, Live(n)
          PROVE  (calls[n].holds \cap r.holds) \ Resent = {}
        BY <2>1 DEF OneEach, Asked
    <2>2. \A n \in DOMAIN calls : Live(n)' <=> Live(n)
        BY <1>1 DEF Live
    <2>3. Live(k)'
        BY <1>1, <1>3 DEF Live
    <2>4. (\A n, m \in DOMAIN calls :
             Live(n) /\ Live(m) /\ (calls[n].holds \cap calls[m].holds) \ Resent # {}
                => n = m)'
        BY <1>1, <2>1, <2>2 DEF OneEach
    <2>5. (\A n \in DOMAIN calls : Live(n) => calls[n].holds \ Resent \subseteq busy)'
        BY <1>1, <1>2, <2>2 DEF OneEach
    <2>6. (\A form \in busy : \E n \in DOMAIN calls : Live(n) /\ form \in calls[n].holds)'
        BY <1>1, <1>2, <2>2, <2>3 DEF OneEach
    <2>. QED
        BY <2>4, <2>5, <2>6 DEF OneEach
<1>6. TellsAll'
    <2>1. Closed' = Closed /\ ui'.onboarding = ui.onboarding
        BY <1>2 DEF Closed, StateOK, Shown
    <2>2. \A n \in DOMAIN calls : Creating(n)' = Creating(n) /\ Live(n)' = Live(n)
        BY <1>1 DEF Creating, Live
    <2>. QED
        BY <1>1, <1>3, <2>1, <2>2 DEF TellsAll, Creating, Live, Asked
<1>7. Settles'
    <2>. SUFFICES ASSUME ~mixed' PROVE Settles'
        BY DEF Settles
    <2>1. DOMAIN calls = {} /\ DOMAIN calls' = {k} /\ ~mixed
        BY <1>1, <1>2
    <2>2. \A c \in Showing : c \in DOMAIN ui \ {"coach", "starting"}
        BY LoadFacts DEF Showing, StateOK, Shown
    <2>3. \A c \in Showing' : ui'[c] = Stored(c)'
        BY <1>2, <2>1, <2>2, SameShowing DEF Settles
    <2>4. ~IsLoad(calls'[k])
        BY <1>1 DEF Asked
    <2>. QED
        BY <2>1, <2>3, <2>4 DEF Settles
<1>. QED
    BY <1>4, <1>5, <1>6, <1>7

\* Asking for anything but an answer of the coach leaves the conversation as it is.
LEMMA AskStep ==
    ASSUME IInv, NEW r, Act(r), Asked(r), r.op # "coach", made' = made,
           ui' = ui \/ \E tier \in Tiers : ui' = [ui EXCEPT !.starting = tier]
    PROVE  IInv'
<1>1. /\ DOMAIN ui' = DOMAIN ui /\ ui'.coach = ui.coach /\ ui'.locked = ui.locked
      /\ \A c \in DOMAIN ui \ {"coach", "starting"} : ui'[c] = ui[c]
    BY DEF IInv, StateOK, Shown
<1>2. StateOK' /\ OneEach' /\ TellsAll' /\ Settles'
    BY <1>1, ActStep DEF IInv
<1>3. PICK k : /\ DOMAIN calls' = DOMAIN calls \cup {k}
               /\ calls'[k] = r /\ \A n \in DOMAIN calls : calls'[n] = calls[n]
    BY ActEffect DEF IInv, StateOK
<1>4. busy' = busy \cup r.holds /\ "coach" \notin r.holds
    BY ActEffect DEF IInv, StateOK, Asked, Proper, Sends, Lists
<1>5. ChatAlternates'
    BY <1>1, <1>4 DEF IInv, Chat, ChatAlternates
<1>6. \A n \in DOMAIN calls' :
          calls'[n].of # "gone" /\ calls'[n].op = "coach" =>
              calls'[n].arg = ui'.coach /\ Len(ui'.coach) % 2 = 1
    BY <1>1, <1>3 DEF IInv, Chat, Live
<1>7. Chat'
    BY <1>1, <1>5, <1>6 DEF IInv, Chat, Live
<1>. QED
    BY <1>2, <1>7 DEF IInv

\* What a component needs for its request to be right.
May(of, op, arg, holds) ==
    /\ Sends(of, op) /\ PageOf(of) = page
    /\ op \notin {"load", "list", "timeline", "profile", "scan", "plans"}
    /\ \/ holds = {of} /\ of \in Forms /\ of \notin busy \ Resent
       \/ holds = {} /\ ~(op \in Changes \cup {"coach"} /\ of \in Forms)
    /\ op = "addRow" => arg = of
    /\ op = "removeRow" => arg[1] = of
    /\ op \in Creates => made.rows <= made.errors
    /\ op = "saveProfile" => ui.onboarding = 1

LEMMA MayAsk ==
    ASSUME NEW of, NEW op, NEW arg, NEW holds, May(of, op, arg, holds)
    PROVE  /\ Asked(Req(of, op, arg, holds)) /\ Req(of, op, arg, holds).op = op
           /\ Req(of, op, arg, holds).of = of /\ Req(of, op, arg, holds).arg = arg
           /\ Req(of, op, arg, holds).holds = holds
<1>1. PICK r : r = Req(of, op, arg, holds)
    OBVIOUS
<1>2. /\ r.of = of /\ r.op = op /\ r.arg = arg /\ r.holds = holds
    BY <1>1, ReqParts
<1>3. ~IsLoad(r)
    BY <1>2, LoadFacts DEF IsLoad, May
<1>4. r.holds \subseteq {r.of} \cap Forms
    BY <1>2 DEF May
<1>5. Proper(r)
    BY <1>2, <1>4 DEF Proper, May
<1>6. (r.holds \ Resent) \cap busy = {}
    BY <1>2 DEF May
<1>7. /\ r.op \in Creates => made.rows <= made.errors
      /\ r.op = "saveProfile" => ui.onboarding = 1
    BY <1>2 DEF May
<1>8. PageOf(r.of) = page /\ r = Req(r.of, r.op, r.arg, r.holds)
    BY <1>1, <1>2 DEF May
<1>. QED
    BY <1>1, <1>2, <1>3, <1>5, <1>6, <1>7, <1>8 DEF Asked

\* A form that is free and open has told of every account it made.
LEMMA NothingOwed ==
    ASSUME IInv, ~Closed, NEW form \in {"add", "onboarding"}, PageOf(form) = page,
           form \notin busy
    PROVE  made.rows <= made.errors
<1>1. ASSUME NEW n \in DOMAIN calls, Creating(n) PROVE FALSE
    <2>1. Live(n) /\ RequestOK(calls[n]) /\ calls[n].op \in Creates
        BY <1>1 DEF Creating, IInv, StateOK
    <2>2. Proper(calls[n]) /\ PageOf(calls[n].of) = page
        BY <2>1 DEF RequestOK, Live
    <2>3. calls[n].of = form /\ calls[n].of \in Forms
        BY <2>1, <2>2 DEF Proper, Sends, PageOf, Creates, Lists, Forms
    <2>4. calls[n].holds = {form}
        BY <2>1, <2>2, <2>3 DEF Proper, Creates, Changes
    <2>. QED
        BY <2>1, <2>4 DEF IInv, OneEach, Resent
<1>. QED
    BY <1>1 DEF IInv, TellsAll, StateOK

\* Every request of a form, a list or a card but the coach's.
LEMMA AskSteps ==
    ASSUME IInv,
           \/ SignIn \/ Phone \/ SaveProfile \/ SaveGoal \/ AddAccount \/ SaveCover
           \/ Capture \/ SecondOpinion \/ \E c \in Lists : ChangeList(c)
           \/ \E tier \in Tiers : Subscribe(tier)
    PROVE  IInv'
<1>. DEFINE Sound(of, op, arg, holds) ==
            Act(Req(of, op, arg, holds)) /\ May(of, op, arg, holds) /\ op # "coach"
<1>0. ASSUME NEW of, NEW op, NEW arg, NEW holds, Sound(of, op, arg, holds), UNCHANGED <<ui, made>>
      PROVE  IInv'
    BY <1>0, AskStep, MayAsk
<1>. HIDE DEF Sound
<1>1. CASE SignIn
    <2>1. Sound("login", "signIn", None, {"login"})
        BY <1>1 DEF SignIn, On, Sound, May, Sends, PageOf, Changes, Creates, Forms, Resent
    <2>. QED
        BY <1>0, <1>1, <2>1 DEF SignIn
<1>2. CASE Phone
    <2>1. PICK op \in {"requestOtp", "signIn"} :
              Act(Req("login", op, None, {})) /\ UNCHANGED <<ui, made>> /\ page = "login"
        BY <1>2 DEF Phone
    <2>2. Sound("login", op, None, {})
        BY <2>1 DEF Sound, May, Sends, PageOf, Changes, Creates, Forms
    <2>. QED
        BY <1>0, <2>1, <2>2
<1>3. CASE SaveProfile
    <2>1. Sound("onboarding", "saveProfile", None, {"onboarding"})
        BY <1>3 DEF SaveProfile, On, Sound, May, Sends, PageOf, Changes, Creates, Forms
    <2>. QED
        BY <1>0, <1>3, <2>1 DEF SaveProfile
<1>4. CASE SaveGoal
    <2>1. Sound("onboarding", "saveGoal", "goals", {"onboarding"})
        BY <1>4 DEF SaveGoal, On, Sound, May, Sends, PageOf, Changes, Creates, Forms
    <2>. QED
        BY <1>0, <1>4, <2>1 DEF SaveGoal
<1>5. CASE AddAccount
    <2>1. page = "dashboard" /\ ui.add /\ "add" \notin busy
        BY <1>5 DEF AddAccount, Card
    <2>2. made.rows <= made.errors
        BY <2>1, NothingOwed DEF Closed, PageOf
    <2>3. Sound("add", "addAccount", None, {"add"})
        BY <1>5, <2>1, <2>2 DEF AddAccount, Sound, May, Sends, PageOf, Changes, Creates, Forms
    <2>. QED
        BY <1>0, <1>5, <2>3 DEF AddAccount
<1>6. CASE SaveCover
    <2>1. Sound("protection", "saveCover", ui.protection, {})
        BY <1>6 DEF SaveCover, Card, Sound, May, Sends, PageOf, Changes, Creates, Forms
    <2>. QED
        BY <1>0, <1>6, <2>1 DEF SaveCover
<1>7. CASE Capture
    <2>1. Sound("chart", "capture", None, {"chart"})
        BY <1>7 DEF Capture, Card, Sound, May, Sends, PageOf, Changes, Creates, Forms
    <2>. QED
        BY <1>0, <1>7, <2>1 DEF Capture
<1>8. CASE SecondOpinion
    <2>1. Sound("second", "opinion", None, {"second"})
        BY <1>8 DEF SecondOpinion, Card, Sound, May, Sends, PageOf, Changes, Creates, Forms
    <2>. QED
        BY <1>0, <1>8, <2>1 DEF SecondOpinion
<1>9. ASSUME NEW c \in Lists, ChangeList(c) PROVE IInv'
    <2>1. page = "dashboard" /\ UNCHANGED <<ui, made>> /\ PageOf(c) = page /\ c \notin Forms
        BY <1>9 DEF ChangeList, Card, PageOf, Lists, Forms
    <2>2. CASE Act(Req(c, "addRow", c, {}))
        <3>1. Sound(c, "addRow", c, {})
            BY <2>1, <2>2 DEF Sound, May, Sends, Creates
        <3>. QED
            BY <1>0, <2>1, <3>1
    <2>3. ASSUME NEW id \in ui[c], Act(Req(c, "removeRow", <<c, id>>, {})) PROVE IInv'
        <3>1. Sound(c, "removeRow", <<c, id>>, {})
            BY <2>1, <2>3 DEF Sound, May, Sends, Creates
        <3>. QED
            BY <1>0, <2>1, <3>1
    <2>. QED
        BY <1>9, <2>2, <2>3 DEF ChangeList
<1>10. ASSUME NEW tier \in Tiers, Subscribe(tier) PROVE IInv'
    <2>1. /\ page = "billing" /\ made' = made /\ ui' = [ui EXCEPT !.starting = tier]
          /\ Act(Req("billing", "subscribe", tier, {"billing"}))
        BY <1>10 DEF Subscribe
    <2>2. May("billing", "subscribe", tier, {"billing"})
        BY <2>1 DEF May, Sends, PageOf, Changes, Creates, Forms, Resent
    <2>. QED
        BY <2>1, <2>2, AskStep, MayAsk
<1>. QED
    BY <1>1, <1>2, <1>3, <1>4, <1>5, <1>6, <1>7, <1>8, <1>9, <1>10

\* A conversation that begins with the user and in which each answers the other.
Alternates(chat) ==
    \A n \in DOMAIN chat : chat[n] = (IF n % 2 = 1 THEN "user" ELSE "assistant")

\* It goes on so when the one whose turn it is says more.
LEMMA OneMore ==
    ASSUME NEW chat \in Seq({"user", "assistant"}), Alternates(chat)
    PROVE  /\ Len(chat) % 2 = 0 =>
                /\ Append(chat, "user") \in Seq({"user", "assistant"})
                /\ Alternates(Append(chat, "user")) /\ Len(Append(chat, "user")) % 2 = 1
           /\ Len(chat) % 2 = 1 =>
                /\ Append(chat, "assistant") \in Seq({"user", "assistant"})
                /\ Alternates(Append(chat, "assistant"))
                /\ Len(Append(chat, "assistant")) % 2 = 0
<1>. DEFINE l == Len(chat)
<1>1. l \in Nat /\ (l % 2 = 0 => (l + 1) % 2 = 1) /\ (l % 2 = 1 => (l + 1) % 2 = 0)
    OBVIOUS
<1>2. ASSUME NEW who \in {"user", "assistant"}, who = (IF (l + 1) % 2 = 1 THEN "user" ELSE "assistant")
      PROVE  /\ Append(chat, who) \in Seq({"user", "assistant"}) /\ Len(Append(chat, who)) = l + 1
             /\ Alternates(Append(chat, who))
    <2>1. /\ Append(chat, who) \in Seq({"user", "assistant"}) /\ Len(Append(chat, who)) = l + 1
          /\ DOMAIN Append(chat, who) = 1 .. l + 1
          /\ \A n \in 1 .. l : Append(chat, who)[n] = chat[n]
          /\ Append(chat, who)[l + 1] = who
        OBVIOUS
    <2>2. \A n \in 1 .. l : n \in DOMAIN chat
        OBVIOUS
    <2>3. \A n \in 1 .. l + 1 : n \in 1 .. l \/ n = l + 1
        BY <1>1
    <2>. QED
        BY <1>2, <2>1, <2>2, <2>3 DEF Alternates
<1>. QED
    BY <1>1, <1>2

\* A question joins the conversation, which goes with it.
LEMMA SendStep ==
    ASSUME IInv, Send
    PROVE  IInv'
<1>. DEFINE said == Append(ui.coach, "user")
            r    == Req("coach", "coach", said, {"coach"})
<1>1. /\ page = "dashboard" /\ "coach" \notin ui.locked /\ "coach" \notin busy
      /\ Act(r) /\ ui' = [ui EXCEPT !.coach = said] /\ made' = made
    BY DEF Send, Card
<1>. HIDE DEF said
<1>2. May("coach", "coach", said, {"coach"})
    BY <1>1 DEF May, Sends, PageOf, Changes, Creates, Forms
<1>3. Asked(r) /\ r.of = "coach" /\ r.arg = said /\ r.holds = {"coach"} /\ r.op = "coach"
    BY <1>2, MayAsk
<1>. HIDE DEF r
<1>4. /\ DOMAIN ui' = DOMAIN ui /\ ui'.coach = said /\ ui'.locked = ui.locked
      /\ \A c \in DOMAIN ui \ {"coach", "starting"} : ui'[c] = ui[c]
    BY <1>1 DEF IInv, StateOK, Shown
<1>5. StateOK' /\ OneEach' /\ TellsAll' /\ Settles'
    BY <1>1, <1>3, <1>4, ActStep DEF IInv
<1>6. PICK k : /\ DOMAIN calls' = DOMAIN calls \cup {k}
               /\ calls'[k] = r /\ \A n \in DOMAIN calls : calls'[n] = calls[n]
    BY <1>1, ActEffect DEF IInv, StateOK
<1>7. "coach" \in busy'
    BY <1>1, <1>3, ActEffect DEF IInv, StateOK
<1>8. /\ ui.coach \in Seq({"user", "assistant"}) /\ Len(ui.coach) % 2 = 0
      /\ Alternates(ui.coach)
    BY <1>1 DEF IInv, Chat, ChatAlternates, Alternates
<1>9. said \in Seq({"user", "assistant"}) /\ Alternates(said) /\ Len(said) % 2 = 1
    BY <1>8, OneMore DEF said
<1>12. ChatAlternates'
    BY <1>4, <1>7, <1>9 DEF ChatAlternates, Alternates
<1>13. ASSUME NEW n \in DOMAIN calls, Live(n), calls[n].op = "coach" PROVE FALSE
    <2>1. Proper(calls[n])
        BY <1>13 DEF IInv, StateOK, RequestOK, Live
    <2>2. calls[n].of = "coach" /\ calls[n].holds = {"coach"}
        BY <1>13, <2>1 DEF Proper, Sends, Forms
    <2>. QED
        BY <1>1, <1>13, <2>2 DEF IInv, OneEach, Resent
<1>14. \A n \in DOMAIN calls' :
          calls'[n].of # "gone" /\ calls'[n].op = "coach" =>
              calls'[n].arg = ui'.coach /\ Len(ui'.coach) % 2 = 1
    BY <1>3, <1>4, <1>6, <1>9, <1>13 DEF Live
<1>15. Chat'
    BY <1>4, <1>9, <1>12, <1>14 DEF Chat, Live
<1>. QED
    BY <1>5, <1>15 DEF IInv

\* Typing and opening or closing a form asks for nothing.
LEMMA TypeStep ==
    ASSUME IInv, UNCHANGED <<store, page, cards, busy, calls, mixed>>,
           DOMAIN ui' = DOMAIN ui, made' \in [rows : Nat, errors : Nat], TellsAll',
           \A c \in DOMAIN ui \ {"add", "protection", "onboarding"} : ui'[c] = ui[c]
    PROVE  IInv'
<1>1. ui'.coach = ui.coach /\ ui'.locked = ui.locked
    BY DEF IInv, StateOK, Shown
<1>2. StateOK'
    BY DEF IInv, StateOK, RequestOK
<1>3. OneEach' /\ Chat'
    BY <1>1 DEF IInv, OneEach, Chat, ChatAlternates, Live
<1>4. Settles'
    <2>1. \A c \in Showing : ui'[c] = ui[c] /\ Stored(c)' = Stored(c)
        BY LoadFacts, SameShowing DEF Showing, IInv, StateOK, Shown
    <2>2. Showing' = Showing
        BY SameShowing
    <2>. QED
        BY <2>1, <2>2 DEF IInv, Settles, Live
<1>. QED
    BY <1>2, <1>3, <1>4 DEF IInv

\* The form of an account is closed and opened afresh, the cover is typed, the
\* account of the onboarding is passed over.
LEMMA TypeSteps ==
    ASSUME IInv, ToggleForm \/ SaveAccount \/ \E value \in Cover : TypeCover(value)
    PROVE  IInv'
<1>1. CASE ToggleForm
    <2>1. /\ ui' = [ui EXCEPT !.add = ~@] /\ made' = NoneMade
          /\ UNCHANGED <<store, page, cards, busy, calls, mixed>>
        BY <1>1 DEF ToggleForm
    <2>2. /\ DOMAIN ui' = DOMAIN ui /\ ui'.onboarding = ui.onboarding
          /\ \A c \in DOMAIN ui \ {"add", "protection", "onboarding"} : ui'[c] = ui[c]
        BY <2>1 DEF IInv, StateOK, Shown
    <2>3. TellsAll'
        BY <2>1, <2>2 DEF IInv, TellsAll, NoneMade, Creating, Live
    <2>. QED
        BY <2>1, <2>2, <2>3, TypeStep DEF NoneMade
<1>2. CASE SaveAccount
    <2>1. /\ page = "onboarding" /\ "onboarding" \notin busy /\ ui.onboarding = 2
        BY <1>2 DEF SaveAccount, On
    <2>2. made.rows <= made.errors
        BY <2>1, NothingOwed DEF Closed, PageOf
    <2>3. CASE Act(Req("onboarding", "saveAccount", None, {"onboarding"})) /\ UNCHANGED <<ui, made>>
        <3>1. May("onboarding", "saveAccount", None, {"onboarding"})
            BY <2>1, <2>2 DEF May, Sends, PageOf, Changes, Creates, Forms
        <3>2. /\ Asked(Req("onboarding", "saveAccount", None, {"onboarding"}))
              /\ Req("onboarding", "saveAccount", None, {"onboarding"}).op # "coach"
            BY <3>1, MayAsk
        <3>. QED
            BY <2>3, <3>2, AskStep
    <2>4. CASE /\ ui' = [ui EXCEPT !.onboarding = 3]
               /\ UNCHANGED <<store, page, cards, busy, calls, made, mixed>>
        <3>1. /\ DOMAIN ui' = DOMAIN ui
              /\ \A c \in DOMAIN ui \ {"add", "protection", "onboarding"} : ui'[c] = ui[c]
            BY <2>4 DEF IInv, StateOK, Shown
        <3>2. TellsAll'
            BY <2>1, <2>2, <2>4 DEF IInv, TellsAll, StateOK, Creating, Live
        <3>. QED
            BY <2>4, <3>1, <3>2, TypeStep DEF IInv, StateOK
    <2>. QED
        BY <1>2, <2>3, <2>4 DEF SaveAccount
<1>3. ASSUME NEW value \in Cover, TypeCover(value) PROVE IInv'
    <2>1. /\ ui' = [ui EXCEPT !.protection = value]
          /\ UNCHANGED <<store, page, cards, busy, calls, made, mixed>>
        BY <1>3 DEF TypeCover
    <2>2. /\ DOMAIN ui' = DOMAIN ui /\ ui'.onboarding = ui.onboarding /\ ui'.add = ui.add
          /\ \A c \in DOMAIN ui \ {"add", "protection", "onboarding"} : ui'[c] = ui[c]
        BY <2>1 DEF IInv, StateOK, Shown
    <2>3. TellsAll'
        BY <2>1, <2>2 DEF IInv, TellsAll, Creating, Live, Closed
    <2>. QED
        BY <2>1, <2>2, <2>3, TypeStep DEF IInv, StateOK
<1>. QED
    BY <1>1, <1>2, <1>3
------------------------------------------------------------------------------
(* A page is loaded *)

\* What a page asks for belongs to that page, and changes nothing.
LEMMA MountFacts ==
    ASSUME cards \subseteq Cards, NEW p \in Pages
    PROVE  /\ DOMAIN Mounts(p) = Mounted(p) \cap DOMAIN Loads
           /\ \A c \in DOMAIN Mounts(p) :
                /\ Mounts(p)[c] = Req(c, Loads[c], None, {})
                /\ c \in DOMAIN Loads /\ PageOf(c) = p /\ c # "gone"
<1>1. \A c \in Mounted(p) \cap DOMAIN Loads : PageOf(c) = p /\ c # "gone"
    <2>1. CASE p = "dashboard"
        BY <2>1, LoadFacts DEF Mounted, Cards, Lists, PageOf
    <2>2. CASE p # "dashboard"
        BY <2>2, LoadFacts DEF Mounted, PageOf, Pages
    <2>. QED
        BY <2>1, <2>2
<1>. QED
    BY <1>1 DEF Mounts

\* What is left of a page is changes that the API has not made yet.
LEMMA GoneFacts ==
    ASSUME StateOK, NEW n \in DOMAIN Gone
    PROVE  /\ n \in Slot /\ n \notin DOMAIN Loads
           /\ Gone[n].of = "gone" /\ Gone[n].op \in Changes /\ Gone[n].phase = "sent"
           /\ Gone[n] = [of |-> Gone[n].of, op |-> Gone[n].op, arg |-> Gone[n].arg,
                         holds |-> Gone[n].holds, phase |-> Gone[n].phase, got |-> Gone[n].got]
<1>1. /\ n \in DOMAIN calls /\ calls[n].op \in Changes /\ calls[n].phase = "sent"
      /\ Gone[n] = [calls[n] EXCEPT !.of = "gone"]
    BY DEF Gone
<1>2. n \in Slot
    <2>1. ~IsLoad(calls[n])
        BY <1>1, LoadsAreSent DEF IsLoad
    <2>. QED
        BY <1>1, <2>1 DEF StateOK
<1>3. n \notin DOMAIN Loads
    BY <1>2, UserAssumption
<1>4. RequestOK(calls[n])
    BY <1>1 DEF StateOK
<1>. QED
    BY <1>1, <1>2, <1>3, <1>4 DEF RequestOK

\* A page that is loaded afresh has asked for what it shows.
LEMMA OpenStep ==
    ASSUME IInv, NEW p \in Pages, NEW signedIn,
           Open(p, signedIn), UNCHANGED <<store, cards>>
    PROVE  IInv'
<1>1. PICK q \in Pages :
          /\ page' = q /\ ui' = Shown /\ busy' = {} /\ made' = NoneMade /\ mixed' = FALSE
          /\ calls' = And(Gone, Mounts(q))
    BY DEF Open, Pages
<1>2. cards \subseteq Cards /\ StateOK
    BY DEF IInv, StateOK
<1>3. /\ DOMAIN calls' = DOMAIN Gone \cup DOMAIN Mounts(q)
      /\ \A n \in DOMAIN Gone : calls'[n] = Gone[n]
      /\ \A c \in DOMAIN Mounts(q) :
            /\ c \in DOMAIN Loads /\ PageOf(c) = q /\ c # "gone"
            /\ calls'[c] = Req(c, Loads[c], None, {})
    <2>1. \A c \in DOMAIN Mounts(q) : c \notin DOMAIN Gone
        BY <1>2, MountFacts, GoneFacts
    <2>. QED
        BY <1>1, <1>2, <2>1, MountFacts DEF And
<1>4. \A n \in DOMAIN calls' :
          \/ calls'[n].of = "gone" /\ n \in DOMAIN Gone
          \/ /\ n \in DOMAIN Loads /\ calls'[n].of = n /\ calls'[n].op = Loads[n]
             /\ calls'[n].holds = {} /\ calls'[n].phase = "sent"
             /\ IsLoad(calls'[n]) /\ calls'[n].op \notin Changes \cup {"coach", "saveProfile"}
    BY <1>2, <1>3, GoneFacts, LoadsAreSent, ReqParts DEF IsLoad
<1>5. StateOK'
    <2>1. \A n \in DOMAIN calls' : RequestOK(calls[n])'
        <3>1. ASSUME NEW n \in DOMAIN Gone PROVE RequestOK(calls[n])'
            BY <1>2, <1>3, GoneFacts DEF RequestOK
        <3>2. ASSUME NEW c \in DOMAIN Mounts(q) PROVE RequestOK(calls[c])'
            <4>1. PICK r : r = Req(c, Loads[c], None, {})
                OBVIOUS
            <4>2. /\ r.of = c /\ r.op = Loads[c] /\ r.holds = {} /\ r.phase = "sent"
                  /\ r = [of |-> r.of, op |-> r.op, arg |-> r.arg, holds |-> r.holds,
                          phase |-> r.phase, got |-> r.got]
                BY <4>1, ReqParts
            <4>3. Proper(r)
                BY <1>3, <4>2, LoadsAreSent DEF Proper
            <4>. QED
                BY <1>1, <1>3, <4>1, <4>2, <4>3 DEF RequestOK
        <3>. QED
            BY <1>3, <3>1, <3>2
    <2>2. (\A n \in DOMAIN calls : RequestOK(calls[n]))'
        BY <2>1
    <2>3. (\A n \in DOMAIN calls \ Slot : IsLoad(calls[n]))'
        BY <1>2, <1>3, <1>4, GoneFacts
    <2>. QED
        BY <1>1, <2>2, <2>3 DEF IInv, StateOK, Shown, NoneMade
<1>6. OneEach'
    BY <1>1, <1>4 DEF OneEach, Live
<1>7. TellsAll'
    BY <1>1, <1>4 DEF TellsAll, Creating, Live, NoneMade, Changes
<1>8. Chat'
    <2>1. /\ ui'.coach = <<>> /\ busy' = {}
        BY <1>1 DEF Shown
    <2>2. /\ ui'.coach \in Seq({"user", "assistant"}) /\ Len(ui'.coach) = 0
          /\ \A n : n \notin DOMAIN ui'.coach
        BY <2>1
    <2>3. ChatAlternates'
        BY <2>1, <2>2 DEF ChatAlternates
    <2>. QED
        BY <1>4, <2>2, <2>3 DEF Chat, Live
<1>9. Settles'
    <2>1. \A c \in Showing' : c \in DOMAIN calls' /\ Live(c)' /\ Renews(calls'[c], c)
        <3>1. Showing' = (Mounted(q) \cap DOMAIN Loads) \ {"protection"}
            BY <1>1 DEF Showing, Mounted
        <3>2. ASSUME NEW c \in DOMAIN Mounts(q) PROVE Live(c)' /\ Renews(calls'[c], c)
            BY <1>3, <3>2, ReqParts DEF Live, Renews
        <3>. QED
            BY <1>2, <1>3, <3>1, <3>2, MountFacts
    <2>2. (\A c \in Showing : \E n \in DOMAIN calls : Live(n) /\ Renews(calls[n], c))'
        BY <2>1
    <2>. QED
        BY <1>4, <2>2 DEF Settles, Live
<1>. QED
    BY <1>5, <1>6, <1>7, <1>8, <1>9 DEF IInv
------------------------------------------------------------------------------
(* The API does what it is asked for *)

\* It keeps its tables, whoever asks.
LEMMA EffectShape ==
    ASSUME StateOK, NEW r, NEW s, s = Effect(r)
    PROVE  /\ s = [accounts |-> s.accounts, rows |-> s.rows, ids |-> s.ids, profile |-> s.profile,
                   cover |-> s.cover, snapshots |-> s.snapshots, tier |-> s.tier]
           /\ DOMAIN s.rows = Lists
<1>1. CASE r.op \in Creates
    BY <1>1 DEF Effect, StateOK
<1>2. CASE r.op \in {"addRow", "saveGoal"} /\ r.op \notin Creates
    BY <1>2 DEF Effect, StateOK
<1>3. CASE r.op \in {"removeRow", "saveProfile", "saveCover", "capture", "subscribe"}
    BY <1>3 DEF Effect, StateOK, Creates
<1>4. CASE r.op \notin Changes
    BY <1>4 DEF Effect, StateOK, Changes, Creates
<1>. QED
    BY <1>1, <1>2, <1>3, <1>4 DEF Changes

\* What is not a change leaves it as it is.
LEMMA OnlyChanges ==
    ASSUME NEW r, r.op \notin Changes
    PROVE  Effect(r) = store
BY DEF Effect, Changes, Creates

\* A component of this page that a change is about asks for it again afterwards.
LEMMA EffectRenewed ==
    ASSUME StateOK, NEW r, Proper(r), PageOf(r.of) = page, store' = Effect(r),
           UNCHANGED <<page, cards>>, NEW c \in Showing
    PROVE  Stored(c)' = Stored(c) \/ (Follow(r) # <<>> /\ Follow(r)[1].of = c)
<1>0. /\ c \in DOMAIN Loads /\ c # "protection" /\ c \in Mounted(page)
      /\ Sends(r.of, r.op)
    BY DEF Showing, Proper
<1>1. ASSUME PageOf(r.of) = "onboarding" PROVE FALSE
    BY <1>0, <1>1, LoadFacts DEF Mounted
<1>2. CASE r.op = "addAccount"
    <2>1. c = "dashboard" => Follow(r)[1].of = c /\ Follow(r) # <<>>
        BY <1>2 DEF Follow, Req
    <2>2. c # "dashboard" => Stored(c)' = Stored(c)
        BY <1>0, <1>2, LoadFacts DEF Stored, Effect, Creates, StateOK, Lists
    <2>. QED
        BY <2>1, <2>2
<1>3. CASE r.op = "saveAccount" \/ r.op = "saveGoal" \/ r.op = "saveProfile"
    BY <1>0, <1>1, <1>3 DEF Sends, PageOf, Lists
<1>4. CASE r.op = "addRow"
    <2>1. r.arg = r.of /\ r.of \in Lists
        BY <1>0, <1>4 DEF Proper, Sends
    <2>2. c = r.of => Follow(r)[1].of = c /\ Follow(r) # <<>>
        BY <1>4 DEF Follow, Req
    <2>3. c # r.of => Stored(c)' = Stored(c)
        BY <1>0, <1>4, <2>1, LoadFacts DEF Stored, Effect, Creates, StateOK, Lists
    <2>. QED
        BY <2>2, <2>3
<1>5. CASE r.op = "removeRow"
    <2>1. r.arg[1] = r.of /\ r.of \in Lists
        BY <1>0, <1>5 DEF Proper, Sends
    <2>2. c = r.of => Follow(r)[1].of = c /\ Follow(r) # <<>>
        BY <1>5 DEF Follow, Req
    <2>3. c # r.of => Stored(c)' = Stored(c)
        BY <1>0, <1>5, <2>1, LoadFacts DEF Stored, Effect, Creates, StateOK, Lists
    <2>. QED
        BY <2>2, <2>3
<1>6. CASE r.op = "saveCover"
    <2>1. c = "warning" => Follow(r)[1].of = c /\ Follow(r) # <<>>
        BY <1>6 DEF Follow, Req
    <2>2. c # "warning" => Stored(c)' = Stored(c)
        BY <1>0, <1>6, LoadFacts DEF Stored, Effect, Creates, StateOK, Lists
    <2>. QED
        BY <2>1, <2>2
<1>7. CASE r.op = "capture"
    <2>1. c = "chart" => Follow(r)[1].of = c /\ Follow(r) # <<>>
        BY <1>7 DEF Follow, Req
    <2>2. c # "chart" => Stored(c)' = Stored(c)
        BY <1>0, <1>7, LoadFacts DEF Stored, Effect, Creates, StateOK, Lists
    <2>. QED
        BY <2>1, <2>2
<1>8. CASE r.op = "subscribe"
    <2>1. c = "billing" => Follow(r)[1].of = c /\ Follow(r) # <<>>
        BY <1>8 DEF Follow, Req
    <2>2. c # "billing" => Stored(c)' = Stored(c)
        BY <1>0, <1>8, LoadFacts DEF Stored, Effect, Creates, StateOK, Lists
    <2>. QED
        BY <2>1, <2>2
<1>9. CASE r.op \notin Changes
    BY <1>9, OnlyChanges, SameShowing
<1>. QED
    BY <1>2, <1>3, <1>4, <1>5, <1>6, <1>7, <1>8, <1>9 DEF Changes, Creates

\* Two requests of a page that both make accounts are one.
LEMMA OneCreates ==
    ASSUME StateOK, OneEach, NEW n \in DOMAIN calls, NEW k \in DOMAIN calls,
           Creating(n), Creating(k)
    PROVE  n = k
<1>1. /\ Proper(calls[n]) /\ PageOf(calls[n].of) = page
      /\ Proper(calls[k]) /\ PageOf(calls[k].of) = page
    BY DEF StateOK, RequestOK, Creating, Live
<1>2. /\ calls[n].of \in {"add", "onboarding"} /\ calls[n].holds = {calls[n].of}
      /\ calls[k].of = calls[n].of /\ calls[k].holds = {calls[k].of}
    BY <1>1 DEF Proper, Sends, PageOf, Creating, Creates, Changes, Lists, Forms
<1>. QED
    BY <1>2 DEF OneEach, Creating, Resent

\* A request is done or not, and answered; one of a page that was left is over.
LEMMA ServeEffect ==
    ASSUME StateOK, NEW n \in DOMAIN calls, Serve(n)
    PROVE  /\ calls[n].phase = "sent" /\ UNCHANGED <<page, cards, ui, busy>>
           /\ mixed' = (mixed \/ calls[n].of = "gone")
           /\ store' = store \/ store' = Effect(calls[n])
           /\ made' = made \/ (Creating(n) /\ made' = [made EXCEPT !.rows = @ + 1])
           /\ IF Live(n)
              THEN /\ DOMAIN calls' = DOMAIN calls
                   /\ \A k \in DOMAIN calls \ {n} : calls'[k] = calls[k]
                   /\ \E phase \in {"ok", "failed", "denied"} : \E got :
                        /\ calls'[n] = [calls[n] EXCEPT !.phase = phase, !.got = got]
                        /\ phase = "ok" => got = Answer(calls[n])
              ELSE /\ DOMAIN calls' = DOMAIN calls \ {n}
                   /\ \A k \in DOMAIN calls' : calls'[k] = calls[k]
<1>. DEFINE r == calls[n]
            Ends(phase) ==
                calls' = IF r.of = "gone" THEN Restrict(calls, DOMAIN calls \ {n})
                         ELSE [calls EXCEPT ![n].phase = phase,
                                            ![n].got = IF phase = "ok" THEN Answer(r) ELSE None]
<1>1. /\ r.phase = "sent" /\ UNCHANGED <<page, cards, ui, busy>>
      /\ mixed' = (mixed \/ r.of = "gone")
    BY DEF Serve
<1>2. store' = store \/ store' = Effect(r)
    BY DEF Serve
<1>3. made' = made \/ (Creating(n) /\ made' = [made EXCEPT !.rows = @ + 1])
    BY DEF Serve, Creating, Live
<1>4. \E phase \in {"ok", "failed", "denied"} : Ends(phase)
    BY DEF Serve
<1>5. ASSUME NEW phase \in {"ok", "failed", "denied"}, Ends(phase), Live(n)
      PROVE  /\ DOMAIN calls' = DOMAIN calls
             /\ \A k \in DOMAIN calls \ {n} : calls'[k] = calls[k]
             /\ \E got : /\ calls'[n] = [r EXCEPT !.phase = phase, !.got = got]
                         /\ phase = "ok" => got = Answer(r)
    <2>. DEFINE got == IF phase = "ok" THEN Answer(r) ELSE None
    <2>1. calls' = [calls EXCEPT ![n].phase = phase, ![n].got = got]
        BY <1>5 DEF Live
    <2>. HIDE DEF got
    <2>2. /\ DOMAIN calls' = DOMAIN calls
          /\ \A k \in DOMAIN calls \ {n} : calls'[k] = calls[k]
          /\ calls'[n] = [r EXCEPT !.phase = phase, !.got = got]
        BY <2>1
    <2>3. phase = "ok" => got = Answer(r)
        BY DEF got
    <2>. QED
        BY <2>2, <2>3
<1>6. ASSUME NEW phase, Ends(phase), ~Live(n)
      PROVE  /\ DOMAIN calls' = DOMAIN calls \ {n}
             /\ \A k \in DOMAIN calls' : calls'[k] = calls[k]
    BY <1>6 DEF Live, Restrict
<1>. HIDE DEF r, Ends
<1>7. IF Live(n)
      THEN /\ DOMAIN calls' = DOMAIN calls
           /\ \A k \in DOMAIN calls \ {n} : calls'[k] = calls[k]
           /\ \E phase \in {"ok", "failed", "denied"} : \E got :
                /\ calls'[n] = [r EXCEPT !.phase = phase, !.got = got]
                /\ phase = "ok" => got = Answer(r)
      ELSE /\ DOMAIN calls' = DOMAIN calls \ {n}
           /\ \A k \in DOMAIN calls' : calls'[k] = calls[k]
    BY <1>4, <1>5, <1>6
<1>. QED
    BY <1>1, <1>2, <1>3, <1>7 DEF r

\* A change that a page left behind is no longer its own.
LEMMA ServeGone ==
    ASSUME IInv, NEW n \in DOMAIN calls, Serve(n), ~Live(n)
    PROVE  IInv'
<1>1. /\ UNCHANGED <<page, cards, ui, busy>> /\ mixed' = TRUE /\ made' = made
      /\ store' = store \/ store' = Effect(calls[n])
      /\ DOMAIN calls' = DOMAIN calls \ {n}
      /\ \A k \in DOMAIN calls' : calls'[k] = calls[k]
    BY ServeEffect DEF IInv, StateOK, Live, Creating
<1>2. StateOK'
    <2>1. \A k \in DOMAIN calls' : RequestOK(calls[k])'
        BY <1>1 DEF IInv, StateOK, RequestOK
    <2>2. /\ store' = [accounts |-> store'.accounts, rows |-> store'.rows, ids |-> store'.ids,
                       profile |-> store'.profile, cover |-> store'.cover,
                       snapshots |-> store'.snapshots, tier |-> store'.tier]
          /\ DOMAIN store'.rows = Lists
        <3>1. CASE store' = store
            BY <3>1 DEF IInv, StateOK
        <3>2. CASE store' = Effect(calls[n])
            BY <3>2, EffectShape DEF IInv
        <3>. QED
            BY <1>1, <3>1, <3>2
    <2>. QED
        BY <1>1, <2>1, <2>2 DEF IInv, StateOK
<1>3. OneEach'
    BY <1>1 DEF IInv, OneEach, Live
<1>4. TellsAll'
    BY <1>1 DEF IInv, TellsAll, Creating, Live, Closed
<1>5. Chat'
    BY <1>1 DEF IInv, Chat, ChatAlternates, Live
<1>6. Settles'
    BY <1>1 DEF Settles
<1>. QED
    BY <1>2, <1>3, <1>4, <1>5, <1>6 DEF IInv

\* What the API did for this page is answered, or the page will ask for it.
LEMMA ServeLive ==
    ASSUME IInv, NEW n \in DOMAIN calls, Serve(n), Live(n)
    PROVE  IInv'
<1>. DEFINE r == calls[n]
<1>1. /\ r.phase = "sent" /\ UNCHANGED <<page, cards, ui, busy, mixed>>
      /\ store' = store \/ store' = Effect(r)
      /\ made' = made \/ (Creating(n) /\ made' = [made EXCEPT !.rows = @ + 1])
      /\ DOMAIN calls' = DOMAIN calls
      /\ \A k \in DOMAIN calls \ {n} : calls'[k] = calls[k]
    BY ServeEffect DEF IInv, StateOK, Live
<1>0. PICK phase \in {"ok", "failed", "denied"} : \E got :
          /\ calls'[n] = [r EXCEPT !.phase = phase, !.got = got]
          /\ phase = "ok" => got = Answer(r)
    BY ServeEffect DEF IInv
<1>2. PICK got :
          /\ calls'[n] = [r EXCEPT !.phase = phase, !.got = got]
          /\ phase = "ok" => got = Answer(r)
    BY <1>0
<1>3. /\ RequestOK(r) /\ Proper(r) /\ PageOf(r.of) = page
      /\ r = [of |-> r.of, op |-> r.op, arg |-> r.arg, holds |-> r.holds,
              phase |-> r.phase, got |-> r.got]
    BY DEF IInv, StateOK, RequestOK, Live
<1>4. /\ calls'[n].of = r.of /\ calls'[n].op = r.op /\ calls'[n].arg = r.arg
      /\ calls'[n].holds = r.holds /\ calls'[n].phase = phase /\ calls'[n].got = got
      /\ calls'[n] = [of |-> r.of, op |-> r.op, arg |-> r.arg, holds |-> r.holds,
                     phase |-> phase, got |-> got]
    BY <1>2, <1>3
<1>. HIDE DEF r
<1>5. \A k \in DOMAIN calls :
          /\ calls'[k].of = calls[k].of /\ calls'[k].op = calls[k].op
          /\ calls'[k].arg = calls[k].arg /\ calls'[k].holds = calls[k].holds
          /\ Live(k)' = Live(k) /\ Creating(k)' = Creating(k)
          /\ IsLoad(calls'[k]) = IsLoad(calls[k])
          /\ calls'[k].phase = "sent" => k # n /\ calls[k].phase = "sent"
          /\ calls[k].phase # "sent" => calls'[k].phase # "sent"
    <2>1. ASSUME NEW k \in DOMAIN calls
          PROVE  /\ calls'[k].of = calls[k].of /\ calls'[k].op = calls[k].op
                 /\ calls'[k].arg = calls[k].arg /\ calls'[k].holds = calls[k].holds
                 /\ calls'[k].phase = "sent" => k # n /\ calls[k].phase = "sent"
                 /\ calls[k].phase # "sent" => calls'[k].phase # "sent"
        <3>1. CASE k = n
            BY <1>1, <1>4, <3>1 DEF r
        <3>2. CASE k # n
            BY <1>1, <3>2
        <3>. QED
            BY <3>1, <3>2
    <2>. QED
        BY <2>1 DEF Live, Creating, IsLoad
<1>6. StateOK'
    <2>1. \A k \in DOMAIN calls' : RequestOK(calls[k])'
        <3>1. RequestOK(calls[n])'
            BY <1>1, <1>3, <1>4, <1>5 DEF RequestOK, Proper, r, Live
        <3>2. ASSUME NEW k \in DOMAIN calls \ {n} PROVE RequestOK(calls[k])'
            BY <1>1 DEF IInv, StateOK, RequestOK
        <3>. QED
            BY <1>1, <3>1, <3>2
    <2>2. /\ store' = [accounts |-> store'.accounts, rows |-> store'.rows, ids |-> store'.ids,
                       profile |-> store'.profile, cover |-> store'.cover,
                       snapshots |-> store'.snapshots, tier |-> store'.tier]
          /\ DOMAIN store'.rows = Lists
        <3>1. CASE store' = store
            BY <3>1 DEF IInv, StateOK
        <3>2. CASE store' = Effect(r)
            BY <3>2, EffectShape DEF IInv
        <3>. QED
            BY <1>1, <3>1, <3>2
    <2>3. made' \in [rows : Nat, errors : Nat]
        BY <1>1 DEF IInv, StateOK
    <2>4. \A k \in DOMAIN calls' \ Slot : IsLoad(calls'[k])
        BY <1>1, <1>5 DEF IInv, StateOK
    <2>. QED
        BY <1>1, <2>1, <2>2, <2>3, <2>4 DEF IInv, StateOK
<1>7. OneEach'
    BY <1>1, <1>5 DEF IInv, OneEach
<1>8. TellsAll'
    <2>1. CASE made' = made
        BY <1>1, <1>5, <2>1 DEF IInv, TellsAll, Closed
    <2>2. CASE Creating(n) /\ made' = [made EXCEPT !.rows = @ + 1]
        <3>1. made.rows <= made.errors /\ made' = [rows |-> made.rows + 1, errors |-> made.errors]
            BY <1>1, <2>2 DEF r, IInv, TellsAll, StateOK
        <3>2. made.rows \in Nat /\ made.errors \in Nat
            BY DEF IInv, StateOK
        <3>3. \A k \in DOMAIN calls' : ~(Creating(k)' /\ calls'[k].phase = "sent")
            BY <1>1, <1>5, <2>2, OneCreates DEF IInv
        <3>4. n \in DOMAIN calls' /\ Creating(n)' /\ calls'[n].phase # "sent"
            BY <1>1, <1>4, <1>5, <2>2
        <3>. QED
            BY <1>1, <1>5, <3>1, <3>2, <3>3, <3>4 DEF IInv, TellsAll
    <2>. QED
        BY <1>1, <2>1, <2>2
<1>9. Chat'
    BY <1>1, <1>5, ZenonT(40) DEF IInv, Chat, ChatAlternates
<1>10. Settles'
    <2>. SUFFICES ASSUME ~mixed PROVE Settles'
        BY <1>1 DEF Settles
    <2>1. \A k \in DOMAIN calls' : Live(k)' /\ ~IsLoad(calls'[k]) => DOMAIN calls' = {k}
        BY <1>1, <1>5 DEF IInv, Settles
    <2>2. Showing' = Showing
        BY <1>1, SameShowing
    <2>3. CASE IsLoad(r)
        <3>1. store' = store
            BY <1>1, <1>3, <2>3, LoadsAreSent, OnlyChanges DEF IsLoad
        <3>2. \A c \in Showing : Stored(c)' = Stored(c)
            BY <1>1, <3>1, SameShowing
        <3>3. \A k \in DOMAIN calls' :
                  Live(k)' /\ calls'[k].of \in Showing' /\ IsLoad(calls'[k])
                     /\ calls'[k].phase = "ok" => calls'[k].got = Stored(calls[k].of)'
            <4>1. ASSUME phase = "ok", r.of \in Showing
                  PROVE  calls'[n].got = Stored(calls[n].of)'
                <5>1. calls'[n].got = Stored(r.of)
                    BY <1>2, <1>4, <2>3, <4>1 DEF Answer
                <5>2. Stored(calls[n].of)' = Stored(r.of)
                    BY <1>4, <3>1 DEF Stored
                <5>. QED
                    BY <5>1, <5>2
            <4>2. ASSUME NEW k \in DOMAIN calls \ {n}, Live(k)', calls'[k].of \in Showing',
                         IsLoad(calls'[k]), calls'[k].phase = "ok"
                  PROVE  calls'[k].got = Stored(calls[k].of)'
                <5>1. calls'[k] = calls[k] /\ calls[k].got = Stored(calls[k].of)
                    BY <1>1, <1>5, <2>2, <4>2 DEF IInv, Settles
                <5>2. Stored(calls[k].of)' = Stored(calls[k].of)
                    BY <5>1, <3>1 DEF Stored
                <5>. QED
                    BY <5>1, <5>2
            <4>. QED
                BY <1>1, <1>4, <2>2, <4>1, <4>2 DEF r
        <3>4. \A c \in Showing : ui'[c] = Stored(c)'
                  \/ \E k \in DOMAIN calls' : Live(k)' /\ Renews(calls'[k], c)
            <4>1. \A k \in DOMAIN calls, c \in Showing :
                      Renews(calls[k], c) => Renews(calls'[k], c)
                BY <1>5 DEF Renews, Follow
            <4>. QED
                BY <1>1, <1>5, <3>2, <4>1 DEF IInv, Settles
        <3>. QED
            BY <2>1, <2>2, <3>3, <3>4 DEF Settles
    <2>4. CASE ~IsLoad(r)
        <3>1. DOMAIN calls = {n} /\ DOMAIN calls' = {n} /\ ~IsLoad(calls'[n])
            BY <1>1, <1>5, <2>4 DEF IInv, Settles, r
        <3>2. Follow(calls'[n]) = Follow(r)
            BY <1>4 DEF Follow
        <3>3. ASSUME NEW c \in Showing
              PROVE  ui'[c] = Stored(c)' \/ (Live(n)' /\ Renews(calls'[n], c))
            <4>1. CASE Stored(c)' = Stored(c)
                <5>1. ui[c] = Stored(c) \/ Renews(r, c)
                    BY <3>1 DEF IInv, Settles, r
                <5>. QED
                    BY <1>1, <1>4, <1>5, <3>2, <4>1, <5>1 DEF Renews
            <4>2. CASE Stored(c)' # Stored(c)
                <5>1. store' = Effect(r)
                    BY <1>1, <4>2, SameShowing
                <5>2. Follow(r) # <<>> /\ Follow(r)[1].of = c
                    BY <1>1, <1>3, <4>2, <5>1, EffectRenewed DEF IInv
                <5>. QED
                    BY <1>5, <3>2, <5>2 DEF Renews
            <4>. QED
                BY <4>1, <4>2
        <3>. QED
            BY <2>1, <2>2, <3>1, <3>3 DEF Settles
    <2>. QED
        BY <2>3, <2>4
<1>. QED
    BY <1>6, <1>7, <1>8, <1>9, <1>10 DEF IInv
------------------------------------------------------------------------------
(* The browser learns of an answer *)

\* A form has sent one thing.
LEMMA OneForm ==
    ASSUME StateOK, OneEach, NEW n \in DOMAIN calls, NEW k \in DOMAIN calls, Live(n), Live(k),
           calls[n].of = calls[k].of, calls[n].of \in Forms \ Resent,
           calls[n].op \in Changes \cup {"coach"}, calls[k].op \in Changes \cup {"coach"}
    PROVE  n = k
<1>1. Proper(calls[n]) /\ Proper(calls[k])
    BY DEF StateOK, RequestOK, Live
<1>2. calls[n].holds = {calls[n].of} /\ calls[k].holds = {calls[n].of}
    BY <1>1 DEF Proper
<1>. QED
    BY <1>2 DEF OneEach

\* An answered request is gone, or what follows it has taken its place; the others
\* go on, but for the scans of a card that is replaced.
Taken(n) ==
    /\ DOMAIN calls' \subseteq DOMAIN calls
    /\ \A k \in DOMAIN calls' \ {n} : calls'[k] = calls[k]
    /\ \A k \in DOMAIN calls \ ({n} \cup DOMAIN calls') :
          calls[k].op = "scan" /\ calls[n].op = "saveCover"
    /\ n \in DOMAIN calls' =>
          /\ calls[n].phase = "ok" /\ Follow(calls[n]) # <<>>
          /\ calls'[n] = Follow(calls[n])[1]
    /\ n \notin DOMAIN calls' => calls[n].phase # "ok" \/ Follow(calls[n]) = <<>>

LEMMA RestIsTaken ==
    ASSUME NEW n \in DOMAIN calls,
           IF calls[n].phase # "ok" \/ Follow(calls[n]) = <<>> THEN calls' = Rest(n)
           ELSE calls' = And(Rest(n), One(n, Follow(calls[n])[1]))
    PROVE  Taken(n)
<1>. DEFINE left == Rest(n)
            more == One(n, Follow(calls[n])[1])
<1>1. /\ DOMAIN left \subseteq DOMAIN calls \ {n}
      /\ \A k \in DOMAIN left : left[k] = calls[k]
      /\ \A k \in DOMAIN calls \ {n} : k \in DOMAIN left
            \/ (calls[k].op = "scan" /\ calls[n].op = "saveCover")
    BY DEF Rest, Restrict
<1>2. DOMAIN more = {n} /\ more[n] = Follow(calls[n])[1]
    BY DEF One
<1>. HIDE DEF left, more
<1>3. CASE calls[n].phase # "ok" \/ Follow(calls[n]) = <<>>
    <2>1. calls' = left
        BY <1>3 DEF left
    <2>. QED
        BY <1>1, <1>3, <2>1 DEF Taken
<1>4. CASE ~(calls[n].phase # "ok" \/ Follow(calls[n]) = <<>>)
    <2>1. calls' = And(left, more)
        BY <1>4 DEF left, more
    <2>2. /\ DOMAIN calls' = DOMAIN left \cup {n} /\ calls'[n] = Follow(calls[n])[1]
          /\ \A k \in DOMAIN left : calls'[k] = left[k]
        BY <1>1, <1>2, <2>1 DEF And
    <2>. QED
        BY <1>1, <1>4, <2>2 DEF Taken
<1>. QED
    BY <1>3, <1>4

\* What takes its place is a load of this page, and holds what is not freed.
LEMMA InItsPlace ==
    ASSUME StateOK, NEW n \in DOMAIN calls, Live(n), Taken(n)
    PROVE  /\ n \in DOMAIN calls' =>
                /\ RequestOK(calls'[n]) /\ IsLoad(calls'[n]) /\ calls'[n].of # "gone"
                /\ calls'[n].holds = calls[n].holds \ Frees(calls[n])
                /\ calls'[n].phase = "sent" /\ ~IsLoad(calls[n])
           /\ n \notin DOMAIN calls' => Frees(calls[n]) = calls[n].holds
<1>. DEFINE r == calls[n]
<1>1. RequestOK(r) /\ Proper(r) /\ PageOf(r.of) = page /\ Sends(r.of, r.op)
    BY DEF StateOK, RequestOK, Live, Proper
<1>. HIDE DEF r
<1>2. ASSUME n \in DOMAIN calls'
      PROVE  /\ RequestOK(calls'[n]) /\ IsLoad(calls'[n]) /\ calls'[n].of # "gone"
             /\ calls'[n].holds = r.holds \ Frees(r)
             /\ calls'[n].phase = "sent" /\ ~IsLoad(r)
    <2>1. r.phase = "ok" /\ Follow(r) # <<>> /\ calls'[n] = Follow(r)[1]
        BY <1>2 DEF Taken, r
    <2>2. PICK c \in DOMAIN Loads, holds \in {{}, r.holds} :
              /\ Follow(r)[1] = Req(c, Loads[c], None, holds)
              /\ PageOf(c) = PageOf(r.of)
              /\ holds # {} => c = r.of
              /\ ~IsLoad(r)
        BY <1>1, <2>1, FollowFacts
    <2>3. PICK s : s = Req(c, Loads[c], None, holds)
        OBVIOUS
    <2>4. /\ s.of = c /\ s.op = Loads[c] /\ s.holds = holds /\ s.phase = "sent"
          /\ s = [of |-> s.of, op |-> s.op, arg |-> s.arg, holds |-> s.holds,
                  phase |-> s.phase, got |-> s.got]
        BY <2>3, ReqParts
    <2>5. holds \subseteq {c} \cap Forms
        BY <1>1, <2>2 DEF Proper
    <2>6. Proper(s)
        BY <2>4, <2>5, LoadsAreSent DEF Proper
    <2>7. c # "gone"
        BY LoadFacts
    <2>8. RequestOK(s) /\ IsLoad(s)
        BY <1>1, <2>2, <2>4, <2>6, <2>7 DEF RequestOK, IsLoad
    <2>9. Frees(r) = r.holds \ holds
        BY <2>1, <2>2, <2>3, <2>4 DEF Frees
    <2>. QED
        BY <2>1, <2>2, <2>3, <2>4, <2>7, <2>8, <2>9
<1>3. n \notin DOMAIN calls' => Frees(r) = r.holds
    BY DEF Taken, Frees, r
<1>. QED
    BY <1>2, <1>3 DEF r

\* Whatever the answer was, the forms of the other requests stay as they are.
LEMMA TakenStep ==
    ASSUME StateOK, OneEach, NEW n \in DOMAIN calls, Live(n), Taken(n),
           busy' = busy \ Frees(calls[n]), UNCHANGED <<store, page, cards>>,
           DOMAIN ui' = DOMAIN ui, made' \in [rows : Nat, errors : Nat], mixed' \in BOOLEAN
    PROVE  /\ StateOK' /\ OneEach'
           /\ \A k \in DOMAIN calls' : ~IsLoad(calls'[k]) =>
                  k # n /\ k \in DOMAIN calls /\ calls'[k] = calls[k]
           /\ \A k \in DOMAIN calls \ {n} : Creating(k) => k \in DOMAIN calls'
<1>1. /\ DOMAIN calls' \subseteq DOMAIN calls
      /\ \A k \in DOMAIN calls' \ {n} : calls'[k] = calls[k]
      /\ \A k \in DOMAIN calls \ {n} : k \in DOMAIN calls' \/ calls[k].op = "scan"
    BY DEF Taken
<1>2. /\ n \in DOMAIN calls' =>
            /\ RequestOK(calls'[n]) /\ IsLoad(calls'[n]) /\ calls'[n].of # "gone"
            /\ calls'[n].holds = calls[n].holds \ Frees(calls[n])
      /\ n \notin DOMAIN calls' => Frees(calls[n]) = calls[n].holds
      /\ Frees(calls[n]) \subseteq calls[n].holds
    BY InItsPlace DEF Frees
<1>3. StateOK'
    <2>1. \A k \in DOMAIN calls' : RequestOK(calls'[k])
        BY <1>1, <1>2 DEF StateOK
    <2>2. (\A k \in DOMAIN calls : RequestOK(calls[k]))'
        BY <2>1 DEF RequestOK
    <2>3. (\A k \in DOMAIN calls \ Slot : IsLoad(calls[k]))'
        BY <1>1, <1>2 DEF StateOK
    <2>4. busy' \subseteq Forms
        BY DEF StateOK
    <2>. QED
        BY <2>2, <2>3, <2>4 DEF StateOK
<1>4. OneEach'
    <2>1. \A k \in DOMAIN calls' : Live(k)' <=> Live(k)
        BY <1>1, <1>2 DEF Live
    <2>2. \A k \in DOMAIN calls' : calls'[k].holds \subseteq calls[k].holds
        BY <1>1, <1>2
    <2>3. (\A k, m \in DOMAIN calls :
             Live(k) /\ Live(m) /\ (calls[k].holds \cap calls[m].holds) \ Resent # {}
                => k = m)'
        BY <1>1, <2>1, <2>2 DEF OneEach
    <2>4. \A k \in DOMAIN calls' : Live(k)' => calls'[k].holds \ Resent \subseteq busy'
        <3>1. ASSUME n \in DOMAIN calls' PROVE calls'[n].holds \ Resent \subseteq busy'
            BY <1>2, <3>1 DEF OneEach
        <3>2. ASSUME NEW k \in DOMAIN calls' \ {n}, Live(k)
              PROVE  calls[k].holds \ Resent \subseteq busy'
            <4>1. k \in DOMAIN calls
                BY <1>1
            <4>. QED
                BY <1>2, <3>2, <4>1 DEF OneEach
        <3>3. ASSUME NEW k \in DOMAIN calls', Live(k)'
              PROVE  calls'[k].holds \ Resent \subseteq busy'
            BY <1>1, <2>1, <3>1, <3>2, <3>3
        <3>. QED
            BY <3>3
    <2>5. \A form \in busy' : \E k \in DOMAIN calls' : Live(k)' /\ form \in calls'[k].holds
        <3>1. TAKE form \in busy'
        <3>2. PICK k \in DOMAIN calls : Live(k) /\ form \in calls[k].holds
            BY DEF OneEach
        <3>3. k \in DOMAIN calls'
            <4>1. CASE k = n
                BY <1>2, <3>2, <4>1
            <4>2. CASE k # n
                <5>1. Proper(calls[k])
                    BY <3>2 DEF StateOK, RequestOK, Live
                <5>2. calls[k].op # "scan"
                    BY <3>2, <5>1 DEF Proper, Sends, Forms, Lists
                <5>. QED
                    BY <1>1, <4>2, <5>2
            <4>. QED
                BY <4>1, <4>2
        <3>4. form \in calls'[k].holds
            BY <1>1, <1>2, <3>2, <3>3
        <3>. QED
            BY <2>1, <3>2, <3>3, <3>4
    <2>. QED
        BY <2>3, <2>4, <2>5 DEF OneEach
<1>5. \A k \in DOMAIN calls \ {n} : Creating(k) => k \in DOMAIN calls'
    BY <1>1 DEF Creating, Creates
<1>. QED
    BY <1>1, <1>2, <1>3, <1>4, <1>5

\* After an answer a page shows more than before, and owes nothing that it should have
\* told.
LEMMA SucceededFacts ==
    ASSUME StateOK, NEW n \in DOMAIN calls, Live(n), ui' = Succeeded(calls[n])
    PROVE  /\ DOMAIN ui' = DOMAIN ui /\ ui'.locked = ui.locked
           /\ calls[n].op # "addAccount" => ui'.add = ui.add
           /\ calls[n].op = "addAccount" => ~ui'.add
           /\ calls[n].op \notin {"saveProfile", "saveAccount"} => ui'.onboarding = ui.onboarding
           /\ calls[n].op = "saveAccount" => ui'.onboarding = 3
           /\ calls[n].op # "coach" => ui'.coach = ui.coach
           /\ calls[n].op = "coach" => ui'.coach = Append(calls[n].arg, "assistant")
           /\ \A c \in Showing :
                \/ ui'[c] = ui[c]
                \/ IsLoad(calls[n]) /\ calls[n].of = c /\ ui'[c] = calls[n].got
                \/ calls[n].op = "saveCover" /\ c = "warning"
<1>. DEFINE r == calls[n]
<1>1. DOMAIN ui = DOMAIN Shown /\ ui' = Succeeded(r)
    BY DEF StateOK
<1>2. Sends(r.of, r.op)
    BY DEF StateOK, RequestOK, Live, Proper
<1>. HIDE DEF r
<1>3. \A c \in Showing : c \in DOMAIN Loads \ {"protection"}
    BY DEF Showing
<1>4. CASE IsLoad(r) /\ r.op # "profile"
    <2>1. /\ r.of \in DOMAIN Loads /\ r.op = Loads[r.of]
          /\ r.op \notin {"addAccount", "saveProfile", "saveAccount", "coach"}
        BY <1>4, LoadsAreSent DEF IsLoad, Changes, Creates
    <2>2. ui' = [ui EXCEPT ![r.of] = r.got]
        <3>1. r.op \in {"load", "list", "timeline", "scan", "plans"}
            BY <1>4, <2>1, LoadFacts
        <3>. QED
            BY <1>1, <1>4, <3>1 DEF Succeeded
    <2>3. /\ r.of \notin {"locked", "add", "onboarding", "coach"} /\ r.of \in DOMAIN ui
          /\ {"locked", "add", "onboarding", "coach"} \subseteq DOMAIN ui
        BY <1>1, <2>1, LoadFacts DEF Shown
    <2>4. /\ DOMAIN ui' = DOMAIN ui /\ ui'.locked = ui.locked /\ ui'.add = ui.add
          /\ ui'.onboarding = ui.onboarding /\ ui'.coach = ui.coach
          /\ \A c \in DOMAIN ui : ui'[c] = ui[c] \/ (r.of = c /\ ui'[c] = r.got)
        BY <2>2, <2>3
    <2>5. \A c \in Showing : c \in DOMAIN ui
        BY <1>1, <1>3, LoadFacts DEF Shown
    <2>. QED
        BY <1>4, <2>1, <2>4, <2>5 DEF r
<1>5. CASE ~(IsLoad(r) /\ r.op # "profile")
    <2>1. \A c \in Showing : c \in DOMAIN ui \ {"protection", "login", "onboarding", "add", "coach",
                                               "second"}
        BY <1>1, <1>3, LoadFacts DEF Shown
    <2>2. CASE r.op = "profile"
        BY <1>1, <1>5, <2>1, <2>2 DEF Succeeded, Shown, r
    <2>3. CASE r.op = "requestOtp"
        BY <1>1, <1>5, <2>1, <2>3 DEF Succeeded, Shown, r
    <2>4. CASE r.op = "saveProfile"
        BY <1>1, <1>5, <2>1, <2>4 DEF Succeeded, Shown, r
    <2>5. CASE r.op = "saveAccount"
        BY <1>1, <1>5, <2>1, <2>5 DEF Succeeded, Shown, r
    <2>6. CASE r.op = "addAccount"
        BY <1>1, <1>5, <2>1, <2>6 DEF Succeeded, Shown, r
    <2>7. CASE r.op = "saveCover"
        BY <1>1, <1>5, <2>1, <2>7 DEF Succeeded, Shown, r
    <2>8. CASE r.op = "coach"
        BY <1>1, <1>5, <2>1, <2>8 DEF Succeeded, Shown, r
    <2>9. CASE r.op = "opinion"
        BY <1>1, <1>5, <2>1, <2>9 DEF Succeeded, Shown, r
    <2>10. CASE r.op \notin {"profile", "requestOtp", "saveProfile", "saveAccount", "addAccount",
                             "saveCover", "coach", "opinion"}
        BY <1>1, <1>5, <2>10 DEF Succeeded, r
    <2>. QED
        BY <2>2, <2>3, <2>4, <2>5, <2>6, <2>7, <2>8, <2>9, <2>10
<1>. QED
    BY <1>4, <1>5

\* What a page shows of a failure closes no form and says nothing of the coach's.
LEMMA FailedFacts ==
    ASSUME StateOK, NEW r, ui' \in Failed(r)
    PROVE  /\ DOMAIN ui' = DOMAIN ui /\ ui'.add = ui.add /\ ui'.onboarding = ui.onboarding
           /\ ui'.coach = ui.coach
           /\ "coach" \in ui.locked => "coach" \in ui'.locked
           /\ r.op = "coach" => "coach" \in ui'.locked
BY DEF StateOK, Shown, Failed

\* A component shows the answer, and what follows is under way.
LEMMA AnswerStep ==
    ASSUME IInv, NEW n \in DOMAIN calls, calls[n].phase = "ok", ui' = Succeeded(calls[n]),
           calls' = IF Follow(calls[n]) = <<>> THEN Rest(n)
                    ELSE And(Rest(n), One(n, Follow(calls[n])[1])),
           busy' = busy \ Frees(calls[n]), UNCHANGED <<store, page, cards, made, mixed>>
    PROVE  IInv'
<1>. DEFINE r == calls[n]
<1>1. /\ StateOK /\ OneEach /\ Live(n) /\ RequestOK(r) /\ Proper(r) /\ PageOf(r.of) = page
      /\ Sends(r.of, r.op)
    BY DEF IInv, StateOK, RequestOK, Live, Proper
<1>2. Taken(n)
    BY RestIsTaken
<1>3. /\ DOMAIN ui' = DOMAIN ui /\ ui'.locked = ui.locked
      /\ r.op # "addAccount" => ui'.add = ui.add
      /\ r.op = "addAccount" => ~ui'.add
      /\ r.op \notin {"saveProfile", "saveAccount"} => ui'.onboarding = ui.onboarding
      /\ r.op = "saveAccount" => ui'.onboarding = 3
      /\ r.op # "coach" => ui'.coach = ui.coach
      /\ r.op = "coach" => ui'.coach = Append(r.arg, "assistant")
      /\ \A c \in Showing :
            \/ ui'[c] = ui[c]
            \/ IsLoad(r) /\ r.of = c /\ ui'[c] = r.got
            \/ r.op = "saveCover" /\ c = "warning"
    BY <1>1, SucceededFacts
<1>4. /\ StateOK' /\ OneEach'
      /\ \A k \in DOMAIN calls' : ~IsLoad(calls'[k]) =>
            k # n /\ k \in DOMAIN calls /\ calls'[k] = calls[k]
      /\ \A k \in DOMAIN calls \ {n} : Creating(k) => k \in DOMAIN calls'
    BY <1>1, <1>2, <1>3, TakenStep DEF IInv, StateOK
<1>5. /\ DOMAIN calls' \subseteq DOMAIN calls
      /\ \A k \in DOMAIN calls' \ {n} : calls'[k] = calls[k]
    BY <1>2 DEF Taken
<1>6. \A k \in DOMAIN calls' :
          calls'[k].op \in Changes \cup {"coach"} =>
              k # n /\ k \in DOMAIN calls /\ calls'[k] = calls[k]
    BY <1>4, LoadsAreSent DEF IsLoad
<1>. HIDE DEF r
<1>7. \A k \in DOMAIN calls' : Creating(k)' =>
          k # n /\ k \in DOMAIN calls /\ calls'[k] = calls[k] /\ Creating(k)
    BY <1>6 DEF Creating, Live, Changes
<1>8. TellsAll'
    <2>1. ASSUME made.rows > made.errors
          PROVE  Closed' \/ \E k \in DOMAIN calls' : Creating(k)' /\ calls'[k].phase # "sent"
        <3>1. CASE r.op = "addAccount"
            BY <1>1, <1>3, <3>1 DEF Closed, Sends, PageOf, Lists
        <3>2. CASE r.op = "saveAccount"
            BY <1>1, <1>3, <3>2 DEF Closed, Sends, PageOf, Lists
        <3>3. CASE r.op = "saveProfile"
            <4>1. page = "onboarding" /\ r.of = "onboarding" /\ ui.onboarding = 1
                BY <1>1, <3>3 DEF Sends, PageOf, IInv, TellsAll, r, Lists
            <4>2. PICK k \in DOMAIN calls : Creating(k)
                BY <2>1, <4>1 DEF IInv, TellsAll, Closed
            <4>3. Proper(calls[k]) /\ PageOf(calls[k].of) = page /\ Live(k)
                BY <4>2 DEF IInv, StateOK, RequestOK, Creating, Live
            <4>4. calls[k].of = "onboarding" /\ calls[k].op = "saveAccount"
                BY <4>1, <4>2, <4>3 DEF Proper, Sends, PageOf, Creating, Creates, Lists
            <4>5. k = n
                BY <1>1, <3>3, <4>1, <4>3, <4>4, OneForm DEF r, Forms, Changes, Creates, Resent
            <4>. QED
                BY <3>3, <4>4, <4>5 DEF r
        <3>4. CASE r.op \notin {"addAccount", "saveAccount", "saveProfile"}
            <4>1. Closed' = Closed
                BY <1>3, <3>4 DEF Closed
            <4>2. ASSUME NEW k \in DOMAIN calls, Creating(k), calls[k].phase # "sent"
                  PROVE  k \in DOMAIN calls' /\ Creating(k)' /\ calls'[k].phase # "sent"
                <5>1. k # n
                    BY <3>4, <4>2 DEF Creating, Creates, r
                <5>. QED
                    BY <1>4, <1>5, <4>2, <5>1 DEF Creating, Live
            <4>. QED
                BY <2>1, <4>1, <4>2 DEF IInv, TellsAll
        <3>. QED
            BY <3>1, <3>2, <3>3, <3>4
    <2>2. ASSUME NEW k \in DOMAIN calls', Live(k)', calls'[k].op = "saveProfile"
          PROVE  ui'.onboarding = 1
        <3>1. k # n /\ k \in DOMAIN calls /\ calls'[k] = calls[k] /\ Live(k)
            BY <1>6, <2>2 DEF Changes, Live
        <3>2. Proper(calls[k]) /\ calls[k].of = "onboarding"
            BY <2>2, <3>1 DEF IInv, StateOK, RequestOK, Live, Proper, Sends, Lists
        <3>3. r.op \notin {"saveProfile", "saveAccount"}
            <4>1. ASSUME r.op \in {"saveProfile", "saveAccount"} PROVE FALSE
                <5>1. r.of = "onboarding"
                    BY <1>1, <4>1 DEF Sends, Lists
                <5>. QED
                    BY <1>1, <2>2, <3>1, <3>2, <4>1, <5>1, OneForm DEF r, Forms, Changes, Creates, Resent
            <4>. QED
                BY <4>1
        <3>. QED
            BY <1>3, <2>2, <3>1, <3>3 DEF IInv, TellsAll
    <2>. QED
        BY <1>7, <2>1, <2>2 DEF IInv, TellsAll
<1>9. Chat'
    <2>1. CASE r.op = "coach"
        <3>1. r.arg = ui.coach /\ Len(ui.coach) % 2 = 1
            BY <1>1, <2>1 DEF IInv, Chat, r
        <3>2. /\ ui'.coach \in Seq({"user", "assistant"}) /\ Alternates(ui'.coach)
              /\ Len(ui'.coach) % 2 = 0
            <4>1. ui.coach \in Seq({"user", "assistant"}) /\ Alternates(ui.coach)
                BY DEF IInv, Chat, ChatAlternates, Alternates
            <4>2. ui'.coach = Append(ui.coach, "assistant")
                BY <1>3, <2>1, <3>1
            <4>. QED
                BY <3>1, <4>1, <4>2, OneMore
        <3>3. r.of = "coach" /\ r.holds = {"coach"}
            BY <1>1, <2>1 DEF Proper, Sends, Forms, Lists
        <3>4. Follow(r) = <<>>
            BY <2>1 DEF Follow
        <3>5. "coach" \notin busy'
            BY <3>3, <3>4 DEF Frees, r
        <3>6. ChatAlternates'
            BY <3>2, <3>5 DEF ChatAlternates, Alternates
        <3>7. ASSUME NEW k \in DOMAIN calls', Live(k)', calls'[k].op = "coach" PROVE FALSE
            <4>1. k # n /\ k \in DOMAIN calls /\ calls'[k] = calls[k] /\ Live(k)
                BY <1>6, <3>7 DEF Live
            <4>2. calls[k].of = "coach"
                BY <3>7, <4>1 DEF IInv, StateOK, RequestOK, Live, Proper, Sends, Lists
            <4>. QED
                BY <1>1, <2>1, <3>3, <3>7, <4>1, <4>2, OneForm DEF r, Forms, Resent
        <3>. QED
            BY <3>2, <3>6, <3>7 DEF Chat
    <2>2. CASE r.op # "coach"
        <3>1. "coach" \notin r.holds
            BY <1>1, <2>2 DEF Proper, Sends, Lists
        <3>2. "coach" \in busy' <=> "coach" \in busy
            BY <3>1 DEF Frees, r
        <3>3. ChatAlternates'
            <4>1. ui'.coach = ui.coach /\ ui'.locked = ui.locked /\ ChatAlternates
                BY <1>3, <2>2 DEF IInv, Chat
            <4>. QED
                BY <3>2, <4>1 DEF ChatAlternates
        <3>4. \A k \in DOMAIN calls' : Live(k)' /\ calls'[k].op = "coach" =>
                  calls'[k].arg = ui'.coach /\ Len(ui'.coach) % 2 = 1
            <4>1. ASSUME NEW k \in DOMAIN calls', Live(k)', calls'[k].op = "coach"
                  PROVE  calls'[k].arg = ui.coach /\ Len(ui.coach) % 2 = 1
                <5>1. k \in DOMAIN calls /\ calls'[k] = calls[k]
                    BY <1>6, <4>1
                <5>2. Live(k)
                    BY <4>1, <5>1 DEF Live
                <5>. QED
                    BY <4>1, <5>1, <5>2 DEF IInv, Chat
            <4>. QED
                BY <1>3, <2>2, <4>1
        <3>5. ui'.coach \in Seq({"user", "assistant"})
            BY <1>3, <2>2 DEF IInv, Chat
        <3>. QED
            BY <3>3, <3>4, <3>5 DEF Chat
    <2>. QED
        BY <2>1, <2>2
<1>10. Settles'
    <2>. SUFFICES ASSUME ~mixed PROVE Settles'
        BY DEF Settles
    <2>1. ASSUME NEW k \in DOMAIN calls', Live(k)', ~IsLoad(calls'[k]) PROVE FALSE
        BY <1>4, <2>1 DEF IInv, Settles, Live
    <2>2. Showing' = Showing /\ \A c \in Showing : Stored(c)' = Stored(c)
        BY SameShowing
    <2>3. ASSUME NEW k \in DOMAIN calls', Live(k)', calls'[k].of \in Showing,
                 IsLoad(calls'[k]), calls'[k].phase = "ok"
          PROVE  calls'[k].got = Stored(calls[k].of)'
        <3>1. k # n /\ k \in DOMAIN calls /\ calls'[k] = calls[k]
            BY <1>1, <1>2, <1>5, <2>3, InItsPlace
        <3>2. calls[k].got = Stored(calls[k].of)
            BY <2>3, <3>1 DEF IInv, Settles, Live
        <3>. QED
            BY <2>2, <2>3, <3>1, <3>2
    <2>4. ASSUME NEW c \in Showing
          PROVE  ui'[c] = Stored(c) \/ \E k \in DOMAIN calls' : Live(k)' /\ Renews(calls'[k], c)
        <3>1. ASSUME n \in DOMAIN calls', Follow(r)[1].of = c
              PROVE  Live(n)' /\ Renews(calls'[n], c)
            <4>1. calls'[n] = Follow(r)[1] /\ IsLoad(calls'[n]) /\ calls'[n].of # "gone"
                BY <1>1, <1>2, <3>1, InItsPlace DEF Taken, r
            <4>. QED
                BY <3>1, <4>1 DEF Live, Renews, IsLoad
        <3>2. Follow(r) # <<>> => n \in DOMAIN calls'
            BY <1>2 DEF Taken, r
        <3>3. CASE Follow(r) # <<>> /\ Follow(r)[1].of = c
            BY <3>1, <3>2, <3>3
        <3>4. CASE r.of = c /\ r.op = Loads[c]
            <4>1. IsLoad(r) /\ r.got = Stored(c) /\ c # "protection"
                BY <1>1, <3>4 DEF IsLoad, Showing, IInv, Settles, r
            <4>2. ui' = [ui EXCEPT ![c] = r.got]
                <5>1. r.op \in {"load", "list", "timeline", "scan", "plans"} /\ r.op # "profile"
                    BY <3>4, <4>1, LoadFacts DEF Showing
                <5>. QED
                    BY <3>4, <4>1, <5>1 DEF Succeeded, r
            <4>3. c \in DOMAIN ui
                BY <1>1, LoadFacts DEF Showing, StateOK, Shown
            <4>. QED
                BY <4>1, <4>2, <4>3
        <3>5. CASE ~Renews(r, c)
            <4>1. ui'[c] = ui[c]
                <5>1. ~(r.op = "saveCover" /\ c = "warning")
                    BY <3>5 DEF Renews, Follow, Req
                <5>2. ~(IsLoad(r) /\ r.of = c)
                    BY <3>5 DEF Renews, IsLoad
                <5>. QED
                    BY <1>3, <5>1, <5>2
            <4>2. CASE ui[c] = Stored(c)
                BY <4>1, <4>2
            <4>3. CASE \E k \in DOMAIN calls : Live(k) /\ Renews(calls[k], c)
                <5>1. PICK k \in DOMAIN calls : Live(k) /\ Renews(calls[k], c)
                    BY <4>3
                <5>2. k # n
                    BY <3>5, <5>1 DEF r
                <5>3. k \in DOMAIN calls'
                    <6>1. CASE IsLoad(r)
                        <7>1. r.op # "saveCover"
                            BY <6>1, LoadsAreSent DEF IsLoad, Changes
                        <7>. QED
                            BY <1>2, <5>2, <7>1 DEF Taken, r
                    <6>2. CASE ~IsLoad(r)
                        BY <1>1, <5>2, <6>2 DEF IInv, Settles, r
                    <6>. QED
                        BY <6>1, <6>2
                <5>. QED
                    BY <1>5, <5>1, <5>2, <5>3 DEF Live
            <4>. QED
                BY <4>2, <4>3 DEF IInv, Settles
        <3>. QED
            BY <3>3, <3>4, <3>5 DEF Renews
    <2>5. \A k \in DOMAIN calls' : Live(k)' /\ calls'[k].of \in Showing' /\ IsLoad(calls'[k])
              /\ calls'[k].phase = "ok" => calls'[k].got = Stored(calls[k].of)'
        BY <2>2, <2>3
    <2>6. \A c \in Showing' :
              ui'[c] = Stored(c)' \/ \E k \in DOMAIN calls' : Live(k)' /\ Renews(calls'[k], c)
        BY <2>2, <2>4
    <2>. QED
        BY <2>1, <2>5, <2>6 DEF Settles
<1>. QED
    BY <1>4, <1>8, <1>9, <1>10 DEF IInv

\* An error is shown, and from now on the page may be out of date.
LEMMA ErrorStep ==
    ASSUME IInv, NEW n \in DOMAIN calls, calls[n].phase \in {"failed", "denied"},
           ui' \in Failed(calls[n]), calls' = Rest(n), busy' = busy \ Frees(calls[n]),
           made' = IF calls[n].op \in Creates THEN [made EXCEPT !.errors = @ + 1] ELSE made,
           mixed' = TRUE, UNCHANGED <<store, page, cards>>
    PROVE  IInv'
<1>. DEFINE r == calls[n]
<1>1. /\ StateOK /\ OneEach /\ Live(n) /\ RequestOK(r) /\ Proper(r) /\ PageOf(r.of) = page
      /\ Sends(r.of, r.op)
    BY DEF IInv, StateOK, RequestOK, Live, Proper
<1>2. Taken(n)
    BY RestIsTaken
<1>3. /\ DOMAIN ui' = DOMAIN ui /\ ui'.add = ui.add /\ ui'.onboarding = ui.onboarding
      /\ ui'.coach = ui.coach
      /\ "coach" \in ui.locked => "coach" \in ui'.locked
      /\ r.op = "coach" => "coach" \in ui'.locked
    BY <1>1, FailedFacts
<1>4. /\ made.rows \in Nat /\ made.errors \in Nat /\ made' \in [rows : Nat, errors : Nat]
      /\ made'.rows = made.rows /\ made'.errors >= made.errors
      /\ r.op \in Creates => made'.errors = made.errors + 1
      /\ r.op \notin Creates => made' = made
    BY <1>1 DEF StateOK
<1>5. /\ StateOK' /\ OneEach'
      /\ \A k \in DOMAIN calls' : ~IsLoad(calls'[k]) =>
            k # n /\ k \in DOMAIN calls /\ calls'[k] = calls[k]
      /\ \A k \in DOMAIN calls \ {n} : Creating(k) => k \in DOMAIN calls'
    BY <1>1, <1>2, <1>3, <1>4, TakenStep
<1>6. /\ n \notin DOMAIN calls' /\ DOMAIN calls' \subseteq DOMAIN calls
      /\ \A k \in DOMAIN calls' : calls'[k] = calls[k]
    BY <1>2 DEF Taken
<1>. HIDE DEF r
<1>7. TellsAll'
    <2>1. Closed' = Closed
        BY <1>3 DEF Closed
    <2>2. made'.rows > made'.errors =>
              Closed' \/ \E k \in DOMAIN calls' : Creating(k)' /\ calls'[k].phase # "sent"
        <3>1. CASE r.op \in Creates
            BY <1>4, <3>1 DEF IInv, TellsAll
        <3>2. CASE r.op \notin Creates
            <4>1. ASSUME NEW k \in DOMAIN calls, Creating(k), calls[k].phase # "sent"
                  PROVE  k \in DOMAIN calls' /\ Creating(k)' /\ calls'[k].phase # "sent"
                <5>1. k # n
                    BY <3>2, <4>1 DEF Creating, r
                <5>. QED
                    BY <1>5, <1>6, <4>1, <5>1 DEF Creating, Live
            <4>. QED
                BY <1>4, <2>1, <3>2, <4>1 DEF IInv, TellsAll
        <3>. QED
            BY <3>1, <3>2
    <2>3. \A k \in DOMAIN calls' : Live(k)' = Live(k) /\ Creating(k)' = Creating(k)
        BY <1>6 DEF Live, Creating
    <2>. QED
        BY <1>3, <1>4, <1>6, <2>2, <2>3 DEF IInv, TellsAll
<1>8. Chat'
    <2>1. \A k \in DOMAIN calls' : Live(k)' /\ calls'[k].op = "coach" =>
              calls'[k].arg = ui'.coach /\ Len(ui'.coach) % 2 = 1
        BY <1>3, <1>6, ZenonT(30) DEF IInv, Chat, Live
    <2>2. Len(ui.coach) % 2 = 0 => "coach" \notin busy'
        BY DEF IInv, Chat, ChatAlternates
    <2>3. "coach" \in busy' \/ "coach" \in ui'.locked \/ Len(ui'.coach) % 2 = 0
        <3>1. CASE r.op = "coach"
            BY <1>3, <3>1
        <3>2. CASE r.op # "coach"
            <4>1. "coach" \notin r.holds
                BY <1>1, <3>2 DEF Proper, Sends, Lists
            <4>2. "coach" \in busy => "coach" \in busy'
                BY <4>1 DEF Frees, r
            <4>. QED
                BY <1>3, <4>2 DEF IInv, Chat, ChatAlternates
        <3>. QED
            BY <3>1, <3>2
    <2>4. ui.coach \in Seq({"user", "assistant"}) /\ ChatAlternates
        BY DEF IInv, Chat
    <2>5. ChatAlternates'
        BY <1>3, <2>2, <2>3, <2>4 DEF ChatAlternates
    <2>. QED
        BY <1>3, <2>1, <2>4, <2>5 DEF Chat
<1>9. Settles'
    BY DEF Settles
<1>. QED
    BY <1>5, <1>7, <1>8, <1>9 DEF IInv
------------------------------------------------------------------------------
(* The invariant *)

\* Every way to another page loads it afresh.
LEMMA OpenSteps ==
    ASSUME IInv, (\E p \in Pages : Visit(p)) \/ Logout \/ Finish
    PROVE  IInv'
<1>1. ASSUME NEW p \in Pages, Visit(p) PROVE IInv'
    BY <1>1, OpenStep DEF Visit
<1>2. CASE Logout
    BY <1>2, OpenStep DEF Logout, Pages
<1>3. CASE Finish
    BY <1>3, OpenStep DEF Finish, Done, Pages
<1>. QED
    BY <1>1, <1>2, <1>3

LEMMA ServeStep ==
    ASSUME IInv, NEW n \in DOMAIN calls, Serve(n)
    PROVE  IInv'
BY ServeGone, ServeLive

LEMMA ReceiveOkStep ==
    ASSUME IInv, NEW n \in DOMAIN calls, ReceiveOk(n)
    PROVE  IInv'
<1>. DEFINE r == calls[n]
<1>0. r.phase = "ok"
    BY DEF ReceiveOk
<1>1. CASE r.op = "signIn"
    <2>1. Open("dashboard", TRUE) /\ UNCHANGED <<store, cards>>
        BY <1>1 DEF ReceiveOk, SentToOnboarding
    <2>. QED
        BY <2>1, OpenStep DEF Pages
<1>2. CASE r.op = "saveGoal"
    <2>1. Done
        BY <1>2 DEF ReceiveOk, SentToOnboarding
    <2>. QED
        BY <2>1, OpenStep DEF Done, Pages
<1>3. CASE SentToOnboarding(r)
    <2>1. Open("onboarding", TRUE) /\ UNCHANGED <<store, cards>>
        BY <1>3 DEF ReceiveOk, SentToOnboarding
    <2>. QED
        BY <2>1, OpenStep DEF Pages
<1>4. CASE ~(r.op \in {"signIn", "saveGoal"} \/ SentToOnboarding(r))
    <2>1. /\ ui' = Succeeded(r)
          /\ calls' = IF Follow(r) = <<>> THEN Rest(n) ELSE And(Rest(n), One(n, Follow(r)[1]))
          /\ busy' = busy \ Frees(r)
          /\ UNCHANGED <<store, page, cards, made, mixed>>
        BY <1>4 DEF ReceiveOk
    <2>. QED
        BY <1>0, <2>1, AnswerStep
<1>. QED
    BY <1>1, <1>2, <1>3, <1>4

LEMMA ReceiveErrorStep ==
    ASSUME IInv, NEW n \in DOMAIN calls, ReceiveError(n)
    PROVE  IInv'
<1>1. CASE calls[n].op = "load"
    <2>1. Open("login", FALSE) /\ UNCHANGED <<store, cards>>
        BY <1>1 DEF ReceiveError
    <2>. QED
        BY <2>1, OpenStep DEF Pages
<1>2. CASE calls[n].op # "load"
    BY <1>2, ErrorStep DEF ReceiveError
<1>. QED
    BY <1>1, <1>2

\* Nothing is shown, asked for or made at first.
LEMMA InitOK == Init => IInv
<1>. SUFFICES ASSUME Init PROVE IInv
    OBVIOUS
<1>1. DOMAIN calls = {} /\ page = "login" /\ busy = {} /\ ui = Shown /\ made = NoneMade
      /\ mixed = FALSE
    BY DEF Init, NoCalls
<1>2. StateOK
    <2>1. cards \subseteq Cards
        BY UserAssumption DEF Init
    <2>2. /\ store = [accounts |-> store.accounts, rows |-> store.rows, ids |-> store.ids,
                      profile |-> store.profile, cover |-> store.cover,
                      snapshots |-> store.snapshots, tier |-> store.tier]
          /\ DOMAIN store.rows = Lists
        BY DEF Init
    <2>. QED
        BY <1>1, <2>1, <2>2 DEF StateOK, Pages, NoneMade
<1>3. OneEach /\ TellsAll
    BY <1>1 DEF OneEach, TellsAll, NoneMade
<1>4. Chat
    <2>1. ui.coach = <<>>
        BY <1>1 DEF Shown
    <2>2. /\ ui.coach \in Seq({"user", "assistant"}) /\ Len(ui.coach) = 0
          /\ \A n : n \notin DOMAIN ui.coach
        BY <2>1
    <2>3. ChatAlternates
        BY <1>1, <2>2 DEF ChatAlternates
    <2>. QED
        BY <1>1, <2>2, <2>3 DEF Chat
<1>5. Settles
    <2>1. Showing = {}
        BY <1>1, LoadFacts DEF Showing, Mounted
    <2>. QED
        BY <1>1, <2>1 DEF Settles
<1>. QED
    BY <1>2, <1>3, <1>4, <1>5 DEF IInv

LEMMA NextKeeps == IInv /\ [Next]_vars => IInv'
<1>. SUFFICES ASSUME IInv, [Next]_vars PROVE IInv'
    OBVIOUS
<1>1. CASE User
    BY <1>1, OpenSteps, AskSteps, SendStep, TypeSteps DEF User
<1>2. CASE Network
    BY <1>2, ServeStep, ReceiveOkStep, ReceiveErrorStep DEF Network
<1>3. CASE UNCHANGED vars
    <2>1. UNCHANGED <<store, page, cards, busy, calls, mixed, ui, made>>
        BY <1>3 DEF vars
    <2>2. TellsAll'
        BY <2>1 DEF IInv, TellsAll, Closed, Creating, Live
    <2>. QED
        BY <2>1, <2>2, TypeStep DEF IInv, StateOK
<1>. QED
    BY <1>1, <1>2, <1>3 DEF Next

\* The pages keep the invariant, whatever is done on them and however the API answers.
THEOREM Invariance == Spec => []IInv
BY InitOK, NextKeeps, PTL DEF Spec

\* A form adds one account for every time it was sent off, and is sent off again only
\* after it has shown an error (AddAccount, saveAccount).
THEOREM OneAccountPerError == Spec => []NoUnnoticedDouble
<1>1. IInv => NoUnnoticedDouble
    BY DEF IInv, TellsAll, NoUnnoticedDouble
<1>. QED
    BY <1>1, Invariance, PTL

\* The conversation alternates and begins with the user, and nothing is pending once
\* the coach has the last word (WealthCoach.send).
THEOREM TheChatAlternates == Spec => []ChatAlternates
<1>1. IInv => ChatAlternates
    BY DEF IInv, Chat
<1>. QED
    BY <1>1, Invariance, PTL

\* A page on which one thing was asked for at a time, and none failed, shows what the
\* API keeps once all its answers are in.
THEOREM SettledPagesAreTrue == Spec => []SettledPageIsTrue
<1>1. ASSUME IInv PROVE SettledPageIsTrue
    <2>. SUFFICES ASSUME DOMAIN calls = {}, ~mixed
                  PROVE  /\ page = "dashboard" =>
                              /\ ui.dashboard = store.accounts
                              /\ \A c \in cards \cap Lists : ui[c] = store.rows[c]
                              /\ "chart" \in cards => ui.chart = store.snapshots
                              /\ "protection" \in cards => ui.warning = store.cover
                         /\ page = "billing" => ui.billing = store.tier
        BY DEF SettledPageIsTrue
    <2>1. \A c \in Showing : ui[c] = Stored(c)
        BY <1>1 DEF IInv, Settles
    <2>2. CASE page = "dashboard"
        <3>1. /\ "dashboard" \in Showing /\ cards \cap (Lists \cup {"chart"}) \subseteq Showing
              /\ "protection" \in cards => "warning" \in Showing
            BY <2>2, LoadFacts DEF Showing, Mounted, Lists
        <3>2. /\ Stored("dashboard") = store.accounts /\ Stored("chart") = store.snapshots
              /\ Stored("warning") = store.cover /\ \A c \in Lists : Stored(c) = store.rows[c]
            BY DEF Stored, Lists
        <3>. QED
            BY <2>1, <2>2, <3>1, <3>2
    <2>3. CASE page = "billing"
        <3>1. "billing" \in Showing
            BY <2>3, LoadFacts DEF Showing, Mounted
        <3>2. Stored("billing") = store.tier
            BY DEF Stored, Lists
        <3>. QED
            BY <2>1, <2>3, <3>1, <3>2
    <2>. QED
        BY <2>2, <2>3
<1>. QED
    BY <1>1, Invariance, PTL

\* A form is off only while a request of this page is under way that gives it back, so
\* that no order of answers and errors can lose its button (the finally blocks).
Held == \A form \in busy : \E n \in DOMAIN calls : Live(n) /\ form \in calls[n].holds

THEOREM BusyFormsAreHeld == Spec => []Held
<1>1. IInv => Held
    BY DEF IInv, OneEach, Held
<1>. QED
    BY <1>1, Invariance, PTL
=============================================================================
