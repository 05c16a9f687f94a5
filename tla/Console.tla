------------------------------- MODULE Console -------------------------------
(***************************************************************************)
(* One browser with the console: App.jsx, which decides from the answers   *)
(* it gets whether to show the login or a page, and the page of models,    *)
(* Models.jsx, which loads what its mode and its search box ask for.       *)
(* Requests are in flight together and answered in any order, some after   *)
(* the page, or the session, they were sent from is gone.                  *)
(*                                                                         *)
(* A request is served when its answer is delivered, so one action does    *)
(* what the handler, the browser and the continuation of the page do.      *)
(* What a list holds is in ModelQuery; here only what it was asked for.    *)
(***************************************************************************)
EXTENDS Session, Naturals, SequencesExt

CONSTANTS
    Text,      \* texts of the search box, trimmed
    Blank,     \* the empty one
    MaxCall,   \* bound: requests in flight
    MaxAct,    \* bound: clicks and changes by the user
    MaxFault   \* bound: requests that fail, restarts of the server

ASSUME ConsoleAssumption ==
    /\ Blank \in Text
    /\ MaxCall \in Nat \ {0} /\ MaxAct \in Nat /\ MaxFault \in Nat

VARIABLES
    conf,       \* configuration of the server process
    cookie,     \* modelister_session in the browser
    authState, tab, toast,               \* App; tab: what it shows once in
    mode, query, data, timer, loading,   \* Models; timer: the debounce is armed
    calls,      \* requests in flight, from the oldest
    acts, faults

page == <<mode, query, data, timer, loading>>
bounds == <<acts, faults>>
vars == <<conf, cookie, authState, tab, toast, page, calls, bounds>>

Mode == {"by_key", "merged"}
Tab == {"models", "other"}   \* other: providers, the tab at first, or changes

\* late: sent from a page that is gone.  overtaken: a newer one was answered.
Call == [kind : {"me", "login", "logout", "list"}, cookie : Cookie,
         user : User, mode : Mode, query : Text, refresh : BOOLEAN,
         late : BOOLEAN, overtaken : BOOLEAN]

NoData == [mode |-> "by_key", query |-> Blank, shown |-> FALSE, old |-> FALSE]

\* The page of models is on the screen.
Mounted == authState = "in" /\ tab = "models"

TypeOK ==
    /\ conf \in Conf /\ cookie \in Cookie
    /\ authState \in {"loading", "out", "in"} /\ tab \in Tab
    /\ mode \in Mode /\ query \in Text
    /\ data \in [mode : Mode, query : Text, shown : BOOLEAN, old : BOOLEAN]
    /\ {toast, timer, loading} \subseteq BOOLEAN
    /\ timer \/ loading \/ data.shown => Mounted
    /\ calls \in Seq(Call) /\ Len(calls) <= MaxCall
    /\ acts \in 0..MaxAct /\ faults \in 0..MaxFault

------------------------------------------------------------------------------
(* Requests *)

\* Mutant: SetCookie without `Path: "/"`, sent with /api/auth only.
CookieOfLogin(kind) == IF kind = "list" THEN NoCookie ELSE cookie
\* credentials: "include", and a cookie of path /.
CookieFor(kind) == cookie

AnyUser == CHOOSE u \in User : TRUE

\* login and logout do not look at the cookie they are sent with.
Request(kind) ==
    [kind |-> kind, user |-> AnyUser,
     cookie |-> IF kind \in {"me", "list"} THEN CookieFor(kind) ELSE NoCookie,
     mode |-> "by_key", query |-> Blank, refresh |-> FALSE,
     late |-> FALSE, overtaken |-> FALSE]

Send(call) == Len(calls) < MaxCall /\ calls' = Append(calls, call)

\* What fetchModels asks for: search with a text, list without.
Listing(fresh) ==
    [Request("list") EXCEPT !.mode = mode, !.query = query, !.refresh = fresh]

Late(call) ==
    IF call.kind # "list" THEN call
      ELSE [call EXCEPT !.late = TRUE, !.overtaken = FALSE,
                        !.mode = "by_key", !.query = Blank]

Without(i) == RemoveAt(calls, i)
Abandoned(cs) == [j \in DOMAIN cs |-> Late(cs[j])]

\* The answer of request i is shown: older lists on the way come too late.
Overtaking(i) ==
    [j \in DOMAIN Without(i) |->
        IF j < i /\ calls[j].kind = "list" /\ ~calls[j].late
          THEN [calls[j] EXCEPT !.overtaken = TRUE] ELSE Without(i)[j]]

------------------------------------------------------------------------------
(* Renders *)

\* A page mounted anew: its effect arms the timer.
Opened ==
    /\ mode' = "by_key" /\ query' = Blank /\ data' = NoData
    /\ timer' = TRUE /\ loading' = FALSE

\* Mutant: the effect of Models has no cleanup.
ClosedButArmed ==
    /\ mode' = "by_key" /\ query' = Blank /\ data' = NoData
    /\ loading' = FALSE /\ UNCHANGED timer

Closed ==
    /\ mode' = "by_key" /\ query' = Blank /\ data' = NoData
    /\ timer' = FALSE /\ loading' = FALSE

\* App keeps its tab while it shows the login.
GoIn(cs) ==
    /\ authState' = "in" /\ calls' = Abandoned(cs) /\ UNCHANGED tab
    /\ \/ tab = "models" /\ Opened
       \/ tab # "models" /\ Closed
GoOut(cs) ==
    authState' = "out" /\ calls' = Abandoned(cs) /\ UNCHANGED tab /\ Closed

(***************************************************************************)
(* A toast that comes or goes renders App.  App passes new callbacks, and  *)
(* the effect of Models, which depends on them, arms its timer again.      *)
(***************************************************************************)
Toasts(shown) == toast' = shown /\ timer' = Mounted

------------------------------------------------------------------------------
(* Answers *)

\* checkAuth
AnswerMe(i) ==
    /\ calls[i].kind = "me"
    /\ IF Authenticated(conf, calls[i].cookie) THEN GoIn(Without(i))
                                               ELSE GoOut(Without(i))
    /\ UNCHANGED <<conf, cookie, toast, bounds>>

\* Manager.Login and submit of Login.jsx; a refusal is shown in the form.
AnswerLogin(i) ==
    /\ calls[i].kind = "login"
    /\ IF calls[i].user = conf.user
         THEN cookie' = SignedValue(conf) /\ GoIn(Without(i))
         ELSE calls' = Without(i) /\ UNCHANGED <<cookie, authState, tab, page>>
    /\ UNCHANGED <<conf, toast, bounds>>

\* Manager.Logout needs no session, and handleLogout leaves whatever it says.
AnswerLogout(i) ==
    /\ calls[i].kind = "logout"
    /\ cookie' = NoCookie /\ GoOut(Without(i)) /\ toast' = TRUE
    /\ UNCHANGED <<conf, bounds>>

\* RequireAuth refuses: onUnauthorized, also from a page that is gone.
RefuseList(i) ==
    /\ calls[i].kind = "list" /\ ~Authenticated(conf, calls[i].cookie)
    /\ GoOut(Without(i))
    /\ UNCHANGED <<conf, cookie, toast, bounds>>

\* Mutant: a toast after every load.
AnswerWithToast(i) ==
    /\ calls[i].kind = "list" /\ ~calls[i].late
    /\ Authenticated(conf, calls[i].cookie)
    /\ data' = [mode |-> calls[i].mode, query |-> calls[i].query,
                shown |-> TRUE, old |-> calls[i].overtaken]
    /\ loading' = FALSE /\ calls' = Overtaking(i)
    /\ Toasts(TRUE)
    /\ UNCHANGED <<conf, cookie, authState, tab, mode, query, bounds>>

\* List and Search answer with the mode and the text they were asked for.
AnswerList(i) ==
    /\ calls[i].kind = "list" /\ ~calls[i].late
    /\ Authenticated(conf, calls[i].cookie)
    /\ data' = [mode |-> calls[i].mode, query |-> calls[i].query,
                shown |-> TRUE, old |-> calls[i].overtaken]
    /\ loading' = FALSE /\ calls' = Overtaking(i)
    /\ IF calls[i].refresh THEN Toasts(TRUE) ELSE UNCHANGED <<toast, timer>>
    /\ UNCHANGED <<conf, cookie, authState, tab, mode, query, bounds>>

\* No page takes the answer, but the toast of a refresh is App's.
AnswerLate(i) ==
    /\ calls[i].kind = "list" /\ calls[i].late
    /\ Authenticated(conf, calls[i].cookie)
    /\ calls' = Without(i)
    /\ IF calls[i].refresh THEN Toasts(TRUE) ELSE UNCHANGED <<toast, timer>>
    /\ UNCHANGED <<conf, cookie, authState, tab, mode, query, data, loading, bounds>>

(***************************************************************************)
(* No connection, or a failing database: a 500 of a list.  The connection  *)
(* may break before the request is served, or after the browser has stored *)
(* the cookie that the answer to a login or a logout sets.                 *)
(***************************************************************************)
Fails(i) ==
    /\ faults < MaxFault /\ faults' = faults + 1
    /\ CASE calls[i].kind = "me" -> GoOut(Without(i)) /\ UNCHANGED <<cookie, toast>>
         [] calls[i].kind = "login" ->
              /\ calls' = Without(i) /\ UNCHANGED <<authState, tab, page, toast>>
              /\ \/ UNCHANGED cookie
                 \/ calls[i].user = conf.user /\ cookie' = SignedValue(conf)
         [] calls[i].kind = "logout" ->
              /\ GoOut(Without(i)) /\ toast' = TRUE
              /\ cookie' \in {cookie, NoCookie}
         [] calls[i].kind = "list" ->
              /\ Toasts(TRUE) /\ calls' = Without(i)
              /\ loading' = (loading /\ calls[i].late)
              /\ UNCHANGED <<cookie, authState, tab, mode, query, data>>
    /\ UNCHANGED <<conf, acts>>

Answer(i) ==
    \/ AnswerMe(i) \/ AnswerLogin(i) \/ AnswerLogout(i)
    \/ RefuseList(i) \/ AnswerList(i) \/ AnswerLate(i)

------------------------------------------------------------------------------
(* Timers, the user and the server process *)

TimerFires ==
    /\ timer /\ timer' = FALSE
    /\ Send(Listing(FALSE)) /\ loading' = TRUE
    /\ UNCHANGED <<conf, cookie, authState, tab, toast, mode, query, data, bounds>>

ToastEnds ==
    /\ toast /\ Toasts(FALSE)
    /\ UNCHANGED <<conf, cookie, authState, tab, mode, query, data, loading, calls, bounds>>

\* Login.jsx: the button is disabled while a login is on its way.  A wrong
\* name stands for a wrong password too; nobody mistypes for ever.
Login(u) ==
    /\ authState = "out"
    /\ \A i \in DOMAIN calls : calls[i].kind # "login"
    /\ Send([Request("login") EXCEPT !.user = u])
    /\ IF u = conf.user THEN UNCHANGED acts ELSE acts < MaxAct /\ acts' = acts + 1
    /\ UNCHANGED <<conf, cookie, authState, tab, toast, page, faults>>

Clicks == authState = "in" /\ acts < MaxAct /\ acts' = acts + 1

\* Mutant: fetchModels without mode among its dependencies.
SwitchUnseen(m) ==
    /\ Mounted /\ Clicks /\ m # mode /\ mode' = m
    /\ UNCHANGED <<conf, cookie, authState, tab, toast, query, data, timer, loading,
                   calls, faults>>

SwitchMode(m) ==
    /\ Mounted /\ Clicks /\ m # mode /\ mode' = m /\ timer' = TRUE
    /\ UNCHANGED <<conf, cookie, authState, tab, toast, query, data, loading, calls, faults>>

\* Spaces count as a change of the box and not of the text.
Type(q) ==
    /\ Mounted /\ Clicks /\ query' = q /\ timer' = TRUE
    /\ UNCHANGED <<conf, cookie, authState, tab, toast, mode, data, loading, calls, faults>>

Refresh ==
    /\ Mounted /\ Clicks /\ ~loading /\ loading' = TRUE
    /\ Send(Listing(TRUE))
    /\ UNCHANGED <<conf, cookie, authState, tab, toast, mode, query, data, timer, faults>>

\* In the header of every tab, and not disabled while a logout is on its way.
Logout ==
    /\ Clicks /\ Send(Request("logout"))
    /\ UNCHANGED <<conf, cookie, authState, tab, toast, page, faults>>

\* The page that is left loses what it asked for.  Only leaving is counted.
SwitchTab(t) ==
    /\ authState = "in" /\ t # tab /\ tab' = t /\ calls' = Abandoned(calls)
    /\ \/ t = "models" /\ Opened /\ UNCHANGED acts
       \/ t # "models" /\ Closed /\ Clicks
    /\ UNCHANGED <<conf, cookie, authState, toast, faults>>

\* A request of another tab is refused.
RefuseOther ==
    /\ authState = "in" /\ tab # "models" /\ ~Authenticated(conf, cookie)
    /\ GoOut(calls)
    /\ UNCHANGED <<conf, cookie, toast, bounds>>

\* The process is started again, maybe with other settings.
Restart(c) ==
    /\ faults < MaxFault /\ faults' = faults + 1 /\ conf' = c
    /\ UNCHANGED <<cookie, authState, tab, toast, page, calls, acts>>

Init ==
    /\ conf \in Conf /\ cookie \in Cookie
    /\ authState = "loading" /\ tab = "other" /\ toast = FALSE
    /\ mode = "by_key" /\ query = Blank /\ data = NoData
    /\ timer = FALSE /\ loading = FALSE
    /\ calls = <<Request("me")>>
    /\ acts = 0 /\ faults = 0

Answered == \E i \in DOMAIN calls : Answer(i)

Next ==
    \/ \E i \in DOMAIN calls : Answer(i) \/ Fails(i)
    \/ TimerFires \/ ToastEnds
    \/ \E u \in User : Login(u)
    \/ \E m \in Mode : SwitchMode(m)
    \/ \E q \in Text : Type(q)
    \/ \E t \in Tab : SwitchTab(t)
    \/ Refresh \/ Logout \/ RefuseOther
    \/ \E c \in Conf : Restart(c)

Spec == Init /\ [][Next]_vars

\* Requests are answered, timers run, and who is logged out logs in again.
FairSpec ==
    /\ Spec
    /\ WF_vars(Answered) /\ WF_vars(TimerFires) /\ WF_vars(ToastEnds)
    /\ WF_vars(Login(conf.user))

------------------------------------------------------------------------------
Current == {i \in DOMAIN calls : calls[i].kind = "list" /\ ~calls[i].late}
Quiet == ~timer /\ ~loading /\ ~toast /\ calls = <<>>

(***************************************************************************)
(* When the page has nothing left to load it shows what its mode and its   *)
(* box ask for, whatever failed or was switched meanwhile, unless the      *)
(* answer of an older request came after that of a newer one.              *)
(***************************************************************************)
SettledView ==
    Mounted /\ ~timer /\ Current = {} =>
        /\ data.shown
        /\ ~data.old => data.mode = mode /\ data.query = query

(***************************************************************************)
(* Toasts, renders and loads set off one another, but once the user and    *)
(* the failures stop the console comes to rest, with no spinner and no     *)
(* request that repeats for ever.                                          *)
(***************************************************************************)
PageSettles == <>[](conf.user \in Carried) => <>[]Quiet

(***************************************************************************)
(* Late refusals and late logouts may end a new session, and a restart     *)
(* with another secret ends all, but who keeps logging in stays in at last.*)
(***************************************************************************)
SessionLasts == <>[](conf.user \in Carried) => <>[](authState = "in")

(***************************************************************************)
(* A list is on the screen only as long as the browser holds the cookie of *)
(* a session that the server took for one: not after a logout or a late    *)
(* answer to it, and never with a name that the cookie does not bring back,*)
(* for which every login succeeds and every list is refused.               *)
(***************************************************************************)
ShownToSession ==
    data.shown => cookie # NoCookie /\ \A c \in cookie : c.user \in Carried
==============================================================================
