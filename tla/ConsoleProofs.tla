---------------------------- MODULE ConsoleProofs ----------------------------
(***************************************************************************)
(* Theorems about the console, for any number of requests in flight,       *)
(* clicks, failures and restarts, any names, secrets and texts.            *)
(***************************************************************************)
EXTENDS Console, SequenceTheorems, TLAPS

(***************************************************************************)
(* A list or a pending answer of the page is bound to the cookie in the    *)
(* browser: whatever changes the cookie also leaves or renews the page.    *)
(***************************************************************************)
SessionInv ==
    /\ \A i \in Current : calls[i].cookie = cookie
    /\ Current # {} => Mounted
    /\ ShownToSession

(***************************************************************************)
(* Why a page without an armed timer is right: a request for what it wants *)
(* is on its way, not overtaken, and all newer ones ask the same; or what  *)
(* is shown is right unless overtaken, and no pending answer can spoil it. *)
(***************************************************************************)
Asks(c) == c.mode = mode /\ c.query = query

Awaited ==
    \E i \in Current :
        /\ ~calls[i].overtaken /\ Asks(calls[i])
        /\ \A j \in Current : j > i => Asks(calls[j])

Displayed ==
    /\ data.shown /\ (data.old \/ Asks(data))
    /\ \A j \in Current : calls[j].overtaken \/ Asks(calls[j])

PageInv == Mounted /\ ~timer => Awaited \/ Displayed

IInv == TypeOK /\ SessionInv /\ PageInv

(***************************************************************************)
(* Whoever is let in has been waiting for that answer alone: no login is   *)
(* on its way while a page is on the screen, so one whose answer is lost   *)
(* changes the cookie under no page.                                       *)
(***************************************************************************)
EntryInv ==
    \A i, j \in DOMAIN calls :
        /\ calls[i].kind = "me" => authState = "loading" /\ Len(calls) = 1
        /\ calls[i].kind = "login" => authState = "out"
        /\ calls[i].kind = "login" /\ calls[j].kind = "login" => i = j

\* TypeOK in two parts: what renders and answers change, and the rest.
PageType ==
    /\ authState \in {"loading", "out", "in"} /\ tab \in Tab
    /\ mode \in Mode /\ query \in Text
    /\ data \in [mode : Mode, query : Text, shown : BOOLEAN, old : BOOLEAN]
    /\ timer \in BOOLEAN /\ loading \in BOOLEAN
    /\ timer \/ loading \/ data.shown => Mounted
    /\ calls \in Seq(Call) /\ Len(calls) <= MaxCall

RestType ==
    /\ conf \in Conf /\ cookie \in Cookie /\ toast \in BOOLEAN
    /\ acts \in 0..MaxAct /\ faults \in 0..MaxFault

------------------------------------------------------------------------------
(* Requests in flight *)

\* Taking the element at i out of a sequence shifts the later ones.
LEMMA Removal ==
    ASSUME NEW S, NEW s \in Seq(S), NEW i \in DOMAIN s
    PROVE  /\ RemoveAt(s, i) \in Seq(S)
           /\ Len(RemoveAt(s, i)) = Len(s) - 1
           /\ \A j \in 1..(Len(s) - 1) :
                 RemoveAt(s, i)[j] = IF j < i THEN s[j] ELSE s[j + 1]
<1>1. i \in 1..Len(s) /\ Len(s) \in Nat
  OBVIOUS
<1> DEFINE a == SubSeq(s, 1, i - 1)
           b == SubSeq(s, i + 1, Len(s))
<1>2. a \in Seq(S) /\ Len(a) = i - 1 /\ \A j \in 1..(i - 1) : a[j] = s[j]
  BY <1>1
<1>3. b \in Seq(S) /\ Len(b) = Len(s) - i /\ \A j \in 1..(Len(s) - i) : b[j] = s[i + j]
  BY <1>1
<1>4. RemoveAt(s, i) = a \o b
  BY DEF RemoveAt
<1> HIDE DEF a, b
<1>5. a \o b \in Seq(S) /\ Len(a \o b) = Len(s) - 1
  BY <1>1, <1>2, <1>3
<1>6. \A j \in 1..(Len(s) - 1) : (a \o b)[j] = IF j < i THEN s[j] ELSE s[j + 1]
  <2> TAKE j \in 1..(Len(s) - 1)
  <2>0. (a \o b)[j] = IF j <= Len(a) THEN a[j] ELSE b[j - Len(a)]
    BY <1>1, <1>2, <1>3, ConcatProperties
  <2>1. CASE j < i
    BY <1>1, <1>2, <2>0, <2>1
  <2>2. CASE ~(j < i)
    <3>1. (a \o b)[j] = b[j - (i - 1)]
      BY <1>1, <1>2, <2>0, <2>2
    <3>2. j - (i - 1) \in 1..(Len(s) - i) /\ i + (j - (i - 1)) = j + 1
      BY <1>1, <2>2
    <3> QED
      BY <1>3, <2>2, <3>1, <3>2
  <2> QED
    BY <2>1, <2>2
<1> QED
  BY <1>4, <1>5, <1>6

LEMMA TypeParts ==
    /\ TypeOK => PageType /\ RestType
    /\ PageType' /\ RestType' => TypeOK'
  BY DEF TypeOK, PageType, RestType, Mounted

LEMMA RequestType ==
    ASSUME TypeOK, NEW kind \in {"me", "login", "logout", "list"}
    PROVE  /\ Request(kind) \in Call /\ Request(kind).kind = kind
           /\ NoCookie \in Cookie
<1>1. User # {} /\ AnyUser \in User
  BY DEF TypeOK, Conf, AnyUser
<1>2. NoCookie \in Cookie /\ cookie \in Cookie /\ Blank \in Text
  BY ConsoleAssumption DEF TypeOK, Cookie, NoCookie
<1> QED
  BY <1>1, <1>2 DEF Request, Call, CookieFor, Mode

\* A list is asked for with what the page wants and the browser's cookie.
LEMMA ListingAsks ==
    ASSUME TypeOK, NEW fresh \in BOOLEAN
    PROVE  LET c == Listing(fresh) IN
           /\ c \in Call /\ c.kind = "list" /\ ~c.late /\ ~c.overtaken
           /\ Asks(c) /\ c.cookie = cookie
  BY RequestType DEF TypeOK, Listing, Request, Call, CookieFor, Asks

LEMMA LateIsLate ==
    ASSUME NEW c \in Call
    PROVE  /\ Late(c) \in Call /\ (Late(c).kind = "list" => Late(c).late)
           /\ Late(c).kind = c.kind
  BY ConsoleAssumption DEF Late, Call, Mode

LEMMA AbandonedIsLate ==
    ASSUME NEW cs \in Seq(Call)
    PROVE  /\ Abandoned(cs) \in Seq(Call) /\ Len(Abandoned(cs)) = Len(cs)
           /\ \A j \in DOMAIN Abandoned(cs) :
                 Abandoned(cs)[j].kind = "list" => Abandoned(cs)[j].late
<1>1. Abandoned(cs) = [j \in 1..Len(cs) |-> Late(cs[j])]
  BY DEF Abandoned
<1>2. \A j \in 1..Len(cs) : cs[j] \in Call
  BY ElementOfSeq
<1> QED
  BY <1>1, <1>2, LateIsLate

------------------------------------------------------------------------------
(* Kinds of steps *)

\* A render that mounts or leaves the page: nothing in flight is current.
LEMMA RenderKeeps ==
    ASSUME TypeOK, NEW cs \in Seq(Call), Len(cs) <= MaxCall, GoIn(cs) \/ GoOut(cs)
    PROVE  PageType' /\ SessionInv' /\ PageInv'
<1>1. /\ calls' \in Seq(Call) /\ Len(calls') <= MaxCall
      /\ \A j \in DOMAIN calls' : calls'[j].kind = "list" => calls'[j].late
  BY AbandonedIsLate DEF GoIn, GoOut
<1>2. PageType'
  <2>1. /\ mode' \in Mode /\ query' \in Text /\ ~data'.shown
        /\ data' \in [mode : Mode, query : Text, shown : BOOLEAN, old : BOOLEAN]
    <3>1. /\ NoData \in [mode : Mode, query : Text, shown : BOOLEAN, old : BOOLEAN]
          /\ ~NoData.shown
      BY ConsoleAssumption DEF NoData, Mode
    <3>2. data' = NoData /\ mode' = "by_key" /\ query' = Blank
      BY DEF GoIn, GoOut, Opened, Closed
    <3> QED
      BY <3>1, <3>2, ConsoleAssumption DEF Mode
  <2>2. /\ authState' \in {"loading", "out", "in"} /\ tab' = tab /\ tab \in Tab
        /\ timer' \in BOOLEAN /\ loading' \in BOOLEAN
        /\ timer' \/ loading' => authState' = "in" /\ tab' = "models"
    BY DEF TypeOK, GoIn, GoOut, Opened, Closed
  <2> QED
    BY <1>1, <2>1, <2>2 DEF PageType, Mounted
<1>3. Current' = {}
  BY <1>1 DEF Current
<1>4. SessionInv'
  BY <1>3 DEF SessionInv, ShownToSession, GoIn, GoOut, Opened, Closed, NoData
<1>5. PageInv'
  BY DEF PageInv, Mounted, GoIn, GoOut, Opened, Closed
<1> QED
  BY <1>2, <1>4, <1>5

LEMMA RemovalType ==
    ASSUME TypeOK, NEW i \in DOMAIN calls
    PROVE  Without(i) \in Seq(Call) /\ Len(Without(i)) <= MaxCall
<1>1. calls \in Seq(Call) /\ Len(calls) \in Nat /\ MaxCall \in Nat /\ Len(calls) <= MaxCall
  BY ConsoleAssumption DEF TypeOK
<1>2. Without(i) = RemoveAt(calls, i)
  BY DEF Without
<1>3. RemoveAt(calls, i) \in Seq(Call) /\ Len(RemoveAt(calls, i)) = Len(calls) - 1
  BY <1>1, Removal
<1> QED
  BY <1>1, <1>2, <1>3

(***************************************************************************)
(* A request leaves and the others stay as they are: one that is not a     *)
(* current list, or one whose failure makes the page load anew.            *)
(***************************************************************************)
LEMMA RemovalKeeps ==
    ASSUME IInv, NEW i \in DOMAIN calls, calls' = Without(i),
           UNCHANGED <<cookie, mode, query, data, authState, tab>>,
           (timer' = timer /\ i \notin Current) \/ timer' = Mounted
    PROVE  SessionInv' /\ PageInv'
<1> DEFINE Was(j) == IF j < i THEN j ELSE j + 1
           Is(j) == IF j < i THEN j ELSE j - 1
<1>1. calls \in Seq(Call) /\ i \in 1..Len(calls) /\ Len(calls) \in Nat
  BY DEF IInv, TypeOK
<1>2. /\ DOMAIN calls' = 1..(Len(calls) - 1)
      /\ \A j \in 1..(Len(calls) - 1) : calls'[j] = calls[Was(j)]
  <2> DEFINE s == RemoveAt(calls, i)
  <2>1. /\ s \in Seq(Call) /\ Len(s) = Len(calls) - 1
        /\ \A j \in 1..(Len(calls) - 1) :
              s[j] = IF j < i THEN calls[j] ELSE calls[j + 1]
    BY <1>1, Removal
  <2>2. calls' = s
    BY DEF Without
  <2> HIDE DEF s
  <2>3. DOMAIN s = 1..Len(s)
    BY <2>1
  <2> QED
    BY <2>1, <2>2, <2>3
<1>3. \A j \in DOMAIN calls' : Was(j) \in DOMAIN calls
  BY <1>1, <1>2
<1>4. \A j \in Current' : Was(j) \in Current /\ calls'[j] = calls[Was(j)]
  BY <1>2, <1>3 DEF Current
<1>5. \A j \in Current : j # i => Is(j) \in Current' /\ calls'[Is(j)] = calls[j]
  <2> TAKE j \in Current
  <2> HAVE j # i
  <2>1. j \in 1..Len(calls) /\ j # i
    BY <1>1 DEF Current
  <2>2. Is(j) \in 1..(Len(calls) - 1) /\ Was(Is(j)) = j
    BY <1>1, <2>1
  <2>3. Is(j) \in DOMAIN calls' /\ calls'[Is(j)] = calls[j]
    BY <1>2, <2>2
  <2> QED
    BY <2>3 DEF Current
<1>6. SessionInv'
  BY <1>4 DEF IInv, SessionInv, ShownToSession, Mounted
<1>7. ASSUME Awaited, i \notin Current PROVE Awaited'
  <2>1. PICK j \in Current : /\ ~calls[j].overtaken /\ Asks(calls[j])
                             /\ \A k \in Current : k > j => Asks(calls[k])
    BY <1>7 DEF Awaited
  <2>2. Is(j) \in Current' /\ calls'[Is(j)] = calls[j] /\ j # i
    BY <1>5, <1>7
  <2>3. \A k \in Current' : k > Is(j) => Was(k) > j
    <3> SUFFICES ASSUME NEW k \in Current', k > Is(j) PROVE Was(k) > j
      OBVIOUS
    <3>1. k \in 1..(Len(calls) - 1) /\ j \in 1..Len(calls) /\ j # i
      BY <1>1, <1>2, <2>2 DEF Current
    <3> QED
      BY <1>1, <3>1
  <2>4. \A k \in Current' : k > Is(j) => Asks(calls'[k])
    BY <1>4, <2>1, <2>3
  <2> QED
    BY <2>1, <2>2, <2>4 DEF Awaited, Asks
<1>8. ASSUME Displayed PROVE Displayed'
  BY <1>4, <1>8 DEF Displayed, Asks
<1> QED
  BY <1>6, <1>7, <1>8 DEF IInv, PageInv, Mounted

\* A request is sent: nobody else is disturbed, and a list asks what is wanted.
LEMMA SendKeeps ==
    ASSUME IInv, NEW c \in Call, Send(c),
           c.kind = "list" => /\ ~c.late /\ ~c.overtaken /\ Asks(c)
                              /\ c.cookie = cookie /\ Mounted,
           UNCHANGED <<cookie, mode, query, data, authState, tab>>,
           timer' = timer \/ c.kind = "list"
    PROVE  /\ calls' \in Seq(Call) /\ Len(calls') <= MaxCall
           /\ SessionInv' /\ PageInv'
<1> DEFINE n == Len(calls) + 1
<1>1. /\ calls \in Seq(Call) /\ Len(calls) \in Nat /\ DOMAIN calls = 1..Len(calls)
      /\ Len(calls) < MaxCall /\ MaxCall \in Nat
  BY ConsoleAssumption DEF IInv, TypeOK, Send
<1>2. /\ calls' \in Seq(Call) /\ Len(calls') = n /\ DOMAIN calls' = 1..n
      /\ calls'[n] = c /\ \A j \in 1..Len(calls) : calls'[j] = calls[j]
  BY <1>1, AppendProperties DEF Send
<1>3. Current' = IF c.kind = "list" THEN Current \cup {n} ELSE Current
  <2>1. \A j \in 1..n : j = n \/ j \in 1..Len(calls)
    BY <1>1
  <2> QED
    BY <1>1, <1>2, <2>1 DEF Current
<1>4. \A j \in Current : calls'[j] = calls[j] /\ j \in Nat /\ j < n
  BY <1>1, <1>2 DEF Current
<1>5. SessionInv'
  BY <1>2, <1>3, <1>4 DEF IInv, SessionInv, ShownToSession, Mounted
<1>6. PageInv'
  <2>1. CASE c.kind = "list"
    <3>1. /\ n \in Current' /\ ~calls'[n].overtaken
          /\ calls'[n].mode = mode' /\ calls'[n].query = query'
      BY <1>2, <1>3, <2>1 DEF Asks
    <3>2. \A j \in Current' : ~(j > n)
      BY <1>1, <1>3, <1>4
    <3>3. Awaited'
      BY <3>1, <3>2 DEF Awaited, Asks
    <3> QED
      BY <3>3 DEF PageInv
  <2>2. CASE c.kind # "list"
    <3>1. Awaited => Awaited'
      BY <1>3, <1>4, <2>2 DEF Awaited, Asks
    <3>2. Displayed => Displayed'
      BY <1>3, <1>4, <2>2 DEF Displayed, Asks
    <3> QED
      BY <2>2, <3>1, <3>2 DEF IInv, PageInv, Mounted
  <2> QED
    BY <2>1, <2>2
<1> QED
  BY <1>1, <1>2, <1>5, <1>6

\* Where the requests behind i and before it are once i is answered.
LEMMA OvertakingShifts ==
    ASSUME calls \in Seq(Call), NEW i \in DOMAIN calls
    PROVE  LET o == Overtaking(i) IN
           /\ o \in Seq(Call) /\ Len(o) = Len(calls) - 1
           /\ \A j \in 1..(Len(calls) - 1) : j >= i => o[j] = calls[j + 1]
           /\ \A j \in 1..(Len(calls) - 1) : j < i =>
                 /\ o[j] = calls[j] \/ o[j] = [calls[j] EXCEPT !.overtaken = TRUE]
                 /\ o[j].kind = "list" /\ ~o[j].late => o[j].overtaken
<1> DEFINE o == Overtaking(i)  n == Len(calls) - 1
<1>1. i \in 1..Len(calls) /\ Len(calls) \in Nat /\ n \in Nat
  OBVIOUS
<1>2. /\ Without(i) \in Seq(Call) /\ Len(Without(i)) = n
      /\ \A j \in 1..n : Without(i)[j] = IF j < i THEN calls[j] ELSE calls[j + 1]
  BY Removal DEF Without
<1>3. o = [j \in 1..n |->
             IF j < i /\ calls[j].kind = "list" /\ ~calls[j].late
               THEN [calls[j] EXCEPT !.overtaken = TRUE] ELSE Without(i)[j]]
  BY <1>2 DEF Overtaking
<1>4. \A j \in 1..n : /\ j < i => j \in 1..Len(calls) /\ calls[j] \in Call
                      /\ Without(i)[j] \in Call
  BY <1>1, <1>2, ElementOfSeq
<1>5. \A j \in 1..n : o[j] \in Call
  <2> TAKE j \in 1..n
  <2>1. j < i => [calls[j] EXCEPT !.overtaken = TRUE] \in Call
    BY <1>4 DEF Call
  <2> QED
    BY <1>3, <1>4, <2>1
<1>6. \A j \in 1..n : j >= i => o[j] = calls[j + 1]
  BY <1>1, <1>2, <1>3
<1>7. \A j \in 1..n : j < i =>
         /\ o[j] = calls[j] \/ o[j] = [calls[j] EXCEPT !.overtaken = TRUE]
         /\ o[j].kind = "list" /\ ~o[j].late => o[j].overtaken
  <2> TAKE j \in 1..n
  <2> HAVE j < i
  <2>1. CASE calls[j].kind = "list" /\ ~calls[j].late
    BY <1>3, <1>4, <2>1 DEF Call
  <2>2. CASE ~(calls[j].kind = "list" /\ ~calls[j].late)
    BY <1>1, <1>2, <1>3, <2>2
  <2> QED
    BY <2>1, <2>2
<1> HIDE DEF o
<1>8. o \in Seq(Call) /\ Len(o) = n
  BY <1>1, <1>3, <1>5
<1> QED
  BY <1>6, <1>7, <1>8 DEF o

(***************************************************************************)
(* A current list is shown.  If the awaited one is newer it is awaited     *)
(* still; if it is this one or older, what is shown is what it asked for,  *)
(* or came too late, and every older request has now been overtaken.       *)
(***************************************************************************)
LEMMA AnswerListKeeps ==
    ASSUME IInv, NEW i \in DOMAIN calls, AnswerList(i)
    PROVE  PageType' /\ SessionInv' /\ PageInv'
<1> DEFINE c == calls[i]  n == Len(calls) - 1
<1>1. calls \in Seq(Call) /\ i \in 1..Len(calls) /\ Len(calls) \in Nat /\ c \in Call
  BY ElementOfSeq DEF IInv, TypeOK
<1>2. i \in Current /\ c.kind = "list" /\ ~c.late
  BY DEF Current, AnswerList
<1>3. /\ calls' \in Seq(Call) /\ Len(calls') = n /\ DOMAIN calls' = 1..n
      /\ \A j \in 1..n : j >= i => calls'[j] = calls[j + 1]
      /\ \A j \in 1..n : j < i =>
            /\ calls'[j] = calls[j] \/ calls'[j] = [calls[j] EXCEPT !.overtaken = TRUE]
            /\ calls'[j].kind = "list" /\ ~calls'[j].late => calls'[j].overtaken
  <2>1. calls' = Overtaking(i)
    BY DEF AnswerList
  <2> DEFINE o == Overtaking(i)
  <2>2. /\ o \in Seq(Call) /\ Len(o) = Len(calls) - 1
        /\ \A j \in 1..(Len(calls) - 1) : j >= i => o[j] = calls[j + 1]
        /\ \A j \in 1..(Len(calls) - 1) : j < i =>
              /\ o[j] = calls[j] \/ o[j] = [calls[j] EXCEPT !.overtaken = TRUE]
              /\ o[j].kind = "list" /\ ~o[j].late => o[j].overtaken
    BY <1>1, OvertakingShifts
  <2>3. DOMAIN o = 1..Len(o)
    BY <2>2
  <2> HIDE DEF o
  <2>4. calls' = o
    BY <2>1 DEF o
  <2> QED
    BY <2>2, <2>3, <2>4
<1>4. /\ data' = [mode |-> c.mode, query |-> c.query, shown |-> TRUE, old |-> c.overtaken]
      /\ loading' = FALSE /\ (timer' = timer \/ timer' = Mounted)
      /\ UNCHANGED <<cookie, authState, tab, mode, query>>
  BY DEF AnswerList, Toasts
<1>5. authState = "in" /\ tab = "models"
  BY <1>2 DEF IInv, SessionInv, Mounted
<1>6. PageType'
  <2>1. data' \in [mode : Mode, query : Text, shown : BOOLEAN, old : BOOLEAN]
    BY <1>1, <1>4 DEF Call
  <2>2. timer' \in BOOLEAN
    BY <1>4, <1>5 DEF IInv, TypeOK, Mounted
  <2>3. calls' \in Seq(Call) /\ Len(calls') <= MaxCall
    BY <1>1, <1>3, ConsoleAssumption DEF IInv, TypeOK
  <2> QED
    BY <1>4, <1>5, <2>1, <2>2, <2>3 DEF IInv, TypeOK, PageType, Mounted
<1> DEFINE Was(j) == IF j < i THEN j ELSE j + 1
           Is(j) == IF j < i THEN j ELSE j - 1
<1>7. \A j \in Current' :
         /\ j \in 1..n /\ Was(j) \in Current
         /\ calls'[j].mode = calls[Was(j)].mode /\ calls'[j].query = calls[Was(j)].query
         /\ calls'[j].cookie = calls[Was(j)].cookie
         /\ j < i => calls'[j].overtaken
         /\ j >= i => calls'[j].overtaken = calls[Was(j)].overtaken
  <2> TAKE j \in Current'
  <2>1. j \in 1..n /\ calls'[j].kind = "list" /\ ~calls'[j].late
    BY <1>3 DEF Current
  <2>2. CASE j < i
    <3>1. j \in 1..Len(calls) /\ calls[j] \in Call
      BY <1>1, <2>1, <2>2, ElementOfSeq
    <3>2. calls'[j] = calls[j] \/ calls'[j] = [calls[j] EXCEPT !.overtaken = TRUE]
      BY <1>3, <2>1, <2>2
    <3>3. /\ calls'[j].mode = calls[j].mode /\ calls'[j].query = calls[j].query
          /\ calls'[j].cookie = calls[j].cookie /\ calls'[j].kind = calls[j].kind
          /\ calls'[j].late = calls[j].late
      BY <3>1, <3>2 DEF Call
    <3>4. j \in Current
      BY <1>1, <2>1, <3>1, <3>3 DEF Current
    <3>5. calls'[j].overtaken
      BY <1>3, <2>1, <2>2
    <3>6. Was(j) = j /\ ~(j >= i)
      BY <1>1, <2>1, <2>2
    <3> QED
      BY <2>1, <3>3, <3>4, <3>5, <3>6
  <2>3. CASE j >= i
    <3>1. calls'[j] = calls[j + 1] /\ j + 1 \in 1..Len(calls)
      BY <1>1, <1>3, <2>1, <2>3
    <3>2. j + 1 \in Current
      BY <1>1, <2>1, <3>1 DEF Current
    <3> QED
      BY <1>1, <2>1, <2>3, <3>1, <3>2
  <2> QED
    BY <1>1, <2>1, <2>2, <2>3
<1>8. SessionInv'
  <2>1. cookie = SignedValue(conf) /\ conf.user \in Carried
    BY <1>2 DEF AnswerList, Authenticated, IInv, SessionInv
  <2>2. ShownToSession'
    BY <1>4, <2>1 DEF ShownToSession, SignedValue, NoCookie
  <2> QED
    BY <1>4, <1>5, <1>7, <2>2 DEF IInv, SessionInv, Mounted
<1>9. ASSUME ~timer PROVE Awaited' \/ Displayed'
  <2>1. ASSUME NEW k \in Current, ~calls[k].overtaken, Asks(calls[k]), i < k,
               \A j \in Current : j > k => Asks(calls[j])
        PROVE  Awaited'
    <3>1. k \in 1..Len(calls) /\ k - 1 \in 1..n /\ k - 1 >= i /\ (k - 1) + 1 = k
      BY <1>1, <2>1 DEF Current
    <3>2. calls'[k - 1] = calls[k] /\ k - 1 \in Current'
      BY <1>3, <2>1, <3>1 DEF Current
    <3>3. \A j \in Current' : j > k - 1 => Was(j) \in Current /\ Was(j) > k
      BY <1>1, <1>7, <3>1
    <3>4. \A j \in Current' : j > k - 1 => Asks(calls[Was(j)])
      BY <2>1, <3>3
    <3>5. \A j \in Current' : j > k - 1 =>
             calls'[j].mode = mode' /\ calls'[j].query = query'
      BY <1>4, <1>7, <3>4 DEF Asks
    <3>6. /\ ~calls'[k - 1].overtaken
          /\ calls'[k - 1].mode = mode' /\ calls'[k - 1].query = query'
      BY <1>4, <2>1, <3>2 DEF Asks
    <3> QED
      BY <3>2, <3>5, <3>6 DEF Awaited, Asks
  <2>2. ASSUME Asks(c) \/ c.overtaken,
               \A j \in Current : j > i => calls[j].overtaken \/ Asks(calls[j])
        PROVE  Displayed'
    <3>1. \A j \in Current' : calls'[j].overtaken \/ Asks(calls[Was(j)])
      BY <1>1, <1>7, <2>2
    <3>2. \A j \in Current' : calls'[j].overtaken \/
             (calls'[j].mode = mode' /\ calls'[j].query = query')
      BY <1>4, <1>7, <3>1 DEF Asks
    <3> QED
      BY <1>4, <2>2, <3>2 DEF Displayed, Asks
  <2>3. CASE Awaited
    <3>1. PICK k \in Current : /\ ~calls[k].overtaken /\ Asks(calls[k])
                               /\ \A j \in Current : j > k => Asks(calls[j])
      BY <2>3 DEF Awaited
    <3>2. CASE i < k
      BY <2>1, <3>1, <3>2
    <3>3. CASE i >= k
      <4>1. Asks(c)
        BY <1>1, <1>2, <3>1, <3>3 DEF Current
      <4>2. \A j \in Current : j > i => Asks(calls[j])
        BY <1>1, <3>1, <3>3 DEF Current
      <4> QED
        BY <2>2, <4>1, <4>2
    <3> QED
      BY <1>1, <3>2, <3>3 DEF Current
  <2>4. CASE Displayed
    BY <1>2, <2>2, <2>4 DEF Displayed
  <2> QED
    BY <1>9, <1>5, <2>3, <2>4 DEF IInv, PageInv, Mounted
<1>10. ~timer' => ~timer
  BY <1>4, <1>5 DEF Mounted
<1> QED
  BY <1>6, <1>8, <1>9, <1>10 DEF PageInv

------------------------------------------------------------------------------
(* Steps *)

LEMMA InitInv == Init => IInv
<1> SUFFICES ASSUME Init PROVE IInv
  OBVIOUS
<1>1. User # {} /\ AnyUser \in User
  BY DEF Init, Conf, AnyUser
<1>2. /\ Request("me") \in Call /\ Request("me").kind = "me"
  BY <1>1, ConsoleAssumption DEF Init, Request, CookieFor, Call, Mode
<1>3. calls \in Seq(Call) /\ Len(calls) = 1 /\ Len(calls) <= MaxCall
  BY <1>2, ConsoleAssumption DEF Init
<1>4. data \in [mode : Mode, query : Text, shown : BOOLEAN, old : BOOLEAN] /\ ~data.shown
  BY ConsoleAssumption DEF Init, NoData, Mode
<1>5. TypeOK
  <2>1. 0 \in 0..MaxAct /\ 0 \in 0..MaxFault
    BY ConsoleAssumption
  <2>2. mode \in Mode /\ query \in Text
    BY ConsoleAssumption DEF Init, Mode
  <2>3. /\ conf \in Conf /\ cookie \in Cookie /\ authState = "loading" /\ tab \in Tab
        /\ ~timer /\ ~loading /\ {toast, timer, loading} \subseteq BOOLEAN
        /\ acts = 0 /\ faults = 0
    BY DEF Init, Tab
  <2> QED
    BY <1>3, <1>4, <2>1, <2>2, <2>3 DEF TypeOK
<1>6. Current = {}
  BY <1>2 DEF Current, Init
<1>7. SessionInv
  BY <1>4, <1>6 DEF SessionInv, ShownToSession
<1>8. PageInv
  BY DEF PageInv, Mounted, Init
<1> QED
  BY <1>5, <1>7, <1>8 DEF IInv

LEMMA AnswerKeeps ==
    ASSUME IInv, NEW i \in DOMAIN calls, Answer(i) PROVE IInv'
<1>0. TypeOK /\ PageType /\ RestType
  BY TypeParts DEF IInv
<1>1. Without(i) \in Seq(Call) /\ Len(Without(i)) <= MaxCall
  BY <1>0, RemovalType
<1>2. CASE AnswerMe(i)
  <2>1. PageType' /\ SessionInv' /\ PageInv'
    BY <1>0, <1>1, <1>2, RenderKeeps DEF AnswerMe
  <2>2. RestType'
    BY <1>0, <1>2 DEF AnswerMe, RestType, bounds
  <2> QED
    BY <2>1, <2>2, TypeParts DEF IInv
<1>3. CASE AnswerLogin(i)
  <2>1. CASE calls[i].user = conf.user
    <3>1. PageType' /\ SessionInv' /\ PageInv'
      BY <1>0, <1>1, <1>3, <2>1, RenderKeeps DEF AnswerLogin
    <3>2. RestType'
      BY <1>0, <1>3, <2>1 DEF AnswerLogin, RestType, bounds, Cookie, SignedValue
    <3> QED
      BY <3>1, <3>2, TypeParts DEF IInv
  <2>2. CASE calls[i].user # conf.user
    <3>1. /\ calls' = Without(i) /\ UNCHANGED <<conf, cookie, authState, tab, page, toast, bounds>>
      BY <1>3, <2>2 DEF AnswerLogin
    <3>2. i \notin Current
      BY <1>3 DEF AnswerLogin, Current
    <3>3. SessionInv' /\ PageInv'
      BY <3>1, <3>2, RemovalKeeps DEF page
    <3>4. PageType' /\ RestType'
      BY <1>0, <1>1, <3>1 DEF PageType, RestType, Mounted, page, bounds
    <3> QED
      BY <3>3, <3>4, TypeParts DEF IInv
  <2> QED
    BY <2>1, <2>2
<1>4. CASE AnswerLogout(i)
  <2>1. PageType' /\ SessionInv' /\ PageInv'
    BY <1>0, <1>1, <1>4, RenderKeeps DEF AnswerLogout
  <2>2. RestType'
    BY <1>0, <1>4, RequestType DEF AnswerLogout, RestType, bounds
  <2> QED
    BY <2>1, <2>2, TypeParts DEF IInv
<1>5. CASE RefuseList(i)
  <2>1. PageType' /\ SessionInv' /\ PageInv'
    BY <1>0, <1>1, <1>5, RenderKeeps DEF RefuseList
  <2>2. RestType'
    BY <1>0, <1>5 DEF RefuseList, RestType, bounds
  <2> QED
    BY <2>1, <2>2, TypeParts DEF IInv
<1>6. CASE AnswerList(i)
  <2>1. PageType' /\ SessionInv' /\ PageInv'
    BY <1>6, AnswerListKeeps
  <2>2. RestType'
    BY <1>0, <1>6 DEF AnswerList, Toasts, RestType, bounds
  <2> QED
    BY <2>1, <2>2, TypeParts DEF IInv
<1>7. CASE AnswerLate(i)
  <2>1. /\ calls' = Without(i) /\ (timer' = timer \/ timer' = Mounted)
        /\ UNCHANGED <<conf, cookie, authState, tab, mode, query, data, loading, bounds>>
        /\ (toast' = toast \/ toast' = TRUE)
    BY <1>7 DEF AnswerLate, Toasts
  <2>2. i \notin Current
    BY <1>7 DEF AnswerLate, Current
  <2>3. SessionInv' /\ PageInv'
    BY <2>1, <2>2, RemovalKeeps
  <2>4. timer' \in BOOLEAN /\ (timer' => Mounted)
    <3>1. CASE timer' = timer
      BY <1>0, <3>1 DEF PageType
    <3>2. CASE timer' = Mounted
      BY <3>2 DEF Mounted
    <3> QED
      BY <2>1, <3>1, <3>2
  <2>5. PageType' /\ RestType'
    BY <1>0, <1>1, <2>1, <2>4 DEF PageType, RestType, Mounted, bounds
  <2> QED
    BY <2>3, <2>5, TypeParts DEF IInv
<1> QED
  BY <1>2, <1>3, <1>4, <1>5, <1>6, <1>7 DEF Answer

LEMMA FailureKeeps ==
    ASSUME IInv, EntryInv, NEW i \in DOMAIN calls, Fails(i) PROVE IInv'
<1>0. TypeOK /\ PageType /\ RestType
  BY TypeParts DEF IInv
<1>1. Without(i) \in Seq(Call) /\ Len(Without(i)) <= MaxCall /\ calls[i] \in Call
  BY <1>0, RemovalType, ElementOfSeq DEF PageType
<1>2. UNCHANGED <<conf, acts>> /\ faults' \in 0..MaxFault
  BY <1>0, ConsoleAssumption DEF Fails, RestType
<1>3. CASE calls[i].kind = "me" \/ calls[i].kind = "logout"
  <2>1. /\ GoOut(Without(i)) /\ (toast' = toast \/ toast' = TRUE)
        /\ cookie' \in {cookie, NoCookie}
    BY <1>3 DEF Fails
  <2>2. PageType' /\ SessionInv' /\ PageInv'
    BY <1>0, <1>1, <2>1, RenderKeeps
  <2>3. RestType'
    BY <1>0, <1>2, <2>1, RequestType DEF RestType
  <2> QED
    BY <2>2, <2>3, TypeParts DEF IInv
<1>4. CASE calls[i].kind = "login"
  <2>1. /\ calls' = Without(i) /\ UNCHANGED <<authState, tab, page, toast>>
        /\ cookie' = cookie \/ cookie' = SignedValue(conf)
    BY <1>4 DEF Fails
  <2>2. PageType' /\ RestType'
    BY <1>0, <1>1, <1>2, <2>1 DEF PageType, RestType, Mounted, page, Cookie, SignedValue
  \* Nothing is on the screen, and no list is on its way to it.
  <2>3. ~Mounted /\ ~data.shown /\ Current = {}
    BY <1>0, <1>4 DEF EntryInv, IInv, SessionInv, PageType, Mounted
  <2>4. \A j \in DOMAIN calls' : \E k \in DOMAIN calls : calls'[j] = calls[k]
    <3>1. /\ Without(i) \in Seq(Call) /\ Len(Without(i)) = Len(calls) - 1
          /\ \A j \in 1..(Len(calls) - 1) :
                Without(i)[j] = IF j < i THEN calls[j] ELSE calls[j + 1]
      BY <1>0, Removal DEF PageType, Without
    <3>2. DOMAIN calls' = 1..(Len(calls) - 1) /\ DOMAIN calls = 1..Len(calls)
      BY <1>0, <2>1, <3>1 DEF PageType
    <3> QED
      BY <2>1, <3>1, <3>2
  <2>5. Current' = {}
    BY <2>3, <2>4 DEF Current
  <2>6. SessionInv' /\ PageInv'
    BY <2>1, <2>3, <2>5 DEF SessionInv, ShownToSession, PageInv, Mounted, page
  <2> QED
    BY <2>2, <2>6, TypeParts DEF IInv
<1>5. CASE calls[i].kind = "list"
  <2>1. /\ calls' = Without(i) /\ UNCHANGED <<cookie, authState, tab, mode, query, data>>
        /\ toast' = TRUE /\ timer' = Mounted /\ loading' = (loading /\ calls[i].late)
    BY <1>5 DEF Fails, Toasts
  <2>2. SessionInv' /\ PageInv'
    BY <1>2, <2>1, RemovalKeeps
  <2>3. timer' \in BOOLEAN /\ (timer' => Mounted)
    BY <2>1 DEF Mounted
  <2>4. loading' \in BOOLEAN /\ (loading' => Mounted)
    BY <1>0, <2>1 DEF PageType
  <2>5. PageType' /\ RestType'
    BY <1>0, <1>1, <1>2, <2>1, <2>3, <2>4 DEF PageType, RestType, Mounted
  <2> QED
    BY <2>2, <2>5, TypeParts DEF IInv
<1> QED
  BY <1>1, <1>3, <1>4, <1>5 DEF Call

\* The user, the timers and the server process.
LEMMA OtherKeeps ==
    ASSUME IInv,
           \/ TimerFires \/ ToastEnds \/ Refresh \/ Logout \/ RefuseOther
           \/ \E t \in Tab : SwitchTab(t)
           \/ \E u \in User : Login(u)
           \/ \E m \in Mode : SwitchMode(m)
           \/ \E q \in Text : Type(q)
           \/ \E c \in Conf : Restart(c)
    PROVE  IInv'
<1>0. TypeOK /\ PageType /\ RestType
  BY TypeParts DEF IInv
<1>1. Clicks => acts' \in 0..MaxAct
  BY <1>0, ConsoleAssumption DEF Clicks, RestType
<1>2. CASE TimerFires
  <2> DEFINE c == Listing(FALSE)
  <2>1. /\ c \in Call /\ c.kind = "list" /\ ~c.late /\ ~c.overtaken
        /\ Asks(c) /\ c.cookie = cookie
    BY <1>0, ListingAsks
  <2>2. /\ Send(c) /\ Mounted /\ timer' = FALSE /\ loading' = TRUE
        /\ UNCHANGED <<conf, cookie, authState, tab, toast, mode, query, data, bounds>>
    BY <1>0, <1>2 DEF TimerFires, PageType, Mounted
  <2> HIDE DEF c
  <2>3. /\ calls' \in Seq(Call) /\ Len(calls') <= MaxCall
        /\ SessionInv' /\ PageInv'
    BY <2>1, <2>2, SendKeeps
  <2>4. PageType' /\ RestType'
    BY <1>0, <2>2, <2>3 DEF PageType, RestType, bounds, Mounted
  <2> QED
    BY <2>3, <2>4, TypeParts DEF IInv
<1>3. CASE Refresh
  <2> DEFINE c == Listing(TRUE)
  <2>1. /\ c \in Call /\ c.kind = "list" /\ ~c.late /\ ~c.overtaken
        /\ Asks(c) /\ c.cookie = cookie
    BY <1>0, ListingAsks
  <2>2. /\ Send(c) /\ Mounted /\ loading' = TRUE /\ acts' \in 0..MaxAct
        /\ UNCHANGED <<conf, cookie, authState, tab, toast, mode, query, data, timer, faults>>
    BY <1>1, <1>3 DEF Refresh, Clicks
  <2> HIDE DEF c
  <2>3. /\ calls' \in Seq(Call) /\ Len(calls') <= MaxCall
        /\ SessionInv' /\ PageInv'
    BY <2>1, <2>2, SendKeeps
  <2>4. PageType' /\ RestType'
    BY <1>0, <2>2, <2>3 DEF PageType, RestType, Mounted
  <2> QED
    BY <2>3, <2>4, TypeParts DEF IInv
<1>4. CASE Logout \/ \E u \in User : Login(u)
  <2>1. PICK c \in Call :
          /\ Send(c) /\ c.kind # "list" /\ acts' \in 0..MaxAct
          /\ UNCHANGED <<conf, cookie, authState, tab, toast, page, faults>>
    <3>1. CASE Logout
      BY <1>0, <1>1, <3>1, RequestType DEF Logout
    <3>2. ASSUME NEW u \in User, Login(u)
          PROVE  \E c \in Call :
                   /\ Send(c) /\ c.kind # "list" /\ acts' \in 0..MaxAct
                   /\ UNCHANGED <<conf, cookie, authState, tab, toast, page, faults>>
      <4>1. /\ [Request("login") EXCEPT !.user = u] \in Call
            /\ [Request("login") EXCEPT !.user = u].kind = "login"
        BY <1>0, RequestType DEF Call
      <4>2. acts' \in 0..MaxAct
        BY <1>0, <3>2, ConsoleAssumption DEF Login, RestType
      <4> QED
        BY <3>2, <4>1, <4>2 DEF Login
    <3> QED
      BY <1>4, <3>1, <3>2
  <2>2. /\ calls' \in Seq(Call) /\ Len(calls') <= MaxCall
        /\ SessionInv' /\ PageInv'
    BY <2>1, SendKeeps DEF page
  <2>3. PageType' /\ RestType'
    BY <1>0, <2>1, <2>2 DEF PageType, RestType, Mounted, page
  <2> QED
    BY <2>2, <2>3, TypeParts DEF IInv
<1>5. CASE RefuseOther
  <2>1. GoOut(calls)
    BY <1>5 DEF RefuseOther
  <2>2. PageType' /\ SessionInv' /\ PageInv'
    BY <1>0, <2>1, RenderKeeps DEF PageType
  <2>3. RestType'
    BY <1>0, <1>5 DEF RefuseOther, RestType, bounds
  <2> QED
    BY <2>2, <2>3, TypeParts DEF IInv
<1>11. ASSUME NEW t \in Tab, SwitchTab(t) PROVE IInv'
  <2>1. /\ calls' \in Seq(Call) /\ Len(calls') <= MaxCall /\ Current' = {}
    <3>1. /\ calls' \in Seq(Call) /\ Len(calls') <= MaxCall
          /\ \A j \in DOMAIN calls' : calls'[j].kind = "list" => calls'[j].late
      BY <1>0, <1>11, AbandonedIsLate DEF PageType, SwitchTab
    <3> QED
      BY <3>1 DEF Current
  <2>2. mode' = "by_key" /\ query' = Blank /\ data' = NoData /\ loading' = FALSE
    BY <1>11 DEF SwitchTab, Opened, Closed
  <2>3. /\ data' \in [mode : Mode, query : Text, shown : BOOLEAN, old : BOOLEAN]
        /\ mode' \in Mode /\ query' \in Text /\ ~data'.shown
    BY <2>2, ConsoleAssumption DEF NoData, Mode
  <2>4. /\ timer' \in BOOLEAN /\ (timer' => tab' = "models")
        /\ authState' = "in" /\ tab' \in Tab
        /\ tab' = "models" => timer'
    BY <1>11 DEF SwitchTab, Opened, Closed
  <2>5. PageType'
    BY <2>1, <2>2, <2>3, <2>4 DEF PageType, Mounted
  <2>6. SessionInv' /\ PageInv'
    BY <2>1, <2>3, <2>4 DEF SessionInv, ShownToSession, PageInv, Mounted
  <2>7. RestType'
    BY <1>0, <1>1, <1>11 DEF SwitchTab, RestType
  <2> QED
    BY <2>5, <2>6, <2>7, TypeParts DEF IInv
\* What touches no request and arms the timer, if there is a page.
<1>6. ASSUME UNCHANGED <<cookie, authState, tab, data, loading, calls>>,
             mode' \in Mode, query' \in Text, RestType',
             timer' = Mounted \/ UNCHANGED <<mode, query, timer>>
      PROVE  IInv'
  <2>1. SessionInv'
    BY <1>6 DEF IInv, SessionInv, ShownToSession, Current, Mounted
  <2>2. PageInv'
    <3>1. CASE timer' = Mounted
      BY <1>6, <3>1 DEF PageInv, Mounted
    <3>2. CASE UNCHANGED <<mode, query, timer>>
      BY <1>6, <3>2 DEF IInv, PageInv, Awaited, Displayed, Asks, Current, Mounted
    <3> QED
      BY <1>6, <3>1, <3>2
  <2>3. timer' \in BOOLEAN /\ (timer' => Mounted)
    <3>1. CASE timer' = Mounted
      BY <3>1 DEF Mounted
    <3>2. CASE timer' = timer
      BY <1>0, <3>2 DEF PageType
    <3> QED
      BY <1>6, <3>1, <3>2
  <2>4. PageType'
    BY <1>0, <1>6, <2>3 DEF PageType, Mounted
  <2> QED
    BY <1>6, <2>1, <2>2, <2>4, TypeParts DEF IInv
<1>7. CASE ToastEnds
  BY <1>0, <1>6, <1>7 DEF ToastEnds, Toasts, PageType, RestType, bounds
<1>8. ASSUME NEW m \in Mode, SwitchMode(m) PROVE IInv'
  BY <1>0, <1>1, <1>6, <1>8 DEF SwitchMode, Clicks, Mounted, PageType, RestType
<1>9. ASSUME NEW q \in Text, Type(q) PROVE IInv'
  BY <1>0, <1>1, <1>6, <1>9 DEF Type, Clicks, Mounted, PageType, RestType
<1>10. ASSUME NEW c \in Conf, Restart(c) PROVE IInv'
  <2>1. faults' \in 0..MaxFault
    BY <1>0, <1>10, ConsoleAssumption DEF Restart, RestType
  <2> QED
    BY <1>0, <1>6, <1>10, <2>1 DEF Restart, page, PageType, RestType
<1> QED
  BY <1>2, <1>3, <1>4, <1>5, <1>7, <1>8, <1>9, <1>10, <1>11

LEMMA StepInv == IInv /\ EntryInv /\ [Next]_vars => IInv'
<1> SUFFICES ASSUME IInv, EntryInv, [Next]_vars PROVE IInv'
  OBVIOUS
<1>1. CASE UNCHANGED vars
  BY <1>1 DEF IInv, TypeOK, SessionInv, ShownToSession, PageInv, Awaited, Displayed,
              Asks, Current, Mounted, vars, page, bounds
<1>2. CASE Next
  BY <1>2, AnswerKeeps, FailureKeeps, OtherKeeps DEF Next
<1> QED
  BY <1>1, <1>2

------------------------------------------------------------------------------
(* Who is let in *)

\* A request is answered or fails; the kinds of the others stay.
LEMMA OneLeaves ==
    ASSUME TypeOK, NEW i \in DOMAIN calls, Answer(i) \/ Fails(i)
    PROVE  /\ DOMAIN calls = 1..Len(calls) /\ Len(calls) \in Nat
           /\ DOMAIN calls' = 1..(Len(calls) - 1)
           /\ \A j \in 1..(Len(calls) - 1) :
                 /\ j < i => calls'[j].kind = calls[j].kind
                 /\ ~(j < i) => calls'[j].kind = calls[j + 1].kind
<1> DEFINE n == Len(calls) - 1
<1>1. calls \in Seq(Call) /\ i \in 1..Len(calls) /\ Len(calls) \in Nat
  BY DEF TypeOK
<1>2. /\ Without(i) \in Seq(Call) /\ Len(Without(i)) = n
      /\ \A j \in 1..n : Without(i)[j] = IF j < i THEN calls[j] ELSE calls[j + 1]
  BY <1>1, Removal DEF Without
<1>3. CASE calls' = Without(i)
  BY <1>1, <1>2, <1>3
<1>4. CASE calls' = Abandoned(Without(i))
  <2>1. calls' = [j \in 1..n |-> Late(Without(i)[j])]
    BY <1>2, <1>4 DEF Abandoned
  <2>2. \A j \in 1..n : Without(i)[j] \in Call
    BY <1>2, ElementOfSeq
  <2>3. \A j \in 1..n : calls'[j].kind = Without(i)[j].kind
    BY <2>1, <2>2, LateIsLate
  <2>4. DOMAIN calls' = 1..n
    BY <2>1
  <2>5. \A j \in 1..n : /\ j < i => Without(i)[j].kind = calls[j].kind
                        /\ ~(j < i) => Without(i)[j].kind = calls[j + 1].kind
    BY <1>2
  <2>6. \A j \in 1..n : /\ j < i => calls'[j].kind = calls[j].kind
                        /\ ~(j < i) => calls'[j].kind = calls[j + 1].kind
    BY <2>3, <2>5
  <2>7. DOMAIN calls = 1..Len(calls) /\ Len(calls) \in Nat
    BY <1>1
  <2> QED
    BY <2>4, <2>6, <2>7
<1>5. CASE calls' = Overtaking(i)
  <2> DEFINE o == Overtaking(i)
  <2>1. /\ o \in Seq(Call) /\ Len(o) = n
        /\ \A j \in 1..n : j >= i => o[j] = calls[j + 1]
        /\ \A j \in 1..n : j < i =>
              /\ o[j] = calls[j] \/ o[j] = [calls[j] EXCEPT !.overtaken = TRUE]
              /\ o[j].kind = "list" /\ ~o[j].late => o[j].overtaken
    BY <1>1, OvertakingShifts
  <2> HIDE DEF o
  <2>2. \A j \in 1..n : j < i => calls[j] \in Call
    BY <1>1, ElementOfSeq
  <2>3. \A j \in 1..n : j < i => o[j].kind = calls[j].kind
    BY <2>1, <2>2 DEF Call
  <2>4. calls' = o
    BY <1>5 DEF o
  <2> QED
    BY <1>1, <2>1, <2>3, <2>4
<1>6. \/ calls' = Without(i)
      \/ calls' = Abandoned(Without(i))
      \/ calls' = Overtaking(i)
  <2>1. CASE Answer(i)
    BY <2>1 DEF Answer, AnswerMe, AnswerLogin, AnswerLogout, RefuseList, AnswerList,
                AnswerLate, GoIn, GoOut
  <2>2. CASE Fails(i)
    <3>1. calls[i].kind \in {"me", "login", "logout", "list"}
      <4>1. calls[i] \in Call
        BY <1>1, ElementOfSeq
      <4> QED
        BY <4>1 DEF Call
    <3>2. CASE calls[i].kind \in {"me", "logout"}
      BY <2>2, <3>2 DEF Fails, GoOut
    <3>3. CASE calls[i].kind = "login"
      BY <2>2, <3>3 DEF Fails
    <3>4. CASE calls[i].kind = "list"
      BY <2>2, <3>4 DEF Fails
    <3> QED
      BY <3>1, <3>2, <3>3, <3>4
  <2> QED
    BY <2>1, <2>2
<1> QED
  BY <1>3, <1>4, <1>5, <1>6

LEMMA LeavingKeepsEntry ==
    ASSUME TypeOK, EntryInv, NEW i \in DOMAIN calls, Answer(i) \/ Fails(i)
    PROVE  EntryInv'
<1> DEFINE Was(j) == IF j < i THEN j ELSE j + 1
<1>1. /\ DOMAIN calls = 1..Len(calls) /\ Len(calls) \in Nat /\ i \in 1..Len(calls)
      /\ DOMAIN calls' = 1..(Len(calls) - 1)
  BY OneLeaves
<1>2. \A j \in DOMAIN calls' :
         Was(j) \in DOMAIN calls /\ Was(j) # i /\ calls'[j].kind = calls[Was(j)].kind
  <2> TAKE j \in DOMAIN calls'
  <2>1. Was(j) \in DOMAIN calls /\ Was(j) # i
    BY <1>1
  <2>2. calls'[j].kind = calls[Was(j)].kind
    BY <1>1, OneLeaves
  <2> QED
    BY <2>1, <2>2
\* Where the answer decides over authState, i is the one that was waited for.
<1>3. \/ authState' = authState \/ authState' = "out"
      \/ calls[i].kind \in {"me", "login"}
  <2>1. CASE Answer(i)
    BY <2>1 DEF Answer, AnswerMe, AnswerLogin, AnswerLogout, RefuseList, AnswerList,
                AnswerLate, GoIn, GoOut
  <2>2. CASE Fails(i)
    <3>1. calls[i].kind \in {"me", "login", "logout", "list"}
      <4>1. calls \in Seq(Call) /\ i \in 1..Len(calls)
        BY DEF TypeOK
      <4>2. calls[i] \in Call
        BY <4>1, ElementOfSeq
      <4> QED
        BY <4>2 DEF Call
    <3>2. CASE calls[i].kind = "logout"
      BY <2>2, <3>2 DEF Fails, GoOut
    <3>3. CASE calls[i].kind = "list"
      BY <2>2, <3>3 DEF Fails
    <3> QED
      BY <3>1, <3>2, <3>3
  <2> QED
    BY <2>1, <2>2
<1>4. ASSUME NEW j \in DOMAIN calls' PROVE calls'[j].kind # "me"
  <2>1. Len(calls) # 1
    BY <1>1
  <2> QED
    BY <1>2, <2>1 DEF EntryInv
<1>5. ASSUME NEW j \in DOMAIN calls', calls'[j].kind = "login" PROVE authState' = "out"
  <2>1. Was(j) \in DOMAIN calls /\ Was(j) # i /\ calls[Was(j)].kind = "login"
    BY <1>2, <1>5
  <2>2. authState = "out" /\ calls[i].kind # "login"
    BY <2>1 DEF EntryInv
  <2>3. calls[i].kind # "me"
    BY <2>2 DEF EntryInv
  <2> QED
    BY <1>3, <2>2, <2>3
<1>6. ASSUME NEW j \in DOMAIN calls', NEW k \in DOMAIN calls',
             calls'[j].kind = "login", calls'[k].kind = "login"
      PROVE  j = k
  <2>1. Was(j) = Was(k)
    BY <1>2, <1>6 DEF EntryInv
  <2> QED
    BY <1>1, <2>1
<1> QED
  BY <1>4, <1>5, <1>6 DEF EntryInv

LEMMA SendingKeepsEntry ==
    ASSUME TypeOK, EntryInv, NEW c, Send(c), authState' = authState,
           \/ c.kind \in {"list", "logout"} /\ authState = "in"
           \/ /\ c.kind = "login" /\ authState = "out"
              /\ \A i \in DOMAIN calls : calls[i].kind # "login"
    PROVE  EntryInv'
<1> DEFINE n == Len(calls) + 1
<1>1. /\ calls \in Seq(Call) /\ Len(calls) \in Nat /\ DOMAIN calls = 1..Len(calls)
      /\ DOMAIN calls' = 1..n /\ calls'[n] = c
      /\ \A j \in 1..Len(calls) : calls'[j] = calls[j]
  BY DEF TypeOK, Send
<1>2. \A j \in DOMAIN calls' : j = n \/ (j \in DOMAIN calls /\ calls'[j] = calls[j])
  BY <1>1
<1>3. \A j \in DOMAIN calls' : calls'[j].kind # "me"
  BY <1>1, <1>2 DEF EntryInv
<1>4. \A j \in DOMAIN calls' : calls'[j].kind = "login" => authState' = "out"
  BY <1>1, <1>2 DEF EntryInv
<1>5. \A j, k \in DOMAIN calls' :
         calls'[j].kind = "login" /\ calls'[k].kind = "login" => j = k
  BY <1>1, <1>2 DEF EntryInv
<1> QED
  BY <1>3, <1>4, <1>5 DEF EntryInv

LEMMA StepEntry == TypeOK /\ EntryInv /\ [Next]_vars => EntryInv'
<1> SUFFICES ASSUME TypeOK, EntryInv, [Next]_vars PROVE EntryInv'
  OBVIOUS
\* Nothing is sent or answered, and who was waiting goes on waiting.
<1>1. ASSUME UNCHANGED <<authState, calls>> PROVE EntryInv'
  BY <1>1 DEF EntryInv
\* What the page had asked for is abandoned by whoever is in.
<1>2. ASSUME authState = "in", calls' = Abandoned(calls) PROVE EntryInv'
  <2>1. calls \in Seq(Call) /\ calls' = [j \in 1..Len(calls) |-> Late(calls[j])]
    BY <1>2 DEF TypeOK, Abandoned
  <2>2. \A j \in DOMAIN calls : calls[j] \in Call
    BY <2>1, ElementOfSeq
  <2>3. DOMAIN calls' = DOMAIN calls
    BY <2>1
  <2>4. \A j \in DOMAIN calls : calls'[j].kind = calls[j].kind
    BY <2>1, <2>2, LateIsLate
  <2> QED
    BY <1>2, <2>3, <2>4 DEF EntryInv
<1>3. ASSUME NEW i \in DOMAIN calls, Answer(i) \/ Fails(i) PROVE EntryInv'
  BY <1>3, LeavingKeepsEntry
<1>4. CASE TimerFires
  <2> DEFINE c == Listing(FALSE)
  <2>1. Send(c) /\ c.kind = "list" /\ UNCHANGED authState /\ authState = "in"
    BY <1>4, ListingAsks DEF TimerFires, TypeOK, Mounted
  <2> HIDE DEF c
  <2> QED
    BY <2>1, SendingKeepsEntry
<1>5. CASE Refresh
  <2> DEFINE c == Listing(TRUE)
  <2>1. Send(c) /\ c.kind = "list" /\ UNCHANGED authState /\ authState = "in"
    BY <1>5, ListingAsks DEF Refresh, Mounted
  <2> HIDE DEF c
  <2> QED
    BY <2>1, SendingKeepsEntry
<1>6. CASE Logout
  <2> DEFINE c == Request("logout")
  <2>1. Send(c) /\ c.kind = "logout" /\ UNCHANGED authState /\ authState = "in"
    BY <1>6, RequestType DEF Logout, Clicks
  <2> HIDE DEF c
  <2> QED
    BY <2>1, SendingKeepsEntry
<1>7. ASSUME NEW u \in User, Login(u) PROVE EntryInv'
  <2> DEFINE c == [Request("login") EXCEPT !.user = u]
  <2>1. Send(c) /\ UNCHANGED authState /\ authState = "out"
    BY <1>7 DEF Login
  <2>2. c.kind = "login" /\ \A i \in DOMAIN calls : calls[i].kind # "login"
    BY <1>7, RequestType DEF Login, Call
  <2> HIDE DEF c
  <2> QED
    BY <2>1, <2>2, SendingKeepsEntry
<1>8. CASE RefuseOther \/ \E t \in Tab : SwitchTab(t)
  BY <1>2, <1>8 DEF RefuseOther, SwitchTab, GoOut
<1>9. CASE ToastEnds \/ \E c \in Conf : Restart(c)
  BY <1>1, <1>9 DEF ToastEnds, Restart
<1>10. CASE \/ \E m \in Mode : SwitchMode(m)
            \/ \E q \in Text : Type(q)
  BY <1>1, <1>10 DEF SwitchMode, Type
<1>11. CASE UNCHANGED vars
  BY <1>1, <1>11 DEF vars
<1> QED
  BY <1>3, <1>4, <1>5, <1>6, <1>7, <1>8, <1>9, <1>10, <1>11 DEF Next

LEMMA Inductive == Spec => [](IInv /\ EntryInv)
<1>1. Init => EntryInv
  BY DEF Init, EntryInv, Request
<1>2. IInv /\ EntryInv /\ [Next]_vars => EntryInv'
  BY StepEntry DEF IInv
<1> QED
  BY <1>1, <1>2, InitInv, StepInv, PTL DEF Spec

\* Type correctness of the browser, the page and the requests in flight.
THEOREM TypeCorrect == Spec => []TypeOK
  BY Inductive, PTL DEF IInv

(***************************************************************************)
(* A list is only ever on the screen of the session it was served to.      *)
(***************************************************************************)
THEOREM ListsAreOfTheSession == Spec => []ShownToSession
  BY Inductive, PTL DEF IInv, SessionInv

(***************************************************************************)
(* A page that has nothing left to load shows what it is asked for, unless *)
(* an older answer came last; however many requests were in flight.        *)
(***************************************************************************)
THEOREM SettledPageIsRight == Spec => []SettledView
<1>1. IInv => SettledView
  BY DEF IInv, PageInv, Awaited, Displayed, Asks, SettledView
<1> QED
  BY <1>1, Inductive, PTL
==============================================================================
