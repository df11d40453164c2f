------------------------------- MODULE Sessions -------------------------------
(***************************************************************************)
(* The PIN of the web interface: the sessions of internal/api/auth.go and  *)
(* the part of the page www/static/app.js that asks for the PIN and shows  *)
(* whether the system is locked.                                           *)
(*                                                                         *)
(* The tabs of one browser share its cookie jar. Each tab runs at most one *)
(* operation of its user, and polls the state of the lock beside it: every *)
(* second, and once more after a logout (lockNow), so that polls of one    *)
(* tab may overtake each other. A prompt for the PIN stops the page. A     *)
(* request carries the cookie of the moment in which it is sent, and an    *)
(* answer changes the jar in the moment in which it arrives. Browsers do   *)
(* not share sessions, so there is one.                                    *)
(*                                                                         *)
(* A session is the number of its login; random ids are taken as distinct. *)
(* The instant of expiry is kept as the time left.                         *)
(***************************************************************************)
EXTENDS Integers

CONSTANTS
    PinSet,    \* FALSE: PHB_PIN is empty
    Tabs,
    Writers,   \* bound: the tabs whose user presses other buttons than Lock
    Slots,     \* the polls that may be under way: a tab and a number each
    TTL,       \* sessionTTL
    MaxLogins  \* bound on the logins

ASSUME SessionsAssumption ==
    /\ PinSet \in BOOLEAN
    /\ Writers \subseteq Tabs
    /\ Slots \subseteq Tabs \X Nat
    /\ \A t \in Tabs : \E s \in Slots : s[1] = t
    /\ TTL \in Nat \ {0}
    /\ MaxLogins \in Nat

VARIABLES
    sessions,  \* the keys of Server.sessions
    left,      \* the time each session has left; -1: it has expired
    logins,    \* how many logins there were
    jar,       \* the session cookie of the browser, 0 for none
    op,        \* the operation of each tab
    poll,      \* the poll in each slot
    shown,     \* what each tab says of the lock
    born,      \* history: time since the login of each session
    ended      \* history: the sessions that were logged out

vars == <<sessions, left, logins, jar, op, poll, shown, born, ended>>
server  == <<sessions, left, logins>>
history == <<born, ended>>

Ids == 1..MaxLogins
NoCookie == 0
Cookies  == Ids \cup {NoCookie}

Lefts == -1..TTL
Ages  == 0..(TTL + 1)

\* `asks': the request was made by authedFetch, which asks for the PIN.
Op(pc, cookie, asks) == [pc |-> pc, cookie |-> cookie, asks |-> asks]
Ready == Op("ready", NoCookie, FALSE)
Poll(pc, cookie) == [pc |-> pc, cookie |-> cookie]
NoPoll == Poll("none", NoCookie)

Ops   == [pc : {"ready", "write", "admitted", "prompt", "pin", "welcome",
                "retry", "logout", "bye"},
          cookie : Cookies, asks : BOOLEAN]
Polls == [pc : {"none", "status", "locked", "unlocked"},
          cookie : Cookies]

Init ==
    /\ sessions = {}
    /\ left = [i \in Ids |-> -1]
    /\ logins = 0
    /\ jar = NoCookie
    /\ op = [t \in Tabs |-> Ready]
    /\ poll = [s \in Slots |-> NoPoll]
    /\ shown = [t \in Tabs |-> "nothing"]
    /\ born = [i \in Ids |-> 0]
    /\ ended = {}

Set(t, o) == op' = [op EXCEPT ![t] = o]

-----------------------------------------------------------------------------
(* The server.                                                             *)

Live(c) == c \in sessions /\ left[c] >= 0

\* validSession forgets an expired session that is presented to it.
ValidSession(c) == sessions' = IF Live(c) THEN sessions ELSE sessions \ {c}

Admitted(c) == ~PinSet \/ Live(c)

\* requireAuth.  A refused page asks for the PIN, or says nothing.
RequireAuth(t) ==
    /\ op[t].pc = "write"
    /\ IF PinSet THEN ValidSession(op[t].cookie) ELSE UNCHANGED sessions
    /\ Set(t, IF Admitted(op[t].cookie) THEN Op("admitted", op[t].cookie, FALSE)
              ELSE IF op[t].asks THEN Op("prompt", NoCookie, FALSE) ELSE Ready)
    /\ UNCHANGED <<left, logins, jar, poll, shown, history>>

\* The handler behind it, which is not stopped by a session that ends now.
Serve(t) ==
    /\ op[t].pc = "admitted"
    /\ Set(t, Ready)
    /\ UNCHANGED <<server, jar, poll, shown, history>>

NewSession(t) ==
    /\ op[t].pc = "pin"
    /\ logins < MaxLogins
    /\ LET id == logins + 1
       IN  /\ logins' = id
           /\ sessions' = sessions \cup {id}
           /\ left' = [left EXCEPT ![id] = TTL]
           /\ born' = [born EXCEPT ![id] = 0]
           /\ Set(t, Op("welcome", id, FALSE))
    /\ UNCHANGED <<jar, poll, shown, ended>>

WrongPIN(t) ==
    /\ op[t].pc = "pin"
    /\ Set(t, Ready)
    /\ UNCHANGED <<server, jar, poll, shown, history>>

\* A logout that leaves it to the browser to forget the session.
LogoutForgets(t) ==
    /\ op[t].pc = "logout"
    /\ ended' = ended \cup ({op[t].cookie} \cap Ids)
    /\ Set(t, Op("bye", NoCookie, FALSE))
    /\ UNCHANGED <<sessions, left, logins, jar, poll, shown, born>>
\* dropSession.
Logout(t) ==
    /\ op[t].pc = "logout"
    /\ sessions' = sessions \ {op[t].cookie}
    /\ ended' = ended \cup ({op[t].cookie} \cap Ids)
    /\ Set(t, Op("bye", NoCookie, FALSE))
    /\ UNCHANGED <<left, logins, jar, poll, shown, born>>

SetPoll(s, p) == poll' = [poll EXCEPT ![s] = p]
TabOf(s) == s[1]

\* A session that lives on as long as it is used.
CheckStatusRenews(s) ==
    /\ poll[s].pc = "status"
    /\ IF PinSet THEN ValidSession(poll[s].cookie) ELSE UNCHANGED sessions
    /\ SetPoll(s, IF PinSet /\ Live(poll[s].cookie)
                     THEN Poll("unlocked", NoCookie)
                     ELSE Poll("locked", NoCookie))
    /\ left' = [i \in Ids |-> IF i = poll[s].cookie /\ Live(i)
                              THEN TTL ELSE left[i]]
    /\ UNCHANGED <<logins, jar, op, shown, history>>
\* handleAuthStatus.  It looks the session up a second time for the instant of
\* expiry, which is left out.
CheckStatus(s) ==
    /\ poll[s].pc = "status"
    /\ IF PinSet THEN ValidSession(poll[s].cookie) ELSE UNCHANGED sessions
    /\ SetPoll(s, IF PinSet /\ Live(poll[s].cookie)
                     THEN Poll("unlocked", NoCookie)
                     ELSE Poll("locked", NoCookie))
    /\ UNCHANGED <<left, logins, jar, op, shown, history>>

-----------------------------------------------------------------------------
(* The page.                                                               *)

\* A button: with authedFetch, or with a plain fetch.
Write(t, asks) ==
    /\ op[t].pc = "ready"
    /\ Set(t, Op("write", jar, asks))
    /\ UNCHANGED <<server, jar, poll, shown, history>>

\* The user answers the prompt, or closes it.
EnterPIN(t) ==
    /\ op[t].pc = "prompt"
    /\ \/ Set(t, Op("pin", NoCookie, FALSE))
       \/ Set(t, Ready)
    /\ UNCHANGED <<server, jar, poll, shown, history>>

\* The answer to the login sets the cookie.
Welcome(t) ==
    /\ op[t].pc = "welcome"
    /\ jar' = op[t].cookie
    /\ Set(t, Op("retry", NoCookie, FALSE))
    /\ UNCHANGED <<server, poll, shown, history>>

\* authedFetch sends its request once more, and asks no second time.
Retry(t) ==
    /\ op[t].pc = "retry"
    /\ Set(t, Op("write", jar, FALSE))
    /\ UNCHANGED <<server, jar, poll, shown, history>>

\* The button Lock, shown until the page says locked.
LockNow(t) ==
    /\ op[t].pc = "ready"
    /\ shown[t] # "locked"
    /\ Set(t, Op("logout", jar, FALSE))
    /\ UNCHANGED <<server, jar, poll, shown, history>>

Bye(t) ==
    /\ op[t].pc = "bye"
    /\ jar' = NoCookie
    /\ Set(t, Ready)
    /\ UNCHANGED <<server, poll, shown, history>>

Prompting(t) == op[t].pc = "prompt"

UpdateLockStatus(s) ==
    /\ poll[s].pc = "none" /\ ~Prompting(TabOf(s))
    /\ SetPoll(s, Poll("status", jar))
    /\ UNCHANGED <<server, jar, op, shown, history>>

\* A page that forgets the case in which nothing is authorized.
ShowUnlockedOnly(s) ==
    /\ poll[s].pc \in {"locked", "unlocked"} /\ ~Prompting(TabOf(s))
    /\ shown' = IF poll[s].pc = "unlocked"
                THEN [shown EXCEPT ![TabOf(s)] = "unlocked"] ELSE shown
    /\ SetPoll(s, NoPoll)
    /\ UNCHANGED <<server, jar, op, history>>
Show(s) ==
    /\ poll[s].pc \in {"locked", "unlocked"} /\ ~Prompting(TabOf(s))
    /\ shown' = [shown EXCEPT ![TabOf(s)] = poll[s].pc]
    /\ SetPoll(s, NoPoll)
    /\ UNCHANGED <<server, jar, op, history>>

\* The browser forgets a cookie whose time has come; the cookie counts in whole
\* seconds and may go a little before its session.
ForgetCookie ==
    /\ jar # NoCookie
    /\ left[jar] <= 0
    /\ jar' = NoCookie
    /\ UNCHANGED <<server, op, poll, shown, history>>

Shorter(l) == IF l < 0 THEN l ELSE l - 1
Older(a)   == IF a > TTL THEN a ELSE a + 1

Elapse ==
    /\ left' = [i \in Ids |-> Shorter(left[i])]
    /\ born' = [i \in Ids |-> Older(born[i])]
    /\ UNCHANGED <<sessions, logins, jar, op, poll, shown, ended>>

-----------------------------------------------------------------------------
Server(t) == RequireAuth(t) \/ Serve(t) \/ NewSession(t) \/ WrongPIN(t) \/ Logout(t)
Page(t) ==
    \/ t \in Writers /\ \E asks \in BOOLEAN : Write(t, asks)
    \/ EnterPIN(t) \/ Welcome(t) \/ Retry(t) \/ LockNow(t) \/ Bye(t)
Status(s) ==
    CheckStatus(s) \/ UpdateLockStatus(s) \/ Show(s)

Next ==
    \/ \E t \in Tabs : Server(t) \/ Page(t)
    \/ \E s \in Slots : Status(s)
    \/ ForgetCookie
    \/ Elapse

Spec == Init /\ [][Next]_vars

\* The page polls every second, whether the last poll was answered or not, the
\* server answers, and time passes.  The user does as he likes.
FairSpec ==
    /\ Spec
    /\ WF_vars(Elapse)
    /\ \A s \in Slots : WF_vars(Status(s))

-----------------------------------------------------------------------------
(* Properties that hold.                                                   *)

\* The type invariant.  Its parts that could fail: a session that was logged
\* out does not come back, and no session lives longer than TTL.
TypeOK ==
    /\ sessions \subseteq Ids
    /\ left \in [Ids -> Lefts]
    /\ logins \in 0..MaxLogins
    /\ jar \in Cookies
    /\ op \in [Tabs -> Ops]
    /\ poll \in [Slots -> Polls]
    /\ shown \in [Tabs -> {"nothing", "locked", "unlocked"}]
    /\ born \in [Ids -> Ages]
    /\ ended \subseteq Ids
    /\ sessions \cap ended = {}
    /\ \A i \in sessions : i <= logins

\* auth.go:68-75: a write is admitted only for a login that is at most TTL old
\* and has not been taken back by a logout the server has handled, whichever tab
\* sent it and however long it was under way.
AdmitsOnlyFresh ==
    [][\A t \in Tabs :
         PinSet /\ op[t].pc = "write" /\ op'[t].pc = "admitted"
           => /\ op[t].cookie \in Ids \ ended
              /\ born[op[t].cookie] <= TTL]_vars

\* auth.go:19 and 34: a session ends, however busy its browser is: the page
\* polls with its cookie every second, and that does not renew it.  A session
\* that would stay valid for ever is one that is not invalid again and again.
SessionEnds == \A i \in Ids : []<>~Live(i)

Open == Admitted(jar)

\* app.js:796-802: once the system stays locked, each tab comes to say so and
\* says so from then on, whichever tab locked it and in whatever order the
\* answers of its polls come.  A tab that prompts again and again is excused.
LockedIsShown ==
    \A t \in Tabs :
        <>[](~Open /\ ~Prompting(t)) => <>[](shown[t] = "locked")
=============================================================================
