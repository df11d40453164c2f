---------------------------- MODULE SessionsProofs ----------------------------
(***************************************************************************)
(* For any number of tabs, polls and logins and any length of a session:   *)
(* the sessions are well typed, and only a fresh login admits a write.     *)
(***************************************************************************)
EXTENDS Sessions, TLAPS

\* What a session has left and how long it has lived make up its length, while
\* it has not expired.
AgeAgrees == \A i \in Ids : left[i] >= 0 => born[i] + left[i] = TTL

\* Nobody holds a cookie that no login has given out, so a logout cannot end a
\* session before it begins.
CookiesGiven ==
    /\ jar <= logins
    /\ \A t \in Tabs : op[t].cookie <= logins
    /\ \A i \in ended : i <= logins

Inv == TypeOK /\ AgeAgrees /\ CookiesGiven

\* The initial state satisfies the invariant.
LEMMA InitInv == Init => Inv
<1> SUFFICES ASSUME Init PROVE Inv
    OBVIOUS
<1>1. -1 \in Lefts /\ 0 \in Ages /\ NoCookie \in Cookies /\ ~(-1 >= 0)
  BY SessionsAssumption DEF Lefts, Ages, Cookies
<1>2. Ready \in Ops /\ Ready.cookie = NoCookie /\ NoPoll \in Polls
  BY <1>1 DEF Ready, Op, Ops, NoPoll, Poll, Polls
<1>3. left \in [Ids -> Lefts] /\ \A i \in Ids : ~(left[i] >= 0)
  BY <1>1 DEF Init
<1>4. op \in [Tabs -> Ops] /\ \A t \in Tabs : op[t].cookie = NoCookie
  BY <1>2 DEF Init
<1>5. poll \in [Slots -> Polls]
  BY <1>2 DEF Init
<1>6. born \in [Ids -> Ages] /\ shown \in [Tabs -> {"nothing", "locked", "unlocked"}]
  BY <1>1 DEF Init
<1>7. logins = 0 /\ jar = 0 /\ NoCookie = 0 /\ sessions = {} /\ ended = {}
  BY DEF Init, NoCookie
<1>8. logins \in 0..MaxLogins
  BY <1>7, SessionsAssumption
<1> QED
  BY <1>1, <1>3, <1>4, <1>5, <1>6, <1>7, <1>8
  DEF Inv, TypeOK, AgeAgrees, CookiesGiven

\* Time takes from what is left and adds to the age.
LEMMA ElapseTypes ==
    /\ \A l \in Lefts : Shorter(l) \in Lefts
    /\ \A a \in Ages : Older(a) \in Ages
    /\ \A l \in Lefts, a \in Ages :
         (l >= 0 => a + l = TTL) /\ Shorter(l) >= 0 => Older(a) + Shorter(l) = TTL
BY SessionsAssumption DEF Lefts, Ages, Shorter, Older

\* An operation may be followed by any other whose cookie was given out.
LEMMA SetType ==
    ASSUME Inv, NEW t \in Tabs, NEW o \in Ops, Set(t, o),
           NEW m \in Nat, logins <= m, o.cookie <= m
    PROVE  op' \in [Tabs -> Ops] /\ \A u \in Tabs : op'[u].cookie <= m
<1>1. op \in [Tabs -> Ops] /\ op' = [op EXCEPT ![t] = o]
  BY DEF Inv, TypeOK, Set
<1>2. op' \in [Tabs -> Ops]
  BY <1>1
<1>3. ASSUME NEW u \in Tabs PROVE op'[u].cookie <= m
  <2>1. CASE u = t
    BY <1>1, <2>1
  <2>2. CASE u # t
    <3>1. op'[u] = op[u] /\ op[u] \in Ops /\ op[u].cookie <= logins
      BY <1>1, <2>2 DEF Inv, CookiesGiven
    <3>2. op[u].cookie \in Int /\ logins \in Int
      BY <3>1, SessionsAssumption DEF Ops, Cookies, Ids, NoCookie, Inv, TypeOK
    <3> QED
      BY <3>1, <3>2
  <2> QED
    BY <2>1, <2>2
<1> QED
  BY <1>2, <1>3

\* The same where no session begins.
LEMMA SetInv ==
    ASSUME Inv, NEW t \in Tabs, NEW o \in Ops, Set(t, o), o.cookie <= logins,
           UNCHANGED <<logins, left, poll, shown, history>>,
           sessions' \subseteq sessions, jar' \in Cookies, jar' <= logins
    PROVE  Inv'
<1>1. logins \in Nat /\ logins <= logins
  BY SessionsAssumption DEF Inv, TypeOK
<1>2. op' \in [Tabs -> Ops] /\ \A u \in Tabs : op'[u].cookie <= logins
  BY <1>1, SetType
<1> QED
  BY <1>2 DEF Inv, TypeOK, AgeAgrees, CookiesGiven, history

\* The state of the polls does not matter to anything else.
LEMMA PollInv ==
    ASSUME Inv, NEW s \in Slots, NEW p \in Polls, SetPoll(s, p),
           UNCHANGED <<logins, left, jar, op, history>>,
           sessions' \subseteq sessions,
           shown' \in [Tabs -> {"nothing", "locked", "unlocked"}]
    PROVE  Inv'
<1>1. poll \in [Slots -> Polls] /\ poll' = [poll EXCEPT ![s] = p]
  BY DEF Inv, TypeOK, SetPoll
<1>2. poll' \in [Slots -> Polls]
  BY <1>1
<1> QED
  BY <1>2 DEF Inv, TypeOK, AgeAgrees, CookiesGiven, history

\* Every step keeps the invariant.
LEMMA NextInv == Inv /\ [Next]_vars => Inv'
<1> SUFFICES ASSUME Inv, [Next]_vars PROVE Inv'
    OBVIOUS
<1>1. /\ sessions \subseteq Ids /\ jar \in Cookies /\ jar <= logins
      /\ shown \in [Tabs -> {"nothing", "locked", "unlocked"}]
      /\ logins \in 0..MaxLogins /\ MaxLogins \in Nat
      /\ NoCookie \in Cookies /\ NoCookie <= logins
  BY SessionsAssumption DEF Inv, TypeOK, CookiesGiven, Cookies, NoCookie
<1>2. \A t \in Tabs : op[t] \in Ops /\ op[t].cookie \in Cookies /\ op[t].cookie <= logins
  BY DEF Inv, TypeOK, CookiesGiven, Ops
<1>3. /\ Ready \in Ops /\ Ready.cookie = NoCookie
      /\ \A a \in BOOLEAN : Op("prompt", NoCookie, a) \in Ops
      /\ Op("pin", NoCookie, FALSE) \in Ops /\ Op("bye", NoCookie, FALSE) \in Ops
      /\ Op("retry", NoCookie, FALSE) \in Ops
  BY <1>1 DEF Ready, Op, Ops
<1>4. \A c \in Cookies, a \in BOOLEAN :
        /\ Op("write", c, a) \in Ops /\ Op("admitted", c, a) \in Ops
        /\ Op("logout", c, a) \in Ops /\ Op("welcome", c, a) \in Ops
  BY DEF Op, Ops
<1>5. \A p, c, a : Op(p, c, a).cookie = c
  BY DEF Op
<1>6. \A c \in Cookies :
        /\ Poll("status", c) \in Polls
        /\ Poll("locked", c) \in Polls /\ Poll("unlocked", c) \in Polls
        /\ NoPoll \in Polls
  BY <1>1 DEF Poll, Polls, NoPoll
<1>7. \A s \in Slots :
        poll[s].pc \in {"none", "status", "locked", "unlocked"}
          /\ poll[s].cookie \in Cookies
  BY DEF Inv, TypeOK, Polls
<1>10. ASSUME NEW t \in Tabs, RequireAuth(t) PROVE Inv'
  <2>1. UNCHANGED <<logins, left, jar, poll, shown, history>> /\ sessions' \subseteq sessions
    BY <1>10 DEF RequireAuth, ValidSession
  <2>2. CASE Admitted(op[t].cookie)
    <3>1. Set(t, Op("admitted", op[t].cookie, FALSE))
      BY <1>10, <2>2 DEF RequireAuth
    <3>2. /\ Op("admitted", op[t].cookie, FALSE) \in Ops
          /\ Op("admitted", op[t].cookie, FALSE).cookie <= logins
      <4>1. op[t].cookie \in Cookies /\ op[t].cookie <= logins
        BY <1>2
      <4>2. Op("admitted", op[t].cookie, FALSE).cookie = op[t].cookie
        BY <1>5
      <4>3. Op("admitted", op[t].cookie, FALSE) \in Ops
        BY <1>4, <4>1
      <4> QED
        BY <4>1, <4>2, <4>3
    <3>3. UNCHANGED jar /\ jar' \in Cookies /\ jar' <= logins
      BY <1>1, <2>1
    <3> QED
      BY <2>1, <3>1, <3>2, <3>3, SetInv
  <2>3. CASE ~Admitted(op[t].cookie) /\ op[t].asks
    <3>1. Set(t, Op("prompt", NoCookie, FALSE))
      BY <1>10, <2>3 DEF RequireAuth
    <3> QED
      BY <1>1, <1>3, <1>5, <2>1, <3>1, SetInv
  <2>4. CASE ~Admitted(op[t].cookie) /\ ~op[t].asks
    <3>1. Set(t, Ready)
      BY <1>10, <2>4 DEF RequireAuth
    <3> QED
      BY <1>1, <1>3, <2>1, <3>1, SetInv
  <2> QED
    BY <2>2, <2>3, <2>4
<1>11. ASSUME NEW t \in Tabs, Serve(t) \/ WrongPIN(t) PROVE Inv'
  BY <1>1, <1>3, <1>11, SetInv DEF Serve, WrongPIN, server
<1>12. ASSUME NEW t \in Tabs, NewSession(t) PROVE Inv'
  <2> DEFINE id == logins + 1
  <2>1. /\ id \in Ids /\ id \in Cookies /\ id \in 0..MaxLogins /\ id \in Nat
        /\ TTL \in Lefts /\ 0 \in Ages /\ 0 + TTL = TTL /\ logins <= id /\ TTL >= 0
    BY <1>1, <1>12, SessionsAssumption DEF NewSession, Ids, Cookies, Lefts, Ages
  <2>2. /\ logins' = id /\ sessions' = sessions \cup {id}
        /\ left' = [left EXCEPT ![id] = TTL] /\ born' = [born EXCEPT ![id] = 0]
        /\ Set(t, Op("welcome", id, FALSE))
        /\ UNCHANGED <<jar, poll, shown, ended>>
    BY <1>12 DEF NewSession
  <2> HIDE DEF id
  <2>3. op' \in [Tabs -> Ops] /\ \A u \in Tabs : op'[u].cookie <= id
    <3> DEFINE o == Op("welcome", id, FALSE)
    <3>1. o \in Ops
      BY <1>4, <2>1
    <3>2. o.cookie = id
      BY DEF Op
    <3>3. Set(t, o)
      BY <2>2
    <3> HIDE DEF o
    <3>4. o.cookie <= id
      BY <2>1, <3>2
    <3> QED
      BY <2>1, <3>1, <3>3, <3>4, SetType
  <2>4. left' \in [Ids -> Lefts] /\ born' \in [Ids -> Ages]
    BY <2>1, <2>2 DEF Inv, TypeOK
  <2>5. \A i \in Ids : left'[i] >= 0 => born'[i] + left'[i] = TTL
    BY <2>1, <2>2 DEF Inv, TypeOK, AgeAgrees
  <2>6. id \notin ended /\ (\A i \in ended : i <= id) /\ (\A i \in sessions' : i <= id) /\ jar' <= id
    BY <1>1, <2>2 DEF id, Inv, TypeOK, CookiesGiven, Ids, Cookies, NoCookie
  <2>7. sessions' \subseteq Ids /\ sessions' \cap ended' = {}
    BY <2>1, <2>2, <2>6 DEF Inv, TypeOK
  <2> QED
    BY <2>1, <2>2, <2>3, <2>4, <2>5, <2>6, <2>7 DEF Inv, TypeOK, AgeAgrees, CookiesGiven
<1>13. ASSUME NEW t \in Tabs, Logout(t) PROVE Inv'
  <2>1. /\ sessions' = sessions \ {op[t].cookie}
        /\ ended' = ended \cup ({op[t].cookie} \cap Ids)
        /\ Set(t, Op("bye", NoCookie, FALSE))
        /\ UNCHANGED <<left, logins, jar, poll, shown, born>>
    BY <1>13 DEF Logout
  <2>2. op' \in [Tabs -> Ops] /\ \A u \in Tabs : op'[u].cookie <= logins
    <3>1. logins \in Nat /\ logins <= logins
      BY <1>1
    <3>2. Op("bye", NoCookie, FALSE).cookie <= logins
      BY <1>1, <1>5
    <3> QED
      BY <1>3, <2>1, <3>1, <3>2, SetType
  <2>3. ended' \subseteq Ids /\ sessions' \cap ended' = {} /\ \A i \in ended' : i <= logins
    BY <1>2, <2>1 DEF Inv, TypeOK, CookiesGiven
  <2> QED
    BY <2>1, <2>2, <2>3 DEF Inv, TypeOK, AgeAgrees, CookiesGiven
<1>14. ASSUME NEW t \in Tabs, NEW asks \in BOOLEAN, Write(t, asks) PROVE Inv'
  BY <1>1, <1>4, <1>5, <1>14, SetInv DEF Write, server
<1>15. ASSUME NEW t \in Tabs, EnterPIN(t) PROVE Inv'
  BY <1>1, <1>3, <1>5, <1>15, SetInv DEF EnterPIN, server
<1>16. ASSUME NEW t \in Tabs, Welcome(t) PROVE Inv'
  <2>1. Op("retry", NoCookie, FALSE).cookie <= logins
    BY <1>1, <1>5
  <2>2. jar' \in Cookies /\ jar' <= logins
    BY <1>2, <1>16 DEF Welcome
  <2>3. /\ UNCHANGED <<logins, left, poll, shown, history>>
        /\ sessions' \subseteq sessions
        /\ Set(t, Op("retry", NoCookie, FALSE))
    BY <1>16 DEF Welcome, server
  <2> QED
    BY <1>3, <2>1, <2>2, <2>3, SetInv
<1>17. ASSUME NEW t \in Tabs, Retry(t) \/ LockNow(t) PROVE Inv'
  <2>1. /\ Op("write", jar, FALSE).cookie <= logins
        /\ Op("logout", jar, FALSE).cookie <= logins
    BY <1>1, <1>5
  <2>2. Op("write", jar, FALSE) \in Ops /\ Op("logout", jar, FALSE) \in Ops
    BY <1>1, <1>4
  <2>3. /\ UNCHANGED <<logins, left, jar, poll, shown, history>>
        /\ sessions' \subseteq sessions
        /\ \/ Set(t, Op("write", jar, FALSE))
           \/ Set(t, Op("logout", jar, FALSE))
    BY <1>17 DEF Retry, LockNow, server
  <2>4. jar' \in Cookies /\ jar' <= logins
    BY <1>1, <2>3
  <2> QED
    BY <2>1, <2>2, <2>3, <2>4, SetInv
<1>18. ASSUME NEW t \in Tabs, Bye(t) PROVE Inv'
  BY <1>1, <1>3, <1>18, SetInv DEF Bye, server
<1>19. ASSUME NEW s \in Slots, CheckStatus(s) PROVE Inv'
  <2>1. UNCHANGED <<logins, left, jar, op, shown, history>> /\ sessions' \subseteq sessions
    BY <1>19 DEF CheckStatus, ValidSession
  <2>2. \/ SetPoll(s, Poll("unlocked", NoCookie))
        \/ SetPoll(s, Poll("locked", NoCookie))
    BY <1>19 DEF CheckStatus
  <2> QED
    BY <1>1, <1>6, <1>7, <2>1, <2>2, PollInv
<1>20. ASSUME NEW s \in Slots,
              UpdateLockStatus(s)
       PROVE  Inv'
  BY <1>1, <1>6, <1>20, PollInv DEF UpdateLockStatus, server
<1>21. ASSUME NEW s \in Slots, Show(s) PROVE Inv'
  <2>1. shown' \in [Tabs -> {"nothing", "locked", "unlocked"}]
    BY <1>1, <1>21 DEF Show
  <2> QED
    BY <1>1, <1>6, <1>21, <2>1, PollInv DEF Show, server
<1>22. CASE ForgetCookie
  BY <1>1, <1>22 DEF ForgetCookie, Inv, TypeOK, AgeAgrees, CookiesGiven, server, history
<1>23. CASE Elapse
  <2>1. left \in [Ids -> Lefts] /\ born \in [Ids -> Ages]
    BY DEF Inv, TypeOK
  <2>2. left' \in [Ids -> Lefts] /\ born' \in [Ids -> Ages]
    BY <1>23, <2>1, ElapseTypes DEF Elapse
  <2>3. ASSUME NEW i \in Ids, left'[i] >= 0 PROVE born'[i] + left'[i] = TTL
    <3>1. left'[i] = Shorter(left[i]) /\ born'[i] = Older(born[i])
      BY <1>23 DEF Elapse
    <3>2. left[i] \in Lefts /\ born[i] \in Ages /\ (left[i] >= 0 => born[i] + left[i] = TTL)
      BY <2>1 DEF Inv, AgeAgrees
    <3> QED
      BY <2>3, <3>1, <3>2, ElapseTypes
  <2> QED
    BY <1>23, <2>2, <2>3 DEF Elapse, Inv, TypeOK, AgeAgrees, CookiesGiven
<1>24. CASE UNCHANGED vars
  BY <1>24 DEF vars, Inv, TypeOK, AgeAgrees, CookiesGiven
<1> QED
  BY <1>10, <1>11, <1>12, <1>13, <1>14, <1>15, <1>16, <1>17, <1>18, <1>19,
     <1>20, <1>21, <1>22, <1>23, <1>24
  DEF Next, Server, Page, Status

\* A step that admits a write does so for a fresh login.
LEMMA AdmitStep ==
    ASSUME Inv, [Next]_vars, NEW t \in Tabs,
           PinSet, op[t].pc = "write", op'[t].pc = "admitted"
    PROVE  op[t].cookie \in Ids \ ended /\ born[op[t].cookie] <= TTL
<1> DEFINE c == op[t].cookie
<1>1. RequireAuth(t)
  <2>1. op \in [Tabs -> Ops]
    BY DEF Inv, TypeOK
  <2>2. ASSUME NEW u \in Tabs, NEW o, Set(u, o), o.pc # "admitted" PROVE FALSE
    BY <2>1, <2>2 DEF Set
  <2>3. ASSUME NEW u \in Tabs, Server(u), ~RequireAuth(t) PROVE FALSE
    <3>1. ASSUME RequireAuth(u) PROVE FALSE
      BY <2>1, <2>3, <3>1 DEF RequireAuth, Set
    <3> QED
      BY <2>2, <2>3, <3>1
      DEF Server, Serve, NewSession, WrongPIN, Logout, Op, Ready
  <2>4. ASSUME NEW u \in Tabs, Page(u) PROVE FALSE
    BY <2>2, <2>4 DEF Page, Write, EnterPIN, Welcome, Retry, LockNow, Bye, Op, Ready
  <2>5. ASSUME op' = op PROVE FALSE
    BY <2>5
  <2> QED
    BY <2>3, <2>4, <2>5
    DEF Next, Status, CheckStatus, UpdateLockStatus, Show, ForgetCookie,
        Elapse, vars
<1>2. Live(c)
  BY <1>1 DEF RequireAuth, Admitted, Set, Op, Ready, Inv, TypeOK
<1>3. c \in Ids \ ended /\ left[c] >= 0 /\ left[c] \in Lefts /\ born[c] \in Ages
      /\ born[c] + left[c] = TTL
  BY <1>2 DEF Live, Inv, TypeOK, AgeAgrees
<1> HIDE DEF c
<1>4. born[c] <= TTL
  BY <1>3, SessionsAssumption DEF Lefts, Ages
<1> QED
  BY <1>3, <1>4 DEF c

\* The invariant holds in every behaviour.
THEOREM Invariance == Spec => []Inv
<1> QED
  BY InitInv, NextInv, PTL DEF Spec

\* Sessions are well typed, and one that was logged out does not come back.
THEOREM TypeCorrect == Spec => []TypeOK
<1>1. Inv => TypeOK
  BY DEF Inv
<1> QED
  BY <1>1, Invariance, PTL

\* auth.go:68-75: only a login at most TTL old and not logged out admits a write.
THEOREM AdmitsOnlyFreshCorrect == Spec => AdmitsOnlyFresh
<1>1. Inv /\ [Next]_vars =>
        [\A t \in Tabs :
           PinSet /\ op[t].pc = "write" /\ op'[t].pc = "admitted"
             => /\ op[t].cookie \in Ids \ ended
                /\ born[op[t].cookie] <= TTL]_vars
  BY AdmitStep
<1> QED
  BY <1>1, Invariance, PTL DEF Spec, AdmitsOnlyFresh
=============================================================================
