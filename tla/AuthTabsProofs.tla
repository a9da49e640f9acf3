--------------------------- MODULE AuthTabsProofs ---------------------------
(***************************************************************************)
(* Proofs about AuthTabs, for any number of tabs, logins and events from   *)
(* outside.                                                                *)
(***************************************************************************)
EXTENDS AuthTabs, TLAPS

-----------------------------------------------------------------------------
(* The inductive invariant.                                                *)

(* No secret of session s has left the server, and no tab has shown it.    *)
Unseen(s) ==
    /\ cookie.sid # s
    /\ \A x \in orphans : x.sid # s
    /\ \A t \in Tabs : /\ store[t].sid # s /\ s \notin ended[t]
                       /\ refresh[t].secret.sid # s /\ call[t].secret.sid # s

(* A session is unseen until the answer of its login arrives, and every    *)
(* login under way has a session of its own.                               *)
LoginInv ==
    /\ \A s \in Sids : sess[s].st = "none" => Unseen(s)
    /\ \A t \in Tabs : login[t] # NoSid => /\ sess[login[t]].st # "none"
                                           /\ Unseen(login[t])
    /\ \A t, u \in Tabs : login[t] = login[u] /\ login[t] # NoSid => t = u

(* A session given up after its end is over for good, and no refresh that  *)
(* may still write to the store brings it back.                            *)
EndedInv ==
    \A t \in Tabs :
        /\ \A s \in ended[t] : Revoked(s)
        /\ store[t].sid \notin ended[t]
        /\ refresh[t].at = "answered" /\ refresh[t].says = "ok" /\ refresh[t].current
              => refresh[t].secret.sid \notin ended[t]

(* The lock: one run at a time. *)
Running(t) == refresh[t].at \in {"sent", "answered"}
LockInv == hasLocks => \A t, u \in Tabs : Running(t) /\ Running(u) => t = u

(* As long as no answer was lost, the run that has the lock presents the   *)
(* current secret, and the cookie falls behind only while the answer that  *)
(* carries its successor is on its way.                                    *)
InStep ==
    /\ orphans = {}
    /\ hasLocks =>
         /\ \A s \in Sids : sess[s].st # "reuse"
         /\ \A t \in Tabs : Running(t) => refresh[t].secret.age = 0
         /\ cookie.age # 0 => \E t \in Tabs : /\ refresh[t].at = "answered"
                                              /\ refresh[t].says = "ok"
SyncInv == LockInv /\ (~lost => InStep)

IndInv == TypeOK /\ LoginInv /\ EndedInv /\ SyncInv

(***************************************************************************)
(* What one step of a tab may do, as far as the invariant is concerned:    *)
(* every action of a tab is such a step, and the invariant is preserved    *)
(* once, for the steps.                                                    *)
(***************************************************************************)
Answered(r) == r.at = "answered" /\ r.says = "ok"

(* The store takes a session only from the answer of a current refresh or  *)
(* of a login, and a change of session leaves no refresh that may write.   *)
StoreStep(t) ==
    \/ store'[t].sid = store[t].sid
    \/ /\ ~(Answered(refresh'[t]) /\ refresh'[t].current)
       /\ \/ store'[t].sid = NoSid
          \/ /\ Answered(refresh[t]) /\ refresh[t].current
             /\ store'[t].sid = refresh[t].secret.sid
          \/ /\ login[t] # NoSid /\ login'[t] = NoSid
             /\ store'[t].sid = login[t]

(* The cookie is that of an answer. *)
CookieStep(t) ==
    \/ cookie' = cookie
    \/ cookie' = NoCookie
    \/ refresh[t].at = "answered" /\ cookie' = refresh[t].secret
    \/ /\ login[t] # NoSid /\ login'[t] = NoSid
       /\ cookie' = [sid |-> login[t], age |-> 0]

(* The refresh goes on, ends, or is sent with the cookie: under the lock,  *)
(* when no other run is under way.                                         *)
Kept(t) ==
    /\ refresh'[t].at = refresh[t].at /\ refresh'[t].says = refresh[t].says
    /\ refresh'[t].secret = refresh[t].secret
    /\ refresh'[t].current => refresh[t].current
Ended(t) ==
    /\ refresh'[t].secret = NoCookie
    /\ refresh'[t].at # "sent" /\ ~Answered(refresh'[t])
    /\ refresh'[t].at = "answered" => refresh[t].at \in {"sent", "answered"}
    /\ Answered(refresh[t]) => lost' \/ cookie' = refresh[t].secret
Sent(t) ==
    /\ refresh'[t].at = "sent" /\ refresh'[t].secret = cookie /\ cookie' = cookie
    /\ ~Answered(refresh[t])
    /\ hasLocks => \/ LockFree
                   \/ refresh[t].at = "answered"

TabStep(t) ==
    /\ sess' = sess /\ hasLocks' = hasLocks /\ (lost => lost')
    /\ orphans' = orphans \/ (lost' /\ orphans' = orphans \cup {refresh[t].secret})
    /\ \A u \in Tabs \ {t} : /\ store'[u] = store[u] /\ refresh'[u] = refresh[u]
                             /\ call'[u] = call[u] /\ login'[u] = login[u]
    /\ login'[t] \in {login[t], NoSid}
    /\ call'[t].secret \in {call[t].secret, NoCookie, cookie}
    /\ StoreStep(t) /\ CookieStep(t)
    /\ Kept(t) \/ Ended(t) \/ Sent(t)

-----------------------------------------------------------------------------
(* Types of the pieces of a tab.                                           *)

(* The end of a session and of its replay window keep its type.            *)
LEMMA SessionUpdates ==
    ASSUME NEW x \in Sessions
    PROVE  /\ [x EXCEPT !.st = "logout"] \in Sessions
           /\ [x EXCEPT !.grace = FALSE] \in Sessions
  BY DEF Sessions

(* The initial values. *)
LEMMA Constants ==
    /\ NoSid \notin Sids
    /\ NoCookie \in Secrets /\ NoCookie.sid = NoSid /\ NoCookie.age = 0
    /\ NoRefresh \in Refreshes
    /\ NoCall \in Calls
    /\ \A b \in {"idle", "checking", "complete"} : Anonymous(b) \in Stores
  BY ConstantsAssumption DEF NoCookie, NoRefresh, NoCall, Anonymous, Secrets, Refreshes, Calls,
     Stores, Sids, NoSid

(* Superseding a refresh only clears its current. *)
LEMMA SupersededFields ==
    ASSUME NEW r \in Refreshes
    PROVE  /\ Superseded(r) \in Refreshes
           /\ Superseded(r).at = r.at /\ Superseded(r).says = r.says
           /\ Superseded(r).secret = r.secret
           /\ r.at = "answered" => ~Superseded(r).current
  BY DEF Superseded, Refreshes

LEMMA RequestFields ==
    ASSUME NEW r \in Refreshes, NEW s \in Sids \cup {NoSid}, NEW c \in Secrets
    PROVE  /\ requestRefresh(r, s, c) \in Refreshes
           /\ requestRefresh(r, s, c).at = "sent"
           /\ requestRefresh(r, s, c).secret = c
  BY DEF requestRefresh, Refreshes

(* A caller gets the refresh under way, a queued one, or a request with    *)
(* the cookie.                                                             *)
LEMMA RefreshAuthenticationFields ==
    ASSUME TypeOK, NEW t \in Tabs
    PROVE  /\ refreshAuthentication(t) \in Refreshes
           /\ \/ refreshAuthentication(t) = refresh[t]
              \/ /\ refreshAuthentication(t).at = "queued"
                 /\ refreshAuthentication(t).secret = NoCookie
              \/ /\ ~hasLocks
                 /\ refreshAuthentication(t).at = "sent"
                 /\ refreshAuthentication(t).secret = cookie
  <1>1. refresh[t] \in Refreshes /\ cookie \in Secrets /\ store[t] \in Stores
    BY DEF TypeOK
  <1>2. store[t].sid \in Sids \cup {NoSid}
    BY <1>1 DEF Stores
  <1>3. CASE refresh[t].at # "none"
    BY <1>1, <1>3 DEF refreshAuthentication
  <1>4. CASE refresh[t].at = "none" /\ hasLocks
    <2>1. refreshAuthentication(t) = [NoRefresh EXCEPT !.at = "queued"]
      BY <1>4 DEF refreshAuthentication
    <2>2. [NoRefresh EXCEPT !.at = "queued"] \in Refreshes
      BY Constants DEF Refreshes
    <2> QED
      BY <2>1, <2>2 DEF NoRefresh
  <1>5. CASE refresh[t].at = "none" /\ ~hasLocks
    <2>1. refreshAuthentication(t) = requestRefresh(NoRefresh, store[t].sid, cookie)
      BY <1>5 DEF refreshAuthentication
    <2> QED
      BY <1>1, <1>2, <1>5, <2>1, Constants, RequestFields
  <1> QED
    BY <1>3, <1>4, <1>5

LEMMA SettledFields ==
    ASSUME NEW o \in {"transient", "authenticated", "anonymous", "out_of_sync"}
    PROVE  Settled(o) \in Refreshes /\ Settled(o).at = "settled" /\ Settled(o).secret = NoCookie
  BY Constants DEF Settled, NoRefresh, Refreshes

(* A secret that ages stays a secret of its session. *)
LEMMA AgedFields ==
    ASSUME NEW c, NEW w, NEW x \in Secrets
    PROVE  Aged(c, w, x) \in Secrets /\ Aged(c, w, x).sid = x.sid
  BY DEF Aged, Secrets

(* Another secret, or an answer, in a call or in a refresh. *)
LEMMA SecretUpdates ==
    ASSUME NEW x \in Secrets
    PROVE  /\ \A k \in Calls : [k EXCEPT !.secret = x] \in Calls
           /\ \A r \in Refreshes : [r EXCEPT !.secret = x] \in Refreshes
  BY DEF Calls, Refreshes

LEMMA CallAnswer ==
    ASSUME NEW k \in Calls, NEW says \in {"mismatch", "cleared", "ok", "failed"}
    PROVE  [k EXCEPT !.at = "answered", !.says = says, !.secret = NoCookie] \in Calls
  BY Constants DEF Calls

LEMMA RefreshAnswer ==
    ASSUME NEW r \in Refreshes, NEW x \in Secrets,
           NEW says \in {"ok", "mismatch", "unauthorized", "transient", "refused"}
    PROVE  [r EXCEPT !.at = "answered", !.says = says, !.secret = x] \in Refreshes
  BY DEF Refreshes

LEMMA SendLogoutFields ==
    ASSUME TypeOK, NEW t \in Tabs, NEW b \in BOOLEAN
    PROVE  SendLogout(t, b) \in Calls /\ SendLogout(t, b).secret = cookie
  <1>1. store[t] \in Stores /\ cookie \in Secrets
    BY DEF TypeOK
  <1>2. store[t].sid \in Sids \cup {NoSid} /\ store[t].fresh \in BOOLEAN
    BY <1>1 DEF Stores
  <1> QED
    BY <1>1, <1>2, Constants DEF SendLogout, NoCall, Calls

LEMMA DeniedFields ==
    ASSUME NEW b \in BOOLEAN
    PROVE  Denied(b) \in Calls /\ Denied(b).secret = NoCookie
  BY Constants DEF Denied, NoCall, Calls

LEMMA PublishType ==
    ASSUME TypeOK, NEW t \in Tabs, NEW kind \in {"authenticated", "signed_out"}, NEW s \in Sids,
           publishAuthSessionEvent(t, kind, s)
    PROVE  inbox' \in [Tabs -> Seq(Events)]
  <1>1. [kind |-> kind, sid |-> s] \in Events
    BY DEF Events
  <1> QED
    BY <1>1 DEF publishAuthSessionEvent, TypeOK

LEMMA RotateFields ==
    ASSUME TypeOK, NEW c \in Secrets, NEW w
    PROVE  /\ RotateUserSessionRefresh(c, w) \in [Sids -> Sessions]
           /\ \A s \in Sids : \/ RotateUserSessionRefresh(c, w)[s].st = sess[s].st
                             \/ /\ s = c.sid /\ c.age = 1 /\ sess[s].st = "active"
                                /\ RotateUserSessionRefresh(c, w)[s].st = "reuse"
  <1> DEFINE new == RotateUserSessionRefresh(c, w)
  <1>0. sess \in [Sids -> Sessions]
    BY DEF TypeOK
  <1>1. \/ new = sess
        \/ c.sid \in Sids /\ new = [sess EXCEPT ![c.sid].grace = TRUE]
        \/ /\ c.sid \in Sids /\ sess[c.sid].st = "active" /\ c.age = 1
           /\ new = [sess EXCEPT ![c.sid].st = "reuse"]
    BY DEF RotateUserSessionRefresh, Rotates, RefreshLoginSession, Active
  <1>2. /\ new \in [Sids -> Sessions]
        /\ \A s \in Sids : \/ new[s].st = sess[s].st
                          \/ /\ s = c.sid /\ c.age = 1 /\ sess[s].st = "active"
                             /\ new[s].st = "reuse"
    <2> HIDE DEF new
    <2>1. CASE new = sess
      BY <1>0, <2>1
    <2>2. CASE c.sid \in Sids /\ new = [sess EXCEPT ![c.sid].grace = TRUE]
      BY <1>0, <2>2 DEF Sessions
    <2>3. CASE /\ c.sid \in Sids /\ sess[c.sid].st = "active" /\ c.age = 1
               /\ new = [sess EXCEPT ![c.sid].st = "reuse"]
      BY <1>0, <2>3 DEF Sessions
    <2> QED
      BY <1>1, <2>1, <2>2, <2>3
  <1> QED
    BY <1>2

(* A page that is loaded again starts from nothing. *)
LEMMA NewPageType ==
    ASSUME TypeOK, NEW t \in Tabs, NewPage(t)
    PROVE  /\ store' \in [Tabs -> Stores] /\ page' \in [Tabs -> {"new", "loading", "ready"}]
           /\ refresh' \in [Tabs -> Refreshes] /\ call' \in [Tabs -> Calls]
           /\ login' \in [Tabs -> Sids \cup {NoSid}] /\ inbox' \in [Tabs -> Seq(Events)]
           /\ lost' \in BOOLEAN /\ orphans' \subseteq Secrets
  <1>1. store' \in [Tabs -> Stores]
    BY Constants DEF NewPage, TypeOK
  <1>2. page' \in [Tabs -> {"new", "loading", "ready"}]
    BY DEF NewPage, TypeOK
  <1>3. refresh' \in [Tabs -> Refreshes]
    BY Constants DEF NewPage, TypeOK
  <1>4. call' \in [Tabs -> Calls]
    BY Constants DEF NewPage, TypeOK
  <1>5. login' \in [Tabs -> Sids \cup {NoSid}]
    BY DEF NewPage, TypeOK
  <1>6. inbox' \in [Tabs -> Seq(Events)]
    BY DEF NewPage, TypeOK
  <1>7. lost' \in BOOLEAN
    BY Zenon DEF NewPage, TypeOK
  <1>8. orphans' \subseteq Secrets
    <2>1. refresh[t].secret \in Secrets
      BY DEF TypeOK, Refreshes
    <2> QED
      BY <2>1 DEF NewPage, TypeOK
  <1> QED
    BY <1>1, <1>2, <1>3, <1>4, <1>5, <1>6, <1>7, <1>8

(* clearAuthentication and its event. *)
LEMMA ClearType ==
    ASSUME TypeOK, NEW t \in Tabs, NEW b \in BOOLEAN, clearAuthentication(t, b)
    PROVE  store' \in [Tabs -> Stores] /\ inbox' \in [Tabs -> Seq(Events)]
  <1>1. store' \in [Tabs -> Stores]
    BY Constants DEF clearAuthentication, TypeOK
  <1>2. inbox' \in [Tabs -> Seq(Events)]
    <2>1. CASE b /\ store[t].sid # NoSid
      <3>1. store[t].sid \in Sids
        BY <2>1 DEF TypeOK, Stores
      <3>2. publishAuthSessionEvent(t, "signed_out", store[t].sid)
        BY <2>1 DEF clearAuthentication
      <3> QED
        BY <3>1, <3>2, PublishType
    <2>2. CASE ~(b /\ store[t].sid # NoSid)
      BY <2>2 DEF clearAuthentication, TypeOK
    <2> QED
      BY <2>1, <2>2
  <1> QED
    BY <1>1, <1>2

-----------------------------------------------------------------------------
(* Every step keeps the types.                                             *)

(* Remember only adds sessions. *)
LEMMA RememberType == TypeOK /\ Remember => ended' \in [Tabs -> SUBSET Sids]
  BY DEF TypeOK, Remember

LEMMA TypeServer ==
    ASSUME TypeOK, NEW t \in Tabs, ServeRefresh(t) \/ ServeLogout(t), Remember
    PROVE  TypeOK'
  <1> USE RememberType
  <1>0. refresh[t] \in Refreshes /\ call[t] \in Calls
    BY DEF TypeOK
  <1>1. CASE ServeRefresh(t)
    <2> DEFINE c == refresh[t].secret
               w == refresh[t].want
               says == RefreshLoginSession(c, w)
    <2>0. c \in Secrets
      BY <1>0 DEF Refreshes
    <2>1. sess' \in [Sids -> Sessions]
      BY <1>1, <2>0, RotateFields DEF ServeRefresh
    <2>2. cookie' \in Secrets /\ orphans' \subseteq Secrets
      <3>1. cookie \in Secrets /\ \A x \in orphans : x \in Secrets
        BY DEF TypeOK
      <3>2. Aged(c, w, cookie) \in Secrets /\ \A x \in orphans : Aged(c, w, x) \in Secrets
        BY <3>1, AgedFields
      <3> QED
        BY <1>1, <3>2 DEF ServeRefresh
    <2>3. call' \in [Tabs -> Calls]
      <3>1. \A u \in Tabs : [call[u] EXCEPT !.secret = Aged(c, w, @)] \in Calls
        <4> TAKE u \in Tabs
        <4>1. call[u] \in Calls /\ call[u].secret \in Secrets
          BY DEF TypeOK, Calls
        <4>2. Aged(c, w, call[u].secret) \in Secrets
          BY <4>1, AgedFields
        <4> QED
          BY <4>1, <4>2, SecretUpdates
      <3> QED
        BY <1>1, <3>1 DEF ServeRefresh
    <2>4. refresh' \in [Tabs -> Refreshes]
      <3>1. \A u \in Tabs : [refresh[u] EXCEPT !.secret = Aged(c, w, @)] \in Refreshes
        <4> TAKE u \in Tabs
        <4>1. refresh[u] \in Refreshes /\ refresh[u].secret \in Secrets
          BY DEF TypeOK, Refreshes
        <4>2. Aged(c, w, refresh[u].secret) \in Secrets
          BY <4>1, AgedFields
        <4> QED
          BY <4>1, <4>2, SecretUpdates
      <3>2. says \in {"ok", "mismatch", "unauthorized"}
        BY DEF RefreshLoginSession
      <3>3. [sid |-> c.sid, age |-> 0] \in Secrets
        BY <2>0 DEF Secrets
      <3> HIDE DEF says
      <3>4. [refresh[t] EXCEPT !.at = "answered", !.says = says,
                !.secret = IF says = "ok" THEN [sid |-> c.sid, age |-> 0] ELSE NoCookie]
               \in Refreshes
        BY <1>0, <3>2, <3>3, Constants, CallAnswer, RefreshAnswer
      <3>5. refresh' = [u \in Tabs |->
                 IF u # t THEN [refresh[u] EXCEPT !.secret = Aged(c, w, @)]
                 ELSE [refresh[u] EXCEPT !.at = "answered", !.says = says,
                         !.secret = IF says = "ok" THEN [sid |-> c.sid, age |-> 0]
                                    ELSE NoCookie]]
        BY <1>1 DEF ServeRefresh, says
      <3> QED
        BY <3>1, <3>4, <3>5
    <2> QED
      BY <1>1, <2>1, <2>2, <2>3, <2>4 DEF ServeRefresh, TypeOK
  <1>2. CASE ServeLogout(t)
    <2>1. sess' \in [Sids -> Sessions]
      <3>1. sess' = sess \/ \E x \in Sids : sess' = [sess EXCEPT ![x].st = "logout"]
        BY <1>2 DEF ServeLogout, Active
      <3>2. sess \in [Sids -> Sessions]
        BY DEF TypeOK
      <3>3. ASSUME NEW x \in Sids PROVE [sess EXCEPT ![x].st = "logout"] \in [Sids -> Sessions]
        BY <3>2, SessionUpdates
      <3> QED
        BY <3>1, <3>2, <3>3
    <2>2. call' \in [Tabs -> Calls]
      <3>1. \E says \in {"mismatch", "cleared", "ok"} :
               call' = [call EXCEPT ![t].at = "answered", ![t].says = says,
                                    ![t].secret = NoCookie]
        BY <1>2 DEF ServeLogout
      <3>2. PICK says \in {"mismatch", "cleared", "ok"} :
               call' = [call EXCEPT ![t] = [call[t] EXCEPT !.at = "answered", !.says = says,
                                                           !.secret = NoCookie]]
        BY <3>1
      <3>3. [call[t] EXCEPT !.at = "answered", !.says = says, !.secret = NoCookie] \in Calls
        BY <1>0, CallAnswer, RefreshAnswer
      <3> QED
        BY <3>2, <3>3 DEF TypeOK
    <2> QED
      BY <1>2, <2>1, <2>2 DEF ServeLogout, TypeOK
  <1> QED
    BY <1>1, <1>2

LEMMA TypeClient ==
    ASSUME TypeOK, NEW t \in Tabs, Client(t)
    PROVE  TypeOK'
  <1> USE RememberType DEF Client
  <1>0. /\ refresh[t] \in Refreshes /\ call[t] \in Calls /\ store[t] \in Stores
        /\ refresh[t].secret \in Secrets /\ store[t].sid \in Sids \cup {NoSid}
    BY DEF TypeOK, Refreshes, Stores
  <1>1. CASE Load(t)
    <2>1. refresh' \in [Tabs -> Refreshes]
      BY <1>1, RefreshAuthenticationFields DEF Load, TypeOK
    <2>2. store' \in [Tabs -> Stores]
      BY <1>1 DEF Load, TypeOK, Stores
    <2> QED
      BY <1>1, <2>1, <2>2 DEF Load, TypeOK, serverVars
  <1>2. CASE GrantLock(t)
    <2>1. refresh' \in [Tabs -> Refreshes]
      BY <1>2, <1>0, RequestFields, SettledFields, Constants DEF GrantLock, TypeOK
    <2> QED
      BY <1>2, <2>1 DEF GrantLock, TypeOK, serverVars
  <1>3. CASE ReceiveRefresh(t)
    <2>1. cookie' \in Secrets
      BY <1>3, <1>0 DEF ReceiveRefresh, TypeOK
    <2>2. refresh' \in [Tabs -> Refreshes]
      <3>1. \E r \in Refreshes : refresh' = [refresh EXCEPT ![t] = r]
        BY <1>3, <1>0, RequestFields, SettledFields, Constants DEF ReceiveRefresh, TypeOK, RetrySID
      <3> QED
        BY <3>1 DEF TypeOK
    <2>3. page' \in [Tabs -> {"new", "loading", "ready"}]
      BY <1>3 DEF ReceiveRefresh, TypeOK
    <2>4. store' \in [Tabs -> Stores] /\ inbox' \in [Tabs -> Seq(Events)]
      <3>1. CASE refresh[t].says \in {"unauthorized", "refused"} /\ refresh[t].current
        <4>1. \E b \in BOOLEAN : clearAuthentication(t, b)
          BY <1>3, <3>1 DEF ReceiveRefresh
        <4> QED
          BY <4>1, ClearType
      <3>2. CASE ~(refresh[t].says \in {"unauthorized", "refused"} /\ refresh[t].current)
        <4>1. inbox' = inbox /\ \E x \in Stores : store' = [store EXCEPT ![t] = x] \/ store' = store
          <5>1. Anonymous("idle") \in Stores
            BY Constants
          <5>2. [sid |-> refresh[t].secret.sid, fresh |-> TRUE, boot |-> "complete"] \in Stores
            BY <1>0 DEF Stores, Secrets
          <5>3. [store[t] EXCEPT !.boot = "idle"] \in Stores
            BY <1>0 DEF Stores
          <5> QED
            BY <1>3, <3>2, <5>1, <5>2, <5>3 DEF ReceiveRefresh
        <4> QED
          BY <4>1 DEF TypeOK
      <3> QED
        BY <3>1, <3>2
    <2> QED
      BY <1>3, <2>1, <2>2, <2>3, <2>4 DEF ReceiveRefresh, TypeOK, serverVars
  <1>4. CASE SettleRefresh(t)
    <2>1. CASE NewPage(t) /\ UNCHANGED <<sess, cookie, hasLocks, upsets>>
      BY <2>1, NewPageType DEF TypeOK
    <2>2. CASE /\ refresh' = [refresh EXCEPT ![t] = NoRefresh]
               /\ UNCHANGED <<orphans, login, lost, page>>
      <3>1. refresh' \in [Tabs -> Refreshes]
        BY <2>2, Constants DEF TypeOK
      <3>2. call' \in [Tabs -> Calls]
        <4>1. \E x \in Calls : call' = [call EXCEPT ![t] = x]
          <5>1. Denied(TRUE) \in Calls /\ SendLogout(t, TRUE) \in Calls /\ NoCall \in Calls
            BY DeniedFields, SendLogoutFields, Constants
          <5> QED
            BY <1>4, <2>2, <5>1 DEF SettleRefresh, NewPage
        <4> QED
          BY <4>1 DEF TypeOK
      <3>3. store' \in [Tabs -> Stores] /\ inbox' \in [Tabs -> Seq(Events)]
        <4>1. clearAuthentication(t, TRUE) \/ UNCHANGED <<store, inbox>> \/ NewPage(t)
          BY <1>4 DEF SettleRefresh
        <4> QED
          BY <4>1, ClearType, NewPageType DEF TypeOK
      <3> QED
        BY <1>4, <2>2, <3>1, <3>2, <3>3 DEF SettleRefresh, TypeOK
    <2> QED
      BY <1>4, <2>1, <2>2 DEF SettleRefresh
  <1>5. CASE ReceiveDenied(t)
    <2>1. CASE NewPage(t)
      BY <1>5, <2>1, NewPageType DEF ReceiveDenied, TypeOK
    <2>2. CASE /\ call' = [call EXCEPT ![t] = [NoCall EXCEPT !.kind = "api", !.at = "waiting"]]
               /\ refresh' = [refresh EXCEPT ![t] = refreshAuthentication(t)]
               /\ UNCHANGED <<store, page, login, inbox, lost, orphans>>
      <3>1. [NoCall EXCEPT !.kind = "api", !.at = "waiting"] \in Calls
        BY Constants DEF Calls
      <3>2. call' \in [Tabs -> Calls]
        BY <2>2, <3>1 DEF TypeOK
      <3>3. refresh' \in [Tabs -> Refreshes]
        BY <2>2, RefreshAuthenticationFields DEF TypeOK
      <3> QED
        BY <1>5, <2>2, <3>2, <3>3 DEF ReceiveDenied, TypeOK
    <2>3. CASE /\ clearAuthentication(t, FALSE)
               /\ refresh' = [refresh EXCEPT ![t] = Superseded(@)]
               /\ call' = [call EXCEPT ![t] = NoCall]
               /\ UNCHANGED <<page, login, lost, orphans>>
      <3>1. call' \in [Tabs -> Calls]
        BY <2>3, Constants DEF TypeOK
      <3>2. refresh' \in [Tabs -> Refreshes]
        BY <2>3, SupersededFields DEF TypeOK
      <3>3. store' \in [Tabs -> Stores] /\ inbox' \in [Tabs -> Seq(Events)]
        BY <2>3, ClearType
      <3> QED
        BY <1>5, <2>3, <3>1, <3>2, <3>3 DEF ReceiveDenied, TypeOK
    <2> QED
      BY <1>5, <2>1, <2>2, <2>3 DEF ReceiveDenied
  <1>6. CASE ReceiveLogout(t)
    <2>1. cookie' \in Secrets
      BY <1>6, Constants DEF ReceiveLogout, TypeOK
    <2>2. call' \in [Tabs -> Calls]
      <3>1. [NoCall EXCEPT !.kind = "logout", !.at = "waiting"] \in Calls
        BY Constants DEF Calls
      <3> QED
        BY <1>6, <3>1, Constants DEF ReceiveLogout, TypeOK
    <2>3. refresh' \in [Tabs -> Refreshes]
      <3>1. refreshAuthentication(t) \in Refreshes /\ Superseded(refresh[t]) \in Refreshes
        BY <1>0, RefreshAuthenticationFields, SupersededFields
      <3>2. \E r \in Refreshes : refresh' = [refresh EXCEPT ![t] = r] \/ refresh' = refresh
        BY <1>6, <3>1 DEF ReceiveLogout
      <3> QED
        BY <3>2 DEF TypeOK
    <2>4. store' \in [Tabs -> Stores] /\ inbox' \in [Tabs -> Seq(Events)]
      <3>1. clearAuthentication(t, TRUE) \/ UNCHANGED <<store, inbox>>
        BY <1>6 DEF ReceiveLogout
      <3> QED
        BY <3>1, ClearType DEF TypeOK
    <2> QED
      BY <1>6, <2>1, <2>2, <2>3, <2>4 DEF ReceiveLogout, TypeOK, serverVars
  <1>7. CASE ReceiveLogin(t)
    <2>0. login[t] \in Sids
      BY <1>7 DEF ReceiveLogin, TypeOK
    <2>1. cookie' \in Secrets
      BY <1>7, <2>0 DEF ReceiveLogin, Secrets
    <2>2. store' \in [Tabs -> Stores]
      <3>1. [sid |-> login[t], fresh |-> TRUE, boot |-> "complete"] \in Stores
        BY <2>0 DEF Stores
      <3> QED
        BY <1>7, <3>1 DEF ReceiveLogin, TypeOK
    <2>3. inbox' \in [Tabs -> Seq(Events)]
      BY <1>7, <2>0, PublishType DEF ReceiveLogin
    <2>4. refresh' \in [Tabs -> Refreshes]
      BY <1>7, SupersededFields DEF ReceiveLogin, TypeOK
    <2> QED
      BY <1>7, <2>1, <2>2, <2>3, <2>4 DEF ReceiveLogin, TypeOK, serverVars
  <1>8. CASE ReceiveEvent(t)
    <2>1. CASE NewPage(t)
      BY <1>8, <2>1, NewPageType DEF ReceiveEvent, TypeOK
    <2>2. CASE inbox' = [inbox EXCEPT ![t] = Tail(@)]
      <3>1. inbox' \in [Tabs -> Seq(Events)]
        <4>1. inbox[t] \in Seq(Events) /\ inbox[t] # <<>>
          BY <1>8 DEF ReceiveEvent, TypeOK
        <4>2. Tail(inbox[t]) \in Seq(Events)
          BY <4>1
        <4> QED
          BY <2>2, <4>2 DEF TypeOK
      <3>2. CASE NewPage(t)
        BY <2>1, <3>2
      <3>3. CASE ~NewPage(t)
        <4>1. refresh' \in [Tabs -> Refreshes]
          <5>1. refresh' = [refresh EXCEPT ![t] = Superseded(refresh[t])] \/ refresh' = refresh
            BY <1>8, <3>3 DEF ReceiveEvent
          <5> QED
            BY <1>0, <5>1, SupersededFields DEF TypeOK
        <4>2. store' \in [Tabs -> Stores]
          BY <1>8, <3>3, Constants DEF ReceiveEvent, TypeOK
        <4> QED
          BY <1>8, <3>1, <3>3, <4>1, <4>2 DEF ReceiveEvent, TypeOK
      <3> QED
        BY <3>2, <3>3
    <2> QED
      BY <1>8, <2>1, <2>2 DEF ReceiveEvent
  <1> QED
    BY <1>1, <1>2, <1>3, <1>4, <1>5, <1>6, <1>7, <1>8

LEMMA TypeOthers ==
    ASSUME TypeOK, Others
    PROVE  TypeOK'
  <1> USE RememberType DEF Others
  <1>0. ASSUME Upset PROVE upsets' \in 0..MaxUpsets
    BY <1>0, ConstantsAssumption DEF Upset, TypeOK
  <1>1. ASSUME NEW t \in Tabs, Navigate(t) PROVE TypeOK'
    <2>1. refresh' \in [Tabs -> Refreshes]
      BY <1>1, RefreshAuthenticationFields DEF Navigate, TypeOK
    <2>2. store' \in [Tabs -> Stores]
      <3>1. \A b \in {"checking", "complete"} : [store[t] EXCEPT !.boot = b] \in Stores
        BY DEF TypeOK, Stores
      <3>2. \E x \in Stores : store' = [store EXCEPT ![t] = x]
        BY <1>1, <3>1 DEF Navigate
      <3> QED
        BY <3>2 DEF TypeOK
    <2> QED
      BY <1>1, <2>1, <2>2 DEF Navigate, TypeOK, serverVars
  <1>2. ASSUME NEW t \in Tabs, Logout(t) PROVE TypeOK'
    <2>1. call' \in [Tabs -> Calls]
      BY <1>2, SendLogoutFields DEF Logout, TypeOK
    <2> QED
      BY <1>2, <2>1 DEF Logout, TypeOK, serverVars
  <1>3. ASSUME NEW t \in Tabs, ServeLogin(t) PROVE TypeOK'
    <2>1. PICK s \in Sids : /\ sess' = [sess EXCEPT ![s].st = "active"]
                            /\ login' = [login EXCEPT ![t] = s]
      BY <1>3 DEF ServeLogin
    <2>2. sess' \in [Sids -> Sessions] /\ login' \in [Tabs -> Sids \cup {NoSid}]
      BY <2>1 DEF TypeOK, Sessions
    <2> QED
      BY <1>3, <2>2 DEF ServeLogin, TypeOK
  <1>4. ASSUME NEW t \in Tabs, FailRefresh(t) PROVE TypeOK'
    <2>1. PICK says \in {"transient", "refused"} :
             refresh' = [refresh EXCEPT ![t] = [refresh[t] EXCEPT
                 !.at = "answered", !.says = says, !.secret = NoCookie]]
      BY <1>4 DEF FailRefresh
    <2>2. refresh[t] \in Refreshes
      BY DEF TypeOK
    <2>3. [refresh[t] EXCEPT !.at = "answered", !.says = says, !.secret = NoCookie] \in Refreshes
      BY <2>2, CallAnswer, RefreshAnswer, Constants
    <2>4. refresh' \in [Tabs -> Refreshes]
      BY <2>1, <2>3 DEF TypeOK
    <2>5. lost' \in BOOLEAN
      BY <1>4, Zenon DEF FailRefresh, TypeOK
    <2> QED
      BY <1>0, <1>4, <2>4, <2>5 DEF FailRefresh, TypeOK, serverVars
  <1>5. ASSUME NEW t \in Tabs, FailLogout(t) PROVE TypeOK'
    <2>1. call' = [call EXCEPT ![t] = [call[t] EXCEPT
                 !.at = "answered", !.says = "failed", !.secret = NoCookie]]
      BY <1>5 DEF FailLogout
    <2>2. call[t] \in Calls
      BY DEF TypeOK
    <2>3. [call[t] EXCEPT !.at = "answered", !.says = "failed", !.secret = NoCookie] \in Calls
      BY <2>2, CallAnswer, RefreshAnswer
    <2>4. call' \in [Tabs -> Calls]
      BY <2>1, <2>3 DEF TypeOK
    <2> QED
      BY <1>0, <1>5, <2>4 DEF FailLogout, TypeOK, serverVars
  <1>6. ASSUME NEW t \in Tabs, FailLogin(t) PROVE TypeOK'
    <2>1. login' \in [Tabs -> Sids \cup {NoSid}]
      BY <1>6 DEF FailLogin, TypeOK
    <2> QED
      BY <1>0, <1>6, <2>1 DEF FailLogin, TypeOK, serverVars
  <1>7. ASSUME NEW t \in Tabs, Expire(t) PROVE TypeOK'
    <2>1. store' \in [Tabs -> Stores]
      BY <1>7 DEF Expire, TypeOK, Stores
    <2> QED
      BY <1>0, <1>7, <2>1 DEF Expire, TypeOK, serverVars
  <1>8. ASSUME NEW t \in Tabs, Reload(t) PROVE TypeOK'
    BY <1>0, <1>8, NewPageType DEF Reload, TypeOK
  <1>9. CASE ServeOrphan
    <2>1. PICK c \in orphans :
             /\ sess' = RotateUserSessionRefresh(c, NoSid)
             /\ cookie' = Aged(c, NoSid, cookie)
             /\ orphans' = {Aged(c, NoSid, x) : x \in orphans \ {c}}
             /\ call' = [u \in Tabs |-> [call[u] EXCEPT !.secret = Aged(c, NoSid, @)]]
             /\ refresh' = [u \in Tabs |-> [refresh[u] EXCEPT !.secret = Aged(c, NoSid, @)]]
      BY <1>9 DEF ServeOrphan
    <2>2. c \in Secrets /\ cookie \in Secrets /\ \A x \in orphans : x \in Secrets
      BY DEF TypeOK
    <2>3. sess' \in [Sids -> Sessions]
      BY <2>1, <2>2, RotateFields
    <2>4. cookie' \in Secrets /\ orphans' \subseteq Secrets
      BY <2>1, <2>2, AgedFields
    <2>5. call' \in [Tabs -> Calls]
      <3>1. ASSUME NEW u \in Tabs PROVE [call[u] EXCEPT !.secret = Aged(c, NoSid, @)] \in Calls
        <4>1. call[u] \in Calls /\ call[u].secret \in Secrets
          BY DEF TypeOK, Calls
        <4> QED
          BY <4>1, AgedFields, SecretUpdates
      <3> QED
        BY <2>1, <3>1
    <2>6. refresh' \in [Tabs -> Refreshes]
      <3>1. ASSUME NEW u \in Tabs PROVE [refresh[u] EXCEPT !.secret = Aged(c, NoSid, @)] \in Refreshes
        <4>1. refresh[u] \in Refreshes /\ refresh[u].secret \in Secrets
          BY DEF TypeOK, Refreshes
        <4> QED
          BY <4>1, AgedFields, SecretUpdates
      <3> QED
        BY <2>1, <3>1
    <2> QED
      BY <1>9, <2>3, <2>4, <2>5, <2>6 DEF ServeOrphan, TypeOK
  <1>10. ASSUME NEW s \in Sids, GraceEnds(s) PROVE TypeOK'
    <2>1. sess' \in [Sids -> Sessions]
      <3>0. sess \in [Sids -> Sessions]
        BY DEF TypeOK
      <3>1. [sess[s] EXCEPT !.grace = FALSE] \in Sessions
        BY <3>0, SessionUpdates
      <3>2. sess' = [sess EXCEPT ![s] = [sess[s] EXCEPT !.grace = FALSE]]
        BY <1>10 DEF GraceEnds
      <3> QED
        BY <3>0, <3>1, <3>2
    <2> QED
      BY <1>10, <2>1 DEF GraceEnds, TypeOK, tabVars
  <1>11. ASSUME NEW s \in Sids, RevokeElsewhere(s) PROVE TypeOK'
    <2>1. sess' \in [Sids -> Sessions]
      <3>0. sess \in [Sids -> Sessions]
        BY DEF TypeOK
      <3>1. [sess[s] EXCEPT !.st = "logout"] \in Sessions
        BY <3>0, SessionUpdates
      <3>2. sess' = [sess EXCEPT ![s] = [sess[s] EXCEPT !.st = "logout"]]
        BY <1>11 DEF RevokeElsewhere
      <3> QED
        BY <3>0, <3>1, <3>2
    <2> QED
      BY <1>0, <1>11, <2>1 DEF RevokeElsewhere, TypeOK, tabVars
  <1> QED
    BY <1>1, <1>2, <1>3, <1>4, <1>5, <1>6, <1>7, <1>8, <1>9, <1>10, <1>11

LEMMA TypeInit == Init => TypeOK
  <1> SUFFICES ASSUME Init PROVE TypeOK
    OBVIOUS
  <1>1. sess \in [Sids -> Sessions] /\ hasLocks \in BOOLEAN /\ upsets \in 0..MaxUpsets
    BY ConstantsAssumption DEF Init, Sessions
  <1>2. store \in [Tabs -> Stores] /\ refresh \in [Tabs -> Refreshes] /\ call \in [Tabs -> Calls]
    BY Constants DEF Init
  <1>3. login \in [Tabs -> Sids \cup {NoSid}] /\ page \in [Tabs -> {"new", "loading", "ready"}]
    BY DEF Init
  <1>4. inbox \in [Tabs -> Seq(Events)]
    BY DEF Init
  <1>5. cookie \in Secrets /\ orphans \subseteq Secrets /\ lost \in BOOLEAN
    BY Constants DEF Init
  <1>6. ended \in [Tabs -> SUBSET Sids]
    BY DEF Init
  <1> QED
    BY <1>1, <1>2, <1>3, <1>4, <1>5, <1>6 DEF TypeOK

LEMMA TypeStep == TypeOK /\ [Next]_vars => TypeOK'
  <1> SUFFICES ASSUME TypeOK, [Next]_vars PROVE TypeOK'
    OBVIOUS
  <1>1. ASSUME NEW t \in Tabs, Server(t) PROVE TypeOK'
    BY <1>1, TypeServer DEF Server
  <1>2. ASSUME NEW t \in Tabs, Client(t) PROVE TypeOK'
    BY <1>2, TypeClient
  <1>3. ASSUME NEW t \in Tabs, Panel(t) PROVE TypeOK'
    <2>1. call' \in [Tabs -> Calls]
      BY <1>3, DeniedFields DEF Panel, CallApi, TypeOK
    <2> QED
      BY <1>3, <2>1, RememberType DEF Panel, CallApi, TypeOK, serverVars
  <1>4. CASE Others
    BY <1>4, TypeOthers
  <1>5. CASE UNCHANGED vars
    BY <1>5 DEF vars, TypeOK
  <1> QED
    BY <1>1, <1>2, <1>3, <1>4, <1>5 DEF Next

(* Every variable keeps its type, for any number of tabs and logins: the   *)
(* ages of secrets, the answers and the events stay those the code has     *)
(* cases for.                                                              *)
THEOREM TypeCorrect == Spec => []TypeOK
  BY TypeInit, TypeStep, PTL DEF Spec
-----------------------------------------------------------------------------
(* The actions of a tab are its steps.                                     *)

LEMMA RefreshKept ==
    ASSUME TypeOK, NEW t \in Tabs, refresh' = [refresh EXCEPT ![t] = refreshAuthentication(t)],
           UNCHANGED <<cookie, hasLocks>>
    PROVE  Kept(t) \/ Ended(t) \/ Sent(t)
  <1>1. refresh'[t] = refreshAuthentication(t)
    BY DEF TypeOK
  <1>2. CASE refresh[t].at # "none"
    BY <1>1, <1>2 DEF refreshAuthentication, Kept
  <1>3. CASE refresh[t].at = "none" /\ hasLocks
    BY <1>1, <1>3 DEF refreshAuthentication, Ended, Answered, NoRefresh
  <1>4. CASE refresh[t].at = "none" /\ ~hasLocks
    BY <1>1, <1>4, RefreshAuthenticationFields DEF Sent, Kept, Ended, Answered, NoRefresh,
       refreshAuthentication, requestRefresh
  <1> QED
    BY <1>2, <1>3, <1>4

LEMMA SupersededKept ==
    ASSUME TypeOK, NEW t \in Tabs, refresh' = [refresh EXCEPT ![t] = Superseded(@)]
    PROVE  Kept(t) /\ ~(Answered(refresh'[t]) /\ refresh'[t].current)
  <1>1. refresh[t] \in Refreshes /\ refresh'[t] = Superseded(refresh[t])
    BY DEF TypeOK
  <1>2. refresh[t].current \in BOOLEAN
    BY <1>1 DEF Refreshes
  <1> QED
    BY <1>1, <1>2 DEF Superseded, Kept, Answered, Refreshes

LEMMA NewPageStep ==
    ASSUME TypeOK, NEW t \in Tabs, NewPage(t), UNCHANGED <<sess, cookie, hasLocks>>
    PROVE  TabStep(t)
  <1>1. /\ store'[t] = Anonymous("idle") /\ refresh'[t] = NoRefresh /\ call'[t] = NoCall
        /\ login'[t] = NoSid
        /\ \A u \in Tabs \ {t} : /\ store'[u] = store[u] /\ refresh'[u] = refresh[u]
                                 /\ call'[u] = call[u] /\ login'[u] = login[u]
    BY DEF NewPage, TypeOK
  <1>2. lost => lost'
    BY DEF NewPage
  <1>3. refresh[t].at \in {"sent", "answered"} => lost'
    BY DEF NewPage
  <1>4. orphans' = orphans \/ (lost' /\ orphans' = orphans \cup {refresh[t].secret})
    BY <1>3 DEF NewPage
  <1>5. StoreStep(t) /\ CookieStep(t) /\ Ended(t)
    BY <1>1, <1>3 DEF StoreStep, CookieStep, Ended, Answered, Anonymous, NoRefresh
  <1>6. call'[t].secret = NoCookie
    BY <1>1 DEF NoCall
  <1> QED
    BY <1>1, <1>2, <1>4, <1>5, <1>6 DEF TabStep

LEMMA LoadStep ==
    ASSUME TypeOK, NEW t \in Tabs, Load(t) \/ Navigate(t)
    PROVE  TabStep(t)
  <1>1. UNCHANGED <<sess, orphans, cookie, hasLocks, call, login, lost>>
    BY DEF Load, Navigate, serverVars
  <1>2. \/ UNCHANGED refresh
        \/ refresh' = [refresh EXCEPT ![t] = refreshAuthentication(t)]
    BY DEF Load, Navigate
  <1>3. \E b : store' = [store EXCEPT ![t] = [store[t] EXCEPT !.boot = b]]
    BY DEF Load, Navigate
  <1>4. \A u \in Tabs : store'[u].sid = store[u].sid
    BY <1>3 DEF TypeOK, Stores
  <1>5. \A u \in Tabs \ {t} : store'[u] = store[u] /\ refresh'[u] = refresh[u]
    BY <1>2, <1>3 DEF TypeOK
  <1>6. Kept(t) \/ Ended(t) \/ Sent(t)
    BY <1>1, <1>2, RefreshKept DEF Kept
  <1> QED
    BY <1>1, <1>4, <1>5, <1>6 DEF TabStep, StoreStep, CookieStep

LEMMA GrantLockStep ==
    ASSUME TypeOK, NEW t \in Tabs, GrantLock(t)
    PROVE  TabStep(t)
  <1>1. UNCHANGED <<sess, orphans, cookie, hasLocks, store, call, login, lost>>
    BY DEF GrantLock, serverVars
  <1>2. \A u \in Tabs \ {t} : refresh'[u] = refresh[u]
    BY DEF GrantLock, TypeOK
  <1>3. /\ refresh[t].at = "queued" /\ LockFree
        /\ \/ refresh'[t] = requestRefresh(refresh[t], store[t].sid, cookie)
           \/ refresh'[t] = Settled("transient")
           \/ refresh'[t] = NoRefresh
    BY DEF GrantLock, TypeOK
  <1>4. refresh[t] \in Refreshes /\ store[t].sid \in Sids \cup {NoSid} /\ cookie \in Secrets
    BY DEF TypeOK, Stores
  <1>5. Ended(t) \/ Sent(t)
    BY <1>1, <1>3, <1>4, RequestFields, SettledFields DEF Ended, Sent, Answered, NoRefresh
  <1> QED
    BY <1>1, <1>2, <1>5 DEF TabStep, StoreStep, CookieStep

LEMMA ReceiveRefreshStep ==
    ASSUME TypeOK, NEW t \in Tabs, ReceiveRefresh(t)
    PROVE  TabStep(t)
  <1>1. UNCHANGED <<sess, orphans, hasLocks, call, login, lost>>
    BY DEF ReceiveRefresh, serverVars
  <1>2. \A u \in Tabs \ {t} : refresh'[u] = refresh[u]
    BY DEF ReceiveRefresh, TypeOK
  <1>3. \A u \in Tabs \ {t} : store'[u] = store[u]
    BY DEF ReceiveRefresh, TypeOK, clearAuthentication
  <1>4. refresh[t].at = "answered"
    BY DEF ReceiveRefresh
  <1>5. /\ CookieStep(t)
        /\ Answered(refresh[t]) => cookie' = refresh[t].secret
        /\ refresh[t].says = "mismatch" => cookie' = cookie
    BY DEF ReceiveRefresh, CookieStep, Answered
  <1>6. refresh[t] \in Refreshes /\ cookie \in Secrets
    BY DEF TypeOK
  <1>7. CASE refresh[t].says = "mismatch" /\ refresh[t].current
    <2>1. refresh'[t] = requestRefresh(refresh[t], NoSid, cookie)
      BY <1>7 DEF ReceiveRefresh, RetrySID, TypeOK
    <2>2. store'[t].sid = NoSid
      BY <1>7 DEF ReceiveRefresh, Anonymous, TypeOK
    <2>3. /\ requestRefresh(refresh[t], NoSid, cookie).at = "sent"
          /\ requestRefresh(refresh[t], NoSid, cookie).secret = cookie
      BY <1>6, RequestFields, NoSid \in Sids \cup {NoSid}
    <2>4. Sent(t)
      BY <1>4, <1>5, <1>7, <2>1, <2>3 DEF Sent, Answered
    <2> QED
      BY <1>1, <1>2, <1>3, <1>5, <2>2, <2>4 DEF TabStep, StoreStep, Sent, Answered
  <1>8. CASE ~(refresh[t].says = "mismatch" /\ refresh[t].current)
    <2>1. \/ refresh'[t] = NoRefresh
          \/ \E o \in {"transient", "authenticated", "anonymous", "out_of_sync"} :
                refresh'[t] = Settled(o)
      BY <1>8 DEF ReceiveRefresh, TypeOK
    <2>2. Ended(t)
      BY <1>4, <1>5, <2>1, SettledFields DEF Ended, Answered, NoRefresh
    <2>3. \/ store'[t].sid \in {store[t].sid, NoSid}
          \/ /\ refresh[t].current /\ refresh[t].says = "ok"
             /\ store'[t].sid = refresh[t].secret.sid
      BY <1>8 DEF ReceiveRefresh, TypeOK, Stores, clearAuthentication, Anonymous
    <2> QED
      BY <1>1, <1>2, <1>3, <1>4, <1>5, <2>2, <2>3 DEF TabStep, StoreStep, Ended, Answered
  <1> QED
    BY <1>7, <1>8

LEMMA SettleRefreshStep ==
    ASSUME TypeOK, NEW t \in Tabs, SettleRefresh(t)
    PROVE  TabStep(t)
  <1>1. UNCHANGED <<sess, cookie, hasLocks>>
    BY DEF SettleRefresh
  <1>2. CASE NewPage(t)
    BY <1>1, <1>2, NewPageStep
  <1>3. CASE ~NewPage(t)
    <2>1. UNCHANGED <<orphans, login, lost>>
      BY <1>3 DEF SettleRefresh
    <2>2. refresh' = [refresh EXCEPT ![t] = NoRefresh]
      BY <1>3 DEF SettleRefresh
    <2>3. store' = store \/ store' = [store EXCEPT ![t] = Anonymous("complete")]
      BY <1>3 DEF SettleRefresh, clearAuthentication
    <2>4. \E k : call' = [call EXCEPT ![t] = k] /\ k.secret \in {NoCookie, cookie}
      <3>1. NoCall.secret = NoCookie /\ Denied(TRUE).secret = NoCookie
        BY DeniedFields DEF NoCall
      <3>2. SendLogout(t, TRUE).secret = cookie
        BY SendLogoutFields
      <3> QED
        BY <1>3, <3>1, <3>2 DEF SettleRefresh
    <2>5. /\ \A u \in Tabs \ {t} : /\ store'[u] = store[u] /\ refresh'[u] = refresh[u]
                                   /\ call'[u] = call[u]
          /\ refresh'[t] = NoRefresh /\ call'[t].secret \in {NoCookie, cookie}
      BY <2>2, <2>3, <2>4 DEF TypeOK
    <2>6. store'[t].sid \in {store[t].sid, NoSid}
      BY <2>3 DEF TypeOK, Anonymous
    <2>7. refresh[t].at = "settled"
      BY DEF SettleRefresh
    <2> QED
      BY <1>1, <2>1, <2>5, <2>6, <2>7 DEF TabStep, StoreStep, CookieStep, Ended, Answered, NoRefresh
  <1> QED
    BY <1>2, <1>3

LEMMA ReceiveDeniedStep ==
    ASSUME TypeOK, NEW t \in Tabs, ReceiveDenied(t)
    PROVE  TabStep(t)
  <1>1. UNCHANGED <<sess, cookie, hasLocks>>
    BY DEF ReceiveDenied
  <1>2. CASE NewPage(t)
    BY <1>1, <1>2, NewPageStep
  <1>3. CASE ~NewPage(t)
    <2>1. UNCHANGED <<orphans, login, lost>>
      BY <1>3 DEF ReceiveDenied
    <2>2. call'[t].secret = NoCookie /\ \A u \in Tabs \ {t} : call'[u] = call[u]
      <3>1. [NoCall EXCEPT !.kind = "api", !.at = "waiting"].secret = NoCookie
        BY DEF NoCall
      <3>2. NoCall.secret = NoCookie
        BY DEF NoCall
      <3> QED
        BY <1>3, <3>1, <3>2 DEF ReceiveDenied, TypeOK
    <2>3. \/ refresh' = [refresh EXCEPT ![t] = refreshAuthentication(t)] /\ store' = store
          \/ /\ refresh' = [refresh EXCEPT ![t] = Superseded(@)]
             /\ store' = [store EXCEPT ![t] = Anonymous("complete")]
      BY <1>3 DEF ReceiveDenied, clearAuthentication
    <2>4. \A u \in Tabs \ {t} : store'[u] = store[u] /\ refresh'[u] = refresh[u]
      BY <2>3 DEF TypeOK
    <2>5. StoreStep(t) /\ (Kept(t) \/ Ended(t) \/ Sent(t))
      BY <1>1, <2>3, RefreshKept, SupersededKept DEF StoreStep, Anonymous, TypeOK
    <2> QED
      BY <1>1, <2>1, <2>2, <2>4, <2>5 DEF TabStep, CookieStep
  <1> QED
    BY <1>2, <1>3

LEMMA ReceiveLogoutStep ==
    ASSUME TypeOK, NEW t \in Tabs, ReceiveLogout(t)
    PROVE  TabStep(t)
  <1>1. UNCHANGED <<sess, orphans, hasLocks, login, lost>> /\ CookieStep(t)
    BY DEF ReceiveLogout, serverVars, CookieStep
  <1>2. call'[t].secret = NoCookie /\ \A u \in Tabs \ {t} : call'[u] = call[u]
    <2>1. [NoCall EXCEPT !.kind = "logout", !.at = "waiting"].secret = NoCookie
      BY DEF NoCall
    <2>2. NoCall.secret = NoCookie
      BY DEF NoCall
    <2> QED
      BY <2>1, <2>2 DEF ReceiveLogout, TypeOK
  <1>3. \/ /\ refresh' = [refresh EXCEPT ![t] = refreshAuthentication(t)]
           /\ store' = store /\ cookie' = cookie
        \/ /\ refresh' = [refresh EXCEPT ![t] = Superseded(@)]
           /\ store' = [store EXCEPT ![t] = Anonymous("complete")]
        \/ refresh' = refresh /\ store' = store
    BY DEF ReceiveLogout, clearAuthentication
  <1>4. \A u \in Tabs \ {t} : store'[u] = store[u] /\ refresh'[u] = refresh[u]
    BY <1>3 DEF TypeOK
  <1>5. StoreStep(t) /\ (Kept(t) \/ Ended(t) \/ Sent(t))
    <2>1. CASE refresh' = refresh /\ store' = store
      BY <2>1 DEF StoreStep, Kept
    <2>2. CASE /\ refresh' = [refresh EXCEPT ![t] = refreshAuthentication(t)]
               /\ store' = store /\ cookie' = cookie
      BY <1>1, <2>2, RefreshKept DEF StoreStep
    <2>3. CASE /\ refresh' = [refresh EXCEPT ![t] = Superseded(@)]
               /\ store' = [store EXCEPT ![t] = Anonymous("complete")]
      BY <2>3, SupersededKept DEF StoreStep, Anonymous, TypeOK
    <2> QED
      BY <1>3, <2>1, <2>2, <2>3
  <1> QED
    BY <1>1, <1>2, <1>4, <1>5 DEF TabStep

LEMMA ReceiveLoginStep ==
    ASSUME TypeOK, NEW t \in Tabs, ReceiveLogin(t)
    PROVE  TabStep(t)
  <1>1. UNCHANGED <<sess, orphans, hasLocks, call, lost>>
    BY DEF ReceiveLogin, serverVars
  <1>2. /\ login[t] # NoSid /\ login'[t] = NoSid
        /\ cookie' = [sid |-> login[t], age |-> 0] /\ store'[t].sid = login[t]
    BY DEF ReceiveLogin, TypeOK
  <1>3. Kept(t) /\ ~(Answered(refresh'[t]) /\ refresh'[t].current)
    BY SupersededKept DEF ReceiveLogin
  <1>4. \A u \in Tabs \ {t} : /\ store'[u] = store[u] /\ refresh'[u] = refresh[u]
                              /\ login'[u] = login[u]
    BY DEF ReceiveLogin, TypeOK
  <1> QED
    BY <1>1, <1>2, <1>3, <1>4 DEF TabStep, StoreStep, CookieStep

LEMMA ReceiveEventStep ==
    ASSUME TypeOK, NEW t \in Tabs, ReceiveEvent(t)
    PROVE  TabStep(t)
  <1>1. UNCHANGED <<sess, cookie, hasLocks>>
    BY DEF ReceiveEvent
  <1>2. CASE NewPage(t)
    BY <1>1, <1>2, NewPageStep
  <1>3. CASE ~NewPage(t)
    <2>1. UNCHANGED <<orphans, login, lost, call>>
      BY <1>3 DEF ReceiveEvent
    <2>2. \/ refresh' = refresh /\ store' = store
          \/ /\ refresh' = [refresh EXCEPT ![t] = Superseded(@)]
             /\ store' = [store EXCEPT ![t] = Anonymous("complete")]
      BY <1>3 DEF ReceiveEvent
    <2>3. \A u \in Tabs \ {t} : store'[u] = store[u] /\ refresh'[u] = refresh[u]
      BY <2>2 DEF TypeOK
    <2>4. StoreStep(t) /\ Kept(t)
      <3>1. CASE refresh' = refresh /\ store' = store
        BY <3>1 DEF StoreStep, Kept
      <3>2. CASE /\ refresh' = [refresh EXCEPT ![t] = Superseded(@)]
                 /\ store' = [store EXCEPT ![t] = Anonymous("complete")]
        BY <3>2, SupersededKept DEF StoreStep, Anonymous, TypeOK
      <3> QED
        BY <2>2, <3>1, <3>2
    <2> QED
      BY <1>1, <2>1, <2>3, <2>4 DEF TabStep, CookieStep
  <1> QED
    BY <1>2, <1>3

LEMMA FailRefreshStep ==
    ASSUME TypeOK, NEW t \in Tabs, FailRefresh(t)
    PROVE  TabStep(t)
  <1>1. UNCHANGED <<sess, orphans, cookie, hasLocks, store, call, login>>
    BY DEF FailRefresh, serverVars
  <1>2. (lost => lost') /\ (refresh[t].at = "answered" => lost')
    BY DEF FailRefresh
  <1>3. PICK says \in {"transient", "refused"} :
           refresh' = [refresh EXCEPT ![t] = [refresh[t] EXCEPT
               !.at = "answered", !.says = says, !.secret = NoCookie]]
    BY DEF FailRefresh
  <1>4. /\ \A u \in Tabs \ {t} : refresh'[u] = refresh[u]
        /\ refresh'[t] = [refresh[t] EXCEPT !.at = "answered", !.says = says, !.secret = NoCookie]
    BY <1>3 DEF TypeOK
  <1>5. refresh'[t].at = "answered" /\ refresh'[t].says = says /\ refresh'[t].secret = NoCookie
    BY <1>4 DEF TypeOK, Refreshes
  <1>6. Ended(t)
    BY <1>2, <1>5 DEF FailRefresh, Ended, Answered
  <1> QED
    BY <1>1, <1>2, <1>4, <1>6 DEF TabStep, StoreStep, CookieStep

LEMMA OtherTabSteps ==
    ASSUME TypeOK, NEW t \in Tabs,
           \/ CallApi(t) \/ Logout(t) \/ FailLogout(t) \/ FailLogin(t) \/ Expire(t) \/ Reload(t)
    PROVE  TabStep(t)
  <1>1. CASE Reload(t)
    BY <1>1, NewPageStep DEF Reload
  <1>2. CASE CallApi(t) \/ Logout(t) \/ FailLogout(t)
    <2>1. UNCHANGED <<sess, orphans, cookie, hasLocks, store, refresh, login, lost>>
      BY <1>2 DEF CallApi, Logout, FailLogout, serverVars
    <2>2. /\ call'[t].secret \in {call[t].secret, NoCookie, cookie}
          /\ \A u \in Tabs \ {t} : call'[u] = call[u]
      <3>1. CASE CallApi(t) \/ Logout(t)
        BY <3>1, DeniedFields, SendLogoutFields DEF CallApi, Logout, TypeOK
      <3>2. CASE FailLogout(t)
        BY <3>2 DEF FailLogout, TypeOK, Calls
      <3> QED
        BY <1>2, <3>1, <3>2
    <2> QED
      BY <2>1, <2>2 DEF TabStep, StoreStep, CookieStep, Kept
  <1>3. CASE FailLogin(t)
    <2>1. UNCHANGED <<sess, orphans, cookie, hasLocks, store, refresh, call, lost>>
      BY <1>3 DEF FailLogin, serverVars
    <2>2. login'[t] = NoSid /\ \A u \in Tabs \ {t} : login'[u] = login[u]
      BY <1>3 DEF FailLogin, TypeOK
    <2> QED
      BY <2>1, <2>2 DEF TabStep, StoreStep, CookieStep, Kept
  <1>4. CASE Expire(t)
    <2>1. UNCHANGED <<sess, orphans, cookie, hasLocks, login, refresh, call, lost>>
      BY <1>4 DEF Expire, serverVars
    <2>2. store'[t].sid = store[t].sid /\ \A u \in Tabs \ {t} : store'[u] = store[u]
      BY <1>4 DEF Expire, TypeOK, Stores
    <2> QED
      BY <2>1, <2>2 DEF TabStep, StoreStep, CookieStep, Kept
  <1> QED
    BY <1>1, <1>2, <1>3, <1>4
-----------------------------------------------------------------------------
(* A step of a tab keeps the invariant.                                    *)

(* What Remember adds to the history of a tab. *)
LEMMA RememberFields ==
    ASSUME TypeOK, Remember, NEW t \in Tabs
    PROVE  \A s \in Sids : s \in ended'[t] <=>
               \/ s \in ended[t]
               \/ store[t].sid = s /\ store'[t].sid # s /\ Revoked(s)
  BY DEF Remember, TypeOK

(* A session stays unseen, unless it is the one whose login is answered.   *)
LEMMA TabKeepsUnseen ==
    ASSUME TypeOK, TypeOK', Remember, NEW t \in Tabs, TabStep(t), NEW s \in Sids, Unseen(s),
           login[t] # s \/ login'[t] = s
    PROVE  Unseen(s)'
  <1>0. s # NoSid /\ NoCookie.sid # s
    BY Constants
  <1>1. cookie'.sid # s
    BY <1>0 DEF TabStep, CookieStep, Unseen
  <1>2. \A x \in orphans' : x.sid # s
    BY DEF TabStep, Unseen
  <1>3. ASSUME NEW u \in Tabs
        PROVE  /\ store'[u].sid # s /\ s \notin ended'[u]
               /\ refresh'[u].secret.sid # s /\ call'[u].secret.sid # s
    <2>1. CASE u # t
      <3>1. store'[u] = store[u] /\ refresh'[u] = refresh[u] /\ call'[u] = call[u]
        BY <2>1 DEF TabStep
      <3> QED
        BY <3>1, RememberFields DEF Unseen
    <2>2. CASE u = t
      <3>1. store'[t].sid # s
        BY <1>0 DEF TabStep, StoreStep, Unseen
      <3>2. refresh'[t].secret.sid # s
        BY <1>0 DEF TabStep, Kept, Ended, Sent, Unseen
      <3>3. call'[t].secret.sid # s
        BY <1>0 DEF TabStep, Unseen
      <3>4. s \notin ended'[t]
        BY RememberFields DEF Unseen
      <3> QED
        BY <2>2, <3>1, <3>2, <3>3, <3>4
    <2> QED
      BY <2>1, <2>2
  <1> QED
    BY <1>1, <1>2, <1>3 DEF Unseen

LEMMA TabLogin ==
    ASSUME TypeOK, TypeOK', LoginInv, Remember, NEW t \in Tabs, TabStep(t)
    PROVE  LoginInv'
  <1>1. sess' = sess /\ \A u \in Tabs : login'[u] \in {login[u], NoSid}
    BY DEF TabStep
  <1>2. ASSUME NEW s \in Sids, sess'[s].st = "none" PROVE Unseen(s)'
    <2>1. login[t] # s /\ Unseen(s)
      BY <1>1, <1>2, Constants DEF LoginInv
    <2> QED
      BY <2>1, TabKeepsUnseen
  <1>3. ASSUME NEW u \in Tabs, NEW s \in Sids, login'[u] = s
        PROVE  sess'[s].st # "none" /\ Unseen(s)'
    <2>1. login[u] = s /\ s # NoSid
      BY <1>1, <1>3, Constants
    <2>2. Unseen(login[u]) /\ sess[s].st # "none"
      BY <2>1 DEF LoginInv
    <2>3. Unseen(s)
      BY <2>1, <2>2 DEF Unseen
    <2>4. login[t] # s \/ login'[t] = s
      BY <1>3, <2>1 DEF LoginInv
    <2>5. Unseen(s)'
      BY <2>3, <2>4, TabKeepsUnseen
    <2> QED
      BY <1>1, <2>2, <2>5
  <1>4. \A u, v \in Tabs : login'[u] = login'[v] /\ login'[u] # NoSid => u = v
    BY <1>1 DEF LoginInv
  <1>5. \A u \in Tabs : login'[u] # NoSid => login'[u] \in Sids
    BY DEF TypeOK
  <1> QED
    BY <1>2, <1>3, <1>4, <1>5 DEF LoginInv, Unseen

LEMMA TabEnded ==
    ASSUME TypeOK, TypeOK', LoginInv, EndedInv, Remember, NEW t \in Tabs, TabStep(t)
    PROVE  EndedInv'
  <1> SUFFICES ASSUME NEW u \in Tabs
               PROVE  /\ \A s \in ended'[u] : Revoked(s)'
                      /\ store'[u].sid \notin ended'[u]
                      /\ Answered(refresh'[u]) /\ refresh'[u].current
                            => refresh'[u].secret.sid \notin ended'[u]
    BY DEF EndedInv, Answered
  <1>0. ended'[u] \subseteq Sids /\ ended[u] \subseteq Sids
    BY DEF TypeOK
  <1>1. \A s \in ended'[u] : Revoked(s)'
    <2>1. \A s \in Sids : Revoked(s)' <=> Revoked(s)
      BY DEF Revoked, TabStep
    <2> QED
      BY <1>0, <2>1, RememberFields DEF EndedInv
  <1>2. CASE store'[u].sid = store[u].sid
    <2>1. ended'[u] = ended[u]
      BY <1>0, <1>2, RememberFields
    <2>2. Answered(refresh'[u]) /\ refresh'[u].current
             => /\ Answered(refresh[u]) /\ refresh[u].current
                /\ refresh'[u].secret = refresh[u].secret
      BY DEF TabStep, Kept, Ended, Sent, Answered
    <2> QED
      BY <1>1, <1>2, <2>1, <2>2 DEF EndedInv, Answered
  <1>3. CASE store'[u].sid # store[u].sid
    <2>1. u = t /\ StoreStep(t)
      BY <1>3 DEF TabStep
    <2>2. store'[t].sid \notin ended[t]
      <3>1. CASE store'[t].sid = NoSid
        BY <1>0, <2>1, <3>1, Constants
      <3>2. CASE /\ Answered(refresh[t]) /\ refresh[t].current
                 /\ store'[t].sid = refresh[t].secret.sid
        BY <3>2 DEF EndedInv, Answered
      <3>3. CASE login[t] # NoSid /\ store'[t].sid = login[t]
        BY <3>3 DEF LoginInv, Unseen
      <3> QED
        BY <1>3, <2>1, <3>1, <3>2, <3>3 DEF StoreStep
    <2>3. store'[t].sid \notin ended'[t]
      BY <1>0, <1>3, <2>1, <2>2, RememberFields
    <2> QED
      BY <1>1, <1>3, <2>1, <2>3 DEF StoreStep
  <1> QED
    BY <1>2, <1>3

LEMMA TabSync ==
    ASSUME TypeOK, TypeOK', SyncInv, NEW t \in Tabs, TabStep(t)
    PROVE  SyncInv'
  <1>1. LockInv'
    <2> SUFFICES ASSUME hasLocks', NEW u \in Tabs, NEW v \in Tabs, Running(u)', Running(v)', u # v
                 PROVE  FALSE
      BY DEF LockInv
    <2>0. hasLocks /\ \A x, y \in Tabs : Running(x) /\ Running(y) => x = y
      BY DEF SyncInv, LockInv, TabStep
    <2>1. \A x \in Tabs : x # t => (Running(x)' <=> Running(x))
      BY DEF Running, TabStep
    <2>2. Running(t)' => Running(t) \/ LockFree
      BY <2>0 DEF Running, TabStep, Kept, Ended, Sent
    <2>3. LockFree => \A x \in Tabs : ~Running(x)
      BY DEF LockFree, Running
    <2> QED
      BY <2>0, <2>1, <2>2, <2>3
  <1>2. ASSUME ~lost' PROVE InStep'
    <2>1. ~lost /\ orphans' = {}
      BY <1>2 DEF TabStep, SyncInv, InStep
    <2>2. ASSUME hasLocks' PROVE \A s \in Sids : sess'[s].st # "reuse"
      BY <2>1, <2>2 DEF SyncInv, InStep, TabStep
    <2>3. ASSUME hasLocks', NEW u \in Tabs, Running(u)' PROVE refresh'[u].secret.age = 0
      <3>0. hasLocks /\ \A x \in Tabs : Running(x) => refresh[x].secret.age = 0
        BY <2>1, <2>3 DEF SyncInv, InStep, TabStep
      <3>1. CASE u # t
        BY <2>3, <3>0, <3>1 DEF TabStep, Running
      <3>2. CASE u = t /\ Kept(t)
        BY <2>3, <3>0, <3>2 DEF Kept, Running
      <3>3. CASE u = t /\ Ended(t)
        BY <3>3, Constants DEF Ended
      <3>4. CASE u = t /\ Sent(t)
        <4>1. \A x \in Tabs : ~Answered(refresh[x])
          BY <3>0, <3>4 DEF Sent, SyncInv, LockInv, LockFree, Running, Answered
        <4>2. cookie.age = 0
          BY <2>1, <3>0, <4>1 DEF SyncInv, InStep, Answered
        <4> QED
          BY <3>4, <4>2 DEF Sent
      <3> QED
        BY <3>1, <3>2, <3>3, <3>4 DEF TabStep
    <2>4. ASSUME hasLocks', cookie'.age # 0 PROVE \E u \in Tabs : Answered(refresh'[u])
      <3>0. /\ hasLocks
            /\ \A x \in Tabs : Running(x) => refresh[x].secret.age = 0
            /\ cookie.age # 0 => \E x \in Tabs : Answered(refresh[x])
        BY <2>1, <2>4 DEF SyncInv, InStep, TabStep, Answered
      <3>1. cookie' = cookie
        <4>1. refresh[t].at = "answered" => refresh[t].secret.age = 0
          BY <3>0 DEF Running
        <4>2. [sid |-> login[t], age |-> 0].age = 0
          OBVIOUS
        <4> QED
          BY <2>4, <4>1, <4>2, Constants DEF TabStep, CookieStep
      <3>2. PICK x \in Tabs : Answered(refresh[x])
        BY <2>4, <3>0, <3>1
      <3>3. refresh[x].secret.age = 0
        BY <3>0, <3>2 DEF Running, Answered
      <3>4. Answered(refresh'[x])
        <4>1. CASE x # t
          BY <3>2, <4>1 DEF TabStep
        <4>2. CASE x = t
          <5>1. ~Ended(t)
            BY <1>2, <2>4, <3>1, <3>2, <3>3, <4>2 DEF Ended
          <5>2. ~Sent(t)
            BY <3>2, <4>2 DEF Sent
          <5> QED
            BY <3>2, <4>2, <5>1, <5>2 DEF TabStep, Kept, Answered
        <4> QED
          BY <4>1, <4>2
      <3> QED
        BY <3>4
    <2> QED
      BY <2>1, <2>2, <2>3, <2>4 DEF InStep, Answered
  <1> QED
    BY <1>1, <1>2 DEF SyncInv
-----------------------------------------------------------------------------
(* The steps of the server, as far as the invariant is concerned: nothing  *)
(* moves to another session, a session ends but never comes back, and a    *)
(* refresh is answered "ok" only for a session that is active.             *)
ServerStep ==
    /\ UNCHANGED <<store, login, hasLocks, lost>>
    /\ \A s \in Sids : \/ sess'[s].st = sess[s].st
                       \/ sess[s].st = "active" /\ sess'[s].st \in {"logout", "reuse"}
    /\ cookie'.sid = cookie.sid
    /\ \A x \in orphans' : \E y \in orphans : x.sid = y.sid
    /\ \A u \in Tabs :
         /\ call'[u].secret.sid \in {call[u].secret.sid, NoSid}
         /\ refresh'[u].secret.sid \in {refresh[u].secret.sid, NoSid}
         /\ Answered(refresh'[u]) /\ refresh'[u].current
              => \/ /\ Answered(refresh[u]) /\ refresh[u].current
                    /\ refresh'[u].secret.sid = refresh[u].secret.sid
                 \/ Active(refresh'[u].secret.sid)

(* The answer to the refresh of t. *)
LEMMA ServeRefreshFields ==
    ASSUME TypeOK, NEW t \in Tabs, ServeRefresh(t)
    PROVE  /\ refresh'[t].at = "answered" /\ refresh'[t].current = refresh[t].current
           /\ \/ /\ refresh'[t].says = "ok" /\ Active(refresh[t].secret.sid)
                 /\ refresh'[t].secret = [sid |-> refresh[t].secret.sid, age |-> 0]
              \/ /\ refresh'[t].says # "ok" /\ refresh'[t].secret = NoCookie
                 /\ cookie' = cookie
           /\ cookie'.sid = cookie.sid
           /\ \A u \in Tabs : u # t =>
                /\ refresh'[u].at = refresh[u].at /\ refresh'[u].says = refresh[u].says
                /\ refresh'[u].current = refresh[u].current
                /\ refresh'[u].secret.sid = refresh[u].secret.sid
           /\ \A u \in Tabs : call'[u].secret.sid = call[u].secret.sid
           /\ \A x \in orphans' : \E y \in orphans : x.sid = y.sid
  <1> DEFINE c == refresh[t].secret
             w == refresh[t].want
             says == RefreshLoginSession(c, w)
  <1>0. /\ cookie \in Secrets /\ \A x \in orphans : x \in Secrets
        /\ \A u \in Tabs : /\ refresh[u] \in Refreshes /\ refresh[u].secret \in Secrets
                           /\ call[u] \in Calls /\ call[u].secret \in Secrets
    BY DEF TypeOK, Refreshes, Calls
  <1>1. says \in {"ok", "mismatch", "unauthorized"} /\ (says = "ok" => Active(c.sid))
    BY DEF RefreshLoginSession
  <1>2. says # "ok" => Aged(c, w, cookie) = cookie
    BY DEF Aged, Rotates
  <1>3. /\ cookie' = Aged(c, w, cookie)
        /\ orphans' = {Aged(c, w, x) : x \in orphans}
        /\ call' = [u \in Tabs |-> [call[u] EXCEPT !.secret = Aged(c, w, @)]]
        /\ refresh' = [u \in Tabs |->
              IF u # t THEN [refresh[u] EXCEPT !.secret = Aged(c, w, @)]
              ELSE [refresh[u] EXCEPT !.at = "answered", !.says = says,
                      !.secret = IF says = "ok" THEN [sid |-> c.sid, age |-> 0]
                                 ELSE NoCookie]]
    BY DEF ServeRefresh
  <1> HIDE DEF says, c, w
  <1>4. cookie'.sid = cookie.sid /\ \A x \in orphans' : \E y \in orphans : x.sid = y.sid
    <2>1. \A x \in Secrets : Aged(c, w, x).sid = x.sid
      BY AgedFields
    <2>2. cookie' = Aged(c, w, cookie) /\ orphans' = {Aged(c, w, x) : x \in orphans}
      BY <1>3
    <2> QED
      BY ONLY <1>0, <2>1, <2>2
  <1>5. ASSUME NEW u \in Tabs PROVE call'[u].secret.sid = call[u].secret.sid
    <2>1. call'[u] = [call[u] EXCEPT !.secret = Aged(c, w, call[u].secret)]
      BY <1>3
    <2>2. call'[u].secret = Aged(c, w, call[u].secret)
      BY <1>0, <2>1 DEF Calls
    <2> QED
      BY <1>0, <2>2, AgedFields
  <1>6. ASSUME NEW u \in Tabs, u # t
        PROVE  /\ refresh'[u].at = refresh[u].at /\ refresh'[u].says = refresh[u].says
               /\ refresh'[u].current = refresh[u].current
               /\ refresh'[u].secret.sid = refresh[u].secret.sid
    <2>1. refresh'[u] = [refresh[u] EXCEPT !.secret = Aged(c, w, refresh[u].secret)]
      BY <1>3, <1>6
    <2>2. /\ refresh'[u].at = refresh[u].at /\ refresh'[u].says = refresh[u].says
          /\ refresh'[u].current = refresh[u].current
          /\ refresh'[u].secret = Aged(c, w, refresh[u].secret)
      BY <1>0, <2>1 DEF Refreshes
    <2> QED
      BY <1>0, <2>2, AgedFields
  <1>7. /\ refresh'[t].at = "answered" /\ refresh'[t].current = refresh[t].current
        /\ refresh'[t].says = says
        /\ refresh'[t].secret = IF says = "ok" THEN [sid |-> c.sid, age |-> 0] ELSE NoCookie
    <2>1. refresh'[t] = [refresh[t] EXCEPT !.at = "answered", !.says = says,
                !.secret = IF says = "ok" THEN [sid |-> c.sid, age |-> 0] ELSE NoCookie]
      BY <1>3
    <2> QED
      BY <1>0, <2>1 DEF Refreshes
  <1> QED
    BY <1>1, <1>2, <1>3, <1>4, <1>5, <1>6, <1>7 DEF c

LEMMA ServeRefreshStep ==
    ASSUME TypeOK, NEW t \in Tabs, ServeRefresh(t)
    PROVE  ServerStep
  <1>1. UNCHANGED <<store, login, hasLocks, lost>>
    BY DEF ServeRefresh
  <1>2. refresh[t].secret \in Secrets
    BY DEF TypeOK, Refreshes
  <1>3. sess' = RotateUserSessionRefresh(refresh[t].secret, refresh[t].want)
    BY DEF ServeRefresh
  <1>4. \A s \in Sids : \/ sess'[s].st = sess[s].st
                        \/ sess[s].st = "active" /\ sess'[s].st \in {"logout", "reuse"}
    BY <1>2, <1>3, RotateFields
  <1>5. ASSUME NEW u \in Tabs
        PROVE  /\ refresh'[u].secret.sid \in {refresh[u].secret.sid, NoSid}
               /\ Answered(refresh'[u]) /\ refresh'[u].current
                    => \/ /\ Answered(refresh[u]) /\ refresh[u].current
                          /\ refresh'[u].secret.sid = refresh[u].secret.sid
                       \/ Active(refresh'[u].secret.sid)
    <2>1. CASE u # t
      BY <2>1, ServeRefreshFields DEF Answered
    <2>2. CASE u = t
      <3>1. CASE refresh'[t].secret = [sid |-> refresh[t].secret.sid, age |-> 0]
        BY <2>2, <3>1, ServeRefreshFields, Constants DEF Answered
      <3>2. CASE refresh'[t].says # "ok" /\ refresh'[t].secret = NoCookie
        BY <2>2, <3>2, Constants DEF Answered
      <3> QED
        BY <3>1, <3>2, ServeRefreshFields
    <2> QED
      BY <2>1, <2>2
  <1> QED
    BY <1>1, <1>4, <1>5, ServeRefreshFields DEF ServerStep

LEMMA ServeOrphanStep ==
    ASSUME TypeOK, ServeOrphan
    PROVE  ServerStep
  <1>1. PICK c \in orphans :
           /\ sess' = RotateUserSessionRefresh(c, NoSid)
           /\ cookie' = Aged(c, NoSid, cookie)
           /\ orphans' = {Aged(c, NoSid, x) : x \in orphans \ {c}}
           /\ call' = [u \in Tabs |-> [call[u] EXCEPT !.secret = Aged(c, NoSid, @)]]
           /\ refresh' = [u \in Tabs |-> [refresh[u] EXCEPT !.secret = Aged(c, NoSid, @)]]
    BY DEF ServeOrphan
  <1>2. c \in Secrets /\ cookie \in Secrets /\ \A x \in orphans : x \in Secrets
    BY DEF TypeOK
  <1>3. \A s \in Sids : \/ sess'[s].st = sess[s].st
                        \/ sess[s].st = "active" /\ sess'[s].st \in {"logout", "reuse"}
    BY <1>1, <1>2, RotateFields
  <1>4. cookie'.sid = cookie.sid /\ \A x \in orphans' : \E y \in orphans : x.sid = y.sid
    BY <1>1, <1>2, AgedFields
  <1>5. ASSUME NEW u \in Tabs
        PROVE  /\ call'[u].secret.sid = call[u].secret.sid
               /\ refresh'[u].secret.sid = refresh[u].secret.sid
               /\ refresh'[u].at = refresh[u].at /\ refresh'[u].says = refresh[u].says
               /\ refresh'[u].current = refresh[u].current
    <2>1. /\ call[u] \in Calls /\ call[u].secret \in Secrets
          /\ refresh[u] \in Refreshes /\ refresh[u].secret \in Secrets
      BY DEF TypeOK, Refreshes, Calls
    <2>2. /\ call'[u] = [call[u] EXCEPT !.secret = Aged(c, NoSid, call[u].secret)]
          /\ refresh'[u] = [refresh[u] EXCEPT !.secret = Aged(c, NoSid, refresh[u].secret)]
      BY <1>1
    <2>3. call'[u].secret = Aged(c, NoSid, call[u].secret)
      BY <2>1, <2>2 DEF Calls
    <2>4. /\ refresh'[u].secret = Aged(c, NoSid, refresh[u].secret)
          /\ refresh'[u].at = refresh[u].at /\ refresh'[u].says = refresh[u].says
          /\ refresh'[u].current = refresh[u].current
      BY <2>1, <2>2 DEF Refreshes
    <2> QED
      BY <2>1, <2>3, <2>4, AgedFields
  <1>6. UNCHANGED <<store, login, hasLocks, lost>>
    BY DEF ServeOrphan
  <1> QED
    BY <1>3, <1>4, <1>5, <1>6 DEF ServerStep, Answered

(* A logout, the end of a replay window, a revocation: only sess and the   *)
(* answer of the logout change, and no session is marked as reused.        *)
EndingStep ==
    /\ UNCHANGED <<cookie, orphans, hasLocks, store, refresh, login, lost>>
    /\ \A s \in Sids : \/ sess'[s].st = sess[s].st
                       \/ sess[s].st = "active" /\ sess'[s].st = "logout"
    /\ \A u \in Tabs : call'[u].secret \in {call[u].secret, NoCookie}

LEMMA EndingSteps ==
    ASSUME TypeOK,
           \/ \E t \in Tabs : ServeLogout(t)
           \/ \E s \in Sids : GraceEnds(s) \/ RevokeElsewhere(s)
    PROVE  EndingStep
  <1>0. sess \in [Sids -> Sessions]
    BY DEF TypeOK
  <1>1. ASSUME NEW t \in Tabs, ServeLogout(t) PROVE EndingStep
    <2>1. \/ sess' = sess
          \/ \E x \in Sids : sess[x].st = "active" /\ sess' = [sess EXCEPT ![x].st = "logout"]
      BY <1>1 DEF ServeLogout, Active
    <2>2. \A s \in Sids : \/ sess'[s].st = sess[s].st
                          \/ sess[s].st = "active" /\ sess'[s].st = "logout"
      BY <1>0, <2>1 DEF Sessions
    <2>3. \E says \in {"mismatch", "cleared", "ok"} :
             call' = [call EXCEPT ![t].at = "answered", ![t].says = says,
                                  ![t].secret = NoCookie]
      BY <1>1 DEF ServeLogout
    <2>4. \A u \in Tabs : call'[u].secret \in {call[u].secret, NoCookie}
      BY <2>3 DEF TypeOK, Calls
    <2> QED
      BY <1>1, <2>2, <2>4 DEF ServeLogout, EndingStep
  <1>2. ASSUME NEW s \in Sids, GraceEnds(s) PROVE EndingStep
    <2>1. sess' = [sess EXCEPT ![s].grace = FALSE]
      BY <1>2 DEF GraceEnds
    <2>2. \A x \in Sids : sess'[x].st = sess[x].st
      BY <1>0, <2>1 DEF Sessions
    <2> QED
      BY <1>2, <2>2 DEF GraceEnds, EndingStep, tabVars
  <1>3. ASSUME NEW s \in Sids, RevokeElsewhere(s) PROVE EndingStep
    <2>1. sess' = [sess EXCEPT ![s].st = "logout"] /\ sess[s].st = "active"
      BY <1>3 DEF RevokeElsewhere, Active
    <2>2. \A x \in Sids : \/ sess'[x].st = sess[x].st
                          \/ sess[x].st = "active" /\ sess'[x].st = "logout"
      BY <1>0, <2>1 DEF Sessions
    <2> QED
      BY <1>3, <2>2 DEF RevokeElsewhere, EndingStep, tabVars
  <1> QED
    BY <1>1, <1>2, <1>3

LEMMA EndingIsServer ==
    ASSUME TypeOK, EndingStep
    PROVE  ServerStep
  BY Constants DEF EndingStep, ServerStep

-----------------------------------------------------------------------------
(* A step of the server keeps the invariant.                               *)

LEMMA ServerLogin ==
    ASSUME TypeOK, LoginInv, Remember, ServerStep
    PROVE  LoginInv'
  <1>1. ASSUME NEW s \in Sids, Unseen(s) PROVE Unseen(s)'
    <2>1. s # NoSid
      BY Constants
    <2>2. cookie'.sid # s /\ \A x \in orphans' : x.sid # s
      BY <1>1 DEF ServerStep, Unseen
    <2>3. ASSUME NEW u \in Tabs
          PROVE  /\ store'[u].sid # s /\ s \notin ended'[u]
                 /\ refresh'[u].secret.sid # s /\ call'[u].secret.sid # s
      BY <1>1, <2>1, RememberFields DEF ServerStep, Unseen
    <2> QED
      BY <2>2, <2>3 DEF Unseen
  <1>2. \A s \in Sids : sess'[s].st = "none" <=> sess[s].st = "none"
    BY DEF ServerStep
  <1>3. login' = login
    BY DEF ServerStep
  <1>4. \A u \in Tabs : login[u] # NoSid => login[u] \in Sids
    BY DEF TypeOK
  <1>5. \A s \in Sids, u \in Tabs : login[u] = s => Unseen(s) /\ sess[s].st # "none"
    BY Constants DEF LoginInv, Unseen
  <1> QED
    BY <1>1, <1>2, <1>3, <1>4, <1>5 DEF LoginInv, Unseen

LEMMA ServerEnded ==
    ASSUME TypeOK, EndedInv, Remember, ServerStep
    PROVE  EndedInv'
  <1>1. \A u \in Tabs : ended'[u] = ended[u] /\ ended[u] \subseteq Sids
    BY DEF ServerStep, Remember, TypeOK
  <1>2. \A s \in Sids : Revoked(s) => Revoked(s)'
    BY DEF ServerStep, Revoked
  <1>3. ASSUME NEW u \in Tabs, Answered(refresh'[u]), refresh'[u].current
        PROVE  refresh'[u].secret.sid \notin ended[u]
    <2>1. CASE /\ Answered(refresh[u]) /\ refresh[u].current
               /\ refresh'[u].secret.sid = refresh[u].secret.sid
      BY <2>1 DEF EndedInv, Answered
    <2>2. CASE Active(refresh'[u].secret.sid)
      BY <2>2 DEF EndedInv, Active, Revoked
    <2> QED
      BY <1>3, <2>1, <2>2 DEF ServerStep
  <1> QED
    BY <1>1, <1>2, <1>3 DEF EndedInv, ServerStep, Answered

LEMMA EndingSync ==
    ASSUME TypeOK, SyncInv, EndingStep
    PROVE  SyncInv'
  BY DEF EndingStep, SyncInv, LockInv, InStep, Running

LEMMA OrphanSync ==
    ASSUME TypeOK, SyncInv, ServeOrphan
    PROVE  SyncInv'
  <1>1. lost /\ lost' = lost /\ hasLocks' = hasLocks
    BY DEF ServeOrphan, SyncInv, InStep
  <1>2. \A u \in Tabs : refresh'[u].at = refresh[u].at
    BY DEF ServeOrphan, TypeOK, Refreshes
  <1> QED
    BY <1>1, <1>2 DEF SyncInv, LockInv, Running

LEMMA ServeRefreshSync ==
    ASSUME TypeOK, TypeOK', SyncInv, NEW t \in Tabs, ServeRefresh(t)
    PROVE  SyncInv'
  <1>0. UNCHANGED <<hasLocks, lost>> /\ refresh[t].at = "sent"
    BY DEF ServeRefresh
  <1>1. \A u \in Tabs : Running(u)' <=> Running(u)
    BY <1>0, ServeRefreshFields DEF Running
  <1>2. LockInv'
    BY <1>0, <1>1 DEF SyncInv, LockInv
  <1>3. ASSUME ~lost PROVE InStep'
    <2>1. orphans' = {}
      BY <1>3, ServeRefreshFields DEF SyncInv, InStep
    <2>2. ASSUME hasLocks
          PROVE  /\ refresh[t].secret.age = 0 /\ cookie.age = 0
                 /\ \A u \in Tabs : Running(u) => u = t
      BY <1>0, <1>3, <2>2 DEF SyncInv, LockInv, InStep, Running
    <2>3. ASSUME hasLocks, NEW s \in Sids PROVE sess'[s].st # "reuse"
      <3>1. refresh[t].secret \in Secrets
        BY DEF TypeOK, Refreshes
      <3>2. sess' = RotateUserSessionRefresh(refresh[t].secret, refresh[t].want)
        BY DEF ServeRefresh
      <3>3. sess'[s].st = sess[s].st
        BY <2>2, <2>3, <3>1, <3>2, RotateFields
      <3> QED
        BY <1>3, <2>3, <3>3 DEF SyncInv, InStep
    <2>4. ASSUME hasLocks, NEW u \in Tabs, Running(u)' PROVE refresh'[u].secret.age = 0
      <3>1. u = t
        BY <1>1, <2>2, <2>4
      <3>2. \/ refresh'[t].secret = [sid |-> refresh[t].secret.sid, age |-> 0]
            \/ refresh'[t].secret = NoCookie
        BY ServeRefreshFields
      <3>3. refresh'[t].secret.age = 0
        BY <3>2, Constants
      <3> QED
        BY <3>1, <3>3
    <2>5. ASSUME hasLocks, cookie'.age # 0 PROVE Answered(refresh'[t])
      BY <2>2, <2>5, ServeRefreshFields DEF Answered
    <2> QED
      BY <1>0, <2>1, <2>3, <2>4, <2>5 DEF InStep, Answered
  <1> QED
    BY <1>0, <1>2, <1>3 DEF SyncInv

(* A login gives the tab a session nobody has seen. *)
LEMMA ServeLoginInv ==
    ASSUME TypeOK, LoginInv, EndedInv, SyncInv, Remember, NEW t \in Tabs, ServeLogin(t)
    PROVE  LoginInv' /\ EndedInv' /\ SyncInv'
  <1>0. UNCHANGED <<cookie, orphans, hasLocks, store, refresh, call, lost>> /\ login[t] = NoSid
    BY DEF ServeLogin
  <1>1. PICK s \in Sids : /\ sess[s].st = "none" /\ sess' = [sess EXCEPT ![s].st = "active"]
                          /\ login' = [login EXCEPT ![t] = s]
    BY DEF ServeLogin
  <1>2. \A x \in Sids : sess'[x].st = IF x = s THEN "active" ELSE sess[x].st
    BY <1>1 DEF TypeOK, Sessions
  <1>3. \A u \in Tabs : login'[u] = IF u = t THEN s ELSE login[u]
    BY <1>1 DEF TypeOK
  <1>4. ended' = ended
    <2>1. \A u \in Tabs : ended'[u] = ended[u]
      BY <1>0 DEF Remember, TypeOK
    <2> QED
      BY <2>1, RememberType DEF TypeOK
  <1>5. \A x \in Sids : Unseen(x) => Unseen(x)'
    BY <1>0, <1>4 DEF Unseen
  <1>6. \A u \in Tabs : login[u] # s /\ (login[u] # NoSid => login[u] \in Sids)
    BY <1>1, Constants DEF LoginInv, TypeOK
  <1>7. \A x \in Sids, u \in Tabs : login[u] = x => Unseen(x) /\ sess[x].st # "none"
    BY Constants DEF LoginInv, Unseen
  <1>8. LoginInv'
    <2>1. \A x \in Sids : sess'[x].st = "none" => Unseen(x)'
      BY <1>2, <1>5 DEF LoginInv
    <2>2. \A x \in Sids, u \in Tabs : login'[u] = x => Unseen(x)' /\ sess'[x].st # "none"
      BY <1>1, <1>2, <1>3, <1>5, <1>7 DEF LoginInv
    <2>3. \A u, v \in Tabs : login'[u] = login'[v] /\ login'[u] # NoSid => u = v
      BY <1>3, <1>6 DEF LoginInv
    <2>4. \A u \in Tabs : login'[u] # NoSid => login'[u] \in Sids
      BY <1>3, <1>6
    <2> QED
      BY <2>1, <2>2, <2>3, <2>4 DEF LoginInv, Unseen
  <1>9. EndedInv'
    <2>1. \A x \in Sids : Revoked(x) => Revoked(x)'
      BY <1>1, <1>2 DEF Revoked
    <2>2. \A u \in Tabs : ended[u] \subseteq Sids
      BY DEF TypeOK
    <2> QED
      BY <1>0, <1>4, <2>1, <2>2 DEF EndedInv
  <1>10. SyncInv'
    BY <1>0, <1>2 DEF SyncInv, LockInv, InStep, Running
  <1> QED
    BY <1>8, <1>9, <1>10
-----------------------------------------------------------------------------
(* The invariant and the theorems.                                         *)

LEMMA IndInit == Init => IndInv
  <1> SUFFICES ASSUME Init PROVE LoginInv /\ EndedInv /\ SyncInv
    BY TypeInit DEF IndInv
  <1>1. /\ cookie = NoCookie /\ orphans = {}
        /\ \A t \in Tabs : /\ store[t].sid = NoSid /\ refresh[t] = NoRefresh /\ call[t] = NoCall
                           /\ login[t] = NoSid /\ ended[t] = {}
        /\ \A s \in Sids : sess[s].st = "none"
    BY DEF Init, Anonymous
  <1>2. \A s \in Sids : Unseen(s)
    BY <1>1, Constants DEF Unseen, NoRefresh, NoCall
  <1>3. LoginInv
    BY <1>1, <1>2 DEF LoginInv
  <1>4. EndedInv
    BY <1>1 DEF EndedInv, NoRefresh
  <1>5. SyncInv
    BY <1>1, Constants DEF SyncInv, LockInv, InStep, Running, NoRefresh
  <1> QED
    BY <1>3, <1>4, <1>5

LEMMA IndStep == IndInv /\ [Next]_vars => IndInv'
  <1> SUFFICES ASSUME IndInv, [Next]_vars PROVE IndInv'
    OBVIOUS
  <1>0. TypeOK /\ LoginInv /\ EndedInv /\ SyncInv /\ TypeOK'
    BY TypeStep DEF IndInv
  <1>1. CASE UNCHANGED vars
    BY <1>0, <1>1 DEF vars, IndInv, LoginInv, Unseen, EndedInv, Revoked, SyncInv, LockInv, InStep,
       Running
  <1>2. CASE Remember
    <2>1. ASSUME NEW t \in Tabs, TabStep(t) PROVE IndInv'
      BY <1>0, <1>2, <2>1, TabLogin, TabEnded, TabSync DEF IndInv
    <2>2. ASSUME EndingStep PROVE IndInv'
      BY <1>0, <1>2, <2>2, EndingIsServer, ServerLogin, ServerEnded, EndingSync DEF IndInv
    <2>3. ASSUME NEW t \in Tabs, ServeRefresh(t) PROVE IndInv'
      BY <1>0, <1>2, <2>3, ServeRefreshStep, ServerLogin, ServerEnded, ServeRefreshSync DEF IndInv
    <2>4. CASE ServeOrphan
      BY <1>0, <1>2, <2>4, ServeOrphanStep, ServerLogin, ServerEnded, OrphanSync DEF IndInv
    <2>5. ASSUME NEW t \in Tabs, ServeLogin(t) PROVE IndInv'
      BY <1>0, <1>2, <2>5, ServeLoginInv DEF IndInv
    <2>6. ASSUME NEW t \in Tabs, Server(t) PROVE IndInv'
      BY <1>0, <2>2, <2>3, <2>6, EndingSteps DEF Server
    <2>7. ASSUME NEW t \in Tabs, Client(t) PROVE IndInv'
      BY <1>0, <2>1, <2>7, LoadStep, GrantLockStep, ReceiveRefreshStep, SettleRefreshStep,
         ReceiveDeniedStep, ReceiveLogoutStep, ReceiveLoginStep, ReceiveEventStep DEF Client
    <2>8. ASSUME NEW t \in Tabs, Panel(t) PROVE IndInv'
      BY <1>0, <2>1, <2>8, OtherTabSteps DEF Panel
    <2>9. ASSUME Others PROVE IndInv'
      <3>1. ASSUME NEW t \in Tabs,
                   \/ Navigate(t) \/ Logout(t) \/ FailRefresh(t) \/ FailLogout(t)
                   \/ FailLogin(t) \/ Expire(t) \/ Reload(t)
            PROVE  IndInv'
        BY <1>0, <2>1, <3>1, LoadStep, FailRefreshStep, OtherTabSteps
      <3>2. ASSUME NEW s \in Sids, GraceEnds(s) \/ RevokeElsewhere(s) PROVE IndInv'
        BY <1>0, <2>2, <3>2, EndingSteps
      <3> QED
        BY <2>4, <2>5, <2>9, <3>1, <3>2 DEF Others
    <2> QED
      BY <1>1, <2>6, <2>7, <2>8, <2>9 DEF Next
  <1> QED
    BY <1>1, <1>2 DEF Next, Server, Client, Panel, Others

(* The inductive invariant holds in every reachable state, for any number  *)
(* of tabs, logins, lost answers and reloads.                              *)
THEOREM IndCorrect == Spec => []IndInv
  BY IndInit, IndStep, PTL DEF Spec

(* A tab never shows again a session it gave up after its revocation, for  *)
(* any number of tabs, logins, lost answers and reloads: no answer of a    *)
(* refresh that the runner's isSuperseded check lets through, and no       *)
(* event, brings the session back.                                         *)
THEOREM NoResurrectionCorrect == Spec => []NoResurrection
  <1>1. IndInv => NoResurrection
    BY DEF IndInv, EndedInv, NoResurrection
  <1> QED
    BY <1>1, IndCorrect, PTL

(* With navigator.locks and no lost answer, RotateUserSessionRefresh never *)
(* revokes a session with refresh_reuse, however many tabs refresh, reload *)
(* and sign in and out.                                                    *)
THEOREM NoReuseRevocationCorrect == Spec => []NoReuseRevocation
  <1>1. IndInv => NoReuseRevocation
    BY DEF IndInv, SyncInv, InStep, NoReuseRevocation
  <1> QED
    BY <1>1, IndCorrect, PTL

(* Under the same conditions the cookie holds the current secret whenever  *)
(* no tab is inside its run of the refresh.                                *)
THEOREM CookieCurrentCorrect == Spec => []CookieCurrent
  <1>1. IndInv => CookieCurrent
    BY DEF IndInv, SyncInv, InStep, CookieCurrent
  <1> QED
    BY <1>1, IndCorrect, PTL
=============================================================================
