------------------------------ MODULE AuthTabs ------------------------------
(***************************************************************************)
(* The login session of one browser: its tabs, the refresh cookie they     *)
(* share, and the two server endpoints that rotate and revoke it.          *)
(*                                                                         *)
(*   web/src/lib/auth-session.ts       refresh runner, epoch, browser lock *)
(*   web/src/lib/auth-session-sync.ts  events between tabs                 *)
(*   web/src/lib/http-client.ts        the retry of a call answered 401    *)
(*   web/src/features/auth/api.ts      logout and its mismatch recovery    *)
(*   web/src/routes/__root.tsx         bootstrap and event listeners       *)
(*   controller/auth_session.go, service/auth_session.go,                  *)
(*   model/user_session.go             refresh, rotation, logout           *)
(*                                                                         *)
(* A refresh secret is [sid, age]: age 0 is the current secret of the      *)
(* session, 1 the previous one, 2 any earlier one.  A rotation makes every *)
(* secret of the session one older, wherever it is.                        *)
(*                                                                         *)
(* authEpoch only grows and is only compared with the value captured at    *)
(* the start of a refresh, so a refresh carries current: has no            *)
(* authentication operation of the tab come after it?                      *)
(***************************************************************************)
EXTENDS Naturals, Sequences

CONSTANTS
    Tabs,         \* the tabs of one browser profile
    Callers,      \* the tabs that make calls of the panel
    Signers,      \* the tabs the user signs in and out in
    MaxLogins,    \* the number of logins
    LockSupport,  \* the values navigator.locks may have: present or not
    MaxUpsets     \* the number of events from outside: see Upset

ASSUME ConstantsAssumption ==
    /\ Callers \subseteq Tabs /\ Signers \subseteq Tabs
    /\ MaxLogins \in Nat
    /\ LockSupport \subseteq BOOLEAN
    /\ MaxUpsets \in Nat

Sids == 1..MaxLogins
NoSid == 0

VARIABLES
    sess,     \* user_sessions: status, and whether previous_valid_until is ahead
    cookie,   \* the HttpOnly refresh cookie, one per browser
    orphans,  \* refresh requests under way whose page is gone
    hasLocks, \* navigator.locks
    store,    \* useAuthStore of every tab
    page,     \* is the tab opened, in its first beforeLoad, or rendered?
    refresh,  \* refreshPromise of every tab and the run behind it
    call,     \* the api call or the logout of a tab
    login,    \* the session a login under way has created
    inbox,    \* events of the other tabs not yet handled
    upsets,   \* events from outside so far
    lost,     \* has the answer of a refresh been lost?
    ended     \* the sessions a tab gave up after they had been revoked

serverVars == <<sess, orphans>>
tabVars == <<store, page, refresh, call, login, inbox>>
vars == <<sess, cookie, orphans, hasLocks, store, page, refresh, call, login,
          inbox, upsets, lost, ended>>

NoCookie == [sid |-> NoSid, age |-> 0]
NoRefresh == [at |-> "none", current |-> TRUE, want |-> NoSid,
              secret |-> NoCookie, says |-> "none"]
NoCall == [kind |-> "none", at |-> "none", sid |-> NoSid, fresh |-> FALSE,
           secret |-> NoCookie, says |-> "none", again |-> FALSE]
Anonymous(boot) == [sid |-> NoSid, fresh |-> FALSE, boot |-> boot]

Secrets == [sid : Sids \cup {NoSid}, age : 0..2]
Sessions == [st : {"none", "active", "logout", "reuse"}, grace : BOOLEAN]
Stores == [sid : Sids \cup {NoSid}, fresh : BOOLEAN,
           boot : {"idle", "checking", "complete"}]
Refreshes == [at : {"none", "queued", "sent", "answered", "settled"},
              current : BOOLEAN, want : Sids \cup {NoSid}, secret : Secrets,
              says : {"none", "ok", "mismatch", "unauthorized", "transient",
                      "refused", "authenticated", "anonymous", "out_of_sync"}]
Calls == [kind : {"none", "api", "logout"},
          at : {"none", "sent", "answered", "waiting"},
          sid : Sids \cup {NoSid}, fresh : BOOLEAN, secret : Secrets,
          says : {"none", "denied", "ok", "cleared", "mismatch", "failed"},
          again : BOOLEAN]
Events == [kind : {"authenticated", "signed_out"}, sid : Sids]

(* The type of the state. *)
TypeOK ==
    /\ sess \in [Sids -> Sessions]
    /\ cookie \in Secrets
    /\ orphans \subseteq Secrets
    /\ hasLocks \in BOOLEAN
    /\ store \in [Tabs -> Stores]
    /\ page \in [Tabs -> {"new", "loading", "ready"}]
    /\ refresh \in [Tabs -> Refreshes]
    /\ call \in [Tabs -> Calls]
    /\ login \in [Tabs -> Sids \cup {NoSid}]
    /\ inbox \in [Tabs -> Seq(Events)]
    /\ upsets \in 0..MaxUpsets
    /\ lost \in BOOLEAN
    /\ ended \in [Tabs -> SUBSET Sids]

Init ==
    /\ sess = [s \in Sids |-> [st |-> "none", grace |-> FALSE]]
    /\ cookie = NoCookie
    /\ orphans = {}
    /\ hasLocks \in LockSupport
    /\ store = [t \in Tabs |-> Anonymous("idle")]
    /\ page = [t \in Tabs |-> "new"]
    /\ refresh = [t \in Tabs |-> NoRefresh]
    /\ call = [t \in Tabs |-> NoCall]
    /\ login = [t \in Tabs |-> NoSid]
    /\ inbox = [t \in Tabs |-> <<>>]
    /\ upsets = 0
    /\ lost = FALSE
    /\ ended = [t \in Tabs |-> {}]

Active(s) == s \in Sids /\ sess[s].st = "active"
Revoked(s) == s \in Sids /\ sess[s].st \in {"logout", "reuse"}

(* A lost or refused request, a token that expires, a tab loaded again, a  *)
(* session revoked from elsewhere: MaxUpsets bounds them together.         *)
Upset == upsets < MaxUpsets /\ upsets' = upsets + 1

-----------------------------------------------------------------------------
(* Pieces of a tab.                                                        *)

(* Mutant: the operation does not advance authEpoch. *)
EpochKept(r) == r

(* authEpoch += 1, seen from the refresh under way. *)
Superseded(r) ==
    IF r.at \in {"queued", "sent", "answered"}
    THEN [r EXCEPT !.current = FALSE] ELSE r

(* publishAuthSessionEvent: BroadcastChannel reaches the tabs that have    *)
(* rendered the root route, which subscribes; never the sender.            *)
publishAuthSessionEvent(t, kind, s) ==
    inbox' = [u \in Tabs |->
        IF u # t /\ page[u] = "ready"
        THEN Append(inbox[u], [kind |-> kind, sid |-> s]) ELSE inbox[u]]

(* Mutant: a tab without a session announces its end too. *)
ClearAnnounced(t, synchronizeTabs) ==
    /\ store' = [store EXCEPT ![t] = Anonymous("complete")]
    /\ IF synchronizeTabs
       THEN publishAuthSessionEvent(t, "signed_out", store[t].sid)
       ELSE UNCHANGED inbox

(* clearAuthentication: the new store and the event. *)
clearAuthentication(t, synchronizeTabs) ==
    /\ store' = [store EXCEPT ![t] = Anonymous("complete")]
    /\ IF synchronizeTabs /\ store[t].sid # NoSid
       THEN publishAuthSessionEvent(t, "signed_out", store[t].sid)
       ELSE UNCHANGED inbox

(* The tab loads a page: all the state of the old one is gone, requests    *)
(* that it had sent may still reach the server.                            *)
NewPage(t) ==
    /\ store' = [store EXCEPT ![t] = Anonymous("idle")]
    /\ page' = [page EXCEPT ![t] = "new"]
    /\ refresh' = [refresh EXCEPT ![t] = NoRefresh]
    /\ call' = [call EXCEPT ![t] = NoCall]
    /\ login' = [login EXCEPT ![t] = NoSid]
    /\ inbox' = [inbox EXCEPT ![t] = <<>>]
    /\ lost' = (lost \/ refresh[t].at \in {"sent", "answered"})
    /\ \/ UNCHANGED orphans
       \/ /\ refresh[t].at = "sent" /\ Active(refresh[t].secret.sid)
          /\ orphans' = orphans \cup {refresh[t].secret}

(* A request of the runner: the session it expects and the cookie. *)
requestRefresh(r, s, c) ==
    [r EXCEPT !.at = "sent", !.want = s, !.secret = c, !.says = "none"]

(* The refresh a caller gets: the one under way, or a new one that waits   *)
(* for the browser lock where there is one.                                *)
refreshAuthentication(t) ==
    IF refresh[t].at # "none" THEN refresh[t]
    ELSE IF hasLocks THEN [NoRefresh EXCEPT !.at = "queued"]
    ELSE requestRefresh(NoRefresh, store[t].sid, cookie)

(* Mutant: the refreshes of the tabs are not serialized. *)
NoLock == TRUE

(* Mutant: the run asks again for the lock it waits for. *)
NestedLock == \A t \in Tabs : refresh[t].at \notin {"queued", "sent", "answered"}

(* navigator.locks: no tab is between the start and the end of its run. *)
LockFree == \A t \in Tabs : refresh[t].at \notin {"sent", "answered"}

-----------------------------------------------------------------------------
(* The server: RefreshAuth.                                                *)

(* Mutant: a revoked session is an internal error. *)
RevokedIsInternal(c, want) ==
    CASE c.sid = NoSid -> "unauthorized"
      [] c.sid # NoSid /\ want \notin {NoSid, c.sid} -> "mismatch"
      [] OTHER -> IF Active(c.sid) /\ (c.age = 0 \/ (c.age = 1 /\ sess[c.sid].grace))
                  THEN "ok" ELSE "transient"

(* The answer to the secret c when the client expects session want: 401 if *)
(* there is no cookie, the session is over or the secret is not known, 409 *)
(* if the cookie is of another session.  Within the replay window the      *)
(* previous secret is answered with the current one, which is derived from *)
(* it.  The cached check of the session and the rotation are one decision  *)
(* here: a revocation between the two is a 500 in the code (a refresh that *)
(* fails, which the next one finds unauthorized), and an error of the      *)
(* lookup is answered 401 as if the session were over, which is left out.  *)
RefreshLoginSession(c, want) ==
    CASE c.sid = NoSid -> "unauthorized"
      [] c.sid # NoSid /\ want \notin {NoSid, c.sid} -> "mismatch"
      [] OTHER -> IF Active(c.sid) /\ (c.age = 0 \/ (c.age = 1 /\ sess[c.sid].grace))
                  THEN "ok" ELSE "unauthorized"

(* RotateUserSessionRefresh: the current secret is replaced by its         *)
(* successor, the previous one outside its window revokes the session.     *)
Rotates(c, want) == RefreshLoginSession(c, want) = "ok" /\ c.age = 0

RotateUserSessionRefresh(c, want) ==
    CASE Rotates(c, want) -> [sess EXCEPT ![c.sid].grace = TRUE]
      [] /\ RefreshLoginSession(c, want) = "unauthorized"
         /\ Active(c.sid) /\ c.age = 1 -> [sess EXCEPT ![c.sid].st = "reuse"]
      [] OTHER -> sess

(* A secret x after the rotation: one older if it is of that session. *)
Aged(c, want, x) ==
    IF Rotates(c, want) /\ x.sid = c.sid
    THEN [x EXCEPT !.age = IF x.age = 2 THEN 2 ELSE x.age + 1] ELSE x

ServeRefresh(t) ==
    /\ refresh[t].at = "sent"
    /\ LET c == refresh[t].secret
           w == refresh[t].want
           says == RefreshLoginSession(c, w)
       IN  /\ sess' = RotateUserSessionRefresh(c, w)
           /\ cookie' = Aged(c, w, cookie)
           /\ orphans' = {Aged(c, w, x) : x \in orphans}
           /\ call' = [u \in Tabs |-> [call[u] EXCEPT !.secret = Aged(c, w, @)]]
           /\ refresh' = [u \in Tabs |->
                 IF u # t THEN [refresh[u] EXCEPT !.secret = Aged(c, w, @)]
                 ELSE [refresh[u] EXCEPT !.at = "answered", !.says = says,
                         !.secret = IF says = "ok" THEN [sid |-> c.sid, age |-> 0]
                                    ELSE NoCookie]]
    /\ UNCHANGED <<hasLocks, store, page, login, inbox, upsets, lost>>

(* A request whose page is gone: its answer reaches nobody. *)
ServeOrphan ==
    /\ \E c \in orphans :
         /\ sess' = RotateUserSessionRefresh(c, NoSid)
         /\ cookie' = Aged(c, NoSid, cookie)
         /\ orphans' = {Aged(c, NoSid, x) : x \in orphans \ {c}}
         /\ call' = [u \in Tabs |-> [call[u] EXCEPT !.secret = Aged(c, NoSid, @)]]
         /\ refresh' = [u \in Tabs |-> [refresh[u] EXCEPT !.secret = Aged(c, NoSid, @)]]
    /\ UNCHANGED <<hasLocks, store, page, login, inbox, upsets, lost>>

(* A refresh is refused on its way (429, 5xx, or a status the client does  *)
(* not know), or its answer is lost.                                       *)
FailRefresh(t) ==
    /\ refresh[t].at \in {"sent", "answered"}
    /\ refresh[t].says \notin {"transient", "refused"}
    /\ Upset
    /\ \E says \in {"transient", "refused"} :
         /\ says = "refused" => refresh[t].at = "sent"
         /\ refresh' = [refresh EXCEPT ![t].at = "answered", ![t].says = says,
                                       ![t].secret = NoCookie]
    /\ lost' = (lost \/ refresh[t].at = "answered")
    /\ UNCHANGED <<serverVars, cookie, hasLocks, store, page, call, login, inbox>>

(* AuthLogout.  A valid bearer revokes its session, and the cookie goes    *)
(* only if it is of that session; without one the cookie is revoked if its *)
(* secret is known, and cleared in any case.                               *)
ServeLogout(t) ==
    /\ call[t].kind = "logout" /\ call[t].at = "sent"
    /\ LET c == call[t].secret
           s == call[t].sid
           Answer(says) == call' = [call EXCEPT ![t].at = "answered", ![t].says = says,
                                                ![t].secret = NoCookie]
           Revoke(x) == sess' = IF Active(x) THEN [sess EXCEPT ![x].st = "logout"] ELSE sess
       IN  \/ /\ s # NoSid /\ c.sid \notin {NoSid, s}
              /\ Answer("mismatch")
              /\ UNCHANGED sess
           \/ /\ s # NoSid /\ c.sid \in {NoSid, s} /\ call[t].fresh
              /\ Answer(IF c.sid = s THEN "cleared" ELSE "ok")
              /\ Revoke(s)
           \/ /\ s = NoSid \/ ~call[t].fresh
              /\ c.sid = NoSid
              /\ Answer("cleared")
              /\ UNCHANGED sess
           \/ /\ s = NoSid \/ ~call[t].fresh
              /\ c.sid # NoSid /\ s \in {NoSid, c.sid}
              /\ Answer("cleared")
              /\ IF RefreshLoginSession(c, NoSid) = "ok" THEN Revoke(c.sid)
                 ELSE UNCHANGED sess
    /\ UNCHANGED <<cookie, orphans, hasLocks, store, page, refresh, login, inbox,
                   upsets, lost>>

FailLogout(t) ==
    /\ call[t].kind = "logout" /\ call[t].at \in {"sent", "answered"}
    /\ call[t].says # "failed"
    /\ Upset
    /\ call' = [call EXCEPT ![t].at = "answered", ![t].says = "failed",
                            ![t].secret = NoCookie]
    /\ UNCHANGED <<serverVars, cookie, hasLocks, store, page, refresh, login, inbox,
                   lost>>

(* previous_valid_until passes.  Requests and answers travel in less than  *)
(* RefreshReplayWindow.                                                    *)
GraceEnds(s) ==
    /\ sess[s].grace
    /\ LET prev == [sid |-> s, age |-> 1]
       IN  prev \notin orphans /\ \A t \in Tabs : prev \notin {refresh[t].secret, call[t].secret}
    /\ sess' = [sess EXCEPT ![s].grace = FALSE]
    /\ UNCHANGED <<cookie, orphans, hasLocks, tabVars, upsets, lost>>

(* Another device, or a change of the password, revokes the session. *)
RevokeElsewhere(s) ==
    /\ Active(s)
    /\ Upset
    /\ sess' = [sess EXCEPT ![s].st = "logout"]
    /\ UNCHANGED <<cookie, orphans, hasLocks, tabVars, lost>>

-----------------------------------------------------------------------------
(* The tab: its refresh.                                                   *)

(* The root route's first beforeLoad. *)
Load(t) ==
    /\ page[t] = "new"
    /\ page' = [page EXCEPT ![t] = "loading"]
    /\ store' = [store EXCEPT ![t].boot = "checking"]
    /\ refresh' = [refresh EXCEPT ![t] = refreshAuthentication(t)]
    /\ UNCHANGED <<serverVars, cookie, hasLocks, call, login, inbox, upsets, lost>>

(* A later navigation: bootstrapAuthentication does nothing for a tab that *)
(* knows it is anonymous.                                                  *)
Navigate(t) ==
    /\ page[t] = "ready"
    /\ \/ /\ store[t].sid # NoSid /\ store[t].fresh
          /\ store' = [store EXCEPT ![t].boot = "complete"]
          /\ UNCHANGED refresh
       \/ /\ ~(store[t].sid # NoSid /\ store[t].fresh)
          /\ store[t].boot # "complete" \/ store[t].sid # NoSid
          /\ store' = [store EXCEPT ![t].boot = "checking"]
          /\ refresh' = [refresh EXCEPT ![t] = refreshAuthentication(t)]
    /\ UNCHANGED <<serverVars, cookie, hasLocks, page, call, login, inbox, upsets, lost>>

Settled(outcome) == [NoRefresh EXCEPT !.at = "settled", !.says = outcome]

(* The lock is granted and the runner starts, unless it is superseded. *)
GrantLock(t) ==
    /\ refresh[t].at = "queued"
    /\ LockFree
    /\ refresh' = [refresh EXCEPT ![t] =
          IF @.current THEN requestRefresh(@, store[t].sid, cookie)
          ELSE IF call[t].at = "waiting" THEN Settled("transient") ELSE NoRefresh]
    /\ UNCHANGED <<serverVars, cookie, hasLocks, store, page, call, login, inbox,
                   upsets, lost>>

(* The session that a request repeated after a mismatch expects: the store *)
(* has been reset.                                                         *)
RetrySID(t) == NoSid

(* The runner after its request.  The browser takes the cookie of every    *)
(* answer, the store only that of a current refresh.                       *)
ReceiveRefresh(t) ==
    /\ refresh[t].at = "answered"
    /\ LET r == refresh[t]
           End(outcome) ==
               /\ refresh' = [refresh EXCEPT ![t] =
                     IF call[t].at = "waiting" THEN Settled(outcome) ELSE NoRefresh]
               /\ page' = [page EXCEPT ![t] = "ready"]
       IN  /\ cookie' = IF r.says \in {"ok", "unauthorized"} THEN r.secret ELSE cookie
           /\ \/ /\ ~r.current
                 /\ End("transient")
                 /\ UNCHANGED <<store, inbox>>
              \/ /\ r.current /\ r.says = "ok"
                 /\ store' = [store EXCEPT ![t] =
                       [sid |-> r.secret.sid, fresh |-> TRUE, boot |-> "complete"]]
                 /\ End("authenticated")
                 /\ UNCHANGED inbox
              \/ /\ r.current /\ r.says = "mismatch"
                 /\ store' = [store EXCEPT ![t] = Anonymous("idle")]
                 /\ refresh' = [refresh EXCEPT ![t] = requestRefresh(@, RetrySID(t), cookie)]
                 /\ UNCHANGED <<inbox, page>>
              \/ /\ r.current /\ r.says = "unauthorized"
                 /\ clearAuthentication(t, TRUE)
                 /\ End("anonymous")
              \/ /\ r.current /\ r.says = "transient"
                 /\ store' = [store EXCEPT ![t].boot = "idle"]
                 /\ End("transient")
                 /\ UNCHANGED inbox
              \/ /\ r.current /\ r.says = "refused"
                 /\ clearAuthentication(t, FALSE)
                 /\ End("out_of_sync")
    /\ UNCHANGED <<serverVars, hasLocks, call, login, upsets, lost>>

(* A call with the token of the store.  The server accepts a live token of *)
(* an active session, which changes nothing here; it denies any other.     *)
Accepted(t) == Active(store[t].sid) /\ store[t].fresh

Denied(again) == [NoCall EXCEPT !.kind = "api", !.at = "answered",
                                !.says = "denied", !.again = again]

SendLogout(t, again) ==
    [NoCall EXCEPT !.kind = "logout", !.at = "sent", !.sid = store[t].sid,
                   !.fresh = store[t].fresh, !.secret = cookie, !.again = again]

(* The promise settles: the page renders, and the call that waited for the *)
(* refresh goes on.                                                        *)
SettleRefresh(t) ==
    /\ refresh[t].at = "settled"
    /\ LET waiting(kind) == call[t].kind = kind /\ call[t].at = "waiting"
           outcome == refresh[t].says
           Done == /\ refresh' = [refresh EXCEPT ![t] = NoRefresh]
                   /\ UNCHANGED <<orphans, login, lost, page>>
       IN  \/ /\ outcome = "authenticated"
              /\ call' = [call EXCEPT ![t] =
                    IF call[t].kind = "logout" THEN SendLogout(t, TRUE)
                    ELSE IF Accepted(t) THEN NoCall ELSE Denied(TRUE)]
              /\ Done
              /\ UNCHANGED <<store, inbox>>
           \/ /\ waiting("api") /\ outcome \in {"anonymous", "out_of_sync"}
              /\ NewPage(t)                    \* redirectToSignIn
           \/ /\ waiting("api") /\ outcome # "authenticated"
              /\ store[t].sid = NoSid \/ outcome = "transient"
              /\ call' = [call EXCEPT ![t] = NoCall]
              /\ Done
              /\ UNCHANGED <<store, inbox>>
           \/ /\ waiting("logout") /\ outcome = "anonymous"
              /\ clearAuthentication(t, TRUE)
              /\ call' = [call EXCEPT ![t] = NoCall]
              /\ Done
           \/ /\ waiting("logout") /\ outcome \in {"transient", "out_of_sync"}
              /\ call' = [call EXCEPT ![t] = NoCall]
              /\ Done
              /\ UNCHANGED <<store, inbox>>
    /\ UNCHANGED <<sess, cookie, hasLocks, upsets>>

-----------------------------------------------------------------------------
(* The tab: calls, login, logout and events.                               *)

CallApi(t) ==
    /\ t \in Callers
    /\ page[t] = "ready" /\ store[t].sid # NoSid /\ call[t] = NoCall
    /\ ~Accepted(t)
    /\ call' = [call EXCEPT ![t] = Denied(FALSE)]
    /\ UNCHANGED <<serverVars, cookie, hasLocks, store, page, refresh, login, inbox,
                   upsets, lost>>

(* The response interceptor: the first 401 waits for a refresh, the 401 of *)
(* the repeated call ends the session of the tab.                          *)
ReceiveDenied(t) ==
    /\ call[t].kind = "api" /\ call[t].at = "answered"
    /\ \/ /\ ~call[t].again
          /\ call' = [call EXCEPT ![t] = [NoCall EXCEPT !.kind = "api", !.at = "waiting"]]
          /\ refresh' = [refresh EXCEPT ![t] = refreshAuthentication(t)]
          /\ UNCHANGED <<store, page, login, inbox, lost, orphans>>
       \/ /\ call[t].again
          /\ NewPage(t)                        \* redirectToSignIn
       \/ /\ call[t].again
          /\ clearAuthentication(t, FALSE)
          /\ refresh' = [refresh EXCEPT ![t] = Superseded(@)]
          /\ call' = [call EXCEPT ![t] = NoCall]
          /\ UNCHANGED <<page, login, lost, orphans>>
    /\ UNCHANGED <<sess, cookie, hasLocks, upsets>>

Logout(t) ==
    /\ t \in Signers
    /\ page[t] = "ready" /\ store[t].sid # NoSid /\ call[t] = NoCall
    /\ call' = [call EXCEPT ![t] = SendLogout(t, FALSE)]
    /\ UNCHANGED <<serverVars, cookie, hasLocks, store, page, refresh, login, inbox,
                   upsets, lost>>

(* executeLogout after its request, and clearAuthenticatedClientState. *)
ReceiveLogout(t) ==
    /\ call[t].kind = "logout" /\ call[t].at = "answered"
    /\ cookie' = IF call[t].says = "cleared" THEN NoCookie ELSE cookie
    /\ \/ /\ call[t].says \in {"ok", "cleared"}
          /\ clearAuthentication(t, TRUE)
          /\ refresh' = [refresh EXCEPT ![t] = Superseded(@)]
          /\ call' = [call EXCEPT ![t] = NoCall]
       \/ /\ call[t].says = "mismatch" /\ ~call[t].again
          /\ call' = [call EXCEPT ![t] = [NoCall EXCEPT !.kind = "logout", !.at = "waiting"]]
          /\ refresh' = [refresh EXCEPT ![t] = refreshAuthentication(t)]
          /\ UNCHANGED <<store, inbox>>
       \/ /\ call[t].says = "failed" \/ (call[t].says = "mismatch" /\ call[t].again)
          /\ call' = [call EXCEPT ![t] = NoCall]
          /\ UNCHANGED <<store, inbox, refresh>>
    /\ UNCHANGED <<serverVars, hasLocks, page, login, upsets, lost>>

(* The server creates a session for a tab that shows the sign-in form. *)
ServeLogin(t) ==
    /\ t \in Signers
    /\ page[t] = "ready" /\ store[t].sid = NoSid /\ store[t].boot # "checking"
    /\ login[t] = NoSid
    /\ \E s \in Sids :
         /\ sess[s].st = "none"
         /\ \A u \in 1..(s - 1) : sess[u].st # "none"
         /\ sess' = [sess EXCEPT ![s].st = "active"]
         /\ login' = [login EXCEPT ![t] = s]
    /\ UNCHANGED <<cookie, orphans, hasLocks, store, page, refresh, call, inbox,
                   upsets, lost>>

(* handleLoginSuccess: applyAuthBundle of a new session. *)
ReceiveLogin(t) ==
    /\ login[t] # NoSid
    /\ cookie' = [sid |-> login[t], age |-> 0]
    /\ store' = [store EXCEPT ![t] = [sid |-> login[t], fresh |-> TRUE, boot |-> "complete"]]
    /\ publishAuthSessionEvent(t, "authenticated", login[t])
    /\ refresh' = [refresh EXCEPT ![t] = Superseded(@)]
    /\ login' = [login EXCEPT ![t] = NoSid]
    /\ UNCHANGED <<serverVars, hasLocks, page, call, upsets, lost>>

FailLogin(t) ==
    /\ login[t] # NoSid
    /\ Upset
    /\ login' = [login EXCEPT ![t] = NoSid]
    /\ UNCHANGED <<serverVars, cookie, hasLocks, store, page, refresh, call, inbox, lost>>

(* The listener of the root route: another session makes the tab load      *)
(* again, the end of its own session makes it anonymous.                   *)
ReceiveEvent(t) ==
    /\ page[t] = "ready" /\ inbox[t] # <<>>
    /\ LET e == Head(inbox[t])
       IN  \/ /\ e.kind = "authenticated" /\ e.sid # store[t].sid
              /\ NewPage(t)
           \/ /\ e.kind = "signed_out" /\ e.sid = store[t].sid
              /\ store' = [store EXCEPT ![t] = Anonymous("complete")]
              /\ refresh' = [refresh EXCEPT ![t] = Superseded(@)]
              /\ inbox' = [inbox EXCEPT ![t] = Tail(@)]
              /\ UNCHANGED <<page, call, login, lost, orphans>>
           \/ /\ (e.kind = "authenticated") = (e.sid = store[t].sid)
              /\ inbox' = [inbox EXCEPT ![t] = Tail(@)]
              /\ UNCHANGED <<store, page, refresh, call, login, lost, orphans>>
    /\ UNCHANGED <<sess, cookie, hasLocks, upsets>>

(* access_expires_at passes. *)
Expire(t) ==
    /\ store[t].fresh
    /\ Upset
    /\ store' = [store EXCEPT ![t].fresh = FALSE]
    /\ UNCHANGED <<serverVars, cookie, hasLocks, page, refresh, call, login, inbox,
                   lost>>

(* The user loads the tab again. *)
Reload(t) ==
    /\ page[t] # "new"
    /\ Upset
    /\ NewPage(t)
    /\ UNCHANGED <<sess, cookie, hasLocks>>

-----------------------------------------------------------------------------

(* The history of the sessions a tab gave up. *)
Remember == ended' = [t \in Tabs |-> ended[t] \cup
    {s \in Sids : store[t].sid = s /\ store'[t].sid # s /\ Revoked(s)}]

Server(t) == (ServeRefresh(t) \/ ServeLogout(t)) /\ Remember

Client(t) ==
    /\ \/ Load(t) \/ GrantLock(t) \/ ReceiveRefresh(t) \/ SettleRefresh(t)
       \/ ReceiveDenied(t) \/ ReceiveLogout(t) \/ ReceiveLogin(t) \/ ReceiveEvent(t)
    /\ Remember

Panel(t) == CallApi(t) /\ Remember

Others ==
    /\ \/ \E t \in Tabs :
            \/ Navigate(t) \/ Logout(t) \/ ServeLogin(t)
            \/ FailRefresh(t) \/ FailLogout(t) \/ FailLogin(t)
            \/ Expire(t) \/ Reload(t)
       \/ ServeOrphan
       \/ \E s \in Sids : GraceEnds(s) \/ RevokeElsewhere(s)
    /\ Remember

Next == (\E t \in Tabs : Server(t) \/ Client(t) \/ Panel(t)) \/ Others

(* The server and the network answer, the event loop runs what is queued,  *)
(* and the panel of a tab keeps making calls.                              *)
Fairness ==
    \A t \in Tabs : WF_vars(Server(t)) /\ WF_vars(Client(t)) /\ WF_vars(Panel(t))

Spec == Init /\ [][Next]_vars /\ Fairness

-----------------------------------------------------------------------------

(* A tab that gave up a session after it had been revoked never shows that *)
(* session again: the late answer of a refresh that started before the     *)
(* sign-out is discarded by the check of authEpoch after every await of    *)
(* the runner (auth-session.ts, isSuperseded).                             *)
NoResurrection == \A t \in Tabs : store[t].sid \notin ended[t]

(* In a browser with navigator.locks, and as long as every answer arrives, *)
(* the tabs never present an old secret outside its replay window, which   *)
(* the server would take for a stolen cookie: RotateUserSessionRefresh     *)
(* never revokes a session with refresh_reuse.                             *)
NoReuseRevocation ==
    hasLocks /\ ~lost => \A s \in Sids : sess[s].st # "reuse"

(* Under the same conditions the cookie between two refreshes holds the    *)
(* secret the server has now: no answer overwrites a later one of its own  *)
(* session, in whichever tabs the refreshes ran.                           *)
CookieCurrent ==
    hasLocks /\ ~lost /\ (\A t \in Tabs : refresh[t].at \notin {"sent", "answered"})
        => cookie.age = 0

(* A tab that opens leaves the beforeLoad of the root route: the refresh   *)
(* it waits for ends in whatever order the lock is granted, and whatever   *)
(* signs the tabs in and out meanwhile.                                    *)
LoadingEnds == \A t \in Tabs : page[t] = "loading" ~> page[t] = "ready"

(* A tab that makes calls does not show a revoked session for ever: the    *)
(* 401 of a call, its refresh and the repeated call end it, even if the    *)
(* event of the tab that signed out never arrives.                         *)
DeadSessionLeft ==
    \A t \in Callers, s \in Sids :
        (store[t].sid = s /\ Revoked(s)) ~> (store[t].sid # s)
=============================================================================
