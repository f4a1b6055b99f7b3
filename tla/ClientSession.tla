--------------------------- MODULE ClientSession ---------------------------
(***************************************************************************)
(* The browser's side of a session: the tabs of one browser that share a   *)
(* session in localStorage (frontend/components/auth/AuthProvider.tsx,     *)
(* frontend/lib/auth-session.ts), the dashboard's request that reacts to a *)
(* 401, and the authentication API they talk to.                           *)
(*                                                                         *)
(* JavaScript runs a piece of code to its next await without interruption, *)
(* so a step is such a piece.  Between two of them other promises, timers, *)
(* clicks and other tabs take their steps.  A saveSession and the          *)
(* setSession that follows it in a continuation of the same promise chain  *)
(* are one step.                                                           *)
(*                                                                         *)
(* A session is named by its refresh token; its access token is accepted   *)
(* as long as the refresh token's row is live.  The API is atomic here:    *)
(* SessionLifecycle opens its steps.  The session storage mode, which a    *)
(* login without "remember me" chooses, is the case of a single tab.       *)
(***************************************************************************)
EXTENDS Naturals, FiniteSets

CONSTANTS
    Tabs,      \* the browser's tabs
    Tokens,    \* refresh tokens, by which sessions are named
    None,      \* no session
    Prompt,    \* whether the API answers within the least timer delay of 5 s
    MaxReloads, \* bound on how often a page is reloaded or closed
    MaxBusy    \* bound: a user acts while fewer than so many calls are awaited

ClientAssumption ==
    /\ IsFiniteSet(Tabs)
    /\ None \notin Tokens
    /\ Prompt \in BOOLEAN
    /\ MaxReloads \in Nat
    /\ MaxBusy \in Nat

VARIABLES
    server,   \* what the API knows of each refresh token
    aged,     \* sessions whose access token has a minute left at most
    stored,   \* the session in localStorage
    mounted,  \* the tabs whose AuthProvider runs
    session,  \* the React state of each tab
    armed,    \* whether a tab's refresh timer is set
    calls,    \* the request each asynchronous function of a tab awaits
    reloads,  \* how many pages have been left
    replayed  \* history: a rotated token was sent to be rotated again

client == <<stored, mounted, session, armed>>
vars == <<server, aged, stored, mounted, session, armed, calls, reloads, replayed>>

Functions == {"hydrate", "timer", "login", "logout", "load"}
RequestKinds == {"none", "me", "refresh", "meNew", "login", "logout", "logoutAll"}
Idle == [request |-> "none", old |-> None, new |-> None, answer |-> "pending"]
Sent(request, k) == [Idle EXCEPT !.request = request, !.old = k]
Live == {k \in Tokens : server[k] = "live"}

MayAct == Cardinality({p \in Tabs \X Functions : calls[p[1]][p[2]] # Idle})
            < MaxBusy

\* The provider shows the session only once hydration is over.
Initialized(t) == t \in mounted /\ calls[t]["hydrate"] = Idle

\* The browser holds no session, or one from an earlier visit.
Init ==
    /\ stored \in Tokens \cup {None}
    /\ server = [k \in Tokens |-> IF k = stored THEN "live" ELSE "unissued"]
    /\ aged \in SUBSET ({stored} \ {None})
    /\ mounted = {}
    /\ session = [t \in Tabs |-> None]
    /\ armed = [t \in Tabs |-> FALSE]
    /\ calls = [t \in Tabs |-> [f \in Functions |-> Idle]]
    /\ reloads = 0
    /\ replayed = FALSE

-----------------------------------------------------------------------------
(* The API.  A request may also be refused for reasons that are not        *)
(* modelled here: a locked account, a wrong password, an error.            *)

Answer(t, f, status, new) ==
    calls' = [calls EXCEPT ![t][f].answer = status, ![t][f].new = new]

\* The API ends the sessions S that are still live.
Ended(S) == [k \in Tokens |-> IF k \in S \cap Live THEN "ended" ELSE server[k]]

\* get_current_user: the row behind the access token must be live, and an
\* aged token may have expired.
ServeMe(t, f, c) ==
    LET k == IF c.request = "me" THEN c.old ELSE c.new
    IN  /\ c.request \in {"me", "meNew"}
        /\ \/ k \in Live /\ Answer(t, f, "ok", c.new)
           \/ k \notin Live \ aged /\ Answer(t, f, "401", c.new)
        /\ UNCHANGED <<server, replayed>>

\* AuthService.refresh: a live token is exchanged, a dead one ends every
\* session of the user.
ServeRefresh(t, f, c) ==
    /\ c.request = "refresh"
    /\ \/ /\ c.old \in Live
          /\ \E n \in Tokens :
                /\ server[n] = "unissued"
                /\ server' = [server EXCEPT ![c.old] = "rotated",
                                            ![n] = "live"]
                /\ Answer(t, f, "ok", n)
          /\ UNCHANGED replayed
       \/ /\ c.old \in Live
          /\ Answer(t, f, "401", None)
          /\ UNCHANGED <<server, replayed>>
       \/ /\ c.old \notin Live
          /\ server' = Ended(Tokens)
          /\ replayed' = (replayed \/ server[c.old] = "rotated")
          /\ Answer(t, f, "401", None)

ServeLogin(t, f, c) ==
    /\ c.request = "login"
    /\ \/ \E n \in Tokens :
             /\ server[n] = "unissued"
             /\ server' = [server EXCEPT ![n] = "live"]
             /\ Answer(t, f, "ok", n)
       \/ Answer(t, f, "401", None) /\ UNCHANGED server
    /\ UNCHANGED replayed

ServeLogout(t, f, c) ==
    /\ \/ /\ c.request = "logout"
          /\ server' = Ended({c.old})
       \/ /\ c.request = "logoutAll"
          /\ server' = IF c.old \in Live THEN Ended(Tokens) ELSE server
    /\ Answer(t, f, "ok", None)
    /\ UNCHANGED replayed

Serve(t, f) ==
    LET c == calls[t][f]
    IN  /\ c.answer = "pending"
        /\ \/ ServeMe(t, f, c)
           \/ ServeRefresh(t, f, c)
           \/ ServeLogin(t, f, c)
           \/ ServeLogout(t, f, c)
        /\ UNCHANGED <<aged, client, reloads>>

\* Another device revokes a session, or all of them.
EndElsewhere ==
    /\ \E S \in {{k} : k \in Live} \cup {Live} : S # {} /\ server' = Ended(S)
    /\ UNCHANGED <<aged, client, calls, reloads, replayed>>

GrowOld(k) ==
    /\ server[k] # "unissued"
    /\ k \notin aged
    /\ aged' = aged \cup {k}
    /\ UNCHANGED <<server, client, calls, reloads, replayed>>

-----------------------------------------------------------------------------
(* The provider.                                                           *)

\* saveSession and setSession; a new session object restarts the timer.
Keep(t, k) ==
    /\ stored' = k
    /\ session' = [session EXCEPT ![t] = k]
    /\ armed' = [armed EXCEPT ![t] = TRUE]

\* clearSession and setSession(null); the timer effect is cleaned up.
Drop(t) ==
    /\ stored' = None
    /\ session' = [session EXCEPT ![t] = None]
    /\ armed' = [armed EXCEPT ![t] = FALSE]

Become(t, f, c) == calls' = [calls EXCEPT ![t][f] = c]

\* hydrateSession up to its first await: the stored session is shown, and
\* checked or, when it expires soon, rotated.
Mount(t) ==
    /\ t \notin mounted
    /\ mounted' = mounted \cup {t}
    /\ session' = [session EXCEPT ![t] = stored]
    /\ armed' = [armed EXCEPT ![t] = stored # None]
    /\ Become(t, "hydrate",
              IF stored = None THEN Idle
              ELSE IF stored \in aged THEN Sent("refresh", stored)
              ELSE Sent("me", stored))
    /\ UNCHANGED <<server, aged, stored, reloads, replayed>>

\* The page is left or reloaded: its promises are gone, what the API has
\* committed stays.
Leave(t) ==
    /\ reloads < MaxReloads
    /\ t \in mounted
    /\ reloads' = reloads + 1
    /\ mounted' = mounted \ {t}
    /\ session' = [session EXCEPT ![t] = None]
    /\ armed' = [armed EXCEPT ![t] = FALSE]
    /\ calls' = [calls EXCEPT ![t] = [f \in Functions |-> Idle]]
    /\ UNCHANGED <<server, aged, stored, replayed>>

\* The timer fires when a minute is left, at the earliest after 5 seconds.
Fire(t) ==
    /\ armed[t]
    /\ session[t] \in aged
    /\ calls[t]["timer"] = Idle
    /\ Prompt => calls[t]["hydrate"] = Idle
    /\ armed' = [armed EXCEPT ![t] = FALSE]
    /\ Become(t, "timer", Sent("refresh", session[t]))
    /\ UNCHANGED <<server, aged, stored, mounted, session, reloads, replayed>>

\* The login page redirects away once a session is shown.
Login(t) ==
    /\ t \in mounted
    /\ session[t] = None \/ ~Initialized(t)
    /\ calls[t]["login"] = Idle
    /\ MayAct
    /\ Become(t, "login", Sent("login", None))
    /\ UNCHANGED <<server, aged, client, reloads, replayed>>

\* logout and logoutAll: the session is forgotten first, then the API told.
Logout(t, request) ==
    /\ Initialized(t)
    /\ session[t] # None
    /\ calls[t]["logout"] = Idle
    /\ MayAct
    /\ Drop(t)
    /\ Become(t, "logout", Sent(request, session[t]))
    /\ UNCHANGED <<server, aged, mounted, reloads, replayed>>

\* The dashboard loads account data with the access token it has.
Load(t) ==
    /\ Initialized(t)
    /\ session[t] # None
    /\ calls[t]["load"] = Idle
    /\ MayAct
    /\ Become(t, "load", Sent("me", session[t]))
    /\ UNCHANGED <<server, aged, client, reloads, replayed>>

-----------------------------------------------------------------------------
(* The continuation of each await, for an answer of the API or "failed":   *)
(* the request or its answer was lost, or the answer is another error.     *)

\* Variant that breaks DeadSessionIsDropped: a refused rotation is ignored.
AfterRefresh_KeepsSession(t, f, c, status) ==
    /\ c.request = "refresh"
    /\ Become(t, f, IF status = "ok"
                    THEN [Sent("meNew", c.old) EXCEPT !.new = c.new]
                    ELSE Idle)
    /\ UNCHANGED <<stored, session, armed>>

\* rotateSession after refreshAccessToken.
AfterRefresh(t, f, c, status) ==
    /\ c.request = "refresh"
    /\ \/ /\ status = "ok"
          /\ Become(t, f, [Sent("meNew", c.old) EXCEPT !.new = c.new])
          /\ UNCHANGED <<stored, session, armed>>
       \/ status # "ok" /\ Drop(t) /\ Become(t, f, Idle)

\* Variant that breaks NeverReplays: the refresh token is not replaced.
AfterRotation_OldToken(t, f, c, status) ==
    /\ c.request = "meNew"
    /\ IF status = "ok" THEN Keep(t, c.old) ELSE Drop(t)
    /\ Become(t, f, Idle)

\* rotateSession after getCurrentUser.
AfterRotation(t, f, c, status) ==
    /\ c.request = "meNew"
    /\ IF status = "ok" THEN Keep(t, c.new) ELSE Drop(t)
    /\ Become(t, f, Idle)

\* ensureSessionIsUsable after getCurrentUser: a 401 leads to a rotation, any
\* other error ends the session.
AfterCheck(t, f, c, status) ==
    /\ f = "hydrate"
    /\ c.request = "me"
    /\ \/ status = "ok" /\ Keep(t, c.old) /\ Become(t, f, Idle)
       \/ /\ status = "401"
          /\ Become(t, f, Sent("refresh", c.old))
          /\ UNCHANGED <<stored, session, armed>>
       \/ status = "failed" /\ Drop(t) /\ Become(t, f, Idle)

AfterLogin(t, f, c, status) ==
    /\ c.request = "login"
    /\ IF status = "ok" THEN Keep(t, c.new)
       ELSE UNCHANGED <<stored, session, armed>>
    /\ Become(t, f, Idle)

\* loadAccountData: a 401 ends in logout(), with the session of the render
\* that started the load.
AfterLoad(t, f, c, status) ==
    /\ f = "load"
    /\ c.request = "me"
    /\ \/ status = "401" /\ Drop(t) /\ Become(t, f, Sent("logout", c.old))
       \/ /\ status # "401"
          /\ Become(t, f, Idle)
          /\ UNCHANGED <<stored, session, armed>>

AfterLogout(t, f, c) ==
    /\ c.request \in {"logout", "logoutAll"}
    /\ Become(t, f, Idle)
    /\ UNCHANGED <<stored, session, armed>>

Continue(t, f, status) ==
    LET c == calls[t][f]
    IN  /\ c.request # "none"
        /\ status \in {c.answer, "failed"} \ {"pending"}
        /\ \/ AfterRefresh(t, f, c, status)
           \/ AfterRotation(t, f, c, status)
           \/ AfterCheck(t, f, c, status)
           \/ AfterLogin(t, f, c, status)
           \/ AfterLoad(t, f, c, status)
           \/ AfterLogout(t, f, c)
        /\ UNCHANGED <<server, aged, mounted, reloads, replayed>>

Next ==
    \/ EndElsewhere
    \/ \E k \in Tokens : GrowOld(k)
    \/ \E t \in Tabs :
          \/ Mount(t) \/ Leave(t) \/ Fire(t) \/ Login(t) \/ Load(t)
          \/ \E request \in {"logout", "logoutAll"} : Logout(t, request)
          \/ \E f \in Functions :
                \/ Serve(t, f)
                \/ \E status \in {"ok", "401", "failed"} :
                      Continue(t, f, status)

Spec == Init /\ [][Next]_vars

\* Time passes, the browser runs timers and continuations that are due, and
\* the API answers what it was asked.
Fairness ==
    /\ \A k \in Tokens : WF_vars(GrowOld(k))
    /\ \A t \in Tabs :
          /\ WF_vars(Fire(t))
          /\ \A f \in Functions :
                WF_vars(\/ Serve(t, f)
                        \/ \E status \in {"ok", "401"} :
                              Continue(t, f, status))

FairSpec == Spec /\ Fairness

-----------------------------------------------------------------------------
(* Properties.                                                             *)

TypeOK ==
    /\ server \in [Tokens -> {"unissued", "live", "rotated", "ended"}]
    /\ aged \subseteq {k \in Tokens : server[k] # "unissued"}
    /\ stored \in Tokens \cup {None}
    /\ mounted \subseteq Tabs
    /\ session \in [Tabs -> Tokens \cup {None}]
    /\ armed \in [Tabs -> BOOLEAN]
    /\ calls \in [Tabs -> [Functions ->
                    [request : RequestKinds, old : Tokens \cup {None},
                     new : Tokens \cup {None},
                     answer : {"pending", "ok", "401"}]]]
    /\ reloads \in 0 .. MaxReloads
    /\ replayed \in BOOLEAN
    \* a timer that is set has a session to rotate
    /\ \A t \in Tabs : armed[t] => session[t] # None

\* A single tab that nobody reloads and that is answered before its next timer
\* is due never sends a token again after the API rotated it, which the API
\* would take for theft and answer by ending the sessions of every device.
NeverReplays ==
    Cardinality(Tabs) = 1 /\ Prompt /\ reloads = 0 => ~replayed

\* A tab does not go on showing a session that was ended: its timer comes due,
\* the rotation is refused, and the tab drops the session or has a new one.
ShowsDead(t) == session[t] \in Tokens \ Live
DeadSessionIsDropped == \A t \in Tabs : ShowsDead(t) ~> ~ShowsDead(t)
=============================================================================
