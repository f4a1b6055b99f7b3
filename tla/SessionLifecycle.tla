-------------------------- MODULE SessionLifecycle --------------------------
(***************************************************************************)
(* The sessions of one user: the rows of refresh_tokens and the column     *)
(* users.session_token_version, and the requests that issue, rotate and    *)
(* end them (backend/app/auth/service.py, repository.py, dependencies.py). *)
(*                                                                         *)
(* A refresh token is used once: a refresh stores a successor and then     *)
(* revokes the token.  An access token names its session row and carries   *)
(* the version its handler had loaded.  Each repository call commits, so   *)
(* requests interleave between calls; a handler keeps the user and the     *)
(* rows it loaded, and an UPDATE by primary key of a row that another      *)
(* request deleted fails the request (SQLAlchemy's StaleDataError).        *)
(*                                                                         *)
(* Passwords, locks and rate limits decide whether a request gets this     *)
(* far; one that does not ends like one that fails (Fail).                 *)
(***************************************************************************)
EXTENDS Naturals

CONSTANTS
    Requests,   \* request slots
    Tokens,     \* refresh tokens (rows) that can ever be generated
    NoToken,
    MaxVersion  \* bound on session_token_version

ASSUME SessionAssumption == NoToken \notin Tokens /\ MaxVersion \in Nat

VARIABLES
    version,  \* users.session_token_version
    stored,   \* tokens whose row was inserted
    revoked,  \* rows with revoked = TRUE
    deleted,  \* rows that the cleanup deleted
    over,     \* rows past expires_at, or revoked longer than the retention time
    minted,   \* the version in the access token minted with each row
    req,      \* what each request in flight holds
    parent,   \* history: the token a token was minted from
    dismissed,\* history: tokens revoked other than by rotation
    rotated,  \* history: tokens whose refresh has answered
    ended     \* history: tokens that existed when a request began that then
              \* revoked every session, by the kind of the request

vars == <<version, stored, revoked, deleted, over, minted, req, parent,
          dismissed, rotated, ended>>
rows == <<version, stored, revoked, deleted, over, minted>>
history == <<parent, dismissed, rotated, ended>>

Kinds == {"login", "refresh", "logout", "endall"}
Steps == {"idle", "cleanup", "lookup", "touch", "store", "rotate", "answer",
          "revoke", "version", "select", "update"}
\* The steps of a refresh that has passed its checks.
Renewing == {"touch", "store", "rotate", "answer"}

\* late: the token presented had been rotated, with an answer, before this
\* request began.  born: the rows there were when the request turned to ending
\* every session.
Idle == [pc |-> "idle", kind |-> "login", tok |-> NoToken, ver |-> 0,
         new |-> NoToken, seen |-> {}, born |-> {}, late |-> FALSE]

Live == stored \ (revoked \cup deleted)

\* get_current_user: whether the access token minted with row t is accepted.
Accepted(t) == minted[t] = version /\ t \in Live \ over

Init ==
    /\ version = 0
    /\ stored = {} /\ revoked = {} /\ deleted = {} /\ over = {}
    /\ minted = [t \in Tokens |-> 0]
    /\ req = [w \in Requests |-> Idle]
    /\ parent = [t \in Tokens |-> NoToken]
    /\ dismissed = {} /\ rotated = {}
    /\ ended = [k \in Kinds |-> {}]

Goto(w, l) == req' = [req EXCEPT ![w] = l]
Begin(w, l) == req[w].pc = "idle" /\ Goto(w, l)

-----------------------------------------------------------------------------
(* Requests arrive.                                                        *)

BeginLogin(w) ==
    /\ Begin(w, [Idle EXCEPT !.pc = "cleanup", !.kind = "login"])
    /\ UNCHANGED rows /\ UNCHANGED history

BeginRefresh(w, t) ==
    /\ t \in stored
    /\ Begin(w, [Idle EXCEPT !.pc = "cleanup", !.kind = "refresh", !.tok = t,
                             !.late = t \in rotated])
    /\ UNCHANGED rows /\ UNCHANGED history

\* logout takes the refresh token, revoke_session the id of the row.
BeginLogout(w, t) ==
    /\ t \in stored
    /\ Begin(w, [Idle EXCEPT !.pc = "lookup", !.kind = "logout", !.tok = t])
    /\ UNCHANGED rows /\ UNCHANGED history

\* logout_all and change_password need an access token that is accepted;
\* reset_password needs the mailed token instead.  All three load the user.
BeginEndAll(w) ==
    /\ version < MaxVersion
    /\ Begin(w, [Idle EXCEPT !.pc = "version", !.kind = "endall",
                             !.ver = version, !.born = stored])
    /\ UNCHANGED rows /\ UNCHANGED history

-----------------------------------------------------------------------------
(* Login and refresh.                                                      *)

\* delete_stale_refresh_tokens; a login then loads the user.
Cleanup(w) ==
    LET l == req[w]
    IN  /\ l.pc = "cleanup"
        /\ deleted' = deleted \cup (stored \cap over)
        /\ Goto(w, IF l.kind = "login"
                   THEN [l EXCEPT !.pc = "store", !.ver = version]
                   ELSE [l EXCEPT !.pc = "lookup"])
        /\ UNCHANGED <<version, stored, revoked, over, minted>>
        /\ UNCHANGED history

\* Variant that breaks UsedOnce: a revoked token is rotated like a live one.
Lookup_IgnoresRevoked(w) ==
    LET l == req[w]
    IN  /\ l.pc = "lookup" /\ l.kind = "refresh"
        /\ Goto(w, IF l.tok \in deleted THEN Idle
                   ELSE [l EXCEPT !.pc = "touch", !.ver = version])
        /\ UNCHANGED rows /\ UNCHANGED history

\* refresh loads the row and its user.  A revoked token is a replay, after
\* which every session of the user is revoked.
Lookup(w) ==
    LET l == [req[w] EXCEPT !.ver = version]
    IN  /\ l.pc = "lookup" /\ l.kind = "refresh"
        /\ Goto(w, IF l.tok \in deleted THEN Idle
                   ELSE IF l.tok \in revoked
                   THEN [l EXCEPT !.pc = "select", !.born = stored]
                   ELSE [l EXCEPT !.pc = "touch"])
        /\ UNCHANGED rows /\ UNCHANGED history

\* A token that expires in the very instant of the request is not stale for
\* the cleanup (expires_at < now) but is expired (expires_at <= now).
LookupAtExpiry(w) ==
    LET l == req[w]
    IN  /\ l.pc = "lookup" /\ l.kind = "refresh" /\ l.tok \in Live
        /\ revoked' = revoked \cup {l.tok}
        /\ over' = over \cup {l.tok}
        /\ dismissed' = dismissed \cup {l.tok}
        /\ Goto(w, Idle)
        /\ UNCHANGED <<version, stored, deleted, minted, parent, rotated, ended>>

\* Variant that breaks RotationHasHeir: the token is revoked before its
\* successor is stored.
Touch_RevokesFirst(w) ==
    LET l == req[w]
    IN  /\ l.pc = "touch"
        /\ IF l.tok \in deleted THEN Goto(w, Idle) /\ UNCHANGED revoked
           ELSE /\ revoked' = revoked \cup {l.tok}
                /\ Goto(w, [l EXCEPT !.pc = "store"])
        /\ UNCHANGED <<version, stored, deleted, over, minted>>
        /\ UNCHANGED history

\* touch_refresh_token writes last_used_at; the row is not looked at again.
Touch(w) ==
    LET l == req[w]
    IN  /\ l.pc = "touch"
        /\ Goto(w, IF l.tok \in deleted THEN Idle ELSE [l EXCEPT !.pc = "store"])
        /\ UNCHANGED rows /\ UNCHANGED history

\* Variant that breaks TypeOK: the access token is minted one version ahead.
Store_NextVersion(w) ==
    LET l == req[w]
    IN  /\ l.pc = "store"
        /\ \E n \in Tokens \ stored :
             /\ stored' = stored \cup {n}
             /\ minted' = [minted EXCEPT ![n] = l.ver + 1]
             /\ parent' = [parent EXCEPT ![n] = l.tok]
             /\ Goto(w, IF l.kind = "login" THEN Idle
                        ELSE [l EXCEPT !.pc = "rotate", !.new = n])
        /\ UNCHANGED <<version, revoked, deleted, over, dismissed, rotated,
                       ended>>

\* _build_token_pair: the new row is committed before the old one is revoked;
\* the access token gets the version of the loaded user.
Store(w) ==
    LET l == req[w]
    IN  /\ l.pc = "store"
        /\ \E n \in Tokens \ stored :
             /\ stored' = stored \cup {n}
             /\ minted' = [minted EXCEPT ![n] = l.ver]
             /\ parent' = [parent EXCEPT ![n] = l.tok]
             /\ Goto(w, IF l.kind = "login" THEN Idle
                        ELSE [l EXCEPT !.pc = "rotate", !.new = n])
        /\ UNCHANGED <<version, revoked, deleted, over, dismissed, rotated,
                       ended>>

\* revoke_refresh_token(record, replaced_by_token_id=...).  The foreign key
\* wants the successor's row to be there.
Rotate(w) ==
    LET l == req[w]
    IN  /\ l.pc = "rotate"
        /\ IF {l.tok, l.new} \cap deleted # {}
           THEN Goto(w, Idle) /\ UNCHANGED revoked
           ELSE /\ revoked' = revoked \cup {l.tok}
                /\ Goto(w, [l EXCEPT !.pc = "answer"])
        /\ UNCHANGED <<version, stored, deleted, over, minted>>
        /\ UNCHANGED history

\* The token_refreshed event is committed and the pair sent.  A refresh that
\* ends here otherwise (Fail) leaves its client only the revoked token.
Answer(w) ==
    LET l == req[w]
    IN  /\ l.pc = "answer"
        /\ rotated' = rotated \cup {l.tok}
        /\ Goto(w, Idle)
        /\ UNCHANGED rows
        /\ UNCHANGED <<parent, dismissed, ended>>

-----------------------------------------------------------------------------
(* Ending sessions.                                                        *)

\* logout and revoke_session: a row that is live is revoked.
LookupLogout(w) ==
    LET l == req[w]
    IN  /\ l.pc = "lookup" /\ l.kind = "logout"
        /\ Goto(w, IF l.tok \in Live THEN [l EXCEPT !.pc = "revoke"] ELSE Idle)
        /\ UNCHANGED rows /\ UNCHANGED history

Revoke(w) ==
    LET l == req[w]
    IN  /\ l.pc = "revoke"
        /\ IF l.tok \in deleted THEN UNCHANGED <<revoked, dismissed>>
           ELSE /\ revoked' = revoked \cup {l.tok}
                /\ dismissed' = dismissed \cup {l.tok}
        /\ Goto(w, Idle)
        /\ UNCHANGED <<version, stored, deleted, over, minted, parent, rotated,
                       ended>>

\* user.session_token_version += 1, computed from the loaded user.
SaveVersion(w) ==
    LET l == req[w]
    IN  /\ l.pc = "version"
        /\ l.ver < MaxVersion
        /\ version' = l.ver + 1
        /\ Goto(w, IF l.kind = "endall" THEN [l EXCEPT !.pc = "select"] ELSE Idle)
        /\ UNCHANGED <<stored, revoked, deleted, over, minted>>
        /\ UNCHANGED history

\* revoke_user_refresh_tokens: the SELECT of the rows that are not revoked ...
SelectAll(w) ==
    LET l == req[w]
    IN  /\ l.pc = "select"
        /\ Goto(w, [l EXCEPT !.pc = "update", !.seen = Live])
        /\ UNCHANGED rows /\ UNCHANGED history

\* Variant that breaks EndedStayEnded: a row that is gone fails the UPDATE, and
\* the request reports success all the same.
UpdateAll_IgnoresFailure(w) ==
    LET l == req[w]
    IN  /\ l.pc = "update"
        /\ IF l.seen \cap deleted # {} THEN UNCHANGED <<revoked, dismissed>>
           ELSE /\ revoked' = revoked \cup l.seen
                /\ dismissed' = dismissed \cup l.seen
        /\ ended' = [ended EXCEPT ![l.kind] = @ \cup l.born]
        /\ Goto(w, IF l.kind = "endall" THEN Idle ELSE [l EXCEPT !.pc = "version"])
        /\ UNCHANGED <<version, stored, deleted, over, minted, parent, rotated>>

\* ... and the UPDATEs of those rows, all or none.  A replay then moves the
\* version; logout_all and the password endpoints are done.
UpdateAll(w) ==
    LET l == req[w]
    IN  /\ l.pc = "update"
        /\ IF l.seen \cap deleted # {}
           THEN Goto(w, Idle) /\ UNCHANGED <<revoked, dismissed, ended>>
           ELSE /\ revoked' = revoked \cup l.seen
                /\ dismissed' = dismissed \cup l.seen
                /\ ended' = [ended EXCEPT ![l.kind] = @ \cup l.born]
                /\ Goto(w, IF l.kind = "endall" THEN Idle
                           ELSE [l EXCEPT !.pc = "version"])
        /\ UNCHANGED <<version, stored, deleted, over, minted, parent, rotated>>

-----------------------------------------------------------------------------

\* A request that is refused, fails or whose process dies; its commits stay.
Fail(w) ==
    /\ req[w].pc # "idle"
    /\ Goto(w, Idle)
    /\ UNCHANGED rows /\ UNCHANGED history

\* Time passes: a row expires, or a revoked one outlives the retention time.
GrowOld(t) ==
    /\ t \in stored \ over
    /\ over' = over \cup {t}
    /\ UNCHANGED <<version, stored, revoked, deleted, minted, req>>
    /\ UNCHANGED history

Advance(w) ==
    \/ Cleanup(w) \/ Lookup(w) \/ LookupAtExpiry(w) \/ Touch(w) \/ Store(w)
    \/ Rotate(w) \/ Answer(w) \/ LookupLogout(w) \/ Revoke(w)
    \/ SaveVersion(w) \/ SelectAll(w) \/ UpdateAll(w)

Next ==
    \/ \E t \in Tokens : GrowOld(t)
    \/ \E w \in Requests :
         \/ BeginLogin(w)
         \/ \E t \in Tokens : BeginRefresh(w, t) \/ BeginLogout(w, t)
         \/ BeginEndAll(w)
         \/ Advance(w)
         \/ Fail(w)

Spec == Init /\ [][Next]_vars

-----------------------------------------------------------------------------
(* Properties.                                                             *)

Locals == [pc : Steps, kind : Kinds, tok : Tokens \cup {NoToken},
           ver : 0 .. MaxVersion, new : Tokens \cup {NoToken},
           seen : SUBSET Tokens, born : SUBSET Tokens, late : BOOLEAN]

\* Rows, copies and histories have their types, and only a row that was stored
\* is revoked or deleted.
TypeOK ==
    /\ version \in 0 .. MaxVersion
    /\ stored \subseteq Tokens
    /\ revoked \subseteq stored /\ deleted \subseteq stored
    /\ over \subseteq stored
    /\ minted \in [Tokens -> 0 .. MaxVersion]
    /\ req \in [Requests -> Locals]
    /\ parent \in [Tokens -> Tokens \cup {NoToken}]
    /\ dismissed \subseteq Tokens /\ rotated \subseteq Tokens
    /\ ended \in [Kinds -> SUBSET Tokens]

\* "Successfully logged out from all devices." (service.py:580), and the same
\* after a replay or a password change: no session that existed when such a
\* request began works again once it is done, neither to refresh nor to
\* authorise, although rows come, go and expire while it runs.
EndedStayEnded ==
    \A k \in Kinds : \A t \in ended[k] : t \notin Live /\ ~Accepted(t)

\* "Rotating refresh tokens" (README.md:14): once a refresh has answered, a
\* later refresh with the same token never gets as far as a new session.
UsedOnce == \A w \in Requests : req[w].late => req[w].pc \notin Renewing

\* The order of a refresh's commits (auth/service.py:508-521), at whichever of
\* them it dies and whatever the cleanup deletes meanwhile: a token that only
\* rotation revoked has a successor that was stored, so that a refresh that dies
\* earlier leaves a token that still works.  The successor may be one that the
\* client never hears of: see Answer.
RotationHasHeir ==
    \A t \in revoked \ dismissed : \E n \in stored : parent[n] = t

\* "Immediately revoke every session and require a fresh sign-in on all devices"
\* (dashboard/page.tsx:1136): after logout_all no session is live that
\* continues one from before it.
SignedOutEverywhere ==
    \A n \in Live : parent[n] \notin ended["endall"]

\* What a request holds between its steps: it works on stored rows; the SELECT
\* of the revocation covers every row there was when it began; a successor is
\* stored by the time its predecessor is revoked.
Held(l) ==
    /\ l.born \subseteq stored
    /\ l.pc = "update" =>
         l.seen \subseteq stored /\ l.born \subseteq revoked \cup deleted \cup l.seen
    /\ l.pc \in {"lookup", "touch", "rotate", "answer", "revoke"}
       \/ (l.pc \in {"cleanup", "store"} /\ l.kind # "login")
         => l.tok \in stored
    /\ l.pc = "rotate" => l.new \in stored /\ parent[l.new] = l.tok
    /\ l.pc = "answer" => l.tok \in revoked
    /\ l.late => l.tok \in rotated /\ l.kind # "login"
AllHeld == \A w \in Requests : Held(req[w])
EndedGone == \A k \in Kinds : ended[k] \subseteq revoked \cup deleted

\* The inductive invariant behind the theorems of SessionLifecycleProofs.
Orderly ==
    /\ TypeOK
    /\ AllHeld
    /\ rotated \subseteq revoked
    /\ EndedGone
    /\ UsedOnce
    /\ RotationHasHeir
=============================================================================
