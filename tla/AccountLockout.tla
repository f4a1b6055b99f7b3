--------------------------- MODULE AccountLockout ---------------------------
(***************************************************************************)
(* Wrong passwords, the lock they lead to and the rate limit on sign-ins,  *)
(* for one account: AuthService.login (backend/app/auth/service.py) and    *)
(* the other requests that lift a lock (refresh, any request with an       *)
(* access token, a password reset or change).                              *)
(*                                                                         *)
(* Requests run on several workers.  Each loads the users row, works on    *)
(* that copy, and its commit writes the columns it changed relative to the *)
(* copy; verifying a password takes long enough for others to commit.      *)
(*                                                                         *)
(* The account has a password, is active and verified, and every sign-in   *)
(* has an address; the failures that sign-ins of other accounts log for    *)
(* that address are left out, and so is what a successful sign-in issues   *)
(* (SessionLifecycle).                                                     *)
(***************************************************************************)
EXTENDS Naturals, Sequences, FiniteSets

CONSTANTS
    Requests,    \* requests that can be in flight
    Names,       \* identifiers of the account: its email and its phone number
    Addresses,   \* client addresses
    None,        \* neither a name nor an address: requests that are no sign-ins
    Threshold,   \* failed_login_lockout_threshold
    Limit,       \* failed_login_rate_limit_attempts
    Window,      \* failed_login_window_minutes
    LockLength,  \* account_lockout_minutes
    MaxTime      \* bound on the clock

ASSUME LockoutAssumption ==
    /\ IsFiniteSet(Requests)
    /\ Threshold \in Nat \ {0} /\ Limit \in Nat \ {0}
    /\ Window \in Nat /\ LockLength \in Nat \ {0}
    /\ MaxTime \in Nat

VARIABLES
    row,        \* failed_login_attempts, is_locked, locked_until (0 is NULL)
    failures,   \* auth_events of type login and outcome failure
    now,        \* the clock
    req,        \* the requests in flight
    lastWrong   \* history: when a wrong password was last sent or judged

vars == <<row, failures, now, req, lastWrong>>

Unlocked == [attempts |-> 0, locked |-> FALSE, until |-> 0]

\* right, wrong: a sign-in with that password; reset: reset_password;
\* visit: a refresh or a request with an access token; change: change_password.
Logins == {"right", "wrong"}
Others == {"reset", "visit", "change"}
Kinds == Logins \cup Others
Idle == [pc |-> "idle", kind |-> "visit", name |-> None, addr |-> None,
         start |-> 0, copy |-> Unlocked]

Init ==
    /\ row = Unlocked
    /\ failures = <<>>
    /\ now = 0
    /\ req = [w \in Requests |-> Idle]
    /\ lastWrong = 0

Goto(w, pc) == req' = [req EXCEPT ![w].pc = pc]
Finish(w) == req' = [req EXCEPT ![w] = Idle]
Hold(r, pc, c) == [r EXCEPT !.pc = pc, !.copy = c]

\* The row after a commit of a request that loaded "old" and set "new".
Saved(old, new) ==
    [attempts |-> IF new.attempts = old.attempts THEN row.attempts ELSE new.attempts,
     locked   |-> IF new.locked = old.locked THEN row.locked ELSE new.locked,
     until    |-> IF new.until = old.until THEN row.until ELSE new.until]

-----------------------------------------------------------------------------

\* A sign-in arrives and takes the time.
BeginLogin(w, k, n, a) ==
    /\ req[w].pc = "idle"
    /\ req' = [req EXCEPT ![w] = [pc |-> "count", kind |-> k, name |-> n,
                                  addr |-> a, start |-> now, copy |-> Unlocked]]
    /\ lastWrong' = IF k = "wrong" THEN now ELSE lastWrong
    /\ UNCHANGED <<row, failures, now>>

\* Any other request arrives.
BeginOther(w, k) ==
    /\ req[w].pc = "idle"
    /\ req' = [req EXCEPT ![w] = [pc |-> "load", kind |-> k, name |-> None,
                                  addr |-> None, start |-> 0, copy |-> Unlocked]]
    /\ UNCHANGED <<row, failures, now, lastWrong>>

\* count_recent_auth_events since the beginning of the window.
Recent(I, t) == Cardinality({i \in I : failures[i].at + Window >= t})
Named(n) == {i \in DOMAIN failures : failures[i].name = n}
From(a) == {i \in DOMAIN failures : failures[i].addr = a}

\* Variant that breaks RateLimitHolds: one sign-in too many.
Limited_OneMore(r) ==
    \/ Recent(Named(r.name), r.start) > Limit
    \/ Recent(From(r.addr), r.start) > Limit

Limited(r) ==
    \/ Recent(Named(r.name), r.start) >= Limit
    \/ Recent(From(r.addr), r.start) >= Limit

\* _ensure_login_not_rate_limited.
Count(w) ==
    /\ req[w].pc = "count"
    /\ Goto(w, IF Limited(req[w]) THEN "limited" ELSE "load")
    /\ UNCHANGED <<row, failures, now, lastWrong>>

\* The time a request compares the lock with: get_current_active_user takes it
\* after the row was loaded.  A refresh takes it when it begins and is refused
\* in some cases in which a visit goes on, which changes nothing.
Instant(r) == IF r.kind \in Logins THEN r.start ELSE now

\* A request that meets a lock: a sign-in is to be logged as a failure.
Refused(r) == IF r.kind \in Logins THEN Hold(r, "fail", Unlocked) ELSE Idle

\* A request that meets none goes on with the copy c.
Admitted(r, c) == IF r.kind = "visit" THEN Idle
                  ELSE Hold(r, IF r.kind = "change" THEN "save" ELSE "verify", c)

Expired(c, t) == c.locked /\ c.until # 0 /\ c.until <= t

\* A request that holds the copy c looks whether there is a lock.
Met(r, c) ==
    IF Expired(c, Instant(r)) THEN Hold(r, "unlock", c)
    ELSE IF c.locked THEN Refused(r) ELSE Admitted(r, c)

\* The row is loaded.  A reset does not ask for a lock; a sign-in asks with
\* the time it holds, so nothing that happens in between matters to it.
Load(w) ==
    /\ req[w].pc = "load"
    /\ \/ req[w].kind \in Logins /\ req' = [req EXCEPT ![w] = Met(@, row)]
       \/ /\ req[w].kind \in Others
          /\ LET pc == IF req[w].kind = "reset" THEN "save" ELSE "check"
             IN  req' = [req EXCEPT ![w] = Hold(@, pc, row)]
    /\ UNCHANGED <<row, failures, now, lastWrong>>

\* get_current_active_user.
Check(w) ==
    /\ req[w].pc = "check"
    /\ req' = [req EXCEPT ![w] = Met(@, req[w].copy)]
    /\ UNCHANGED <<row, failures, now, lastWrong>>

\* Variant that breaks LockEnds: the flag is forgotten.
Unlock_KeepsFlag(w) ==
    /\ req[w].pc = "unlock"
    /\ row' = Saved(req[w].copy, [req[w].copy EXCEPT !.attempts = 0, !.until = 0])
    /\ Goto(w, "reload")
    /\ UNCHANGED <<failures, now, lastWrong>>

\* The lock is over: the columns are cleared and committed.
Unlock(w) ==
    /\ req[w].pc = "unlock"
    /\ row' = Saved(req[w].copy, Unlocked)
    /\ Goto(w, "reload")
    /\ UNCHANGED <<failures, now, lastWrong>>

\* The save ends with a refresh of the copy, which may find a new lock.
Reload(w) ==
    /\ req[w].pc = "reload"
    /\ req' = [req EXCEPT ![w] = IF row.locked THEN Refused(@) ELSE Admitted(@, row)]
    /\ UNCHANGED <<row, failures, now, lastWrong>>

\* The copy c with one failure more, at time t: the threshold locks it.
Failed(c, t) ==
    IF c.attempts + 1 >= Threshold
    THEN [attempts |-> c.attempts + 1, locked |-> TRUE, until |-> t + LockLength]
    ELSE [c EXCEPT !.attempts = c.attempts + 1]

\* The password is wrong.
WrongPassword(w) ==
    LET r == req[w]
    IN  /\ r.pc = "verify" /\ r.kind = "wrong"
        /\ row' = Saved(r.copy, Failed(r.copy, r.start))
        /\ lastWrong' = now
        /\ req' = [req EXCEPT ![w] = Refused(r)]
        /\ UNCHANGED <<failures, now>>

\* Variant that breaks LockHolds: the sign-in writes the lock columns whether
\* or not its copy already has those values.
RightPassword_Explicit(w) ==
    /\ req[w].pc = "verify" /\ req[w].kind = "right"
    /\ row' = Unlocked
    /\ Finish(w)
    /\ UNCHANGED <<failures, now, lastWrong>>

\* The password is right: counter and lock are cleared in the copy.
RightPassword(w) ==
    /\ req[w].pc = "verify" /\ req[w].kind = "right"
    /\ row' = Saved(req[w].copy, Unlocked)
    /\ Finish(w)
    /\ UNCHANGED <<failures, now, lastWrong>>

\* reset_password and change_password clear counter and lock.
SavePassword(w) ==
    /\ req[w].pc = "save"
    /\ row' = Saved(req[w].copy, Unlocked)
    /\ Finish(w)
    /\ UNCHANGED <<failures, now, lastWrong>>

Event(r) == [name |-> r.name, addr |-> r.addr, at |-> r.start]

\* Variant that breaks TypeOK: the failure is dated with the end of a lock.
LogFailure_AtUnlock(w) ==
    /\ req[w].pc = "fail"
    /\ failures' = Append(failures, [Event(req[w]) EXCEPT !.at = @ + LockLength])
    /\ Finish(w)
    /\ UNCHANGED <<row, now, lastWrong>>

\* A refused sign-in is logged as a failure, dated with its beginning.
LogFailure(w) ==
    /\ req[w].pc = "fail"
    /\ failures' = Append(failures, Event(req[w]))
    /\ Finish(w)
    /\ UNCHANGED <<row, now, lastWrong>>

\* Variant that breaks OwnerGetsIn: a sign-in refused by the rate limit is
\* logged as a failure too.
LogLimited_AsFailure(w) ==
    /\ req[w].pc = "limited"
    /\ failures' = Append(failures, Event(req[w]))
    /\ Finish(w)
    /\ UNCHANGED <<row, now, lastWrong>>

\* One refused by the rate limit is logged with an outcome that is not counted.
LogLimited(w) ==
    /\ req[w].pc = "limited"
    /\ Finish(w)
    /\ UNCHANGED <<row, failures, now, lastWrong>>

\* The request fails, or its worker dies; what it committed stays.
Crash(w) ==
    /\ req[w].pc # "idle"
    /\ Finish(w)
    /\ UNCHANGED <<row, failures, now, lastWrong>>

Tick ==
    /\ now < MaxTime
    /\ now' = now + 1
    /\ UNCHANGED <<row, failures, req, lastWrong>>

Next ==
    \/ Tick
    \/ \E w \in Requests :
         \/ \E k \in Logins, n \in Names, a \in Addresses : BeginLogin(w, k, n, a)
         \/ \E k \in Others : BeginOther(w, k)
         \/ Count(w) \/ Load(w) \/ Check(w) \/ Unlock(w) \/ Reload(w)
         \/ WrongPassword(w) \/ RightPassword(w) \/ SavePassword(w)
         \/ LogFailure(w) \/ LogLimited(w) \/ Crash(w)

Spec == Init /\ [][Next]_vars

-----------------------------------------------------------------------------
(* Properties.                                                             *)

Rows == [attempts : Nat, locked : BOOLEAN, until : Nat]
Events == [name : Names, addr : Addresses, at : Nat]
Steps == {"idle", "count", "limited", "load", "check", "unlock", "reload",
          "verify", "save", "fail"}
Locals == [pc : Steps, kind : Kinds, name : Names \cup {None},
           addr : Addresses \cup {None}, start : Nat, copy : Rows]

\* The columns and copies are typed and nothing is dated into the future.
TypeOK ==
    /\ row \in Rows
    /\ failures \in Seq(Events)
    /\ now \in 0 .. MaxTime
    /\ req \in [Requests -> Locals]
    /\ \A i \in DOMAIN failures : failures[i].at <= now
    /\ \A w \in Requests : req[w].start <= now
    /\ lastWrong \in 0 .. now

\* is_locked and locked_until are written by different requests from copies of
\* different age, yet never part: an account that is locked without an end
\* would stay locked, since only a lock with an end is ever lifted.
LockEnds == row.locked <=> row.until # 0

\* While a lock is in force, no sign-in with the right password lifts it, no
\* visit and no password change, whatever copies they hold.  Three requests may:
\* a reset that saw a lock, which proves the mailbox; a wrong password sent
\* earlier, which leaves its own, earlier end; and a request that found an
\* earlier lock over and commits only after this one was placed
\* (_unlock_user_if_eligible does not look again).
LockHolds ==
    [][row.locked /\ row.until > now /\ ~(row'.locked /\ row'.until >= row.until) =>
         \E w \in Requests :
            \/ SavePassword(w) /\ req[w].kind = "reset" /\ req[w].copy.locked
            \/ WrongPassword(w) /\ row'.locked
                                /\ row'.until = req[w].start + LockLength
            \/ Unlock(w) /\ req[w].copy.until < row.until]_vars

\* "Timed account lockout and unlock recovery" (PRODUCTION_ROADMAP.md:40): a
\* right password sent long enough after a wrong one was last sent or judged is
\* not refused, however often the owner, or anybody else, was refused in between.
OwnerGetsIn ==
    \A w \in Requests :
        req[w].kind = "right" /\ req[w].pc \in {"limited", "fail"}
            => req[w].start < lastWrong + LockLength + Window

\* No window of failed_login_window_minutes sees more failures of one name or
\* of one address than the limit and what overlaps the last one admitted.
RateLimitHolds ==
    \A t \in 0 .. now :
        LET Within(I) == Cardinality({i \in I : failures[i].at \in t .. t + Window})
            Bound == Limit + Cardinality(Requests) - 1
        IN  /\ \A n \in Names : Within(Named(n)) <= Bound
            /\ \A a \in Addresses : Within(From(a)) <= Bound

\* What a request holds between its steps: a copy whose lock columns agree and
\* whose lock a wrong password explains, and is over if the request is to lift
\* it; a lock it found after lifting one was placed after it began; and a
\* refusal is explained by a wrong password.
Paired(c) == c.locked <=> c.until # 0
Explained(c) == c.until <= lastWrong + LockLength
Known(r) == r.kind \in Logins => r.name \in Names /\ r.addr \in Addresses
Held(r) ==
    /\ Paired(r.copy) /\ Explained(r.copy)
    /\ r.pc \in {"count", "limited", "fail", "verify"} => r.kind \in Logins
    /\ Known(r)
    /\ r.pc \in {"check", "reload"} => r.kind # "reset"
    /\ r.pc = "verify" => ~r.copy.locked
    /\ r.pc = "unlock" => /\ r.copy.locked /\ r.copy.until <= now
                          /\ r.kind # "reset"
    /\ r.pc = "save" => r.kind = "reset" \/ ~r.copy.locked
    /\ r.pc = "reload" /\ row.locked => r.start <= lastWrong
    /\ r.kind = "wrong" => r.start <= lastWrong
    /\ r.pc = "fail" => r.start < lastWrong + LockLength
    /\ r.pc = "limited" => r.start < lastWrong + LockLength + Window
AllHeld == \A w \in Requests : Held(req[w])

\* A logged failure is not dated after the last lock a wrong password explains.
FailuresExplained ==
    \A i \in DOMAIN failures : failures[i].at < lastWrong + LockLength

\* The inductive invariant behind the theorems of AccountLockoutProofs.
Guarded == /\ TypeOK /\ AllHeld /\ FailuresExplained
           /\ LockEnds /\ Explained(row)
=============================================================================
