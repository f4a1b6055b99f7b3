------------------------- MODULE AccountLifecycle -------------------------
(***************************************************************************)
(* Registration, email verification, password reset and changes of         *)
(* password, email and phone (backend/app/auth/service.py), against the    *)
(* users table with its unique columns and the mailboxes the links go to.  *)
(*                                                                         *)
(* A request looks its row up, decides on that copy, saves (one commit of  *)
(* the columns it changed, then a refresh of the row) and may mail a link  *)
(* built from the refreshed row.  Requests of several workers interleave   *)
(* between these steps; the SELECTs of one request are one step.           *)
(*                                                                         *)
(* Time is left out: a cooldown or an expiry lets a request end without    *)
(* effect, which every request here may do anyway.  Failed attempts,       *)
(* locks and session versions, which some handlers also write, are in      *)
(* AccountLockout and SessionLifecycle; the customer that registration     *)
(* provisions is in CustomerProvisioning; update_profile writes columns    *)
(* nothing here reads.                                                     *)
(***************************************************************************)
EXTENDS Naturals

CONSTANTS
    Requests,   \* requests that can be in flight
    Accounts,   \* rows of users
    Addresses,  \* email addresses, normalised
    Phones,     \* phone numbers
    Passwords,  \* passwords
    None,       \* NULL
    Existing,   \* accounts that are registered and verified at the start
    Legacy,     \* rows without a password at the start (the column is nullable)
    MaxTokens   \* bound on the tokens generated

ASSUME AccountAssumption ==
    /\ None \notin Accounts \cup Addresses \cup Phones \cup Passwords
    /\ Passwords # {}
    /\ Existing \subseteq Accounts /\ Legacy \subseteq Accounts \ Existing
    /\ MaxTokens \in Nat

VARIABLES
    users,      \* the table: a row for each account, Absent while there is none
    issued,     \* tokens generated so far; a token is its number, 0 is NULL
    mails,      \* links delivered to mailboxes
    req,        \* the requests in flight
    proved,     \* history: addresses whose mailbox opened a link
    spent,      \* history: tokens whose request has committed
    tangled     \* history: accounts whose email-change requests overlapped

vars == <<users, issued, mails, req, proved, spent, tangled>>

Absent == [email |-> None, phone |-> None, password |-> None,
           verified |-> FALSE, vtoken |-> 0, rtoken |-> 0,
           pending |-> None, ptoken |-> 0]
Idle == [pc |-> "idle", op |-> "verify", acct |-> None, copy |-> Absent,
         new |-> Absent, to |-> None, token |-> 0]

Present == {a \in Accounts : users[a].email # None}

Init ==
    /\ \E f \in [Accounts -> Addresses], g \in [Accounts -> Phones] :
         /\ \A a, b \in Existing \cup Legacy : a # b => f[a] # f[b] /\ g[a] # g[b]
         /\ users = [a \in Accounts |->
              IF a \in Existing
              THEN [Absent EXCEPT !.email = f[a], !.phone = g[a],
                                  !.password = CHOOSE p \in Passwords : TRUE,
                                  !.verified = TRUE]
              ELSE IF a \in Legacy
              THEN [Absent EXCEPT !.email = f[a], !.phone = g[a]] ELSE Absent]
         /\ proved = {f[a] : a \in Existing}
    /\ issued = 0
    /\ mails = {}
    /\ req = [w \in Requests |-> Idle]
    /\ spent = {}
    /\ tangled = {}

-----------------------------------------------------------------------------
(* The lookups of AuthRepository.                                           *)

WithEmail(e) == {a \in Present : users[a].email = e}
WithPhone(p) == {a \in Present : users[a].phone = p}

\* A request goes on to its save.
Begin(w, op, a, new, to, token) ==
    req' = [req EXCEPT ![w] = [pc |-> "save", op |-> op, acct |-> a,
                               copy |-> IF a = None THEN Absent ELSE users[a],
                               new |-> new, to |-> to, token |-> token]]

Fresh == issued + 1
Generate == issued < MaxTokens /\ issued' = Fresh

-----------------------------------------------------------------------------
(* The handlers, up to their save.  A refusal changes nothing.             *)

\* register: a new row, or the one that has this address and no password.
Register(w, e, p, secret) ==
    /\ req[w].pc = "idle"
    /\ \A a \in WithEmail(e) : users[a].password = None
    /\ WithPhone(p) \subseteq WithEmail(e)
    /\ Generate
    /\ LET a == IF WithEmail(e) = {} THEN None ELSE CHOOSE b \in WithEmail(e) : TRUE
       IN  Begin(w, "register", a,
                 [Absent EXCEPT !.email = e, !.phone = p, !.password = secret,
                                !.vtoken = Fresh], e, 0)
    /\ UNCHANGED <<users, mails, proved, spent, tangled>>

\* verify_email: somebody opens a verification link.
VerifyEmail(w, m) ==
    /\ req[w].pc = "idle" /\ m.kind = "verify"
    /\ \E a \in Present :
         /\ users[a].vtoken = m.token
         /\ Begin(w, "verify", a,
                  [users[a] EXCEPT !.verified = TRUE, !.vtoken = 0], None, m.token)
    /\ proved' = proved \cup {m.to}
    /\ UNCHANGED <<users, issued, mails, spent, tangled>>

\* Variant that breaks TypeOK: the new token is counted up from the old one
\* instead of generated.
ResendVerification_CountsUp(w, a) ==
    /\ req[w].pc = "idle"
    /\ a \in Present /\ users[a].password # None /\ ~users[a].verified
    /\ Begin(w, "resend", a, [users[a] EXCEPT !.vtoken = @ + 1], None, 0)
    /\ UNCHANGED <<users, issued, mails, proved, spent, tangled>>

\* resend_verification: a token that is missing or has expired is replaced.
ResendVerification(w, a) ==
    /\ req[w].pc = "idle"
    /\ a \in Present /\ users[a].password # None /\ ~users[a].verified
    /\ \/ /\ Generate
          /\ Begin(w, "resend", a, [users[a] EXCEPT !.vtoken = Fresh], None, 0)
       \/ /\ users[a].vtoken # 0
          /\ Begin(w, "resend", a, users[a], None, 0)
          /\ UNCHANGED issued
    /\ UNCHANGED <<users, mails, proved, spent, tangled>>

\* forgot_password.
ForgotPassword(w, a) ==
    /\ req[w].pc = "idle"
    /\ a \in Present /\ users[a].password # None
    /\ Generate
    /\ Begin(w, "forgot", a, [users[a] EXCEPT !.rtoken = Fresh], None, 0)
    /\ UNCHANGED <<users, mails, proved, spent, tangled>>

\* reset_password: the current password is refused.
ResetPassword(w, m, secret) ==
    /\ req[w].pc = "idle" /\ m.kind = "reset"
    /\ \E a \in Present :
         /\ users[a].rtoken = m.token /\ users[a].password # secret
         /\ Begin(w, "reset", a,
                  [users[a] EXCEPT !.password = secret, !.rtoken = 0], None, m.token)
    /\ UNCHANGED <<users, issued, mails, proved, spent, tangled>>

\* A signed-in user gives the current password; signing in needs a verified
\* address.
SignedIn(w, a) ==
    req[w].pc = "idle" /\ a \in Present /\ users[a].verified
        /\ users[a].password # None

\* change_password.
ChangePassword(w, a, secret) ==
    /\ SignedIn(w, a) /\ secret # users[a].password
    /\ Begin(w, "password", a, [users[a] EXCEPT !.password = secret], None, 0)
    /\ UNCHANGED <<users, issued, mails, proved, spent, tangled>>

\* request_email_change.
RequestEmailChange(w, a, e) ==
    /\ SignedIn(w, a) /\ e # users[a].email
    /\ WithEmail(e) \subseteq {a}
    /\ Generate
    /\ Begin(w, "change", a,
             [users[a] EXCEPT !.pending = e, !.ptoken = Fresh], e, 0)
    /\ tangled' = IF \E v \in Requests : /\ req[v].pc # "idle"
                                         /\ req[v].op = "change" /\ req[v].acct = a
                  THEN tangled \cup {a} ELSE tangled
    /\ UNCHANGED <<users, mails, proved, spent>>

\* confirm_email_change: somebody opens the link mailed to the new address.
ConfirmEmailChange(w, m) ==
    /\ req[w].pc = "idle" /\ m.kind = "change"
    /\ \E a \in Present :
         /\ users[a].ptoken = m.token /\ users[a].pending # None
         /\ WithEmail(users[a].pending) \subseteq {a}
         /\ Begin(w, "confirm", a,
                  [users[a] EXCEPT !.email = users[a].pending, !.verified = TRUE,
                                   !.pending = None, !.ptoken = 0], None, m.token)
    /\ proved' = proved \cup {m.to}
    /\ UNCHANGED <<users, issued, mails, spent, tangled>>

\* change_phone.
ChangePhone(w, a, p) ==
    /\ SignedIn(w, a) /\ WithPhone(p) \subseteq {a}
    /\ Begin(w, "phone", a, [users[a] EXCEPT !.phone = p], None, 0)
    /\ UNCHANGED <<users, issued, mails, proved, spent, tangled>>

-----------------------------------------------------------------------------
(* Saving and mailing.                                                     *)

\* Variant that breaks TokensWorkOnce: the whole loaded row is written.
Saved_WholeRow(stored, old, new) == new

\* The row after the commit of a request that loaded "old" and set "new".
Saved(stored, old, new) ==
    LET Column(o, n, s) == IF n = o THEN s ELSE n
    IN  [email    |-> Column(old.email, new.email, stored.email),
         phone    |-> Column(old.phone, new.phone, stored.phone),
         password |-> Column(old.password, new.password, stored.password),
         verified |-> Column(old.verified, new.verified, stored.verified),
         vtoken   |-> Column(old.vtoken, new.vtoken, stored.vtoken),
         rtoken   |-> Column(old.rtoken, new.rtoken, stored.rtoken),
         pending  |-> Column(old.pending, new.pending, stored.pending),
         ptoken   |-> Column(old.ptoken, new.ptoken, stored.ptoken)]

\* NULLs never clash.
Clash(x, y) == x = y /\ x # None

\* Variant that breaks OneAccountEach: addresses are not unique in the table.
Unique_PhonesOnly(a, row) ==
    \A b \in Accounts \ {a} : ~Clash(row.phone, users[b].phone)

\* The unique constraints between a new version of row a and the other rows.
Unique(a, row) ==
    \A b \in Accounts \ {a} :
        /\ ~Clash(row.email, users[b].email)
        /\ ~Clash(row.phone, users[b].phone)
        /\ ~Clash(row.pending, users[b].pending)

Mailing == {"register", "resend", "forgot", "change"}
Using == {"verify", "reset", "confirm"}

\* AuthRepository.create and save: an INSERT takes a free id, and a violated
\* constraint ends the request with nothing written.
Save(w) ==
    LET r == req[w]
    IN  /\ r.pc = "save"
        /\ \E a \in Accounts :
             LET row == IF r.acct = None THEN r.new ELSE Saved(users[a], r.copy, r.new)
             IN  /\ IF r.acct = None THEN a \notin Present ELSE a = r.acct
                 /\ Unique(a, row)
                 /\ users' = [users EXCEPT ![a] = row]
                 /\ req' = [req EXCEPT ![w] =
                              IF r.op \in Mailing
                              THEN [Idle EXCEPT !.pc = "mail", !.op = r.op,
                                                !.acct = a, !.to = r.to]
                              ELSE Idle]
        /\ spent' = IF r.op \in Using THEN spent \cup {r.token} ELSE spent
        /\ UNCHANGED <<issued, mails, proved, tangled>>

\* Variant that breaks VerifiedIsProved: the link that confirms a new address is
\* mailed to the old one.
Link_OldAddress(r) ==
    LET row == users[r.acct]
    IN  IF r.op = "change"
        THEN [kind |-> "change", token |-> row.ptoken, to |-> row.email]
        ELSE IF r.op = "forgot"
        THEN [kind |-> "reset", token |-> row.rtoken, to |-> row.email]
        ELSE [kind |-> "verify", token |-> row.vtoken, to |-> row.email]

\* The mail that a handler asks for, built from the row it refreshed: the token
\* column of its kind, to the account's address or the one asked for.
Link(r) ==
    LET row == users[r.acct]
    IN  IF r.op = "change"
        THEN [kind |-> "change", token |-> row.ptoken, to |-> r.to]
        ELSE IF r.op = "forgot"
        THEN [kind |-> "reset", token |-> row.rtoken, to |-> row.email]
        ELSE [kind |-> "verify", token |-> row.vtoken, to |-> row.email]

\* The link is built and delivered; a token that is NULL by now cannot be
\* quoted into a URL, and the request fails.
Mail(w) ==
    /\ req[w].pc = "mail"
    /\ mails' = IF Link(req[w]).token = 0 THEN mails
                ELSE mails \cup {Link(req[w])}
    /\ req' = [req EXCEPT ![w] = Idle]
    /\ UNCHANGED <<users, issued, proved, spent, tangled>>

\* The request ends early: refused by a constraint, by its worker's death, or,
\* once saved, by a mail server (whose failure the handler ignores).
Fail(w) ==
    /\ req[w].pc # "idle"
    /\ req' = [req EXCEPT ![w] = Idle]
    /\ UNCHANGED <<users, issued, mails, proved, spent, tangled>>

Next ==
    \E w \in Requests :
      \/ \E e \in Addresses, p \in Phones, secret \in Passwords :
           Register(w, e, p, secret)
      \/ \E m \in mails : VerifyEmail(w, m) \/ ConfirmEmailChange(w, m)
      \/ \E m \in mails, secret \in Passwords : ResetPassword(w, m, secret)
      \/ \E a \in Accounts : ResendVerification(w, a) \/ ForgotPassword(w, a)
      \/ \E a \in Accounts, secret \in Passwords : ChangePassword(w, a, secret)
      \/ \E a \in Accounts, e \in Addresses : RequestEmailChange(w, a, e)
      \/ \E a \in Accounts, p \in Phones : ChangePhone(w, a, p)
      \/ Save(w) \/ Mail(w) \/ Fail(w)

Spec == Init /\ [][Next]_vars

-----------------------------------------------------------------------------
(* Properties.                                                             *)

Tokens == 0 .. MaxTokens
Rows == [email : Addresses \cup {None}, phone : Phones \cup {None},
         password : Passwords \cup {None}, verified : BOOLEAN,
         vtoken : Tokens, rtoken : Tokens,
         pending : Addresses \cup {None}, ptoken : Tokens]
Mails == [kind : {"verify", "reset", "change"}, token : Tokens,
          to : Addresses \cup {None}]
Ops == Mailing \cup Using \cup {"password", "phone"}
Locals == [pc : {"idle", "save", "mail"}, op : Ops,
           acct : Accounts \cup {None}, copy : Rows, new : Rows,
           to : Addresses \cup {None}, token : Tokens]

TypeOK ==
    /\ users \in [Accounts -> Rows]
    /\ issued \in Tokens
    /\ mails \subseteq Mails
    /\ req \in [Requests -> Locals]
    /\ proved \subseteq Addresses \cup {None}
    /\ spent \subseteq Tokens
    /\ tangled \subseteq Accounts

\* However registrations, changes and confirmations of several people
\* interleave, no address, phone or address awaiting confirmation belongs to
\* two accounts, and an account that verified an address has it still or has
\* confirmed another: no request leaves a registered row without its address
\* or password.
OneAccountEach ==
    /\ \A a, b \in Accounts : a # b =>
          /\ ~Clash(users[a].email, users[b].email)
          /\ ~Clash(users[a].phone, users[b].phone)
          /\ ~Clash(users[a].pending, users[b].pending)
    /\ \A a \in Accounts : users[a].verified =>
          users[a].email # None /\ users[a].password # None

\* "Email address updated after verification." (auth/service.py:991): the
\* address of a verified account is one whose mailbox opened a link, unless
\* two email-change requests of that account overlapped.
Proved(a) == users[a].verified => users[a].email \in proved
VerifiedIsProved == \A a \in Accounts \ tangled : Proved(a)

\* The same without the exception.
AlwaysProved == \A a \in Accounts : Proved(a)

\* A link works once: a token that a committed verification, reset or
\* confirmation used is in no row again, whatever copies were in flight.
TokensWorkOnce ==
    \A a \in Accounts :
        spent \cap {users[a].vtoken, users[a].rtoken, users[a].ptoken} = {}
=============================================================================
