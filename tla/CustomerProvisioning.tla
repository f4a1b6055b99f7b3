------------------------ MODULE CustomerProvisioning ------------------------
(***************************************************************************)
(* The Stripe customer of one user: created at registration or by the      *)
(* first checkout or portal request (BillingService.ensure_stripe_customer *)
(* in backend/app/billing/service.py), kept in the user's row and in the   *)
(* subscription's, and taken over from a completed checkout.  Stripe's     *)
(* later events are matched by the subscription's column.                  *)
(*                                                                         *)
(* A request keeps the rows it loaded; each commit writes the columns of   *)
(* both rows that differ from their copies, for both hang on one session.  *)
(***************************************************************************)
EXTENDS Naturals, FiniteSets

CONSTANTS
    Workers,    \* requests being handled at once
    Customers,  \* ids that Stripe gives out
    None        \* NULL

CustomerAssumption == None \notin Customers

VARIABLES
    user,       \* users.stripe_customer_id
    sub,        \* the subscription row: whether there is one and its column
    created,    \* customers that exist at Stripe
    sessions,   \* customers with a checkout session at Stripe
    req,        \* the requests in flight
    excused     \* history: customers whose request died before its commit or
                \* overlapped another

vars == <<user, sub, created, sessions, req, excused>>

NoRow == [there |-> FALSE, customer |-> None]
Row(c) == [there |-> TRUE, customer |-> c]
Idle == [pc |-> "idle", user |-> None, sub |-> NoRow, customer |-> None,
         alone |-> TRUE]

\* A new user, or one from before the subscriptions table.
Init ==
    /\ user \in Customers \cup {None}
    /\ sub = NoRow \/ sub = Row(user)
    /\ created = {user} \ {None}
    /\ sessions = {}
    /\ req = [w \in Workers |-> Idle]
    /\ excused = {}

Busy == {w \in Workers : req[w].pc # "idle"}

\* A request starts; every request in flight is overlapped from now on.
Started(w, r) ==
    LET alone == Busy = {}
    IN  /\ req' = [v \in Workers |->
                     IF v = w THEN [r EXCEPT !.alone = alone]
                     ELSE [req[v] EXCEPT !.alone = @ /\ req[v].pc = "idle"]]
        /\ excused' = IF alone THEN excused
                      ELSE excused \cup {req[v].customer : v \in Busy}
                                   \cup {r.customer}

Goes(w, r) == req' = [req EXCEPT ![w] = r]

-----------------------------------------------------------------------------
(* ensure_stripe_customer.                                                 *)

\* The user's row is loaded with the session of the request.
Begin(w) ==
    /\ req[w].pc = "idle"
    /\ Started(w, [Idle EXCEPT !.pc = "find", !.user = user])
    /\ UNCHANGED <<user, sub, created, sessions>>

\* get_or_create_subscription finds the row, or goes on to insert one.
FindSubscription(w) ==
    /\ req[w].pc = "find"
    /\ Goes(w, IF sub.there THEN [req[w] EXCEPT !.pc = "link", !.sub = sub]
               ELSE [req[w] EXCEPT !.pc = "insert"])
    /\ UNCHANGED <<user, sub, created, sessions, excused>>

InsertSubscription(w) ==
    /\ req[w].pc = "insert"
    /\ ~sub.there
    /\ sub' = Row(req[w].user)
    /\ Goes(w, [req[w] EXCEPT !.pc = "link", !.sub = Row(req[w].user)])
    /\ UNCHANGED <<user, created, sessions, excused>>

\* The user's customer goes to the subscription, or else the subscription's to
\* the user.
UseExisting(w) ==
    LET r == req[w]
        c == IF r.user # None THEN r.user ELSE r.sub.customer
    IN  /\ r.pc = "link" /\ c # None
        /\ user' = IF r.user = c THEN user ELSE c
        /\ sub' = IF r.sub.customer = c THEN sub ELSE Row(c)
        /\ Goes(w, [r EXCEPT !.pc = "ready", !.customer = c])
        /\ excused' = IF r.alone THEN excused ELSE excused \cup {c}
        /\ UNCHANGED <<created, sessions>>

\* Variant that breaks PaidIsLinked: a later request does not look for the
\* customer that an earlier one made.
CreateCustomer_Anew(w, c) ==
    LET r == req[w]
    IN  /\ r.pc = "link"
        /\ c \notin created
        /\ created' = created \cup {c}
        /\ Goes(w, [r EXCEPT !.pc = "save", !.customer = c])
        /\ excused' = IF r.alone THEN excused ELSE excused \cup {c}
        /\ UNCHANGED <<user, sub, sessions>>

\* Stripe makes a customer.
CreateCustomer(w, c) ==
    LET r == req[w]
    IN  /\ r.pc = "link" /\ r.user = None /\ r.sub.customer = None
        /\ c \notin created
        /\ created' = created \cup {c}
        /\ Goes(w, [r EXCEPT !.pc = "save", !.customer = c])
        /\ excused' = IF r.alone THEN excused ELSE excused \cup {c}
        /\ UNCHANGED <<user, sub, sessions>>

\* save_user commits both rows; save_subscription finds nothing left to write.
SaveCustomer(w) ==
    /\ req[w].pc = "save"
    /\ user' = req[w].customer /\ sub' = Row(req[w].customer)
    /\ Goes(w, [req[w] EXCEPT !.pc = "ready"])
    /\ UNCHANGED <<created, sessions, excused>>

\* Registration and the portal end here; create_checkout_session goes on.
Done(w) ==
    /\ req[w].pc = "ready"
    /\ Goes(w, Idle)
    /\ UNCHANGED <<user, sub, created, sessions, excused>>

Checkout(w) ==
    /\ req[w].pc = "ready"
    /\ sessions' = sessions \cup {req[w].customer}
    /\ Goes(w, Idle)
    /\ UNCHANGED <<user, sub, created, excused>>

-----------------------------------------------------------------------------
(* checkout.session.completed: three commits.                              *)

Completed(w, c) ==
    /\ req[w].pc = "idle" /\ c \in sessions
    /\ Started(w, [Idle EXCEPT !.pc = "hook", !.user = user, !.customer = c])
    /\ UNCHANGED <<user, sub, created, sessions>>

TakeOver(w) ==
    LET r == req[w]
    IN  /\ r.pc = "hook"
        /\ user' = IF r.user = r.customer THEN user ELSE r.customer
        /\ Goes(w, [r EXCEPT !.pc = "sync", !.user = user', !.sub = sub])
        /\ UNCHANGED <<sub, created, sessions, excused>>

\* sync_subscription_from_stripe and the reload of the row.
SyncSubscription(w) ==
    LET r == req[w]
    IN  /\ r.pc = "sync"
        /\ sub' = IF r.sub.customer = r.customer THEN sub ELSE Row(r.customer)
        /\ Goes(w, [r EXCEPT !.pc = "mirror", !.sub = sub'])
        /\ UNCHANGED <<user, created, sessions, excused>>

\* _sync_user_from_subscription.
Mirror(w) ==
    LET r == req[w]
    IN  /\ r.pc = "mirror"
        /\ user' = IF r.user = r.sub.customer THEN user ELSE r.sub.customer
        /\ Goes(w, Idle)
        /\ UNCHANGED <<sub, created, sessions, excused>>

\* A second subscription row refused, an error of Stripe, or the worker's end.
Fail(w) ==
    /\ req[w].pc # "idle"
    /\ excused' = excused \cup {req[w].customer}
    /\ Goes(w, Idle)
    /\ UNCHANGED <<user, sub, created, sessions>>

Next ==
    \E w \in Workers :
      \/ Begin(w) \/ FindSubscription(w) \/ InsertSubscription(w)
      \/ UseExisting(w) \/ SaveCustomer(w) \/ Done(w) \/ Checkout(w)
      \/ \E c \in Customers : CreateCustomer(w, c) \/ Completed(w, c)
      \/ TakeOver(w) \/ SyncSubscription(w) \/ Mirror(w) \/ Fail(w)

Spec == Init /\ [][Next]_vars

-----------------------------------------------------------------------------
(* Properties.                                                             *)

Columns == Customers \cup {None}
SubRows == [there : BOOLEAN, customer : Columns]
Locals == [pc : {"idle", "find", "insert", "link", "save", "ready", "hook",
                 "sync", "mirror"},
           user : Columns, sub : SubRows, customer : Columns, alone : BOOLEAN]

TypeOK ==
    /\ user \in Columns /\ sub \in SubRows
    /\ created \subseteq Customers
    /\ sessions \subseteq Customers
    /\ req \in [Workers -> Locals]
    /\ excused \subseteq Columns

\* Nothing paid is lost: a customer with a checkout session is the one in the
\* subscription, where Stripe's events look for it, and in the user's row,
\* and the user has no other customer at Stripe, unless a request that held
\* it overlapped another or died on the way.
PaidIsLinked ==
    /\ \A c \in sessions \ excused : user = c /\ sub = Row(c)
    /\ Busy = {} => \A c \in created \ excused : user = c
=============================================================================
