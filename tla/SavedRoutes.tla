---------------------------- MODULE SavedRoutes ----------------------------
(***************************************************************************)
(* The routes a user saves under a name and asks for by SMS or on the web  *)
(* (backend/app/services/saved_route_service.py with its API and SMS       *)
(* handlers), for one user: every statement filters by the owner.          *)
(*                                                                         *)
(* A request reads the route and checks the name, then saves: in between   *)
(* requests of other workers commit.  A save writes the columns that       *)
(* differ from the loaded copy.  A name is an alias and a spelling; routes *)
(* are told apart by alias, which ignores case and spacing.                *)
(*                                                                         *)
(* Origin, destination, description, order and web_enabled decide nothing  *)
(* here and are left out, and so is is_active without sms_enabled: a use   *)
(* on the web and a DELETE ROUTE of a route that SMS does not offer may be *)
(* refused for them.                                                       *)
(***************************************************************************)
EXTENDS Naturals, FiniteSets

CONSTANTS
    Workers,    \* requests being handled at once
    Ids,        \* primary keys, each used once
    Aliases,    \* normalised names that are not reserved commands
    Spellings,  \* ways to write one alias
    None

RouteAssumption == None \notin Ids \cup Aliases \cup (Aliases \X Spellings)

VARIABLES
    routes,     \* the table: a row, or Absent
    used,       \* history: keys given out so far
    req,        \* the requests in flight
    tangled     \* history: routes whose renames overlapped

vars == <<routes, used, req, tangled>>

Names == Aliases \X Spellings

\* normalize_route_alias.
Normalized(name) == name[1]

Absent == [name |-> None, alias |-> None, sms |-> FALSE]
Idle == [pc |-> "idle", id |-> None, copy |-> Absent, new |-> Absent]
Present == {r \in Ids : routes[r] # Absent}

Init ==
    /\ routes = [r \in Ids |-> Absent]
    /\ used = {}
    /\ req = [w \in Workers |-> Idle]
    /\ tangled = {}

-----------------------------------------------------------------------------
(* Lookups.                                                                *)

\* _ensure_alias_available, inactive routes included.
Available(alias, except) ==
    \A r \in Present \ {except} : routes[r].alias # alias

\* get_by_alias, of the routes that SMS offers or of all.
ByAlias(alias, smsOnly) ==
    {r \in Present : routes[r].alias = alias /\ (smsOnly => routes[r].sms)}

\* The routes that handle_list_routes offers: is_active and sms_enabled.
Listed == {r \in Present : routes[r].sms}

-----------------------------------------------------------------------------
(* The requests.                                                           *)

Begin(w, pc, r, new) ==
    /\ req[w].pc = "idle"
    /\ req' = [req EXCEPT ![w] =
                 [pc |-> pc, id |-> r, new |-> new,
                  copy |-> IF pc = "update" THEN routes[r] ELSE Absent]]

\* create, by POST or SAVE ROUTE, which enables everything.
Create(w, name, sms) ==
    /\ Available(Normalized(name), None)
    /\ Begin(w, "insert", None,
             [name |-> name, alias |-> Normalized(name), sms |-> sms])
    /\ UNCHANGED <<routes, used, tangled>>

Renaming(w, r) == req[w].pc = "update" /\ req[w].id = r
                     /\ req[w].new.name # req[w].copy.name

\* update with a name.
Rename(w, r, name) ==
    /\ r \in Present
    /\ Available(Normalized(name), r)
    /\ Begin(w, "update", r,
             [routes[r] EXCEPT !.name = name, !.alias = Normalized(name)])
    /\ tangled' = IF \E v \in Workers : Renaming(v, r)
                  THEN tangled \cup {r} ELSE tangled
    /\ UNCHANGED <<routes, used>>

\* update of the other fields.
Edit(w, r, sms) ==
    /\ r \in Present
    /\ Begin(w, "update", r, [routes[r] EXCEPT !.sms = sms])
    /\ UNCHANGED <<routes, used, tangled>>

\* delete, by DELETE or by the alias of an SMS; a route that goes first is
\* deleted again without complaint.
DeleteById(w, r) ==
    /\ r \in Present
    /\ Begin(w, "delete", r, Absent)
    /\ UNCHANGED <<routes, used, tangled>>

DeleteByAlias(w, alias) ==
    /\ \E r \in ByAlias(alias, FALSE) : Begin(w, "delete", r, Absent)
    /\ UNCHANGED <<routes, used, tangled>>

\* Traffic for a saved route: ROUTE NAME by SMS (_resolve_saved_route) or the
\* web's POST; mark_used then saves the time of use.
UseBySms(w, alias) ==
    /\ \E r \in ByAlias(alias, TRUE) : Begin(w, "update", r, routes[r])
    /\ UNCHANGED <<routes, used, tangled>>

UseOnWeb(w, r) ==
    /\ r \in Present
    /\ Begin(w, "update", r, routes[r])
    /\ UNCHANGED <<routes, used, tangled>>

-----------------------------------------------------------------------------
(* The commits.                                                            *)

\* uq_saved_routes_user_alias.
Unique(r, alias) == \A s \in Present \ {r} : routes[s].alias # alias

Saved(stored, old, new) ==
    LET Column(o, n, s) == IF n = o THEN s ELSE n
    IN  [name  |-> Column(old.name, new.name, stored.name),
         alias |-> Column(old.alias, new.alias, stored.alias),
         sms   |-> Column(old.sms, new.sms, stored.sms)]

Done(w) == req' = [req EXCEPT ![w] = Idle]

\* Variant that breaks ListedNameWorks: the check before the save is trusted.
Insert_Unchecked(w) ==
    /\ req[w].pc = "insert"
    /\ \E r \in Ids \ used :
         /\ routes' = [routes EXCEPT ![r] = req[w].new]
         /\ used' = used \cup {r}
    /\ Done(w)
    /\ UNCHANGED tangled

Insert(w) ==
    /\ req[w].pc = "insert"
    /\ \E r \in Ids \ used :
         /\ Unique(r, req[w].new.alias)
         /\ routes' = [routes EXCEPT ![r] = req[w].new]
         /\ used' = used \cup {r}
    /\ Done(w)
    /\ UNCHANGED tangled

Update(w) ==
    LET q == req[w]
        row == Saved(routes[q.id], q.copy, q.new)
    IN  /\ q.pc = "update" /\ q.id \in Present
        /\ Unique(q.id, row.alias)
        /\ routes' = [routes EXCEPT ![q.id] = row]
        /\ Done(w)
        /\ UNCHANGED <<used, tangled>>

Delete(w) ==
    /\ req[w].pc = "delete"
    /\ routes' = [routes EXCEPT ![req[w].id] = Absent]
    /\ tangled' = tangled \ {req[w].id}
    /\ Done(w)
    /\ UNCHANGED used

\* A conflict with another route, a route deleted meanwhile, or the end of the
\* worker.
Fail(w) ==
    /\ req[w].pc # "idle"
    /\ Done(w)
    /\ UNCHANGED <<routes, used, tangled>>

Next ==
    \E w \in Workers :
      \/ \E name \in Names, sms \in BOOLEAN :
           Create(w, name, sms)
      \/ \E r \in Ids :
           \/ \E name \in Names : Rename(w, r, name)
           \/ \E sms \in BOOLEAN : Edit(w, r, sms)
           \/ DeleteById(w, r)
           \/ UseOnWeb(w, r)
      \/ \E alias \in Aliases : DeleteByAlias(w, alias) \/ UseBySms(w, alias)
      \/ Insert(w) \/ Update(w) \/ Delete(w) \/ Fail(w)

Spec == Init /\ [][Next]_vars

-----------------------------------------------------------------------------
(* Properties.                                                             *)

Rows == [name : Names \cup {None}, alias : Aliases \cup {None},
         sms : BOOLEAN]
Locals == [pc : {"idle", "insert", "update", "delete"}, id : Ids \cup {None},
           copy : Rows, new : Rows]

TypeOK ==
    /\ routes \in [Ids -> Rows]
    /\ used \subseteq Ids /\ Present \subseteq used
    /\ req \in [Workers -> Locals]
    /\ tangled \subseteq Ids

\* "Text ROUTE NAME for traffic." (handle_list_routes): a listed name, sent
\* back in any spelling, finds the route it was listed for and no other,
\* whatever creations, renames, deletions and uses overlap, unless two renames
\* of that very route did.
ListedNameWorks ==
    \A r \in Listed \ tangled :
        ByAlias(Normalized(routes[r].name), TRUE) = {r}
=============================================================================
