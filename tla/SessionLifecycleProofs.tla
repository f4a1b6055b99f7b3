----------------------- MODULE SessionLifecycleProofs -----------------------
(* Theorems about SessionLifecycle, for any number of requests and tokens.   *)
EXTENDS SessionLifecycle, TLAPS

\* An empty slot is typed and holds nothing.
LEMMA IdleHeld == Idle \in Locals /\ Held(Idle)
BY SessionAssumption DEF Idle, Locals, Kinds, Steps, Held

LEMMA InitOrderly == Init => Orderly
<1> SUFFICES ASSUME Init PROVE Orderly
  OBVIOUS
<1>1. TypeOK
  BY IdleHeld, SessionAssumption DEF Init, TypeOK
<1>2. AllHeld
  BY IdleHeld DEF Init, AllHeld
<1>3. UsedOnce
  BY DEF Init, UsedOnce, Idle
<1> QED
  BY <1>1, <1>2, <1>3
  DEF Init, Orderly, EndedGone, RotationHasHeir

\* A step of one request that leaves rows and history alone only has to
\* account for what that request then holds.
LEMMA LocalStep ==
    ASSUME Orderly, NEW w \in Requests, NEW l \in Locals, Goto(w, l), Held(l),
           l.late => l.pc \notin Renewing,
           UNCHANGED rows, UNCHANGED history
    PROVE  Orderly'
<1> USE DEF rows, history
<1>1. TypeOK'
  BY DEF Orderly, TypeOK, Goto
<1>2. AllHeld'
  BY DEF Orderly, TypeOK, Goto, AllHeld, Held
<1>3. UsedOnce'
  BY DEF Orderly, TypeOK, Goto, UsedOnce
<1> QED
  BY <1>1, <1>2, <1>3 DEF Orderly, EndedGone, RotationHasHeir

\* A step that grows the rows and the histories keeps what every other request
\* holds.
LEMMA HeldGrows ==
    ASSUME TypeOK, NEW l \in Locals, Held(l),
           stored \subseteq stored', revoked \subseteq revoked',
           deleted \subseteq deleted', rotated \subseteq rotated',
           \A t \in stored : parent'[t] = parent[t]
    PROVE  Held(l)'
BY DEF Held, TypeOK

\* What a step of request w leaves to show, once the rows and the histories
\* only grow: its own slot.
LEMMA RequestStep ==
    ASSUME Orderly, NEW w \in Requests, NEW l \in Locals, Goto(w, l), Held(l)',
           l.late => l.pc \notin Renewing,
           stored \subseteq stored', revoked \subseteq revoked',
           deleted \subseteq deleted', rotated \subseteq rotated',
           \A t \in stored : parent'[t] = parent[t]
    PROVE  req' \in [Requests -> Locals] /\ AllHeld' /\ UsedOnce'
<1> USE DEF Orderly, Goto
<1>1. req' \in [Requests -> Locals]
  BY DEF TypeOK
<1>2. ASSUME NEW v \in Requests PROVE Held(req[v])'
  <2>1. CASE v = w
    BY <2>1 DEF TypeOK
  <2>2. CASE v # w
    <3>1. req[v] \in Locals /\ Held(req[v]) /\ req'[v] = req[v]
      BY <2>2 DEF TypeOK, AllHeld
    <3> QED
      BY <3>1, HeldGrows
  <2> QED
    BY <2>1, <2>2
<1>3. UsedOnce'
  BY DEF TypeOK, UsedOnce
<1> QED
  BY <1>1, <1>2, <1>3 DEF AllHeld

LEMMA CleanupKeeps ==
    ASSUME Orderly, NEW w \in Requests, Cleanup(w)
    PROVE  Orderly'
<1> USE DEF Orderly, Renewing, history
<1>1. req[w] \in Locals /\ Held(req[w]) /\ req[w].pc = "cleanup"
  BY DEF TypeOK, AllHeld, Cleanup
<1>2. PICK l : /\ l = IF req[w].kind = "login"
                       THEN [req[w] EXCEPT !.pc = "store", !.ver = version]
                       ELSE [req[w] EXCEPT !.pc = "lookup"]
               /\ Goto(w, l)
  BY DEF Cleanup
<1>3. l \in Locals
  BY <1>1, <1>2 DEF TypeOK, Locals, Steps
<1>4. l.kind = req[w].kind /\ l.born = req[w].born /\ l.tok = req[w].tok
      /\ l.late = req[w].late
      /\ l.pc = IF l.kind = "login" THEN "store" ELSE "lookup"
  BY <1>1, <1>2 DEF Locals
<1>5. Held(l)'
  BY <1>1, <1>4 DEF Held, Cleanup
<1>6. l.late => l.pc \notin Renewing
  BY <1>1, <1>4 DEF Held
<1>7. req' \in [Requests -> Locals] /\ AllHeld' /\ UsedOnce'
  BY <1>2, <1>3, <1>5, <1>6, RequestStep DEF Cleanup
<1> QED
  BY <1>7 DEF Cleanup, TypeOK, EndedGone, RotationHasHeir

LEMMA LookupAtExpiryKeeps ==
    ASSUME Orderly, NEW w \in Requests, LookupAtExpiry(w)
    PROVE  Orderly'
<1> USE DEF Orderly
<1>1. req[w].tok \in stored
  BY DEF LookupAtExpiry, Live
<1>2. Held(Idle)'
  BY SessionAssumption DEF Held, Idle
<1>3. req' \in [Requests -> Locals] /\ AllHeld' /\ UsedOnce'
  BY <1>2, IdleHeld, RequestStep DEF LookupAtExpiry, Idle
<1> QED
  BY <1>1, <1>3 DEF LookupAtExpiry, TypeOK, EndedGone, RotationHasHeir

LEMMA StoreKeeps ==
    ASSUME Orderly, NEW w \in Requests, Store(w)
    PROVE  Orderly'
<1> USE DEF Orderly
<1>1. req[w] \in Locals /\ Held(req[w]) /\ req[w].pc = "store"
  BY DEF TypeOK, AllHeld, Store
<1>2. PICK n \in Tokens \ stored :
         /\ stored' = stored \cup {n}
         /\ minted' = [minted EXCEPT ![n] = req[w].ver]
         /\ parent' = [parent EXCEPT ![n] = req[w].tok]
         /\ Goto(w, IF req[w].kind = "login" THEN Idle
                    ELSE [req[w] EXCEPT !.pc = "rotate", !.new = n])
  BY DEF Store
<1>3. /\ minted' \in [Tokens -> 0 .. MaxVersion]
      /\ parent' \in [Tokens -> Tokens \cup {NoToken}] /\ parent'[n] = req[w].tok
      /\ \A t \in stored : parent'[t] = parent[t]
  BY <1>1, <1>2 DEF TypeOK, Locals
<1>4. PICK l : l = IF req[w].kind = "login" THEN Idle
                   ELSE [req[w] EXCEPT !.pc = "rotate", !.new = n]
  OBVIOUS
<1>5. l \in Locals
  BY <1>1, <1>4, IdleHeld DEF Locals, Steps
<1>6. ~req[w].late
  BY <1>1 DEF UsedOnce, Renewing
<1>7. Held(l)' /\ ~l.late
  <2>1. CASE req[w].kind = "login"
    BY <2>1, <1>4, SessionAssumption DEF Held, Idle
  <2>2. CASE req[w].kind # "login"
    <3>1. /\ l.pc = "rotate" /\ l.new = n /\ l.tok = req[w].tok
          /\ l.born = req[w].born /\ ~l.late
      BY <1>1, <1>4, <1>6, <2>2 DEF Locals
    <3> QED
      BY <3>1, <1>1, <1>2, <1>3, <2>2 DEF Held, Store
  <2> QED
    BY <2>1, <2>2
<1>8. req' \in [Requests -> Locals] /\ AllHeld' /\ UsedOnce'
  BY <1>2, <1>3, <1>4, <1>5, <1>7, RequestStep DEF Store
<1>9. TypeOK'
  BY <1>2, <1>3, <1>8 DEF Store, TypeOK
<1>10. RotationHasHeir'
  BY <1>2, <1>3 DEF Store, TypeOK, RotationHasHeir
<1> QED
  BY <1>8, <1>9, <1>10 DEF Store, EndedGone

LEMMA RotateKeeps ==
    ASSUME Orderly, NEW w \in Requests, Rotate(w)
    PROVE  Orderly'
<1> USE DEF Orderly, history
<1>1. /\ req[w] \in Locals /\ Held(req[w])
      /\ req[w].pc = "rotate" /\ req[w].tok \in stored
      /\ req[w].new \in stored /\ parent[req[w].new] = req[w].tok
  BY DEF TypeOK, AllHeld, Rotate, Held
<1>2. /\ revoked \subseteq revoked' /\ revoked' \subseteq revoked \cup {req[w].tok}
      /\ UNCHANGED <<version, stored, deleted, over, minted>>
      /\ UNCHANGED <<parent, dismissed, rotated, ended>>
  BY DEF Rotate
<1>3. PICK l : /\ Goto(w, l)
               /\ \/ l = Idle
                  \/ /\ l = [req[w] EXCEPT !.pc = "answer"]
                     /\ req[w].tok \in revoked'
  BY DEF Rotate
<1>4. ~req[w].late
  BY <1>1 DEF UsedOnce, Renewing
<1>5. l \in Locals /\ ~l.late
  BY <1>1, <1>3, <1>4, IdleHeld DEF Locals, Steps, Idle
<1>6. Held(l)'
  <2>1. CASE l = Idle
    BY <2>1, SessionAssumption DEF Held, Idle
  <2>2. CASE l = [req[w] EXCEPT !.pc = "answer"] /\ req[w].tok \in revoked'
    <3>1. /\ l.pc = "answer" /\ l.tok = req[w].tok /\ l.born = req[w].born
      BY <1>1, <2>2 DEF Locals
    <3> QED
      BY <3>1, <1>1, <1>2, <1>5, <2>2 DEF Held
  <2> QED
    BY <1>3, <2>1, <2>2
<1>7. req' \in [Requests -> Locals] /\ AllHeld' /\ UsedOnce'
  BY <1>2, <1>3, <1>5, <1>6, RequestStep
<1>8. RotationHasHeir'
  BY <1>1, <1>2 DEF RotationHasHeir
<1> QED
  BY <1>1, <1>2, <1>7, <1>8 DEF TypeOK, EndedGone

LEMMA AnswerKeeps ==
    ASSUME Orderly, NEW w \in Requests, Answer(w)
    PROVE  Orderly'
<1> USE DEF Orderly, rows
<1>1. /\ req[w] \in Locals /\ Held(req[w]) /\ req[w].pc = "answer"
      /\ req[w].tok \in revoked
  BY DEF TypeOK, AllHeld, Answer, Held
<1>2. Held(Idle)'
  BY SessionAssumption DEF Held, Idle
<1>3. req' \in [Requests -> Locals] /\ AllHeld' /\ UsedOnce'
  BY <1>2, IdleHeld, RequestStep DEF Answer, Idle
<1> QED
  BY <1>1, <1>3 DEF Answer, TypeOK, EndedGone, RotationHasHeir

LEMMA RevokeKeeps ==
    ASSUME Orderly, NEW w \in Requests, Revoke(w)
    PROVE  Orderly'
<1> USE DEF Orderly
<1>1. req[w] \in Locals /\ req[w].tok \in stored
  BY DEF TypeOK, AllHeld, Revoke, Held
<1>2. Held(Idle)'
  BY SessionAssumption DEF Held, Idle
<1>3. req' \in [Requests -> Locals] /\ AllHeld' /\ UsedOnce'
  BY <1>2, IdleHeld, RequestStep DEF Revoke, Idle
<1> QED
  BY <1>1, <1>3 DEF Revoke, TypeOK, EndedGone, RotationHasHeir

LEMMA SaveVersionKeeps ==
    ASSUME Orderly, NEW w \in Requests, SaveVersion(w)
    PROVE  Orderly'
<1> USE DEF Orderly, Renewing, history
<1>1. req[w] \in Locals /\ Held(req[w]) /\ req[w].pc = "version"
  BY DEF TypeOK, AllHeld, SaveVersion
<1>2. PICK l : /\ l = IF req[w].kind = "endall"
                       THEN [req[w] EXCEPT !.pc = "select"] ELSE Idle
               /\ Goto(w, l)
  BY DEF SaveVersion
<1>3. /\ l \in Locals /\ l.pc \in {"select", "idle"}
      /\ l.born \subseteq stored
      /\ l.late => (l.tok \in rotated /\ l.kind # "login")
  BY <1>1, <1>2, IdleHeld DEF Locals, Steps, Held, Idle
<1>4. Held(l)'
  <2>1. UNCHANGED <<stored, revoked, deleted, parent, rotated>>
    BY DEF SaveVersion
  <2> QED
    BY <1>3, <2>1 DEF Held
<1>5. req' \in [Requests -> Locals] /\ AllHeld' /\ UsedOnce'
  BY <1>2, <1>3, <1>4, RequestStep DEF SaveVersion
<1>6. version' \in 0 .. MaxVersion
  BY <1>1, SessionAssumption DEF SaveVersion, Locals
<1> QED
  BY <1>5, <1>6 DEF SaveVersion, TypeOK, EndedGone, RotationHasHeir

\* The UPDATE of the rows that the SELECT found: the step that ends sessions.
LEMMA UpdateAllKeeps ==
    ASSUME Orderly, NEW w \in Requests, UpdateAll(w)
    PROVE  Orderly'
<1> USE DEF Orderly, Renewing
<1>1. /\ req[w] \in Locals /\ Held(req[w]) /\ req[w].pc = "update"
      /\ req[w].seen \subseteq stored /\ req[w].kind \in Kinds
      /\ req[w].born \subseteq revoked \cup deleted \cup req[w].seen
  BY DEF TypeOK, AllHeld, UpdateAll, Held, Locals
<1>2. PICK l : Goto(w, l) /\ l \in {Idle, [req[w] EXCEPT !.pc = "version"]}
  BY DEF UpdateAll
<1>3. /\ l \in Locals /\ l.pc \in {"version", "idle"}
      /\ l.born \subseteq stored
      /\ l.late => (l.tok \in rotated /\ l.kind # "login")
  BY <1>1, <1>2, IdleHeld DEF Locals, Steps, Held, Idle
<1>4. UNCHANGED <<version, stored, deleted, over, minted, parent, rotated>>
  BY DEF UpdateAll
<1>5. Held(l)'
  BY <1>3, <1>4 DEF Held
<1>6. revoked \subseteq revoked' /\ revoked' \subseteq stored
  BY <1>1 DEF UpdateAll, TypeOK
<1>7. req' \in [Requests -> Locals] /\ AllHeld' /\ UsedOnce'
  BY <1>2, <1>3, <1>4, <1>5, <1>6, RequestStep
<1>8. EndedGone' /\ ended' \in [Kinds -> SUBSET Tokens]
  <2>1. CASE req[w].seen \cap deleted # {}
    BY <2>1, <1>4 DEF UpdateAll, EndedGone, TypeOK
  <2>2. CASE req[w].seen \cap deleted = {}
    <3>1. /\ revoked' = revoked \cup req[w].seen
          /\ ended' = [ended EXCEPT ![req[w].kind] = @ \cup req[w].born]
      BY <2>2 DEF UpdateAll
    <3>2. req[w].born \in SUBSET Tokens
      BY <1>1 DEF Locals
    <3>3. ended' \in [Kinds -> SUBSET Tokens]
      BY <3>1, <3>2, <1>1 DEF TypeOK
    <3>4. \A k \in Kinds : ended'[k] \subseteq ended[k] \cup req[w].born
      BY <3>1, <1>1 DEF TypeOK
    <3>5. \A k \in Kinds : k # req[w].kind => ended'[k] = ended[k]
      BY <3>1, <1>1 DEF TypeOK
    <3> QED
      BY <3>1, <3>3, <3>4, <1>1, <1>4 DEF EndedGone
  <2> QED
    BY <2>1, <2>2
<1>9. dismissed' \subseteq Tokens /\ revoked' \ dismissed' \subseteq revoked \ dismissed
  BY <1>1 DEF UpdateAll, TypeOK
<1> QED
  BY <1>4, <1>6, <1>7, <1>8, <1>9 DEF TypeOK, RotationHasHeir

-----------------------------------------------------------------------------

\* Steps that only move one request on.
LEMMA BeginKeeps ==
    ASSUME Orderly, NEW w \in Requests,
           \/ BeginLogin(w) \/ BeginEndAll(w)
           \/ \E t \in Tokens : BeginRefresh(w, t) \/ BeginLogout(w, t)
    PROVE  Orderly'
<1> USE DEF Orderly, Begin, rows, history, Renewing
<1>1. CASE BeginLogin(w)
  <2>1. PICK l : l = [Idle EXCEPT !.pc = "cleanup", !.kind = "login"]
    OBVIOUS
  <2>2. l \in Locals
    BY <2>1, IdleHeld DEF Locals, Kinds, Steps
  <2>3. l.pc = "cleanup" /\ l.kind = "login" /\ l.born = {} /\ ~l.late
    BY <2>1 DEF Idle
  <2>4. Held(l)
    BY <2>3 DEF Held
  <2> QED
    BY <2>1, <2>2, <2>3, <2>4, <1>1, LocalStep DEF BeginLogin
<1>2. CASE BeginEndAll(w)
  <2>1. PICK l : l = [Idle EXCEPT !.pc = "version", !.kind = "endall",
                                  !.ver = version, !.born = stored]
    OBVIOUS
  <2>2. l \in Locals
    BY <2>1, IdleHeld DEF Locals, Kinds, Steps, TypeOK
  <2>3. l.pc = "version" /\ l.born = stored /\ ~l.late
    BY <2>1 DEF Idle
  <2>4. Held(l)
    BY <2>3 DEF Held
  <2> QED
    BY <2>1, <2>2, <2>3, <2>4, <1>2, LocalStep DEF BeginEndAll
<1>3. ASSUME NEW t \in Tokens, BeginRefresh(w, t) PROVE Orderly'
  <2>1. PICK l : l = [Idle EXCEPT !.pc = "cleanup", !.kind = "refresh", !.tok = t,
                                  !.late = t \in rotated]
    OBVIOUS
  <2>2. l \in Locals
    <3>1. PICK b \in BOOLEAN : b = (t \in rotated)
      <4>1. CASE t \in rotated
        BY <4>1, Zenon
      <4>2. CASE t \notin rotated
        <5>1. FALSE = (t \in rotated)
          BY <4>2
        <5> QED
          BY <5>1, Zenon
      <4> QED
        BY <4>1, <4>2
    <3>2. l = [Idle EXCEPT !.pc = "cleanup", !.kind = "refresh", !.tok = t,
                           !.late = b]
      BY <2>1, <3>1
    <3> QED
      BY <3>2, IdleHeld DEF Locals, Kinds, Steps
  <2>3. /\ l.pc = "cleanup" /\ l.kind = "refresh" /\ l.tok = t /\ l.born = {}
        /\ l.late => t \in rotated
    BY <2>1 DEF Idle
  <2>5. t \in stored
    BY <1>3 DEF BeginRefresh
  <2>4. Held(l)
    BY <2>3, <2>5 DEF Held
  <2> QED
    BY <2>1, <2>2, <2>3, <2>4, <1>3, LocalStep DEF BeginRefresh
<1>4. ASSUME NEW t \in Tokens, BeginLogout(w, t) PROVE Orderly'
  <2>1. PICK l : l = [Idle EXCEPT !.pc = "lookup", !.kind = "logout", !.tok = t]
    OBVIOUS
  <2>2. l \in Locals
    BY <2>1, IdleHeld DEF Locals, Kinds, Steps
  <2>3. /\ l.pc = "lookup" /\ l.kind = "logout" /\ l.tok = t /\ l.born = {}
        /\ ~l.late
    BY <2>1 DEF Idle
  <2>5. t \in stored
    BY <1>4 DEF BeginLogout
  <2>4. Held(l)
    BY <2>3, <2>5 DEF Held
  <2> QED
    BY <2>1, <2>2, <2>3, <2>4, <1>4, LocalStep DEF BeginLogout
<1> QED
  BY <1>1, <1>2, <1>3, <1>4

LEMMA LookupKeeps ==
    ASSUME Orderly, NEW w \in Requests,
           Lookup(w) \/ Touch(w) \/ LookupLogout(w) \/ SelectAll(w) \/ Fail(w)
    PROVE  Orderly'
<1> USE DEF Orderly, Renewing
<1>1. req[w] \in Locals /\ Held(req[w]) /\ rotated \subseteq revoked
  BY DEF TypeOK, AllHeld
<1>2. Held(Idle) /\ Idle \in Locals /\ ~Idle.late
  BY IdleHeld DEF Idle
<1>3. CASE Lookup(w)
  <2>1. PICK m : m = [req[w] EXCEPT !.ver = version]
    OBVIOUS
  <2>2. PICK l : /\ Goto(w, l)
                 /\ l = IF m.tok \in deleted THEN Idle
                        ELSE IF m.tok \in revoked
                        THEN [m EXCEPT !.pc = "select", !.born = stored]
                        ELSE [m EXCEPT !.pc = "touch"]
    BY <2>1, <1>3 DEF Lookup
  <2>3. l \in Locals
    BY <2>1, <2>2, <1>1, <1>2 DEF Locals, Steps, TypeOK
  <2>4. Held(l) /\ (l.late => l.pc \notin Renewing)
    BY <2>1, <2>2, <1>1, <1>2, <1>3 DEF Locals, Held, Lookup
  <2> QED
    BY <2>2, <2>3, <2>4, <1>3, LocalStep DEF Lookup
<1>4. CASE Touch(w)
  <2>1. PICK l : /\ Goto(w, l)
                 /\ l = IF req[w].tok \in deleted THEN Idle
                        ELSE [req[w] EXCEPT !.pc = "store"]
    BY <1>4 DEF Touch
  <2>2. ~req[w].late
    BY <1>4 DEF UsedOnce, Touch
  <2>3. l \in Locals /\ ~l.late /\ Held(l)
    BY <2>1, <2>2, <1>1, <1>2, <1>4 DEF Locals, Steps, Held, Touch
  <2> QED
    BY <2>1, <2>3, <1>4, LocalStep DEF Touch
<1>5. CASE LookupLogout(w)
  <2>1. PICK l : /\ Goto(w, l)
                 /\ l = IF req[w].tok \in Live THEN [req[w] EXCEPT !.pc = "revoke"]
                        ELSE Idle
    BY <1>5 DEF LookupLogout
  <2>2. /\ l \in Locals /\ Held(l)
        /\ l.late => l.pc \notin Renewing
    BY <2>1, <1>1, <1>2, <1>5 DEF Locals, Steps, Held, LookupLogout
  <2> QED
    BY <2>1, <2>2, <1>5, LocalStep DEF LookupLogout
<1>6. CASE SelectAll(w)
  <2>1. PICK l : Goto(w, l) /\ l = [req[w] EXCEPT !.pc = "update", !.seen = Live]
    BY <1>6 DEF SelectAll
  <2>2. Live \in SUBSET Tokens /\ Live = stored \ (revoked \cup deleted)
    BY DEF Live, TypeOK
  <2>3. /\ l \in Locals /\ l.pc = "update" /\ l.seen = Live /\ l.tok = req[w].tok
        /\ l.born = req[w].born /\ l.late = req[w].late /\ l.kind = req[w].kind
    BY <2>1, <2>2, <1>1 DEF Locals, Steps
  <2>4. Held(l)
    BY <2>2, <2>3, <1>1 DEF Held
  <2> QED
    BY <2>1, <2>3, <2>4, <1>6, LocalStep DEF SelectAll
<1>7. CASE Fail(w)
  BY <1>2, <1>7, LocalStep DEF Fail
<1> QED
  BY <1>3, <1>4, <1>5, <1>6, <1>7

LEMMA GrowOldKeeps ==
    ASSUME Orderly, NEW t \in Tokens, GrowOld(t)
    PROVE  Orderly'
BY DEF Orderly, GrowOld, history, TypeOK, AllHeld, Held, EndedGone, UsedOnce,
       RotationHasHeir

LEMMA NextOrderly == Orderly /\ [Next]_vars => Orderly'
<1> SUFFICES ASSUME Orderly, [Next]_vars PROVE Orderly'
  OBVIOUS
<1>1. CASE UNCHANGED vars
  BY <1>1 DEF vars, Orderly, TypeOK, AllHeld, Held, EndedGone, UsedOnce,
              Renewing, RotationHasHeir
<1>2. ASSUME NEW t \in Tokens, GrowOld(t) PROVE Orderly'
  BY <1>2, GrowOldKeeps
<1>3. ASSUME NEW w \in Requests,
             \/ BeginLogin(w)
             \/ \E t \in Tokens : BeginRefresh(w, t) \/ BeginLogout(w, t)
             \/ BeginEndAll(w) \/ Advance(w) \/ Fail(w)
      PROVE  Orderly'
  BY <1>3, BeginKeeps, CleanupKeeps, LookupKeeps, LookupAtExpiryKeeps,
     StoreKeeps, RotateKeeps, AnswerKeeps, RevokeKeeps, SaveVersionKeeps, UpdateAllKeeps
  DEF Advance
<1> QED
  BY <1>1, <1>2, <1>3 DEF Next

THEOREM AlwaysOrderly == Spec => []Orderly
<1> QED
  BY InitOrderly, NextOrderly, PTL DEF Spec

-----------------------------------------------------------------------------

\* The rows, the copies and the histories keep their types, whatever requests
\* run at once.
THEOREM TypeCorrect == Spec => []TypeOK
<1>1. Orderly => TypeOK
  BY DEF Orderly
<1> QED
  BY <1>1, AlwaysOrderly, PTL

\* A completed logout_all, password change or replay leaves no session usable
\* that existed when it began.
THEOREM EndedSessionsStayEnded == Spec => []EndedStayEnded
<1>1. Orderly => EndedStayEnded
  BY DEF Orderly, EndedGone, EndedStayEnded, Live, Accepted
<1> QED
  BY <1>1, AlwaysOrderly, PTL

\* A refresh that starts after another one finished with the same token never
\* reaches a new session.
THEOREM TokensAreUsedOnce == Spec => []UsedOnce
<1>1. Orderly => UsedOnce
  BY DEF Orderly
<1> QED
  BY <1>1, AlwaysOrderly, PTL

\* A token that only rotation revoked has a stored successor, wherever refreshes
\* die; whether the client learns of it is another matter (see Answer).
THEOREM RotationsHaveHeirs == Spec => []RotationHasHeir
<1>1. Orderly => RotationHasHeir
  BY DEF Orderly
<1> QED
  BY <1>1, AlwaysOrderly, PTL
=============================================================================
