------------------------ MODULE AccountLockoutProofs ------------------------
(* Theorems about AccountLockout, for any number of requests, names and      *)
(* addresses, any clock, and any threshold, limit, window and lock.          *)
EXTENDS AccountLockout, FiniteSetTheorems, TLAPS

\* The numbers of the invariant are numbers.
LEMMA Times ==
    ASSUME TypeOK
    PROVE  /\ now \in Nat /\ lastWrong \in Nat /\ lastWrong <= now
           /\ LockLength \in Nat /\ LockLength > 0 /\ Window \in Nat
           /\ Threshold \in Nat /\ Limit \in Nat /\ Limit > 0
<1>1. now \in 0 .. MaxTime /\ MaxTime \in Nat
  BY LockoutAssumption DEF TypeOK
<1>2. now \in Nat
  BY <1>1
<1>3. lastWrong \in 0 .. now
  BY DEF TypeOK
<1> QED
  BY <1>2, <1>3, LockoutAssumption

\* An empty slot is typed and holds nothing.
LEMMA IdleHeld ==
    ASSUME lastWrong \in Nat, LockLength \in Nat
    PROVE  Idle \in Locals /\ Held(Idle) /\ Idle.pc = "idle" /\ Idle.start = 0
<1>1. Unlocked \in Rows /\ Paired(Unlocked) /\ Unlocked.until = 0
  BY DEF Unlocked, Rows, Paired
<1>2. Idle \in Locals
  BY <1>1 DEF Idle, Locals, Kinds, Others, Steps
<1> QED
  BY <1>1, <1>2 DEF Idle, Held, Known, Explained, Logins

LEMMA InitGuarded == Init => Guarded
<1> SUFFICES ASSUME Init PROVE Guarded
  OBVIOUS
<1>1. /\ row \in Rows /\ row.until = 0 /\ ~row.locked /\ lastWrong = 0
  BY DEF Init, Unlocked, Rows
<1>2. LockLength \in Nat /\ LockLength > 0 /\ MaxTime \in Nat
  BY LockoutAssumption
<1>3. Idle \in Locals /\ Held(Idle) /\ Idle.start = 0
  BY <1>1, <1>2, IdleHeld
<1>4. TypeOK
  BY <1>1, <1>2, <1>3 DEF Init, TypeOK
<1>5. AllHeld
  BY <1>3 DEF Init, AllHeld
<1>6. FailuresExplained
  BY DEF Init, FailuresExplained
<1> QED
  BY <1>1, <1>2, <1>4, <1>5, <1>6
  DEF Guarded, LockEnds, Explained, Init

\* A step of one request keeps the invariant if what the request holds, the
\* row, the log and the histories it leaves are in order: the others only see
\* lastWrong grow, and a new lock together with a lastWrong of now.
LEMMA OneStep ==
    ASSUME Guarded, NEW w \in Requests, NEW l \in Locals,
           req' = [req EXCEPT ![w] = l], l.start <= now, Held(l)',
           now' = now, lastWrong' \in {lastWrong, now},
           row' \in Rows, Paired(row'), Explained(row)',
           row'.locked => row.locked \/ lastWrong' = now,
           failures' \in Seq(Events),
           \A i \in DOMAIN failures' : /\ failures'[i].at <= now
                                       /\ failures'[i].at < lastWrong' + LockLength
    PROVE  Guarded'
<1> USE DEF Guarded
<1>1. /\ now \in Nat /\ lastWrong \in Nat /\ lastWrong <= now
      /\ LockLength \in Nat /\ Window \in Nat
  BY Times
<1>2. lastWrong' \in 0 .. now' /\ lastWrong <= lastWrong'
  BY <1>1
<1>3. TypeOK'
  BY <1>2 DEF TypeOK
<1>4. ASSUME NEW v \in Requests PROVE Held(req[v])'
  <2>1. CASE v = w
    <3>1. req'[v] = l
      BY <2>1 DEF TypeOK
    <3> QED
      BY <3>1 DEF Held, Known, Paired, Explained
  <2>2. CASE v # w
    <3>1. /\ req'[v] = req[v] /\ req[v] \in Locals /\ Held(req[v])
          /\ req[v].start <= now
      BY <2>2 DEF TypeOK, AllHeld
    <3>2. req[v].start \in Nat /\ req[v].copy.until \in Nat
      BY <3>1 DEF Locals, Rows
    <3>3. Explained(req[v].copy)'
      BY <1>1, <1>2, <3>1, <3>2 DEF Held, Known, Explained
    <3>4. req[v].pc = "reload" /\ row'.locked => req[v].start <= lastWrong'
      BY <1>1, <1>2, <3>1, <3>2 DEF Held, Known
    <3>5. Paired(req[v].copy)'
      BY <3>1 DEF Held, Known, Paired
    <3>6. lastWrong' \in Nat /\ lastWrong <= lastWrong'
      BY <1>1, <1>2
    <3> QED
      BY <1>1, <3>1, <3>2, <3>3, <3>4, <3>5, <3>6 DEF Held, Known
  <2> QED
    BY <2>1, <2>2
<1>5. AllHeld'
  BY <1>4 DEF AllHeld
<1>6. FailuresExplained' /\ LockEnds'
  BY DEF FailuresExplained, LockEnds, Paired
<1> QED
  BY <1>3, <1>5, <1>6

\* A step that concerns one request's own state only.
LEMMA LocalStep ==
    ASSUME Guarded, NEW w \in Requests, NEW l \in Locals,
           req' = [req EXCEPT ![w] = l], l.start <= now, Held(l),
           UNCHANGED <<row, failures, now, lastWrong>>
    PROVE  Guarded'
<1>1. Held(l)'
  BY DEF Held, Known, Explained
<1>2. /\ row' \in Rows /\ Paired(row') /\ Explained(row)'
      /\ failures' \in Seq(Events)
      /\ \A i \in DOMAIN failures' : /\ failures'[i].at <= now
                                     /\ failures'[i].at < lastWrong' + LockLength
  BY DEF Guarded, TypeOK, LockEnds, Paired, Explained, FailuresExplained
<1> QED
  BY <1>1, <1>2, OneStep

-----------------------------------------------------------------------------

\* What a request in flight satisfies.
LEMMA HeldByAll ==
    ASSUME Guarded, NEW w \in Requests
    PROVE  /\ req[w] \in Locals /\ Held(req[w]) /\ req[w].start <= now
           /\ req[w].start \in Nat /\ req[w].copy \in Rows
           /\ Paired(req[w].copy) /\ Explained(req[w].copy) /\ Known(req[w])
<1>1. req[w] \in Locals /\ Held(req[w]) /\ req[w].start <= now
  BY DEF Guarded, TypeOK, AllHeld
<1> QED
  BY <1>1 DEF Locals, Held, Known

\* The log is typed.
LEMMA FailureTimes ==
    ASSUME Guarded
    PROVE  \A i \in DOMAIN failures : /\ failures[i].at \in Nat
                                      /\ failures[i].at <= now
                                      /\ failures[i].at < lastWrong + LockLength
<1>1. ASSUME NEW i \in DOMAIN failures PROVE failures[i] \in Events
  <2>1. failures \in Seq(Events)
    BY DEF Guarded, TypeOK
  <2> QED
    BY <2>1
<1>2. \A i \in DOMAIN failures : failures[i].at \in Nat
  BY <1>1 DEF Events
<1> QED
  BY <1>2 DEF Guarded, TypeOK, FailuresExplained

LEMMA BeginKeeps ==
    ASSUME Guarded, NEW w \in Requests,
           \/ \E k \in Logins, n \in Names, a \in Addresses : BeginLogin(w, k, n, a)
           \/ \E k \in Others : BeginOther(w, k)
    PROVE  Guarded'
<1>1. /\ now \in Nat /\ lastWrong \in Nat /\ lastWrong <= now
      /\ LockLength \in Nat /\ LockLength > 0 /\ Window \in Nat
  BY Times DEF Guarded
<1>2. Unlocked \in Rows /\ Paired(Unlocked) /\ Unlocked.until = 0
  BY DEF Unlocked, Rows, Paired
<1>3. ASSUME NEW k \in Logins, NEW n \in Names, NEW a \in Addresses,
             BeginLogin(w, k, n, a)
      PROVE  Guarded'
  <2>1. PICK l : l = [pc |-> "count", kind |-> k, name |-> n, addr |-> a,
                      start |-> now, copy |-> Unlocked]
    OBVIOUS
  <2>2. /\ l \in Locals /\ l.start <= now
        /\ req' = [req EXCEPT ![w] = l]
    BY <1>1, <1>2, <1>3, <2>1 DEF BeginLogin, Locals, Kinds, Steps
  <2>3. /\ lastWrong' \in {lastWrong, now} /\ lastWrong <= lastWrong'
        /\ k = "wrong" => lastWrong' = now
        /\ UNCHANGED <<row, failures, now>>
    BY <1>1, <1>3 DEF BeginLogin
  <2>4. Held(l)'
    BY <1>1, <1>2, <2>1, <2>3 DEF Held, Known, Paired, Explained
  <2>5. row' \in Rows /\ Paired(row')
    BY <2>3 DEF Guarded, TypeOK, LockEnds, Paired
  <2>6. Explained(row)'
    BY <1>1, <2>3 DEF Guarded, TypeOK, Explained, Rows
  <2>7. /\ failures' \in Seq(Events)
        /\ \A i \in DOMAIN failures' : /\ failures'[i].at <= now
                                       /\ failures'[i].at < lastWrong' + LockLength
    <3>1. failures' \in Seq(Events)
      BY <2>3 DEF Guarded, TypeOK
    <3> QED
      BY <1>1, <2>3, <3>1, FailureTimes
  <2> QED
    BY <2>2, <2>3, <2>4, <2>5, <2>6, <2>7, OneStep
<1>4. ASSUME NEW k \in Others, BeginOther(w, k) PROVE Guarded'
  <2>1. PICK l : l = [pc |-> "load", kind |-> k, name |-> None, addr |-> None,
                      start |-> 0, copy |-> Unlocked]
    OBVIOUS
  <2>2. l \in Locals /\ l.start <= now
    BY <1>1, <1>2, <2>1 DEF Locals, Kinds, Steps
  <2>3. k # "wrong" /\ k \notin Logins
    BY DEF Others, Logins
  <2>4. Held(l)
    BY <1>1, <1>2, <2>1, <2>3 DEF Held, Known, Explained, Paired
  <2> QED
    BY <1>4, <2>1, <2>2, <2>4, LocalStep DEF BeginOther
<1> QED
  BY <1>3, <1>4

\* A sign-in is limited only when a failure lies in its window.
LEMMA LimitedExplained ==
    ASSUME Guarded, NEW r \in Locals, Limited(r)
    PROVE  r.start < lastWrong + LockLength + Window
<1>1. /\ lastWrong \in Nat /\ LockLength \in Nat /\ Window \in Nat
      /\ Limit \in Nat /\ Limit > 0 /\ r.start \in Nat
  BY Times DEF Guarded, Locals
<1>2. ASSUME NEW I \in SUBSET DOMAIN failures, Recent(I, r.start) >= Limit
      PROVE  \E i \in DOMAIN failures : failures[i].at + Window >= r.start
  <2>1. SUFFICES ASSUME {i \in I : failures[i].at + Window >= r.start} = {}
                 PROVE  FALSE
    BY <1>2
  <2>2. Recent(I, r.start) = 0
    BY <2>1, FS_EmptySet DEF Recent
  <2> QED
    BY <1>1, <1>2, <2>2
<1>3. Named(r.name) \in SUBSET DOMAIN failures /\ From(r.addr) \in SUBSET DOMAIN failures
  BY DEF Named, From
<1>4. PICK i \in DOMAIN failures : failures[i].at + Window >= r.start
  BY <1>2, <1>3 DEF Limited
<1>5. failures[i].at \in Nat /\ failures[i].at < lastWrong + LockLength
  BY <1>4, FailureTimes
<1> QED
  BY <1>1, <1>4, <1>5

LEMMA CountKeeps ==
    ASSUME Guarded, NEW w \in Requests, Count(w)
    PROVE  Guarded'
<1>1. req[w] \in Locals /\ Held(req[w]) /\ req[w].start <= now
  BY HeldByAll
<1>2. CASE Limited(req[w])
  <2>1. PICK l : l = [req[w] EXCEPT !.pc = "limited"]
    OBVIOUS
  <2>2. l \in Locals /\ l.start <= now
    BY <1>1, <2>1 DEF Locals, Steps
  <2>3. Held(l)
    BY <1>1, <1>2, <2>1, LimitedExplained DEF Count, Held, Known, Locals
  <2> QED
    BY <1>1, <1>2, <2>1, <2>2, <2>3, LocalStep DEF Count, Goto
<1>3. CASE ~Limited(req[w])
  <2>1. PICK l : l = [req[w] EXCEPT !.pc = "load"]
    OBVIOUS
  <2>2. l \in Locals /\ l.start <= now
    BY <1>1, <2>1 DEF Locals, Steps
  <2>3. Held(l)
    BY <1>1, <2>1 DEF Count, Held, Known, Locals
  <2> QED
    BY <1>1, <1>3, <2>1, <2>2, <2>3, LocalStep DEF Count, Goto
<1> QED
  BY <1>2, <1>3

\* Taking a copy changes two fields.
LEMMA HoldFields ==
    ASSUME NEW r \in Locals, NEW pc \in Steps, NEW c \in Rows
    PROVE  /\ Hold(r, pc, c) \in Locals
           /\ Hold(r, pc, c).pc = pc /\ Hold(r, pc, c).copy = c
           /\ Hold(r, pc, c).kind = r.kind /\ Hold(r, pc, c).start = r.start
           /\ Hold(r, pc, c).name = r.name /\ Hold(r, pc, c).addr = r.addr
BY DEF Hold, Locals

\* A request that looks at a lock goes on as the invariant asks, whether the
\* copy is the row it just read or one that it read before.
LEMMA RefusedHeld ==
    ASSUME Guarded, NEW r \in Locals, r.start <= now, Known(r),
           r.kind \in Logins => r.start < lastWrong + LockLength,
           r.kind = "wrong" => r.start <= lastWrong
    PROVE  Refused(r) \in Locals /\ Refused(r).start <= now /\ Held(Refused(r))
<1>1. /\ now \in Nat /\ lastWrong \in Nat /\ LockLength \in Nat
  BY Times DEF Guarded
<1>2. CASE r.kind \in Logins
  <2>1. Unlocked \in Rows /\ Paired(Unlocked) /\ Explained(Unlocked)
    BY <1>1 DEF Unlocked, Rows, Paired, Explained
  <2>2. PICK l : l = Hold(r, "fail", Unlocked)
    OBVIOUS
  <2>3. /\ l \in Locals /\ l.pc = "fail" /\ l.copy = Unlocked
        /\ l.kind = r.kind /\ l.start = r.start
        /\ l.name = r.name /\ l.addr = r.addr
    <3>1. "fail" \in Steps
      BY DEF Steps
    <3> QED
      BY <2>1, <2>2, <3>1, HoldFields
  <2>4. Held(l)
    BY <1>2, <2>1, <2>3 DEF Held, Known
  <2> QED
    BY <1>2, <2>2, <2>3, <2>4 DEF Refused
<1>3. CASE r.kind \notin Logins
  BY <1>1, <1>3, IdleHeld DEF Refused
<1> QED
  BY <1>2, <1>3

LEMMA AdmittedHeld ==
    ASSUME Guarded, NEW r \in Locals, NEW c \in Rows, r.start <= now,
           Known(r), ~c.locked, Paired(c), Explained(c), r.kind # "reset",
           r.kind = "wrong" => r.start <= lastWrong
    PROVE  /\ Admitted(r, c) \in Locals /\ Admitted(r, c).start <= now
           /\ Held(Admitted(r, c))
<1>1. /\ now \in Nat /\ lastWrong \in Nat /\ LockLength \in Nat
  BY Times DEF Guarded
<1>2. CASE r.kind = "visit"
  BY <1>1, <1>2, IdleHeld DEF Admitted
<1>3. CASE r.kind # "visit"
  <2>1. PICK pc \in Steps : pc = IF r.kind = "change" THEN "save" ELSE "verify"
    BY DEF Steps
  <2>2. PICK l : l = Hold(r, pc, c)
    OBVIOUS
  <2>3. /\ l \in Locals /\ l.pc = pc /\ l.copy = c
        /\ l.kind = r.kind /\ l.start = r.start
        /\ l.name = r.name /\ l.addr = r.addr
    BY <2>2, HoldFields
  <2>4. pc = "verify" => r.kind \in Logins
    BY <1>3, <2>1 DEF Locals, Kinds, Others
  <2>5. Held(l)
    BY <2>1, <2>3, <2>4 DEF Held, Known
  <2> QED
    BY <1>3, <2>1, <2>2, <2>3, <2>5 DEF Admitted
<1> QED
  BY <1>2, <1>3

LEMMA MetHeld ==
    ASSUME Guarded, NEW r \in Locals, NEW c \in Rows, r.start <= now,
           Known(r), Paired(c), Explained(c), r.kind # "reset",
           r.kind = "wrong" => r.start <= lastWrong
    PROVE  Met(r, c) \in Locals /\ Met(r, c).start <= now /\ Held(Met(r, c))
<1>1. /\ now \in Nat /\ lastWrong \in Nat /\ LockLength \in Nat
      /\ c.until \in Nat /\ r.start \in Nat
  BY Times DEF Guarded, Rows, Locals
<1>2. CASE Expired(c, Instant(r))
  <2>1. PICK l : l = Hold(r, "unlock", c)
    OBVIOUS
  <2>2. /\ l \in Locals /\ l.pc = "unlock" /\ l.copy = c
        /\ l.kind = r.kind /\ l.start = r.start
        /\ l.name = r.name /\ l.addr = r.addr
    <3>1. "unlock" \in Steps
      BY DEF Steps
    <3> QED
      BY <2>1, <3>1, HoldFields
  <2>3. c.until <= now
    BY <1>1, <1>2 DEF Expired, Instant
  <2>4. Held(l)
    BY <1>2, <2>2, <2>3 DEF Held, Known, Expired
  <2> QED
    BY <1>2, <2>1, <2>2, <2>4 DEF Met
<1>3. CASE ~Expired(c, Instant(r)) /\ c.locked
  <2>1. r.kind \in Logins => r.start < lastWrong + LockLength
    BY <1>1, <1>3 DEF Expired, Instant, Paired, Explained
  <2> QED
    BY <1>3, <2>1, RefusedHeld DEF Met
<1>4. CASE ~Expired(c, Instant(r)) /\ ~c.locked
  BY <1>4, AdmittedHeld DEF Met
<1> QED
  BY <1>2, <1>3, <1>4

LEMMA LoadKeeps ==
    ASSUME Guarded, NEW w \in Requests, Load(w) \/ Check(w)
    PROVE  Guarded'
<1>1. /\ req[w] \in Locals /\ Held(req[w]) /\ req[w].start <= now
      /\ req[w].copy \in Rows /\ Paired(req[w].copy) /\ Explained(req[w].copy) /\ Known(req[w])
  BY HeldByAll
<1>2. row \in Rows /\ Paired(row) /\ Explained(row)
  BY DEF Guarded, TypeOK, LockEnds, Paired
<1>3. req[w].kind = "wrong" => req[w].start <= lastWrong
  BY <1>1 DEF Held, Known
<1>4. CASE Load(w) /\ req[w].kind \in Logins
  <2>1. req[w].kind # "reset" /\ req[w].kind \notin Others
    BY <1>4 DEF Logins, Others
  <2>2. req' = [req EXCEPT ![w] = Met(req[w], row)]
    BY <1>4, <2>1 DEF Load
  <2> QED
    BY <1>1, <1>2, <1>3, <1>4, <2>1, <2>2, MetHeld, LocalStep DEF Load
<1>5. CASE Load(w) /\ req[w].kind \notin Logins
  <2>1. PICK pc \in Steps :
             /\ req' = [req EXCEPT ![w] = Hold(req[w], pc, row)]
             /\ pc = IF req[w].kind = "reset" THEN "save" ELSE "check"
    BY <1>5 DEF Load, Steps
  <2>2. PICK l : l = Hold(req[w], pc, row)
    OBVIOUS
  <2>3. /\ l \in Locals /\ l.pc = pc /\ l.copy = row
        /\ l.kind = req[w].kind /\ l.start = req[w].start
        /\ l.name = req[w].name /\ l.addr = req[w].addr
    BY <1>1, <1>2, <2>1, <2>2, HoldFields
  <2>4. Held(l)
    BY <1>1, <1>2, <1>3, <2>1, <2>3 DEF Held, Known
  <2> QED
    BY <1>1, <1>5, <2>1, <2>2, <2>3, <2>4, LocalStep DEF Load
<1>6. CASE Check(w)
  <2>1. req[w].kind # "reset"
    BY <1>1, <1>6 DEF Held, Check
  <2> QED
    BY <1>1, <1>3, <1>6, <2>1, MetHeld, LocalStep DEF Check
<1> QED
  BY <1>4, <1>5, <1>6

\* Saving a copy with the lock columns cleared clears both or leaves both.
LEMMA SavedClears ==
    ASSUME row \in Rows, Paired(row), NEW c \in Rows, Paired(c)
    PROVE  LET new == Saved(c, Unlocked)
           IN  /\ new \in Rows /\ Paired(new)
               /\ c.locked => ~new.locked /\ new.until = 0
               /\ ~c.locked => /\ new.locked = row.locked
                                /\ new.until = row.until
<1>1. CASE c.locked
  BY <1>1 DEF Saved, Unlocked, Rows, Paired
<1>2. CASE ~c.locked
  <2>1. c.until = 0 /\ c.locked = FALSE
    BY <1>2 DEF Paired, Rows
  <2> QED
    BY <1>2, <2>1 DEF Saved, Unlocked, Rows, Paired
<1> QED
  BY <1>1, <1>2

\* What a step that saves such a copy leaves behind.
LEMMA ClearStep ==
    ASSUME Guarded, NEW w \in Requests, row' = Saved(req[w].copy, Unlocked),
           UNCHANGED <<failures, now, lastWrong>>
    PROVE  /\ row' \in Rows /\ Paired(row') /\ Explained(row)'
           /\ row'.locked => row.locked
           /\ req[w].copy.locked => ~row'.locked
           /\ failures' \in Seq(Events)
           /\ \A i \in DOMAIN failures' : /\ failures'[i].at <= now
                                          /\ failures'[i].at < lastWrong' + LockLength
<1>1. /\ row \in Rows /\ Paired(row) /\ Explained(row)
      /\ failures \in Seq(Events)
      /\ lastWrong \in Nat /\ LockLength \in Nat
  BY Times DEF Guarded, TypeOK, LockEnds, Paired
<1>2. req[w].copy \in Rows /\ Paired(req[w].copy)
  BY HeldByAll
<1>3. /\ row' \in Rows /\ Paired(row')
      /\ req[w].copy.locked => ~row'.locked /\ row'.until = 0
      /\ ~req[w].copy.locked => row'.locked = row.locked /\ row'.until = row.until
  BY <1>1, <1>2, SavedClears
<1>4. Explained(row)'
  <2>1. CASE req[w].copy.locked
    BY <1>1, <1>3, <2>1 DEF Explained
  <2>2. CASE ~req[w].copy.locked
    BY <1>1, <1>3, <2>2 DEF Explained
  <2> QED
    BY <2>1, <2>2
<1>5. row'.locked => row.locked
  BY <1>3
<1>6. /\ failures' \in Seq(Events)
      /\ \A i \in DOMAIN failures' : /\ failures'[i].at <= now
                                     /\ failures'[i].at < lastWrong' + LockLength
  BY <1>1, FailureTimes
<1> QED
  BY <1>3, <1>4, <1>5, <1>6

LEMMA UnlockKeeps ==
    ASSUME Guarded, NEW w \in Requests, Unlock(w)
    PROVE  Guarded'
<1>1. /\ req[w] \in Locals /\ Held(req[w]) /\ req[w].start <= now
  BY HeldByAll
<1>2. req[w].copy.locked /\ req[w].kind # "reset"
  BY <1>1 DEF Unlock, Held
<1>3. row' = Saved(req[w].copy, Unlocked) /\ UNCHANGED <<failures, now, lastWrong>>
  BY DEF Unlock
<1>4. /\ row' \in Rows /\ Paired(row') /\ Explained(row)' /\ ~row'.locked
      /\ failures' \in Seq(Events)
      /\ \A i \in DOMAIN failures' : /\ failures'[i].at <= now
                                     /\ failures'[i].at < lastWrong' + LockLength
  BY <1>2, <1>3, ClearStep
<1>5. PICK l : l = [req[w] EXCEPT !.pc = "reload"]
  OBVIOUS
<1>6. /\ l \in Locals /\ l.start <= now /\ req' = [req EXCEPT ![w] = l]
  BY <1>1, <1>5 DEF Locals, Steps, Unlock, Goto
<1>7. Held(l)'
  BY <1>1, <1>2, <1>3, <1>4, <1>5 DEF Held, Known, Locals, Paired, Explained
<1> QED
  BY <1>3, <1>4, <1>6, <1>7, OneStep

LEMMA ReloadKeeps ==
    ASSUME Guarded, NEW w \in Requests, Reload(w)
    PROVE  Guarded'
<1>1. /\ req[w] \in Locals /\ Held(req[w]) /\ req[w].start <= now
      /\ req[w].start \in Nat /\ Known(req[w])
  BY HeldByAll
<1>2. row \in Rows /\ Paired(row) /\ Explained(row)
  BY DEF Guarded, TypeOK, LockEnds, Paired
<1>3. /\ req[w].kind # "reset"
      /\ row.locked => req[w].start <= lastWrong
      /\ req[w].kind = "wrong" => req[w].start <= lastWrong
      /\ UNCHANGED <<row, failures, now, lastWrong>>
  BY <1>1 DEF Reload, Held
<1>4. CASE row.locked
  <2>1. req[w].start < lastWrong + LockLength
    BY <1>1, <1>3, <1>4, Times DEF Guarded
  <2>2. req' = [req EXCEPT ![w] = Refused(req[w])]
    BY <1>4 DEF Reload
  <2> QED
    BY <1>1, <1>3, <2>1, <2>2, RefusedHeld, LocalStep
<1>5. CASE ~row.locked
  <2>1. req' = [req EXCEPT ![w] = Admitted(req[w], row)]
    BY <1>5 DEF Reload
  <2> QED
    BY <1>1, <1>2, <1>3, <1>5, <2>1, AdmittedHeld, LocalStep
<1> QED
  BY <1>4, <1>5

LEMMA PasswordKeeps ==
    ASSUME Guarded, NEW w \in Requests, RightPassword(w) \/ SavePassword(w)
    PROVE  Guarded'
<1>1. /\ row' = Saved(req[w].copy, Unlocked) /\ UNCHANGED <<failures, now, lastWrong>>
      /\ req' = [req EXCEPT ![w] = Idle]
  BY DEF RightPassword, SavePassword, Finish
<1>2. /\ row' \in Rows /\ Paired(row') /\ Explained(row)'
      /\ row'.locked => row.locked
      /\ failures' \in Seq(Events)
      /\ \A i \in DOMAIN failures' : /\ failures'[i].at <= now
                                     /\ failures'[i].at < lastWrong' + LockLength
  BY <1>1, ClearStep
<1>3. /\ Idle \in Locals /\ Idle.start <= now /\ Held(Idle)
      /\ now \in Nat
  BY IdleHeld, Times DEF Guarded
<1>4. Held(Idle)'
  BY <1>1, <1>3, Times DEF Guarded, Held, Known, Idle, Explained, Paired, Unlocked, Logins
<1> QED
  BY <1>1, <1>2, <1>3, <1>4, OneStep

\* A wrong password sets both lock columns, relative to a copy without a lock,
\* or neither.
LEMMA WrongPasswordKeeps ==
    ASSUME Guarded, NEW w \in Requests, WrongPassword(w)
    PROVE  Guarded'
<1>1. /\ req[w] \in Locals /\ Held(req[w]) /\ req[w].start <= now
      /\ req[w].start \in Nat /\ req[w].copy \in Rows /\ Paired(req[w].copy)
  BY HeldByAll
<1>2. /\ req[w].kind = "wrong" /\ ~req[w].copy.locked /\ req[w].copy.until = 0
      /\ req[w].copy.attempts \in Nat
  BY <1>1 DEF WrongPassword, Held, Paired, Rows
<1>3. /\ now \in Nat /\ lastWrong \in Nat /\ lastWrong <= now
      /\ LockLength \in Nat /\ LockLength > 0 /\ Threshold \in Nat
  BY Times DEF Guarded
<1>4. /\ row \in Rows /\ Paired(row) /\ Explained(row)
      /\ failures \in Seq(Events)
      /\ row.until \in Nat /\ row.attempts \in Nat
  BY DEF Guarded, TypeOK, LockEnds, Paired, Rows
<1>5. /\ lastWrong' = now /\ UNCHANGED <<failures, now>>
      /\ req' = [req EXCEPT ![w] = Refused(req[w])]
  BY DEF WrongPassword
<1>6. /\ row' \in Rows /\ Paired(row') /\ Explained(row)'
  <2>1. CASE req[w].copy.attempts + 1 >= Threshold
    <3>1. PICK new : new = [attempts |-> req[w].copy.attempts + 1, locked |-> TRUE,
                            until |-> req[w].start + LockLength]
      OBVIOUS
    <3>2. row' = Saved(req[w].copy, new)
      BY <2>1, <3>1 DEF WrongPassword, Failed
    <3>3. /\ new.attempts # req[w].copy.attempts
          /\ new.locked # req[w].copy.locked
          /\ new.until # req[w].copy.until
      <4>1. new.attempts # req[w].copy.attempts /\ new.until # req[w].copy.until
        BY <1>1, <1>2, <1>3, <3>1
      <4>2. new.locked /\ ~req[w].copy.locked
        BY <1>2, <3>1
      <4> QED
        BY <4>1, <4>2
    <3>4. row' = [attempts |-> new.attempts, locked |-> new.locked,
                  until |-> new.until]
      BY <3>2, <3>3 DEF Saved
    <3>5. /\ row' \in Rows /\ row'.locked
          /\ row'.until = req[w].start + LockLength
      BY <1>1, <1>2, <1>3, <3>1, <3>4 DEF Rows
    <3> QED
      BY <1>1, <1>3, <1>5, <3>1, <3>2, <3>5 DEF Paired, Explained
  <2>2. CASE ~(req[w].copy.attempts + 1 >= Threshold)
    <3>1. PICK new : new = [req[w].copy EXCEPT !.attempts = req[w].copy.attempts + 1]
      OBVIOUS
    <3>2. row' = Saved(req[w].copy, new)
      BY <2>2, <3>1 DEF WrongPassword, Failed
    <3>3. /\ new.attempts = req[w].copy.attempts + 1
          /\ new.attempts # req[w].copy.attempts
          /\ new.locked = req[w].copy.locked /\ new.until = req[w].copy.until
      BY <1>1, <1>2, <3>1 DEF Rows
    <3>4. row' = [attempts |-> new.attempts, locked |-> row.locked,
                  until |-> row.until]
      BY <3>2, <3>3 DEF Saved
    <3>5. /\ row' \in Rows /\ row'.locked = row.locked
          /\ row'.until = row.until
      BY <1>2, <1>4, <3>3, <3>4 DEF Rows
    <3> QED
      BY <1>3, <1>4, <1>5, <3>2, <3>5 DEF Paired, Explained
  <2> QED
    BY <2>1, <2>2
<1>7. /\ failures' \in Seq(Events)
      /\ \A i \in DOMAIN failures' : /\ failures'[i].at <= now
                                     /\ failures'[i].at < lastWrong' + LockLength
  BY <1>3, <1>4, <1>5, FailureTimes
<1>8. PICK l : l = Hold(req[w], "fail", Unlocked)
  OBVIOUS
<1>9. Unlocked \in Rows /\ Paired(Unlocked) /\ Unlocked.until = 0
  BY DEF Unlocked, Rows, Paired
<1>10. /\ l \in Locals /\ l.pc = "fail" /\ l.copy = Unlocked
       /\ l.kind = req[w].kind /\ l.start = req[w].start
       /\ l.name = req[w].name /\ l.addr = req[w].addr
  <2>1. "fail" \in Steps
    BY DEF Steps
  <2> QED
    BY <1>1, <1>8, <1>9, <2>1, HoldFields
<1>11. l = Refused(req[w])
  BY <1>2, <1>8 DEF Refused, Logins
<1>12. Held(l)'
  BY <1>1, <1>2, <1>3, <1>5, <1>9, <1>10 DEF Held, Known, Paired, Explained, Logins
<1> QED
  BY <1>1, <1>5, <1>6, <1>7, <1>10, <1>11, <1>12, OneStep

\* A failure is logged with the time at which the refused request began.
LEMMA LogFailureKeeps ==
    ASSUME Guarded, NEW w \in Requests, LogFailure(w)
    PROVE  Guarded'
<1>1. /\ req[w] \in Locals /\ Held(req[w]) /\ req[w].start <= now
      /\ req[w].start \in Nat
  BY HeldByAll
<1>2. /\ now \in Nat /\ lastWrong \in Nat /\ LockLength \in Nat
  BY Times DEF Guarded
<1>3. PICK e : e = Event(req[w])
  OBVIOUS
<1>4. e \in Events /\ e.at <= now /\ e.at < lastWrong + LockLength
  BY <1>1, <1>3 DEF Event, Events, LogFailure, Held, Known
<1>5. /\ failures' = Append(failures, e) /\ UNCHANGED <<row, now, lastWrong>>
      /\ req' = [req EXCEPT ![w] = Idle]
  BY <1>3 DEF LogFailure, Finish
<1>6. failures \in Seq(Events) /\ failures' \in Seq(Events)
  BY <1>4, <1>5 DEF Guarded, TypeOK
<1>7. ASSUME NEW i \in DOMAIN failures'
      PROVE  \/ failures'[i] = e
             \/ i \in DOMAIN failures /\ failures'[i] = failures[i]
  BY <1>5, <1>6
<1>8. \A i \in DOMAIN failures' : /\ failures'[i].at <= now
                                 /\ failures'[i].at < lastWrong' + LockLength
  BY <1>4, <1>5, <1>7, FailureTimes
<1>9. Idle \in Locals /\ Idle.start <= now /\ Held(Idle)
  BY <1>2, IdleHeld
<1>10. /\ Held(Idle)' /\ row' \in Rows /\ Paired(row') /\ Explained(row)'
  BY <1>5, <1>9 DEF Held, Known, Explained, Guarded, TypeOK, LockEnds, Paired
<1> QED
  BY <1>5, <1>6, <1>8, <1>9, <1>10, OneStep

LEMMA RestKeeps ==
    ASSUME Guarded, NEW w \in Requests, LogLimited(w) \/ Crash(w)
    PROVE  Guarded'
BY IdleHeld, Times, LocalStep DEF LogLimited, Crash, Finish, Guarded

LEMMA TickKeeps ==
    ASSUME Guarded, Tick
    PROVE  Guarded'
<1>1. /\ now \in Nat /\ now' = now + 1 /\ now' \in 0 .. MaxTime
      /\ lastWrong \in Nat /\ lastWrong <= now
      /\ UNCHANGED <<row, failures, req, lastWrong>>
  BY Times, LockoutAssumption DEF Tick, Guarded, TypeOK
<1>2. \A i \in DOMAIN failures : failures[i].at <= now'
  BY <1>1, FailureTimes
<1>3. \A w \in Requests : req[w].start <= now'
  BY <1>1, HeldByAll
<1>4. TypeOK'
  BY <1>1, <1>2, <1>3 DEF Guarded, TypeOK
<1>5. ASSUME NEW w \in Requests PROVE Held(req[w])'
  <2>1. Held(req[w]) /\ req[w].copy.until \in Nat
    BY HeldByAll DEF Rows
  <2> QED
    BY <1>1, <2>1 DEF Held, Known, Explained, Paired
<1> QED
  BY <1>1, <1>4, <1>5 DEF Guarded, AllHeld, Explained, FailuresExplained, LockEnds

LEMMA NextGuarded == Guarded /\ [Next]_vars => Guarded'
<1> SUFFICES ASSUME Guarded, [Next]_vars PROVE Guarded'
  OBVIOUS
<1>1. CASE UNCHANGED vars
  BY <1>1 DEF vars, Guarded, TypeOK, AllHeld, Held, Known, Explained, Paired,
              FailuresExplained, LockEnds
<1>2. CASE Next
  BY <1>2, TickKeeps, BeginKeeps, CountKeeps, LoadKeeps, UnlockKeeps, ReloadKeeps,
     WrongPasswordKeeps, PasswordKeeps, LogFailureKeeps, RestKeeps DEF Next
<1> QED
  BY <1>1, <1>2

THEOREM AlwaysGuarded == Spec => []Guarded
<1> QED
  BY InitGuarded, NextGuarded, PTL DEF Spec

-----------------------------------------------------------------------------

\* Columns, copies and log keep their types, and nothing lies in the future.
THEOREM TypeCorrect == Spec => []TypeOK
<1>1. Guarded => TypeOK
  BY DEF Guarded
<1> QED
  BY <1>1, AlwaysGuarded, PTL

\* A locked account always has an end of its lock, whichever requests write the
\* two columns from copies of whichever age.
THEOREM LocksAlwaysEnd == Spec => []LockEnds
<1>1. Guarded => LockEnds
  BY DEF Guarded
<1> QED
  BY <1>1, AlwaysGuarded, PTL

\* A lock in force is lifted or shortened only by a reset that saw a lock, by a
\* wrong password that sets the end of its own, or by a request whose copy shows
\* an earlier lock, which was over.
THEOREM LocksHold == Spec => LockHolds
<1> DEFINE Weakened == /\ row.locked /\ row.until > now
                       /\ ~(row'.locked /\ row'.until >= row.until)
           Excused(w) ==
             \/ SavePassword(w) /\ req[w].kind = "reset" /\ req[w].copy.locked
             \/ WrongPassword(w) /\ row'.locked
                                 /\ row'.until = req[w].start + LockLength
             \/ Unlock(w) /\ req[w].copy.until < row.until
<1>1. ASSUME Guarded, Next, Weakened
      PROVE  \E w \in Requests : Excused(w)
  <2>1. /\ row \in Rows /\ Paired(row) /\ row.until \in Nat /\ now \in Nat
    BY <1>1, Times DEF Guarded, TypeOK, LockEnds, Paired, Rows
  <2>2. row' # row
    BY <1>1, <2>1
  <2>3. PICK w \in Requests : \/ Unlock(w) \/ WrongPassword(w)
                              \/ RightPassword(w) \/ SavePassword(w)
    BY <1>1, <2>2
    DEF Next, Tick, BeginLogin, BeginOther, Count, Load, Check, Reload,
        LogFailure, LogLimited, Crash
  <2>4. /\ req[w] \in Locals /\ Held(req[w]) /\ req[w].copy \in Rows
        /\ Paired(req[w].copy) /\ req[w].start \in Nat
    BY <1>1, HeldByAll
  <2>5. CASE Unlock(w)
    <3>1. req[w].copy.until <= now /\ req[w].copy.until \in Nat
      BY <2>4, <2>5 DEF Unlock, Held, Rows
    <3> QED
      BY <1>1, <2>1, <2>5, <3>1
  <2>6. CASE WrongPassword(w)
    <3>1. ~req[w].copy.locked /\ req[w].copy.until = 0
      BY <2>4, <2>6 DEF WrongPassword, Held, Paired, Rows
    <3>2. PICK new : new = Failed(req[w].copy, req[w].start)
      OBVIOUS
    <3>3. row' = Saved(req[w].copy, new)
      BY <2>6, <3>2 DEF WrongPassword
    <3>4. CASE req[w].copy.attempts + 1 >= Threshold
      <4>1. new.locked /\ new.until = req[w].start + LockLength
        BY <3>2, <3>4 DEF Failed
      <4>2. /\ new.locked # req[w].copy.locked
            /\ new.until # req[w].copy.until
        <5>1. req[w].start + LockLength # 0
          BY <2>4, LockoutAssumption
        <5> QED
          BY <3>1, <4>1, <5>1
      <4>3. row'.locked /\ row'.until = req[w].start + LockLength
        BY <3>3, <4>1, <4>2 DEF Saved
      <4> QED
        BY <2>6, <4>3
    <3>5. CASE ~(req[w].copy.attempts + 1 >= Threshold)
      <4>1. /\ new.locked = req[w].copy.locked
            /\ new.until = req[w].copy.until
        BY <2>4, <3>2, <3>5 DEF Failed, Rows
      <4>2. row'.locked = row.locked /\ row'.until = row.until
        BY <3>3, <4>1 DEF Saved
      <4> QED
        BY <1>1, <2>1, <4>2
    <3> QED
      BY <3>4, <3>5
  <2>7. CASE (RightPassword(w) \/ SavePassword(w)) /\ ~req[w].copy.locked
    <3>1. row' = Saved(req[w].copy, Unlocked)
      BY <2>7 DEF RightPassword, SavePassword
    <3>2. row'.locked = row.locked /\ row'.until = row.until
      BY <2>1, <2>4, <2>7, <3>1, SavedClears
    <3> QED
      BY <1>1, <2>1, <3>2
  <2>8. CASE (RightPassword(w) \/ SavePassword(w)) /\ req[w].copy.locked
    <3>1. ~RightPassword(w)
      BY <2>4, <2>8 DEF RightPassword, Held
    <3>2. SavePassword(w) /\ req[w].kind = "reset"
      BY <2>4, <2>8, <3>1 DEF SavePassword, Held
    <3> QED
      BY <2>8, <3>2
  <2> QED
    BY <2>3, <2>5, <2>6, <2>7, <2>8
<1>2. Guarded /\ [Next]_vars => [Weakened => \E w \in Requests : Excused(w)]_vars
  BY <1>1
<1> QED
  BY <1>2, AlwaysGuarded, PTL DEF Spec, LockHolds

\* Being refused never prolongs the exclusion of the owner beyond the lock and
\* the window that follow the last wrong password.
THEOREM OwnersGetIn == Spec => []OwnerGetsIn
<1>1. Guarded => OwnerGetsIn
  <2> SUFFICES ASSUME Guarded, NEW w \in Requests,
                      req[w].kind = "right", req[w].pc \in {"limited", "fail"}
               PROVE  req[w].start < lastWrong + LockLength + Window
    BY DEF OwnerGetsIn
  <2>1. req[w].start \in Nat /\ Held(req[w])
    BY HeldByAll
  <2>2. lastWrong \in Nat /\ LockLength \in Nat /\ Window \in Nat
    BY Times DEF Guarded
  <2> QED
    BY <2>1, <2>2 DEF Held
<1> QED
  BY <1>1, AlwaysGuarded, PTL

-----------------------------------------------------------------------------
(* The rate limit.                                                           *)

\* A sign-in that the rate limit let through and that is not over yet.
LetIn(r) == r.kind \in Logins /\ r.pc \notin {"idle", "count", "limited"}

\* The name or the address of a sign-in or of a failure.
Mark(e, f) == IF f = "name" THEN e.name ELSE e.addr

\* The failures of one name or address in a window that begins at t, and the
\* sign-ins let through that may still add one to it.
LoggedIn(f, k, t) ==
    {i \in DOMAIN failures : /\ Mark(failures[i], f) = k
                             /\ failures[i].at \in t .. t + Window}
OnTheWay(f, k, t) ==
    {w \in Requests : /\ LetIn(req[w]) /\ Mark(req[w], f) = k
                      /\ req[w].start \in t .. t + Window}

\* What RateLimitHolds needs to be inductive: a sign-in takes its place in a
\* window when it is let through, not only when its failure is logged.
Fits(f, k, t) ==
    Cardinality(LoggedIn(f, k, t)) + Cardinality(OnTheWay(f, k, t))
        <= Limit + Cardinality(Requests) - 1
Room == \A f \in {"name", "addr"}, k \in Names \cup Addresses, t \in Nat : Fits(f, k, t)

\* The sets that are counted are finite.
LEMMA Countable ==
    ASSUME failures \in Seq(Events), NEW f, NEW k, NEW t
    PROVE  /\ IsFiniteSet(DOMAIN failures)
           /\ IsFiniteSet(LoggedIn(f, k, t))
           /\ Cardinality(LoggedIn(f, k, t)) \in Nat
           /\ IsFiniteSet(OnTheWay(f, k, t))
           /\ Cardinality(OnTheWay(f, k, t)) \in Nat
           /\ Cardinality(OnTheWay(f, k, t)) <= Cardinality(Requests)
           /\ Cardinality(Requests) \in Nat
<1>1. DOMAIN failures = 1 .. Len(failures) /\ Len(failures) \in Nat
  OBVIOUS
<1>2. IsFiniteSet(DOMAIN failures)
  BY <1>1, FS_Interval
<1>3. LoggedIn(f, k, t) \subseteq DOMAIN failures
  BY DEF LoggedIn
<1>4. IsFiniteSet(LoggedIn(f, k, t)) /\ Cardinality(LoggedIn(f, k, t)) \in Nat
  BY <1>2, <1>3, FS_Subset, FS_CardinalityType
<1>5. IsFiniteSet(Requests)
  BY LockoutAssumption
<1>6. OnTheWay(f, k, t) \subseteq Requests
  BY DEF OnTheWay
<1>7. /\ IsFiniteSet(OnTheWay(f, k, t))
      /\ Cardinality(OnTheWay(f, k, t)) <= Cardinality(Requests)
  BY <1>5, <1>6, FS_Subset
<1>8. Cardinality(OnTheWay(f, k, t)) \in Nat /\ Cardinality(Requests) \in Nat
  BY <1>5, <1>7, FS_CardinalityType
<1> QED
  BY <1>2, <1>4, <1>7, <1>8

LEMMA InitRoom == Init => Room
<1> SUFFICES ASSUME Init, NEW f \in {"name", "addr"}, NEW k \in Names \cup Addresses,
                    NEW t \in Nat
             PROVE  Fits(f, k, t)
  BY DEF Room
<1>1. failures = <<>> /\ failures \in Seq(Events)
  BY DEF Init
<1>2. LoggedIn(f, k, t) = {}
  BY <1>1 DEF LoggedIn
<1>3. OnTheWay(f, k, t) = {}
  BY DEF OnTheWay, LetIn, Init, Idle
<1>4. Cardinality(Requests) \in Nat
  BY <1>1, Countable
<1> QED
  BY <1>2, <1>3, <1>4, FS_EmptySet, LockoutAssumption DEF Fits

\* What a step makes of a request is no sign-in let through, or the same
\* sign-in, let through before.
Follows(l, r) ==
    LetIn(l) => LetIn(r) /\ l.name = r.name /\ l.addr = r.addr /\ l.start = r.start

\* Steps that log nothing and let nobody in leave as much room as there was.
LEMMA SteadyStep ==
    ASSUME Guarded, Room, NEW w \in Requests, NEW l,
           req' = [req EXCEPT ![w] = l], Follows(l, req[w]), UNCHANGED failures
    PROVE  Room'
<1> SUFFICES ASSUME NEW f \in {"name", "addr"}, NEW k \in Names \cup Addresses,
                    NEW t \in Nat
             PROVE  Fits(f, k, t)'
  BY DEF Room
<1>1. failures \in Seq(Events) /\ failures' \in Seq(Events)
  BY DEF Guarded, TypeOK
<1>2. LoggedIn(f, k, t)' = LoggedIn(f, k, t)
  BY DEF LoggedIn
<1>3. ASSUME NEW v \in Requests PROVE Follows(req'[v], req[v])
  BY DEF Guarded, TypeOK, Follows
<1>4. OnTheWay(f, k, t)' \subseteq OnTheWay(f, k, t)
  BY <1>3 DEF OnTheWay, Follows, Mark
<1>5. Cardinality(OnTheWay(f, k, t)') <= Cardinality(OnTheWay(f, k, t))
  BY <1>1, <1>4, Countable, FS_Subset
<1>6. /\ Cardinality(LoggedIn(f, k, t)) \in Nat
      /\ Cardinality(OnTheWay(f, k, t)) \in Nat
      /\ Cardinality(Requests) \in Nat
  BY <1>1, Countable
<1>7. Cardinality(OnTheWay(f, k, t)') \in Nat
  <2>1. IsFiniteSet(OnTheWay(f, k, t)')
    BY <1>1, <1>4, Countable, FS_Subset
  <2> QED
    BY <2>1, FS_CardinalityType
<1>8. Fits(f, k, t) /\ Limit \in Nat
  BY LockoutAssumption DEF Room
<1> QED
  BY <1>2, <1>5, <1>6, <1>7, <1>8 DEF Fits

\* A sign-in that is let through finds fewer failures than the limit in every
\* window it falls into.
LEMMA LetInStep ==
    ASSUME Guarded, Room, NEW w \in Requests, Count(w), ~Limited(req[w])
    PROVE  Room'
<1> SUFFICES ASSUME NEW f \in {"name", "addr"}, NEW k \in Names \cup Addresses,
                    NEW t \in Nat
             PROVE  Fits(f, k, t)'
  BY DEF Room
<1>1. failures \in Seq(Events) /\ failures' = failures
  BY DEF Guarded, TypeOK, Count
<1>2. /\ req[w] \in Locals /\ req[w].start \in Nat
      /\ Window \in Nat /\ Limit \in Nat
  BY HeldByAll, LockoutAssumption
<1>3. req' = [req EXCEPT ![w].pc = "load"] /\ req \in [Requests -> Locals]
  BY DEF Count, Goto, Guarded, TypeOK
<1>4. LoggedIn(f, k, t)' = LoggedIn(f, k, t)
  BY <1>1 DEF LoggedIn
<1>5. /\ Cardinality(LoggedIn(f, k, t)) \in Nat
      /\ Cardinality(OnTheWay(f, k, t)) \in Nat
      /\ Cardinality(OnTheWay(f, k, t)) <= Cardinality(Requests)
      /\ Cardinality(Requests) \in Nat
  BY <1>1, Countable
<1>6. OnTheWay(f, k, t)' \subseteq Requests
  BY DEF OnTheWay
<1>7. /\ Cardinality(OnTheWay(f, k, t)') \in Nat
      /\ Cardinality(OnTheWay(f, k, t)') <= Cardinality(Requests)
  <2>1. IsFiniteSet(Requests)
    BY LockoutAssumption
  <2>2. /\ IsFiniteSet(OnTheWay(f, k, t)')
        /\ Cardinality(OnTheWay(f, k, t)') <= Cardinality(Requests)
    BY <1>6, <2>1, FS_Subset
  <2> QED
    BY <2>2, FS_CardinalityType
<1>8. CASE Mark(req[w], f) = k /\ req[w].start \in t .. t + Window
  <2>1. ASSUME NEW I \in SUBSET DOMAIN failures, LoggedIn(f, k, t) \subseteq I,
               ~(Recent(I, req[w].start) >= Limit)
        PROVE  Cardinality(LoggedIn(f, k, t)) < Limit
    <3>1. LoggedIn(f, k, t) \subseteq {i \in I : failures[i].at + Window >= req[w].start}
      <4> SUFFICES ASSUME NEW i \in LoggedIn(f, k, t)
                   PROVE  i \in I /\ failures[i].at + Window >= req[w].start
        OBVIOUS
      <4>1. failures[i].at \in Nat /\ failures[i].at >= t
        BY FailureTimes DEF LoggedIn
      <4> QED
        BY <1>2, <1>8, <2>1, <4>1
    <3>2. IsFiniteSet({i \in I : failures[i].at + Window >= req[w].start})
      BY <1>1, Countable, FS_Subset
    <3>3. /\ Cardinality(LoggedIn(f, k, t)) <= Recent(I, req[w].start)
          /\ Recent(I, req[w].start) \in Nat
      BY <3>1, <3>2, FS_Subset, FS_CardinalityType DEF Recent
    <3> QED
      BY <1>2, <1>5, <2>1, <3>3
  <2>2. CASE f = "name"
    <3>1. Named(req[w].name) \in SUBSET DOMAIN failures
      BY DEF Named
    <3>2. LoggedIn(f, k, t) \subseteq Named(req[w].name)
      BY <1>8, <2>2 DEF LoggedIn, Named, Mark
    <3>3. ~(Recent(Named(req[w].name), req[w].start) >= Limit)
      BY DEF Limited
    <3>4. Cardinality(LoggedIn(f, k, t)) < Limit
      BY <2>1, <3>1, <3>2, <3>3
    <3> QED
      BY <1>2, <1>4, <1>5, <1>7, <3>4 DEF Fits
  <2>3. CASE f = "addr"
    <3>1. From(req[w].addr) \in SUBSET DOMAIN failures
      BY DEF From
    <3>2. LoggedIn(f, k, t) \subseteq From(req[w].addr)
      BY <1>8, <2>3 DEF LoggedIn, From, Mark
    <3>3. ~(Recent(From(req[w].addr), req[w].start) >= Limit)
      BY DEF Limited
    <3>4. Cardinality(LoggedIn(f, k, t)) < Limit
      BY <2>1, <3>1, <3>2, <3>3
    <3> QED
      BY <1>2, <1>4, <1>5, <1>7, <3>4 DEF Fits
  <2> QED
    BY <2>2, <2>3
<1>9. CASE ~(Mark(req[w], f) = k /\ req[w].start \in t .. t + Window)
  <2>1. OnTheWay(f, k, t)' \subseteq OnTheWay(f, k, t)
    <3> SUFFICES ASSUME NEW v \in Requests, LetIn(req'[v]), Mark(req'[v], f) = k,
                        req'[v].start \in t .. t + Window
                 PROVE  v \in OnTheWay(f, k, t)
      BY DEF OnTheWay
    <3>1. Mark(req'[w], f) = Mark(req[w], f) /\ req'[w].start = req[w].start
      BY <1>2, <1>3 DEF Mark, Locals
    <3>2. v # w /\ req'[v] = req[v]
      BY <1>3, <1>9, <3>1
    <3> QED
      BY <3>2 DEF OnTheWay
  <2>2. Cardinality(OnTheWay(f, k, t)') <= Cardinality(OnTheWay(f, k, t))
    BY <1>1, <2>1, Countable, FS_Subset
  <2>3. Fits(f, k, t)
    BY DEF Room
  <2> QED
    BY <1>2, <1>4, <1>5, <1>7, <2>2, <2>3 DEF Fits
<1> QED
  BY <1>8, <1>9

\* A failure takes in the log the place its sign-in had.
LEMMA LogStep ==
    ASSUME Guarded, Room, NEW w \in Requests, LogFailure(w)
    PROVE  Room'
<1> SUFFICES ASSUME NEW f \in {"name", "addr"}, NEW k \in Names \cup Addresses,
                    NEW t \in Nat
             PROVE  Fits(f, k, t)'
  BY DEF Room
<1>1. /\ req[w] \in Locals /\ Held(req[w]) /\ Known(req[w]) /\ req[w].start \in Nat
      /\ req \in [Requests -> Locals] /\ Window \in Nat /\ Limit \in Nat
  BY HeldByAll, LockoutAssumption DEF Guarded, TypeOK
<1>2. PICK e : e = Event(req[w])
  OBVIOUS
<1>3. /\ e \in Events /\ e.name = req[w].name /\ e.addr = req[w].addr
      /\ e.at = req[w].start /\ Mark(e, f) = Mark(req[w], f) /\ LetIn(req[w])
  BY <1>1, <1>2 DEF Event, Events, LogFailure, Held, Known, Mark, LetIn
<1>4. /\ failures \in Seq(Events) /\ failures' = Append(failures, e)
      /\ failures' \in Seq(Events) /\ req' = [req EXCEPT ![w] = Idle]
  BY <1>2, <1>3 DEF LogFailure, Finish, Guarded, TypeOK
<1>5. PICK n : n = Len(failures) + 1
  OBVIOUS
<1>6. /\ n \notin DOMAIN failures /\ DOMAIN failures' = DOMAIN failures \cup {n}
      /\ failures'[n] = e
      /\ \A i \in DOMAIN failures : failures'[i] = failures[i]
  BY <1>4, <1>5
<1>7. /\ IsFiniteSet(LoggedIn(f, k, t)) /\ IsFiniteSet(OnTheWay(f, k, t))
      /\ Cardinality(LoggedIn(f, k, t)) \in Nat
      /\ Cardinality(OnTheWay(f, k, t)) \in Nat
      /\ Cardinality(Requests) \in Nat
  BY <1>4, Countable
<1>8. Fits(f, k, t)
  BY DEF Room
<1>9. ~LetIn(req'[w]) /\ \A v \in Requests \ {w} : req'[v] = req[v]
  BY <1>1, <1>4 DEF LetIn, Idle
<1>10. OnTheWay(f, k, t)' = OnTheWay(f, k, t) \ {w}
  BY <1>9 DEF OnTheWay
<1>11. CASE Mark(req[w], f) = k /\ req[w].start \in t .. t + Window
  <2>1. LoggedIn(f, k, t)' = LoggedIn(f, k, t) \cup {n}
    BY <1>3, <1>6, <1>11 DEF LoggedIn
  <2>2. n \notin LoggedIn(f, k, t)
    BY <1>6 DEF LoggedIn
  <2>3. Cardinality(LoggedIn(f, k, t)') = Cardinality(LoggedIn(f, k, t)) + 1
    BY <1>7, <2>1, <2>2, FS_AddElement
  <2>4. w \in OnTheWay(f, k, t)
    BY <1>3, <1>11 DEF OnTheWay
  <2>5. Cardinality(OnTheWay(f, k, t)') = Cardinality(OnTheWay(f, k, t)) - 1
    BY <1>7, <1>10, <2>4, FS_RemoveElement
  <2> QED
    BY <1>1, <1>7, <1>8, <2>3, <2>5 DEF Fits
<1>12. CASE ~(Mark(req[w], f) = k /\ req[w].start \in t .. t + Window)
  <2>1. LoggedIn(f, k, t)' = LoggedIn(f, k, t)
    BY <1>3, <1>6, <1>12 DEF LoggedIn
  <2>2. OnTheWay(f, k, t)' = OnTheWay(f, k, t)
    BY <1>10, <1>12 DEF OnTheWay
  <2> QED
    BY <1>8, <2>1, <2>2 DEF Fits
<1> QED
  BY <1>11, <1>12

\* A sign-in that looks at a lock stays the sign-in it is, or is over.
LEMMA MetFollows ==
    ASSUME NEW r \in Locals, NEW c \in Rows, r.pc \in {"load", "check", "reload"}
    PROVE  /\ Follows(Refused(r), r) /\ Follows(Admitted(r, c), r)
           /\ Follows(Met(r, c), r)
<1>1. ASSUME NEW pc \in Steps, NEW d \in Rows PROVE Follows(Hold(r, pc, d), r)
  BY <1>1, HoldFields DEF Follows, LetIn
<1>2. Follows(Idle, r)
  BY DEF Follows, LetIn, Idle
<1>3. Unlocked \in Rows /\ {"fail", "save", "verify", "unlock"} \subseteq Steps
  BY DEF Unlocked, Rows, Steps
<1>4. Follows(Refused(r), r)
  BY <1>1, <1>2, <1>3 DEF Refused
<1>5. Follows(Admitted(r, c), r)
  BY <1>1, <1>2, <1>3 DEF Admitted
<1>6. Follows(Met(r, c), r)
  BY <1>1, <1>3, <1>4, <1>5 DEF Met
<1> QED
  BY <1>4, <1>5, <1>6

\* Every other step of a request.
LEMMA OtherSteps ==
    ASSUME Guarded, Room, NEW w \in Requests,
           \/ \E k \in Logins, n \in Names, a \in Addresses : BeginLogin(w, k, n, a)
           \/ \E k \in Others : BeginOther(w, k)
           \/ Count(w) /\ Limited(req[w])
           \/ Load(w) \/ Check(w) \/ Unlock(w) \/ Reload(w)
           \/ WrongPassword(w) \/ RightPassword(w) \/ SavePassword(w)
           \/ LogLimited(w) \/ Crash(w)
    PROVE  Room'
<1>1. req[w] \in Locals /\ req[w].copy \in Rows /\ row \in Rows
  BY HeldByAll DEF Guarded, TypeOK
<1>2. Follows(Idle, req[w])
  BY DEF Follows, LetIn, Idle
<1>3. CASE \E k \in Logins, n \in Names, a \in Addresses : BeginLogin(w, k, n, a)
  <2>1. PICK k \in Logins, n \in Names, a \in Addresses : BeginLogin(w, k, n, a)
    BY <1>3
  <2>2. PICK l : l = [pc |-> "count", kind |-> k, name |-> n, addr |-> a,
                      start |-> now, copy |-> Unlocked]
    OBVIOUS
  <2>3. req' = [req EXCEPT ![w] = l] /\ Follows(l, req[w]) /\ UNCHANGED failures
    BY <2>1, <2>2 DEF BeginLogin, Follows, LetIn
  <2> QED
    BY <2>3, SteadyStep
<1>4. CASE \E k \in Others : BeginOther(w, k)
  <2>1. PICK k \in Others : BeginOther(w, k)
    BY <1>4
  <2>2. PICK l : l = [pc |-> "load", kind |-> k, name |-> None, addr |-> None,
                      start |-> 0, copy |-> Unlocked]
    OBVIOUS
  <2>3. req' = [req EXCEPT ![w] = l] /\ Follows(l, req[w]) /\ UNCHANGED failures
    BY <2>1, <2>2 DEF BeginOther, Follows, LetIn, Others, Logins
  <2> QED
    BY <2>3, SteadyStep
<1>5. CASE Count(w) /\ Limited(req[w])
  <2>1. PICK l : l = [req[w] EXCEPT !.pc = "limited"]
    OBVIOUS
  <2>2. l.pc = "limited"
    BY <1>1, <2>1 DEF Locals
  <2>3. Follows(l, req[w])
    BY <2>2 DEF Follows, LetIn
  <2>4. req' = [req EXCEPT ![w] = l] /\ UNCHANGED failures
    BY <1>5, <2>1 DEF Count, Goto
  <2> QED
    BY <2>3, <2>4, SteadyStep
<1>6. CASE Load(w)
  <2>1. CASE req[w].kind \in Logins
    <3>1. req' = [req EXCEPT ![w] = Met(req[w], row)] /\ UNCHANGED failures
      BY <1>6, <2>1 DEF Load, Logins, Others
    <3>2. Follows(Met(req[w], row), req[w])
      BY <1>1, <1>6, MetFollows DEF Load
    <3> QED
      BY <3>1, <3>2, SteadyStep
  <2>2. CASE req[w].kind \notin Logins
    <3>1. PICK pc \in Steps : req' = [req EXCEPT ![w] = Hold(req[w], pc, row)]
      BY <1>6, <2>2 DEF Load, Steps
    <3>2. Follows(Hold(req[w], pc, row), req[w])
      BY <1>1, <2>2, HoldFields DEF Follows, LetIn
    <3> QED
      BY <1>6, <3>1, <3>2, SteadyStep DEF Load
  <2> QED
    BY <2>1, <2>2
<1>7. CASE Check(w)
  <2>1. req' = [req EXCEPT ![w] = Met(req[w], req[w].copy)] /\ UNCHANGED failures
    BY <1>7 DEF Check
  <2>2. Follows(Met(req[w], req[w].copy), req[w])
    BY <1>1, <1>7, MetFollows DEF Check
  <2> QED
    BY <2>1, <2>2, SteadyStep
<1>8. CASE Unlock(w)
  <2>1. PICK l : l = [req[w] EXCEPT !.pc = "reload"]
    OBVIOUS
  <2>2. /\ l.kind = req[w].kind /\ l.start = req[w].start
        /\ l.name = req[w].name /\ l.addr = req[w].addr
    BY <1>1, <2>1 DEF Locals
  <2>3. Follows(l, req[w])
    BY <1>8, <2>2 DEF Follows, LetIn, Unlock
  <2>4. req' = [req EXCEPT ![w] = l] /\ UNCHANGED failures
    BY <1>8, <2>1 DEF Unlock, Goto
  <2> QED
    BY <2>3, <2>4, SteadyStep
<1>9. CASE Reload(w)
  <2>1. Follows(Refused(req[w]), req[w]) /\ Follows(Admitted(req[w], row), req[w])
    BY <1>1, <1>9, MetFollows DEF Reload
  <2>2. PICK l : /\ req' = [req EXCEPT ![w] = l]
                 /\ l = Refused(req[w]) \/ l = Admitted(req[w], row)
    BY <1>9 DEF Reload
  <2> QED
    BY <1>9, <2>1, <2>2, SteadyStep DEF Reload
<1>10. CASE WrongPassword(w)
  <2>1. PICK l : l = Hold(req[w], "fail", Unlocked)
    OBVIOUS
  <2>2. req' = [req EXCEPT ![w] = l] /\ UNCHANGED failures
    BY <1>10, <2>1 DEF WrongPassword, Refused, Logins
  <2>3. Unlocked \in Rows /\ "fail" \in Steps
    BY DEF Unlocked, Rows, Steps
  <2>4. Follows(l, req[w])
    BY <1>1, <1>10, <2>1, <2>3, HoldFields DEF Follows, LetIn, WrongPassword, Logins
  <2> QED
    BY <2>2, <2>4, SteadyStep
<1>11. CASE RightPassword(w) \/ SavePassword(w) \/ LogLimited(w) \/ Crash(w)
  BY <1>2, <1>11, SteadyStep
  DEF RightPassword, SavePassword, LogLimited, Crash, Finish
<1> QED
  BY <1>3, <1>4, <1>5, <1>6, <1>7, <1>8, <1>9, <1>10, <1>11

LEMMA NextRoom == Guarded /\ Room /\ [Next]_vars => Room'
<1> SUFFICES ASSUME Guarded, Room, [Next]_vars PROVE Room'
  OBVIOUS
<1>1. CASE UNCHANGED <<failures, req>>
  BY <1>1 DEF Room, Fits, LoggedIn, OnTheWay
<1>2. CASE UNCHANGED vars \/ Tick
  BY <1>1, <1>2 DEF vars, Tick
<1>3. CASE \E w \in Requests : Count(w) /\ ~Limited(req[w])
  BY <1>3, LetInStep
<1>4. CASE \E w \in Requests : LogFailure(w)
  BY <1>4, LogStep
<1> QED
  BY <1>2, <1>3, <1>4, OtherSteps DEF Next

\* However many sign-ins run at once and whichever fail, no window sees more
\* failures of one name or one address than the limit and those that overlap.
THEOREM RateLimitAlwaysHolds == Spec => []RateLimitHolds
<1>1. Room /\ Guarded => RateLimitHolds
  <2> SUFFICES ASSUME Room, Guarded, NEW t \in 0 .. now
               PROVE  LET Within(I) == Cardinality({i \in I : failures[i].at \in t .. t + Window})
                          Bound == Limit + Cardinality(Requests) - 1
                      IN  /\ \A n \in Names : Within(Named(n)) <= Bound
                          /\ \A a \in Addresses : Within(From(a)) <= Bound
    BY DEF RateLimitHolds
  <2>1. failures \in Seq(Events) /\ t \in Nat /\ Limit \in Nat
    BY Times DEF Guarded, TypeOK
  <2>2. ASSUME NEW f \in {"name", "addr"}, NEW k \in Names \cup Addresses
        PROVE  Cardinality(LoggedIn(f, k, t)) <= Limit + Cardinality(Requests) - 1
    <3>1. /\ Cardinality(LoggedIn(f, k, t)) \in Nat
          /\ Cardinality(OnTheWay(f, k, t)) \in Nat
          /\ Cardinality(Requests) \in Nat
      BY <2>1, Countable
    <3>2. Fits(f, k, t)
      BY <2>1 DEF Room
    <3> QED
      BY <2>1, <3>1, <3>2 DEF Fits
  <2>3. \A n \in Names :
           {i \in Named(n) : failures[i].at \in t .. t + Window} = LoggedIn("name", n, t)
    BY DEF Named, LoggedIn, Mark
  <2>4. \A a \in Addresses :
           {i \in From(a) : failures[i].at \in t .. t + Window} = LoggedIn("addr", a, t)
    BY DEF From, LoggedIn, Mark
  <2> QED
    BY <2>2, <2>3, <2>4
<1> QED
  BY <1>1, InitRoom, NextRoom, InitGuarded, NextGuarded, PTL DEF Spec
=============================================================================
