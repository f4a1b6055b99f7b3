------------------------ MODULE UsageMeteringProofs ------------------------
(* Theorems about UsageMetering, for any number of requests in flight, any  *)
(* plans with distinct allowances, any billing periods and any clock.       *)
EXTENDS UsageMetering, TLAPS

\* The period a request bills against is a period that can have a row.
LEMMA BoundsTyped ==
    ASSUME NEW s \in Subscriptions, NEW t \in 0 .. MaxTime
    PROVE  Bounds(s, t) \in [start : Starts, end : Nat]
<1>1. CASE s.win.end > s.win.start
  <2>1. s \in Reported
    BY <1>1 DEF Subscriptions, NewSub, NoWindow
  <2> QED
    BY <1>1, <2>1, TimeAssumption DEF Bounds, Starts
<1>2. CASE ~(s.win.end > s.win.start)
  <2>1. t % MonthLength \in 0 .. t
    BY TimeAssumption
  <2>2. t - (t % MonthLength) \in 0 .. MaxTime
    BY <2>1, TimeAssumption
  <2> QED
    BY <1>2, <2>2, TimeAssumption DEF Bounds, DefaultBounds, Starts
<1> QED
  BY <1>1, <1>2

\* The initial values of a request's copies are of their types.
LEMMA IdleTyped == Idle \in Locals /\ Dead \in Locals
<1>1. NoWindow \in [start : Starts, end : Nat]
  BY TimeAssumption DEF NoWindow, Starts
<1>2. EmptyRow \in Rows
  BY PlanAssumption DEF EmptyRow, Rows
<1>3. NewSub \in Subscriptions
  BY DEF Subscriptions
<1> QED
  BY <1>1, <1>2, <1>3 DEF Idle, Dead, Locals, Kinds, Steps

\* A slot without a request relies on nothing.
LEMMA IdleLags ==
    ASSUME NEW o, NEW u
    PROVE  Lags(Idle, o, u) /\ Lags(Dead, o, u)
BY DEF Lags, Idle, Dead, EmptyRow, Relies

\* After the record is in hand a request keeps its copies or drops them all.
LEMMA ContinueTyped ==
    ASSUME NEW l \in Locals
    PROVE  /\ Continue(l) \in Locals
           /\ \/ Continue(l) = Idle
              \/ Continue(l).rec = l.rec /\ Continue(l).win = l.win
BY IdleTyped DEF Continue, Locals, Steps, Idle, Kinds

LEMMA InitConsistent == Init => Consistent
<1> SUFFICES ASSUME Init PROVE Consistent
  OBVIOUS
<1>1. TypeOK
  BY IdleTyped, PlanAssumption, TimeAssumption
  DEF Init, TypeOK, Subscriptions, EmptyRow, Rows, Starts
<1>2. ChargesConserved /\ ClosedRowsEmpty
  BY DEF Init, ChargesConserved, ClosedRowsEmpty, EmptyRow
<1>3. PlanAndAllowanceAgree
  BY DEF Init, PlanAndAllowanceAgree, EmptyRow
<1>4. CopiesLag
  BY DEF Init, CopiesLag, Lags, Relies, Idle, EmptyRow
<1>5. MirrorNeverLeads
  BY DEF Init, MirrorNeverLeads
<1> QED
  BY <1>1, <1>2, <1>3, <1>4, <1>5 DEF Consistent

-----------------------------------------------------------------------------
(* One request moves on.                                                   *)

\* Rows stay and do not lose charges.
Grows ==
    /\ open \subseteq open'
    /\ \A s \in open : usage'[s].used >= usage[s].used

\* If one request moves to copies that lag behind the new rows and the rows
\* only grow, all requests hold copies that lag behind them.
LEMMA GotoKeepsCopies ==
    ASSUME Consistent, usage' \in [Starts -> Rows], Grows,
           NEW w \in Workers, NEW l \in Locals,
           Goto(w, l), Lags(l, open', usage')
    PROVE  loc' \in [Workers -> Locals] /\ CopiesLag'
<1>1. loc' \in [Workers -> Locals]
  BY DEF Consistent, TypeOK, Goto
<1>2. ASSUME NEW v \in Workers PROVE Lags(loc'[v], open', usage')
  <2>1. CASE v = w
    BY <2>1 DEF Goto, Consistent, TypeOK
  <2>2. CASE v # w
    <3>1. loc'[v] = loc[v] /\ loc[v] \in Locals
      BY <2>2 DEF Goto, Consistent, TypeOK
    <3>2. Lags(loc[v], open, usage)
      BY DEF Consistent, CopiesLag
    <3>3. ASSUME Relies(loc[v])
          PROVE  /\ loc[v].win.start \in open'
                 /\ loc[v].rec.used <= usage'[loc[v].win.start].used
      <4>1. /\ loc[v].win.start \in open
            /\ loc[v].rec.used <= usage[loc[v].win.start].used
        BY <3>2, <3>3 DEF Lags
      <4>2. /\ usage[loc[v].win.start].used \in Nat
            /\ usage'[loc[v].win.start].used \in Nat
            /\ loc[v].rec.used \in Nat
        BY <3>1, <4>1 DEF Consistent, TypeOK, Rows, Locals
      <4> QED
        BY <4>1, <4>2 DEF Grows
    <3> QED
      BY <3>1, <3>2, <3>3 DEF Lags
  <2> QED
    BY <2>1, <2>2
<1> QED
  BY <1>1, <1>2 DEF CopiesLag

\* The mirror stays behind when it is unchanged and the rows grow.
LEMMA GrowthKeepsMirror ==
    ASSUME Consistent, usage' \in [Starts -> Rows], Grows,
           open' \subseteq Starts, UNCHANGED monthly_sms_count
    PROVE  MirrorNeverLeads'
<1> SUFFICES ASSUME monthly_sms_count > 0
             PROVE  \E s \in open' : monthly_sms_count <= usage'[s].used
  BY DEF MirrorNeverLeads
<1>1. PICK s \in open : monthly_sms_count <= usage[s].used
  BY DEF Consistent, MirrorNeverLeads
<1>2. /\ usage[s].used \in Nat /\ usage'[s].used \in Nat
      /\ monthly_sms_count \in Nat
  BY DEF Consistent, TypeOK, Rows
<1> QED
  BY <1>1, <1>2 DEF Grows

\* A step that only moves one request, or commits a subscription or the mirror,
\* keeps the invariant.
LEMMA LocalStep ==
    ASSUME Consistent, NEW w \in Workers, NEW l \in Locals,
           Goto(w, l), Lags(l, open, usage),
           UNCHANGED <<now, open, usage, charged>>,
           sub' \in Subscriptions, monthly_sms_count' \in Nat,
           MirrorNeverLeads'
    PROVE  Consistent'
<1>1. Grows /\ usage' \in [Starts -> Rows]
  BY DEF Grows, Consistent, TypeOK, Rows
<1>2. loc' \in [Workers -> Locals] /\ CopiesLag'
  BY <1>1, GotoKeepsCopies
<1>3. TypeOK'
  BY <1>2 DEF Consistent, TypeOK
<1>4. ChargesConserved' /\ PlanAndAllowanceAgree' /\ ClosedRowsEmpty'
  BY DEF Consistent, ChargesConserved, PlanAndAllowanceAgree, ClosedRowsEmpty
<1> QED
  BY <1>2, <1>3, <1>4 DEF Consistent

\* Found leaves a request with copies that lag behind the rows, also when the
\* row it found is itself a copy that lags.
LEMMA FoundLags ==
    ASSUME NEW w \in Workers, NEW l \in Locals, NEW row \in Rows,
           l.rec.allow = Allowance[l.rec.plan],
           l.win.start \in open, row.used <= usage[l.win.start].used,
           row.allow = Allowance[row.plan],
           Found(w, l, row)
    PROVE  \E k \in Locals : Goto(w, k) /\ Lags(k, open, usage)
<1>2. CASE row.end # l.win.end
  <2> DEFINE k == [l EXCEPT !.pc = "insert"]
  <2>1. k \in Locals /\ Goto(w, k)
    BY <1>2 DEF Found, Locals, Steps
  <2>2. Lags(k, open, usage)
    BY DEF Lags, Relies, Locals
  <2> QED
    BY <2>1, <2>2
<1>3. CASE /\ row.end = l.win.end
           /\ row.allow # Allowance[l.sub.plan] \/ row.plan # l.sub.plan
  <2> DEFINE k == [l EXCEPT !.pc = "resync", !.rec = row]
  <2>1. k \in Locals /\ Goto(w, k)
    BY <1>3 DEF Found, Locals, Steps
  <2>2. Lags(k, open, usage)
    BY DEF Lags, Relies, Locals
  <2> QED
    BY <2>1, <2>2
<1>4. CASE /\ row.end = l.win.end
           /\ ~(row.allow # Allowance[l.sub.plan] \/ row.plan # l.sub.plan)
  <2> DEFINE m == [l EXCEPT !.rec = row]
             k == Continue(m)
  <2>1. m \in Locals /\ m.rec = row /\ m.win = l.win
    BY DEF Locals
  <2>2. k \in Locals /\ Goto(w, k)
    BY <1>4, <2>1, ContinueTyped DEF Found
  <2>3. Lags(k, open, usage)
    <3>1. CASE k = Idle
      BY <3>1, IdleLags
    <3>2. CASE k.rec = row /\ k.win = l.win
      BY <3>2 DEF Lags
    <3> QED
      BY <2>1, <3>1, <3>2, ContinueTyped
  <2> QED
    BY <2>2, <2>3
<1> QED
  BY <1>2, <1>3, <1>4

-----------------------------------------------------------------------------
(* One lemma per action.                                                   *)

LEMMA BeginStep ==
    ASSUME Consistent, NEW w \in Workers, NEW kind \in {"summary", "charge"}, Begin(w, kind)
    PROVE  Consistent'
<1>1. PICK l : l = [Idle EXCEPT !.pc = "lookup", !.kind = kind, !.sub = sub,
                                !.mon = monthly_sms_count]
  OBVIOUS
<1>2. l \in Locals /\ Goto(w, l)
  BY <1>1, IdleTyped DEF Begin, Consistent, TypeOK, Locals, Steps, Kinds
<1>3. Lags(l, open, usage)
  BY <1>1 DEF Lags, Relies, Idle, EmptyRow
<1>4. MirrorNeverLeads'
  BY DEF Begin, Consistent, MirrorNeverLeads
<1> QED
  BY <1>2, <1>3, <1>4, LocalStep DEF Begin, Consistent, TypeOK

LEMMA BeginSyncStep ==
    ASSUME Consistent, NEW w \in Workers, BeginSync(w)
    PROVE  Consistent'
<1>1. PICK s \in Reported :
        /\ sub' = s
        /\ Goto(w, [Idle EXCEPT !.pc = "lookup", !.kind = "sync", !.sub = s,
                                !.mon = monthly_sms_count])
  BY DEF BeginSync
<1>2. PICK l : l = [Idle EXCEPT !.pc = "lookup", !.kind = "sync", !.sub = s,
                                !.mon = monthly_sms_count]
  OBVIOUS
<1>3. l \in Locals /\ Goto(w, l)
  BY <1>1, <1>2, IdleTyped
  DEF Consistent, TypeOK, Locals, Steps, Kinds, Subscriptions
<1>4. Lags(l, open, usage)
  BY <1>2 DEF Lags, Relies, Idle, EmptyRow
<1>5. MirrorNeverLeads'
  BY DEF BeginSync, Consistent, MirrorNeverLeads
<1> QED
  BY <1>1, <1>3, <1>4, <1>5, LocalStep
  DEF BeginSync, Consistent, TypeOK, Subscriptions

LEMMA LookupStep ==
    ASSUME Consistent, NEW w \in Workers, Lookup(w)
    PROVE  Consistent'
<1>1. PICK l : l = [loc[w] EXCEPT !.win = Bounds(loc[w].sub, now)]
  OBVIOUS
<1>2. /\ l \in Locals
      /\ l.rec = loc[w].rec
      /\ l.rec.allow = Allowance[l.rec.plan]
  <2>1. loc[w] \in Locals /\ Bounds(loc[w].sub, now) \in [start : Starts, end : Nat]
    BY BoundsTyped DEF Consistent, TypeOK, Locals
  <2> QED
    BY <1>1, <2>1 DEF Locals, Consistent, CopiesLag, Lags
<1>3. \E k \in Locals : Goto(w, k) /\ Lags(k, open, usage)
  <2>1. CASE l.win.start \in open
    <3>1. PICK row : row = Selected(loc[w], l.win.start)
      OBVIOUS
    <3>2. Found(w, l, row)
      BY <1>1, <2>1, <3>1 DEF Lookup
    <3>3. /\ row \in Rows /\ row.allow = Allowance[row.plan]
          /\ row.used <= usage[l.win.start].used
      <4>1. CASE loc[w].kind = "record" /\ loc[w].win.start = l.win.start
        <5>1. row = l.rec /\ Lags(loc[w], open, usage)
          BY <1>2, <3>1, <4>1 DEF Selected, Consistent, CopiesLag
        <5>2. row.used <= usage[l.win.start].used
          BY <1>2, <4>1, <5>1 DEF Lags, Relies, Lookup
        <5> QED
          BY <1>2, <5>1, <5>2 DEF Locals
      <4>2. CASE ~(loc[w].kind = "record" /\ loc[w].win.start = l.win.start)
        <5>1. row = usage[l.win.start] /\ l.win.start \in Starts
          BY <1>2, <3>1, <4>2 DEF Selected, Locals
        <5> QED
          BY <5>1 DEF Consistent, TypeOK, PlanAndAllowanceAgree, Rows
      <4> QED
        BY <4>1, <4>2
    <3> QED
      BY <1>2, <2>1, <3>2, <3>3, FoundLags
  <2>2. CASE l.win.start \notin open
    <3>1. PICK k : k = [l EXCEPT !.pc = "latest"]
      OBVIOUS
    <3>2. Goto(w, k)
      BY <1>1, <2>2, <3>1 DEF Lookup
    <3>3. k \in Locals /\ Lags(k, open, usage)
      BY <1>2, <3>1 DEF Locals, Steps, Lags, Relies
    <3> QED
      BY <3>2, <3>3
  <2> QED
    BY <2>1, <2>2
<1>4. MirrorNeverLeads'
  BY DEF Lookup, Consistent, MirrorNeverLeads
<1>5. UNCHANGED <<now, sub, open, usage, monthly_sms_count, charged>>
  BY DEF Lookup
<1> QED
  BY <1>3, <1>4, <1>5, LocalStep DEF Consistent, TypeOK

LEMMA LookupLatestStep ==
    ASSUME Consistent, NEW w \in Workers, LookupLatest(w)
    PROVE  Consistent'
<1>1. PICK l \in Locals : l = loc[w]
  BY DEF Consistent, TypeOK
<1>2. l.rec.allow = Allowance[l.rec.plan]
  BY <1>1 DEF Consistent, CopiesLag, Lags
<1>3. \E k \in Locals : Goto(w, k) /\ Lags(k, open, usage)
  <2>1. CASE LatestEnds(l.win.start) /\ Found(w, l, usage[l.win.start])
    <3>1. PICK row \in Rows : row = usage[l.win.start]
      BY DEF Consistent, TypeOK, Locals
    <3>2. row.allow = Allowance[row.plan] /\ row.used <= row.used
      BY <3>1 DEF Consistent, PlanAndAllowanceAgree, Rows, Locals
    <3> QED
      BY <1>2, <2>1, <3>1, <3>2, FoundLags DEF LatestEnds
  <2>2. CASE Goto(w, [l EXCEPT !.pc = "insert"])
    <3>1. PICK k : k = [l EXCEPT !.pc = "insert"]
      OBVIOUS
    <3>2. k \in Locals /\ Lags(k, open, usage)
      BY <1>2, <3>1 DEF Locals, Steps, Lags, Relies
    <3> QED
      BY <2>2, <3>1, <3>2
  <2> QED
    BY <1>1, <2>1, <2>2 DEF LookupLatest
<1>4. MirrorNeverLeads'
  BY DEF LookupLatest, Consistent, MirrorNeverLeads
<1>5. UNCHANGED <<now, sub, open, usage, monthly_sms_count, charged>>
  BY DEF LookupLatest
<1> QED
  BY <1>3, <1>4, <1>5, LocalStep DEF Consistent, TypeOK

LEMMA ResyncStep ==
    ASSUME Consistent, NEW w \in Workers, Resync(w)
    PROVE  Consistent'
<1>1. PICK l \in Locals : l = loc[w]
  BY DEF Consistent, TypeOK
<1>2. PICK s : s = l.win.start
  OBVIOUS
<1>3. /\ s \in open /\ s \in Starts /\ usage[s] \in Rows
      /\ l.rec.used <= usage[s].used
      /\ l.rec.allow = Allowance[l.rec.plan]
  BY <1>1, <1>2 DEF Consistent, TypeOK, CopiesLag, Lags, Relies, Resync
<1>4. PICK row : row = [usage[s] EXCEPT
                  !.allow = IF Allowance[l.sub.plan] # l.rec.allow
                            THEN Allowance[l.sub.plan] ELSE @,
                  !.plan = IF l.sub.plan # l.rec.plan THEN l.sub.plan ELSE @]
  OBVIOUS
<1>5. /\ usage' = [usage EXCEPT ![s] = row]
      /\ Goto(w, Continue([l EXCEPT !.rec = row]))
      /\ UNCHANGED <<now, sub, open, monthly_sms_count, charged>>
  BY <1>1, <1>2, <1>4 DEF Resync
<1>6. l.sub.plan \in Plans /\ l.rec.plan \in Plans
  <2>1. \A x \in Subscriptions : x.plan \in Plans
    BY PlanAssumption, TimeAssumption DEF Subscriptions, NewSub
  <2> QED
    BY <2>1 DEF Locals, Rows
<1>7. /\ row \in Rows
      /\ row.used = usage[s].used /\ row.end = usage[s].end
      /\ row.allow = Allowance[row.plan]
  <2>1. Allowance[l.sub.plan] # l.rec.allow <=> l.sub.plan # l.rec.plan
    BY <1>3, <1>6, PlanAssumption
  <2>2. usage[s].allow = Allowance[usage[s].plan]
    BY <1>3 DEF Consistent, PlanAndAllowanceAgree
  <2>3. Allowance[l.sub.plan] \in Nat
    BY <1>6, PlanAssumption
  <2>4. CASE l.sub.plan # l.rec.plan
    BY <1>3, <1>4, <1>6, <2>1, <2>3, <2>4 DEF Rows
  <2>5. CASE l.sub.plan = l.rec.plan
    BY <1>3, <1>4, <2>1, <2>2, <2>5 DEF Rows
  <2> QED
    BY <2>4, <2>5
<1>8. usage' \in [Starts -> Rows] /\ Grows
  BY <1>3, <1>5, <1>7 DEF Consistent, TypeOK, Grows, Rows
<1>9. \E k \in Locals : Goto(w, k) /\ Lags(k, open', usage')
  <2>1. PICK m : m = [l EXCEPT !.rec = row]
    OBVIOUS
  <2>2. m \in Locals /\ m.rec = row /\ m.win = l.win
    BY <1>7, <2>1 DEF Locals
  <2>3. Continue(m) \in Locals /\ Goto(w, Continue(m))
    BY <1>5, <2>1, <2>2, ContinueTyped
  <2>4. Lags(Continue(m), open', usage')
    <3>1. usage'[s] = row /\ row.used \in Nat
      BY <1>3, <1>5, <1>7 DEF Consistent, TypeOK, Rows
    <3>2. CASE Continue(m) = Idle
      BY <3>2, IdleLags
    <3>3. CASE Continue(m).rec = row /\ Continue(m).win = l.win
      BY <3>1, <3>3, <1>2, <1>3, <1>5, <1>7 DEF Lags
    <3> QED
      BY <2>2, <3>2, <3>3, ContinueTyped
  <2> QED
    BY <2>3, <2>4
<1>10. loc' \in [Workers -> Locals] /\ CopiesLag'
  BY <1>8, <1>9, GotoKeepsCopies
<1>11. MirrorNeverLeads'
  BY <1>5, <1>8, GrowthKeepsMirror DEF Consistent, TypeOK
<1>12. ChargesConserved' /\ ClosedRowsEmpty'
  BY <1>3, <1>5, <1>7
  DEF Consistent, TypeOK, ChargesConserved, ClosedRowsEmpty
<1>13. PlanAndAllowanceAgree'
  BY <1>3, <1>5, <1>7 DEF Consistent, TypeOK, PlanAndAllowanceAgree
<1>14. TypeOK'
  BY <1>5, <1>8, <1>10 DEF Consistent, TypeOK
<1> QED
  BY <1>10, <1>11, <1>12, <1>13, <1>14 DEF Consistent

LEMMA InsertStep ==
    ASSUME Consistent, NEW w \in Workers, Insert(w)
    PROVE  Consistent'
<1>1. PICK l \in Locals : l = loc[w]
  BY DEF Consistent, TypeOK
<1>2. PICK s : s = l.win.start
  OBVIOUS
<1>3. PICK row : row = [used |-> 0, allow |-> Allowance[l.sub.plan],
                        plan |-> l.sub.plan, end |-> l.win.end]
  OBVIOUS
<1>4. /\ s \in Starts /\ usage[s] \in Rows /\ sub \in Subscriptions
      /\ l.sub.plan \in Plans
      /\ row \in Rows /\ row.used = 0 /\ row.allow = Allowance[row.plan]
  <2>1. \A x \in Subscriptions : x.plan \in Plans
    BY PlanAssumption, TimeAssumption DEF Subscriptions, NewSub
  <2>2. s \in Starts /\ l.sub.plan \in Plans /\ l.win.end \in Nat
    BY <1>2, <2>1 DEF Locals
  <2> QED
    BY <1>3, <2>2, PlanAssumption DEF Consistent, TypeOK, Rows
<1>5. CASE s \in open
  <2>1. PICK k : k = [l EXCEPT !.pc = "zero", !.rec = usage[s],
                               !.sub = sub, !.mon = UnknownCount]
    OBVIOUS
  <2>2. k \in Locals /\ Goto(w, k)
    BY <1>1, <1>2, <1>4, <1>5, <2>1 DEF Insert, Locals, Steps
  <2>3. Lags(k, open, usage)
    BY <1>2, <1>4, <1>5, <2>1
    DEF Lags, Consistent, PlanAndAllowanceAgree, Locals, Rows
  <2>4. UNCHANGED <<now, sub, open, usage, monthly_sms_count, charged>>
    BY <1>1, <1>2, <1>5 DEF Insert
  <2>5. MirrorNeverLeads'
    BY <2>4 DEF Consistent, MirrorNeverLeads
  <2> QED
    BY <2>2, <2>3, <2>4, <2>5, LocalStep DEF Consistent, TypeOK
<1>6. CASE s \notin open
  <2>1. PICK k : k = [l EXCEPT !.pc = "zero", !.rec = row]
    OBVIOUS
  <2>2. /\ open' = open \cup {s}
        /\ usage' = [usage EXCEPT ![s] = row]
        /\ Goto(w, k)
        /\ UNCHANGED <<now, sub, monthly_sms_count, charged>>
    BY <1>1, <1>2, <1>3, <1>6, <2>1 DEF Insert
  <2>3. k \in Locals /\ k.rec = row /\ k.win.start = s
    BY <1>2, <1>4, <2>1 DEF Locals, Steps
  <2>4. usage' \in [Starts -> Rows] /\ Grows /\ usage'[s] = row
    BY <1>4, <1>6, <2>2 DEF Consistent, TypeOK, Grows, Rows
  <2>5. Lags(k, open', usage')
    BY <1>4, <2>2, <2>3, <2>4 DEF Lags
  <2>6. loc' \in [Workers -> Locals] /\ CopiesLag'
    BY <2>2, <2>3, <2>4, <2>5, GotoKeepsCopies
  <2>7. MirrorNeverLeads'
    BY <1>4, <2>2, <2>4, GrowthKeepsMirror DEF Consistent, TypeOK
  <2>8. usage[s].used = 0
    BY <1>4, <1>6 DEF Consistent, ClosedRowsEmpty
  <2>9. ChargesConserved' /\ ClosedRowsEmpty' /\ PlanAndAllowanceAgree'
    BY <1>4, <2>2, <2>4, <2>8
    DEF Consistent, TypeOK, ChargesConserved, ClosedRowsEmpty,
        PlanAndAllowanceAgree
  <2>10. TypeOK'
    BY <1>4, <2>2, <2>4, <2>6 DEF Consistent, TypeOK
  <2> QED
    BY <2>6, <2>7, <2>9, <2>10 DEF Consistent
<1> QED
  BY <1>5, <1>6

LEMMA ZeroMirrorStep ==
    ASSUME Consistent, NEW w \in Workers, ZeroMirror(w)
    PROVE  Consistent'
<1>1. PICK l \in Locals : l = loc[w]
  BY DEF Consistent, TypeOK
<1>2. /\ monthly_sms_count' \in Nat /\ MirrorNeverLeads'
      /\ UNCHANGED <<now, sub, open, usage, charged>>
  <2>1. monthly_sms_count' = 0 \/ monthly_sms_count' = monthly_sms_count
    BY DEF ZeroMirror, WriteMirror
  <2> QED
    BY <2>1 DEF ZeroMirror, Consistent, TypeOK, MirrorNeverLeads
<1>3. PICK m : m = [l EXCEPT !.mon = monthly_sms_count']
  OBVIOUS
<1>4. m \in Locals /\ m.rec = l.rec /\ m.win = l.win
  BY <1>2, <1>3 DEF Locals
<1>5. Continue(m) \in Locals /\ Goto(w, Continue(m))
  BY <1>1, <1>3, <1>4, ContinueTyped DEF ZeroMirror
<1>6. Lags(Continue(m), open, usage)
  <2>1. CASE Continue(m) = Idle
    BY <2>1, IdleLags
  <2>2. CASE Continue(m).rec = l.rec /\ Continue(m).win = l.win
    <3>1. Lags(l, open, usage) /\ Relies(l)
      BY <1>1 DEF Consistent, CopiesLag, ZeroMirror, Relies
    <3> QED
      BY <2>2, <3>1 DEF Lags
  <2> QED
    BY <1>4, <2>1, <2>2, ContinueTyped
<1> QED
  BY <1>2, <1>5, <1>6, LocalStep DEF Consistent, TypeOK

LEMMA IncrementStep ==
    ASSUME Consistent, NEW w \in Workers, Increment(w)
    PROVE  Consistent'
<1>1. PICK l \in Locals : l = loc[w]
  BY DEF Consistent, TypeOK
<1>2. PICK s : s = l.win.start
  OBVIOUS
<1>3. /\ s \in open /\ s \in Starts /\ usage[s] \in Rows
      /\ l.rec.used <= usage[s].used
      /\ l.rec.allow = Allowance[l.rec.plan]
  BY <1>1, <1>2 DEF Consistent, TypeOK, CopiesLag, Lags, Relies, Increment
<1>4. CASE usage[s].used + 1 <= usage[s].allow
  <2>1. PICK k : k = [l EXCEPT !.pc = "mirror", !.rec.used = @ + 1]
    OBVIOUS
  <2>2. PICK row : row = [usage[s] EXCEPT !.used = @ + 1]
    OBVIOUS
  <2>3. /\ usage' = [usage EXCEPT ![s] = row]
        /\ charged' = [charged EXCEPT ![s] = @ + 1]
        /\ Goto(w, k)
        /\ UNCHANGED <<now, sub, open, monthly_sms_count>>
    BY <1>1, <1>2, <1>4, <2>1, <2>2 DEF Increment
  <2>4. /\ row \in Rows /\ row.used = usage[s].used + 1
        /\ row.allow = usage[s].allow /\ row.plan = usage[s].plan
    BY <1>3, <2>2 DEF Rows
  <2>5. /\ k \in Locals /\ k.win = l.win /\ k.rec.used = l.rec.used + 1
        /\ k.rec.allow = l.rec.allow /\ k.rec.plan = l.rec.plan
    <3>1. [l.rec EXCEPT !.used = @ + 1] \in Rows
      BY DEF Locals, Rows
    <3>2. k = [l EXCEPT !.pc = "mirror", !.rec = [l.rec EXCEPT !.used = @ + 1]]
      BY <2>1 DEF Locals
    <3> QED
      BY <3>1, <3>2 DEF Locals, Steps, Rows
  <2>6. usage' \in [Starts -> Rows] /\ Grows /\ usage'[s] = row
    BY <1>3, <2>3, <2>4 DEF Consistent, TypeOK, Grows, Rows
  <2>7. Lags(k, open', usage')
    <3>1. l.rec.used \in Nat /\ usage[s].used \in Nat
      BY <1>3 DEF Locals, Rows
    <3> QED
      BY <1>2, <1>3, <2>3, <2>4, <2>5, <2>6, <3>1 DEF Lags
  <2>8. loc' \in [Workers -> Locals] /\ CopiesLag'
    BY <2>3, <2>5, <2>6, <2>7, GotoKeepsCopies
  <2>9. MirrorNeverLeads'
    BY <2>3, <2>6, GrowthKeepsMirror DEF Consistent, TypeOK
  <2>10. ChargesConserved' /\ ClosedRowsEmpty' /\ PlanAndAllowanceAgree'
    BY <1>3, <2>3, <2>4, <2>6
    DEF Consistent, TypeOK, ChargesConserved, ClosedRowsEmpty,
        PlanAndAllowanceAgree
  <2>11. TypeOK'
    BY <1>3, <2>3, <2>6, <2>8 DEF Consistent, TypeOK
  <2> QED
    BY <2>8, <2>9, <2>10, <2>11 DEF Consistent
<1>5. CASE ~(usage[s].used + 1 <= usage[s].allow)
  <2>1. Goto(w, Idle) /\ UNCHANGED <<now, sub, open, usage, monthly_sms_count, charged>>
    BY <1>1, <1>2, <1>5 DEF Increment
  <2>2. MirrorNeverLeads'
    BY <2>1 DEF Consistent, MirrorNeverLeads
  <2> QED
    BY <2>1, <2>2, IdleTyped, IdleLags, LocalStep DEF Consistent, TypeOK
<1> QED
  BY <1>4, <1>5

LEMMA MirrorStep ==
    ASSUME Consistent, NEW w \in Workers, Mirror(w)
    PROVE  Consistent'
<1>1. PICK l \in Locals : l = loc[w]
  BY DEF Consistent, TypeOK
<1>2. Goto(w, Idle) /\ UNCHANGED <<now, sub, open, usage, charged>>
  BY DEF Mirror
<1>3. monthly_sms_count' \in {l.rec.used, monthly_sms_count}
  BY <1>1 DEF Mirror, WriteMirror
<1>4. l.win.start \in open /\ l.rec.used <= usage[l.win.start].used
  BY <1>1 DEF Consistent, CopiesLag, Lags, Relies, Mirror
<1>5. monthly_sms_count' \in Nat /\ MirrorNeverLeads'
  BY <1>2, <1>3, <1>4
  DEF Consistent, TypeOK, MirrorNeverLeads, Locals, Rows
<1> QED
  BY <1>2, <1>5, IdleTyped, IdleLags, LocalStep DEF Consistent, TypeOK

LEMMA CrashStep ==
    ASSUME Consistent, NEW w \in Workers, Crash(w)
    PROVE  Consistent'
<1>1. MirrorNeverLeads'
  BY DEF Crash, Consistent, MirrorNeverLeads
<1> QED
  BY <1>1, IdleTyped, IdleLags, LocalStep DEF Crash, Consistent, TypeOK

LEMMA TickStep ==
    ASSUME Consistent, Tick
    PROVE  Consistent'
<1>1. TypeOK'
  BY TimeAssumption DEF Tick, Consistent, TypeOK
<1> QED
  BY <1>1
  DEF Tick, Consistent, ChargesConserved, PlanAndAllowanceAgree,
      ClosedRowsEmpty, CopiesLag, MirrorNeverLeads

-----------------------------------------------------------------------------
(* The theorems.                                                           *)

LEMMA NextConsistent == Consistent /\ [Next]_vars => Consistent'
<1> SUFFICES ASSUME Consistent, [Next]_vars PROVE Consistent'
  OBVIOUS
<1>1. CASE Tick
  BY <1>1, TickStep
<1>2. CASE \E w \in Workers : Begin(w, "summary") \/ Begin(w, "charge")
  BY <1>2, BeginStep
<1>3. CASE \E w \in Workers : BeginSync(w)
  BY <1>3, BeginSyncStep
<1>4. CASE \E w \in Workers : Advance(w)
  BY <1>4, LookupStep, LookupLatestStep, ResyncStep, InsertStep,
     ZeroMirrorStep, IncrementStep, MirrorStep DEF Advance
<1>5. CASE \E w \in Workers : Crash(w)
  BY <1>5, CrashStep
<1>6. CASE UNCHANGED vars
  BY <1>6
  DEF vars, Consistent, TypeOK, ChargesConserved, PlanAndAllowanceAgree,
      ClosedRowsEmpty, CopiesLag, MirrorNeverLeads
<1> QED
  BY <1>1, <1>2, <1>3, <1>4, <1>5, <1>6 DEF Next

\* The inductive invariant holds in every reachable state.
THEOREM AlwaysConsistent == Spec => []Consistent
BY InitConsistent, NextConsistent, PTL DEF Spec

\* Type correctness of the metering state.
THEOREM TypeCorrect == Spec => []TypeOK
BY AlwaysConsistent, PTL DEF Consistent

\* sms_used counts the charged replies exactly, for any number of concurrent
\* requests, retries and crashes (record_usage_increment).
THEOREM ChargesAreConserved == Spec => []ChargesConserved
BY AlwaysConsistent, PTL DEF Consistent

\* Column-wise saves of stale copies never mix the plan of one sync with the
\* allowance of another.
THEOREM PlansAndAllowancesAgree == Spec => []PlanAndAllowanceAgree
BY AlwaysConsistent, PTL DEF Consistent

\* The user's mirror column never claims more than some period was charged.
THEOREM MirrorLags == Spec => []MirrorNeverLeads
BY AlwaysConsistent, PTL DEF Consistent

-----------------------------------------------------------------------------
(* What a step does to the rows, and the theorems about steps.             *)

\* The four things a step can do to the usage rows: nothing; sync the plan of
\* a row; add a row without charges; charge a row that has room.
Untouched == UNCHANGED <<open, usage, charged>>
PlanSynced(s, p) ==
    /\ s \in open /\ UNCHANGED <<open, charged>>
    /\ usage' = [usage EXCEPT ![s] =
                   [usage[s] EXCEPT !.plan = p, !.allow = Allowance[p]]]
RowAdded(s, p) ==
    /\ s \notin open /\ open' = open \cup {s} /\ UNCHANGED charged
    /\ \E e \in Nat :
         usage' = [usage EXCEPT ![s] =
                     [used |-> 0, allow |-> Allowance[p], plan |-> p, end |-> e]]
Charged(s) ==
    /\ s \in open /\ UNCHANGED open
    /\ usage[s].used + 1 <= usage[s].allow
    /\ usage' = [usage EXCEPT ![s].used = @ + 1]
    /\ charged' = [charged EXCEPT ![s] = @ + 1]

LEMMA StepOnRows ==
    ASSUME Consistent, [Next]_vars
    PROVE  \/ Untouched
           \/ \E s \in Starts : \/ \E p \in Plans : PlanSynced(s, p) \/ RowAdded(s, p)
                                \/ Charged(s)
<1>1. \A x \in Subscriptions : x.plan \in Plans
  BY PlanAssumption, TimeAssumption DEF Subscriptions, NewSub
<1>2. ASSUME NEW w \in Workers, Resync(w)
      PROVE  Untouched \/ \E s \in Starts, p \in Plans : PlanSynced(s, p)
  <2>1. PICK l \in Locals : l = loc[w]
    BY DEF Consistent, TypeOK
  <2>2. PICK s : s = l.win.start
    OBVIOUS
  <2>3. PICK p : p = l.sub.plan
    OBVIOUS
  <2>4. /\ s \in open /\ s \in Starts /\ usage[s] \in Rows
        /\ p \in Plans /\ l.rec.plan \in Plans
        /\ l.rec.allow = Allowance[l.rec.plan]
        /\ usage[s].allow = Allowance[usage[s].plan]
    BY <1>1, <1>2, <2>1, <2>2, <2>3
    DEF Consistent, TypeOK, CopiesLag, Lags, Relies, Resync,
        PlanAndAllowanceAgree, Locals, Rows
  <2>5. Allowance[p] # l.rec.allow <=> p # l.rec.plan
    BY <2>4, PlanAssumption
  <2>6. usage' = [usage EXCEPT ![s] =
          [usage[s] EXCEPT
             !.allow = IF Allowance[p] # l.rec.allow THEN Allowance[p] ELSE @,
             !.plan = IF p # l.rec.plan THEN p ELSE @]]
    BY <1>2, <2>1, <2>2, <2>3 DEF Resync
  <2>7. UNCHANGED <<open, charged>>
    BY <1>2 DEF Resync
  <2>8. CASE p # l.rec.plan
    <3>1. [usage[s] EXCEPT
             !.allow = IF Allowance[p] # l.rec.allow THEN Allowance[p] ELSE @,
             !.plan = IF p # l.rec.plan THEN p ELSE @]
            = [usage[s] EXCEPT !.plan = p, !.allow = Allowance[p]]
      BY <2>4, <2>5, <2>8 DEF Rows
    <3> QED
      BY <2>4, <2>6, <2>7, <3>1 DEF PlanSynced
  <2>9. CASE p = l.rec.plan
    <3>1. [usage[s] EXCEPT
             !.allow = IF Allowance[p] # l.rec.allow THEN Allowance[p] ELSE @,
             !.plan = IF p # l.rec.plan THEN p ELSE @]
            = usage[s]
      BY <2>4, <2>5, <2>9 DEF Rows
    <3>2. usage' = usage
      BY <2>4, <2>6, <3>1 DEF Consistent, TypeOK
    <3> QED
      BY <2>7, <3>2 DEF Untouched
  <2> QED
    BY <2>8, <2>9
<1>3. ASSUME NEW w \in Workers, Insert(w)
      PROVE  Untouched \/ \E s \in Starts, p \in Plans : RowAdded(s, p)
  <2>1. PICK l \in Locals : l = loc[w]
    BY DEF Consistent, TypeOK
  <2>2. l.sub.plan \in Plans /\ l.win.start \in Starts /\ l.win.end \in Nat
    BY <1>1 DEF Locals
  <2>3. CASE l.win.start \in open
    BY <1>3, <2>1, <2>3 DEF Insert, Untouched
  <2>4. CASE l.win.start \notin open
    BY <1>3, <2>1, <2>2, <2>4 DEF Insert, RowAdded
  <2> QED
    BY <2>3, <2>4
<1>4. ASSUME NEW w \in Workers, Increment(w)
      PROVE  Untouched \/ \E s \in Starts : Charged(s)
  <2>1. PICK l \in Locals : l = loc[w]
    BY DEF Consistent, TypeOK
  <2>2. l.win.start \in open
    BY <1>4, <2>1 DEF Consistent, CopiesLag, Lags, Relies, Increment
  <2>3. l.win.start \in Starts
    BY DEF Locals
  <2>4. CASE usage[l.win.start].used + 1 <= usage[l.win.start].allow
    BY <1>4, <2>1, <2>2, <2>3, <2>4 DEF Increment, Charged
  <2>5. CASE ~(usage[l.win.start].used + 1 <= usage[l.win.start].allow)
    BY <1>4, <2>1, <2>5 DEF Increment, Untouched
  <2> QED
    BY <2>4, <2>5
<1>5. ASSUME NEW w \in Workers,
             \/ Begin(w, "summary") \/ Begin(w, "charge") \/ BeginSync(w)
             \/ Lookup(w) \/ LookupLatest(w) \/ ZeroMirror(w)
             \/ Mirror(w) \/ Crash(w)
      PROVE  Untouched
  BY <1>5 DEF Untouched, Begin, BeginSync, Lookup, LookupLatest, ZeroMirror,
              Mirror, Crash
<1>6. Tick \/ UNCHANGED vars => Untouched
  BY DEF Tick, vars, Untouched
<1>7. [Next]_vars => \/ Tick \/ UNCHANGED vars
                     \/ \E w \in Workers :
                          \/ Begin(w, "summary") \/ Begin(w, "charge")
                          \/ BeginSync(w) \/ Advance(w) \/ Crash(w)
  BY DEF Next
<1> QED
  BY <1>2, <1>3, <1>4, <1>5, <1>6, <1>7 DEF Advance

\* No save of a stale copy, failed insert or crash takes a charge back.
THEOREM ChargesAreNeverRefunded == Spec => UsageNeverRefunded
<1> DEFINE Kept == \A s \in open : /\ s \in open'
                                   /\ usage'[s].end = usage[s].end
                                   /\ usage'[s].used >= usage[s].used
<1>1. Consistent /\ [Next]_vars => [Kept]_vars
  <2> SUFFICES ASSUME Consistent, [Next]_vars, NEW r \in open
               PROVE  /\ r \in open' /\ usage'[r].end = usage[r].end
                      /\ usage'[r].used >= usage[r].used
    OBVIOUS
  <2>1. /\ r \in Starts /\ usage \in [Starts -> Rows]
        /\ usage[r] \in Rows /\ usage[r].used \in Nat
    BY DEF Consistent, TypeOK, Rows
  <2>2. CASE Untouched
    BY <2>1, <2>2 DEF Untouched
  <2>3. CASE \E s \in Starts, p \in Plans : PlanSynced(s, p)
    BY <2>1, <2>3 DEF PlanSynced, Rows
  <2>4. CASE \E s \in Starts, p \in Plans : RowAdded(s, p)
    BY <2>1, <2>4 DEF RowAdded, Rows
  <2>5. CASE \E s \in Starts : Charged(s)
    BY <2>1, <2>5 DEF Charged, Rows
  <2> QED
    BY <2>2, <2>3, <2>4, <2>5, StepOnRows
<1> QED
  BY <1>1, AlwaysConsistent, PTL DEF Spec, UsageNeverRefunded

\* Metering implements the abstract quota ledger: every charge is within the
\* allowance in force when it commits.
THEOREM MeteringImplementsLedger == Spec => ImplementsLedger
<1> DEFINE limit == [s \in Starts |-> usage[s].allow]
           limits == {Allowance[p] : p \in Plans}
<1>1. Init => Ledger!Init
  BY PlanAssumption DEF Init, Ledger!Init, EmptyRow
<1>2. Consistent /\ [Next]_vars => [Ledger!Next]_<<limit, charged>>
  <2> SUFFICES ASSUME Consistent, [Next]_vars
               PROVE  Ledger!Next \/ (limit' = limit /\ charged' = charged)
    OBVIOUS
  <2>1. usage \in [Starts -> Rows] /\ charged \in [Starts -> Nat]
    BY DEF Consistent, TypeOK
  <2>2. CASE Untouched
    BY <2>2 DEF Untouched
  <2>3. CASE \E s \in Starts, p \in Plans : PlanSynced(s, p)
    <3>1. PICK s \in Starts, p \in Plans : PlanSynced(s, p)
      BY <2>3
    <3>2. limit' = [limit EXCEPT ![s] = Allowance[p]]
      BY <2>1, <3>1 DEF PlanSynced, Rows
    <3>3. Ledger!SetLimit(s)
      BY <3>1, <3>2 DEF Ledger!SetLimit, PlanSynced
    <3> QED
      BY <3>3 DEF Ledger!Next
  <2>4. CASE \E s \in Starts, p \in Plans : RowAdded(s, p)
    <3>1. PICK s \in Starts, p \in Plans : RowAdded(s, p)
      BY <2>4
    <3>2. limit' = [limit EXCEPT ![s] = Allowance[p]]
      <4>1. PICK e \in Nat :
              usage' = [usage EXCEPT ![s] =
                          [used |-> 0, allow |-> Allowance[p],
                           plan |-> p, end |-> e]]
        BY <3>1 DEF RowAdded
      <4>2. \A r \in Starts :
              usage'[r].allow = IF r = s THEN Allowance[p] ELSE usage[r].allow
        BY <2>1, <4>1
      <4> QED
        BY <4>2
    <3>3. Ledger!SetLimit(s)
      BY <3>1, <3>2 DEF Ledger!SetLimit, RowAdded
    <3> QED
      BY <3>3 DEF Ledger!Next
  <2>5. CASE \E s \in Starts : Charged(s)
    <3>1. PICK s \in Starts : Charged(s)
      BY <2>5
    <3>2. limit' = limit
      BY <2>1, <3>1 DEF Charged, Rows
    <3>3. charged[s] < limit[s]
      <4>1. usage[s].used = charged[s] /\ usage[s] \in Rows
        BY <2>1 DEF Consistent, ChargesConserved
      <4> QED
        BY <3>1, <4>1 DEF Charged, Rows
    <3>4. Ledger!Grant(s)
      BY <3>1, <3>2, <3>3 DEF Ledger!Grant, Charged
    <3> QED
      BY <3>4 DEF Ledger!Next
  <2> QED
    BY <2>2, <2>3, <2>4, <2>5, StepOnRows
<1> QED
  BY <1>1, <1>2, AlwaysConsistent, PTL DEF Spec, ImplementsLedger, Ledger!Spec
=============================================================================
