----------------------------- MODULE WebProofs ------------------------------
(***************************************************************************)
(* Theorems about the web application: the tabs of a browser that share a  *)
(* session, for any tabs, tokens and bounds, and the requests that give a  *)
(* user his Stripe customer and checkout, for any number of them.          *)
(***************************************************************************)
EXTENDS ClientSession, FiniteSetTheorems, TLAPS

CONSTANTS Workers, Customers                     \* of CustomerProvisioning

VARIABLES user, sub, created, sessions, req, excused

CP == INSTANCE CustomerProvisioning

-----------------------------------------------------------------------------
(* The browser's session.                                                    *)

\* What the call of one asynchronous function is like: which requests it makes,
\* and which tokens a request carries.
Purposes == [hydrate |-> {"me", "refresh", "meNew"}, timer |-> {"refresh", "meNew"},
             login |-> {"login"}, logout |-> {"logout", "logoutAll"},
             load |-> {"me", "logout"}]
Formed(c, f) ==
    /\ c = Idle \/ c.request \in Purposes[f]
    /\ c.request \in {"me", "refresh", "meNew"} => c.old \in Tokens
    /\ c.request = "meNew" => c.new \in Tokens
    /\ c.request \in {"refresh", "login"} => (c.answer = "ok" <=> c.new # None)
    /\ c.request \in {"me", "logout", "logoutAll"} => c.new = None
AllFormed == \A t \in Tabs, f \in Functions : Formed(calls[t][f], f)

Rotating == {"hydrate", "timer"}

\* The API has exchanged the call's token.
Exchanged(c) == \/ c.request = "meNew"
                \/ c.request = "refresh" /\ c.answer = "ok"

\* A single tab, never left, that is answered before its next timer is due.
Undisturbed == Cardinality(Tabs) = 1 /\ Prompt /\ reloads = 0

\* In such a tab one function at a time rotates; a new token is known to the
\* call that received it only; and a token that was exchanged is on its way out.
OneRotates(t) == calls[t]["hydrate"] = Idle \/ calls[t]["timer"] = Idle
NewIsPrivate(t) ==
    \A f \in Functions :
        LET n == calls[t][f].new
        IN  n # None =>
              /\ server[n] \in {"live", "ended"}
              /\ n # stored
              /\ \A g \in Rotating : n # calls[t][g].old
              /\ \A g \in Functions \ {f} : n # calls[t][g].new
OldIsIssued(t) ==
    /\ stored # None => server[stored] # "unissued"
    /\ \A g \in Rotating : calls[t][g].old # None
                              => server[calls[t][g].old] # "unissued"
ExchangedIsLeaving(t) ==
    /\ stored # None /\ server[stored] = "rotated" =>
         \E f \in Rotating : Exchanged(calls[t][f]) /\ calls[t][f].old = stored
    /\ \A f \in Rotating :
         LET c == calls[t][f]
         IN  c.old # None /\ ~Exchanged(c) => server[c.old] # "rotated"
Secure(t) ==
    /\ t \notin mounted => /\ session[t] = None
                           /\ \A f \in Functions : calls[t][f] = Idle
    /\ OneRotates(t) /\ NewIsPrivate(t) /\ OldIsIssued(t) /\ ExchangedIsLeaving(t)
NothingReplayed == Undisturbed => ~replayed /\ \A t \in Tabs : Secure(t)

\* The first part of the invariant.
Wellformed == TypeOK /\ AllFormed

-----------------------------------------------------------------------------
(* Types and the form of calls.                                              *)

CallRecords == [request : RequestKinds, old : Tokens \cup {None},
                new : Tokens \cup {None}, answer : {"pending", "ok", "401"}]
ServerStates == {"unissued", "live", "rotated", "ended"}

LEMMA IdleFormed ==
    ASSUME NEW f \in Functions
    PROVE  /\ Idle \in CallRecords /\ Formed(Idle, f)
           /\ Idle.request = "none" /\ Idle.old = None /\ Idle.new = None
           /\ Idle.answer = "pending" /\ ~Exchanged(Idle)
BY DEF Idle, CallRecords, RequestKinds, Formed, Exchanged

\* A request that is sent.
LEMMA SentRecord ==
    ASSUME NEW request \in RequestKinds \ {"none"}, NEW k \in Tokens \cup {None}
    PROVE  /\ Sent(request, k) \in CallRecords
           /\ Sent(request, k).request = request /\ Sent(request, k).old = k
           /\ Sent(request, k).new = None /\ Sent(request, k).answer = "pending"
           /\ Sent(request, k) # Idle
BY DEF Sent, Idle, CallRecords, RequestKinds

\* What is known of one call.
LEMMA CallFacts ==
    ASSUME Wellformed, NEW t \in Tabs, NEW f \in Functions
    PROVE  /\ calls[t][f] \in CallRecords /\ Formed(calls[t][f], f)
           /\ calls[t][f].request \in RequestKinds
           /\ calls[t][f].old \in Tokens \cup {None}
           /\ calls[t][f].new \in Tokens \cup {None}
           /\ calls[t][f].answer \in {"pending", "ok", "401"}
BY DEF Wellformed, TypeOK, AllFormed, CallRecords

\* One call becomes c.
Becomes(t, f, c) ==
    /\ calls' \in [Tabs -> [Functions -> CallRecords]]
    /\ calls'[t][f] = c
    /\ \A g \in Functions \ {f} : calls'[t][g] = calls[t][g]
    /\ \A u \in Tabs \ {t} : calls'[u] = calls[u]

LEMMA BecomeBecomes ==
    ASSUME Wellformed, NEW t \in Tabs, NEW f \in Functions, NEW c \in CallRecords,
           Become(t, f, c)
    PROVE  Becomes(t, f, c)
BY DEF Wellformed, TypeOK, Become, Becomes, CallRecords

LEMMA AnswerBecomes ==
    ASSUME Wellformed, NEW t \in Tabs, NEW f \in Functions,
           NEW status \in {"ok", "401"}, NEW n \in Tokens \cup {None},
           Answer(t, f, status, n)
    PROVE  \E c \in CallRecords :
              /\ Becomes(t, f, c) /\ c.request = calls[t][f].request
              /\ c.old = calls[t][f].old /\ c.new = n /\ c.answer = status
<1>1. PICK c : c = [calls[t][f] EXCEPT !.answer = status, !.new = n]
  OBVIOUS
<1>2. calls[t][f] \in CallRecords /\ calls \in [Tabs -> [Functions -> CallRecords]]
  BY CallFacts DEF Wellformed, TypeOK, CallRecords
<1>3. /\ c \in CallRecords /\ c.request = calls[t][f].request
      /\ c.old = calls[t][f].old /\ c.new = n /\ c.answer = status
  BY <1>1, <1>2 DEF CallRecords
<1>4. calls' = [calls EXCEPT ![t][f] = c]
  <2>1. calls' = [[calls EXCEPT ![t][f].answer = status] EXCEPT ![t][f].new = n]
    BY DEF Answer
  <2>2. PICK m : m = [calls EXCEPT ![t][f].answer = status]
    OBVIOUS
  <2>3. PICK b : b = [calls[t][f] EXCEPT !.answer = status]
    OBVIOUS
  <2>4. m = [calls EXCEPT ![t] = [calls[t] EXCEPT ![f] = b]] /\ m[t][f] = b
    BY <1>2, <2>2, <2>3
  <2>5. calls' = [m EXCEPT ![t] = [m[t] EXCEPT ![f] = [b EXCEPT !.new = n]]]
    BY <2>1, <2>2, <2>4
  <2>6. c = [b EXCEPT !.new = n]
    BY <1>1, <2>3
  <2> QED
    BY <1>2, <2>4, <2>5, <2>6
<1> QED
  BY <1>2, <1>3, <1>4 DEF Becomes

\* A step that changes one call keeps all of them in form.
LEMMA FormedStep ==
    ASSUME Wellformed, NEW t \in Tabs, NEW f \in Functions, NEW c,
           Becomes(t, f, c), Formed(c, f)
    PROVE  AllFormed'
<1> SUFFICES ASSUME NEW u \in Tabs, NEW g \in Functions PROVE Formed(calls'[u][g], g)
  BY DEF AllFormed, Formed, Idle
<1>1. Formed(calls[u][g], g)
  BY CallFacts
<1> QED
  BY <1>1 DEF Becomes

\* A step of the API or of the browser that changes one call.
LEMMA ServedWellformed ==
    ASSUME Wellformed, NEW t \in Tabs, NEW f \in Functions, NEW c \in CallRecords,
           Becomes(t, f, c), Formed(c, f),
           server' \in [Tokens -> ServerStates],
           \A k \in Tokens : server[k] # "unissued" => server'[k] # "unissued",
           replayed' \in BOOLEAN, UNCHANGED <<aged, client, reloads>>
    PROVE  Wellformed'
<1>1. AllFormed'
  BY FormedStep
<1>2. TypeOK'
  BY DEF Wellformed, TypeOK, Becomes, CallRecords, ServerStates, client
<1> QED
  BY <1>1, <1>2 DEF Wellformed

LEMMA BrowserWellformed ==
    ASSUME Wellformed, NEW t \in Tabs, NEW f \in Functions, NEW c \in CallRecords,
           Becomes(t, f, c), Formed(c, f),
           stored' \in Tokens \cup {None},
           session' \in [Tabs -> Tokens \cup {None}], armed' \in [Tabs -> BOOLEAN],
           \A u \in Tabs : armed'[u] => session'[u] # None,
           UNCHANGED <<server, aged, mounted, reloads, replayed>>
    PROVE  Wellformed'
<1>1. AllFormed'
  BY FormedStep
<1>2. TypeOK'
  BY DEF Wellformed, TypeOK, Becomes, CallRecords
<1> QED
  BY <1>1, <1>2 DEF Wellformed

\* Keeping a session and dropping it.
LEMMA KeepTypes ==
    ASSUME ClientAssumption, Wellformed, NEW t \in Tabs, NEW k \in Tokens, Keep(t, k)
    PROVE  /\ stored' \in Tokens \cup {None}
           /\ session' \in [Tabs -> Tokens \cup {None}] /\ armed' \in [Tabs -> BOOLEAN]
           /\ \A u \in Tabs : armed'[u] => session'[u] # None
           /\ stored' = k /\ session'[t] = k
BY DEF Keep, Wellformed, TypeOK, ClientAssumption

LEMMA DropTypes ==
    ASSUME Wellformed, NEW t \in Tabs, Drop(t)
    PROVE  /\ stored' \in Tokens \cup {None}
           /\ session' \in [Tabs -> Tokens \cup {None}] /\ armed' \in [Tabs -> BOOLEAN]
           /\ \A u \in Tabs : armed'[u] => session'[u] # None
           /\ stored' = None /\ session'[t] = None
BY DEF Drop, Wellformed, TypeOK

LEMMA SameTypes ==
    ASSUME Wellformed, UNCHANGED <<stored, session, armed>>
    PROVE  /\ stored' \in Tokens \cup {None}
           /\ session' \in [Tabs -> Tokens \cup {None}] /\ armed' \in [Tabs -> BOOLEAN]
           /\ \A u \in Tabs : armed'[u] => session'[u] # None
BY DEF Wellformed, TypeOK

\* Ending sessions ends live ones only.
LEMMA EndedSessions ==
    ASSUME Wellformed, NEW S
    PROVE  /\ Ended(S) \in [Tokens -> ServerStates]
           /\ \A k \in Tokens : \/ Ended(S)[k] = server[k]
                                \/ server[k] = "live" /\ Ended(S)[k] = "ended"
BY DEF Wellformed, TypeOK, Ended, Live, ServerStates

-----------------------------------------------------------------------------
(* The API's answers: what each of them changes.                             *)

\* Sessions end, but none is exchanged.
OnlyEnds == \A k \in Tokens : \/ server'[k] = server[k]
                              \/ server[k] = "live" /\ server'[k] = "ended"

\* An answer that brings no new token.
PlainAnswer(t, f, c) ==
    /\ Becomes(t, f, c) /\ c.request = calls[t][f].request /\ c.old = calls[t][f].old
    /\ c.new = calls[t][f].new /\ Exchanged(c) = Exchanged(calls[t][f])
    /\ OnlyEnds /\ server' \in [Tokens -> ServerStates]

\* One that does: the token n is new, and the request's own one was exchanged
\* for it or the request was a sign-in.
NewToken(t, f, c, n) ==
    /\ Becomes(t, f, c) /\ c.request = calls[t][f].request /\ c.old = calls[t][f].old
    /\ c.new = n /\ c.answer = "ok" /\ server[n] = "unissued" /\ replayed' = replayed
    /\ \/ c.request = "login" /\ server' = [server EXCEPT ![n] = "live"]
       \/ /\ c.request = "refresh" /\ c.old \in Live
          /\ server' = [server EXCEPT ![c.old] = "rotated", ![n] = "live"]

LEMMA ServeEffect ==
    ASSUME ClientAssumption, Wellformed, NEW t \in Tabs, NEW f \in Functions, Serve(t, f)
    PROVE  /\ calls[t][f].request # "none" /\ UNCHANGED <<aged, client, reloads>>
           /\ \E c \in CallRecords :
                /\ Formed(c, f)
                /\ \/ PlainAnswer(t, f, c) /\ replayed' = replayed
                   \/ /\ PlainAnswer(t, f, c)
                      /\ calls[t][f].request = "refresh" /\ calls[t][f].answer = "pending"
                      /\ replayed' = (replayed \/ server[calls[t][f].old] = "rotated")
                   \/ \E n \in Tokens : NewToken(t, f, c, n)
<1> DEFINE d == calls[t][f]
<1>1. /\ d \in CallRecords /\ Formed(d, f) /\ d.new \in Tokens \cup {None}
      /\ d.old \in Tokens \cup {None} /\ None \notin Tokens
  BY CallFacts DEF ClientAssumption
<1>2. d.answer = "pending" /\ UNCHANGED <<aged, client, reloads>>
  BY DEF Serve
<1>3. server \in [Tokens -> ServerStates]
  BY DEF Wellformed, TypeOK, ServerStates
<1>5. CASE ServeMe(t, f, d)
  <2>1. PICK status \in {"ok", "401"} : Answer(t, f, status, d.new)
    BY <1>5 DEF ServeMe
  <2>2. d.request \in {"me", "meNew"} /\ UNCHANGED <<server, replayed>>
    BY <1>5 DEF ServeMe
  <2>3. PICK c \in CallRecords :
             /\ Becomes(t, f, c) /\ c.request = d.request
             /\ c.old = d.old /\ c.new = d.new /\ c.answer = status
    BY <1>1, <2>1, AnswerBecomes
  <2>4. Formed(c, f)
    <3>1. c # Idle /\ d # Idle
      BY <2>2, <2>3, IdleFormed
    <3> QED
      BY <1>1, <2>2, <2>3, <3>1 DEF Formed
  <2>5. PlainAnswer(t, f, c)
    BY <1>3, <2>2, <2>3 DEF PlainAnswer, Exchanged, OnlyEnds
  <2> QED
    BY <1>2, <2>2, <2>4, <2>5
<1>6. CASE ServeRefresh(t, f, d)
  <2>1. d.request = "refresh" /\ d.new = None /\ d.old \in Tokens /\ ~Exchanged(d)
    BY <1>1, <1>2, <1>6 DEF ServeRefresh, Formed, Exchanged
  <2>2. CASE \E n \in Tokens : /\ d.old \in Live /\ server[n] = "unissued"
                               /\ server' = [server EXCEPT ![d.old] = "rotated", ![n] = "live"]
                               /\ Answer(t, f, "ok", n) /\ replayed' = replayed
    <3>1. PICK n \in Tokens : /\ d.old \in Live /\ server[n] = "unissued"
                              /\ server' = [server EXCEPT ![d.old] = "rotated", ![n] = "live"]
                              /\ Answer(t, f, "ok", n) /\ replayed' = replayed
      BY <2>2
    <3>2. PICK c \in CallRecords :
               /\ Becomes(t, f, c) /\ c.request = d.request
               /\ c.old = d.old /\ c.new = n /\ c.answer = "ok"
      BY <3>1, AnswerBecomes
    <3>3. Formed(c, f)
      <4>1. d # Idle
        BY <2>1, IdleFormed
      <4> QED
        BY <1>1, <2>1, <3>2, <4>1 DEF Formed
    <3>4. NewToken(t, f, c, n)
      BY <2>1, <3>1, <3>2 DEF NewToken
    <3> QED
      BY <1>2, <2>1, <3>3, <3>4
  <2>3. CASE /\ Answer(t, f, "401", None)
             /\ \/ UNCHANGED <<server, replayed>>
                \/ /\ server' = Ended(Tokens)
                   /\ replayed' = (replayed \/ server[d.old] = "rotated")
    <3>1. PICK c \in CallRecords :
               /\ Becomes(t, f, c) /\ c.request = d.request
               /\ c.old = d.old /\ c.new = None /\ c.answer = "401"
      BY <2>3, AnswerBecomes
    <3>2. Formed(c, f)
      <4>1. d # Idle
        BY <2>1, IdleFormed
      <4> QED
        BY <1>1, <2>1, <3>1, <4>1 DEF Formed
    <3>3. OnlyEnds /\ server' \in [Tokens -> ServerStates]
      BY <1>3, <2>3, EndedSessions DEF OnlyEnds
    <3>4. PlainAnswer(t, f, c)
      BY <2>1, <3>1, <3>3 DEF PlainAnswer, Exchanged
    <3> QED
      BY <1>2, <2>1, <2>3, <3>2, <3>4
  <2> QED
    BY <1>6, <2>2, <2>3 DEF ServeRefresh
<1>7. CASE ServeLogin(t, f, d)
  <2>1. d.request = "login" /\ d.new = None /\ ~Exchanged(d) /\ replayed' = replayed
    BY <1>1, <1>2, <1>7 DEF ServeLogin, Formed, Exchanged
  <2>2. d # Idle
    BY <2>1, IdleFormed
  <2>3. CASE \E n \in Tokens : /\ server[n] = "unissued"
                               /\ server' = [server EXCEPT ![n] = "live"]
                               /\ Answer(t, f, "ok", n)
    <3>1. PICK n \in Tokens : /\ server[n] = "unissued"
                              /\ server' = [server EXCEPT ![n] = "live"]
                              /\ Answer(t, f, "ok", n)
      BY <2>3
    <3>2. PICK c \in CallRecords :
               /\ Becomes(t, f, c) /\ c.request = d.request
               /\ c.old = d.old /\ c.new = n /\ c.answer = "ok"
      BY <3>1, AnswerBecomes
    <3>3. Formed(c, f)
      BY <1>1, <2>1, <2>2, <3>2 DEF Formed
    <3>4. NewToken(t, f, c, n)
      BY <2>1, <3>1, <3>2 DEF NewToken
    <3> QED
      BY <1>2, <2>1, <3>3, <3>4
  <2>4. CASE Answer(t, f, "401", None) /\ UNCHANGED server
    <3>1. PICK c \in CallRecords :
               /\ Becomes(t, f, c) /\ c.request = d.request
               /\ c.old = d.old /\ c.new = None /\ c.answer = "401"
      BY <2>4, AnswerBecomes
    <3>2. Formed(c, f)
      BY <1>1, <2>1, <2>2, <3>1 DEF Formed
    <3>3. PlainAnswer(t, f, c)
      BY <1>3, <2>1, <2>4, <3>1 DEF PlainAnswer, Exchanged, OnlyEnds
    <3> QED
      BY <1>2, <2>1, <3>2, <3>3
  <2> QED
    BY <1>7, <2>3, <2>4 DEF ServeLogin
<1>8. CASE ServeLogout(t, f, d)
  <2>1. /\ d.request \in {"logout", "logoutAll"} /\ d.new = None /\ ~Exchanged(d)
        /\ replayed' = replayed /\ Answer(t, f, "ok", None)
    BY <1>1, <1>8 DEF ServeLogout, Formed, Exchanged
  <2>2. d # Idle
    BY <2>1, IdleFormed
  <2>3. PICK c \in CallRecords :
             /\ Becomes(t, f, c) /\ c.request = d.request
             /\ c.old = d.old /\ c.new = None /\ c.answer = "ok"
    BY <2>1, AnswerBecomes
  <2>4. Formed(c, f)
    BY <1>1, <2>1, <2>2, <2>3 DEF Formed
  <2>5. OnlyEnds /\ server' \in [Tokens -> ServerStates]
    BY <1>3, <1>8, EndedSessions DEF ServeLogout, OnlyEnds
  <2>6. PlainAnswer(t, f, c)
    BY <2>1, <2>3, <2>5 DEF PlainAnswer, Exchanged
  <2> QED
    BY <1>2, <2>1, <2>4, <2>6
<1> QED
  BY <1>5, <1>6, <1>7, <1>8 DEF Serve

-----------------------------------------------------------------------------
(* The browser's steps: what each of them changes.                           *)

\* A call goes on to its next request.
Forwards(t, f, c) ==
    /\ Becomes(t, f, c) /\ c.old = calls[t][f].old /\ c.new = calls[t][f].new
    /\ Exchanged(c) = Exchanged(calls[t][f])
    /\ UNCHANGED <<stored, session, armed>>

\* The session is dropped, and with it what the call knew of new tokens.
Discards(t, f, c) ==
    /\ Becomes(t, f, c) /\ Drop(t) /\ c.new = None
    /\ f \in Rotating => c = Idle

\* A call that rotates nothing sends a request or ends.
Aside(t, f, c) ==
    /\ Becomes(t, f, c) /\ f \notin Rotating /\ c.new = None
    /\ UNCHANGED <<stored, session, armed>>

\* A call ends and the session becomes k, its new token or the one it checked.
Adopts(t, f, c) ==
    /\ Becomes(t, f, c) /\ c = Idle
    /\ \E k \in Tokens :
          /\ Keep(t, k)
          /\ \/ k = calls[t][f].new
             \/ /\ f = "hydrate" /\ k = calls[t][f].old /\ ~Exchanged(calls[t][f])

BrowserStep(t, f, c) ==
    Forwards(t, f, c) \/ Discards(t, f, c) \/ Aside(t, f, c) \/ Adopts(t, f, c)

LEMMA ContinueEffect ==
    ASSUME ClientAssumption, Wellformed, NEW t \in Tabs, NEW f \in Functions,
           NEW status \in {"ok", "401", "failed"}, Continue(t, f, status)
    PROVE  /\ calls[t][f].request # "none"
           /\ UNCHANGED <<server, aged, mounted, reloads, replayed>>
           /\ \E c \in CallRecords : Formed(c, f) /\ BrowserStep(t, f, c)
<1> DEFINE d == calls[t][f]
<1>1. /\ d \in CallRecords /\ Formed(d, f) /\ d.new \in Tokens \cup {None}
      /\ d.old \in Tokens \cup {None} /\ None \notin Tokens
  BY CallFacts DEF ClientAssumption
<1>2. /\ d.request # "none" /\ UNCHANGED <<server, aged, mounted, reloads, replayed>>
      /\ status = "ok" => d.answer = "ok"
  BY DEF Continue
<1>3. d # Idle /\ d.request \in Purposes[f]
  BY <1>1, <1>2, IdleFormed DEF Formed
<1>4. /\ Idle \in CallRecords /\ Formed(Idle, f) /\ Idle.new = None
      /\ Idle.old = None /\ ~Exchanged(Idle)
  BY IdleFormed
<1>5. SUFFICES \E c \in CallRecords : Formed(c, f) /\ BrowserStep(t, f, c)
  BY <1>2
<1>6. ASSUME Become(t, f, Idle), Drop(t)
      PROVE  \E c \in CallRecords : Formed(c, f) /\ BrowserStep(t, f, c)
  BY <1>4, <1>6, BecomeBecomes DEF BrowserStep, Discards
<1>7. ASSUME Become(t, f, Idle), UNCHANGED <<stored, session, armed>>, f \notin Rotating
      PROVE  \E c \in CallRecords : Formed(c, f) /\ BrowserStep(t, f, c)
  BY <1>4, <1>7, BecomeBecomes DEF BrowserStep, Aside
<1>8. CASE AfterRefresh(t, f, d, status)
  <2>1. CASE status = "ok"
    <3>1. /\ d.request = "refresh" /\ d.answer = "ok" /\ d.new \in Tokens /\ d.old \in Tokens
          /\ Exchanged(d)
      BY <1>1, <1>2, <1>8, <2>1 DEF AfterRefresh, Formed, Exchanged
    <3>2. PICK c : c = [Sent("meNew", d.old) EXCEPT !.new = d.new]
      OBVIOUS
    <3>3. /\ c \in CallRecords /\ c.request = "meNew" /\ c.old = d.old
          /\ c.new = d.new /\ c.answer = "pending"
      BY <3>1, <3>2 DEF Sent, Idle, CallRecords, RequestKinds
    <3>4. Become(t, f, c) /\ UNCHANGED <<stored, session, armed>>
      BY <1>8, <2>1, <3>2 DEF AfterRefresh
    <3>5. f \in {"hydrate", "timer"}
      BY <1>3, <3>1 DEF Purposes, Functions
    <3>6. Formed(c, f)
      BY <3>1, <3>3, <3>5 DEF Formed, Purposes
    <3>7. Forwards(t, f, c)
      BY <3>1, <3>3, <3>4, BecomeBecomes DEF Forwards, Exchanged
    <3> QED
      BY <3>3, <3>6, <3>7 DEF BrowserStep
  <2>2. CASE status # "ok"
    BY <1>6, <1>8, <2>2 DEF AfterRefresh
  <2> QED
    BY <2>1, <2>2
<1>9. CASE AfterRotation(t, f, d, status)
  <2>1. CASE status = "ok"
    <3>1. d.new \in Tokens /\ Keep(t, d.new) /\ Become(t, f, Idle)
      BY <1>1, <1>9, <2>1 DEF AfterRotation, Formed
    <3>2. Adopts(t, f, Idle)
      BY <1>4, <3>1, BecomeBecomes DEF Adopts
    <3> QED
      BY <1>4, <3>2 DEF BrowserStep
  <2>2. CASE status # "ok"
    BY <1>6, <1>9, <2>2 DEF AfterRotation
  <2> QED
    BY <2>1, <2>2
<1>10. CASE AfterCheck(t, f, d, status)
  <2>1. /\ f = "hydrate" /\ d.request = "me" /\ d.old \in Tokens /\ ~Exchanged(d)
        /\ d.new = None
    BY <1>1, <1>10 DEF AfterCheck, Formed, Exchanged
  <2>2. CASE status = "ok"
    <3>1. Keep(t, d.old) /\ Become(t, f, Idle)
      BY <1>10, <2>2 DEF AfterCheck
    <3>2. Adopts(t, f, Idle)
      BY <1>4, <2>1, <3>1, BecomeBecomes DEF Adopts
    <3> QED
      BY <1>4, <3>2 DEF BrowserStep
  <2>3. CASE status = "401"
    <3>1. PICK c : c = Sent("refresh", d.old)
      OBVIOUS
    <3>2. /\ c \in CallRecords /\ c.request = "refresh" /\ c.old = d.old
          /\ c.new = None /\ c.answer = "pending"
      BY <2>1, <3>1, SentRecord DEF RequestKinds
    <3>3. Become(t, f, c) /\ UNCHANGED <<stored, session, armed>>
      BY <1>10, <2>3, <3>1 DEF AfterCheck
    <3>4. Formed(c, f)
      BY <2>1, <3>2 DEF Formed, Purposes
    <3>5. Forwards(t, f, c)
      BY <2>1, <3>2, <3>3, BecomeBecomes DEF Forwards, Exchanged
    <3> QED
      BY <3>2, <3>4, <3>5 DEF BrowserStep
  <2>4. CASE status = "failed"
    BY <1>6, <1>10, <2>4 DEF AfterCheck
  <2> QED
    BY <2>2, <2>3, <2>4
<1>11. CASE AfterLogin(t, f, d, status)
  <2>1. d.request = "login" /\ f = "login" /\ Become(t, f, Idle)
    BY <1>3, <1>11 DEF AfterLogin, Purposes, Functions
  <2>2. CASE status = "ok"
    <3>1. d.new \in Tokens /\ Keep(t, d.new)
      BY <1>1, <1>2, <1>11, <2>2 DEF AfterLogin, Formed
    <3>2. Adopts(t, f, Idle)
      BY <1>4, <2>1, <3>1, BecomeBecomes DEF Adopts
    <3> QED
      BY <1>4, <3>2 DEF BrowserStep
  <2>3. CASE status # "ok"
    BY <1>7, <1>11, <2>1, <2>3 DEF AfterLogin, Rotating
  <2> QED
    BY <2>2, <2>3
<1>12. CASE AfterLoad(t, f, d, status)
  <2>1. f = "load" /\ d.request = "me" /\ f \notin Rotating
    BY <1>12 DEF AfterLoad, Rotating
  <2>2. CASE status = "401"
    <3>1. PICK c : c = Sent("logout", d.old)
      OBVIOUS
    <3>2. /\ c \in CallRecords /\ c.request = "logout" /\ c.new = None
      BY <1>1, <3>1, SentRecord DEF RequestKinds
    <3>3. Become(t, f, c) /\ Drop(t)
      BY <1>12, <2>2, <3>1 DEF AfterLoad
    <3>4. Formed(c, f)
      BY <2>1, <3>2 DEF Formed, Purposes
    <3>5. Discards(t, f, c)
      BY <2>1, <3>2, <3>3, BecomeBecomes DEF Discards
    <3> QED
      BY <3>2, <3>4, <3>5 DEF BrowserStep
  <2>3. CASE status # "401"
    BY <1>7, <1>12, <2>1, <2>3 DEF AfterLoad
  <2> QED
    BY <2>2, <2>3
<1>13. CASE AfterLogout(t, f, d)
  <2>1. f \notin Rotating
    BY <1>3, <1>13 DEF AfterLogout, Purposes, Functions, Rotating
  <2> QED
    BY <1>7, <1>13, <2>1 DEF AfterLogout
<1> QED
  BY <1>8, <1>9, <1>10, <1>11, <1>12, <1>13 DEF Continue

\* What the user starts.
UserStep(t, f, c) == Discards(t, f, c) \/ Aside(t, f, c)

\* What the user does with the session.
LEMMA UserEffect ==
    ASSUME ClientAssumption, Wellformed, NEW t \in Tabs,
           \/ Login(t) \/ Load(t)
           \/ \E request \in {"logout", "logoutAll"} : Logout(t, request)
    PROVE  /\ t \in mounted /\ UNCHANGED <<server, aged, mounted, reloads, replayed>>
           /\ \E f \in Functions, c \in CallRecords : Formed(c, f) /\ UserStep(t, f, c)
<1>1. session[t] \in Tokens \cup {None}
  BY DEF Wellformed, TypeOK
<1>2. CASE Login(t)
  <2>1. PICK c : c = Sent("login", None)
    OBVIOUS
  <2>2. /\ c \in CallRecords /\ c.request = "login" /\ c.new = None
        /\ c.answer = "pending"
    BY <2>1, SentRecord DEF RequestKinds
  <2>3. Formed(c, "login")
    BY <2>2 DEF Formed, Purposes
  <2>4. Aside(t, "login", c)
    BY <1>2, <2>1, <2>2, BecomeBecomes DEF Login, Aside, Rotating, Functions, client
  <2> QED
    BY <1>2, <2>2, <2>3, <2>4 DEF UserStep, Functions, Login, client
<1>3. CASE Load(t)
  <2>1. PICK c : c = Sent("me", session[t])
    OBVIOUS
  <2>2. /\ c \in CallRecords /\ c.request = "me" /\ c.new = None /\ c.old = session[t]
    BY <1>1, <2>1, SentRecord DEF RequestKinds
  <2>3. Formed(c, "load")
    BY <1>1, <1>3, <2>2 DEF Formed, Purposes, Load
  <2>4. Aside(t, "load", c)
    BY <1>3, <2>1, <2>2, BecomeBecomes DEF Load, Aside, Rotating, Functions, client
  <2> QED
    BY <1>3, <2>2, <2>3, <2>4 DEF UserStep, Functions, Load, Initialized, client
<1>4. ASSUME NEW request \in {"logout", "logoutAll"}, Logout(t, request)
      PROVE  /\ t \in mounted /\ UNCHANGED <<server, aged, mounted, reloads, replayed>>
             /\ \E f \in Functions, c \in CallRecords : Formed(c, f) /\ UserStep(t, f, c)
  <2>1. PICK c : c = Sent(request, session[t])
    OBVIOUS
  <2>2. /\ c \in CallRecords /\ c.request = request /\ c.new = None
    BY <1>1, <2>1, SentRecord DEF RequestKinds
  <2>3. Formed(c, "logout")
    BY <2>2 DEF Formed, Purposes
  <2>4. Discards(t, "logout", c)
    BY <1>4, <2>1, <2>2, BecomeBecomes DEF Logout, Discards, Rotating, Functions
  <2> QED
    BY <1>4, <2>2, <2>3, <2>4 DEF UserStep, Functions, Logout, Initialized
<1> QED
  BY <1>2, <1>3, <1>4

LEMMA BrowserStepWellformed ==
    ASSUME ClientAssumption, Wellformed, NEW t \in Tabs, NEW f \in Functions,
           NEW c \in CallRecords, Formed(c, f), BrowserStep(t, f, c),
           UNCHANGED <<server, aged, mounted, reloads, replayed>>
    PROVE  Wellformed'
<1>1. Becomes(t, f, c)
  BY DEF BrowserStep, Forwards, Discards, Aside, Adopts
<1>2. /\ stored' \in Tokens \cup {None}
      /\ session' \in [Tabs -> Tokens \cup {None}] /\ armed' \in [Tabs -> BOOLEAN]
      /\ \A u \in Tabs : armed'[u] => session'[u] # None
  BY KeepTypes, DropTypes, SameTypes DEF BrowserStep, Forwards, Discards, Aside, Adopts
<1> QED
  BY <1>1, <1>2, BrowserWellformed

LEMMA MountEffect ==
    ASSUME ClientAssumption, Wellformed, NEW t \in Tabs, Mount(t)
    PROVE  /\ Wellformed'
           /\ \E c \in CallRecords :
                 /\ Becomes(t, "hydrate", c) /\ c.new = None /\ ~Exchanged(c)
                 /\ c = Idle \/ c.old = stored
<1>1. stored \in Tokens \cup {None} /\ "hydrate" \in Functions
  BY DEF Wellformed, TypeOK, Functions
<1>2. PICK c : c = IF stored = None THEN Idle
                   ELSE IF stored \in aged THEN Sent("refresh", stored)
                   ELSE Sent("me", stored)
  OBVIOUS
<1>3. /\ c \in CallRecords /\ c.new = None /\ c.answer = "pending"
      /\ \/ c = Idle
         \/ c.old = stored /\ stored # None /\ c.request \in {"refresh", "me"}
  BY <1>1, <1>2, IdleFormed, SentRecord DEF RequestKinds
<1>4. Formed(c, "hydrate") /\ ~Exchanged(c)
  BY <1>1, <1>3, IdleFormed DEF Formed, Purposes, Exchanged
<1>5. Becomes(t, "hydrate", c)
  BY <1>1, <1>2, <1>3, BecomeBecomes DEF Mount
<1>6. AllFormed'
  BY <1>1, <1>4, <1>5, FormedStep
<1>7. TypeOK'
  BY <1>1, <1>5, ClientAssumption DEF Mount, Wellformed, TypeOK, Becomes, CallRecords
<1> QED
  BY <1>3, <1>4, <1>5, <1>6, <1>7 DEF Wellformed

LEMMA FireEffect ==
    ASSUME ClientAssumption, Wellformed, NEW t \in Tabs, Fire(t)
    PROVE  /\ Wellformed' /\ session[t] # None
           /\ \E c \in CallRecords :
                 /\ Becomes(t, "timer", c) /\ c.new = None /\ ~Exchanged(c)
                 /\ c.old = session[t]
<1>1. session[t] \in Tokens /\ "timer" \in Functions
  BY DEF Fire, Wellformed, TypeOK, Functions
<1>2. PICK c : c = Sent("refresh", session[t])
  OBVIOUS
<1>3. /\ c \in CallRecords /\ c.new = None /\ c.answer = "pending"
      /\ c.old = session[t] /\ c.request = "refresh"
  BY <1>1, <1>2, SentRecord DEF RequestKinds
<1>4. Formed(c, "timer") /\ ~Exchanged(c)
  BY <1>1, <1>3 DEF Formed, Purposes, Exchanged
<1>5. Becomes(t, "timer", c)
  BY <1>1, <1>2, <1>3, BecomeBecomes DEF Fire
<1>6. AllFormed'
  BY <1>1, <1>4, <1>5, FormedStep
<1>7. TypeOK'
  BY <1>5 DEF Fire, Wellformed, TypeOK, Becomes, CallRecords
<1> QED
  BY <1>1, <1>3, <1>4, <1>5, <1>6, <1>7, ClientAssumption DEF Wellformed, ClientAssumption

LEMMA LeaveWellformed ==
    ASSUME ClientAssumption, Wellformed, NEW t \in Tabs, Leave(t)
    PROVE  Wellformed' /\ reloads' # 0
<1>1. \A f \in Functions : Idle \in CallRecords /\ Formed(Idle, f)
  BY IdleFormed
<1>2. reloads \in Nat /\ reloads' = reloads + 1 /\ reloads' \in 0 .. MaxReloads
  BY DEF Leave, Wellformed, TypeOK, ClientAssumption
<1>3. calls' \in [Tabs -> [Functions -> CallRecords]]
  BY <1>1 DEF Leave, Wellformed, TypeOK, CallRecords
<1>4. TypeOK'
  BY <1>2, <1>3 DEF Leave, Wellformed, TypeOK, CallRecords
<1>5. AllFormed'
  <2> SUFFICES ASSUME NEW u \in Tabs, NEW f \in Functions PROVE Formed(calls'[u][f], f)
    BY DEF AllFormed, Formed, Idle
  <2>1. calls'[u][f] = IF u = t THEN Idle ELSE calls[u][f]
    BY DEF Leave, Wellformed, TypeOK
  <2> QED
    BY <1>1, <2>1, CallFacts
<1> QED
  BY <1>2, <1>4, <1>5 DEF Wellformed

LEMMA ElsewhereEffect ==
    ASSUME Wellformed, EndElsewhere \/ \E k \in Tokens : GrowOld(k)
    PROVE  /\ Wellformed' /\ OnlyEnds /\ server' \in [Tokens -> ServerStates]
           /\ UNCHANGED <<client, calls, reloads, replayed>>
<1>1. server \in [Tokens -> ServerStates]
  BY DEF Wellformed, TypeOK, ServerStates
<1>2. OnlyEnds /\ server' \in [Tokens -> ServerStates]
  BY <1>1, EndedSessions DEF EndElsewhere, GrowOld, OnlyEnds
<1>3. UNCHANGED <<client, calls, reloads, replayed>>
  BY DEF EndElsewhere, GrowOld
<1>4. aged' \subseteq {k \in Tokens : server'[k] # "unissued"}
  BY <1>1, <1>2 DEF EndElsewhere, GrowOld, Wellformed, TypeOK, OnlyEnds
<1>5. TypeOK'
  BY <1>2, <1>3, <1>4 DEF Wellformed, TypeOK, client, ServerStates
<1>6. AllFormed'
  BY <1>3 DEF Wellformed, AllFormed, Formed
<1> QED
  BY <1>2, <1>3, <1>5, <1>6 DEF Wellformed

-----------------------------------------------------------------------------
(* The single tab that nothing disturbs.                                     *)

\* What shows is what is stored, as long as there is one tab: the two are written
\* together.
ShowsStored == \A t \in mounted : Cardinality(Tabs) = 1 => session[t] = stored
Matching == Wellformed /\ ShowsStored

\* The whole invariant.
Orderly == Matching /\ NothingReplayed

LEMMA OnlyTab ==
    ASSUME ClientAssumption, Cardinality(Tabs) = 1, NEW t \in Tabs
    PROVE  Tabs = {t}
BY FS_Singleton DEF ClientAssumption

\* The session and its storage are written together.
LEMMA MatchingStep ==
    ASSUME ClientAssumption, Matching, Wellformed', NEW t \in Tabs,
           \/ UNCHANGED <<stored, session, mounted>>
           \/ \E k \in Tokens : Keep(t, k)
           \/ Drop(t)
           \/ Mount(t) \/ Leave(t),
           mounted' \subseteq mounted \cup {t}
    PROVE  Matching'
<1> SUFFICES ASSUME NEW u \in mounted', Cardinality(Tabs) = 1
             PROVE  session'[u] = stored'
  BY DEF ShowsStored, Matching
<1>1. /\ u = t /\ session \in [Tabs -> Tokens \cup {None}]
      /\ \A v \in mounted : session[v] = stored
  <2>1. u \in Tabs
    BY DEF Matching, Wellformed, TypeOK
  <2> QED
    BY <2>1, OnlyTab DEF Matching, Wellformed, TypeOK, ShowsStored
<1> QED
  BY <1>1 DEF Keep, Drop, Mount, Leave

\* A call of which no token changes, while sessions may end.
LEMMA SameTokensSecure ==
    ASSUME ClientAssumption, Wellformed, NEW t \in Tabs, Secure(t), NEW f \in Functions,
           NEW c, Becomes(t, f, c), calls[t][f] # Idle,
           c.old = calls[t][f].old, c.new = calls[t][f].new,
           Exchanged(c) = Exchanged(calls[t][f]),
           OnlyEnds, UNCHANGED <<stored, mounted, session>>
    PROVE  Secure(t)'
<1>1. \A g \in Functions : /\ calls'[t][g].old = calls[t][g].old
                           /\ calls'[t][g].new = calls[t][g].new
                           /\ Exchanged(calls'[t][g]) = Exchanged(calls[t][g])
  BY DEF Becomes
<1>2. /\ stored \in Tokens \cup {None} /\ None \notin Tokens
      /\ \A g \in Functions : /\ calls[t][g].old \in Tokens \cup {None}
                              /\ calls[t][g].new \in Tokens \cup {None}
  BY CallFacts DEF Wellformed, TypeOK, ClientAssumption
<1>3. "hydrate" \in Functions /\ "timer" \in Functions /\ Rotating \subseteq Functions
  BY DEF Functions, Rotating
<1>4. t \in mounted
  BY DEF Secure
<1>5. OneRotates(t)'
  BY <1>3 DEF Secure, OneRotates, Becomes, Idle
<1>6. NewIsPrivate(t)'
  BY <1>1, <1>2, <1>3 DEF Secure, NewIsPrivate, OnlyEnds
<1>7. OldIsIssued(t)'
  BY <1>1, <1>2, <1>3 DEF Secure, OldIsIssued, OnlyEnds
<1>8. ExchangedIsLeaving(t)'
  BY <1>1, <1>2, <1>3 DEF Secure, ExchangedIsLeaving, OnlyEnds
<1> QED
  BY <1>4, <1>5, <1>6, <1>7, <1>8 DEF Secure

\* A call that receives a new token.
LEMMA NewTokenSecure ==
    ASSUME ClientAssumption, Wellformed, NEW t \in Tabs, Secure(t), NEW f \in Functions,
           NEW c \in CallRecords, NEW n \in Tokens, NewToken(t, f, c, n), Formed(c, f),
           calls[t][f] # Idle, calls[t][f].answer = "pending",
           UNCHANGED <<stored, mounted, session>>
    PROVE  Secure(t)'
<1> DEFINE d == calls[t][f]
<1>1. /\ stored \in Tokens \cup {None} /\ None \notin Tokens
      /\ server \in [Tokens -> ServerStates] /\ Formed(d, f)
      /\ \A g \in Functions : /\ calls[t][g].old \in Tokens \cup {None}
                              /\ calls[t][g].new \in Tokens \cup {None}
  BY CallFacts DEF Wellformed, TypeOK, ClientAssumption, ServerStates
<1>2. "hydrate" \in Functions /\ "timer" \in Functions /\ Rotating \subseteq Functions
  BY DEF Functions, Rotating
<1>3. /\ Becomes(t, f, c) /\ c.request = d.request /\ c.old = d.old /\ c.new = n
      /\ c.answer = "ok" /\ server[n] = "unissued"
  BY DEF NewToken
<1>4. t \in mounted
  BY DEF Secure
<1>5. OneRotates(t)'
  BY <1>2, <1>3 DEF Secure, OneRotates, Becomes, Idle
<1>6. \A g \in Functions : calls'[t][g].old = calls[t][g].old
  BY <1>3 DEF Becomes
<1>7. \A g \in Functions \ {f} : calls'[t][g] = calls[t][g]
  BY <1>3 DEF Becomes
<1>8. /\ n # stored
      /\ \A g \in Rotating : n # calls[t][g].old
      /\ \A g \in Functions : n # calls[t][g].new
  BY <1>1, <1>2, <1>3 DEF Secure, OldIsIssued, NewIsPrivate
<1>9. CASE c.request = "login"
  <2>1. /\ server' = [server EXCEPT ![n] = "live"] /\ f = "login" /\ f \notin Rotating
        /\ ~Exchanged(c)
    BY <1>3, <1>9, IdleFormed DEF NewToken, Formed, Purposes, Functions, Rotating, Exchanged
  <2>2. server'[n] = "live" /\ \A k \in Tokens \ {n} : server'[k] = server[k]
    BY <1>1, <2>1
  <2>3. NewIsPrivate(t)'
    BY <1>1, <1>2, <1>3, <1>6, <1>7, <1>8, <2>2 DEF Secure, NewIsPrivate, Becomes
  <2>4. OldIsIssued(t)'
    BY <1>1, <1>2, <1>6, <2>2 DEF Secure, OldIsIssued
  <2>5. ExchangedIsLeaving(t)'
    BY <1>1, <1>2, <1>7, <1>8, <2>1, <2>2 DEF Secure, ExchangedIsLeaving
  <2> QED
    BY <1>4, <1>5, <2>3, <2>4, <2>5 DEF Secure
<1>10. CASE c.request # "login"
  <2>1. /\ c.request = "refresh" /\ d.old \in Live /\ d.old \in Tokens
        /\ server' = [server EXCEPT ![d.old] = "rotated", ![n] = "live"]
        /\ server[d.old] = "live" /\ d.old # n
    BY <1>3, <1>10 DEF NewToken, Live
  <2>2. /\ f \in Rotating /\ Exchanged(c) /\ ~Exchanged(d)
    BY <1>3, <2>1, IdleFormed DEF Formed, Purposes, Functions, Rotating, Exchanged
  <2>3. /\ server'[n] = "live" /\ server'[d.old] = "rotated"
        /\ \A k \in Tokens \ {n, d.old} : server'[k] = server[k]
    BY <1>1, <2>1
  <2>4. \A g \in Rotating \ {f} : calls[t][g] = Idle /\ calls'[t][g] = Idle
    BY <1>2, <1>7, <2>2 DEF Secure, OneRotates, Rotating
  <2>5. NewIsPrivate(t)'
    <3>1. \A g \in Functions : calls[t][g].new # d.old \/ calls[t][g].new = None
      BY <2>2 DEF Secure, NewIsPrivate
    <3> QED
      BY <1>1, <1>2, <1>3, <1>6, <1>7, <1>8, <2>3, <3>1 DEF Secure, NewIsPrivate, Becomes
  <2>6. OldIsIssued(t)'
    BY <1>1, <1>2, <1>6, <2>3 DEF Secure, OldIsIssued
  <2>7. ExchangedIsLeaving(t)'
    <3>1. stored # None /\ server'[stored] = "rotated" =>
             \E g \in Rotating : Exchanged(calls'[t][g]) /\ calls'[t][g].old = stored
      <4>1. CASE stored = d.old
        BY <1>3, <2>2, <4>1 DEF Becomes
      <4>2. CASE stored # d.old
        <5> SUFFICES ASSUME stored # None, server'[stored] = "rotated"
                     PROVE  \E g \in Rotating : /\ Exchanged(calls'[t][g])
                                                /\ calls'[t][g].old = stored
          OBVIOUS
        <5>1. server[stored] = "rotated"
          BY <1>1, <1>8, <2>3, <4>2
        <5>2. PICK g \in Rotating : Exchanged(calls[t][g]) /\ calls[t][g].old = stored
          BY <5>1 DEF Secure, ExchangedIsLeaving
        <5>3. g # f
          BY <2>2, <5>2
        <5> QED
          BY <1>2, <1>7, <5>2, <5>3
      <4> QED
        BY <4>1, <4>2
    <3>2. \A g \in Rotating : calls'[t][g].old # None /\ ~Exchanged(calls'[t][g])
                                => server'[calls'[t][g].old] # "rotated"
      BY <1>3, <2>2, <2>4, IdleFormed DEF Becomes
    <3> QED
      BY <3>1, <3>2 DEF ExchangedIsLeaving
  <2> QED
    BY <1>4, <1>5, <2>5, <2>6, <2>7 DEF Secure
<1> QED
  BY <1>9, <1>10

\* A step that changes no row of the API and leaves one call without new token.
LEMMA QuietNewIsPrivate ==
    ASSUME NEW t \in Tabs, NewIsPrivate(t), NEW f \in Functions, NEW c,
           Becomes(t, f, c), c.new = None, server' = server,
           \A g \in Functions \ {f} :
              calls[t][g].new # None => calls[t][g].new # stored',
           \A g \in Functions \ {f} :
              f \in Rotating /\ calls[t][g].new # None => calls[t][g].new # c.old
    PROVE  NewIsPrivate(t)'
<1>1. "hydrate" \in Functions /\ "timer" \in Functions /\ Rotating \subseteq Functions
  BY DEF Functions, Rotating
<1>2. calls'[t][f] = c /\ \A g \in Functions \ {f} : calls'[t][g] = calls[t][g]
  BY DEF Becomes
<1> QED
  BY <1>1, <1>2 DEF NewIsPrivate

LEMMA DiscardSecure ==
    ASSUME ClientAssumption, Wellformed, NEW t \in Tabs, Secure(t), NEW f \in Functions,
           NEW c \in CallRecords, Discards(t, f, c), t \in mounted,
           UNCHANGED <<server, mounted>>
    PROVE  Secure(t)'
<1>1. /\ Becomes(t, f, c) /\ c.new = None /\ stored' = None /\ (f \in Rotating => c = Idle)
  BY DEF Discards, Drop
<1>2. "hydrate" \in Functions /\ "timer" \in Functions /\ Rotating \subseteq Functions
  BY DEF Functions, Rotating
<1>3. Idle.old = None
  BY IdleFormed, <1>2
<1>4. /\ calls'[t][f] = c /\ \A g \in Functions \ {f} : calls'[t][g] = calls[t][g]
  BY <1>1 DEF Becomes
<1>5. OneRotates(t)'
  BY <1>1, <1>2, <1>4 DEF Secure, OneRotates, Rotating
<1>6. NewIsPrivate(t)'
  BY <1>1, <1>3, QuietNewIsPrivate DEF Secure
<1>7. OldIsIssued(t)'
  BY <1>1, <1>2, <1>3, <1>4 DEF Secure, OldIsIssued
<1>8. ExchangedIsLeaving(t)'
  BY <1>1, <1>2, <1>3, <1>4 DEF Secure, ExchangedIsLeaving
<1> QED
  BY <1>5, <1>6, <1>7, <1>8 DEF Secure

LEMMA AsideSecure ==
    ASSUME ClientAssumption, Wellformed, NEW t \in Tabs, Secure(t), NEW f \in Functions,
           NEW c \in CallRecords, Aside(t, f, c), t \in mounted,
           UNCHANGED <<server, mounted>>
    PROVE  Secure(t)'
<1>1. /\ Becomes(t, f, c) /\ c.new = None /\ stored' = stored /\ f \notin Rotating
  BY DEF Aside
<1>2. "hydrate" \in Functions /\ "timer" \in Functions /\ Rotating \subseteq Functions
  BY DEF Functions, Rotating
<1>4. \A g \in Rotating : calls'[t][g] = calls[t][g]
  BY <1>1, <1>2 DEF Becomes
<1>5. OneRotates(t)'
  BY <1>4 DEF Secure, OneRotates, Rotating
<1>6. NewIsPrivate(t)'
  BY <1>1, QuietNewIsPrivate DEF Secure, NewIsPrivate
<1>7. OldIsIssued(t)'
  BY <1>1, <1>4 DEF Secure, OldIsIssued
<1>8. ExchangedIsLeaving(t)'
  BY <1>1, <1>4 DEF Secure, ExchangedIsLeaving
<1> QED
  BY <1>5, <1>6, <1>7, <1>8 DEF Secure

LEMMA AdoptSecure ==
    ASSUME ClientAssumption, Wellformed, NEW t \in Tabs, Secure(t), NEW f \in Functions,
           NEW c \in CallRecords, Adopts(t, f, c), t \in mounted,
           UNCHANGED <<server, mounted>>
    PROVE  Secure(t)'
<1>1. Becomes(t, f, c) /\ c = Idle
  BY DEF Adopts
<1>2. PICK k \in Tokens :
         /\ stored' = k
         /\ \/ k = calls[t][f].new
            \/ f = "hydrate" /\ k = calls[t][f].old /\ ~Exchanged(calls[t][f])
  BY DEF Adopts, Keep
<1>3. "hydrate" \in Functions /\ "timer" \in Functions /\ Rotating \subseteq Functions
  BY DEF Functions, Rotating
<1>4. Idle.old = None /\ Idle.new = None /\ None \notin Tokens
  BY IdleFormed, <1>3 DEF ClientAssumption
<1>5. /\ calls'[t][f] = Idle /\ \A g \in Functions \ {f} : calls'[t][g] = calls[t][g]
  BY <1>1 DEF Becomes
<1>6. \A g \in Functions \ {f} : calls[t][g].new # None => calls[t][g].new # k
  BY <1>2, <1>3, <1>4 DEF Secure, NewIsPrivate, Rotating
<1>7. server[k] # "rotated" /\ server[k] # "unissued"
  <2>1. CASE k = calls[t][f].new
    BY <1>2, <1>4, <2>1 DEF Secure, NewIsPrivate
  <2>2. CASE f = "hydrate" /\ k = calls[t][f].old /\ ~Exchanged(calls[t][f])
    BY <1>2, <1>4, <2>2 DEF Secure, ExchangedIsLeaving, OldIsIssued, Rotating
  <2> QED
    BY <1>2, <2>1, <2>2
<1>8. OneRotates(t)'
  BY <1>3, <1>5 DEF Secure, OneRotates
<1>9. NewIsPrivate(t)'
  BY <1>1, <1>2, <1>4, <1>6, QuietNewIsPrivate DEF Secure
<1>10. OldIsIssued(t)'
  BY <1>2, <1>3, <1>4, <1>5, <1>7 DEF Secure, OldIsIssued
<1>11. ExchangedIsLeaving(t)'
  BY <1>2, <1>3, <1>4, <1>5, <1>7 DEF Secure, ExchangedIsLeaving
<1> QED
  BY <1>8, <1>9, <1>10, <1>11 DEF Secure

\* A step of the browser, and of its user.
LEMMA BrowserStepSecure ==
    ASSUME ClientAssumption, Wellformed, NEW t \in Tabs, Secure(t), NEW f \in Functions,
           NEW c \in CallRecords, BrowserStep(t, f, c), t \in mounted,
           calls[t][f].request # "none" \/ UserStep(t, f, c),
           UNCHANGED <<server, mounted>>
    PROVE  Secure(t)'
<1>1. CASE Forwards(t, f, c) /\ calls[t][f].request # "none"
  <2>1. calls[t][f] # Idle
    BY <1>1, IdleFormed
  <2>2. OnlyEnds
    BY DEF OnlyEnds
  <2> QED
    BY <1>1, <2>1, <2>2, SameTokensSecure DEF Forwards
<1>2. CASE Discards(t, f, c)
  BY <1>2, DiscardSecure
<1>3. CASE Aside(t, f, c)
  BY <1>3, AsideSecure
<1>4. CASE Adopts(t, f, c)
  BY <1>4, AdoptSecure
<1> QED
  BY <1>1, <1>2, <1>3, <1>4 DEF BrowserStep, UserStep

\* A rotation starts, with the stored token, while no other is under way.
LEMMA StartSecure ==
    ASSUME ClientAssumption, Wellformed, NEW t \in Tabs, Secure(t), NEW f \in Rotating,
           NEW c \in CallRecords, Becomes(t, f, c), c.new = None, ~Exchanged(c),
           c = Idle \/ c.old = stored,
           \A g \in Rotating : calls[t][g] = Idle,
           t \in mounted', UNCHANGED <<server, stored>>
    PROVE  Secure(t)'
<1>1. "hydrate" \in Functions /\ "timer" \in Functions /\ Rotating \subseteq Functions
  BY DEF Functions, Rotating
<1>2. Idle.old = None /\ Idle.new = None /\ ~Exchanged(Idle)
  BY IdleFormed, <1>1
<1>3. calls'[t][f] = c /\ \A g \in Functions \ {f} : calls'[t][g] = calls[t][g]
  BY DEF Becomes
<1>4. stored = None \/ server[stored] # "rotated"
  BY <1>2 DEF Secure, ExchangedIsLeaving
<1>5. OneRotates(t)'
  BY <1>1, <1>3 DEF OneRotates, Rotating
<1>6. NewIsPrivate(t)'
  BY <1>1, <1>2, QuietNewIsPrivate DEF Secure, NewIsPrivate
<1>7. OldIsIssued(t)'
  BY <1>1, <1>2, <1>3 DEF Secure, OldIsIssued
<1>8. ExchangedIsLeaving(t)'
  BY <1>1, <1>2, <1>3, <1>4 DEF ExchangedIsLeaving
<1> QED
  BY <1>5, <1>6, <1>7, <1>8 DEF Secure

-----------------------------------------------------------------------------
(* The invariant is inductive.                                               *)

\* In the only tab a call is awaited only while the tab is open.
LEMMA AwaitedInMounted ==
    ASSUME NEW t \in Tabs, Secure(t), NEW f \in Functions, calls[t][f].request # "none"
    PROVE  t \in mounted
BY IdleFormed DEF Secure

\* No step returns to the time before the first page was left.
LEMMA ReloadsGrow ==
    ASSUME ClientAssumption, Orderly, reloads' = reloads, Undisturbed',
           NEW t \in Tabs
    PROVE  Undisturbed /\ ~replayed /\ Secure(t) /\ Tabs = {t} /\ Prompt
           /\ (t \in mounted => session[t] = stored)
BY OnlyTab DEF Undisturbed, Orderly, NothingReplayed, Matching, ShowsStored

\* It is enough to look at the tab that takes the step.
LEMMA OnlyTabSecure ==
    ASSUME ClientAssumption, NEW t \in Tabs,
           Undisturbed' => ~replayed' /\ Secure(t)'
    PROVE  NothingReplayed'
<1> SUFFICES ASSUME Undisturbed' PROVE ~replayed' /\ \A u \in Tabs : Secure(u)'
  BY DEF NothingReplayed, Secure, OneRotates, NewIsPrivate, OldIsIssued, ExchangedIsLeaving
<1>1. Tabs = {t}
  BY OnlyTab DEF Undisturbed
<1> QED
  BY <1>1

LEMMA InitOrderly == ASSUME ClientAssumption, Init PROVE Orderly
<1>1. \A f \in Functions : /\ Idle \in CallRecords /\ Formed(Idle, f) /\ ~Exchanged(Idle)
                           /\ Idle.old = None /\ Idle.new = None
  BY IdleFormed
<1>2. calls \in [Tabs -> [Functions -> CallRecords]]
  BY <1>1 DEF Init
<1>3. /\ server \in [Tokens -> ServerStates] /\ MaxReloads \in Nat
      /\ \A k \in Tokens : server[k] \in {"live", "unissued"}
      /\ stored # None => server[stored] = "live"
  BY DEF Init, ServerStates, ClientAssumption
<1>4. TypeOK
  <2>1. aged \subseteq {k \in Tokens : server[k] # "unissued"}
    BY <1>3 DEF Init
  <2>2. reloads \in 0 .. MaxReloads
    BY <1>3 DEF Init
  <2> QED
    BY <1>2, <1>3, <2>1, <2>2 DEF Init, TypeOK, CallRecords, ServerStates
<1>5. \A t \in Tabs, f \in Functions : calls[t][f] = Idle
  BY DEF Init
<1>6. AllFormed
  BY <1>1, <1>5 DEF AllFormed
<1>7. "hydrate" \in Functions /\ "timer" \in Functions /\ Rotating \subseteq Functions
  BY DEF Functions, Rotating
<1>8. ASSUME NEW t \in Tabs PROVE Secure(t)
  <2>1. session[t] = None
    BY DEF Init
  <2> QED
    BY <1>1, <1>3, <1>5, <1>7, <2>1
       DEF Secure, OneRotates, NewIsPrivate, OldIsIssued, ExchangedIsLeaving
<1>9. ShowsStored
  BY DEF Init, ShowsStored
<1> QED
  BY <1>4, <1>6, <1>8, <1>9 DEF Orderly, Matching, Wellformed, NothingReplayed, Init

LEMMA ServeOrderly ==
    ASSUME ClientAssumption, Orderly, NEW t \in Tabs, NEW f \in Functions, Serve(t, f)
    PROVE  Orderly'
<1>1. Wellformed
  BY DEF Orderly, Matching
<1> DEFINE d == calls[t][f]
<1>2. d.request # "none" /\ UNCHANGED <<aged, client, reloads>>
  BY <1>1, ServeEffect
<1>3. PICK c \in CallRecords :
         /\ Formed(c, f)
         /\ \/ PlainAnswer(t, f, c) /\ replayed' = replayed
            \/ /\ PlainAnswer(t, f, c)
               /\ d.request = "refresh" /\ d.answer = "pending"
               /\ replayed' = (replayed \/ server[d.old] = "rotated")
            \/ \E n \in Tokens : NewToken(t, f, c, n)
  BY <1>1, ServeEffect
<1>4. d.answer = "pending" /\ d # Idle
  BY <1>2, IdleFormed DEF Serve
<1>5. /\ Becomes(t, f, c) /\ server' \in [Tokens -> ServerStates]
      /\ \A k \in Tokens : server[k] # "unissued" => server'[k] # "unissued"
  <2>1. server \in [Tokens -> ServerStates]
    BY <1>1 DEF Wellformed, TypeOK, ServerStates
  <2> QED
    BY <1>3, <2>1 DEF PlainAnswer, NewToken, OnlyEnds, ServerStates
<1>6. replayed' \in BOOLEAN
  BY <1>1, <1>3 DEF Wellformed, TypeOK, NewToken
<1>7. Wellformed'
  BY <1>1, <1>2, <1>3, <1>5, <1>6, ServedWellformed
<1>8. Matching'
  BY <1>2, <1>7, MatchingStep DEF Orderly, client
<1>9. ASSUME Undisturbed' PROVE ~replayed' /\ Secure(t)'
  <2>1. ~replayed /\ Secure(t) /\ Tabs = {t}
    BY <1>2, <1>9, ReloadsGrow
  <2>2. UNCHANGED <<stored, mounted, session>>
    BY <1>2 DEF client
  <2>3. CASE PlainAnswer(t, f, c)
    <3>1. Secure(t)'
      BY <1>1, <1>4, <2>1, <2>2, <2>3, SameTokensSecure DEF PlainAnswer
    <3>2. CASE d.request = "refresh" /\ d.answer = "pending"
                 /\ replayed' = (replayed \/ server[d.old] = "rotated")
      <4>1. f \in Rotating /\ d.old \in Tokens /\ None \notin Tokens /\ ~Exchanged(d)
        BY <1>1, <1>4, <3>2, CallFacts
           DEF Formed, Purposes, Functions, Rotating, Exchanged, ClientAssumption
      <4>2. server[d.old] # "rotated"
        BY <2>1, <4>1 DEF Secure, ExchangedIsLeaving
      <4> QED
        BY <2>1, <3>1, <3>2, <4>2
    <3>3. CASE replayed' = replayed
      BY <2>1, <3>1, <3>3
    <3> QED
      BY <1>3, <3>2, <3>3 DEF NewToken
  <2>4. CASE \E n \in Tokens : NewToken(t, f, c, n)
    <3>1. PICK n \in Tokens : NewToken(t, f, c, n)
      BY <2>4
    <3>2. Secure(t)'
      BY <1>1, <1>3, <1>4, <2>1, <2>2, <3>1, NewTokenSecure
    <3> QED
      BY <2>1, <3>1, <3>2 DEF NewToken
  <2> QED
    BY <1>3, <2>3, <2>4
<1>10. NothingReplayed'
  BY <1>9, OnlyTabSecure
<1> QED
  BY <1>8, <1>10 DEF Orderly

\* A step of the page: a continuation, or the user's.
LEMMA PageOrderly ==
    ASSUME ClientAssumption, Orderly, NEW t \in Tabs, NEW f \in Functions,
           NEW c \in CallRecords, Formed(c, f), BrowserStep(t, f, c),
           \/ calls[t][f].request # "none"
           \/ t \in mounted /\ UserStep(t, f, c),
           UNCHANGED <<server, aged, mounted, reloads, replayed>>
    PROVE  Orderly'
<1>1. Wellformed
  BY DEF Orderly, Matching
<1>2. Wellformed'
  BY <1>1, BrowserStepWellformed
<1>3. \/ UNCHANGED <<stored, session, mounted>>
      \/ \E k \in Tokens : Keep(t, k)
      \/ Drop(t)
  BY DEF BrowserStep, Forwards, Discards, Aside, Adopts
<1>4. Matching'
  BY <1>2, <1>3, MatchingStep DEF Orderly
<1>5. ASSUME Undisturbed' PROVE ~replayed' /\ Secure(t)'
  <2>1. ~replayed /\ Secure(t)
    BY <1>5, ReloadsGrow
  <2>2. t \in mounted
    BY <2>1, AwaitedInMounted
  <2> QED
    BY <1>1, <2>1, <2>2, BrowserStepSecure
<1>6. NothingReplayed'
  BY <1>5, OnlyTabSecure
<1> QED
  BY <1>4, <1>6 DEF Orderly

LEMMA MountOrderly ==
    ASSUME ClientAssumption, Orderly, NEW t \in Tabs, Mount(t)
    PROVE  Orderly'
<1>1. Wellformed /\ t \notin mounted /\ t \in mounted' /\ mounted' = mounted \cup {t}
  BY DEF Orderly, Matching, Mount
<1>2. UNCHANGED <<server, stored, reloads, replayed>>
  BY DEF Mount
<1>3. PICK c \in CallRecords :
         /\ Becomes(t, "hydrate", c) /\ c.new = None /\ ~Exchanged(c)
         /\ c = Idle \/ c.old = stored
  BY <1>1, MountEffect
<1>4. Wellformed'
  BY <1>1, MountEffect
<1>5. Matching'
  BY <1>1, <1>4, MatchingStep DEF Orderly
<1>6. ASSUME Undisturbed' PROVE ~replayed' /\ Secure(t)'
  <2>1. ~replayed /\ Secure(t)
    BY <1>2, <1>6, ReloadsGrow
  <2>2. \A g \in Rotating : calls[t][g] = Idle
    BY <1>1, <2>1 DEF Secure, Rotating, Functions
  <2> QED
    BY <1>1, <1>2, <1>3, <2>1, <2>2, StartSecure DEF Rotating
<1>7. NothingReplayed'
  BY <1>6, OnlyTabSecure
<1> QED
  BY <1>5, <1>7 DEF Orderly

\* The timer rotates the stored token, as no check of it is awaited any more.
LEMMA FireOrderly ==
    ASSUME ClientAssumption, Orderly, NEW t \in Tabs, Fire(t)
    PROVE  Orderly'
<1>1. Wellformed
  BY DEF Orderly, Matching
<1>2. UNCHANGED <<server, stored, mounted, session, reloads, replayed>>
  BY DEF Fire
<1>3. session[t] # None /\ Wellformed'
  BY <1>1, FireEffect
<1>4. PICK c \in CallRecords :
         /\ Becomes(t, "timer", c) /\ c.new = None /\ ~Exchanged(c)
         /\ c.old = session[t]
  BY <1>1, FireEffect
<1>5. Matching'
  BY <1>2, <1>3, MatchingStep DEF Orderly
<1>6. ASSUME Undisturbed' PROVE ~replayed' /\ Secure(t)'
  <2>1. /\ ~replayed /\ Secure(t) /\ Prompt
        /\ t \in mounted => session[t] = stored
    BY <1>2, <1>6, ReloadsGrow
  <2>2. t \in mounted /\ c.old = stored
    BY <1>3, <1>4, <2>1 DEF Secure
  <2>3. \A g \in Rotating : calls[t][g] = Idle
    BY <2>1 DEF Fire, Rotating
  <2> QED
    BY <1>1, <1>2, <1>4, <2>1, <2>2, <2>3, StartSecure DEF Rotating
<1>7. NothingReplayed'
  BY <1>6, OnlyTabSecure
<1> QED
  BY <1>5, <1>7 DEF Orderly

LEMMA LeaveOrderly ==
    ASSUME ClientAssumption, Orderly, NEW t \in Tabs, Leave(t)
    PROVE  Orderly'
<1>1. Wellformed' /\ reloads' # 0
  BY LeaveWellformed DEF Orderly, Matching
<1>2. mounted' \subseteq mounted \cup {t}
  BY DEF Leave
<1>3. Matching'
  BY <1>1, <1>2, MatchingStep DEF Orderly
<1>4. NothingReplayed'
  BY <1>1 DEF NothingReplayed, Undisturbed
<1> QED
  BY <1>3, <1>4 DEF Orderly

LEMMA ElsewhereOrderly ==
    ASSUME ClientAssumption, Orderly, EndElsewhere \/ \E k \in Tokens : GrowOld(k)
    PROVE  Orderly'
<1>1. /\ Wellformed /\ Wellformed' /\ OnlyEnds
      /\ UNCHANGED <<stored, mounted, session, calls, reloads, replayed>>
  BY ElsewhereEffect DEF Orderly, Matching, client
<1>2. Matching'
  BY <1>1 DEF Orderly, Matching, ShowsStored
<1>3. ASSUME NEW t \in Tabs, Secure(t) PROVE Secure(t)'
  <2>1. /\ stored \in Tokens \cup {None}
        /\ \A f \in Functions : /\ calls[t][f].old \in Tokens \cup {None}
                                /\ calls[t][f].new \in Tokens \cup {None}
    BY <1>1, CallFacts DEF Wellformed, TypeOK
  <2>2. Rotating \subseteq Functions
    BY DEF Functions, Rotating
  <2>3. OneRotates(t)'
    BY <1>1, <1>3 DEF Secure, OneRotates, Idle
  <2>4. NewIsPrivate(t)'
    BY <1>1, <1>3, <2>1 DEF Secure, NewIsPrivate, OnlyEnds
  <2>5. OldIsIssued(t)'
    BY <1>1, <1>3, <2>1, <2>2 DEF Secure, OldIsIssued, OnlyEnds
  <2>6. ExchangedIsLeaving(t)'
    BY <1>1, <1>3, <2>1, <2>2 DEF Secure, ExchangedIsLeaving, OnlyEnds, Exchanged
  <2> QED
    BY <1>1, <1>3, <2>3, <2>4, <2>5, <2>6 DEF Secure, Idle
<1>4. NothingReplayed'
  <2>1. Undisturbed' => Undisturbed
    BY <1>1 DEF Undisturbed
  <2>2. Undisturbed' => ~replayed' /\ \A t \in Tabs : Secure(t)'
    BY <1>1, <1>3, <2>1 DEF Orderly, NothingReplayed
  <2> QED
    BY <2>2 DEF NothingReplayed, Secure, OneRotates, NewIsPrivate, OldIsIssued,
                ExchangedIsLeaving
<1> QED
  BY <1>2, <1>4 DEF Orderly

\* The provider's and the user's steps.
LEMMA TabOrderly ==
    ASSUME ClientAssumption, Orderly, NEW t \in Tabs,
           \/ Login(t) \/ Load(t)
           \/ \E request \in {"logout", "logoutAll"} : Logout(t, request)
           \/ \E f \in Functions, status \in {"ok", "401", "failed"} :
                 Continue(t, f, status)
    PROVE  Orderly'
<1>1. Wellformed
  BY DEF Orderly, Matching
<1>2. CASE \/ Login(t) \/ Load(t)
           \/ \E request \in {"logout", "logoutAll"} : Logout(t, request)
  <2>1. /\ t \in mounted /\ UNCHANGED <<server, aged, mounted, reloads, replayed>>
        /\ \E f \in Functions, c \in CallRecords : Formed(c, f) /\ UserStep(t, f, c)
    BY <1>1, <1>2, UserEffect
  <2> QED
    BY <2>1, PageOrderly DEF UserStep, BrowserStep
<1>3. ASSUME NEW f \in Functions, NEW status \in {"ok", "401", "failed"},
             Continue(t, f, status)
      PROVE  Orderly'
  <2>1. /\ calls[t][f].request # "none"
        /\ UNCHANGED <<server, aged, mounted, reloads, replayed>>
        /\ \E c \in CallRecords : Formed(c, f) /\ BrowserStep(t, f, c)
    BY <1>1, <1>3, ContinueEffect
  <2> QED
    BY <2>1, PageOrderly
<1> QED
  BY <1>2, <1>3

LEMMA NextOrderly ==
    ASSUME ClientAssumption, Orderly, [Next]_vars
    PROVE  Orderly'
<1>1. CASE Next
  <2>1. CASE EndElsewhere \/ \E k \in Tokens : GrowOld(k)
    BY <2>1, ElsewhereOrderly
  <2>2. ASSUME NEW t \in Tabs, Mount(t) \/ Leave(t) \/ Fire(t) PROVE Orderly'
    BY <2>2, MountOrderly, LeaveOrderly, FireOrderly
  <2>3. ASSUME NEW t \in Tabs, NEW f \in Functions, Serve(t, f) PROVE Orderly'
    BY <2>3, ServeOrderly
  <2>4. ASSUME NEW t \in Tabs,
               \/ Login(t) \/ Load(t)
               \/ \E request \in {"logout", "logoutAll"} : Logout(t, request)
               \/ \E f \in Functions, status \in {"ok", "401", "failed"} :
                     Continue(t, f, status)
        PROVE  Orderly'
    BY <2>4, TabOrderly
  <2> QED
    BY <1>1, <2>1, <2>2, <2>3, <2>4 DEF Next
<1>2. CASE UNCHANGED vars
  BY <1>2 DEF vars, client, Orderly, Matching, Wellformed, TypeOK, AllFormed, Formed, Idle,
              ShowsStored, NothingReplayed, Undisturbed, Secure, OneRotates,
              NewIsPrivate, OldIsIssued, ExchangedIsLeaving, Exchanged
<1> QED
  BY <1>1, <1>2

-----------------------------------------------------------------------------
(* Theorems.                                                                 *)

LEMMA OrderlyImplies ==
    ASSUME Orderly
    PROVE  TypeOK /\ NeverReplays
BY DEF Orderly, Matching, Wellformed, NothingReplayed, Undisturbed, NeverReplays

\* Every reachable state is well typed, and a timer that is set has a session
\* to rotate.
THEOREM SessionsTyped == ASSUME ClientAssumption PROVE Spec => []TypeOK
<1>1. Init => Orderly
  BY InitOrderly
<1>2. Orderly /\ [Next]_vars => Orderly'
  BY NextOrderly
<1>3. Orderly => TypeOK
  BY OrderlyImplies
<1> QED
  BY <1>1, <1>2, <1>3, PTL DEF Spec

\* A single tab that nobody reloads and that is answered before its next timer
\* is due never sends a token again after the API rotated it.
THEOREM NothingIsReplayed == ASSUME ClientAssumption PROVE Spec => []NeverReplays
<1>1. Init => Orderly
  BY InitOrderly
<1>2. Orderly /\ [Next]_vars => Orderly'
  BY NextOrderly
<1>3. Orderly => NeverReplays
  BY OrderlyImplies
<1> QED
  BY <1>1, <1>2, <1>3, PTL DEF Spec

-----------------------------------------------------------------------------
(* Customers and checkouts.                                                  *)

Clean == created \ excused

\* What a request in flight knows: ids that Stripe gave out, and columns that
\* were set when it loaded them and have stayed set.
Known(r) ==
    /\ r.user \in created \cup {None} /\ r.sub.customer \in created \cup {None}
    /\ r.user # None => user # None
    /\ r.sub.there => sub.there
    /\ r.sub.customer # None => sub.customer # None
    /\ r.pc \in {"save", "ready", "hook", "sync", "mirror"} => r.customer \in created
    /\ r.pc \in {"ready", "hook", "sync", "mirror"} => user # None /\ sub.customer # None
    /\ r.pc = "link" => r.sub.there
    /\ r.pc = "mirror" => r.sub.customer # None
Traced ==
    /\ user \in created \cup {None} /\ sub.customer \in created \cup {None}
    /\ ~sub.there => sub.customer = None
    /\ sessions \subseteq created
    /\ sessions # {} => user # None /\ sub.customer # None
    /\ \A w \in Workers : req[w].pc # "idle" => Known(req[w])

\* A request that nothing overlapped is the only one, and nothing but itself
\* has written the user's row since it loaded it.
Alone ==
    \A w \in Workers : req[w].pc # "idle" /\ req[w].alone =>
       /\ \A v \in Workers \ {w} : req[v].pc = "idle"
       /\ req[w].pc \in {"find", "insert", "link", "save"} => req[w].user = user

\* A customer that nothing excuses is in the user's row, the only one that can
\* be paid, and all that any request has loaded or is about to write; or the
\* one request there is has just got it from Stripe.
Holds(r, c) ==
    /\ r.pc # "save"
    /\ r.pc \in {"find", "insert", "link", "hook", "sync", "mirror"} => r.user = c
    /\ r.pc \in {"link", "sync", "mirror"} => r.sub = CP!Row(c)
    /\ r.pc \in {"link", "ready", "hook", "sync", "mirror"} => sub = CP!Row(c)
    /\ r.pc \in {"ready", "hook", "sync", "mirror"} => r.customer = c
Settled(c) ==
    /\ user = c
    /\ sub = CP!NoRow \/ sub = CP!Row(c)
    /\ sessions \subseteq {c}
    /\ c \in sessions => sub = CP!Row(c)
    /\ \A w \in Workers : req[w].pc # "idle" => Holds(req[w], c)
Making(c) ==
    /\ user = None /\ sessions = {}
    /\ \E w \in Workers :
          /\ req[w].pc = "save" /\ req[w].alone /\ req[w].customer = c
          /\ \A v \in Workers \ {w} : req[v].pc = "idle"
Linked == \A c \in Clean : Settled(c) \/ Making(c)

\* The inductive invariant.
Provisioned == CP!TypeOK /\ Traced /\ Alone /\ Linked

-----------------------------------------------------------------------------

LEMMA Constants ==
    ASSUME CP!CustomerAssumption
    PROVE  /\ None \notin Customers
           /\ CP!Idle \in CP!Locals /\ CP!Idle.pc = "idle"
           /\ CP!NoRow \in CP!SubRows /\ ~CP!NoRow.there /\ CP!NoRow.customer = None
           /\ \A c \in CP!Columns : /\ CP!Row(c) \in CP!SubRows /\ CP!Row(c).there
                                    /\ CP!Row(c).customer = c /\ CP!Row(c) # CP!NoRow
BY DEF CP!CustomerAssumption, CP!Idle, CP!Locals, CP!NoRow, CP!Row, CP!SubRows, CP!Columns

LEMMA InitProvisioned ==
    ASSUME CP!CustomerAssumption
    PROVE  CP!Init => Provisioned
<1> SUFFICES ASSUME CP!Init PROVE Provisioned
  OBVIOUS
<1>1. /\ None \notin Customers
      /\ CP!Idle \in CP!Locals /\ CP!Idle.pc = "idle"
      /\ CP!NoRow \in CP!SubRows /\ ~CP!NoRow.there /\ CP!NoRow.customer = None
      /\ \A c \in CP!Columns : /\ CP!Row(c) \in CP!SubRows /\ CP!Row(c).there
                               /\ CP!Row(c).customer = c /\ CP!Row(c) # CP!NoRow
  BY Constants
<1>2. user \in CP!Columns /\ \A w \in Workers : req[w] = CP!Idle
  BY DEF CP!Init, CP!Columns
<1>3. CP!TypeOK
  BY <1>1, <1>2 DEF CP!Init, CP!TypeOK, CP!Columns
<1>4. Traced
  BY <1>1, <1>2 DEF CP!Init, Traced
<1>5. Alone
  BY <1>1, <1>2 DEF Alone
<1>6. Linked
  BY <1>1, <1>2 DEF CP!Init, Linked, Clean, Settled
<1> QED
  BY <1>3, <1>4, <1>5, <1>6 DEF Provisioned

\* What a step leaves of the requests it does not concern.
Same(a, b) ==
    /\ a.pc = b.pc /\ a.user = b.user /\ a.sub = b.sub /\ a.customer = b.customer
    /\ a.alone => b.alone

\* A step of w that leaves l: what it must establish for each part of the
\* invariant.
LEMMA TracedStep ==
    ASSUME Traced, NEW w \in Workers, NEW l, req'[w] = l,
           \A v \in Workers \ {w} : Same(req'[v], req[v]),
           created \subseteq created',
           user # None => user' # None, user' \in created' \cup {None},
           sub.there => sub'.there, sub.customer # None => sub'.customer # None,
           sub'.customer \in created' \cup {None}, ~sub'.there => sub'.customer = None,
           sessions' \subseteq created',
           sessions' # {} => user' # None /\ sub'.customer # None,
           l.pc # "idle" => Known(l)'
    PROVE  Traced'
<1> SUFFICES ASSUME NEW v \in Workers, req'[v].pc # "idle" PROVE Known(req[v])'
  BY DEF Traced
<1>1. CASE v = w
  BY <1>1 DEF Known
<1>2. CASE v # w
  <2>1. Same(req'[v], req[v]) /\ Known(req[v])
    BY <1>2 DEF Same, Traced
  <2> QED
    BY <2>1 DEF Same, Known
<1> QED
  BY <1>1, <1>2

LEMMA AloneStep ==
    ASSUME Alone, NEW w \in Workers, NEW l, req'[w] = l, req[w].pc # "idle",
           \A v \in Workers \ {w} : Same(req'[v], req[v]),
           l.pc # "idle" /\ l.alone =>
              /\ req[w].alone
              /\ l.pc \in {"find", "insert", "link", "save"} => l.user = user'
    PROVE  Alone'
<1> SUFFICES ASSUME NEW v \in Workers, req'[v].pc # "idle", req'[v].alone
             PROVE  /\ \A u \in Workers \ {v} : req'[u].pc = "idle"
                    /\ req'[v].pc \in {"find", "insert", "link", "save"}
                         => req'[v].user = user'
  BY DEF Alone
<1>1. CASE v = w
  BY <1>1 DEF Alone, Same
<1>2. CASE v # w
  <2>1. req[v].pc # "idle" /\ req[v].alone
    BY <1>2 DEF Same
  <2>2. req[w].pc = "idle"
    BY <1>2, <2>1 DEF Alone
  <2> QED
    BY <2>2
<1> QED
  BY <1>1, <1>2

LEMMA SettledStep ==
    ASSUME NEW c, Settled(c), NEW w \in Workers, NEW l, req'[w] = l,
           \A v \in Workers \ {w} : Same(req'[v], req[v]),
           user' = c, sub' = sub \/ sub' = CP!Row(c),
           sessions' \subseteq {c}, c \in sessions' => sub' = CP!Row(c),
           l.pc # "idle" => Holds(l, c)'
    PROVE  Settled(c)'
<1>1. sub' = CP!NoRow \/ sub' = CP!Row(c)
  BY DEF Settled
<1>2. sub = CP!Row(c) => sub' = CP!Row(c)
  OBVIOUS
<1>3. ASSUME NEW v \in Workers, req'[v].pc # "idle" PROVE Holds(req[v], c)'
  <2>1. CASE v = w
    BY <1>3, <2>1 DEF Holds, CP!Row
  <2>2. CASE v # w
    <3>1. Same(req'[v], req[v]) /\ Holds(req[v], c)
      BY <1>3, <2>2 DEF Same, Settled
    <3> QED
      BY <1>2, <3>1 DEF Same, Holds, CP!Row
  <2> QED
    BY <2>1, <2>2
<1> QED
  BY <1>1, <1>3 DEF Settled, CP!Row, CP!NoRow

\* While a customer is in the making, nothing but its request moves.
LEMMA MakerMoves ==
    ASSUME NEW c, Making(c), NEW w \in Workers, req[w].pc # "idle"
    PROVE  /\ req[w].pc = "save" /\ req[w].customer = c
           /\ \A v \in Workers \ {w} : req[v].pc = "idle"
BY DEF Making

\* A request's fields.
LEMMA Fields ==
    ASSUME CP!TypeOK, NEW w \in Workers
    PROVE  /\ req[w] \in CP!Locals
           /\ req[w].user \in CP!Columns /\ req[w].sub \in CP!SubRows
           /\ req[w].customer \in CP!Columns /\ req[w].alone \in BOOLEAN
           /\ req[w].sub.there \in BOOLEAN /\ req[w].sub.customer \in CP!Columns
BY DEF CP!TypeOK, CP!Locals, CP!SubRows

\* A step of a request in flight replaces its own record only.
LEMMA OwnStep ==
    ASSUME CP!TypeOK, NEW w \in Workers, NEW l \in CP!Locals, CP!Goes(w, l)
    PROVE  /\ req'[w] = l /\ req' \in [Workers -> CP!Locals]
           /\ \A v \in Workers \ {w} : Same(req'[v], req[v])
BY DEF CP!TypeOK, CP!Goes, Same

\* A step of a request under way, in which no customer is made, and that ends
\* in l.
LEMMA WriteStep ==
    ASSUME Provisioned, NEW w \in Workers, NEW l \in CP!Locals,
           CP!Goes(w, l), req[w].pc \notin {"idle", "save"},
           created' = created, excused \subseteq excused', excused' \subseteq CP!Columns,
           user' \in created \cup {None}, user # None => user' # None,
           sub' \in CP!SubRows, sub'.customer \in created \cup {None},
           sub.there => sub'.there, sub.customer # None => sub'.customer # None,
           ~sub'.there => sub'.customer = None,
           sessions' \subseteq created,
           sessions' # {} => user' # None /\ sub'.customer # None,
           l.pc # "idle" => Known(l)',
           l.pc # "idle" /\ l.alone =>
              /\ req[w].alone
              /\ l.pc \in {"find", "insert", "link", "save"} => l.user = user',
           \A c \in Customers : Settled(c) =>
              /\ user' = c
              /\ sub' = sub \/ sub' = CP!Row(c)
              /\ sessions' \subseteq {c}
              /\ c \in sessions' => sub' = CP!Row(c)
              /\ l.pc # "idle" => Holds(l, c)'
    PROVE  Provisioned'
<1>1. /\ req'[w] = l /\ req' \in [Workers -> CP!Locals]
      /\ \A v \in Workers \ {w} : Same(req'[v], req[v])
  BY OwnStep DEF Provisioned
<1>2. CP!TypeOK'
  BY <1>1 DEF Provisioned, CP!TypeOK, CP!Columns
<1>3. Traced'
  BY <1>1, TracedStep DEF Provisioned
<1>4. Alone'
  BY <1>1, AloneStep DEF Provisioned
<1>5. ASSUME NEW c \in Clean' PROVE Settled(c)' \/ Making(c)'
  <2>1. c \in Clean /\ c \in Customers
    BY DEF Clean, Provisioned, CP!TypeOK
  <2>2. Settled(c)
    BY <2>1, MakerMoves DEF Provisioned, Linked
  <2> QED
    BY <1>1, <2>1, <2>2, SettledStep
<1> QED
  BY <1>2, <1>3, <1>4, <1>5 DEF Provisioned, Linked

\* One that writes no column.
LEMMA QuietStep ==
    ASSUME Provisioned, NEW w \in Workers, NEW l \in CP!Locals,
           CP!Goes(w, l), req[w].pc \notin {"idle", "save"},
           UNCHANGED <<user, sub, created, sessions, excused>>,
           l.pc # "idle" => Known(l),
           l.pc # "idle" /\ l.alone =>
              /\ req[w].alone
              /\ l.pc \in {"find", "insert", "link", "save"} => l.user = user,
           \A c \in Customers : Settled(c) /\ l.pc # "idle" => Holds(l, c)
    PROVE  Provisioned'
<1>1. /\ req'[w] = l /\ req' \in [Workers -> CP!Locals]
      /\ \A v \in Workers \ {w} : Same(req'[v], req[v])
  BY OwnStep DEF Provisioned
<1>2. CP!TypeOK'
  BY <1>1 DEF Provisioned, CP!TypeOK
<1>3. l.pc # "idle" => Known(l)'
  BY DEF Known
<1>4. Traced'
  BY <1>1, <1>3, TracedStep DEF Provisioned, Traced
<1>5. Alone'
  BY <1>1, AloneStep DEF Provisioned
<1>6. ASSUME NEW c \in Clean' PROVE Settled(c)'
  <2>1. c \in Clean /\ c \in Customers
    BY DEF Clean, Provisioned, CP!TypeOK
  <2>2. Settled(c)
    BY <2>1, MakerMoves DEF Provisioned, Linked
  <2>3. l.pc # "idle" => Holds(l, c)'
    BY <2>1, <2>2 DEF Holds, CP!Row
  <2> QED
    BY <1>1, <2>2, <2>3, SettledStep DEF Settled
<1> QED
  BY <1>2, <1>4, <1>5, <1>6 DEF Provisioned, Linked

\* A request that starts, w, overlaps all that are under way.
LEMMA StartStep ==
    ASSUME CP!CustomerAssumption, Provisioned, NEW w \in Workers, NEW l \in CP!Locals,
           req[w].pc = "idle", CP!Started(w, l),
           UNCHANGED <<user, sub, created, sessions>>,
           l.pc # "idle", Known(l), l.user = user,
           \A c \in Customers : Settled(c) => Holds(l, c)
    PROVE  Provisioned'
<1>1. PICK m : m = [l EXCEPT !.alone = (CP!Busy = {})]
  OBVIOUS
<1>2. /\ m \in CP!Locals /\ Same(m, [l EXCEPT !.alone = m.alone])
      /\ m.pc = l.pc /\ m.user = l.user /\ m.sub = l.sub /\ m.customer = l.customer
      /\ m.alone <=> CP!Busy = {}
  BY <1>1 DEF CP!Locals, Same
<1>3. req'[w] = m
  BY <1>1 DEF CP!Started
<1>4. ASSUME NEW v \in Workers \ {w}
      PROVE  /\ req'[v] \in CP!Locals /\ Same(req'[v], req[v])
             /\ req'[v].alone => req'[v].pc = "idle"
  <2>1. req[v] \in CP!Locals
    BY DEF Provisioned, CP!TypeOK
  <2>2. PICK b \in BOOLEAN : /\ req'[v] = [req[v] EXCEPT !.alone = b]
                             /\ b <=> req[v].alone /\ req[v].pc = "idle"
    <3>1. req'[v] = [req[v] EXCEPT !.alone = req[v].alone /\ req[v].pc = "idle"]
      BY DEF CP!Started
    <3>2. (req[v].alone /\ req[v].pc = "idle") \in BOOLEAN
      OBVIOUS
    <3> QED
      BY <3>1, <3>2
  <2>3. /\ req'[v] \in CP!Locals /\ req'[v].alone = b
        /\ req'[v].pc = req[v].pc /\ req'[v].user = req[v].user
        /\ req'[v].sub = req[v].sub /\ req'[v].customer = req[v].customer
    BY <2>1, <2>2 DEF CP!Locals
  <2> QED
    BY <2>2, <2>3 DEF Same
<1>5. /\ excused \subseteq excused' /\ excused' \subseteq CP!Columns
      /\ \A v \in Workers : req[v].pc # "idle" => req[v].customer \in excused'
  <2>1. /\ excused \subseteq CP!Columns /\ l.customer \in CP!Columns
        /\ \A v \in Workers : req[v].customer \in CP!Columns
    BY Fields DEF Provisioned, CP!TypeOK, CP!Locals
  <2>2. excused' = excused \/ excused' = excused \cup {req[v].customer : v \in CP!Busy}
                                               \cup {l.customer}
    BY DEF CP!Started
  <2>3. \A v \in Workers : req[v].pc # "idle" => v \in CP!Busy
    BY DEF CP!Busy
  <2>4. CP!Busy # {} => excused' = excused \cup {req[v].customer : v \in CP!Busy}
                                        \cup {l.customer}
    BY DEF CP!Started
  <2>5. CP!Busy \subseteq Workers
    BY DEF CP!Busy
  <2> QED
    BY <2>1, <2>2, <2>3, <2>4, <2>5
<1>6. CP!TypeOK'
  <2>1. req' = [v \in Workers |-> req'[v]]
    BY DEF CP!Started
  <2>2. req' \in [Workers -> CP!Locals]
    BY <1>2, <1>3, <1>4, <2>1
  <2> QED
    BY <1>5, <2>2 DEF Provisioned, CP!TypeOK
<1>7. Traced'
  <2>1. Known(m)'
    BY <1>2 DEF Known
  <2> QED
    BY <1>3, <1>4, <2>1, TracedStep DEF Provisioned, Traced
<1>8. Alone'
  <2>1. m.alone => \A v \in Workers \ {w} : req'[v].pc = "idle"
    BY <1>2, <1>4 DEF CP!Busy, Same
  <2> QED
    BY <1>2, <1>3, <1>4, <2>1 DEF Alone
<1>9. ASSUME NEW c \in Clean' PROVE Settled(c)' \/ Making(c)'
  <2>1. c \in Clean /\ c \in Customers
    BY <1>5 DEF Clean, Provisioned, CP!TypeOK
  <2>2. ~Making(c)
    BY <1>5 DEF Making, Clean
  <2>3. Settled(c)
    BY <2>1, <2>2 DEF Provisioned, Linked
  <2>4. Holds(m, c)'
    BY <1>2, <2>1, <2>3 DEF Holds, CP!Row
  <2> QED
    BY <1>3, <1>4, <2>3, <2>4, SettledStep DEF Settled
<1> QED
  BY <1>6, <1>7, <1>8, <1>9 DEF Provisioned, Linked

LEMMA BeginKeeps ==
    ASSUME CP!CustomerAssumption, Provisioned, NEW w \in Workers, CP!Begin(w)
    PROVE  Provisioned'
<1>1. PICK l : l = [CP!Idle EXCEPT !.pc = "find", !.user = user]
  OBVIOUS
<1>2. /\ l \in CP!Locals /\ l.pc = "find" /\ l.user = user
      /\ ~l.sub.there /\ l.sub.customer = None
  BY <1>1, Constants DEF CP!Idle, CP!Locals, CP!NoRow, Provisioned, CP!TypeOK, CP!Columns
<1>3. Known(l)
  BY <1>2 DEF Known, Provisioned, Traced
<1>4. \A c \in Customers : Settled(c) => Holds(l, c)
  BY <1>2 DEF Settled, Holds
<1> QED
  BY <1>1, <1>2, <1>3, <1>4, StartStep DEF CP!Begin

LEMMA CompletedKeeps ==
    ASSUME CP!CustomerAssumption, Provisioned, NEW w \in Workers, NEW c \in Customers,
           CP!Completed(w, c)
    PROVE  Provisioned'
<1>1. PICK l : l = [CP!Idle EXCEPT !.pc = "hook", !.user = user, !.customer = c]
  OBVIOUS
<1>2. /\ l \in CP!Locals /\ l.pc = "hook" /\ l.user = user /\ l.customer = c
      /\ ~l.sub.there /\ l.sub.customer = None
  BY <1>1, Constants DEF CP!Idle, CP!Locals, CP!NoRow, Provisioned, CP!TypeOK, CP!Columns
<1>3. Known(l)
  BY <1>2 DEF Known, Provisioned, Traced, CP!Completed
<1>4. \A d \in Customers : Settled(d) => Holds(l, d)
  BY <1>2 DEF Settled, Holds, CP!Completed
<1> QED
  BY <1>1, <1>2, <1>3, <1>4, StartStep DEF CP!Completed

\* The requests that read or end.
LEMMA FindKeeps ==
    ASSUME CP!CustomerAssumption, Provisioned, NEW w \in Workers, CP!FindSubscription(w)
    PROVE  Provisioned'
<1>1. req[w] \in CP!Locals /\ req[w].pc = "find" /\ Known(req[w])
  BY Fields DEF CP!FindSubscription, Provisioned, Traced
<1>2. CASE sub.there
  <2>1. PICK l : l = [req[w] EXCEPT !.pc = "link", !.sub = sub]
    OBVIOUS
  <2>2. /\ l \in CP!Locals /\ l.pc = "link" /\ l.user = req[w].user
        /\ l.sub = sub /\ l.alone = req[w].alone /\ CP!Goes(w, l)
    BY <1>1, <1>2, <2>1 DEF CP!Locals, CP!FindSubscription, Provisioned, CP!TypeOK
  <2>3. Known(l)
    BY <1>1, <1>2, <2>2 DEF Known, Provisioned, Traced
  <2>4. l.alone => req[w].alone /\ l.user = user
    BY <1>1, <2>2 DEF Provisioned, Alone
  <2>5. \A c \in Customers : Settled(c) => Holds(l, c)
    BY <1>1, <1>2, <2>2 DEF Settled, Holds, CP!NoRow
  <2> QED
    BY <1>1, <2>2, <2>3, <2>4, <2>5, QuietStep DEF CP!FindSubscription
<1>3. CASE ~sub.there
  <2>1. PICK l : l = [req[w] EXCEPT !.pc = "insert"]
    OBVIOUS
  <2>2. /\ l \in CP!Locals /\ l.pc = "insert" /\ l.user = req[w].user
        /\ l.sub = req[w].sub /\ l.alone = req[w].alone /\ CP!Goes(w, l)
    BY <1>1, <1>3, <2>1 DEF CP!Locals, CP!FindSubscription
  <2>3. Known(l)
    BY <1>1, <1>3, <2>2 DEF Known
  <2>4. l.alone => req[w].alone /\ l.user = user
    BY <1>1, <2>2 DEF Provisioned, Alone
  <2>5. \A c \in Customers : Settled(c) => Holds(l, c)
    BY <1>1, <2>2 DEF Settled, Holds
  <2> QED
    BY <1>1, <2>2, <2>3, <2>4, <2>5, QuietStep DEF CP!FindSubscription
<1> QED
  BY <1>2, <1>3

LEMMA DoneKeeps ==
    ASSUME CP!CustomerAssumption, Provisioned, NEW w \in Workers, CP!Done(w)
    PROVE  Provisioned'
<1>1. CP!Idle \in CP!Locals /\ CP!Idle.pc = "idle"
  BY Constants
<1> QED
  BY <1>1, QuietStep DEF CP!Done

LEMMA FailKeeps ==
    ASSUME CP!CustomerAssumption, Provisioned, NEW w \in Workers, CP!Fail(w)
    PROVE  Provisioned'
<1>1. CP!Idle \in CP!Locals /\ CP!Idle.pc = "idle"
  BY Constants
<1>2. /\ req'[w] = CP!Idle /\ req' \in [Workers -> CP!Locals]
      /\ \A v \in Workers \ {w} : Same(req'[v], req[v])
  BY <1>1, OwnStep DEF CP!Fail, Provisioned
<1>3. /\ req[w].customer \in CP!Columns /\ excused' = excused \cup {req[w].customer}
      /\ UNCHANGED <<user, sub, created, sessions>> /\ req[w].pc # "idle"
  BY Fields DEF CP!Fail, Provisioned
<1>4. CP!TypeOK'
  BY <1>2, <1>3 DEF Provisioned, CP!TypeOK
<1>5. Traced'
  BY <1>1, <1>2, <1>3, TracedStep DEF Provisioned, Traced
<1>6. Alone'
  BY <1>1, <1>2, <1>3, AloneStep DEF Provisioned
<1>7. ASSUME NEW c \in Clean' PROVE Settled(c)' \/ Making(c)'
  <2>1. c \in Clean /\ c \in Customers /\ c # req[w].customer
    BY <1>3 DEF Clean, Provisioned, CP!TypeOK
  <2>2. ~Making(c)
    BY <1>3, <2>1, MakerMoves
  <2>3. Settled(c)
    BY <2>1, <2>2 DEF Provisioned, Linked
  <2> QED
    BY <1>1, <1>2, <1>3, <2>3, SettledStep DEF Settled
<1> QED
  BY <1>4, <1>5, <1>6, <1>7 DEF Provisioned, Linked

\* What a request under way is known to hold.
LEMMA Facts ==
    ASSUME Provisioned, NEW w \in Workers, req[w].pc # "idle"
    PROVE  /\ req[w] \in CP!Locals /\ Known(req[w])
           /\ req[w].user \in CP!Columns /\ req[w].sub \in CP!SubRows
           /\ req[w].customer \in CP!Columns
           /\ user \in created \cup {None} /\ sub.customer \in created \cup {None}
           /\ sub \in CP!SubRows /\ created \subseteq Customers
           /\ excused \subseteq CP!Columns /\ sessions \subseteq created
           /\ ~sub.there => sub.customer = None
           /\ sessions # {} => user # None /\ sub.customer # None
           /\ \A c : Settled(c) => Holds(req[w], c)
BY Fields DEF Provisioned, CP!TypeOK, Traced, Settled

LEMMA InsertKeeps ==
    ASSUME CP!CustomerAssumption, Provisioned, NEW w \in Workers, CP!InsertSubscription(w)
    PROVE  Provisioned'
<1> DEFINE r == req[w]
<1>1. /\ r.pc = "insert" /\ ~sub.there /\ sub' = CP!Row(r.user)
      /\ UNCHANGED <<user, created, sessions, excused>>
  BY DEF CP!InsertSubscription
<1>2. /\ r \in CP!Locals /\ Known(r) /\ r.user \in CP!Columns /\ sub.customer = None
      /\ sessions = {} /\ user \in created \cup {None} /\ excused \subseteq CP!Columns
      /\ r.user \in created \cup {None}
  BY <1>1, Facts DEF Known
<1>3. /\ CP!Row(r.user) \in CP!SubRows /\ sub'.there /\ sub'.customer = r.user
  BY <1>1, <1>2, Constants
<1>4. PICK l : l = [r EXCEPT !.pc = "link", !.sub = CP!Row(r.user)]
  OBVIOUS
<1>5. /\ l \in CP!Locals /\ l.pc = "link" /\ l.user = r.user /\ l.sub = sub'
      /\ l.alone = r.alone /\ CP!Goes(w, l)
  BY <1>1, <1>2, <1>3, <1>4 DEF CP!Locals, CP!InsertSubscription
<1>6. Known(l)'
  BY <1>1, <1>2, <1>3, <1>5 DEF Known
<1>7. l.alone => r.alone /\ l.user = user'
  BY <1>1, <1>5 DEF Provisioned, Alone
<1>8. ASSUME NEW c \in Customers, Settled(c)
      PROVE  user' = c /\ sub' = CP!Row(c) /\ Holds(l, c)'
  BY <1>1, <1>5, <1>8 DEF Settled, Holds, CP!Row
<1> QED
  BY <1>1, <1>2, <1>3, <1>5, <1>6, <1>7, <1>8, WriteStep

LEMMA UseExistingKeeps ==
    ASSUME CP!CustomerAssumption, Provisioned, NEW w \in Workers, CP!UseExisting(w)
    PROVE  Provisioned'
<1> DEFINE r == req[w]
<1>1. PICK c : c = IF r.user # None THEN r.user ELSE r.sub.customer
  OBVIOUS
<1>2. /\ r.pc = "link" /\ c # None
      /\ user' = IF r.user = c THEN user ELSE c
      /\ sub' = IF r.sub.customer = c THEN sub ELSE CP!Row(c)
      /\ CP!Goes(w, [r EXCEPT !.pc = "ready", !.customer = c])
      /\ excused' = IF r.alone THEN excused ELSE excused \cup {c}
      /\ UNCHANGED <<created, sessions>>
  BY <1>1 DEF CP!UseExisting
<1>3. /\ r \in CP!Locals /\ Known(r) /\ user \in created \cup {None}
      /\ sub.customer \in created \cup {None} /\ sub \in CP!SubRows
      /\ excused \subseteq CP!Columns /\ created \subseteq Customers
      /\ sessions \subseteq created
      /\ sessions # {} => user # None /\ sub.customer # None
  BY <1>2, Facts
<1>4. c \in created /\ c \in CP!Columns /\ sub.there
  BY <1>1, <1>2, <1>3 DEF Known, CP!Columns
<1>5. /\ CP!Row(c) \in CP!SubRows /\ CP!Row(c).there /\ CP!Row(c).customer = c
  BY <1>4, Constants
<1>6. user' \in created /\ user' # None /\ excused' \subseteq CP!Columns
  BY <1>2, <1>3, <1>4 DEF Known, CP!Columns
<1>7. /\ sub' \in CP!SubRows /\ sub'.there /\ sub'.customer # None
      /\ sub'.customer \in created
  BY <1>2, <1>3, <1>4, <1>5 DEF Known
<1>8. PICK l : l = [r EXCEPT !.pc = "ready", !.customer = c]
  OBVIOUS
<1>9. /\ l \in CP!Locals /\ l.pc = "ready" /\ l.user = r.user /\ l.sub = r.sub
      /\ l.customer = c /\ l.alone = r.alone /\ CP!Goes(w, l)
  BY <1>2, <1>3, <1>4, <1>8 DEF CP!Locals
<1>10. Known(l)'
  BY <1>2, <1>3, <1>4, <1>6, <1>7, <1>9 DEF Known
<1>11. l.alone => r.alone
  BY <1>9
<1>12. ASSUME NEW d \in Customers, Settled(d)
       PROVE  /\ user' = d /\ sub' = sub /\ sub' = CP!Row(d) /\ sessions' \subseteq {d}
              /\ Holds(l, d)'
  <2>1. r.user = d /\ r.sub = CP!Row(d) /\ sub = CP!Row(d) /\ d # None
    BY <1>2, <1>12, Constants, Facts DEF Holds
  <2>2. c = d /\ r.sub.customer = d /\ user' = user /\ sub' = sub
    BY <1>1, <1>2, <2>1 DEF CP!Row
  <2> QED
    BY <1>2, <1>9, <1>12, <2>1, <2>2 DEF Settled, Holds, CP!Row
<1> QED
  BY <1>2, <1>3, <1>6, <1>7, <1>9, <1>10, <1>11, <1>12, WriteStep

LEMMA CheckoutKeeps ==
    ASSUME CP!CustomerAssumption, Provisioned, NEW w \in Workers, CP!Checkout(w)
    PROVE  Provisioned'
<1>1. /\ req[w].pc = "ready" /\ CP!Goes(w, CP!Idle)
      /\ sessions' = sessions \cup {req[w].customer}
      /\ UNCHANGED <<user, sub, created, excused>>
  BY DEF CP!Checkout
<1>2. CP!Idle \in CP!Locals /\ CP!Idle.pc = "idle"
  BY Constants
<1>3. Known(req[w])
  BY <1>1, Facts
<1>4. /\ sessions' \subseteq created /\ user # None /\ sub.customer # None
  BY <1>1, <1>3, Facts DEF Known
<1>5. ASSUME NEW c \in Customers, Settled(c)
      PROVE  user' = c /\ sub' = CP!Row(c) /\ sessions' \subseteq {c}
  <2>1. req[w].customer = c /\ sub = CP!Row(c)
    BY <1>1, <1>5, Facts DEF Holds
  <2> QED
    BY <1>1, <1>5, <2>1 DEF Settled, CP!Row
<1> QED
  BY <1>1, <1>2, <1>4, <1>5, Facts, WriteStep

LEMMA TakeOverKeeps ==
    ASSUME CP!CustomerAssumption, Provisioned, NEW w \in Workers, CP!TakeOver(w)
    PROVE  Provisioned'
<1> DEFINE r == req[w]
<1>1. /\ r.pc = "hook" /\ user' = IF r.user = r.customer THEN user ELSE r.customer
      /\ CP!Goes(w, [r EXCEPT !.pc = "sync", !.user = user', !.sub = sub])
      /\ UNCHANGED <<sub, created, sessions, excused>>
  BY DEF CP!TakeOver
<1>2. /\ r \in CP!Locals /\ Known(r) /\ user \in created \cup {None} /\ sub \in CP!SubRows
      /\ sub.customer \in created \cup {None} /\ created \subseteq Customers
  BY <1>1, Facts
<1>3. r.customer \in created /\ user # None /\ sub.customer # None /\ None \notin Customers
  BY <1>1, <1>2, Constants DEF Known
<1>4. user' \in created /\ user' # None
  BY <1>1, <1>2, <1>3
<1>5. PICK u \in CP!Columns : u = user'
  BY <1>2, <1>4 DEF CP!Columns
<1>6. PICK l : l = [r EXCEPT !.pc = "sync", !.user = u, !.sub = sub]
  OBVIOUS
<1>7. /\ l \in CP!Locals /\ l.pc = "sync" /\ l.user = u /\ l.sub = sub
      /\ l.customer = r.customer /\ l.alone = r.alone /\ CP!Goes(w, l)
  BY <1>1, <1>2, <1>5, <1>6 DEF CP!Locals
<1>8. Known(l)'
  BY <1>1, <1>2, <1>3, <1>4, <1>5, <1>7 DEF Known
<1>9. ASSUME NEW c \in Customers, Settled(c)
      PROVE  user' = c /\ sub' = CP!Row(c) /\ Holds(l, c)'
  <2>1. r.user = c /\ r.customer = c /\ sub = CP!Row(c) /\ user = c
    BY <1>1, <1>9, Facts DEF Holds, Settled
  <2> QED
    BY <1>1, <1>5, <1>7, <2>1 DEF Holds, CP!Row
<1>10. \A c \in Customers : Settled(c) => sessions \subseteq {c}
  BY DEF Settled
<1> QED
  BY <1>1, <1>2, <1>3, <1>4, <1>7, <1>8, <1>9, <1>10, Facts, WriteStep

LEMMA SyncKeeps ==
    ASSUME CP!CustomerAssumption, Provisioned, NEW w \in Workers, CP!SyncSubscription(w)
    PROVE  Provisioned'
<1> DEFINE r == req[w]
<1>1. /\ r.pc = "sync" /\ sub' = IF r.sub.customer = r.customer THEN sub ELSE CP!Row(r.customer)
      /\ CP!Goes(w, [r EXCEPT !.pc = "mirror", !.sub = sub'])
      /\ UNCHANGED <<user, created, sessions, excused>>
  BY DEF CP!SyncSubscription
<1>2. /\ r \in CP!Locals /\ Known(r) /\ user \in created \cup {None} /\ sub \in CP!SubRows
      /\ sub.customer \in created \cup {None} /\ created \subseteq Customers
      /\ ~sub.there => sub.customer = None
  BY <1>1, Facts
<1>3. /\ r.customer \in created /\ r.customer \in CP!Columns /\ None \notin Customers
      /\ user # None /\ sub.customer # None
  BY <1>1, <1>2, Constants DEF Known, CP!Columns
<1>4. /\ CP!Row(r.customer) \in CP!SubRows /\ CP!Row(r.customer).there
      /\ CP!Row(r.customer).customer = r.customer
  BY <1>3, Constants
<1>5. /\ sub' \in CP!SubRows /\ sub'.there /\ sub'.customer # None
      /\ sub'.customer \in created
  BY <1>1, <1>2, <1>3, <1>4 DEF CP!SubRows
<1>6. PICK s \in CP!SubRows : s = sub'
  BY <1>5
<1>7. PICK l : l = [r EXCEPT !.pc = "mirror", !.sub = s]
  OBVIOUS
<1>8. /\ l \in CP!Locals /\ l.pc = "mirror" /\ l.user = r.user /\ l.sub = s
      /\ l.customer = r.customer /\ l.alone = r.alone /\ CP!Goes(w, l)
  BY <1>1, <1>2, <1>6, <1>7 DEF CP!Locals
<1>9. Known(l)'
  BY <1>1, <1>2, <1>3, <1>5, <1>6, <1>8 DEF Known
<1>10. ASSUME NEW c \in Customers, Settled(c)
       PROVE  user' = c /\ sub' = CP!Row(c) /\ Holds(l, c)'
  <2>1. r.user = c /\ r.customer = c /\ r.sub = CP!Row(c) /\ sub = CP!Row(c) /\ user = c
    BY <1>1, <1>10, Facts DEF Holds, Settled
  <2> QED
    BY <1>1, <1>6, <1>8, <2>1 DEF Holds, CP!Row
<1>11. \A c \in Customers : Settled(c) => sessions \subseteq {c}
  BY DEF Settled
<1> QED
  BY <1>1, <1>2, <1>3, <1>5, <1>8, <1>9, <1>10, <1>11, Facts, WriteStep

LEMMA MirrorKeeps ==
    ASSUME CP!CustomerAssumption, Provisioned, NEW w \in Workers, CP!Mirror(w)
    PROVE  Provisioned'
<1> DEFINE r == req[w]
<1>1. /\ r.pc = "mirror" /\ user' = IF r.user = r.sub.customer THEN user ELSE r.sub.customer
      /\ CP!Goes(w, CP!Idle) /\ UNCHANGED <<sub, created, sessions, excused>>
  BY DEF CP!Mirror
<1>2. CP!Idle \in CP!Locals /\ CP!Idle.pc = "idle"
  BY Constants
<1>3. Known(r) /\ user \in created \cup {None}
  BY <1>1, Facts
<1>4. user' \in created /\ user' # None /\ sub.customer # None
  BY <1>1, <1>3, Facts, Constants DEF Known
<1>5. ASSUME NEW c \in Customers, Settled(c)
      PROVE  user' = c /\ sub' = CP!Row(c) /\ sessions' \subseteq {c}
  <2>1. r.user = c /\ r.sub = CP!Row(c) /\ sub = CP!Row(c) /\ user = c /\ sessions \subseteq {c}
    BY <1>1, <1>5, Facts DEF Holds, Settled
  <2> QED
    BY <1>1, <2>1 DEF CP!Row
<1> QED
  BY <1>1, <1>2, <1>4, <1>5, Facts, WriteStep

\* Stripe makes a customer: nothing excuses it only if this request has been
\* the only one, and then there is no other clean one.
LEMMA CreateKeeps ==
    ASSUME CP!CustomerAssumption, Provisioned, NEW w \in Workers, NEW c \in Customers,
           CP!CreateCustomer(w, c)
    PROVE  Provisioned'
<1> DEFINE r == req[w]
<1>1. /\ r.pc = "link" /\ r.user = None /\ r.sub.customer = None
      /\ c \notin created /\ created' = created \cup {c}
      /\ excused' = IF r.alone THEN excused ELSE excused \cup {c}
      /\ CP!Goes(w, [r EXCEPT !.pc = "save", !.customer = c])
      /\ UNCHANGED <<user, sub, sessions>>
  BY DEF CP!CreateCustomer
<1>2. r \in CP!Locals /\ Known(r) /\ c \in CP!Columns /\ None \notin Customers
  BY <1>1, Facts, Constants DEF CP!Columns
<1>3. PICK l : l = [r EXCEPT !.pc = "save", !.customer = c]
  OBVIOUS
<1>4. /\ l \in CP!Locals /\ l.pc = "save" /\ l.user = r.user /\ l.sub = r.sub
      /\ l.customer = c /\ l.alone = r.alone /\ CP!Goes(w, l)
  BY <1>1, <1>2, <1>3 DEF CP!Locals
<1>5. /\ req'[w] = l /\ req' \in [Workers -> CP!Locals]
      /\ \A v \in Workers \ {w} : Same(req'[v], req[v])
  BY <1>4, OwnStep DEF Provisioned
<1>6. CP!TypeOK'
  BY <1>1, <1>2, <1>5 DEF Provisioned, CP!TypeOK
<1>7. Known(l)'
  BY <1>1, <1>2, <1>4 DEF Known
<1>8. Traced'
  BY <1>1, <1>5, <1>7, Facts, TracedStep DEF Provisioned
<1>9. Alone'
  <2>1. r.alone => l.user = user'
    BY <1>1, <1>4 DEF Provisioned, Alone
  <2> QED
    BY <1>1, <1>4, <1>5, <2>1, AloneStep DEF Provisioned
<1>10. ASSUME NEW d \in Clean' PROVE Making(d)'
  <2>1. \A e \in Clean : FALSE
    <3> SUFFICES ASSUME NEW e \in Clean PROVE FALSE
      OBVIOUS
    <3>1. ~Making(e)
      BY <1>1, MakerMoves
    <3>2. Settled(e) /\ e \in Customers
      BY <3>1 DEF Provisioned, Linked, Clean, CP!TypeOK
    <3> QED
      BY <1>1, <1>2, <3>2, Facts DEF Holds
  <2>2. d = c /\ r.alone
    BY <1>1, <2>1 DEF Clean
  <2>3. /\ user = None /\ \A v \in Workers \ {w} : req[v].pc = "idle"
    BY <1>1, <2>2 DEF Provisioned, Alone
  <2>4. sessions = {}
    BY <1>1, <2>3, Facts
  <2>5. req'[w].pc = "save" /\ req'[w].alone /\ req'[w].customer = d
    BY <1>4, <1>5, <2>2
  <2>6. \A v \in Workers \ {w} : req'[v].pc = "idle"
    BY <1>5, <2>3 DEF Same
  <2> QED
    BY <1>1, <2>3, <2>4, <2>5, <2>6 DEF Making
<1> QED
  BY <1>6, <1>8, <1>9, <1>10 DEF Provisioned, Linked

LEMMA SaveKeeps ==
    ASSUME CP!CustomerAssumption, Provisioned, NEW w \in Workers, CP!SaveCustomer(w)
    PROVE  Provisioned'
<1> DEFINE r == req[w]
<1>1. /\ r.pc = "save" /\ user' = r.customer /\ sub' = CP!Row(r.customer)
      /\ CP!Goes(w, [r EXCEPT !.pc = "ready"]) /\ UNCHANGED <<created, sessions, excused>>
  BY DEF CP!SaveCustomer
<1>2. /\ r \in CP!Locals /\ Known(r) /\ created \subseteq Customers
      /\ sessions \subseteq created
  BY <1>1, Facts
<1>3. r.customer \in created /\ r.customer \in CP!Columns /\ r.customer # None
  BY <1>1, <1>2, Constants DEF Known, CP!Columns
<1>4. /\ CP!Row(r.customer) \in CP!SubRows /\ CP!Row(r.customer).there
      /\ CP!Row(r.customer).customer = r.customer
  BY <1>3, Constants
<1>5. PICK l : l = [r EXCEPT !.pc = "ready"]
  OBVIOUS
<1>6. /\ l \in CP!Locals /\ l.pc = "ready" /\ l.user = r.user /\ l.sub = r.sub
      /\ l.customer = r.customer /\ l.alone = r.alone /\ CP!Goes(w, l)
  BY <1>1, <1>2, <1>5 DEF CP!Locals
<1>7. /\ req'[w] = l /\ req' \in [Workers -> CP!Locals]
      /\ \A v \in Workers \ {w} : Same(req'[v], req[v])
  BY <1>6, OwnStep DEF Provisioned
<1>8. CP!TypeOK'
  BY <1>1, <1>3, <1>4, <1>7 DEF Provisioned, CP!TypeOK
<1>9. Known(l)'
  BY <1>1, <1>2, <1>3, <1>4, <1>6 DEF Known
<1>10. Traced'
  BY <1>1, <1>2, <1>3, <1>4, <1>7, <1>9, TracedStep DEF Provisioned
<1>11. Alone'
  BY <1>1, <1>6, <1>7, AloneStep DEF Provisioned
<1>12. ASSUME NEW c \in Clean' PROVE Settled(c)'
  <2>1. c \in Clean /\ ~Settled(c)
    BY <1>1, Facts DEF Clean, Holds
  <2>2. Making(c)
    BY <2>1 DEF Provisioned, Linked
  <2>3. /\ r.customer = c /\ sessions = {}
        /\ \A v \in Workers \ {w} : req[v].pc = "idle"
    BY <1>1, <2>2, MakerMoves DEF Making
  <2>4. \A v \in Workers \ {w} : req'[v].pc = "idle"
    BY <1>7, <2>3 DEF Same
  <2>5. Holds(l, c)'
    BY <1>1, <1>6, <2>3 DEF Holds, CP!Row
  <2> QED
    BY <1>1, <1>7, <2>3, <2>4, <2>5 DEF Settled, CP!Row, Holds
<1> QED
  BY <1>8, <1>10, <1>11, <1>12 DEF Provisioned, Linked

LEMMA NextProvisioned ==
    ASSUME CP!CustomerAssumption
    PROVE  Provisioned /\ [CP!Next]_CP!vars => Provisioned'
<1> SUFFICES ASSUME Provisioned, [CP!Next]_CP!vars PROVE Provisioned'
  OBVIOUS
<1>1. CASE UNCHANGED CP!vars
  BY <1>1 DEF CP!vars, Provisioned, CP!TypeOK, Traced, Known, Alone, Linked, Clean,
              Settled, Making, Holds, CP!Row, CP!NoRow
<1>2. CASE CP!Next
  BY <1>2, BeginKeeps, CompletedKeeps, FindKeeps, DoneKeeps, FailKeeps, InsertKeeps,
     UseExistingKeeps, CheckoutKeeps, TakeOverKeeps, SyncKeeps, MirrorKeeps,
     CreateKeeps, SaveKeeps DEF CP!Next
<1> QED
  BY <1>1, <1>2

\* Rows, requests and Stripe's customers keep their types.
THEOREM CustomersTyped == ASSUME CP!CustomerAssumption PROVE CP!Spec => []CP!TypeOK
<1>1. Provisioned => CP!TypeOK
  BY DEF Provisioned
<1> QED
  BY <1>1, InitProvisioned, NextProvisioned, PTL DEF CP!Spec

\* However many workers create, use and take over customers, what was paid is
\* linked, unless a request that held it overlapped another or died.
THEOREM PaidAlwaysLinked == ASSUME CP!CustomerAssumption PROVE CP!Spec => []CP!PaidIsLinked
<1>1. Provisioned => CP!PaidIsLinked
  <2> SUFFICES ASSUME Provisioned PROVE CP!PaidIsLinked
    OBVIOUS
  <2>1. sessions \subseteq created
    BY DEF Provisioned, Traced
  <2>2. ASSUME NEW c \in Clean PROVE Settled(c) \/ Making(c)
    BY DEF Provisioned, Linked
  <2>3. ASSUME NEW c \in sessions \ excused PROVE user = c /\ sub = CP!Row(c)
    BY <2>1, <2>2 DEF Clean, Settled, Making
  <2>4. ASSUME CP!Busy = {}, NEW c \in created \ excused PROVE user = c
    BY <2>2, <2>4 DEF Clean, Settled, Making, CP!Busy
  <2> QED
    BY <2>3, <2>4 DEF CP!PaidIsLinked
<1> QED
  BY <1>1, InitProvisioned, NextProvisioned, PTL DEF CP!Spec
=============================================================================
