----------------------------- MODULE SmsConsent -----------------------------
(***************************************************************************)
(* STOP, START, HELP and service messages of one subscriber: the webhook   *)
(* that receives them (backend/app/api/twilio_webhook.py), the consent     *)
(* columns of the users row (sms/consent.py) and the dispatcher that looks *)
(* at them (sms/dispatcher.py).                                            *)
(*                                                                         *)
(* Messages of one phone are handled by several workers at once.  Each     *)
(* request loads the user row when it builds its context, decides on that  *)
(* copy, and its commit writes the columns it changed relative to the copy *)
(* (SQLAlchemy emits no others).  A message from a phone without a user    *)
(* changes no state and is left out; so are subscription and quota, which  *)
(* can only turn a traffic reply into a refusal (UsageMetering).           *)
(***************************************************************************)
EXTENDS Naturals

CONSTANTS
    Requests,   \* webhook requests that can be in flight
    OptTypes,   \* values of sms_opt_out_type: Twilio's OptOutType, or "keyword"
    None,       \* NULL
    MaxTime     \* bound on the messages received

ASSUME ConsentAssumption == None \notin OptTypes /\ MaxTime \in Nat

VARIABLES
    consent,    \* sms_opted_out_at (0 is NULL) and sms_opt_out_type of the row
    now,        \* the clock: one tick for each message
    req,        \* the requests in flight
    decided     \* history: the consent request that committed last

vars == <<consent, now, req, decided>>

Kinds == {"STOP", "START", "HELP", "SERVICE"}
Idle == [pc |-> "idle", kind |-> "HELP", type |-> None, at |-> 0,
         copy |-> [out |-> 0, type |-> None], raced |-> FALSE, after |-> FALSE]

\* The row after a commit of a request that loaded "old" and set "new".
Saved(old, new) ==
    [out  |-> IF new.out = old.out THEN consent.out ELSE new.out,
     type |-> IF new.type = old.type THEN consent.type ELSE new.type]

Init ==
    /\ consent = [out |-> 0, type |-> None]
    /\ now = 0
    /\ req = [w \in Requests |-> Idle]
    /\ decided = "nothing"

\* A consent request commits: whoever is in flight holds an older copy.
Decide(w, new) ==
    /\ consent' = Saved(req[w].copy, new)
    /\ req' = [v \in Requests |->
                 IF v = w THEN Idle
                 ELSE [req[v] EXCEPT !.raced = req[v].pc # "idle"]]
    /\ UNCHANGED now

-----------------------------------------------------------------------------

\* inbound_sms builds the context: the user row is loaded and the time taken.
\* raced: another consent request commits before this one has
\* committed.
\* after: when this request began the last consent request had been a STOP.
Receive(w, k, t) ==
    /\ req[w].pc = "idle" /\ now < MaxTime
    /\ now' = now + 1
    /\ req' = [req EXCEPT ![w] = [pc |-> "dispatch", kind |-> k, type |-> t,
                                  at |-> now', copy |-> consent, raced |-> FALSE,
                                  after |-> decided = "STOP"]]
    /\ UNCHANGED <<consent, decided>>

Handling(w, k) == req[w].pc = "dispatch" /\ req[w].kind = k

\* Variant that breaks StopWins: a STOP of a user whose copy is opted out
\* already has nothing to save.
OptOut_KeepsFirst(w) ==
    /\ Handling(w, "STOP")
    /\ Decide(w, IF req[w].copy.out # 0 THEN req[w].copy
                 ELSE [out |-> req[w].at, type |-> req[w].type])
    /\ decided' = "STOP"

\* Variant that breaks TypeOK: the opt-out is dated into the future.
OptOut_Tomorrow(w) ==
    /\ Handling(w, "STOP")
    /\ Decide(w, [out |-> now + 1, type |-> req[w].type])
    /\ decided' = "STOP"

\* handle_stop.
OptOut(w) ==
    /\ Handling(w, "STOP")
    /\ Decide(w, [out |-> req[w].at, type |-> req[w].type])
    /\ decided' = "STOP"

\* handle_start.
OptIn(w) ==
    /\ Handling(w, "START")
    /\ Decide(w, [out |-> 0, type |-> None])
    /\ decided' = IF req[w].raced THEN "START, raced" ELSE "START"

\* Variant that breaks LoneStartClears: HELP saves the whole row it loaded.
RecordHelp_WholeRow(w) ==
    /\ Handling(w, "HELP")
    /\ consent' = req[w].copy
    /\ req' = [req EXCEPT ![w] = Idle]
    /\ UNCHANGED <<now, decided>>

\* handle_help: the commit writes sms_last_help_at and no consent column.
RecordHelp(w) ==
    /\ Handling(w, "HELP")
    /\ consent' = Saved(req[w].copy, req[w].copy)
    /\ req' = [req EXCEPT ![w] = Idle]
    /\ UNCHANGED <<now, decided>>

\* Variant that breaks StoppedStaysStopped: the opt-out is read off its type.
Dispatch_LooksAtType(w) ==
    /\ Handling(w, "SERVICE")
    /\ req' = [req EXCEPT ![w] = IF @.copy.type # None THEN Idle
                                 ELSE [@ EXCEPT !.pc = "reply"]]
    /\ UNCHANGED <<consent, now, decided>>

\* SMSDispatcher.dispatch of anything else: a user whose copy is opted out is
\* told so, and otherwise the handler is run, which charges, reads providers
\* and awaits before it replies.
Dispatch(w) ==
    /\ Handling(w, "SERVICE")
    /\ req' = [req EXCEPT ![w] = IF @.copy.out # 0 THEN Idle
                                 ELSE [@ EXCEPT !.pc = "reply"]]
    /\ UNCHANGED <<consent, now, decided>>

\* The reply of a service handler leaves.
Reply(w) ==
    /\ req[w].pc = "reply"
    /\ req' = [req EXCEPT ![w] = Idle]
    /\ UNCHANGED <<consent, now, decided>>

\* A request that raises, or whose worker dies, before it commits.
Fail(w) ==
    /\ req[w].pc # "idle"
    /\ req' = [req EXCEPT ![w] = Idle]
    /\ UNCHANGED <<consent, now, decided>>

Next ==
    \E w \in Requests :
      \/ \E k \in Kinds, t \in OptTypes : Receive(w, k, t)
      \/ OptOut(w) \/ OptIn(w) \/ RecordHelp(w)
      \/ Dispatch(w) \/ Reply(w) \/ Fail(w)

Spec == Init /\ [][Next]_vars

-----------------------------------------------------------------------------
(* Properties.                                                             *)

Rows == [out : Nat, type : OptTypes \cup {None}]
Locals == [pc : {"idle", "dispatch", "reply"}, kind : Kinds,
           type : OptTypes \cup {None}, at : Nat, copy : Rows,
           raced : BOOLEAN, after : BOOLEAN]

\* The columns are typed and an opt-out is never dated into the future.
TypeOK ==
    /\ now \in 0 .. MaxTime
    /\ consent \in Rows /\ consent.out <= now
    /\ req \in [Requests -> Locals]
    /\ decided \in {"nothing", "STOP", "START", "START, raced"}

\* "Record an opt-out without requiring an active subscription"
\* (sms/consent.py:13): when the consent request that committed last is a STOP
\* the user is opted out, whatever copies other requests hold and save.
StopWins == decided = "STOP" => consent.out # 0

\* A START that no other consent request overlapped clears the opt-out, and
\* nothing that was in flight brings it back.
LoneStartClears == decided = "START" => consent.out = 0

\* A service request that arrives after a STOP was recorded, and before a
\* START is, never reaches its handler.
StoppedStaysStopped ==
    \A w \in Requests : req[w].after => req[w].pc # "reply"

\* "START clears it and records the resume time" (README.md:77): when the
\* consent request that committed last is a START the user is not opted out.
StartClears == decided \in {"START", "START, raced"} => consent.out = 0

\* What a request in flight holds: its time is later than any opt-out in its
\* copy, the copy of an unraced START is the row, and a request that began
\* after a STOP holds an opted-out copy.
Held(l) ==
    /\ l.pc = "dispatch" => l.copy.out < l.at /\ l.at <= now /\ l.type # None
    /\ l.pc = "dispatch" /\ l.kind = "START" /\ ~l.raced => l.copy = consent
    /\ l.after => l.copy.out # 0 /\ l.pc # "reply"
AllHeld == \A w \in Requests : Held(req[w])

\* The inductive invariant behind the consent theorems of ComponentsProofs.
Orderly == TypeOK /\ AllHeld /\ StopWins /\ LoneStartClears
=============================================================================
