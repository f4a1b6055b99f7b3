------------------------- MODULE ConversationMemory -------------------------
(***************************************************************************)
(* The short memory that lets a subscriber follow up on a traffic question *)
(* by SMS: "TRAFFIC I-15", then "NORTH"; "TRAFFIC TO SAN DIEGO", then      *)
(* "FROM MURRIETA" (backend/app/sms/conversation.py as SMSIntentResolver   *)
(* uses it).  Each API worker has a dictionary of its own and either may   *)
(* get the next message; a message is resolved without a pause, for the    *)
(* only language model provider answers at once.                           *)
(*                                                                         *)
(* What is remembered of a message is the highway and the destination it   *)
(* names: both in "TRAFFIC I-15 TO SAN DIEGO", and a highway that is a     *)
(* destination is both.  Compliance keywords never get as far as this, and *)
(* other commands only make an expired state go.                           *)
(***************************************************************************)
EXTENDS Naturals

CONSTANTS
    Workers,    \* API processes
    Phones,
    Highways, Places,   \* what a message can name; they may overlap
    None,
    Ttl,        \* seconds a state lives (sms_conversation_ttl_seconds)
    MaxTime     \* bound on the clock

MemoryAssumption ==
    None \notin Highways \cup Places /\ Ttl \in Nat /\ MaxTime \in Nat

VARIABLES
    now,        \* the clock
    memory,     \* each worker's state of each phone
    reply,      \* the follow-up that the last step resolved, if it did
    named,      \* history: when each phone last named each thing itself
    followed    \* history: when a follow-up about it was last answered

vars == <<now, memory, reply, named, followed>>

Things == Highways \cup Places
Never == MaxTime + Ttl + 1

NoState == [highway |-> None, destination |-> None, expires |-> 0]
NoReply == [phone |-> None, about |-> None]

Init ==
    /\ now = 0
    /\ memory = [w \in Workers |-> [p \in Phones |-> NoState]]
    /\ reply = NoReply
    /\ named = [p \in Phones |-> [x \in Things |-> Never]]
    /\ followed = named

Tick ==
    /\ now < MaxTime
    /\ now' = now + 1
    /\ reply' = NoReply
    /\ UNCHANGED <<memory, named, followed>>

\* SMSConversationMemory.get.
Get(w, p) == IF memory[w][p].expires <= now THEN NoState ELSE memory[w][p]

\* Variant that breaks FollowUpIsRecent: what the new message does not name is
\* kept from the state before.
Record_Merges(w, p, h, d) ==
    memory' = [memory EXCEPT ![w][p] =
                 [highway |-> IF h = None THEN @.highway ELSE h,
                  destination |-> IF d = None THEN @.destination ELSE d,
                  expires |-> now + Ttl]]

\* record: the latest message replaces the state.
Record(w, p, h, d) ==
    memory' = [memory EXCEPT ![w][p] =
                 [highway |-> h, destination |-> d, expires |-> now + Ttl]]

\* History h with the things xs of phone p as of now.
Noted(h, p, xs) ==
    [h EXCEPT ![p] = [x \in Things |-> IF x \in xs THEN now ELSE @[x]]]

\* A traffic command, or a phrase the provider makes one of: _finalize records
\* it.  What the provider reads in a phrase is also recorded when no command
\* comes of it ("TRAFFIC TO d" of a sender without a home).  "TRAFFIC" alone and
\* the saved places name neither a highway nor a destination.
TrafficCommand(w, p, h, d) ==
    /\ Record(w, p, h, d)
    /\ named' = Noted(named, p, {h, d})
    /\ reply' = NoReply
    /\ UNCHANGED <<now, followed>>

\* A follow-up of phone p about x is answered.
Answered(p, x) ==
    /\ reply' = [phone |-> p, about |-> x]
    /\ followed' = Noted(followed, p, {x})

\* resolve_follow_up with a direction: the highway of the state is asked about
\* again, and recorded again.
Direction(w, p) ==
    LET h == Get(w, p).highway
    IN  /\ h # None
        /\ Record(w, p, h, None)
        /\ Answered(p, h)
        /\ UNCHANGED <<now, named>>

\* resolve_follow_up with FROM an origin: the destination of the state.  The
\* new command shows the highway h that the origin names, if it names one, or
\* the destination where that is a highway.
FromOrigin(w, p, h) ==
    LET d == Get(w, p).destination
    IN  /\ d # None
        /\ Record(w, p, h, d)
        /\ Answered(p, d)
        /\ named' = Noted(named, p, {h} \ {d})
        /\ UNCHANGED now

\* Any other message, and a follow-up that finds nothing or whose origin is not
\* in the catalog: get drops an expired state.
NothingToFollow(w, p) ==
    /\ memory' = [memory EXCEPT ![w][p] = Get(w, p)]
    /\ reply' = NoReply
    /\ UNCHANGED <<now, named, followed>>

\* The container is replaced: a process starts with an empty dictionary.
Restart(w) ==
    /\ memory' = [memory EXCEPT ![w] = [p \in Phones |-> NoState]]
    /\ reply' = NoReply
    /\ UNCHANGED <<now, named, followed>>

Next ==
    \/ Tick
    \/ \E w \in Workers :
         \/ Restart(w)
         \/ \E p \in Phones :
              \/ \E h \in Highways \cup {None}, d \in Places \cup {None} :
                   TrafficCommand(w, p, h, d)
              \/ \E h \in Highways \cup {None} : FromOrigin(w, p, h)
              \/ Direction(w, p) \/ NothingToFollow(w, p)

Spec == Init /\ [][Next]_vars

-----------------------------------------------------------------------------
(* Properties.                                                             *)

States == [highway : Highways \cup {None}, destination : Places \cup {None},
           expires : Nat]
Replies == [phone : Phones, about : Things] \cup {NoReply}

TypeOK ==
    /\ now \in Nat
    /\ memory \in [Workers -> [Phones -> States]]
    /\ reply \in Replies
    /\ named \in [Phones -> [Things -> Nat]]
    /\ followed \in [Phones -> [Things -> Nat]]

\* A follow-up is answered about something this very phone named itself, less
\* than the memory's lifetime after it did or after the last follow-up about the
\* same thing was answered: a conversation may go on, but once it has rested that
\* long nothing of it comes back, whichever worker got which message and
\* whatever else was asked meanwhile.
RecentReply ==
    reply' # NoReply =>
        LET p == reply'.phone
            x == reply'.about
            Recent(t) == t <= now /\ now < t + Ttl
        IN  /\ named[p][x] <= now
            /\ Recent(named[p][x]) \/ Recent(followed[p][x])
FollowUpIsRecent == [][RecentReply]_vars
=============================================================================
