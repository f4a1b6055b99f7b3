----------------------- MODULE AccountLifecycleProofs -----------------------
(* Theorems about AccountLifecycle, for any accounts, addresses, phones,     *)
(* passwords and requests, and any number of tokens.                         *)
EXTENDS AccountLifecycle, TLAPS

\* The three columns that hold tokens, and the one that a link uses.
TokenColumns == {"v", "r", "p"}
Tok(row, c) == IF c = "v" THEN row.vtoken ELSE IF c = "r" THEN row.rtoken
               ELSE row.ptoken
ColumnOf(op) == IF op = "verify" THEN "v" ELSE IF op = "reset" THEN "r" ELSE "p"

\* A request is about to write a token that it has generated.
Mints(q, c) == q.pc = "save" /\ Tok(q.new, c) # 0 /\ Tok(q.new, c) # Tok(q.copy, c)

Stored(t) == \E a \in Accounts, c \in TokenColumns : Tok(users[a], c) = t
Minted(t) == \E w \in Requests, c \in TokenColumns :
                 Mints(req[w], c) /\ Tok(req[w].new, c) = t

NoClash ==
    \A a, b \in Accounts : a # b =>
        /\ ~Clash(users[a].email, users[b].email)
        /\ ~Clash(users[a].phone, users[b].phone)
        /\ ~Clash(users[a].pending, users[b].pending)

\* A row that is verified or has a link out is registered.
Owned(row) ==
    row.verified \/ row.vtoken # 0 \/ row.ptoken # 0 =>
        row.email # None /\ row.password # None

\* A request that is under way is about a row that is there; what it saves is
\* registered, and a password that it has seen is not taken away.
Grounded(q) ==
    /\ q.pc = "mail" => q.acct # None
    /\ q.pc # "idle" /\ q.acct # None => q.acct \in Present
    /\ q.pc = "save" =>
         /\ q.new.email # None /\ q.new.password # None
         /\ q.acct = None =>
              q.op = "register" /\ q.copy = Absent /\ q.new.verified = FALSE
         /\ q.acct # None /\ q.copy.password # None =>
              users[q.acct].password # None

\* The inductive invariant of the table.
Accounted ==
    /\ TypeOK
    /\ NoClash
    /\ \A a \in Accounts : Owned(users[a])
    /\ \A w \in Requests : Grounded(req[w])
    /\ \A m \in mails : m.token # 0

\* Every token has one place: a column of a row or a request that mints it.
OnePlace ==
    /\ \A a, b \in Accounts : \A c, d \in TokenColumns :
         Tok(users[a], c) # 0 /\ Tok(users[a], c) = Tok(users[b], d) =>
           a = b /\ c = d
    /\ \A w \in Requests : \A c \in TokenColumns : Mints(req[w], c) =>
         /\ ~Stored(Tok(req[w].new, c))
         /\ \A v \in Requests : \A d \in TokenColumns :
              Mints(req[v], d) /\ Tok(req[v].new, d) = Tok(req[w].new, c) =>
                v = w /\ d = c

\* Tokens come from the count of those issued.
Issued ==
    /\ \A a \in Accounts, c \in TokenColumns : Tok(users[a], c) <= issued
    /\ \A w \in Requests, c \in TokenColumns :
         Mints(req[w], c) => Tok(req[w].new, c) <= issued
    /\ \A t \in spent : t <= issued

\* The token of a link that is being used has no place but the column that the
\* request clears.
Clearing(q) ==
    q.pc = "save" /\ q.op \in Using =>
      /\ q.token # 0 /\ q.token <= issued
      /\ Tok(q.copy, ColumnOf(q.op)) = q.token
      /\ Tok(q.new, ColumnOf(q.op)) = 0
      /\ ~Minted(q.token)
      /\ \A b \in Accounts, d \in TokenColumns :
           Tok(users[b], d) = q.token => b = q.acct /\ d = ColumnOf(q.op)

\* The inductive invariant of the tokens.
Tokened ==
    /\ Accounted
    /\ OnePlace
    /\ Issued
    /\ \A w \in Requests : Clearing(req[w])
    /\ \A t \in spent : t # 0 /\ ~Stored(t) /\ ~Minted(t)

\* What a save in flight does to the columns of the address: only a change
\* and a confirmation touch the pending ones, only a confirmation the address.
Shaped(q) ==
    q.pc = "save" =>
      /\ q.acct = None => q.op = "register" /\ q.new.pending = None
      /\ q.acct # None /\ q.op # "confirm" => q.new.email = q.copy.email
      /\ q.acct # None /\ q.op \notin {"change", "confirm"} =>
           q.new.pending = q.copy.pending /\ q.new.ptoken = q.copy.ptoken
      /\ q.op = "change" =>
           q.new.pending = q.to /\ q.new.ptoken # 0 /\ q.new.ptoken # q.copy.ptoken
      /\ q.op = "confirm" =>
           /\ q.copy.pending # None /\ q.new.pending = None
           /\ q.copy.ptoken # 0 /\ q.new.ptoken = 0
      /\ q.op \in {"change", "confirm"} => q.acct # None /\ q.copy.verified
      /\ q.op \notin {"verify", "confirm"} => q.new.verified = q.copy.verified
      /\ q.op \in {"verify", "confirm"} => q.new.verified
      /\ q.acct # None /\ q.copy.verified => users[q.acct].verified

Changing(q, a) == q.pc # "idle" /\ q.op = "change" /\ q.acct = a

\* What a request of an account without overlapping changes relies on.
Answered(q, a) ==
    /\ q.op = "change" /\ q.pc = "save" => users[a].pending \in {q.copy.pending, None}
    /\ q.op = "change" /\ q.pc = "mail" => users[a].pending \in {q.to, None}
    /\ q.op = "confirm" /\ q.pc = "save" => q.new.email \in proved
    /\ q.op = "verify" /\ q.pc = "save" => users[a].email \in proved

\* A link that would work leads to the mailbox it vouches for.
Delivered(m, a) ==
    /\ m.kind = "verify" /\ users[a].vtoken = m.token =>
         users[a].email \in proved \cup {m.to}
    /\ m.kind = "change" /\ users[a].ptoken = m.token =>
         users[a].pending \in {m.to, None}

Settled(a) ==
    /\ Proved(a)
    /\ \A m \in mails : Delivered(m, a)
    /\ \A w \in Requests : req[w].acct = a => Answered(req[w], a)
    /\ \A v, w \in Requests :
         Changing(req[v], a) /\ Changing(req[w], a) => v = w

\* The inductive invariant of the addresses.
Vouched ==
    /\ Tokened
    /\ \A a \in Accounts : users[a].pending # None => users[a].verified
    /\ \A w \in Requests : Shaped(req[w])
    /\ \A m \in mails : m.token <= issued /\ ~Minted(m.token)
    /\ \A a \in Accounts \ tangled : Settled(a)

-----------------------------------------------------------------------------
(* Rows.                                                                   *)

LEMMA Null ==
    None \notin Accounts /\ None \notin Addresses /\ None \notin Phones
      /\ None \notin Passwords /\ MaxTokens \in Nat /\ Passwords # {}
BY AccountAssumption

LEMMA AbsentRow ==
    /\ Absent \in Rows
    /\ Absent.email = None /\ Absent.phone = None /\ Absent.password = None
    /\ Absent.verified = FALSE /\ Absent.pending = None
    /\ Absent.vtoken = 0 /\ Absent.rtoken = 0 /\ Absent.ptoken = 0
    /\ \A c \in TokenColumns : Tok(Absent, c) = 0
BY Null DEF Absent, Rows, Tokens, Tok

LEMMA IdleLocal ==
    Idle \in Locals /\ Idle.pc = "idle" /\ Idle.acct = None
BY AbsentRow, Null DEF Idle, Locals, Tokens, Ops, Using, Mailing

LEMMA RowFields ==
    ASSUME NEW row \in Rows
    PROVE  /\ row.email \in Addresses \cup {None}
           /\ row.phone \in Phones \cup {None}
           /\ row.password \in Passwords \cup {None}
           /\ row.verified \in BOOLEAN
           /\ row.vtoken \in Tokens /\ row.rtoken \in Tokens
           /\ row.ptoken \in Tokens
           /\ row.pending \in Addresses \cup {None}
           /\ \A c \in TokenColumns : Tok(row, c) \in Tokens
BY DEF Rows, Tok

LEMMA LocalFields ==
    ASSUME TypeOK, NEW w \in Requests
    PROVE  /\ req[w] \in Locals /\ req[w].copy \in Rows /\ req[w].new \in Rows
           /\ req[w].op \in Ops /\ req[w].acct \in Accounts \cup {None}
           /\ req[w].to \in Addresses \cup {None} /\ req[w].token \in Tokens
BY DEF TypeOK, Locals

\* A save keeps a column or writes it.
LEMMA SavedRow ==
    ASSUME NEW stored \in Rows, NEW old \in Rows, NEW new \in Rows,
           NEW row, row = Saved(stored, old, new)
    PROVE  /\ row \in Rows
           /\ row.email = IF new.email = old.email THEN stored.email ELSE new.email
           /\ row.phone = IF new.phone = old.phone THEN stored.phone ELSE new.phone
           /\ row.password = IF new.password = old.password
                             THEN stored.password ELSE new.password
           /\ row.verified = (IF new.verified = old.verified
                             THEN stored.verified ELSE new.verified)
           /\ row.pending = IF new.pending = old.pending
                            THEN stored.pending ELSE new.pending
           /\ \A c \in TokenColumns :
                Tok(row, c) = IF Tok(new, c) = Tok(old, c)
                              THEN Tok(stored, c) ELSE Tok(new, c)
<1>1. row = [email |-> IF new.email = old.email THEN stored.email ELSE new.email,
             phone |-> IF new.phone = old.phone THEN stored.phone ELSE new.phone,
             password |-> IF new.password = old.password
                          THEN stored.password ELSE new.password,
             verified |-> IF new.verified = old.verified
                          THEN stored.verified ELSE new.verified,
             vtoken |-> IF new.vtoken = old.vtoken THEN stored.vtoken ELSE new.vtoken,
             rtoken |-> IF new.rtoken = old.rtoken THEN stored.rtoken ELSE new.rtoken,
             pending |-> IF new.pending = old.pending
                         THEN stored.pending ELSE new.pending,
             ptoken |-> IF new.ptoken = old.ptoken THEN stored.ptoken ELSE new.ptoken]
  BY DEF Saved
<1>2. (IF new.verified = old.verified THEN stored.verified ELSE new.verified)
        \in BOOLEAN
  BY RowFields
<1>3. row \in Rows
  <2>1. /\ (IF new.email = old.email THEN stored.email ELSE new.email)
             \in Addresses \cup {None}
        /\ (IF new.phone = old.phone THEN stored.phone ELSE new.phone)
             \in Phones \cup {None}
        /\ (IF new.password = old.password THEN stored.password ELSE new.password)
             \in Passwords \cup {None}
        /\ (IF new.pending = old.pending THEN stored.pending ELSE new.pending)
             \in Addresses \cup {None}
    BY RowFields
  <2>2. /\ (IF new.vtoken = old.vtoken THEN stored.vtoken ELSE new.vtoken) \in Tokens
        /\ (IF new.rtoken = old.rtoken THEN stored.rtoken ELSE new.rtoken) \in Tokens
        /\ (IF new.ptoken = old.ptoken THEN stored.ptoken ELSE new.ptoken) \in Tokens
    BY RowFields
  <2> QED
    BY <1>1, <1>2, <2>1, <2>2 DEF Rows
<1>4. row.verified = (IF new.verified = old.verified
                     THEN stored.verified ELSE new.verified)
  BY <1>1
<1>5. \A c \in TokenColumns :
        Tok(row, c) = IF Tok(new, c) = Tok(old, c) THEN Tok(stored, c) ELSE Tok(new, c)
  BY <1>1 DEF Tok, TokenColumns
<1> QED
  BY <1>1, <1>3, <1>4, <1>5

-----------------------------------------------------------------------------
(* A handler up to its save.                                               *)

\* What Begin puts in flight.
Begun(op, a, new, to, token) ==
    [pc |-> "save", op |-> op, acct |-> a,
     copy |-> IF a = None THEN Absent ELSE users[a],
     new |-> new, to |-> to, token |-> token]

\* What a handler may ask to be saved: the new row is registered, writes at
\* most one new token, the next one, and clears the token of the link in use.
Asked(op, a, new, token) ==
    LET old == IF a = None THEN Absent ELSE users[a]
    IN  /\ op \in Ops /\ new \in Rows /\ token \in Tokens
        /\ new.email # None /\ new.password # None
        /\ a = None => op = "register" /\ new.verified = FALSE
        /\ a # None => a \in Present
        /\ \A c \in TokenColumns :
             \/ Tok(new, c) = 0 \/ Tok(new, c) = Tok(old, c)
             \/ Tok(new, c) = issued + 1 /\ issued' = issued + 1
        /\ \A c, d \in TokenColumns :
             Tok(new, c) = issued + 1 /\ Tok(new, d) = issued + 1 => c = d
        /\ op \in Using =>
             /\ token # 0 /\ Tok(old, ColumnOf(op)) = token
             /\ Tok(new, ColumnOf(op)) = 0

LEMMA BegunLocal ==
    ASSUME TypeOK, NEW op, NEW a \in Accounts \cup {None}, NEW new,
           NEW to \in Addresses \cup {None}, NEW token, Asked(op, a, new, token),
           NEW q, q = Begun(op, a, new, to, token)
    PROVE  q \in Locals
<1>1. (IF a = None THEN Absent ELSE users[a]) \in Rows
  BY AbsentRow DEF TypeOK
<1>2. op \in Ops /\ new \in Rows /\ token \in Tokens
  BY DEF Asked
<1> QED
  BY <1>1, <1>2 DEF Begun, Locals

LEMMA BeginAccounted ==
    ASSUME Accounted, NEW w \in Requests, NEW op, NEW a \in Accounts \cup {None},
           NEW new, NEW to \in Addresses \cup {None}, NEW token,
           Asked(op, a, new, token), Begin(w, op, a, new, to, token),
           UNCHANGED <<users, mails, spent>>, issued' \in Tokens,
           proved' \subseteq Addresses \cup {None}, tangled' \subseteq Accounts
    PROVE  Accounted'
<1>1. PICK q : q = Begun(op, a, new, to, token)
  OBVIOUS
<1>2. req' = [req EXCEPT ![w] = q]
  BY <1>1 DEF Begin, Begun
<1>3. q \in Locals
  BY <1>1, BegunLocal DEF Accounted
<1>4. TypeOK'
  BY <1>2, <1>3 DEF Accounted, TypeOK
<1>5. \A v \in Requests : req'[v] = IF v = w THEN q ELSE req[v]
  BY <1>2 DEF Accounted, TypeOK
<1>6. Grounded(q)
  <2>1. q.pc = "save" /\ q.acct = a /\ q.op = op /\ q.new = new
        /\ q.copy = IF a = None THEN Absent ELSE users[a]
    BY <1>1 DEF Begun
  <2> QED
    BY <2>1 DEF Grounded, Asked
<1>7. \A v \in Requests : Grounded(req[v])'
  <2> SUFFICES ASSUME NEW v \in Requests PROVE Grounded(req[v])'
    OBVIOUS
  <2>1. Grounded(req'[v])
    BY <1>5, <1>6 DEF Accounted
  <2> QED
    BY <2>1 DEF Grounded, Present
<1>8. NoClash' /\ (\A b \in Accounts : Owned(users[b]))'
      /\ (\A m \in mails : m.token # 0)'
  BY DEF Accounted, NoClash, Owned
<1> QED
  BY <1>4, <1>7, <1>8 DEF Accounted

\* A token that is new is neither stored nor minted.
LEMMA NextIsNew ==
    ASSUME Tokened
    PROVE  ~Stored(issued + 1) /\ ~Minted(issued + 1) /\ issued \in Nat
             /\ ~Stored(issued + 1)
<1>1. issued \in Nat
  BY Null DEF Tokened, Accounted, TypeOK, Tokens
<1>2. \A a \in Accounts, c \in TokenColumns : Tok(users[a], c) \in Nat
  BY RowFields, Null DEF Tokened, Accounted, TypeOK, Tokens
<1>3. \A v \in Requests, c \in TokenColumns : Tok(req[v].new, c) \in Nat
  BY RowFields, LocalFields, Null DEF Tokened, Accounted, Tokens
<1> QED
  BY <1>1, <1>2, <1>3 DEF Tokened, Issued, Stored, Minted

LEMMA BeginTokened ==
    ASSUME Tokened, NEW w \in Requests, NEW op, NEW a \in Accounts \cup {None},
           NEW new, NEW to \in Addresses \cup {None}, NEW token,
           Asked(op, a, new, token), Begin(w, op, a, new, to, token),
           UNCHANGED <<users, mails, spent>>,
           issued' \in Tokens, issued' >= issued,
           req[w].pc = "idle",
           proved' \subseteq Addresses \cup {None}, tangled' \subseteq Accounts
    PROVE  Tokened'
<1>1. PICK q : q = Begun(op, a, new, to, token)
  OBVIOUS
<1>2. req' = [req EXCEPT ![w] = q]
  BY <1>1 DEF Begin, Begun
<1>3. /\ q \in Locals /\ q.pc = "save" /\ q.acct = a /\ q.op = op /\ q.new = new
      /\ q.token = token /\ q.copy = IF a = None THEN Absent ELSE users[a]
  BY <1>1, BegunLocal DEF Begun, Tokened, Accounted
<1>4. \A v \in Requests : req'[v] = IF v = w THEN q ELSE req[v]
  BY <1>2 DEF Tokened, Accounted, TypeOK
<1>5. Accounted'
  BY BeginAccounted DEF Tokened
<1>6. issued \in Nat /\ issued' \in Nat /\ issued + 1 # 0
      /\ ~Stored(issued + 1) /\ ~Minted(issued + 1)
  BY NextIsNew, Null DEF Tokens
<1>7. \A c \in TokenColumns : ~Mints(req[w], c)
  BY DEF Mints
<1>8. \A c \in TokenColumns :
        Mints(q, c) => Tok(q.new, c) = issued + 1 /\ issued' = issued + 1
  BY <1>3 DEF Mints, Asked
<1>9. \A c, d \in TokenColumns : Mints(q, c) /\ Mints(q, d) => c = d
  BY <1>3, <1>8 DEF Asked
<1>10. \A v \in Requests \ {w} : \A c \in TokenColumns :
         Mints(req[v], c) => Tok(req[v].new, c) # issued + 1
  BY <1>6 DEF Minted
<1>11. \A t : Stored(t)' <=> Stored(t)
  BY DEF Stored
<1>12. ASSUME NEW t, Minted(t)'
       PROVE  Minted(t) \/ (t = issued + 1 /\ issued' = issued + 1)
  <2>1. PICK v \in Requests, c \in TokenColumns :
          Mints(req'[v], c) /\ Tok(req'[v].new, c) = t
    BY <1>12 DEF Minted, Mints
  <2>2. CASE v = w
    BY <2>1, <2>2, <1>4, <1>8
  <2>3. CASE v # w
    BY <2>1, <2>3, <1>4 DEF Minted
  <2> QED
    BY <2>2, <2>3
<1>13. OnePlace'
  <2>1. \A b, e \in Accounts : \A c, d \in TokenColumns :
          Tok(users'[b], c) # 0 /\ Tok(users'[b], c) = Tok(users'[e], d) =>
            b = e /\ c = d
    BY DEF Tokened, OnePlace
  <2>2. ASSUME NEW v \in Requests, NEW c \in TokenColumns, Mints(req'[v], c)
        PROVE  /\ ~Stored(Tok(req'[v].new, c))
               /\ \A u \in Requests : \A d \in TokenColumns :
                    Mints(req'[u], d) /\ Tok(req'[u].new, d) = Tok(req'[v].new, c)
                      => u = v /\ d = c
    <3>1. CASE v = w
      <4>1. Tok(req'[v].new, c) = issued + 1 /\ Mints(q, c)
        BY <3>1, <2>2, <1>4, <1>8
      <4>2. ASSUME NEW u \in Requests, NEW d \in TokenColumns,
                   Mints(req'[u], d), Tok(req'[u].new, d) = issued + 1
            PROVE  u = w /\ d = c
        <5>1. u = w
          BY <4>2, <1>4, <1>10
        <5> QED
          BY <5>1, <4>1, <4>2, <1>4, <1>9
      <4> QED
        BY <3>1, <4>1, <4>2, <1>6
    <3>2. CASE v # w
      <4>1. req'[v] = req[v] /\ Mints(req[v], c)
        BY <3>2, <2>2, <1>4
      <4>2. Tok(req[v].new, c) # issued + 1
        BY <3>2, <4>1, <1>10
      <4>3. ASSUME NEW u \in Requests, NEW d \in TokenColumns,
                   Mints(req'[u], d), Tok(req'[u].new, d) = Tok(req[v].new, c)
            PROVE  u = v /\ d = c
        <5>1. u # w
          BY <4>2, <4>3, <1>4, <1>8
        <5> QED
          BY <5>1, <4>1, <4>3, <1>4 DEF Tokened, OnePlace
      <4> QED
        BY <4>1, <4>3 DEF Tokened, OnePlace
    <3> QED
      BY <3>1, <3>2
  <2> QED
    BY <2>1, <2>2, <1>11 DEF OnePlace, Mints
<1>14. Issued'
  <2>1. \A b \in Accounts, c \in TokenColumns : Tok(users[b], c) \in Nat
    BY RowFields, Null DEF Tokened, Accounted, TypeOK, Tokens
  <2>2. \A b \in Accounts, c \in TokenColumns : Tok(users'[b], c) <= issued'
    BY <2>1, <1>6 DEF Tokened, Issued
  <2>3. ASSUME NEW v \in Requests, NEW c \in TokenColumns, Mints(req'[v], c)
        PROVE  Tok(req'[v].new, c) <= issued'
    <3>1. CASE v = w
      BY <3>1, <2>3, <1>4, <1>8, <1>6
    <3>2. CASE v # w
      <4>1. Tok(req[v].new, c) \in Nat
        BY LocalFields, RowFields, Null DEF Tokened, Accounted, Tokens
      <4> QED
        BY <4>1, <3>2, <2>3, <1>4, <1>6 DEF Tokened, Issued
    <3> QED
      BY <3>1, <3>2
  <2>4. \A t \in spent' : t <= issued'
    BY <1>6, Null DEF Tokened, Issued, Accounted, TypeOK, Tokens
  <2> QED
    BY <2>2, <2>3, <2>4 DEF Issued, Mints
<1>15. ASSUME NEW v \in Requests
       PROVE  Clearing(req[v])'
  <2>1. CASE v = w
    <3>1. req'[v] = q
      BY <2>1, <1>4
    <3>2. CASE op \in Using
      <4>1. /\ a \in Accounts /\ q.copy = users[a]
            /\ token # 0 /\ Tok(users[a], ColumnOf(op)) = token
            /\ Tok(new, ColumnOf(op)) = 0 /\ ColumnOf(op) \in TokenColumns
        BY <3>2, <1>3 DEF Asked, Using, ColumnOf, TokenColumns, Present
      <4>2. token <= issued /\ token \in Nat
        BY <4>1, RowFields, Null DEF Tokened, Issued, Accounted, TypeOK, Tokens
      <4>3. ~Minted(token)
        BY <4>1 DEF Tokened, OnePlace, Minted, Stored
      <4>4. ~Minted(token)'
        BY <4>2, <4>3, <1>6, <1>12
      <4>5. \A b \in Accounts, d \in TokenColumns :
              Tok(users[b], d) = token => b = a /\ d = ColumnOf(op)
        BY <4>1 DEF Tokened, OnePlace
      <4>6. token <= issued'
        BY <4>2, <1>6
      <4> QED
        BY <3>1, <4>1, <4>4, <4>5, <4>6, <1>3 DEF Clearing
    <3>3. CASE op \notin Using
      BY <3>1, <3>3, <1>3 DEF Clearing
    <3> QED
      BY <3>2, <3>3
  <2>2. CASE v # w
    <3>1. req'[v] = req[v] /\ Clearing(req[v])
      BY <2>2, <1>4 DEF Tokened
    <3>2. CASE req[v].pc = "save" /\ req[v].op \in Using
      <4>1. req[v].token \in Nat
        BY LocalFields, Null DEF Tokened, Accounted, Tokens
      <4>2. ~Minted(req[v].token)'
        <5>1. PICK t : t = req[v].token
          OBVIOUS
        <5>2. ~Minted(t) /\ t <= issued /\ t \in Nat
          BY <5>1, <4>1, <3>1, <3>2 DEF Clearing
        <5>3. ~Minted(t)'
          BY <5>2, <1>6, <1>12
        <5> QED
          BY <5>1, <5>3, <3>1
      <4>3. req[v].token <= issued'
        BY <4>1, <3>1, <3>2, <1>6 DEF Clearing
      <4> QED
        BY <3>1, <3>2, <4>2, <4>3 DEF Clearing
    <3>3. CASE ~(req[v].pc = "save" /\ req[v].op \in Using)
      BY <3>1, <3>3 DEF Clearing
    <3> QED
      BY <3>2, <3>3
  <2> QED
    BY <2>1, <2>2
<1>16. ASSUME NEW t \in spent'
       PROVE  t # 0 /\ ~Stored(t)' /\ ~Minted(t)'
  <2>1. t \in spent /\ t \in Nat /\ t <= issued /\ t # 0
        /\ ~Stored(t) /\ ~Minted(t)
    BY Null DEF Tokened, Issued, Accounted, TypeOK, Tokens
  <2> QED
    BY <2>1, <1>6, <1>11, <1>12
<1> QED
  BY <1>5, <1>13, <1>14, <1>15, <1>16 DEF Tokened

-----------------------------------------------------------------------------
(* A request ends without a save, or with its mail.                        *)

LEMMA EndTokened ==
    ASSUME Tokened, NEW w \in Requests, req' = [req EXCEPT ![w] = Idle],
           UNCHANGED <<users, issued, proved, spent, tangled>>,
           mails' \subseteq Mails, \A m \in mails' : m.token # 0
    PROVE  Tokened'
<1>1. \A v \in Requests : req'[v] = IF v = w THEN Idle ELSE req[v]
  BY DEF Tokened, Accounted, TypeOK
<1>2. TypeOK'
  BY IdleLocal DEF Tokened, Accounted, TypeOK
<1>3. \A v \in Requests, c \in TokenColumns :
        Mints(req'[v], c) => v # w /\ req'[v] = req[v] /\ Mints(req[v], c)
  BY <1>1, IdleLocal DEF Mints
<1>4. \A t : (Stored(t)' <=> Stored(t)) /\ (Minted(t)' => Minted(t))
  <2>1. \A t : Stored(t)' <=> Stored(t)
    BY DEF Stored
  <2>2. ASSUME NEW t, Minted(t)' PROVE Minted(t)
    <3>1. PICK v \in Requests, c \in TokenColumns :
            Mints(req'[v], c) /\ Tok(req'[v].new, c) = t
      BY <2>2 DEF Minted, Mints
    <3> QED
      BY <3>1, <1>3 DEF Minted
  <2> QED
    BY <2>1, <2>2
<1>5. ASSUME NEW v \in Requests
      PROVE  Grounded(req[v])' /\ Clearing(req[v])'
  <2>1. CASE v = w
    BY <2>1, <1>1, IdleLocal DEF Grounded, Clearing
  <2>2. CASE v # w
    <3>1. req'[v] = req[v] /\ Grounded(req[v]) /\ Clearing(req[v])
      BY <2>2, <1>1 DEF Tokened, Accounted
    <3>2. Grounded(req[v])'
      BY <3>1 DEF Grounded, Present
    <3>3. ~Minted(req[v].token) => ~Minted(req[v].token)'
      <4>1. PICK t : t = req[v].token
        OBVIOUS
      <4> QED
        BY <4>1, <3>1, <1>4
    <3>4. Clearing(req[v])'
      BY <3>1, <3>3 DEF Clearing
    <3> QED
      BY <3>2, <3>4
  <2> QED
    BY <2>1, <2>2
<1>6. NoClash' /\ (\A a \in Accounts : Owned(users[a]))'
  BY DEF Tokened, Accounted, NoClash, Owned
<1>7. OnePlace'
  <2>1. \A b, e \in Accounts : \A c, d \in TokenColumns :
          Tok(users'[b], c) # 0 /\ Tok(users'[b], c) = Tok(users'[e], d) =>
            b = e /\ c = d
    BY DEF Tokened, OnePlace
  <2>2. ASSUME NEW v \in Requests, NEW c \in TokenColumns, Mints(req'[v], c)
        PROVE  /\ ~Stored(Tok(req'[v].new, c))
               /\ \A u \in Requests : \A d \in TokenColumns :
                    Mints(req'[u], d) /\ Tok(req'[u].new, d) = Tok(req'[v].new, c)
                      => u = v /\ d = c
    BY <2>2, <1>3 DEF Tokened, OnePlace
  <2> QED
    BY <2>1, <2>2, <1>4 DEF OnePlace, Mints
<1>8. Issued'
  <2>1. \A v \in Requests, c \in TokenColumns :
          Mints(req'[v], c) => Tok(req'[v].new, c) <= issued
    BY <1>3 DEF Tokened, Issued
  <2> QED
    BY <2>1 DEF Tokened, Issued, Mints
<1>9. (\A t \in spent : t # 0 /\ ~Stored(t) /\ ~Minted(t))'
  BY <1>4 DEF Tokened
<1> QED
  BY <1>2, <1>5, <1>6, <1>7, <1>8, <1>9 DEF Tokened, Accounted

LEMMA FailTokened ==
    ASSUME Tokened, NEW w \in Requests, Fail(w)
    PROVE  Tokened'
<1>1. mails' \subseteq Mails /\ \A m \in mails' : m.token # 0
  BY DEF Fail, Tokened, Accounted, TypeOK
<1> QED
  BY <1>1, EndTokened DEF Fail

\* The link that a request mails.
LEMMA LinkFields ==
    ASSUME Accounted, NEW w \in Requests, req[w].pc = "mail",
           NEW l, l = Link(req[w])
    PROVE  l \in Mails
<1>1. PICK row : row = users[req[w].acct]
  OBVIOUS
<1>2. row \in Rows
  BY <1>1 DEF Accounted, Grounded, TypeOK, Present
<1>3. /\ row.ptoken \in Tokens /\ row.rtoken \in Tokens /\ row.vtoken \in Tokens
      /\ row.email \in Addresses \cup {None}
      /\ req[w].to \in Addresses \cup {None}
  BY <1>2, RowFields, LocalFields DEF Accounted
<1>4. CASE req[w].op = "change"
  <2>1. l = [kind |-> "change", token |-> row.ptoken, to |-> req[w].to]
    BY <1>1, <1>4 DEF Link
  <2> QED
    BY <2>1, <1>3 DEF Mails
<1>5. CASE req[w].op = "forgot"
  <2>1. l = [kind |-> "reset", token |-> row.rtoken, to |-> row.email]
    BY <1>1, <1>5 DEF Link
  <2> QED
    BY <2>1, <1>3 DEF Mails
<1>6. CASE req[w].op # "change" /\ req[w].op # "forgot"
  <2>1. l = [kind |-> "verify", token |-> row.vtoken, to |-> row.email]
    BY <1>1, <1>6 DEF Link
  <2> QED
    BY <2>1, <1>3 DEF Mails
<1> QED
  BY <1>4, <1>5, <1>6

LEMMA MailTokened ==
    ASSUME Tokened, NEW w \in Requests, Mail(w)
    PROVE  Tokened'
<1>1. PICK l : l = Link(req[w])
  OBVIOUS
<1>2. l \in Mails
  BY <1>1, LinkFields DEF Mail, Tokened
<1>3. mails' = IF l.token = 0 THEN mails ELSE mails \cup {l}
  BY <1>1 DEF Mail
<1>4. mails' \subseteq Mails /\ \A m \in mails' : m.token # 0
  BY <1>2, <1>3 DEF Tokened, Accounted, TypeOK
<1> QED
  BY <1>4, EndTokened DEF Mail

-----------------------------------------------------------------------------
(* A request saves.                                                        *)

\* Row k becomes row; the request q either is over or has a mail to send.
SavesAs(w, q, k, row) ==
    /\ q = req[w] /\ q.pc = "save" /\ k \in Accounts
    /\ row = IF q.acct = None THEN q.new ELSE Saved(users[k], q.copy, q.new)
    /\ IF q.acct = None THEN k \notin Present ELSE k = q.acct
    /\ Unique(k, row)
    /\ users' = [users EXCEPT ![k] = row]
    /\ spent' = IF q.op \in Using THEN spent \cup {q.token} ELSE spent
    /\ UNCHANGED <<issued, mails, proved, tangled>>

\* What a request is after its save.
After(q, k) == IF q.op \in Mailing
               THEN [Idle EXCEPT !.pc = "mail", !.op = q.op, !.acct = k, !.to = q.to]
               ELSE Idle

LEMMA SavePicks ==
    ASSUME NEW w \in Requests, Save(w)
    PROVE  \E q, k, row : SavesAs(w, q, k, row)
                             /\ req' = [req EXCEPT ![w] = After(q, k)]
<1>1. PICK q : q = req[w]
  OBVIOUS
<1>2. PICK k, row :
        /\ k \in Accounts
        /\ row = IF q.acct = None THEN q.new ELSE Saved(users[k], q.copy, q.new)
        /\ IF q.acct = None THEN k \notin Present ELSE k = q.acct
        /\ Unique(k, row)
        /\ users' = [users EXCEPT ![k] = row]
        /\ req' = [req EXCEPT ![w] =
                     IF q.op \in Mailing
                     THEN [Idle EXCEPT !.pc = "mail", !.op = q.op,
                                       !.acct = k, !.to = q.to]
                     ELSE Idle]
  BY <1>1 DEF Save
<1>3. q.pc = "save" /\ UNCHANGED <<issued, mails, proved, tangled>>
      /\ spent' = IF q.op \in Using THEN spent \cup {q.token} ELSE spent
  BY <1>1 DEF Save
<1> QED
  BY <1>1, <1>2, <1>3 DEF SavesAs, After

LEMMA AfterLocal ==
    ASSUME TypeOK, NEW w \in Requests, NEW k \in Accounts, NEW q, q = req[w],
           NEW p, p = After(q, k)
    PROVE  /\ p \in Locals /\ p.pc # "save"
           /\ p.pc = "mail" => p.acct = k
           /\ p.pc = "mail" => p.op = q.op /\ p.to = q.to
           /\ p.pc = "idle" \/ p.pc = "mail"
<1>1. CASE q.op \in Mailing
  <2>1. p = [pc |-> "mail", op |-> q.op, acct |-> k, copy |-> Absent,
             new |-> Absent, to |-> q.to, token |-> 0]
    BY <1>1 DEF After, Idle
  <2>2. q.op \in Ops /\ q.to \in Addresses \cup {None} /\ 0 \in Tokens
    BY LocalFields, Null DEF Tokens
  <2> QED
    BY <2>1, <2>2, AbsentRow DEF Locals
<1>2. CASE q.op \notin Mailing
  BY <1>2, IdleLocal DEF After
<1> QED
  BY <1>1, <1>2

\* What a save makes of the row.
LEMMA SavedFields ==
    ASSUME Accounted, NEW w \in Requests, NEW q, NEW k, NEW row, SavesAs(w, q, k, row)
    PROVE  /\ row \in Rows /\ row.email # None /\ row.password # None
           /\ \A c \in TokenColumns :
                \/ Tok(row, c) = Tok(users[k], c) \/ Tok(row, c) = 0
                \/ Mints(q, c) /\ Tok(row, c) = Tok(q.new, c)
           /\ \A c \in TokenColumns :
                Tok(q.copy, c) # 0 /\ Tok(q.new, c) = 0 => Tok(row, c) = 0
<1>1. /\ q.copy \in Rows /\ q.new \in Rows /\ users[k] \in Rows
      /\ Grounded(q) /\ q.pc = "save" /\ k \in Accounts
  BY LocalFields DEF SavesAs, Accounted, TypeOK
<1>2. CASE q.acct = None
  <2>1. row = q.new /\ q.copy = Absent
    BY <1>1, <1>2 DEF SavesAs, Grounded
  <2> QED
    BY <2>1, <1>1, AbsentRow DEF Grounded, Mints
<1>3. CASE q.acct # None
  <2>1. row = Saved(users[k], q.copy, q.new) /\ k = q.acct /\ k \in Present
    BY <1>1, <1>3 DEF SavesAs, Grounded
  <2>2. /\ row \in Rows
        /\ row.email = IF q.new.email = q.copy.email
                       THEN users[k].email ELSE q.new.email
        /\ row.password = IF q.new.password = q.copy.password
                          THEN users[k].password ELSE q.new.password
        /\ \A c \in TokenColumns :
             Tok(row, c) = IF Tok(q.new, c) = Tok(q.copy, c)
                           THEN Tok(users[k], c) ELSE Tok(q.new, c)
    BY <2>1, <1>1, SavedRow
  <2>3. row.email # None
    BY <2>1, <2>2, <1>1 DEF Grounded, Present
  <2>4. row.password # None
    BY <2>1, <2>2, <1>1, <1>3 DEF Grounded
  <2>5. \A c \in TokenColumns :
          \/ Tok(row, c) = Tok(users[k], c) \/ Tok(row, c) = 0
          \/ Mints(q, c) /\ Tok(row, c) = Tok(q.new, c)
    BY <2>2, <1>1 DEF Mints
  <2> QED
    BY <2>2, <2>3, <2>4, <2>5
<1> QED
  BY <1>2, <1>3

LEMMA SaveAccounted ==
    ASSUME Accounted, NEW w \in Requests, NEW q, NEW k, NEW row,
           SavesAs(w, q, k, row), req' = [req EXCEPT ![w] = After(q, k)]
    PROVE  Accounted'
<1>1. PICK p : p = After(q, k)
  OBVIOUS
<1>2. /\ q = req[w] /\ k \in Accounts /\ users' = [users EXCEPT ![k] = row]
      /\ UNCHANGED <<issued, mails, proved, tangled>>
  BY DEF SavesAs
<1>3. p \in Locals /\ p.pc # "save" /\ (p.pc = "mail" => p.acct = k)
      /\ (p.pc = "idle" \/ p.pc = "mail")
  BY <1>1, <1>2, AfterLocal DEF Accounted
<1>4. row \in Rows /\ row.email # None /\ row.password # None
  BY SavedFields
<1>5. \A b \in Accounts : users'[b] = IF b = k THEN row ELSE users[b]
  BY <1>2 DEF Accounted, TypeOK
<1>6. \A v \in Requests : req'[v] = IF v = w THEN p ELSE req[v]
  BY <1>1 DEF Accounted, TypeOK
<1>7. spent' \subseteq Tokens
  <2>1. q.token \in Tokens
    BY <1>2, LocalFields DEF Accounted
  <2> QED
    BY <2>1 DEF SavesAs, Accounted, TypeOK
<1>8. TypeOK'
  BY <1>1, <1>2, <1>3, <1>4, <1>7 DEF Accounted, TypeOK
<1>9. Present' = Present \cup {k}
  BY <1>2, <1>4, <1>5 DEF Present
<1>10. NoClash'
  <2>1. \A b \in Accounts \ {k} :
          /\ ~Clash(row.email, users[b].email)
          /\ ~Clash(row.phone, users[b].phone)
          /\ ~Clash(row.pending, users[b].pending)
    BY DEF SavesAs, Unique
  <2> SUFFICES ASSUME NEW a \in Accounts, NEW b \in Accounts, a # b
               PROVE  /\ ~Clash(users'[a].email, users'[b].email)
                      /\ ~Clash(users'[a].phone, users'[b].phone)
                      /\ ~Clash(users'[a].pending, users'[b].pending)
    BY DEF NoClash, Clash
  <2>2. CASE a = k
    BY <2>1, <2>2, <1>5
  <2>3. CASE b = k
    BY <2>1, <2>3, <1>5 DEF Clash
  <2>4. CASE a # k /\ b # k
    BY <2>4, <1>5 DEF Accounted, NoClash
  <2> QED
    BY <2>2, <2>3, <2>4
<1>11. \A b \in Accounts : Owned(users[b])'
  BY <1>4, <1>5 DEF Accounted, Owned
<1>12. ASSUME NEW v \in Requests PROVE Grounded(req[v])'
  <2>1. CASE v = w
    BY <2>1, <1>2, <1>3, <1>6, <1>9, Null DEF Grounded
  <2>2. CASE v # w
    <3>1. req'[v] = req[v] /\ Grounded(req[v])
      BY <2>2, <1>6 DEF Accounted
    <3>2. \A b \in Accounts : users[b].password # None => users'[b].password # None
      BY <1>4, <1>5
    <3>3. req[v].acct # None => req[v].acct \in Accounts
      BY LocalFields DEF Accounted
    <3> QED
      BY <3>1, <3>2, <3>3, <1>9 DEF Grounded
  <2> QED
    BY <2>1, <2>2
<1>13. (\A m \in mails : m.token # 0)'
  BY <1>2 DEF Accounted
<1> QED
  BY <1>8, <1>10, <1>11, <1>12, <1>13 DEF Accounted

LEMMA SaveTokened ==
    ASSUME Tokened, NEW w \in Requests, NEW q, NEW k, NEW row,
           SavesAs(w, q, k, row), req' = [req EXCEPT ![w] = After(q, k)]
    PROVE  Tokened'
<1>1. PICK p : p = After(q, k)
  OBVIOUS
<1>2. /\ q = req[w] /\ q.pc = "save" /\ k \in Accounts
      /\ users' = [users EXCEPT ![k] = row] /\ issued' = issued
      /\ spent' = IF q.op \in Using THEN spent \cup {q.token} ELSE spent
  BY DEF SavesAs
<1>3. p.pc # "save"
  BY <1>1, <1>2, AfterLocal DEF Tokened, Accounted
<1>4. /\ row \in Rows
      /\ \A c \in TokenColumns :
           \/ Tok(row, c) = Tok(users[k], c) \/ Tok(row, c) = 0
           \/ Mints(q, c) /\ Tok(row, c) = Tok(q.new, c)
      /\ \A c \in TokenColumns :
           Tok(q.copy, c) # 0 /\ Tok(q.new, c) = 0 => Tok(row, c) = 0
  BY SavedFields DEF Tokened
<1>5. \A b \in Accounts : users'[b] = IF b = k THEN row ELSE users[b]
  BY <1>2 DEF Tokened, Accounted, TypeOK
<1>6. \A v \in Requests : req'[v] = IF v = w THEN p ELSE req[v]
  BY <1>1 DEF Tokened, Accounted, TypeOK
<1>7. Accounted'
  BY SaveAccounted DEF Tokened
<1>8. \A v \in Requests, c \in TokenColumns :
        Mints(req'[v], c) => v # w /\ req'[v] = req[v] /\ Mints(req[v], c)
  BY <1>3, <1>6 DEF Mints
<1>9. \A c \in TokenColumns : Mints(q, c) =>
        /\ ~Stored(Tok(q.new, c)) /\ Minted(Tok(q.new, c))
        /\ \A v \in Requests : \A d \in TokenColumns :
             Mints(req[v], d) /\ Tok(req[v].new, d) = Tok(q.new, c) => v = w /\ d = c
  BY <1>2 DEF Tokened, OnePlace, Minted
\* Where a token of the table was before.
<1>10. ASSUME NEW b \in Accounts, NEW c \in TokenColumns, Tok(users'[b], c) # 0
       PROVE  \/ Tok(users'[b], c) = Tok(users[b], c)
              \/ b = k /\ Mints(q, c) /\ Tok(users'[b], c) = Tok(q.new, c)
  BY <1>10, <1>4, <1>5
<1>11. ASSUME NEW t, Minted(t)' PROVE Minted(t)
  <2>1. PICK v \in Requests, c \in TokenColumns :
          Mints(req'[v], c) /\ Tok(req'[v].new, c) = t
    BY <1>11 DEF Minted, Mints
  <2> QED
    BY <2>1, <1>8 DEF Minted
<1>12. ASSUME NEW t, Stored(t)', t # 0, ~Stored(t)
       PROVE  \E c \in TokenColumns : Mints(q, c) /\ t = Tok(q.new, c)
  <2>1. PICK b \in Accounts, c \in TokenColumns : Tok(users'[b], c) = t
    BY <1>12 DEF Stored
  <2>2. Tok(users[b], c) # t
    BY <1>12 DEF Stored
  <2> QED
    BY <2>1, <2>2, <1>10, <1>12
<1>13. OnePlace'
  <2>1. ASSUME NEW b \in Accounts, NEW e \in Accounts,
               NEW c \in TokenColumns, NEW d \in TokenColumns,
               Tok(users'[b], c) # 0, Tok(users'[b], c) = Tok(users'[e], d)
        PROVE  b = e /\ c = d
    <3>1. CASE Tok(users'[b], c) = Tok(users[b], c) /\ Tok(users'[e], d) = Tok(users[e], d)
      <4>1. Tok(users[b], c) # 0 /\ Tok(users[b], c) = Tok(users[e], d)
        BY <2>1, <3>1
      <4> QED
        BY <4>1 DEF Tokened, OnePlace
    <3>2. CASE b = k /\ Mints(q, c) /\ Tok(users'[b], c) = Tok(q.new, c)
      <4>1. ~Stored(Tok(users'[e], d))
        BY <2>1, <3>2, <1>9
      <4>2. e = k /\ Mints(q, d) /\ Tok(users'[e], d) = Tok(q.new, d)
        BY <4>1, <2>1, <1>10 DEF Stored
      <4> QED
        BY <4>2, <3>2, <2>1, <1>2, <1>9
    <3>3. CASE e = k /\ Mints(q, d) /\ Tok(users'[e], d) = Tok(q.new, d)
      <4>1. ~Stored(Tok(users'[b], c))
        BY <2>1, <3>3, <1>9
      <4>2. b = k /\ Mints(q, c) /\ Tok(users'[b], c) = Tok(q.new, c)
        BY <4>1, <2>1, <1>10 DEF Stored
      <4> QED
        BY <4>2, <3>3, <2>1, <1>2, <1>9
    <3> QED
      BY <3>1, <3>2, <3>3, <2>1, <1>10
  <2>2. ASSUME NEW v \in Requests, NEW c \in TokenColumns, Mints(req'[v], c)
        PROVE  /\ \A b \in Accounts, d \in TokenColumns :
                    Tok(users'[b], d) # Tok(req'[v].new, c)
               /\ \A u \in Requests : \A d \in TokenColumns :
                    Mints(req'[u], d) /\ Tok(req'[u].new, d) = Tok(req'[v].new, c)
                      => u = v /\ d = c
    <3>1. v # w /\ req'[v] = req[v] /\ Mints(req[v], c)
      BY <2>2, <1>8
    <3>2. PICK t : t = Tok(req[v].new, c)
      OBVIOUS
    <3>3. ~Stored(t) /\ t # 0
      BY <3>1, <3>2 DEF Tokened, OnePlace, Mints
    <3>4. \A d \in TokenColumns : ~(Mints(q, d) /\ t = Tok(q.new, d))
      BY <3>1, <3>2, <1>9
    <3>5. \A b \in Accounts, d \in TokenColumns : Tok(users'[b], d) # t
      BY <3>3, <3>4, <1>10 DEF Stored
    <3>6. \A u \in Requests : \A d \in TokenColumns :
            Mints(req'[u], d) /\ Tok(req'[u].new, d) = t => u = v /\ d = c
      BY <3>1, <3>2, <1>8 DEF Tokened, OnePlace
    <3>7. Tok(req'[v].new, c) = t
      BY <3>1, <3>2
    <3> QED
      BY <3>5, <3>6, <3>7
  <2> QED
    BY <2>1, <2>2 DEF OnePlace, Mints, Stored
<1>14. Issued'
  <2>1. issued \in Nat
    BY Null DEF Tokened, Accounted, TypeOK, Tokens
  <2>2. ASSUME NEW b \in Accounts, NEW c \in TokenColumns
        PROVE  Tok(users'[b], c) <= issued
    <3>1. CASE Tok(users'[b], c) = 0
      BY <2>1, <3>1
    <3>2. CASE Tok(users'[b], c) = Tok(users[b], c)
      BY <3>2 DEF Tokened, Issued
    <3>3. CASE Mints(q, c) /\ Tok(users'[b], c) = Tok(q.new, c)
      BY <3>3, <1>2 DEF Tokened, Issued
    <3> QED
      BY <3>1, <3>2, <3>3, <1>10
  <2>3. \A v \in Requests, c \in TokenColumns :
          Mints(req'[v], c) => Tok(req'[v].new, c) <= issued
    BY <1>8 DEF Tokened, Issued
  <2>4. \A t \in spent' : t <= issued
    BY <1>2 DEF Tokened, Issued, Clearing
  <2> QED
    BY <2>2, <2>3, <2>4, <1>2 DEF Issued, Mints
<1>15. ASSUME NEW v \in Requests
       PROVE  Clearing(req[v])'
  <2>1. CASE v = w
    BY <2>1, <1>3, <1>6 DEF Clearing
  <2>2. CASE v # w
    <3>1. req'[v] = req[v] /\ Clearing(req[v])
      BY <2>2, <1>6 DEF Tokened
    <3>2. CASE req[v].pc = "save" /\ req[v].op \in Using
      <4>1. PICK t : t = req[v].token
        OBVIOUS
      <4>2. /\ t # 0 /\ ~Minted(t) /\ t <= issued
            /\ \A b \in Accounts, d \in TokenColumns : Tok(users[b], d) = t =>
                 b = req[v].acct /\ d = ColumnOf(req[v].op)
        BY <3>1, <3>2, <4>1 DEF Clearing
      <4>3. ~Minted(t)'
        BY <4>2, <1>11
      <4>4. \A b \in Accounts, d \in TokenColumns : Tok(users'[b], d) = t =>
              b = req[v].acct /\ d = ColumnOf(req[v].op)
        BY <4>2, <1>9, <1>10
      <4>5. ~Minted(req[v].token)'
        BY <4>1, <4>3, <3>1
      <4> QED
        BY <3>1, <3>2, <4>1, <4>2, <4>4, <4>5, <1>2 DEF Clearing
    <3>3. CASE ~(req[v].pc = "save" /\ req[v].op \in Using)
      BY <3>1, <3>3 DEF Clearing
    <3> QED
      BY <3>2, <3>3
  <2> QED
    BY <2>1, <2>2
<1>16. ASSUME NEW t \in spent'
       PROVE  t # 0 /\ ~Stored(t)' /\ ~Minted(t)'
  <2>1. CASE t \in spent
    <3>1. t # 0 /\ ~Stored(t) /\ ~Minted(t)
      BY <2>1 DEF Tokened
    <3> QED
      BY <3>1, <1>9, <1>11, <1>12
  <2>2. CASE q.op \in Using /\ t = q.token
    <3>1. /\ t # 0 /\ ~Minted(t)
          /\ Tok(q.copy, ColumnOf(q.op)) = t /\ Tok(q.new, ColumnOf(q.op)) = 0
          /\ \A b \in Accounts, d \in TokenColumns :
               Tok(users[b], d) = t => b = q.acct /\ d = ColumnOf(q.op)
      BY <2>2, <1>2 DEF Tokened, Clearing
    <3>2. ColumnOf(q.op) \in TokenColumns
      BY DEF ColumnOf, TokenColumns
    <3>3. Tok(row, ColumnOf(q.op)) = 0
      BY <3>1, <3>2, <1>4
    <3>4. q.acct # None
      BY <1>2, <2>2 DEF Tokened, Accounted, Grounded, Using
    <3>5. k = q.acct
      BY <3>4 DEF SavesAs
    <3>6. ASSUME NEW b \in Accounts, NEW c \in TokenColumns, Tok(users'[b], c) = t
          PROVE  FALSE
      <4>1. Tok(users[b], c) = t
        BY <3>6, <3>1, <1>9, <1>10
      <4>2. b = k /\ c = ColumnOf(q.op)
        BY <4>1, <3>1, <3>5
      <4> QED
        BY <4>2, <3>1, <3>3, <3>6, <1>5
    <3>7. ~Stored(t)'
      BY <3>6 DEF Stored
    <3> QED
      BY <3>1, <3>7, <1>11
  <2> QED
    BY <2>1, <2>2, <1>2
<1> QED
  BY <1>7, <1>13, <1>14, <1>15, <1>16 DEF Tokened
-----------------------------------------------------------------------------
(* Each handler asks for such a save.                                      *)

LEMMA PresentRow ==
    ASSUME Accounted, NEW a \in Present
    PROVE  /\ a \in Accounts /\ a # None
           /\ users[a] \in Rows /\ users[a].email # None /\ Owned(users[a])
BY Null DEF Accounted, TypeOK, Present

LEMMA MailFields ==
    ASSUME Accounted, NEW m \in mails
    PROVE  m.token \in Tokens /\ m.token # 0 /\ m.to \in Addresses \cup {None}
BY DEF Accounted, TypeOK, Mails

\* proved stays a set of addresses.
LEMMA Typed ==
    ASSUME Accounted
    PROVE  /\ issued \in Tokens /\ issued \in Nat /\ issued >= issued
           /\ proved \subseteq Addresses \cup {None} /\ tangled \subseteq Accounts
           /\ 0 \in Tokens
BY Null DEF Accounted, TypeOK, Tokens

LEMMA Generated ==
    ASSUME Accounted, Generate
    PROVE  /\ issued' = issued + 1 /\ issued' \in Tokens /\ issued' >= issued
           /\ Fresh = issued + 1 /\ Fresh # 0
BY Typed, Null DEF Generate, Fresh, Tokens

\* A handler that keeps or clears the tokens of its row, but for a new one in
\* the column col.
LEMMA AskedOfRow ==
    ASSUME Tokened, NEW a \in Present, NEW op \in Ops, NEW new \in Rows,
           NEW token \in Tokens, NEW col,
           new.email # None, new.password # None,
           \A c \in TokenColumns :
             \/ Tok(new, c) = 0 \/ Tok(new, c) = Tok(users[a], c)
             \/ c = col /\ Tok(new, c) = issued + 1 /\ issued' = issued + 1,
           op \in Using => /\ token # 0 /\ Tok(users[a], ColumnOf(op)) = token
                          /\ Tok(new, ColumnOf(op)) = 0
    PROVE  Asked(op, a, new, token)
<1>1. a \in Accounts /\ a # None
  BY PresentRow DEF Tokened
<1>2. \A c \in TokenColumns : Tok(users[a], c) <= issued /\ Tok(users[a], c) \in Nat
  BY <1>1, RowFields, Null DEF Tokened, Issued, Accounted, TypeOK, Tokens
<1>3. issued \in Nat
  BY Typed DEF Tokened
<1>4. \A c \in TokenColumns : Tok(new, c) = issued + 1 => c = col
  BY <1>2, <1>3
<1>5. \A c \in TokenColumns :
        \/ Tok(new, c) = 0 \/ Tok(new, c) = Tok(users[a], c)
        \/ Tok(new, c) = issued + 1 /\ issued' = issued + 1
  OBVIOUS
<1> QED
  BY <1>1, <1>4, <1>5 DEF Asked

LEMMA VerifyTokened ==
    ASSUME Tokened, NEW w \in Requests, NEW m \in mails, VerifyEmail(w, m)
    PROVE  Tokened'
<1>1. PICK a \in Present :
        /\ users[a].vtoken = m.token
        /\ Begin(w, "verify", a,
                 [users[a] EXCEPT !.verified = TRUE, !.vtoken = 0], None, m.token)
  BY DEF VerifyEmail
<1>2. PICK old, new : old = users[a]
                   /\ new = [old EXCEPT !.verified = TRUE, !.vtoken = 0]
  OBVIOUS
<1>3. /\ a \in Accounts /\ a # None /\ old \in Rows /\ old.email # None
      /\ old.vtoken = m.token /\ Owned(old) /\ 0 \in Tokens
      /\ m.token \in Tokens /\ m.token # 0 /\ m.to \in Addresses \cup {None}
  BY <1>1, <1>2, PresentRow, MailFields, Typed DEF Tokened
<1>4. /\ new \in Rows /\ new.email = old.email /\ new.password = old.password
      /\ new.vtoken = 0 /\ new.rtoken = old.rtoken /\ new.ptoken = old.ptoken
  BY <1>2, <1>3 DEF Rows
<1>5. new.email # None /\ new.password # None
  BY <1>3, <1>4 DEF Owned
<1>6. /\ Tok(new, "v") = 0 /\ Tok(users[a], "v") = m.token
      /\ \A c \in TokenColumns : Tok(new, c) = 0 \/ Tok(new, c) = Tok(users[a], c)
  BY <1>2, <1>3, <1>4 DEF Tok, TokenColumns
<1>7. Asked("verify", a, new, m.token)
  BY <1>3, <1>4, <1>5, <1>6, AskedOfRow DEF ColumnOf, Ops, Using
<1>8. proved' \subseteq Addresses \cup {None} /\ tangled' \subseteq Accounts
      /\ issued' \in Tokens /\ issued' >= issued
  BY <1>3, Typed DEF VerifyEmail, Tokened
<1>9. Begin(w, "verify", a, new, None, m.token)
  BY <1>1, <1>2
<1> QED
  BY <1>3, <1>7, <1>8, <1>9, BeginTokened DEF VerifyEmail

LEMMA ResendTokened ==
    ASSUME Tokened, NEW w \in Requests, NEW a \in Accounts, ResendVerification(w, a)
    PROVE  Tokened'
<1>1. PICK old : old = users[a]
  OBVIOUS
<1>2. /\ a \in Present /\ a # None /\ old \in Rows /\ old.email # None
      /\ old.password # None /\ 0 \in Tokens
      /\ proved' \subseteq Addresses \cup {None} /\ tangled' \subseteq Accounts
  BY <1>1, PresentRow, Typed DEF ResendVerification, Tokened
<1>3. CASE Generate /\ Begin(w, "resend", a,
                             [users[a] EXCEPT !.vtoken = Fresh], None, 0)
  <2>1. PICK new : new = [old EXCEPT !.vtoken = Fresh]
    OBVIOUS
  <2>2. Fresh = issued + 1 /\ issued' = issued + 1 /\ issued' \in Tokens
        /\ issued' >= issued
    BY <1>3, Generated DEF Tokened
  <2>3. /\ new \in Rows /\ new.email = old.email /\ new.password = old.password
        /\ new.vtoken = Fresh /\ new.rtoken = old.rtoken /\ new.ptoken = old.ptoken
    BY <1>2, <2>1, <2>2 DEF Rows
  <2>4. \A c \in TokenColumns :
          Tok(new, c) = Tok(users[a], c) \/ (c = "v" /\ Tok(new, c) = issued + 1)
    BY <1>1, <2>2, <2>3 DEF Tok, TokenColumns
  <2>5. Asked("resend", a, new, 0)
    BY <1>2, <2>2, <2>3, <2>4, AskedOfRow DEF Ops, Mailing, Using
  <2>6. Begin(w, "resend", a, new, None, 0)
    BY <1>1, <1>3, <2>1
  <2> QED
    BY <1>2, <2>2, <2>5, <2>6, BeginTokened DEF ResendVerification
<1>4. CASE Begin(w, "resend", a, users[a], None, 0) /\ UNCHANGED issued
  <2>1. Asked("resend", a, users[a], 0)
    BY <1>1, <1>2, AskedOfRow DEF Ops, Mailing, Using
  <2>2. issued' \in Tokens /\ issued' >= issued
    BY <1>4, Typed DEF Tokened
  <2> QED
    BY <1>2, <1>4, <2>1, <2>2, BeginTokened DEF ResendVerification
<1> QED
  BY <1>3, <1>4 DEF ResendVerification

LEMMA ForgotTokened ==
    ASSUME Tokened, NEW w \in Requests, NEW a \in Accounts, ForgotPassword(w, a)
    PROVE  Tokened'
<1>1. PICK old, new : old = users[a] /\ new = [old EXCEPT !.rtoken = Fresh]
  OBVIOUS
<1>2. /\ a \in Present /\ a # None /\ old \in Rows /\ old.email # None
      /\ old.password # None /\ 0 \in Tokens
      /\ proved' \subseteq Addresses \cup {None} /\ tangled' \subseteq Accounts
  BY <1>1, PresentRow, Typed DEF ForgotPassword, Tokened
<1>3. Fresh = issued + 1 /\ issued' = issued + 1 /\ issued' \in Tokens
      /\ issued' >= issued
  BY Generated DEF ForgotPassword, Tokened
<1>4. /\ new \in Rows /\ new.email = old.email /\ new.password = old.password
      /\ new.vtoken = old.vtoken /\ new.rtoken = Fresh /\ new.ptoken = old.ptoken
  BY <1>1, <1>2, <1>3 DEF Rows
<1>5. \A c \in TokenColumns :
        Tok(new, c) = Tok(users[a], c) \/ (c = "r" /\ Tok(new, c) = issued + 1)
  BY <1>1, <1>3, <1>4 DEF Tok, TokenColumns
<1>6. Asked("forgot", a, new, 0)
  BY <1>2, <1>3, <1>4, <1>5, AskedOfRow DEF Ops, Mailing, Using
<1>7. Begin(w, "forgot", a, new, None, 0)
  BY <1>1 DEF ForgotPassword
<1> QED
  BY <1>2, <1>3, <1>6, <1>7, BeginTokened DEF ForgotPassword

LEMMA ResetTokened ==
    ASSUME Tokened, NEW w \in Requests, NEW m \in mails,
           NEW secret \in Passwords, ResetPassword(w, m, secret)
    PROVE  Tokened'
<1>1. PICK a \in Present :
        /\ users[a].rtoken = m.token
        /\ Begin(w, "reset", a,
                 [users[a] EXCEPT !.password = secret, !.rtoken = 0], None, m.token)
  BY DEF ResetPassword
<1>2. PICK old, new : old = users[a]
                   /\ new = [old EXCEPT !.password = secret, !.rtoken = 0]
  OBVIOUS
<1>3. /\ a \in Accounts /\ a # None /\ old \in Rows /\ old.email # None
      /\ old.rtoken = m.token /\ 0 \in Tokens
      /\ m.token \in Tokens /\ m.token # 0 /\ secret # None
  BY <1>1, <1>2, PresentRow, MailFields, Typed, Null DEF Tokened
<1>4. /\ new \in Rows /\ new.email = old.email /\ new.password = secret
      /\ new.vtoken = old.vtoken /\ new.rtoken = 0 /\ new.ptoken = old.ptoken
  BY <1>2, <1>3 DEF Rows
<1>5. /\ Tok(new, "r") = 0 /\ Tok(users[a], "r") = m.token
      /\ \A c \in TokenColumns : Tok(new, c) = 0 \/ Tok(new, c) = Tok(users[a], c)
  BY <1>2, <1>3, <1>4 DEF Tok, TokenColumns
<1>6. Asked("reset", a, new, m.token)
  BY <1>3, <1>4, <1>5, AskedOfRow DEF ColumnOf, Ops, Using
<1>7. proved' \subseteq Addresses \cup {None} /\ tangled' \subseteq Accounts
      /\ issued' \in Tokens /\ issued' >= issued
  BY Typed DEF ResetPassword, Tokened
<1>8. Begin(w, "reset", a, new, None, m.token)
  BY <1>1, <1>2
<1> QED
  BY <1>3, <1>6, <1>7, <1>8, BeginTokened DEF ResetPassword

LEMMA ConfirmTokened ==
    ASSUME Tokened, NEW w \in Requests, NEW m \in mails, ConfirmEmailChange(w, m)
    PROVE  Tokened'
<1>1. PICK a \in Present :
        /\ users[a].ptoken = m.token /\ users[a].pending # None
        /\ Begin(w, "confirm", a,
                 [users[a] EXCEPT !.email = users[a].pending, !.verified = TRUE,
                                  !.pending = None, !.ptoken = 0], None, m.token)
  BY DEF ConfirmEmailChange
<1>2. PICK old, new : /\ old = users[a]
                      /\ new = [old EXCEPT !.email = old.pending, !.verified = TRUE,
                                           !.pending = None, !.ptoken = 0]
  OBVIOUS
<1>3. /\ a \in Accounts /\ a # None /\ old \in Rows /\ old.pending # None
      /\ old.ptoken = m.token /\ Owned(old) /\ 0 \in Tokens
      /\ m.token \in Tokens /\ m.token # 0 /\ m.to \in Addresses \cup {None}
  BY <1>1, <1>2, PresentRow, MailFields, Typed DEF Tokened
<1>4. /\ new \in Rows /\ new.email = old.pending /\ new.password = old.password
      /\ new.vtoken = old.vtoken /\ new.rtoken = old.rtoken /\ new.ptoken = 0
  BY <1>2, <1>3 DEF Rows
<1>5. new.email # None /\ new.password # None
  BY <1>3, <1>4 DEF Owned
<1>6. /\ Tok(new, "p") = 0 /\ Tok(users[a], "p") = m.token
      /\ \A c \in TokenColumns : Tok(new, c) = 0 \/ Tok(new, c) = Tok(users[a], c)
  BY <1>2, <1>3, <1>4 DEF Tok, TokenColumns
<1>7. Asked("confirm", a, new, m.token)
  BY <1>3, <1>4, <1>5, <1>6, AskedOfRow DEF ColumnOf, Ops, Using
<1>8. proved' \subseteq Addresses \cup {None} /\ tangled' \subseteq Accounts
      /\ issued' \in Tokens /\ issued' >= issued
  BY <1>3, Typed DEF ConfirmEmailChange, Tokened
<1>9. Begin(w, "confirm", a, new, None, m.token)
  BY <1>1, <1>2
<1> QED
  BY <1>3, <1>7, <1>8, <1>9, BeginTokened DEF ConfirmEmailChange

LEMMA PasswordTokened ==
    ASSUME Tokened, NEW w \in Requests, NEW a \in Accounts,
           NEW secret \in Passwords, ChangePassword(w, a, secret)
    PROVE  Tokened'
<1>1. PICK old, new : old = users[a] /\ new = [old EXCEPT !.password = secret]
  OBVIOUS
<1>2. /\ a \in Present /\ a # None /\ old \in Rows /\ old.email # None
      /\ secret # None /\ 0 \in Tokens /\ req[w].pc = "idle"
      /\ proved' \subseteq Addresses \cup {None} /\ tangled' \subseteq Accounts
      /\ issued' \in Tokens /\ issued' >= issued
  BY <1>1, PresentRow, Typed, Null DEF ChangePassword, SignedIn, Tokened
<1>3. /\ new \in Rows /\ new.email = old.email /\ new.password = secret
      /\ new.vtoken = old.vtoken /\ new.rtoken = old.rtoken /\ new.ptoken = old.ptoken
  BY <1>1, <1>2 DEF Rows
<1>4. \A c \in TokenColumns : Tok(new, c) = Tok(users[a], c)
  BY <1>1, <1>3 DEF Tok
<1>5. Asked("password", a, new, 0)
  BY <1>2, <1>3, <1>4, AskedOfRow DEF Ops, Mailing, Using
<1>6. Begin(w, "password", a, new, None, 0)
  BY <1>1 DEF ChangePassword
<1> QED
  BY <1>2, <1>5, <1>6, BeginTokened DEF ChangePassword

LEMMA PhoneTokened ==
    ASSUME Tokened, NEW w \in Requests, NEW a \in Accounts, NEW p \in Phones,
           ChangePhone(w, a, p)
    PROVE  Tokened'
<1>1. PICK old, new : old = users[a] /\ new = [old EXCEPT !.phone = p]
  OBVIOUS
<1>2. /\ a \in Present /\ a # None /\ old \in Rows /\ old.email # None
      /\ old.password # None /\ 0 \in Tokens /\ req[w].pc = "idle"
      /\ proved' \subseteq Addresses \cup {None} /\ tangled' \subseteq Accounts
      /\ issued' \in Tokens /\ issued' >= issued
  BY <1>1, PresentRow, Typed DEF ChangePhone, SignedIn, Tokened
<1>3. /\ new \in Rows /\ new.email = old.email /\ new.password = old.password
      /\ new.vtoken = old.vtoken /\ new.rtoken = old.rtoken /\ new.ptoken = old.ptoken
  BY <1>1, <1>2 DEF Rows
<1>4. \A c \in TokenColumns : Tok(new, c) = Tok(users[a], c)
  BY <1>1, <1>3 DEF Tok
<1>5. Asked("phone", a, new, 0)
  BY <1>2, <1>3, <1>4, AskedOfRow DEF Ops, Mailing, Using
<1>6. Begin(w, "phone", a, new, None, 0)
  BY <1>1 DEF ChangePhone
<1> QED
  BY <1>2, <1>5, <1>6, BeginTokened DEF ChangePhone

LEMMA ChangeTokened ==
    ASSUME Tokened, NEW w \in Requests, NEW a \in Accounts, NEW e \in Addresses,
           RequestEmailChange(w, a, e)
    PROVE  Tokened'
<1>1. PICK old, new : old = users[a]
                   /\ new = [old EXCEPT !.pending = e, !.ptoken = Fresh]
  OBVIOUS
<1>2. /\ a \in Present /\ a # None /\ old \in Rows /\ old.email # None
      /\ old.password # None /\ 0 \in Tokens /\ req[w].pc = "idle"
      /\ proved' \subseteq Addresses \cup {None} /\ tangled \subseteq Accounts
  BY <1>1, PresentRow, Typed DEF RequestEmailChange, SignedIn, Tokened
<1>3. tangled' \subseteq Accounts
  BY <1>2 DEF RequestEmailChange
<1>4. Fresh = issued + 1 /\ issued' = issued + 1 /\ issued' \in Tokens
      /\ issued' >= issued
  BY Generated DEF RequestEmailChange, Tokened
<1>5. /\ new \in Rows /\ new.email = old.email /\ new.password = old.password
      /\ new.vtoken = old.vtoken /\ new.rtoken = old.rtoken /\ new.ptoken = Fresh
  BY <1>1, <1>2, <1>4 DEF Rows
<1>6. \A c \in TokenColumns :
        Tok(new, c) = Tok(users[a], c) \/ (c = "p" /\ Tok(new, c) = issued + 1)
  BY <1>1, <1>4, <1>5 DEF Tok, TokenColumns
<1>7. Asked("change", a, new, 0)
  BY <1>2, <1>4, <1>5, <1>6, AskedOfRow DEF Ops, Mailing, Using
<1>8. Begin(w, "change", a, new, e, 0)
  BY <1>1 DEF RequestEmailChange
<1> QED
  BY <1>2, <1>3, <1>4, <1>7, <1>8, BeginTokened DEF RequestEmailChange

LEMMA RegisterTokened ==
    ASSUME Tokened, NEW w \in Requests, NEW e \in Addresses, NEW p \in Phones,
           NEW secret \in Passwords, Register(w, e, p, secret)
    PROVE  Tokened'
<1>1. PICK new : new = [Absent EXCEPT !.email = e, !.phone = p, !.password = secret,
                                      !.vtoken = Fresh]
  OBVIOUS
<1>2. PICK a : a = IF WithEmail(e) = {} THEN None
                   ELSE CHOOSE b \in WithEmail(e) : TRUE
  OBVIOUS
<1>3. Begin(w, "register", a, new, e, 0)
  BY <1>1, <1>2 DEF Register
<1>4. a = None \/ a \in Present
  BY <1>2 DEF WithEmail
<1>5. /\ e # None /\ secret # None /\ 0 \in Tokens /\ req[w].pc = "idle"
      /\ proved' \subseteq Addresses \cup {None} /\ tangled' \subseteq Accounts
  BY Typed, Null DEF Register, Tokened
<1>6. Fresh = issued + 1 /\ issued' = issued + 1 /\ issued' \in Tokens
      /\ issued' >= issued
  BY Generated DEF Register, Tokened
<1>7. /\ new \in Rows /\ new.verified = FALSE
      /\ new.email = e /\ new.password = secret
      /\ new.vtoken = Fresh /\ new.rtoken = 0 /\ new.ptoken = 0
  BY <1>1, <1>5, <1>6 DEF Rows, Absent
<1>8. \A c \in TokenColumns :
        Tok(new, c) = 0 \/ (c = "v" /\ Tok(new, c) = issued + 1)
  BY <1>6, <1>7 DEF Tok, TokenColumns
<1>9. "register" \in Ops /\ "register" \notin Using
  BY DEF Ops, Mailing, Using
<1>10. CASE a = None
  <2>1. issued + 1 # 0
    BY Typed DEF Tokened
  <2>2. \A c, d \in TokenColumns :
          Tok(new, c) = issued + 1 /\ Tok(new, d) = issued + 1 => c = d
    BY <1>8, <2>1
  <2>3. Asked("register", a, new, 0)
    BY <1>5, <1>6, <1>7, <1>8, <1>9, <1>10, <2>2 DEF Asked
  <2> QED
    BY <1>3, <1>5, <1>6, <1>10, <2>3, BeginTokened DEF Register
<1>11. CASE a \in Present
  <2>1. Asked("register", a, new, 0)
    BY <1>5, <1>6, <1>7, <1>8, <1>9, <1>11, AskedOfRow
  <2> QED
    BY <1>3, <1>5, <1>6, <1>11, <2>1, PresentRow, BeginTokened DEF Register, Tokened
<1> QED
  BY <1>4, <1>10, <1>11

-----------------------------------------------------------------------------
(* The theorems.                                                           *)

LEMMA InitTokened == Init => Tokened
<1> SUFFICES ASSUME Init PROVE Tokened
  OBVIOUS
<1>0. /\ issued = 0 /\ mails = {} /\ req = [w \in Requests |-> Idle]
      /\ spent = {} /\ tangled = {}
  BY Zenon DEF Init
<1>1. PICK f \in [Accounts -> Addresses], g \in [Accounts -> Phones] :
        /\ \A a, b \in Existing \cup Legacy : a # b => f[a] # f[b] /\ g[a] # g[b]
        /\ users = [a \in Accounts |->
             IF a \in Existing
             THEN [Absent EXCEPT !.email = f[a], !.phone = g[a],
                                 !.password = CHOOSE p \in Passwords : TRUE,
                                 !.verified = TRUE]
             ELSE IF a \in Legacy
             THEN [Absent EXCEPT !.email = f[a], !.phone = g[a]] ELSE Absent]
        /\ proved = {f[a] : a \in Existing}
  BY DEF Init
<1>2. PICK secret \in Passwords : secret = CHOOSE p \in Passwords : TRUE
  BY Null
<1>3. 0 \in Tokens
  BY Null DEF Tokens
<1>4. ASSUME NEW a \in Accounts
      PROVE  /\ users[a] \in Rows
             /\ users[a].vtoken = 0 /\ users[a].rtoken = 0 /\ users[a].ptoken = 0
             /\ users[a].pending = None
             /\ users[a].email = IF a \in Existing \cup Legacy THEN f[a] ELSE None
             /\ users[a].phone = IF a \in Existing \cup Legacy THEN g[a] ELSE None
             /\ users[a].verified =>
                  users[a].email # None /\ users[a].password # None
  <2>1. CASE a \in Existing
    <3>1. users[a] = [Absent EXCEPT !.email = f[a], !.phone = g[a],
                                    !.password = secret, !.verified = TRUE]
      BY <1>1, <1>2, <2>1
    <3>2. f[a] \in Addresses /\ g[a] \in Phones /\ f[a] # None /\ secret # None
      BY <1>1, Null
    <3> QED
      BY <1>3, <2>1, <3>1, <3>2 DEF Absent, Rows
  <2>2. CASE a \in Legacy \ Existing
    <3>1. users[a] = [Absent EXCEPT !.email = f[a], !.phone = g[a]]
      BY <1>1, <2>2
    <3> QED
      BY <1>1, <1>3, <2>2, <3>1 DEF Absent, Rows
  <2>3. CASE a \notin Existing \cup Legacy
    <3>1. users[a] = Absent
      BY <1>1, <2>3
    <3> QED
      BY <2>3, <3>1, AbsentRow
  <2> QED
    BY <2>1, <2>2, <2>3
<1>5. \A w \in Requests : req[w] = Idle
  BY <1>0
<1>6. TypeOK
  <2>1. users \in [Accounts -> Rows]
    <3>1. \A a \in Accounts : users[a] \in Rows
      BY <1>4
    <3> QED
      BY <1>1, <3>1
  <2>2. proved \subseteq Addresses \cup {None}
    BY <1>1, AccountAssumption
  <2> QED
    BY <2>1, <2>2, <1>0, <1>3, IdleLocal DEF TypeOK
<1>7. NoClash
  <2> SUFFICES ASSUME NEW a \in Accounts, NEW b \in Accounts, a # b
               PROVE  /\ ~Clash(users[a].email, users[b].email)
                      /\ ~Clash(users[a].phone, users[b].phone)
                      /\ ~Clash(users[a].pending, users[b].pending)
    BY DEF NoClash
  <2>1. CASE a \in Existing \cup Legacy /\ b \in Existing \cup Legacy
    <3>1. f[a] # f[b] /\ g[a] # g[b]
      BY <1>1, <2>1
    <3> QED
      BY <1>4, <2>1, <3>1 DEF Clash
  <2>2. CASE ~(a \in Existing \cup Legacy /\ b \in Existing \cup Legacy)
    BY <1>4, <2>2 DEF Clash
  <2> QED
    BY <2>1, <2>2
<1>8. \A a \in Accounts, c \in TokenColumns : Tok(users[a], c) = 0
  BY <1>4 DEF Tok
<1>9. \A w \in Requests : Grounded(req[w]) /\ Clearing(req[w])
        /\ \A c \in TokenColumns : ~Mints(req[w], c)
  BY <1>5, IdleLocal DEF Grounded, Clearing, Mints
<1>10. Accounted
  BY <1>0, <1>4, <1>6, <1>7, <1>9 DEF Accounted, Owned
<1>11. OnePlace
  BY <1>8, <1>9 DEF OnePlace
<1>12. Issued
  BY <1>0, <1>8, <1>9 DEF Issued
<1> QED
  BY <1>0, <1>9, <1>10, <1>11, <1>12 DEF Tokened

LEMMA StepTokened == Tokened /\ [Next]_vars => Tokened'
<1> SUFFICES ASSUME Tokened, [Next]_vars PROVE Tokened'
  OBVIOUS
<1>1. CASE UNCHANGED vars
  BY <1>1
  DEF vars, Tokened, Accounted, TypeOK, NoClash, Owned, Grounded, Present, OnePlace,
      Issued, Clearing, Stored, Minted, Mints
<1>2. CASE Next
  <2>1. PICK w \in Requests :
          \/ \E e \in Addresses, p \in Phones, secret \in Passwords :
               Register(w, e, p, secret)
          \/ \E m \in mails : VerifyEmail(w, m) \/ ConfirmEmailChange(w, m)
          \/ \E m \in mails, secret \in Passwords : ResetPassword(w, m, secret)
          \/ \E a \in Accounts : ResendVerification(w, a) \/ ForgotPassword(w, a)
          \/ \E a \in Accounts, secret \in Passwords : ChangePassword(w, a, secret)
          \/ \E a \in Accounts, e \in Addresses : RequestEmailChange(w, a, e)
          \/ \E a \in Accounts, p \in Phones : ChangePhone(w, a, p)
          \/ Save(w) \/ Mail(w) \/ Fail(w)
    BY <1>2 DEF Next
  <2>2. CASE \E e \in Addresses, p \in Phones, secret \in Passwords :
               Register(w, e, p, secret)
    BY <2>2, RegisterTokened
  <2>3. CASE \E m \in mails : VerifyEmail(w, m) \/ ConfirmEmailChange(w, m)
    BY <2>3, VerifyTokened, ConfirmTokened
  <2>4. CASE \E m \in mails, secret \in Passwords : ResetPassword(w, m, secret)
    BY <2>4, ResetTokened
  <2>5. CASE \E a \in Accounts : ResendVerification(w, a) \/ ForgotPassword(w, a)
    BY <2>5, ResendTokened, ForgotTokened
  <2>6. CASE \E a \in Accounts, secret \in Passwords : ChangePassword(w, a, secret)
    BY <2>6, PasswordTokened
  <2>7. CASE \E a \in Accounts, e \in Addresses : RequestEmailChange(w, a, e)
    BY <2>7, ChangeTokened
  <2>8. CASE \E a \in Accounts, p \in Phones : ChangePhone(w, a, p)
    BY <2>8, PhoneTokened
  <2>9. CASE Save(w)
    BY <2>9, SavePicks, SaveTokened
  <2>10. CASE Mail(w)
    BY <2>10, MailTokened
  <2>11. CASE Fail(w)
    BY <2>11, FailTokened
  <2> QED
    BY <2>1, <2>2, <2>3, <2>4, <2>5, <2>6, <2>7, <2>8, <2>9, <2>10, <2>11
<1> QED
  BY <1>1, <1>2

THEOREM TokensAccounted == Spec => []Tokened
<1>1. Tokened /\ [Next]_vars => Tokened'
  BY StepTokened
<1> QED
  BY InitTokened, <1>1, PTL DEF Spec

\* Every reachable state is typed, whatever the sizes of the sets.
THEOREM TypeCorrect == Spec => []TypeOK
<1>1. Tokened => TypeOK
  BY DEF Tokened, Accounted
<1> QED
  BY <1>1, TokensAccounted, PTL

\* Registrations, changes and confirmations by any number of people never give
\* an address, a phone or a pending address to two accounts, nor take the
\* address or the password from a verified one (auth/service.py).
THEOREM OneAccountAlways == Spec => []OneAccountEach
<1>1. Tokened => OneAccountEach
  BY DEF Tokened, Accounted, NoClash, Owned, OneAccountEach
<1> QED
  BY <1>1, TokensAccounted, PTL

\* A token that a committed verification, reset or confirmation has used is in
\* no row again, however many copies of the row are in flight.
THEOREM TokensAlwaysWorkOnce == Spec => []TokensWorkOnce
<1>1. ASSUME Tokened, NEW a \in Accounts
      PROVE  spent \cap {users[a].vtoken, users[a].rtoken, users[a].ptoken} = {}
  <2>1. \A t \in spent : ~Stored(t)
    BY <1>1 DEF Tokened
  <2>2. Stored(users[a].vtoken) /\ Stored(users[a].rtoken) /\ Stored(users[a].ptoken)
    <3>1. /\ Tok(users[a], "v") = users[a].vtoken
          /\ Tok(users[a], "r") = users[a].rtoken
          /\ Tok(users[a], "p") = users[a].ptoken
      BY DEF Tok
    <3> QED
      BY <3>1 DEF Stored, TokenColumns
  <2> QED
    BY <2>1, <2>2
<1>2. Tokened => TokensWorkOnce
  BY <1>1 DEF TokensWorkOnce
<1> QED
  BY <1>2, TokensAccounted, PTL

-----------------------------------------------------------------------------
(* The addresses of verified accounts.                                     *)

LEMMA BegunMints ==
    ASSUME Tokened, NEW w \in Requests, NEW op, NEW a \in Accounts \cup {None},
           NEW new, NEW to, NEW token, Asked(op, a, new, token),
           Begin(w, op, a, new, to, token), UNCHANGED users,
           NEW t, Minted(t)'
    PROVE  Minted(t) \/ (t = issued + 1 /\ issued' = issued + 1)
<1>1. PICK q : q = Begun(op, a, new, to, token)
  OBVIOUS
<1>2. /\ q.new = new /\ q.copy = IF a = None THEN Absent ELSE users[a]
  BY <1>1 DEF Begun
<1>3. \A v \in Requests : req'[v] = IF v = w THEN q ELSE req[v]
  BY <1>1 DEF Begin, Begun, Tokened, Accounted, TypeOK
<1>4. PICK v \in Requests, c \in TokenColumns :
        Mints(req'[v], c) /\ Tok(req'[v].new, c) = t
  BY DEF Minted, Mints
<1>5. CASE v = w
  BY <1>2, <1>3, <1>4, <1>5 DEF Mints, Asked
<1>6. CASE v # w
  BY <1>3, <1>4, <1>6 DEF Minted
<1> QED
  BY <1>5, <1>6

\* A handler that asks for a save that is vouched for.
LEMMA BeginVouched ==
    ASSUME Vouched, NEW w \in Requests, NEW op, NEW a \in Accounts \cup {None},
           NEW new, NEW to \in Addresses \cup {None}, NEW token,
           Asked(op, a, new, token), Begin(w, op, a, new, to, token),
           UNCHANGED <<users, mails, spent>>,
           issued' \in Tokens, issued' >= issued, Tokened',
           proved \subseteq proved', tangled \subseteq tangled',
           NEW q, q = Begun(op, a, new, to, token), Shaped(q),
           a \in Accounts \ tangled' =>
             /\ op = "confirm" => new.email \in proved'
             /\ op = "verify" => users[a].email \in proved'
             /\ op = "change" => \A v \in Requests : ~Changing(req[v], a)
    PROVE  Vouched'
<1>1. \A v \in Requests : req'[v] = IF v = w THEN q ELSE req[v]
  BY DEF Begin, Begun, Vouched, Tokened, Accounted, TypeOK
<1>2. /\ q.pc = "save" /\ q.op = op /\ q.acct = a /\ q.new = new /\ q.to = to
      /\ q.copy = IF a = None THEN Absent ELSE users[a]
  BY DEF Begun
<1>3. \A v \in Requests : Shaped(req[v])'
  <2> SUFFICES ASSUME NEW v \in Requests PROVE Shaped(req[v])'
    OBVIOUS
  <2>1. Shaped(req'[v])
    BY <1>1 DEF Vouched
  <2> QED
    BY <2>1 DEF Shaped
<1>4. \A m \in mails : m.token <= issued' /\ ~Minted(m.token)'
  <2> SUFFICES ASSUME NEW m \in mails PROVE m.token <= issued' /\ ~Minted(m.token)'
    OBVIOUS
  <2>1. m.token \in Nat /\ issued \in Nat /\ issued' \in Nat
        /\ m.token <= issued /\ ~Minted(m.token)
    BY MailFields, Typed, Null DEF Vouched, Tokened, Tokens
  <2>2. m.token # issued + 1 /\ m.token <= issued'
    BY <2>1
  <2> QED
    BY <2>1, <2>2, BegunMints DEF Vouched
<1>5. ASSUME NEW b \in Accounts \ tangled' PROVE Settled(b)'
  <2>1. Settled(b)
    BY <1>5 DEF Vouched
  <2>2. Proved(b)'
    BY <2>1 DEF Settled, Proved
  <2>3. \A m \in mails' : Delivered(m, b)'
    BY <2>1 DEF Settled, Delivered
  <2>4. ASSUME NEW v \in Requests, req'[v].acct = b PROVE Answered(req[v], b)'
    <3>1. CASE v = w
      <4>1. req'[v] = q /\ a = b /\ a # None
        BY <3>1, <2>4, <1>1, <1>2, Null
      <4> QED
        BY <4>1, <1>2, <1>5 DEF Answered
    <3>2. CASE v # w
      <4>1. req'[v] = req[v] /\ Answered(req[v], b)
        BY <3>2, <2>1, <2>4, <1>1 DEF Settled
      <4> QED
        BY <4>1 DEF Answered
    <3> QED
      BY <3>1, <3>2
  <2>5. ASSUME NEW u \in Requests, NEW v \in Requests,
               Changing(req'[u], b), Changing(req'[v], b)
        PROVE  u = v
    <3>1. Changing(q, b) => op = "change" /\ a = b
      BY <1>2 DEF Changing
    <3>2. Changing(q, b) => \A z \in Requests : ~Changing(req[z], b)
      BY <3>1, <1>5
    <3> QED
      BY <3>2, <2>1, <2>5, <1>1 DEF Settled
  <2>6. \A u, v \in Requests :
          Changing(req'[u], b) /\ Changing(req'[v], b) => u = v
    BY <2>5
  <2> QED
    BY <2>2, <2>3, <2>4, <2>6 DEF Settled, Changing
<1> QED
  BY <1>3, <1>4, <1>5 DEF Vouched

\* A request that ends, with or without a link mailed.
LEMMA EndVouched ==
    ASSUME Vouched, Tokened', NEW w \in Requests,
           req' = [req EXCEPT ![w] = Idle],
           UNCHANGED <<users, issued, proved, spent, tangled>>,
           mails \subseteq mails',
           \A m \in mails' \ mails :
             /\ m.token <= issued /\ ~Minted(m.token)
             /\ \A a \in Accounts \ tangled : Delivered(m, a)
    PROVE  Vouched'
<1>1. \A v \in Requests : req'[v] = IF v = w THEN Idle ELSE req[v]
  BY DEF Vouched, Tokened, Accounted, TypeOK
<1>2. Idle.pc = "idle" /\ Idle.acct = None
  BY DEF Idle
<1>3. \A v \in Requests : Shaped(req[v])'
  <2> SUFFICES ASSUME NEW v \in Requests PROVE Shaped(req[v])'
    OBVIOUS
  <2>1. Shaped(req'[v])
    BY <1>1, <1>2 DEF Vouched, Shaped
  <2> QED
    BY <2>1 DEF Shaped
<1>4. \A t : Minted(t)' => Minted(t)
  BY <1>1, <1>2 DEF Minted, Mints
<1>5. \A m \in mails' : m.token <= issued /\ ~Minted(m.token)'
  BY <1>4 DEF Vouched
<1>6. ASSUME NEW b \in Accounts \ tangled PROVE Settled(b)'
  <2>1. Settled(b)
    BY <1>6 DEF Vouched
  <2>2. Proved(b)'
    BY <2>1 DEF Settled, Proved
  <2>3. \A m \in mails' : Delivered(m, b)
    BY <2>1, <1>6 DEF Settled
  <2>4. \A m \in mails' : Delivered(m, b)'
    BY <2>3 DEF Delivered
  <2>5. ASSUME NEW v \in Requests, req'[v].acct = b PROVE Answered(req[v], b)'
    <3>1. req'[v] = req[v] /\ Answered(req[v], b)
      BY <2>5, <2>1, <1>1, <1>2, Null DEF Settled
    <3> QED
      BY <3>1 DEF Answered
  <2>6. \A u, v \in Requests :
          Changing(req'[u], b) /\ Changing(req'[v], b) => u = v
    BY <2>1, <1>1, <1>2 DEF Settled, Changing
  <2> QED
    BY <2>2, <2>4, <2>5, <2>6 DEF Settled, Changing
<1> QED
  BY <1>3, <1>5, <1>6 DEF Vouched

LEMMA FailVouched ==
    ASSUME Vouched, NEW w \in Requests, Fail(w)
    PROVE  Vouched'
BY FailTokened, EndVouched DEF Fail, Vouched

\* A token that is stored is not minted any more.
LEMMA StoredNotMinted ==
    ASSUME Tokened, NEW t, t # 0, Stored(t)
    PROVE  ~Minted(t) /\ t <= issued
BY DEF Tokened, OnePlace, Issued, Stored, Minted

LEMMA MailVouched ==
    ASSUME Vouched, NEW w \in Requests, Mail(w)
    PROVE  Vouched'
<1>1. PICK q, l : q = req[w] /\ l = Link(q)
  OBVIOUS
<1>2. q.pc = "mail" /\ q.acct # None /\ q.acct \in Present
  BY <1>1 DEF Mail, Vouched, Tokened, Accounted, Grounded
<1>3. PICK k \in Accounts : k = q.acct
  BY <1>2 DEF Present
<1>4. /\ l.kind = "change" => l.token = users[k].ptoken /\ l.to = q.to
                               /\ q.op = "change"
      /\ l.kind = "verify" => l.token = users[k].vtoken /\ l.to = users[k].email
      /\ l.token \in {users[k].vtoken, users[k].rtoken, users[k].ptoken}
  BY <1>1, <1>3 DEF Link
<1>5. Stored(l.token)
  BY <1>4 DEF Stored, Tok, TokenColumns
<1>6. ASSUME l.token # 0, NEW a \in Accounts \ tangled PROVE Delivered(l, a)
  <2>1. /\ Tok(users[a], "v") = users[a].vtoken /\ Tok(users[k], "v") = users[k].vtoken
        /\ Tok(users[a], "p") = users[a].ptoken /\ Tok(users[k], "p") = users[k].ptoken
        /\ "v" \in TokenColumns /\ "p" \in TokenColumns
    BY DEF Tok, TokenColumns
  <2>2. CASE l.kind = "verify" /\ users[a].vtoken = l.token
    <3>1. a = k
      BY <2>1, <2>2, <1>4, <1>6 DEF Vouched, Tokened, OnePlace
    <3> QED
      BY <2>2, <3>1, <1>4 DEF Delivered
  <2>3. CASE l.kind = "change" /\ users[a].ptoken = l.token
    <3>1. a = k
      BY <2>1, <2>3, <1>4, <1>6 DEF Vouched, Tokened, OnePlace
    <3>2. Answered(q, a)
      BY <1>1, <1>3, <1>6, <3>1 DEF Vouched, Settled
    <3> QED
      BY <2>3, <3>2, <1>2, <1>4 DEF Delivered, Answered
  <2> QED
    BY <2>2, <2>3 DEF Delivered
<1>7. mails' = IF l.token = 0 THEN mails ELSE mails \cup {l}
  BY <1>1 DEF Mail
<1>8. ASSUME NEW m \in mails' \ mails
      PROVE  /\ m.token <= issued /\ ~Minted(m.token)
             /\ \A a \in Accounts \ tangled : Delivered(m, a)
  <2>1. m = l /\ l.token # 0
    BY <1>7, <1>8
  <2> QED
    BY <2>1, <1>5, <1>6, StoredNotMinted DEF Vouched
<1>9. mails \subseteq mails'
  BY <1>7
<1> QED
  BY <1>8, <1>9, MailTokened, EndVouched DEF Mail, Vouched

\* A save disturbs nobody but the account that it is about.
LEMMA SaveVouchedRest ==
    ASSUME Vouched, NEW w \in Requests, NEW k \in Accounts, NEW row, NEW p, Tokened',
           UNCHANGED <<issued, mails, proved, tangled>>,
           p.pc # "save", p.pc = "mail" => p.acct = k, p.pc = "idle" \/ p.pc = "mail",
           p.acct # None => p.pc = "mail",
           \A b \in Accounts : users'[b] = IF b = k THEN row ELSE users[b],
           \A v \in Requests : req'[v] = IF v = w THEN p ELSE req[v],
           \A b \in Accounts : users[b].verified => users'[b].verified,
           \A b \in Accounts : users'[b].pending # None => users'[b].verified,
           k \notin tangled => Settled(k)'
    PROVE  Vouched'
<1>1. \A v \in Requests : Shaped(req[v])'
  <2> SUFFICES ASSUME NEW v \in Requests PROVE Shaped(req[v])'
    OBVIOUS
  <2>1. CASE v = w
    BY <2>1 DEF Shaped
  <2>2. CASE v # w
    <3>1. req'[v] = req[v] /\ Shaped(req[v]) /\ req[v].acct \in Accounts \cup {None}
      BY <2>2, LocalFields DEF Vouched, Tokened, Accounted
    <3> QED
      BY <3>1 DEF Shaped
  <2> QED
    BY <2>1, <2>2
<1>2. \A t : Minted(t)' => Minted(t)
  BY DEF Minted, Mints
<1>3. \A m \in mails : m.token <= issued /\ ~Minted(m.token)'
  BY <1>2 DEF Vouched
<1>4. ASSUME NEW b \in Accounts \ tangled, b # k PROVE Settled(b)'
  <2>1. Settled(b) /\ users'[b] = users[b] /\ b # None
    BY <1>4, Null DEF Vouched
  <2>2. Proved(b)'
    BY <2>1 DEF Settled, Proved
  <2>3. \A m \in mails : Delivered(m, b)'
    BY <2>1 DEF Settled, Delivered
  <2>4. ASSUME NEW v \in Requests, req'[v].acct = b PROVE Answered(req[v], b)'
    <3>1. req'[v] = req[v] /\ Answered(req[v], b)
      BY <2>1, <2>4, <1>4 DEF Settled
    <3> QED
      BY <3>1, <2>1 DEF Answered
  <2>5. \A v \in Requests : Changing(req'[v], b) => Changing(req[v], b)
    BY <1>4 DEF Changing
  <2>6. \A u, v \in Requests :
          Changing(req'[u], b) /\ Changing(req'[v], b) => u = v
    BY <2>1, <2>5 DEF Settled
  <2> QED
    BY <2>2, <2>3, <2>4, <2>6 DEF Settled, Changing
<1>5. \A b \in Accounts \ tangled : Settled(b)'
  BY <1>4
<1> QED
  BY <1>1, <1>3, <1>5 DEF Vouched

\* What a save makes of the columns of the address, row by row.
LEMMA SavedAddress ==
    ASSUME Vouched, NEW w \in Requests, NEW q, NEW k, NEW row, SavesAs(w, q, k, row),
           q.acct # None
    PROVE  /\ k = q.acct /\ Shaped(q)
           /\ \/ row.email = users[k].email
              \/ q.op = "confirm" /\ row.email = q.new.email
           /\ row.verified = users[k].verified \/ q.op \in {"verify", "confirm"}
           /\ q.op = "confirm" => users[k].verified
           /\ users[k].verified => row.verified
           /\ q.op \notin {"change", "confirm"} =>
                row.pending = users[k].pending /\ row.ptoken = users[k].ptoken
           /\ q.op = "confirm" => row.pending = None /\ row.ptoken = 0
           /\ q.op = "change" =>
                /\ users[k].verified
                /\ Mints(q, "p") /\ row.ptoken = Tok(q.new, "p")
                /\ row.pending = IF q.copy.pending = q.to
                                 THEN users[k].pending ELSE q.to
<1>1. /\ k = q.acct /\ q = req[w] /\ q.pc = "save" /\ k \in Accounts
      /\ row = Saved(users[k], q.copy, q.new)
  BY DEF SavesAs
<1>2. Shaped(q)
  BY <1>1 DEF Vouched
<1>3. q.copy \in Rows /\ q.new \in Rows /\ users[k] \in Rows
  BY <1>1, LocalFields DEF Vouched, Tokened, Accounted, TypeOK
<1>4. /\ row.email = IF q.new.email = q.copy.email THEN users[k].email ELSE q.new.email
      /\ row.verified = (IF q.new.verified = q.copy.verified
                         THEN users[k].verified ELSE q.new.verified)
      /\ row.pending = IF q.new.pending = q.copy.pending
                       THEN users[k].pending ELSE q.new.pending
      /\ Tok(row, "p") = IF Tok(q.new, "p") = Tok(q.copy, "p")
                         THEN Tok(users[k], "p") ELSE Tok(q.new, "p")
  BY <1>1, <1>3, SavedRow DEF TokenColumns
<1>5. /\ Tok(row, "p") = row.ptoken /\ Tok(q.new, "p") = q.new.ptoken
      /\ Tok(q.copy, "p") = q.copy.ptoken /\ Tok(users[k], "p") = users[k].ptoken
  BY DEF Tok
<1>6. q.op \in {"change", "confirm"} => users[k].verified
  BY <1>1, <1>2 DEF Shaped
<1>7. /\ q.op \notin {"verify", "confirm"} => q.new.verified = q.copy.verified
      /\ q.op \in {"verify", "confirm"} => q.new.verified
  BY <1>1, <1>2 DEF Shaped
<1>8. /\ row.verified = users[k].verified \/ q.op \in {"verify", "confirm"}
      /\ users[k].verified => row.verified
  BY <1>4, <1>7
<1>9. q.op \notin {"change", "confirm"} =>
        row.pending = users[k].pending /\ row.ptoken = users[k].ptoken
  BY <1>1, <1>2, <1>4, <1>5 DEF Shaped
<1>10. q.op = "confirm" => row.pending = None /\ row.ptoken = 0
  BY <1>1, <1>2, <1>4, <1>5 DEF Shaped
<1>11. q.op = "change" =>
         /\ Mints(q, "p") /\ row.ptoken = Tok(q.new, "p")
         /\ row.pending = IF q.copy.pending = q.to THEN users[k].pending ELSE q.to
  BY <1>1, <1>2, <1>4, <1>5 DEF Shaped, Mints
<1>12. \/ row.email = users[k].email
       \/ q.op = "confirm" /\ row.email = q.new.email
  BY <1>1, <1>2, <1>4 DEF Shaped
<1> QED
  BY <1>1, <1>2, <1>6, <1>8, <1>9, <1>10, <1>11, <1>12

\* A link that was mailed leads to no token that is written now.
LEMMA MailedTokenKept ==
    ASSUME Vouched, NEW w \in Requests, NEW q, NEW k, NEW row, SavesAs(w, q, k, row),
           NEW m \in mails, NEW c \in TokenColumns, Tok(row, c) = m.token
    PROVE  Tok(users[k], c) = m.token /\ ~(Mints(q, c) /\ Tok(row, c) = Tok(q.new, c))
<1>1. m.token # 0 /\ ~Minted(m.token)
  BY MailFields DEF Vouched, Tokened
<1>2. q = req[w]
  BY DEF SavesAs
<1>3. \/ Tok(row, c) = Tok(users[k], c) \/ Tok(row, c) = 0
      \/ Mints(q, c) /\ Tok(row, c) = Tok(q.new, c)
  BY SavedFields DEF Vouched, Tokened
<1> QED
  BY <1>1, <1>2, <1>3 DEF Minted

LEMMA SaveVouched ==
    ASSUME Vouched, NEW w \in Requests, NEW q, NEW k, NEW row,
           SavesAs(w, q, k, row), req' = [req EXCEPT ![w] = After(q, k)]
    PROVE  Vouched'
<1>1. PICK p : p = After(q, k)
  OBVIOUS
<1>2. /\ q = req[w] /\ q.pc = "save" /\ k \in Accounts /\ users' = [users EXCEPT ![k] = row]
      /\ UNCHANGED <<issued, mails, proved, tangled>>
  BY DEF SavesAs
<1>3. /\ p.pc # "save" /\ (p.pc = "mail" => p.acct = k /\ p.op = q.op /\ p.to = q.to)
      /\ (p.pc = "idle" \/ p.pc = "mail")
  BY <1>1, <1>2, AfterLocal DEF Vouched, Tokened, Accounted
<1>4. p.acct # None => p.pc = "mail"
  BY <1>1 DEF After, Idle
<1>5. \A b \in Accounts : users'[b] = IF b = k THEN row ELSE users[b]
  BY <1>2 DEF Vouched, Tokened, Accounted, TypeOK
<1>6. \A v \in Requests : req'[v] = IF v = w THEN p ELSE req[v]
  BY <1>1 DEF Vouched, Tokened, Accounted, TypeOK
<1>7. Tokened'
  BY SaveTokened DEF Vouched
<1>8. Shaped(q) /\ Grounded(q)
  BY <1>2 DEF Vouched, Tokened, Accounted
<1>9. CASE q.acct = None
  <2>1. /\ row = q.new /\ k \notin Present /\ q.op = "register"
        /\ row.pending = None /\ row.verified = FALSE
    BY <1>2, <1>8, <1>9 DEF SavesAs, Shaped, Grounded
  <2>2. users[k].email = None /\ Owned(users[k])
    BY <1>2, <2>1 DEF Present, Vouched, Tokened, Accounted
  <2>3. users[k].vtoken = 0 /\ users[k].ptoken = 0 /\ ~users[k].verified
    BY <2>2 DEF Owned
  <2>4. \A v \in Requests : req[v].pc # "idle" => req[v].acct # k
    BY <2>1, <1>2, Null DEF Vouched, Tokened, Accounted, Grounded
  <2>5. \A b \in Accounts : users[b].verified => users'[b].verified
    BY <1>5, <2>3
  <2>6. \A b \in Accounts : users'[b].pending # None => users'[b].verified
    BY <1>5, <2>1 DEF Vouched
  <2>7. ASSUME NEW m \in mails PROVE Delivered(m, k)'
    <3>1. /\ Tok(row, "v") = row.vtoken /\ Tok(users[k], "v") = users[k].vtoken
          /\ Tok(row, "p") = row.ptoken /\ Tok(users[k], "p") = users[k].ptoken
          /\ "v" \in TokenColumns /\ "p" \in TokenColumns
      BY DEF Tok, TokenColumns
    <3>2. m.token # 0
      BY MailFields DEF Vouched, Tokened
    <3>3. row.vtoken # m.token /\ row.ptoken # m.token
      BY <3>1, <3>2, <2>3, MailedTokenKept
    <3> QED
      BY <3>3, <1>5, <1>2 DEF Delivered
  <2>8. ASSUME NEW v \in Requests, req'[v].acct = k PROVE Answered(req[v], k)'
    <3>1. CASE v = w
      <4>1. req'[v] = p /\ p.pc # "save" /\ p.op # "change"
        BY <3>1, <2>1, <2>8, <1>3, <1>4, <1>6, <1>2, Null
      <4> QED
        BY <4>1 DEF Answered
    <3>2. CASE v # w
      <4>1. req'[v].pc = "idle"
        BY <3>2, <2>4, <2>8, <1>6
      <4> QED
        BY <4>1 DEF Answered
    <3> QED
      BY <3>1, <3>2
  <2>9. \A v \in Requests : ~Changing(req'[v], k)
    BY <2>1, <2>4, <1>3, <1>6 DEF Changing
  <2>10. Proved(k)'
    BY <2>1, <1>2, <1>5 DEF Proved
  <2>11. Settled(k)'
    BY <2>7, <2>8, <2>9, <2>10, <1>2 DEF Settled, Changing
  <2> QED
    BY <2>5, <2>6, <2>11, <1>2, <1>3, <1>4, <1>5, <1>6, <1>7, SaveVouchedRest
<1>10. CASE q.acct # None
  <2>1. PICK old : old = users[k]
    OBVIOUS
  <2>2. /\ k = q.acct
        /\ \/ row.email = old.email
           \/ q.op = "confirm" /\ row.email = q.new.email
        /\ row.verified = old.verified \/ q.op \in {"verify", "confirm"}
        /\ q.op = "confirm" => old.verified
        /\ old.verified => row.verified
        /\ q.op \notin {"change", "confirm"} =>
             row.pending = old.pending /\ row.ptoken = old.ptoken
        /\ q.op = "confirm" => row.pending = None /\ row.ptoken = 0
        /\ q.op = "change" =>
             /\ old.verified
             /\ Mints(q, "p") /\ row.ptoken = Tok(q.new, "p")
             /\ row.pending = IF q.copy.pending = q.to THEN old.pending ELSE q.to
    BY <2>1, <1>10, SavedAddress
  <2>3. \A b \in Accounts : users[b].verified => users'[b].verified
    BY <1>5, <2>1, <2>2
  <2>4. row.pending # None => row.verified
    BY <1>2, <2>1, <2>2 DEF Vouched
  <2>5. \A b \in Accounts : users'[b].pending # None => users'[b].verified
    BY <1>5, <2>4 DEF Vouched
  <2>6. ASSUME k \notin tangled PROVE Settled(k)'
    <3>1. Settled(k) /\ Answered(q, k)
      BY <1>2, <2>2, <2>6 DEF Vouched, Settled
    <3>2. Proved(k)'
      <4>1. q.op = "confirm" => q.new.email \in proved
        BY <3>1, <1>2 DEF Answered
      <4>2. q.op = "verify" => old.email \in proved
        BY <3>1, <1>2, <2>1 DEF Answered
      <4>3. old.verified => old.email \in proved
        BY <3>1, <2>1 DEF Settled, Proved
      <4>4. row.verified => row.email \in proved
        BY <4>1, <4>2, <4>3, <2>2
      <4> QED
        BY <4>4, <1>2, <1>5 DEF Proved
    <3>3. row.email = old.email \/ row.email \in proved
      BY <3>1, <1>2, <2>2 DEF Answered
    <3>4. ASSUME NEW m \in mails PROVE Delivered(m, k)'
      <4>1. /\ Tok(row, "v") = row.vtoken /\ Tok(old, "v") = old.vtoken
            /\ Tok(row, "p") = row.ptoken /\ Tok(old, "p") = old.ptoken
            /\ "v" \in TokenColumns /\ "p" \in TokenColumns
        BY DEF Tok, TokenColumns
      <4>2. Delivered(m, k) /\ m.token # 0
        BY <3>1, MailFields DEF Settled, Vouched, Tokened
      <4>3. m.kind = "verify" /\ row.vtoken = m.token => row.email \in proved \cup {m.to}
        <5>1. row.vtoken = m.token => old.vtoken = m.token
          BY <4>1, <2>1, MailedTokenKept
        <5> QED
          BY <5>1, <4>2, <3>3, <2>1 DEF Delivered
      <4>4. m.kind = "change" /\ row.ptoken = m.token => row.pending \in {m.to, None}
        <5>1. row.ptoken = m.token =>
                old.ptoken = m.token /\ ~(Mints(q, "p") /\ row.ptoken = Tok(q.new, "p"))
          BY <4>1, <2>1, MailedTokenKept
        <5> QED
          BY <5>1, <4>2, <2>1, <2>2 DEF Delivered
      <4> QED
        BY <4>3, <4>4, <1>2, <1>5 DEF Delivered
    <3>5. ASSUME NEW v \in Requests, req'[v].acct = k PROVE Answered(req[v], k)'
      <4>1. CASE v = w
        <5>1. req'[v] = p /\ p.pc = "mail" /\ p.op = q.op /\ p.to = q.to
          BY <4>1, <3>5, <1>2, <1>3, <1>4, <1>6, Null
        <5>2. q.op = "change" => row.pending \in {q.to, None}
          BY <3>1, <1>2, <2>1, <2>2 DEF Answered
        <5> QED
          BY <5>1, <5>2, <1>2, <1>5 DEF Answered
      <4>2. CASE v # w
        <5>1. req'[v] = req[v] /\ req[v].acct = k /\ Answered(req[v], k)
          BY <4>2, <3>1, <3>5, <1>6 DEF Settled
        <5>2. ~(req[v].pc # "idle" /\ req[v].op = "change" /\ q.op = "change")
          BY <5>1, <4>2, <3>1, <1>2, <2>2 DEF Settled, Changing
        <5>3. q.op # "change" => row.pending = old.pending \/ row.pending = None
          BY <2>2
        <5> QED
          BY <5>1, <5>2, <5>3, <3>3, <1>2, <1>5, <2>1 DEF Answered
      <4> QED
        BY <4>1, <4>2
    <3>6. \A v \in Requests : Changing(req'[v], k) => Changing(req[v], k)
      BY <1>2, <1>3, <1>6, <2>2 DEF Changing
    <3>7. \A u, v \in Requests :
            Changing(req'[u], k) /\ Changing(req'[v], k) => u = v
      BY <3>1, <3>6 DEF Settled
    <3> QED
      BY <3>2, <3>4, <3>5, <3>7, <1>2 DEF Settled, Changing
  <2> QED
    BY <2>3, <2>5, <2>6, <1>2, <1>3, <1>4, <1>5, <1>6, <1>7, SaveVouchedRest
<1> QED
  BY <1>9, <1>10

LEMMA VerifyVouched ==
    ASSUME Vouched, NEW w \in Requests, NEW m \in mails, VerifyEmail(w, m)
    PROVE  Vouched'
<1>1. PICK a \in Present :
        /\ users[a].vtoken = m.token
        /\ Begin(w, "verify", a,
                 [users[a] EXCEPT !.verified = TRUE, !.vtoken = 0], None, m.token)
  BY DEF VerifyEmail
<1>2. PICK old, new, q :
        /\ old = users[a] /\ new = [old EXCEPT !.verified = TRUE, !.vtoken = 0]
        /\ q = Begun("verify", a, new, None, m.token)
  OBVIOUS
<1>3. /\ a \in Accounts /\ a # None /\ old \in Rows /\ m.token # 0
      /\ old.vtoken = m.token /\ Owned(old) /\ m.token \in Tokens
  BY <1>1, <1>2, PresentRow, MailFields DEF Vouched, Tokened
<1>4. /\ new \in Rows /\ new.email = old.email /\ new.password = old.password
      /\ new.vtoken = 0 /\ new.rtoken = old.rtoken /\ new.ptoken = old.ptoken
      /\ new.pending = old.pending /\ new.verified
  BY <1>2, <1>3, Typed DEF Rows, Vouched, Tokened
<1>5. Asked("verify", a, new, m.token)
  <2>1. /\ Tok(new, "v") = 0 /\ Tok(users[a], "v") = m.token
        /\ \A c \in TokenColumns : Tok(new, c) = 0 \/ Tok(new, c) = Tok(users[a], c)
    BY <1>2, <1>3, <1>4 DEF Tok, TokenColumns
  <2>2. new.email # None /\ new.password # None
    BY <1>3, <1>4 DEF Owned
  <2> QED
    BY <1>3, <1>4, <2>1, <2>2, AskedOfRow DEF ColumnOf, Ops, Using, Vouched
<1>6. Shaped(q)
  <2>1. /\ q.op = "verify" /\ q.acct = a /\ q.copy = old /\ q.new = new
    BY <1>2, <1>3 DEF Begun
  <2> QED
    BY <2>1, <1>2, <1>3, <1>4 DEF Shaped
<1>7. a \in Accounts \ tangled' => users[a].email \in proved'
  BY <1>1 DEF VerifyEmail, Vouched, Settled, Delivered, Proved
<1>8. Tokened' /\ issued' \in Tokens /\ issued' >= issued
  BY VerifyTokened, Typed DEF VerifyEmail, Vouched, Tokened
<1>9. Begin(w, "verify", a, new, None, m.token)
  BY <1>1, <1>2
<1>10. proved \subseteq proved' /\ tangled \subseteq tangled'
  BY DEF VerifyEmail
<1> QED
  BY <1>2, <1>3, <1>5, <1>6, <1>7, <1>8, <1>9, <1>10, BeginVouched DEF VerifyEmail

LEMMA ConfirmVouched ==
    ASSUME Vouched, NEW w \in Requests, NEW m \in mails, ConfirmEmailChange(w, m)
    PROVE  Vouched'
<1>1. PICK a \in Present :
        /\ users[a].ptoken = m.token /\ users[a].pending # None
        /\ Begin(w, "confirm", a,
                 [users[a] EXCEPT !.email = users[a].pending, !.verified = TRUE,
                                  !.pending = None, !.ptoken = 0], None, m.token)
  BY DEF ConfirmEmailChange
<1>2. PICK old, new, q :
        /\ old = users[a]
        /\ new = [old EXCEPT !.email = old.pending, !.verified = TRUE,
                             !.pending = None, !.ptoken = 0]
        /\ q = Begun("confirm", a, new, None, m.token)
  OBVIOUS
<1>3. /\ a \in Accounts /\ a # None /\ old \in Rows /\ m.token # 0
      /\ old.ptoken = m.token /\ old.pending # None /\ Owned(old) /\ m.token \in Tokens
  BY <1>1, <1>2, PresentRow, MailFields DEF Vouched, Tokened
<1>4. /\ new \in Rows /\ new.email = old.pending /\ new.password = old.password
      /\ new.vtoken = old.vtoken /\ new.rtoken = old.rtoken /\ new.ptoken = 0
      /\ new.pending = None /\ new.verified
  BY <1>2, <1>3, Typed DEF Rows, Vouched, Tokened
<1>5. Asked("confirm", a, new, m.token)
  <2>1. /\ Tok(new, "p") = 0 /\ Tok(users[a], "p") = m.token
        /\ \A c \in TokenColumns : Tok(new, c) = 0 \/ Tok(new, c) = Tok(users[a], c)
    BY <1>2, <1>3, <1>4 DEF Tok, TokenColumns
  <2>2. new.email # None /\ new.password # None
    BY <1>3, <1>4 DEF Owned
  <2> QED
    BY <1>3, <1>4, <2>1, <2>2, AskedOfRow DEF ColumnOf, Ops, Using, Vouched
<1>6. Shaped(q)
  <2>1. /\ q.op = "confirm" /\ q.acct = a /\ q.copy = old /\ q.new = new
    BY <1>2, <1>3 DEF Begun
  <2>2. old.verified
    BY <1>2, <1>3 DEF Vouched
  <2> QED
    BY <2>1, <2>2, <1>2, <1>3, <1>4 DEF Shaped
<1>7. a \in Accounts \ tangled' => new.email \in proved'
  BY <1>1, <1>2, <1>3, <1>4 DEF ConfirmEmailChange, Vouched, Settled, Delivered
<1>8. Tokened' /\ issued' \in Tokens /\ issued' >= issued
  BY ConfirmTokened, Typed DEF ConfirmEmailChange, Vouched, Tokened
<1>9. Begin(w, "confirm", a, new, None, m.token)
  BY <1>1, <1>2
<1>10. proved \subseteq proved' /\ tangled \subseteq tangled'
  BY DEF ConfirmEmailChange
<1>11. UNCHANGED <<users, mails, spent>>
  BY DEF ConfirmEmailChange
<1>12. \A op : op = "confirm" /\ a \in Accounts \ tangled' =>
         /\ op = "confirm" => new.email \in proved'
         /\ op = "verify" => users[a].email \in proved'
         /\ op = "change" => \A v \in Requests : ~Changing(req[v], a)
  BY <1>7
<1>13. q = Begun("confirm", a, new, None, m.token)
  BY <1>2
<1> QED
  BY <1>3, <1>5, <1>6, <1>8, <1>9, <1>10, <1>11, <1>12, <1>13, BeginVouched

\* A handler that leaves the address alone.
LEMMA PlainVouched ==
    ASSUME Vouched, NEW w \in Requests, NEW a \in Present, NEW op, NEW new,
           NEW token, op \in Ops \ {"verify", "confirm", "change", "register"},
           Asked(op, a, new, token), Begin(w, op, a, new, None, token),
           new.email = users[a].email, new.pending = users[a].pending,
           new.ptoken = users[a].ptoken, new.verified = users[a].verified,
           UNCHANGED <<users, mails, spent, proved, tangled>>,
           issued' \in Tokens, issued' >= issued, Tokened'
    PROVE  Vouched'
<1>1. a \in Accounts /\ a # None
  BY PresentRow DEF Vouched, Tokened
<1>2. PICK q : q = Begun(op, a, new, None, token)
  OBVIOUS
<1>3. q.op = op /\ q.acct = a /\ q.copy = users[a] /\ q.new = new
  BY <1>1, <1>2 DEF Begun
<1>4. Shaped(q)
  BY <1>1, <1>3 DEF Shaped
<1> QED
  BY <1>1, <1>2, <1>4, BeginVouched

LEMMA ResendVouched ==
    ASSUME Vouched, NEW w \in Requests, NEW a \in Accounts, ResendVerification(w, a)
    PROVE  Vouched'
<1>1. PICK new :
        /\ Begin(w, "resend", a, new, None, 0)
        /\ \/ Generate /\ new = [users[a] EXCEPT !.vtoken = Fresh]
           \/ issued' = issued /\ new = users[a]
  BY DEF ResendVerification
<1>2. /\ a \in Present /\ a # None /\ users[a] \in Rows /\ users[a].email # None
      /\ users[a].password # None /\ 0 \in Tokens
  BY PresentRow, Typed DEF ResendVerification, Vouched, Tokened
<1>3. issued' \in Tokens /\ issued' >= issued
  BY <1>1, Generated, Typed DEF Vouched, Tokened
<1>4. /\ new.email = users[a].email /\ new.pending = users[a].pending
      /\ new.ptoken = users[a].ptoken /\ new.verified = users[a].verified
      /\ new.rtoken = users[a].rtoken /\ new.password = users[a].password
  BY <1>1, <1>2 DEF Rows
<1>5. /\ new \in Rows
      /\ \/ new.vtoken = users[a].vtoken
         \/ new.vtoken = issued + 1 /\ issued' = issued + 1
  <2>1. CASE Generate /\ new = [users[a] EXCEPT !.vtoken = Fresh]
    BY <2>1, <1>2, Generated DEF Rows, Vouched, Tokened
  <2>2. CASE new = users[a]
    BY <2>2, <1>2
  <2> QED
    BY <1>1, <2>1, <2>2
<1>6. \A c \in TokenColumns :
        \/ Tok(new, c) = 0 \/ Tok(new, c) = Tok(users[a], c)
        \/ c = "v" /\ Tok(new, c) = issued + 1 /\ issued' = issued + 1
  BY <1>4, <1>5 DEF Tok, TokenColumns
<1>7. Asked("resend", a, new, 0)
  BY <1>2, <1>4, <1>5, <1>6, AskedOfRow DEF Ops, Mailing, Using, Vouched
<1> QED
  BY <1>1, <1>2, <1>3, <1>4, <1>7, ResendTokened, PlainVouched
  DEF ResendVerification, Vouched, Ops, Mailing

LEMMA ForgotVouched ==
    ASSUME Vouched, NEW w \in Requests, NEW a \in Accounts, ForgotPassword(w, a)
    PROVE  Vouched'
<1>1. PICK new : new = [users[a] EXCEPT !.rtoken = Fresh]
  OBVIOUS
<1>2. /\ a \in Present /\ a # None /\ users[a] \in Rows /\ users[a].email # None
      /\ users[a].password # None /\ 0 \in Tokens
  BY PresentRow, Typed DEF ForgotPassword, Vouched, Tokened
<1>3. /\ issued' \in Tokens /\ issued' >= issued /\ issued' = issued + 1
      /\ Fresh = issued + 1
  BY Generated DEF ForgotPassword, Vouched, Tokened
<1>4. /\ new.email = users[a].email /\ new.pending = users[a].pending
      /\ new.ptoken = users[a].ptoken /\ new.verified = users[a].verified
      /\ new.vtoken = users[a].vtoken /\ new.password = users[a].password
      /\ new.rtoken = Fresh /\ new \in Rows
  BY <1>1, <1>2, <1>3 DEF Rows
<1>5. \A c \in TokenColumns :
        \/ Tok(new, c) = Tok(users[a], c)
        \/ c = "r" /\ Tok(new, c) = issued + 1 /\ issued' = issued + 1
  BY <1>3, <1>4 DEF Tok, TokenColumns
<1>6. Asked("forgot", a, new, 0)
  BY <1>2, <1>4, <1>5, AskedOfRow DEF Ops, Mailing, Using, Vouched
<1>7. Begin(w, "forgot", a, new, None, 0)
  BY <1>1 DEF ForgotPassword
<1> QED
  BY <1>2, <1>3, <1>4, <1>6, <1>7, ForgotTokened, PlainVouched
  DEF ForgotPassword, Vouched, Ops, Mailing

LEMMA ResetVouched ==
    ASSUME Vouched, NEW w \in Requests, NEW m \in mails, NEW secret \in Passwords,
           ResetPassword(w, m, secret)
    PROVE  Vouched'
<1>1. PICK a \in Present :
        /\ users[a].rtoken = m.token
        /\ Begin(w, "reset", a,
                 [users[a] EXCEPT !.password = secret, !.rtoken = 0], None, m.token)
  BY DEF ResetPassword
<1>2. PICK new : new = [users[a] EXCEPT !.password = secret, !.rtoken = 0]
  OBVIOUS
<1>3. /\ a \in Accounts /\ a # None /\ users[a] \in Rows /\ users[a].email # None
      /\ secret # None /\ 0 \in Tokens /\ m.token \in Tokens /\ m.token # 0
  BY PresentRow, MailFields, Typed, Null DEF Vouched, Tokened
<1>4. /\ new.email = users[a].email /\ new.pending = users[a].pending
      /\ new.ptoken = users[a].ptoken /\ new.verified = users[a].verified
      /\ new.vtoken = users[a].vtoken /\ new.password = secret
      /\ new.rtoken = 0 /\ new \in Rows
  BY <1>2, <1>3 DEF Rows
<1>5. /\ Tok(new, "r") = 0 /\ Tok(users[a], "r") = m.token
      /\ \A c \in TokenColumns : Tok(new, c) = 0 \/ Tok(new, c) = Tok(users[a], c)
  BY <1>1, <1>4 DEF Tok, TokenColumns
<1>6. Asked("reset", a, new, m.token)
  BY <1>3, <1>4, <1>5, AskedOfRow DEF ColumnOf, Ops, Using, Vouched
<1>7. Begin(w, "reset", a, new, None, m.token)
  BY <1>1, <1>2
<1>8. issued' \in Tokens /\ issued' >= issued
  BY Typed DEF ResetPassword, Vouched, Tokened
<1> QED
  BY <1>3, <1>4, <1>6, <1>7, <1>8, ResetTokened, PlainVouched
  DEF ResetPassword, Vouched, Ops, Using

LEMMA PasswordVouched ==
    ASSUME Vouched, NEW w \in Requests, NEW a \in Accounts,
           NEW secret \in Passwords, ChangePassword(w, a, secret)
    PROVE  Vouched'
<1>1. PICK new : new = [users[a] EXCEPT !.password = secret]
  OBVIOUS
<1>2. /\ a \in Present /\ a # None /\ users[a] \in Rows /\ users[a].email # None
      /\ secret # None /\ 0 \in Tokens /\ issued' \in Tokens /\ issued' >= issued
  BY PresentRow, Typed, Null DEF ChangePassword, SignedIn, Vouched, Tokened
<1>3. /\ new.email = users[a].email /\ new.pending = users[a].pending
      /\ new.ptoken = users[a].ptoken /\ new.verified = users[a].verified
      /\ new.vtoken = users[a].vtoken /\ new.password = secret
      /\ new.rtoken = users[a].rtoken /\ new \in Rows
  BY <1>1, <1>2 DEF Rows
<1>4. \A c \in TokenColumns : Tok(new, c) = Tok(users[a], c)
  BY <1>3 DEF Tok
<1>5. Asked("password", a, new, 0)
  BY <1>2, <1>3, <1>4, AskedOfRow DEF Ops, Mailing, Using, Vouched
<1>6. Begin(w, "password", a, new, None, 0)
  BY <1>1 DEF ChangePassword
<1> QED
  BY <1>2, <1>3, <1>5, <1>6, PasswordTokened, PlainVouched
  DEF ChangePassword, Vouched, Ops

LEMMA PhoneVouched ==
    ASSUME Vouched, NEW w \in Requests, NEW a \in Accounts, NEW p \in Phones,
           ChangePhone(w, a, p)
    PROVE  Vouched'
<1>1. PICK new : new = [users[a] EXCEPT !.phone = p]
  OBVIOUS
<1>2. /\ a \in Present /\ a # None /\ users[a] \in Rows /\ users[a].email # None
      /\ users[a].password # None
      /\ 0 \in Tokens /\ issued' \in Tokens /\ issued' >= issued
  BY PresentRow, Typed DEF ChangePhone, SignedIn, Vouched, Tokened
<1>3. /\ new.email = users[a].email /\ new.pending = users[a].pending
      /\ new.ptoken = users[a].ptoken /\ new.verified = users[a].verified
      /\ new.vtoken = users[a].vtoken /\ new.password = users[a].password
      /\ new.rtoken = users[a].rtoken /\ new \in Rows
  BY <1>1, <1>2 DEF Rows
<1>4. \A c \in TokenColumns : Tok(new, c) = Tok(users[a], c)
  BY <1>3 DEF Tok
<1>5. Asked("phone", a, new, 0)
  BY <1>2, <1>3, <1>4, AskedOfRow DEF Ops, Mailing, Using, Vouched
<1>6. Begin(w, "phone", a, new, None, 0)
  BY <1>1 DEF ChangePhone
<1> QED
  BY <1>2, <1>3, <1>5, <1>6, PhoneTokened, PlainVouched DEF ChangePhone, Vouched, Ops

LEMMA ChangeVouched ==
    ASSUME Vouched, NEW w \in Requests, NEW a \in Accounts, NEW e \in Addresses,
           RequestEmailChange(w, a, e)
    PROVE  Vouched'
<1>1. PICK old, new, q :
        /\ old = users[a] /\ new = [old EXCEPT !.pending = e, !.ptoken = Fresh]
        /\ q = Begun("change", a, new, e, 0)
  OBVIOUS
<1>2. /\ a \in Present /\ a # None /\ old \in Rows /\ old.email # None
      /\ old.password # None /\ 0 \in Tokens /\ old.verified
  BY <1>1, PresentRow, Typed DEF RequestEmailChange, SignedIn, Vouched, Tokened
<1>3. Fresh = issued + 1 /\ issued' = issued + 1 /\ issued' \in Tokens
      /\ issued' >= issued /\ Fresh # 0
  BY Generated DEF RequestEmailChange, Vouched, Tokened
<1>4. /\ new \in Rows /\ new.email = old.email /\ new.password = old.password
      /\ new.vtoken = old.vtoken /\ new.rtoken = old.rtoken /\ new.ptoken = Fresh
      /\ new.pending = e /\ new.verified = old.verified
  BY <1>1, <1>2, <1>3 DEF Rows
<1>5. \A c \in TokenColumns :
        Tok(new, c) = Tok(users[a], c) \/ (c = "p" /\ Tok(new, c) = issued + 1)
  BY <1>1, <1>3, <1>4 DEF Tok, TokenColumns
<1>6. Asked("change", a, new, 0)
  <2>1. "change" \in Ops /\ "change" \notin Using
    BY DEF Ops, Mailing, Using
  <2> QED
    BY <2>1, <1>2, <1>3, <1>4, <1>5, AskedOfRow DEF Vouched
<1>7. old.ptoken # Fresh
  <2>1. ~Stored(issued + 1)
    BY NextIsNew DEF Vouched
  <2>2. Stored(old.ptoken)
    BY <1>1 DEF Stored, Tok, TokenColumns
  <2> QED
    BY <2>1, <2>2, <1>3
<1>8. Shaped(q)
  <2>1. /\ q.op = "change" /\ q.acct = a /\ q.copy = old /\ q.new = new /\ q.to = e
    BY <1>1, <1>2 DEF Begun
  <2> QED
    BY <2>1, <1>1, <1>2, <1>3, <1>4, <1>7 DEF Shaped
<1>9. Begin(w, "change", a, new, e, 0)
  BY <1>1 DEF RequestEmailChange
<1>10. a \in Accounts \ tangled' => \A v \in Requests : ~Changing(req[v], a)
  BY DEF RequestEmailChange, Changing
<1>11. proved \subseteq proved' /\ tangled \subseteq tangled'
  BY DEF RequestEmailChange
<1>12. UNCHANGED <<users, mails, spent>> /\ Tokened'
  BY ChangeTokened DEF RequestEmailChange, Vouched
<1> QED
  BY <1>1, <1>2, <1>3, <1>6, <1>8, <1>9, <1>10, <1>11, <1>12, BeginVouched

LEMMA RegisterVouched ==
    ASSUME Vouched, NEW w \in Requests, NEW e \in Addresses, NEW p \in Phones,
           NEW secret \in Passwords, Register(w, e, p, secret)
    PROVE  Vouched'
<1>1. PICK new : new = [Absent EXCEPT !.email = e, !.phone = p, !.password = secret,
                                      !.vtoken = Fresh]
  OBVIOUS
<1>2. PICK a : a = IF WithEmail(e) = {} THEN None
                   ELSE CHOOSE b \in WithEmail(e) : TRUE
  OBVIOUS
<1>3. PICK q : q = Begun("register", a, new, e, 0)
  OBVIOUS
<1>4. Begin(w, "register", a, new, e, 0)
  BY <1>1, <1>2 DEF Register
<1>5. a = None \/ a \in WithEmail(e)
  BY <1>2
<1>6. /\ e # None /\ secret # None /\ 0 \in Tokens
      /\ Fresh = issued + 1 /\ issued' = issued + 1 /\ issued' \in Tokens
      /\ issued' >= issued
  BY Typed, Generated, Null DEF Register, Vouched, Tokened
<1>7. /\ new \in Rows /\ new.verified = FALSE /\ new.pending = None
      /\ new.email = e /\ new.password = secret
      /\ new.vtoken = Fresh /\ new.rtoken = 0 /\ new.ptoken = 0
  BY <1>1, <1>6, Null DEF Rows, Absent
<1>8. \A c \in TokenColumns :
        Tok(new, c) = 0 \/ (c = "v" /\ Tok(new, c) = issued + 1)
  BY <1>6, <1>7 DEF Tok, TokenColumns
<1>9. q.op = "register" /\ q.acct = a /\ q.new = new
      /\ q.copy = IF a = None THEN Absent ELSE users[a]
  BY <1>3 DEF Begun
<1>10. proved' = proved /\ tangled' = tangled /\ Tokened'
  BY RegisterTokened DEF Register, Vouched
<1>11. "register" \in Ops /\ "register" \notin Using
  BY DEF Ops, Mailing, Using
<1>12. CASE a = None
  <2>1. issued + 1 # 0
    BY Typed DEF Vouched, Tokened
  <2>2. \A c, d \in TokenColumns :
          Tok(new, c) = issued + 1 /\ Tok(new, d) = issued + 1 => c = d
    BY <1>8, <2>1
  <2>3. Asked("register", a, new, 0)
    BY <1>6, <1>7, <1>8, <1>11, <1>12, <2>2 DEF Asked
  <2>4. Shaped(q)
    BY <1>7, <1>9, <1>12, AbsentRow DEF Shaped
  <2> QED
    BY <1>3, <1>4, <1>6, <1>10, <1>12, <2>3, <2>4, BeginVouched, Null DEF Register
<1>13. CASE a \in WithEmail(e)
  <2>1. /\ a \in Present /\ users[a].email = e /\ users[a].password = None
        /\ a \in Accounts /\ a # None /\ Owned(users[a])
    BY <1>13, PresentRow DEF Register, WithEmail, Vouched, Tokened
  <2>2. ~users[a].verified /\ users[a].ptoken = 0
    BY <2>1 DEF Owned
  <2>3. users[a].pending = None /\ users[a].verified = FALSE
    BY <2>1, <2>2, RowFields DEF Vouched, Tokened, Accounted, TypeOK
  <2>4. Asked("register", a, new, 0)
    BY <2>1, <1>6, <1>7, <1>8, <1>11, AskedOfRow DEF Vouched
  <2>5. Shaped(q)
    BY <2>1, <2>2, <2>3, <1>7, <1>9 DEF Shaped
  <2> QED
    BY <1>3, <1>4, <1>6, <1>10, <2>1, <2>4, <2>5, BeginVouched DEF Register
<1> QED
  BY <1>5, <1>12, <1>13

LEMMA InitVouched == Init => Vouched
<1> SUFFICES ASSUME Init PROVE Vouched
  OBVIOUS
<1>1. /\ mails = {} /\ req = [w \in Requests |-> Idle] /\ tangled = {}
  BY Zenon DEF Init
<1>2. PICK f \in [Accounts -> Addresses], g \in [Accounts -> Phones] :
        /\ users = [a \in Accounts |->
             IF a \in Existing
             THEN [Absent EXCEPT !.email = f[a], !.phone = g[a],
                                 !.password = CHOOSE p \in Passwords : TRUE,
                                 !.verified = TRUE]
             ELSE IF a \in Legacy
             THEN [Absent EXCEPT !.email = f[a], !.phone = g[a]] ELSE Absent]
        /\ proved = {f[a] : a \in Existing}
  BY DEF Init
<1>3. \A w \in Requests : req[w].pc = "idle"
  BY <1>1, IdleLocal
<1>4. ASSUME NEW a \in Accounts
      PROVE  /\ users[a].pending = None
             /\ users[a].verified => users[a].email \in proved
  <2>1. CASE a \in Existing
    <3>1. users[a] = [Absent EXCEPT !.email = f[a], !.phone = g[a],
                                    !.password = CHOOSE p \in Passwords : TRUE,
                                    !.verified = TRUE]
      BY <1>2, <2>1
    <3>2. users[a].email = f[a] /\ users[a].pending = None
      BY <3>1 DEF Absent
    <3>3. f[a] \in proved
      BY <1>2, <2>1
    <3> QED
      BY <3>2, <3>3
  <2>2. CASE a \in Legacy \ Existing
    <3>1. users[a] = [Absent EXCEPT !.email = f[a], !.phone = g[a]]
      BY <1>2, <2>2
    <3> QED
      BY <3>1 DEF Absent
  <2>3. CASE a \notin Existing \cup Legacy
    <3>1. users[a] = Absent
      BY <1>2, <2>3
    <3> QED
      BY <3>1 DEF Absent
  <2> QED
    BY <2>1, <2>2, <2>3
<1>5. \A a \in Accounts : Settled(a)
  BY <1>1, <1>3, <1>4 DEF Settled, Proved, Answered, Changing
<1> QED
  BY <1>1, <1>3, <1>4, <1>5, InitTokened DEF Vouched, Shaped

LEMMA StepVouched == Vouched /\ [Next]_vars => Vouched'
<1> SUFFICES ASSUME Vouched, [Next]_vars PROVE Vouched'
  OBVIOUS
<1>1. CASE UNCHANGED vars
  <2>1. Tokened'
    BY StepTokened DEF Vouched
  <2> QED
    BY <1>1, <2>1
    DEF vars, Vouched, Shaped, Settled, Answered, Delivered, Changing, Proved, Minted,
        Mints
<1>2. CASE Next
  <2>1. PICK w \in Requests :
          \/ \E e \in Addresses, p \in Phones, secret \in Passwords :
               Register(w, e, p, secret)
          \/ \E m \in mails : VerifyEmail(w, m) \/ ConfirmEmailChange(w, m)
          \/ \E m \in mails, secret \in Passwords : ResetPassword(w, m, secret)
          \/ \E a \in Accounts : ResendVerification(w, a) \/ ForgotPassword(w, a)
          \/ \E a \in Accounts, secret \in Passwords : ChangePassword(w, a, secret)
          \/ \E a \in Accounts, e \in Addresses : RequestEmailChange(w, a, e)
          \/ \E a \in Accounts, p \in Phones : ChangePhone(w, a, p)
          \/ Save(w) \/ Mail(w) \/ Fail(w)
    BY <1>2 DEF Next
  <2>2. CASE \E e \in Addresses, p \in Phones, secret \in Passwords :
               Register(w, e, p, secret)
    BY <2>2, RegisterVouched
  <2>3. CASE \E m \in mails : VerifyEmail(w, m) \/ ConfirmEmailChange(w, m)
    BY <2>3, VerifyVouched, ConfirmVouched
  <2>4. CASE \E m \in mails, secret \in Passwords : ResetPassword(w, m, secret)
    BY <2>4, ResetVouched
  <2>5. CASE \E a \in Accounts : ResendVerification(w, a) \/ ForgotPassword(w, a)
    BY <2>5, ResendVouched, ForgotVouched
  <2>6. CASE \E a \in Accounts, secret \in Passwords : ChangePassword(w, a, secret)
    BY <2>6, PasswordVouched
  <2>7. CASE \E a \in Accounts, e \in Addresses : RequestEmailChange(w, a, e)
    BY <2>7, ChangeVouched
  <2>8. CASE \E a \in Accounts, p \in Phones : ChangePhone(w, a, p)
    BY <2>8, PhoneVouched
  <2>9. CASE Save(w)
    BY <2>9, SavePicks, SaveVouched
  <2>10. CASE Mail(w)
    BY <2>10, MailVouched
  <2>11. CASE Fail(w)
    BY <2>11, FailVouched
  <2> QED
    BY <2>1, <2>2, <2>3, <2>4, <2>5, <2>6, <2>7, <2>8, <2>9, <2>10, <2>11
<1> QED
  BY <1>1, <1>2

\* The address of a verified account is one whose mailbox opened a link
\* (verify_email, confirm_email_change), whatever requests of however many
\* people interleave, unless two email-change requests of the account overlapped.
THEOREM VerifiedIsAlwaysProved == Spec => []VerifiedIsProved
<1>1. Vouched /\ [Next]_vars => Vouched'
  BY StepVouched
<1>2. Vouched => VerifiedIsProved
  BY DEF Vouched, Settled, VerifiedIsProved
<1> QED
  BY InitVouched, <1>1, <1>2, PTL DEF Spec
=============================================================================
