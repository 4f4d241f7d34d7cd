---------------------------- MODULE AccountsProofs ----------------------------
(***************************************************************************)
(* Proofs about Accounts, for any number of requests, accounts, e-mails    *)
(* and passwords.                                                          *)
(*                                                                         *)
(* The inductive invariant Inv has two parts.  TablesOK speaks of the      *)
(* rows.  HandlersOK says of every running handler what the rows do not    *)
(* show: that the row it loaded is still in the table, which kind of       *)
(* password it is about to save, and which link let it in.                 *)
(***************************************************************************)
EXTENDS Accounts, FiniteSetTheorems, TLAPS

\* A handler h is as it should be while the tables are rw and the links tk.
HandlerOK(h, rw, tk) ==
    /\ h \in Handler
    /\ h.pc \in {"forget", "save", "clear", "remove"} => rw[h.a] # None
    /\ h.pc = "save" /\ h.op \in {"reset", "change"} =>
           h.e.pw # None /\ h.e.pw.n = 0
    /\ h.pc = "save" /\ h.op \in {"profile", "edit"} /\ h.a.kind = "admin" =>
           h.e.pw = None
    /\ \A purpose \in Purposes : ActingOn(h, purpose) =>
           [purpose |-> purpose, kind |-> h.a.kind, id |-> h.a.id] \in tk

HandlersOK ==
    /\ req \in [Requests -> Handler]
    /\ \A r \in Requests : HandlerOK(req[r], row, tokens)

TablesTyped ==
    /\ row \in [Account -> Row \cup {None}]
    /\ tokens \subseteq Token
    /\ chosen \in [Account ->
           [p : Passwords, by : {"create", "reset", "change"}] \cup {None}]
    /\ spoiled \subseteq Account

RowsHaveChosen == \A a \in Account : row[a] # None => chosen[a] # None

EmailsAreUnique ==
    \A a, b \in Account :
        Exists(a) /\ Exists(b) /\ a.kind = b.kind /\ row[a].email = row[b].email
            => a = b

TablesOK ==
    TablesTyped /\ RowsHaveChosen /\ LatestPasswordWorks /\ EmailsAreUnique

Inv == TablesOK /\ HandlersOK

-------------------------------------------------------------------------------

\* What the program counter of a handler says of its other fields.
LEMMA HandlerFields ==
    ASSUME NEW h \in Handler
    PROVE /\ h.pc = "idle" <=> h = Idle
          /\ h.pc = "insert" =>
                /\ h.op \in {"create", "register"} /\ h.kind \in Kinds
                /\ h.email \in Emails /\ h.pw \in Passwords
          /\ h.pc \in {"remember", "enqueue"} => h.t \in Token
          /\ h.pc = "forget" =>
                h.a \in Account /\ h.e \in Entity /\ h.pw \in Passwords
          /\ h.pc = "save" =>
                /\ h.op \in {"verify", "reset", "change", "profile", "edit"}
                /\ h.a \in Account /\ h.e \in Entity
          /\ h.pc \in {"clear", "remove"} => h.a \in Account
  BY DEF Handler, Idle

\* What a live row is loaded into.
LEMMA LoadedEntity ==
    ASSUME TablesTyped, NEW a \in Account, Exists(a)
    PROVE /\ row[a] # None
          /\ Loaded(a) \in Entity
          /\ Loaded(a).pw = row[a].pw
          /\ row[a].pw \in Stored
<1>1. row[a] \in Row
  BY DEF TablesTyped, Exists
<1>2. /\ row[a].email \in Emails
      /\ row[a].verified \in BOOLEAN
      /\ row[a].pw \in Stored
  BY <1>1 DEF Row
<1>3. row[a].pw \in InMemory
  BY <1>2 DEF Stored, InMemory
<1>4. QED
  BY <1>2, <1>3 DEF Loaded, Entity, Exists

\* The hook stores a hash, and a plain password so that it matches.
LEMMA HashIsStored ==
    ASSUME NEW pw \in InMemory
    PROVE /\ HashPassword(pw) \in Stored
          /\ pw.n = 0 => Matches(HashPassword(pw), pw.p)
<1>1. pw.p \in Passwords /\ pw.n \in 0 .. 2 /\ pw = [p |-> pw.p, n |-> pw.n]
  BY DEF InMemory
<1>2. CASE pw.n = 2
  BY <1>1, <1>2 DEF HashPassword, Stored
<1>3. CASE pw.n # 2
  <2>1. HashPassword(pw) = [p |-> pw.p, n |-> pw.n + 1]
    BY <1>1, <1>3 DEF HashPassword
  <2>2. QED
    BY <1>1, <1>3, <2>1 DEF Stored, Matches
<1>4. QED
  BY <1>2, <1>3

\* Rows are never taken out of the table and links stay, so what holds of a
\* handler goes on to hold.
LEMMA HandlersGoOn ==
    ASSUME HandlersOK, NEW r \in Requests, NEW h,
           req' = [req EXCEPT ![r] = h],
           HandlerOK(h, row', tokens'),
           \A a \in Account : row[a] # None => row'[a] # None,
           tokens \subseteq tokens'
    PROVE HandlersOK'
<1>1. h \in Handler
  BY DEF HandlerOK
<1>2. req' \in [Requests -> Handler]
  BY <1>1 DEF HandlersOK
<1>3. ASSUME NEW q \in Requests PROVE HandlerOK(req'[q], row', tokens')
  <2>1. CASE q = r
    BY <2>1 DEF HandlersOK
  <2>2. CASE q # r
    <3>1. req'[q] = req[q] /\ HandlerOK(req[q], row, tokens)
      BY <2>2 DEF HandlersOK
    <3>2. HandlerOK(req[q], row', tokens')
      BY <3>1, HandlerFields DEF HandlerOK
    <3>3. QED
      BY <3>1, <3>2
  <2>3. QED
    BY <2>1, <2>2
<1>4. QED
  BY <1>2, <1>3 DEF HandlersOK

\* A step that writes no table and goes on with a handler that is as it should.
LEMMA QuietStep ==
    ASSUME Inv, NEW r \in Requests, NEW h, Continue(r, h),
           HandlerOK(h, row, tokens),
           UNCHANGED <<row, tokens, history>>
    PROVE Inv'
<1>1. HandlersOK'
  BY HandlersGoOn DEF Inv, Continue
<1>2. TablesOK'
  BY DEF Inv, TablesOK, TablesTyped, RowsHaveChosen, LatestPasswordWorks,
     EmailsAreUnique, Exists, history
<1>3. QED
  BY <1>1, <1>2 DEF Inv

-------------------------------------------------------------------------------
(* The steps that begin or go on with a handler and write no table *)

LEMMA LoadsAreQuiet ==
    ASSUME Inv, NEW r \in Requests,
           \/ \E a \in Account, old, new \in Passwords : LoadForChange(r, a, old, new)
           \/ \E a \in Account : LoadForProfile(r, a)
           \/ \E a \in Account, m \in Emails : LoadForEdit(r, a, m)
           \/ \E a \in Account : LoadForRemove(r, a)
    PROVE Inv'
<1> USE AccountsAssumption DEF Inv, TablesOK
<1>1. ASSUME NEW a \in Account, NEW old \in Passwords, NEW new \in Passwords,
             LoadForChange(r, a, old, new)
      PROVE Inv'
  <2> DEFINE h == [pc |-> "save", op |-> "change", a |-> a,
                   e |-> [Loaded(a) EXCEPT !.pw = [p |-> new, n |-> 0]]]
  <2>1. Exists(a) /\ Continue(r, h) /\ UNCHANGED <<row, tokens, history>>
    BY <1>1 DEF LoadForChange
  <2>2. row[a] # None /\ Loaded(a) \in Entity
    BY <2>1, LoadedEntity
  <2>3. [p |-> new, n |-> 0] \in InMemory
    BY DEF InMemory
  <2>4. h.e \in Entity /\ h.e.pw = [p |-> new, n |-> 0]
    BY <2>2, <2>3 DEF Entity
  <2>5. h \in Handler
    BY <2>4 DEF Handler
  <2>6. HandlerOK(h, row, tokens)
    BY <2>2, <2>3, <2>4, <2>5 DEF HandlerOK, ActingOn
  <2>7. QED
    BY <2>1, <2>6, QuietStep
<1>2. ASSUME NEW a \in Account, LoadForProfile(r, a)
      PROVE Inv'
  <2> DEFINE e == IF a.kind = "admin" THEN [Loaded(a) EXCEPT !.pw = None]
                                      ELSE Loaded(a)
             h == [pc |-> "save", op |-> "profile", a |-> a, e |-> e]
  <2>1. Exists(a) /\ Continue(r, h) /\ UNCHANGED <<row, tokens, history>>
    BY <1>2 DEF LoadForProfile
  <2>2. row[a] # None /\ Loaded(a) \in Entity
    BY <2>1, LoadedEntity
  <2>3. e \in Entity /\ (a.kind = "admin" => e.pw = None)
    BY <2>2 DEF Entity
  <2>4. h \in Handler
    BY <2>3 DEF Handler
  <2>5. HandlerOK(h, row, tokens)
    BY <2>2, <2>3, <2>4 DEF HandlerOK, ActingOn
  <2>6. QED
    BY <2>1, <2>5, QuietStep
<1>3. ASSUME NEW a \in Account, NEW m \in Emails, LoadForEdit(r, a, m)
      PROVE Inv'
  <2> DEFINE e == IF a.kind = "admin"
                  THEN [Loaded(a) EXCEPT !.pw = None, !.email = m] ELSE Loaded(a)
             h == [pc |-> "save", op |-> "edit", a |-> a, e |-> e]
  <2>1. Exists(a) /\ Continue(r, h) /\ UNCHANGED <<row, tokens, history>>
    BY <1>3 DEF LoadForEdit
  <2>2. row[a] # None /\ Loaded(a) \in Entity
    BY <2>1, LoadedEntity
  <2>3. e \in Entity /\ (a.kind = "admin" => e.pw = None)
    BY <2>2 DEF Entity
  <2>4. h \in Handler
    BY <2>3 DEF Handler
  <2>5. HandlerOK(h, row, tokens)
    BY <2>2, <2>3, <2>4 DEF HandlerOK, ActingOn
  <2>6. QED
    BY <2>1, <2>5, QuietStep
<1>4. ASSUME NEW a \in Account, LoadForRemove(r, a)
      PROVE Inv'
  <2> DEFINE h == [pc |-> "remove", a |-> a]
  <2>1. Exists(a) /\ Continue(r, h) /\ UNCHANGED <<row, tokens, history>>
    BY <1>4 DEF LoadForRemove
  <2>2. h \in Handler
    BY DEF Handler
  <2>3. HandlerOK(h, row, tokens)
    BY <2>1, <2>2 DEF HandlerOK, ActingOn, Exists
  <2>4. QED
    BY <2>1, <2>3, QuietStep
<1>5. QED
  BY <1>1, <1>2, <1>3, <1>4

LEMMA OpenLinkIsQuiet ==
    ASSUME Inv, NEW r \in Requests, NEW t \in tokens, NEW k \in Kinds,
           NEW p \in Passwords, OpenLink(r, t, k, p)
    PROVE Inv'
<1> DEFINE a == [kind |-> k, id |-> t.id]
           v == [pc |-> "save", op |-> "verify", a |-> a,
                 e |-> [Loaded(a) EXCEPT !.verified = TRUE]]
           f == [pc |-> "forget", a |-> a, e |-> Loaded(a), pw |-> p]
<1>1. /\ Exists(a) /\ UNCHANGED <<row, tokens, history>>
      /\ \/ VerifyToken(t, "verify", k) /\ Continue(r, v)
         \/ VerifyToken(t, "forgot", k) /\ Continue(r, f)
  BY DEF OpenLink
<1>2. t \in Token /\ a \in Account
  BY DEF Inv, TablesOK, TablesTyped, Token, Account
<1>3. row[a] # None /\ Loaded(a) \in Entity
  BY <1>1, <1>2, LoadedEntity DEF Inv, TablesOK
<1>4. ASSUME NEW purpose \in Purposes, VerifyToken(t, purpose, k)
      PROVE [purpose |-> purpose, kind |-> a.kind, id |-> a.id] \in tokens
  BY <1>2, <1>4 DEF VerifyToken, Token
<1>5. CASE VerifyToken(t, "verify", k) /\ Continue(r, v)
  <2>1. v.e \in Entity
    BY <1>3 DEF Entity
  <2>2. v \in Handler
    BY <1>2, <2>1 DEF Handler
  <2>3. HandlerOK(v, row, tokens)
    BY <1>3, <1>4, <1>5, <2>2 DEF HandlerOK, ActingOn, Purposes
  <2>4. QED
    BY <1>1, <1>5, <2>3, QuietStep
<1>6. CASE VerifyToken(t, "forgot", k) /\ Continue(r, f)
  <2>1. f \in Handler
    BY <1>2, <1>3 DEF Handler
  <2>2. HandlerOK(f, row, tokens)
    BY <1>3, <1>4, <1>6, <2>1 DEF HandlerOK, ActingOn, Purposes
  <2>3. QED
    BY <1>1, <1>6, <2>2, QuietStep
<1>7. QED
  BY <1>1, <1>5, <1>6

LEMMA ForgetTokenIsQuiet ==
    ASSUME Inv, NEW r \in Requests, ForgetToken(r)
    PROVE Inv'
<1> DEFINE e == [req[r].e EXCEPT !.pw = [p |-> req[r].pw, n |-> 0]]
           h == [pc |-> "save", op |-> "reset", a |-> req[r].a, e |-> e]
<1>1. /\ req[r].pc = "forget" /\ Continue(r, h)
      /\ UNCHANGED <<row, tokens, history>>
  BY DEF ForgetToken
<1>2. HandlerOK(req[r], row, tokens)
  BY DEF Inv, HandlersOK
<1>3. /\ req[r].a \in Account /\ req[r].e \in Entity /\ req[r].pw \in Passwords
      /\ row[req[r].a] # None
  BY <1>1, <1>2, HandlerFields DEF HandlerOK
<1>4. [p |-> req[r].pw, n |-> 0] \in InMemory
  BY <1>3 DEF InMemory
<1>5. e \in Entity /\ e.pw = [p |-> req[r].pw, n |-> 0]
  BY <1>3, <1>4 DEF Entity
<1>6. h \in Handler
  BY <1>3, <1>5 DEF Handler
<1>7. [purpose |-> "forgot", kind |-> h.a.kind, id |-> h.a.id] \in tokens
  BY <1>1, <1>2 DEF HandlerOK, ActingOn, Purposes
<1>8. HandlerOK(h, row, tokens)
  <2>1. h.pc = "save" /\ h.op = "reset" /\ h.a = req[r].a /\ h.e = e
    OBVIOUS
  <2>2. e.pw # None /\ e.pw.n = 0
    BY <1>4, <1>5, AccountsAssumption
  <2> HIDE DEF h, e
  <2>3. QED
    BY <1>3, <1>6, <1>7, <2>1, <2>2 DEF HandlerOK, ActingOn, Purposes
<1>9. QED
  BY <1>1, <1>8, QuietStep

LEMMA OthersAreQuiet ==
    ASSUME Inv, NEW r \in Requests,
           \/ \E op \in {"create", "register"}, k \in Kinds, m \in Emails,
                 p \in Passwords : FindByEmail(r, op, k, m, p)
           \/ \E purpose \in Purposes, a \in Account : AskForLink(r, purpose, a)
           \/ InsertRejected(r) \/ RememberToken(r) \/ ForgetTokenMismatch(r)
           \/ ClearToken(r) \/ SaveRejected(r) \/ FailIO(r)
    PROVE Inv'
<1>1. HandlerOK(Idle, row, tokens)
  BY DEF HandlerOK, Idle, Handler, ActingOn
<1>2. ASSUME Answer(r), UNCHANGED <<row, tokens, history>> PROVE Inv'
  BY <1>1, <1>2, QuietStep DEF Answer
<1>3. ASSUME NEW op \in {"create", "register"}, NEW k \in Kinds, NEW m \in Emails,
             NEW p \in Passwords, FindByEmail(r, op, k, m, p)
      PROVE Inv'
  <2> DEFINE h == [pc |-> "insert", op |-> op, kind |-> k, email |-> m, pw |-> p]
  <2>1. h \in Handler
    BY DEF Handler
  <2>2. HandlerOK(h, row, tokens)
    BY <2>1 DEF HandlerOK, ActingOn
  <2>3. QED
    BY <1>3, <2>2, QuietStep DEF FindByEmail
<1>4. ASSUME NEW pc \in {"remember", "enqueue"}, NEW t \in Token,
             Continue(r, [pc |-> pc, t |-> t]), UNCHANGED <<row, tokens, history>>
      PROVE Inv'
  <2>1. [pc |-> pc, t |-> t] \in Handler
    BY DEF Handler
  <2>2. HandlerOK([pc |-> pc, t |-> t], row, tokens)
    BY <2>1 DEF HandlerOK, ActingOn
  <2>3. QED
    BY <1>4, <2>2, QuietStep
<1>5. ASSUME NEW purpose \in Purposes, NEW a \in Account, AskForLink(r, purpose, a)
      PROVE Inv'
  <2>1. [purpose |-> purpose, kind |-> a.kind, id |-> a.id] \in Token
    BY DEF Token, Account
  <2>2. QED
    BY <1>4, <1>5, <2>1 DEF AskForLink
<1>6. CASE RememberToken(r)
  <2>1. req[r].t \in Token
    BY <1>6, HandlerFields DEF RememberToken, Inv, HandlersOK
  <2>2. QED
    BY <1>4, <1>6, <2>1 DEF RememberToken
<1>7. QED
  BY <1>2, <1>3, <1>5, <1>6
     DEF InsertRejected, ForgetTokenMismatch, ClearToken, SaveRejected, FailIO

-------------------------------------------------------------------------------
(* The steps that write a table *)

LEMMA EnqueueKeepsInv ==
    ASSUME Inv, NEW r \in Requests, EnqueueMail(r)
    PROVE Inv'
<1>1. req[r].t \in Token
  BY HandlerFields DEF EnqueueMail, Inv, HandlersOK
<1>2. HandlerOK(Idle, row', tokens')
  BY DEF HandlerOK, Idle, Handler, ActingOn
<1>3. HandlersOK'
  BY <1>2, HandlersGoOn DEF EnqueueMail, Answer, Continue, Inv
<1>4. TablesOK'
  BY <1>1 DEF EnqueueMail, Inv, TablesOK, TablesTyped, RowsHaveChosen,
     LatestPasswordWorks, EmailsAreUnique, Exists, history
<1>5. QED
  BY <1>3, <1>4 DEF Inv

LEMMA InsertKeepsInv ==
    ASSUME Inv, NEW r \in Requests, Insert(r)
    PROVE Inv'
<1> DEFINE k == req[r].kind
           pw == [p |-> req[r].pw, n |-> 1]
           new == [email |-> req[r].email, pw |-> pw, verified |-> FALSE,
                   live |-> TRUE]
           c == [p |-> req[r].pw, by |-> "create"]
<1> USE DEF Inv, TablesOK, TablesTyped
<1>1. req[r].pc = "insert" /\ req[r] \in Handler
  BY DEF Insert, HandlersOK
<1>2. k \in Kinds /\ req[r].email \in Emails /\ req[r].pw \in Passwords
  BY <1>1, HandlerFields
<1>3. PICK a \in Account :
         /\ a.kind = k /\ IsNext(a)
         /\ row' = [row EXCEPT ![a] = new]
         /\ chosen' = [chosen EXCEPT ![a] = c]
         /\ IF req[r].op = "register"
            THEN Continue(r, [pc |-> "remember", t |->
                     [purpose |-> "verify", kind |-> a.kind, id |-> a.id]])
            ELSE Answer(r)
  BY DEF Insert
<1>4. UNCHANGED <<tokens, spoiled>> /\ LiveWith(k, req[r].email) = {}
  BY DEF Insert
<1>5. new \in Row /\ new # None /\ c # None
  <2>1. pw \in Stored
    BY <1>2 DEF Stored
  <2>2. new \in Row
    BY <1>2, <2>1 DEF Row
  <2>3. c \in [p : Passwords, by : {"create", "reset", "change"}]
    BY <1>2
  <2>4. QED
    BY <2>2, <2>3, AccountsAssumption
<1>6. TablesTyped'
  BY <1>2, <1>3, <1>4, <1>5
<1>7. RowsHaveChosen'
  BY <1>3, <1>5 DEF RowsHaveChosen
<1>8. LatestPasswordWorks'
  <2>1. ASSUME NEW b \in Account \ spoiled, b # a, row'[b] # None
        PROVE Matches(row'[b].pw, chosen'[b].p)
    BY <1>3, <2>1 DEF LatestPasswordWorks
  <2>2. Matches(row'[a].pw, chosen'[a].p)
    BY <1>3 DEF Matches
  <2>3. QED
    BY <1>4, <2>1, <2>2 DEF LatestPasswordWorks
<1>9. EmailsAreUnique'
  <2>1. ASSUME NEW b \in Account, b # a, row[b] # None, row[b].live, b.kind = k
        PROVE row[b].email # req[r].email
    BY <1>4, <2>1 DEF LiveWith, Exists
  <2>2. /\ row'[a].email = req[r].email
        /\ \A b \in Account : b # a => row'[b] = row[b]
    BY <1>3
  <2>3. QED
    BY <1>3, <2>1, <2>2 DEF EmailsAreUnique, Exists
<1>10. HandlersOK'
  <2>1. \A b \in Account : row[b] # None => row'[b] # None
    BY <1>3, <1>5
  <2>2. HandlerOK(Idle, row', tokens')
    BY DEF HandlerOK, Idle, Handler, ActingOn
  <2> DEFINE t == [purpose |-> "verify", kind |-> a.kind, id |-> a.id]
             h == [pc |-> "remember", t |-> t]
  <2>3. t \in Token
    BY DEF Token, Account, Purposes
  <2>4. h \in Handler
    BY <2>3 DEF Handler
  <2>5. HandlerOK(h, row', tokens')
    BY <2>4 DEF HandlerOK, ActingOn
  <2>6. QED
    BY <1>3, <1>4, <2>1, <2>2, <2>5, HandlersGoOn DEF Answer, Continue
<1>11. QED
  BY <1>6, <1>7, <1>8, <1>9, <1>10

LEMMA SoftRemoveKeepsInv ==
    ASSUME Inv, NEW r \in Requests, SoftRemove(r)
    PROVE Inv'
<1> DEFINE a == req[r].a
<1> USE DEF Inv, TablesOK, TablesTyped
<1>1. /\ req[r].pc = "remove" /\ row' = [row EXCEPT ![a].live = FALSE]
      /\ Answer(r) /\ UNCHANGED <<tokens, history>>
  BY DEF SoftRemove
<1>2. a \in Account /\ row[a] \in Row
  BY <1>1, HandlerFields DEF HandlersOK, HandlerOK
<1>3. /\ row'[a] \in Row /\ row'[a].pw = row[a].pw /\ ~ row'[a].live
      /\ \A b \in Account : b # a => row'[b] = row[b]
      /\ row' \in [Account -> Row \cup {None}]
  BY <1>1, <1>2 DEF Row
<1>4. row[a] # None /\ row'[a] # None
  BY <1>2, <1>3, AccountsAssumption
<1>5. TablesTyped' /\ RowsHaveChosen' /\ LatestPasswordWorks'
  BY <1>1, <1>3, <1>4 DEF history, RowsHaveChosen, LatestPasswordWorks
<1>6. EmailsAreUnique'
  BY <1>3 DEF EmailsAreUnique, Exists
<1>7. HandlerOK(Idle, row', tokens')
  BY DEF HandlerOK, Idle, Handler, ActingOn
<1>8. HandlersOK'
  BY <1>1, <1>3, <1>4, <1>7, HandlersGoOn DEF Answer, Continue
<1>9. QED
  BY <1>5, <1>6, <1>8

\* What a save does, whichever handler it belongs to.
LEMMA SaveStep ==
    ASSUME Inv, NEW r \in Requests, Save(r)
    PROVE LET a == req[r].a
              e == req[r].e
              op == req[r].op IN
          /\ a \in Account /\ e \in Entity /\ row[a] \in Row
          /\ op \in {"verify", "reset", "change", "profile", "edit"}
          /\ row' \in [Account -> Row \cup {None}]
          /\ \A b \in Account : b # a => row'[b] = row[b]
          /\ row'[a] \in Row /\ row'[a].email = e.email
          /\ e.pw = None => row'[a].pw = row[a].pw
          /\ op \in {"reset", "change"} =>
                 e.pw \in InMemory /\ Matches(row'[a].pw, e.pw.p)
<1> DEFINE a == req[r].a
           e == req[r].e
           pw == IF e.pw = None THEN row[a].pw ELSE HashPassword(e.pw)
           new == [email |-> e.email, verified |-> e.verified, live |-> TRUE,
                   pw |-> pw]
<1> USE AccountsAssumption DEF Inv, TablesOK, TablesTyped
<1>1. req[r].pc = "save" /\ row' = [row EXCEPT ![a] = new]
  BY DEF Save
<1>2. HandlerOK(req[r], row, tokens)
  BY DEF HandlersOK
<1>3. /\ a \in Account /\ e \in Entity
      /\ req[r].op \in {"verify", "reset", "change", "profile", "edit"}
  BY <1>1, <1>2, HandlerFields DEF HandlerOK
<1>4. row[a] \in Row
  BY <1>1, <1>2, <1>3 DEF HandlerOK
<1>5. /\ e.email \in Emails /\ e.verified \in BOOLEAN
      /\ e.pw \in InMemory \cup {None} /\ row[a].pw \in Stored
  BY <1>3, <1>4 DEF Entity, Row
<1>6. pw \in Stored
  BY <1>5, HashIsStored
<1>7. new \in Row
  BY <1>5, <1>6 DEF Row
<1>8. /\ row' \in [Account -> Row \cup {None}] /\ row'[a] = new
      /\ \A b \in Account : b # a => row'[b] = row[b]
  BY <1>1, <1>3, <1>7
<1>9. ASSUME req[r].op \in {"reset", "change"}
      PROVE e.pw \in InMemory /\ Matches(pw, e.pw.p)
  <2>1. e.pw # None /\ e.pw.n = 0
    BY <1>1, <1>2, <1>9 DEF HandlerOK
  <2>2. QED
    BY <1>5, <2>1, HashIsStored
<1>10. new.email = e.email /\ new.pw = pw
  OBVIOUS
<1> HIDE DEF new
<1>11. QED
  BY <1>3, <1>4, <1>7, <1>8, <1>9, <1>10

LEMMA SaveKeepsInv ==
    ASSUME Inv, NEW r \in Requests, Save(r)
    PROVE Inv'
<1> DEFINE a == req[r].a
           e == req[r].e
           op == req[r].op
           c == [p |-> e.pw.p, by |-> op]
<1> USE DEF Inv, TablesOK, TablesTyped
<1>1. /\ req[r].pc = "save" /\ LiveWith(a.kind, e.email) \subseteq {a}
      /\ chosen' = IF op \in {"reset", "change"}
                   THEN [chosen EXCEPT ![a] = c] ELSE chosen
      /\ spoiled' = IF op \in {"reset", "change"} THEN spoiled \ {a}
                    ELSE IF Rehashing(a.kind, op) THEN spoiled \cup {a}
                    ELSE spoiled
      /\ IF op = "verify" THEN Continue(r, [pc |-> "clear", a |-> a])
                          ELSE Answer(r)
      /\ UNCHANGED tokens
  BY DEF Save
<1>2. /\ a \in Account /\ e \in Entity /\ row[a] \in Row
      /\ op \in {"verify", "reset", "change", "profile", "edit"}
      /\ row' \in [Account -> Row \cup {None}]
      /\ \A b \in Account : b # a => row'[b] = row[b]
      /\ row'[a] \in Row /\ row'[a].email = e.email
      /\ e.pw = None => row'[a].pw = row[a].pw
      /\ op \in {"reset", "change"} =>
             e.pw \in InMemory /\ Matches(row'[a].pw, e.pw.p)
  BY SaveStep
<1>3. row[a] # None /\ row'[a] # None
  BY <1>2, AccountsAssumption
<1>4. op \in {"reset", "change"} =>
          c \in [p : Passwords, by : {"create", "reset", "change"}] /\ c # None
  BY <1>2, AccountsAssumption DEF InMemory
<1>5. TablesTyped'
  BY <1>1, <1>2, <1>4
<1>6. RowsHaveChosen'
  BY <1>1, <1>2, <1>3, <1>4 DEF RowsHaveChosen
<1>7. LatestPasswordWorks'
  <2>1. ASSUME NEW b \in Account \ spoiled', b # a, row'[b] # None
        PROVE Matches(row'[b].pw, chosen'[b].p)
    BY <1>1, <1>2, <2>1 DEF LatestPasswordWorks
  <2>2. CASE op \in {"reset", "change"}
    <3>1. Matches(row'[a].pw, chosen'[a].p)
      BY <1>1, <1>2, <2>2
    <3>2. QED
      BY <2>1, <3>1 DEF LatestPasswordWorks
  <2>3. CASE op \notin {"reset", "change"} /\ Rehashing(a.kind, op)
    BY <1>1, <2>1, <2>3 DEF LatestPasswordWorks
  <2>4. CASE op \notin {"reset", "change"} /\ ~ Rehashing(a.kind, op)
    <3>1. op \in {"profile", "edit"} /\ a.kind = "admin"
      BY <1>2, <2>4, AccountsAssumption DEF Rehashing, Account
    <3>2. row'[a].pw = row[a].pw
      BY <1>1, <1>2, <3>1 DEF HandlersOK, HandlerOK
    <3>3. a \notin spoiled' => Matches(row'[a].pw, chosen'[a].p)
      BY <1>1, <1>2, <1>3, <2>4, <3>2 DEF LatestPasswordWorks
    <3>4. QED
      BY <2>1, <3>3 DEF LatestPasswordWorks
  <2>5. QED
    BY <2>2, <2>3, <2>4
<1>8. EmailsAreUnique'
  <2>1. ASSUME NEW b \in Account, b # a, row[b] # None, row[b].live,
               b.kind = a.kind
        PROVE row[b].email # e.email
    BY <1>1, <2>1 DEF LiveWith, Exists
  <2>2. QED
    BY <1>2, <2>1 DEF EmailsAreUnique, Exists
<1>9. HandlersOK'
  <2>1. \A b \in Account : row[b] # None => row'[b] # None
    BY <1>2, <1>3
  <2>2. HandlerOK(Idle, row', tokens')
    BY DEF HandlerOK, Idle, Handler, ActingOn
  <2>3. [pc |-> "clear", a |-> a] \in Handler
    BY <1>2 DEF Handler
  <2>4. HandlerOK([pc |-> "clear", a |-> a], row', tokens')
    BY <1>3, <2>3 DEF HandlerOK, ActingOn
  <2>5. QED
    BY <1>1, <2>1, <2>2, <2>4, HandlersGoOn DEF Answer, Continue
<1>10. QED
  BY <1>5, <1>6, <1>7, <1>8, <1>9

-------------------------------------------------------------------------------

\* The invariant holds at every step.
THEOREM Invariant == Spec => []Inv
<1>1. Init => Inv
  <2> SUFFICES ASSUME Init PROVE Inv
    OBVIOUS
  <2>1. TablesOK
    BY DEF Init, TablesOK, TablesTyped, RowsHaveChosen, LatestPasswordWorks,
       EmailsAreUnique, Exists
  <2>2. HandlerOK(Idle, row, tokens)
    BY DEF HandlerOK, Idle, Handler, ActingOn
  <2>3. HandlersOK
    BY <2>2 DEF Init, HandlersOK, HandlerOK
  <2>4. QED
    BY <2>1, <2>3 DEF Inv
<1>2. Inv /\ [Next]_vars => Inv'
  <2> SUFFICES ASSUME Inv, [Next]_vars PROVE Inv'
    OBVIOUS
  <2>1. CASE UNCHANGED vars
    BY <2>1 DEF vars, Inv, TablesOK, TablesTyped, RowsHaveChosen,
       LatestPasswordWorks, EmailsAreUnique, Exists, HandlersOK
  <2>2. ASSUME NEW r \in Requests, Arrival(r) PROVE Inv'
    BY <2>2, OthersAreQuiet, OpenLinkIsQuiet, LoadsAreQuiet DEF Arrival
  <2>3. ASSUME NEW r \in Requests, Handling(r) PROVE Inv'
    BY <2>3, InsertKeepsInv, OthersAreQuiet, EnqueueKeepsInv, ForgetTokenIsQuiet,
       SaveKeepsInv, SoftRemoveKeepsInv DEF Handling
  <2>4. QED
    BY <2>1, <2>2, <2>3 DEF Next
<1>3. QED
  BY <1>1, <1>2, PTL DEF Spec

\* Every variable keeps its type.
THEOREM TypeCorrect == Spec => []TypeOK
<1>1. Inv => TypeOK
  BY DEF Inv, TablesOK, TablesTyped, HandlersOK, TypeOK
<1>2. QED
  BY <1>1, Invariant, PTL

\* Whatever interleaves, the password last accepted opens the account, unless a
\* handler that saves the loaded hash came after.
THEOREM PasswordWorks == Spec => []LatestPasswordWorks
<1>1. Inv => LatestPasswordWorks
  BY DEF Inv, TablesOK
<1>2. QED
  BY <1>1, Invariant, PTL

\* A link acts on the account it was issued for.
THEOREM LinksStayWithAccount == Spec => []LinksActOnTheirAccount
<1>1. Inv => LinksActOnTheirAccount
  BY DEF Inv, HandlersOK, HandlerOK, LinksActOnTheirAccount
<1>2. QED
  BY <1>1, Invariant, PTL

\* There is at most one live account of a kind with an e-mail.
THEOREM OneAccountPerEmail == Spec => []OneLiveAccountPerEmail
<1>1. Inv => OneLiveAccountPerEmail
  <2> SUFFICES ASSUME Inv, NEW k \in Kinds, NEW m \in Emails
               PROVE Cardinality(LiveWith(k, m)) <= 1
    BY DEF OneLiveAccountPerEmail
  <2>1. \A a, b \in LiveWith(k, m) : a = b
    BY DEF Inv, TablesOK, EmailsAreUnique, LiveWith
  <2>2. CASE LiveWith(k, m) = {}
    BY <2>2, FS_EmptySet
  <2>3. CASE LiveWith(k, m) # {}
    <3>1. PICK a : a \in LiveWith(k, m)
      BY <2>3
    <3>2. LiveWith(k, m) = {a}
      BY <2>1, <3>1
    <3>3. Cardinality({a}) = 1
      BY FS_Singleton
    <3>4. QED
      BY <3>2, <3>3
  <2>4. QED
    BY <2>2, <2>3
<1>2. QED
  BY <1>1, Invariant, PTL

\* A removed account can come back only through a handler that loaded it before.
THEOREM RemovalIsFinal == Spec => RemovedStaysRemoved
<1> DEFINE P == \A a \in Account :
                  row[a] # None /\ ~ row[a].live /\ ~ Holding(a)
                      => ~ row'[a].live /\ ~ Holding(a)'
<1>1. Inv /\ [Next]_vars => P
  <2> SUFFICES ASSUME Inv, [Next]_vars, NEW a \in Account,
                      row[a] # None, ~ row[a].live, ~ Holding(a)
               PROVE ~ row'[a].live /\ ~ Holding(a)'
    OBVIOUS
  <2> USE DEF Inv, TablesOK, TablesTyped
  <2>1. ASSUME NEW r \in Requests, NEW h, Continue(r, h),
               h.pc \in {"forget", "save"} => h.a # a
        PROVE ~ Holding(a)'
    BY <2>1 DEF Continue, Holding, HandlersOK
  <2>2. ASSUME NEW r \in Requests, Answer(r) PROVE ~ Holding(a)'
    BY <2>1, <2>2 DEF Answer, Idle
  <2>3. CASE UNCHANGED vars
    BY <2>3 DEF vars, Holding
  <2>4. ASSUME NEW r \in Requests, Arrival(r)
        PROVE ~ row'[a].live /\ ~ Holding(a)'
    <3>1. row' = row
      BY <2>4 DEF Arrival, FindByEmail, AskForLink, OpenLink, LoadForChange,
         LoadForProfile, LoadForEdit, LoadForRemove
    <3>2. PICK h : Continue(r, h) /\ (h.pc \in {"forget", "save"} => Exists(h.a))
      <4> DEFINE Q == \E h : /\ Continue(r, h)
                             /\ h.pc \in {"forget", "save"} => Exists(h.a)
      <4>1. ASSUME NEW op \in {"create", "register"}, NEW k \in Kinds,
                   NEW m \in Emails, NEW p \in Passwords, FindByEmail(r, op, k, m, p)
            PROVE Q
        BY <4>1 DEF FindByEmail
      <4>2. ASSUME NEW purpose \in Purposes, NEW b \in Account,
                   AskForLink(r, purpose, b)
            PROVE Q
        BY <4>2 DEF AskForLink
      <4>3. ASSUME NEW t \in tokens, NEW k \in Kinds, NEW p \in Passwords,
                   OpenLink(r, t, k, p)
            PROVE Q
        BY <4>3 DEF OpenLink
      <4>4. ASSUME NEW b \in Account, NEW old \in Passwords, NEW new \in Passwords,
                   LoadForChange(r, b, old, new)
            PROVE Q
        BY <4>4 DEF LoadForChange
      <4>5. ASSUME NEW b \in Account, LoadForProfile(r, b) PROVE Q
        BY <4>5 DEF LoadForProfile
      <4>6. ASSUME NEW b \in Account, NEW m \in Emails, LoadForEdit(r, b, m) PROVE Q
        BY <4>6 DEF LoadForEdit
      <4>7. ASSUME NEW b \in Account, LoadForRemove(r, b) PROVE Q
        BY <4>7 DEF LoadForRemove
      <4>8. QED
        BY <2>4, <4>1, <4>2, <4>3, <4>4, <4>5, <4>6, <4>7 DEF Arrival
    <3>3. QED
      BY <2>1, <3>1, <3>2 DEF Exists
  <2>5. ASSUME NEW r \in Requests, Save(r)
        PROVE ~ row'[a].live /\ ~ Holding(a)'
    <3>1. req[r].a # a
      BY <2>5 DEF Save, Holding
    <3>2. row'[a] = row[a]
      BY <2>5, <3>1, SaveStep
    <3>3. ~ Holding(a)'
      BY <2>1, <2>2, <2>5 DEF Save
    <3>4. QED
      BY <3>2, <3>3
  <2>6. ASSUME NEW r \in Requests, ForgetToken(r)
        PROVE ~ row'[a].live /\ ~ Holding(a)'
    <3>1. req[r].a # a
      BY <2>6 DEF ForgetToken, Holding
    <3>2. QED
      BY <2>1, <2>6, <3>1 DEF ForgetToken
  <2>7. ASSUME NEW r \in Requests, Insert(r)
        PROVE ~ row'[a].live /\ ~ Holding(a)'
    <3>1. row'[a] = row[a]
      BY <2>7 DEF Insert, IsNext
    <3>2. ~ Holding(a)'
      BY <2>1, <2>2, <2>7 DEF Insert
    <3>3. QED
      BY <3>1, <3>2
  <2>8. ASSUME NEW r \in Requests, SoftRemove(r)
        PROVE ~ row'[a].live /\ ~ Holding(a)'
    <3>1. row' = [row EXCEPT ![req[r].a].live = FALSE]
      BY <2>8 DEF SoftRemove
    <3>2. row[a] \in Row
      OBVIOUS
    <3>3. ~ row'[a].live
      BY <3>1, <3>2 DEF Row
    <3>4. QED
      BY <2>2, <2>8, <3>3 DEF SoftRemove
  <2>9. ASSUME NEW r \in Requests,
               \/ InsertRejected(r) \/ RememberToken(r) \/ EnqueueMail(r)
               \/ ForgetTokenMismatch(r) \/ ClearToken(r) \/ SaveRejected(r)
               \/ FailIO(r)
        PROVE ~ row'[a].live /\ ~ Holding(a)'
    <3>1. row' = row
      BY <2>9 DEF InsertRejected, RememberToken, EnqueueMail, ForgetTokenMismatch,
         ClearToken, SaveRejected, FailIO
    <3>2. Answer(r) \/ Continue(r, [pc |-> "enqueue", t |-> req[r].t])
      BY <2>9 DEF InsertRejected, RememberToken, EnqueueMail, ForgetTokenMismatch,
         ClearToken, SaveRejected, FailIO
    <3>3. ~ Holding(a)'
      BY <2>1, <2>2, <3>2
    <3>4. QED
      BY <3>1, <3>3
  <2>10. QED
    BY <2>3, <2>4, <2>5, <2>6, <2>7, <2>8, <2>9 DEF Next, Handling
<1>2. QED
  BY <1>1, Invariant, PTL DEF Spec, RemovedStaysRemoved

===============================================================================
