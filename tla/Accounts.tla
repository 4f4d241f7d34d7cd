------------------------------- MODULE Accounts -------------------------------
(***************************************************************************)
(* The rows of `users` and `admin_users` and the handlers that write them: *)
(* registration, e-mail verification, forgotten, reset and changed         *)
(* passwords, profile edits and soft removal (user-auth.service.ts,        *)
(* admin-auth.service.ts, user.service.ts, admin-user.service.ts and the   *)
(* hooks of the two entities).                                             *)
(*                                                                         *)
(* A handler loads an entity, awaits, changes some of its fields and calls *)
(* save(), which writes every column in which the entity differs from the  *)
(* row as it is by then: what another handler wrote in between is undone.  *)
(* Before it writes, the hook of the entity hashes whatever stands in      *)
(* `password`, a plain password or the stored hash that was loaded.        *)
(*                                                                         *)
(* Abstractions.  A password value is the text it started from and how     *)
(* often it was hashed; argon2 accepts the text against one hashing only,  *)
(* and two stand for two or more.  Names, bio, phone and avatar are left   *)
(* out: a profile save is one that changes some of them.  A signed link    *)
(* reaches its holder as soon as its mail is queued, and one that expired  *)
(* is one its holder does not use.  The cache entries EMAIL_VERIFICATION   *)
(* and FORGOT_PASSWORD are written and deleted but read by no handler: of  *)
(* them only the await remains.  A caller whose old password is wrong or   *)
(* whose account is absent gets an error and changes nothing.              *)
(***************************************************************************)
EXTENDS Naturals, FiniteSets

CONSTANTS
    Requests,   \* the HTTP requests that can be in progress together
    Kinds,      \* account kinds that take part: a subset of "admin", "user"
    MaxId,      \* bound on the rows inserted per kind
    Emails,
    Passwords,
    None        \* the absent row; an entity field that was deleted

Ids == 1 .. MaxId
Account == [kind : Kinds, id : Ids]
Purposes == {"verify", "forgot"}

\* A signed link: each kind and purpose has a secret of its own.
Token == [purpose : Purposes, kind : Kinds, id : Ids]

Stored == [p : Passwords, n : {1, 2}]
InMemory == [p : Passwords, n : 0 .. 2]

Row == [email : Emails, pw : Stored, verified : BOOLEAN, live : BOOLEAN]

\* A loaded entity.  It was live, so its deletedAt is null.
Entity == [email : Emails, pw : InMemory \cup {None}, verified : BOOLEAN]

ASSUME AccountsAssumption ==
    /\ Kinds \subseteq {"admin", "user"}
    /\ MaxId \in Nat
    /\ None \notin Row
    /\ None \notin InMemory
    /\ None \notin [p : Passwords, by : {"create", "reset", "change"}]

VARIABLES
    row,      \* the two tables
    tokens,   \* the signed links handed out
    req,      \* the handler that runs in each request
    \* history variables, read by properties only
    chosen,   \* the password last accepted for an account, and by what
    spoiled   \* accounts whose row was saved by one of the re-hashing handlers

history == <<chosen, spoiled>>
vars == <<row, tokens, req, chosen, spoiled>>

Idle == [pc |-> "idle"]
Handler == {Idle}
    \cup [pc : {"insert"}, op : {"create", "register"}, kind : Kinds,
          email : Emails, pw : Passwords]
    \cup [pc : {"remember", "enqueue"}, t : Token]
    \cup [pc : {"forget"}, a : Account, e : Entity, pw : Passwords]
    \cup [pc : {"save"}, op : {"verify", "reset", "change", "profile", "edit"},
          a : Account, e : Entity]
    \cup [pc : {"clear"}, a : Account]
    \cup [pc : {"remove"}, a : Account]

-------------------------------------------------------------------------------

Init ==
    /\ row = [a \in Account |-> None]
    /\ tokens = {}
    /\ req = [r \in Requests |-> Idle]
    /\ chosen = [a \in Account |-> None]
    /\ spoiled = {}

\* find() leaves soft-deleted rows out.
Exists(a) == row[a] # None /\ row[a].live
LiveWith(k, m) == {a \in Account : a.kind = k /\ Exists(a) /\ row[a].email = m}

\* What findOneBy returns for a live row.
Loaded(a) == [email |-> row[a].email, pw |-> row[a].pw,
              verified |-> row[a].verified]

\* argon2.verify(stored, p)
Matches(stored, p) == stored = [p |-> p, n |-> 1]

Continue(r, h) == req' = [req EXCEPT ![r] = h]
Answer(r) == Continue(r, Idle)

-------------------------------------------------------------------------------
(* New accounts *)

\* UserService.create, AdminUserService.create (op "create"), signUp and
\* AdminAuthService.register (op "register"): no live account has the e-mail.
FindByEmail(r, op, k, m, p) ==
    /\ req[r] = Idle
    /\ LiveWith(k, m) = {}
    /\ Continue(r, [pc |-> "insert", op |-> op, kind |-> k, email |-> m, pw |-> p])
    /\ UNCHANGED <<row, tokens, history>>

\* The next id of the sequence of its table.
IsNext(a) ==
    /\ row[a] = None
    /\ \A j \in 1 .. (a.id - 1) : row[[kind |-> a.kind, id |-> j]] # None

\* Mutant: nothing but the lookup keeps an e-mail unique.
Insert_NoIndex(r) ==
    /\ req[r].pc = "insert"
    /\ req[r].op = "create" \/ req[r].kind = "admin"
    /\ \E a \in Account :
       /\ a.kind = req[r].kind /\ IsNext(a)
       /\ row' = [row EXCEPT ![a] =
              [email |-> req[r].email, pw |-> [p |-> req[r].pw, n |-> 1],
               verified |-> FALSE, live |-> TRUE]]
       /\ chosen' = [chosen EXCEPT ![a] = [p |-> req[r].pw, by |-> "create"]]
       /\ IF req[r].op = "register"
          THEN Continue(r, [pc |-> "remember", t |->
                   [purpose |-> "verify", kind |-> a.kind, id |-> a.id]])
          ELSE Answer(r)
    /\ UNCHANGED <<tokens, spoiled>>

\* The INSERT, unless the partial unique index on the e-mail of live rows
\* rejects it.  The hook hashes the password.
Insert(r) ==
    /\ req[r].pc = "insert"
    /\ req[r].op = "create" \/ req[r].kind = "admin"
    /\ LiveWith(req[r].kind, req[r].email) = {}
    /\ \E a \in Account :
       /\ a.kind = req[r].kind /\ IsNext(a)
       /\ row' = [row EXCEPT ![a] =
              [email |-> req[r].email, pw |-> [p |-> req[r].pw, n |-> 1],
               verified |-> FALSE, live |-> TRUE]]
       /\ chosen' = [chosen EXCEPT ![a] = [p |-> req[r].pw, by |-> "create"]]
       /\ IF req[r].op = "register"
          THEN Continue(r, [pc |-> "remember", t |->
                   [purpose |-> "verify", kind |-> a.kind, id |-> a.id]])
          ELSE Answer(r)
    /\ UNCHANGED <<tokens, spoiled>>

\* 409 for the loser of a race, and 500 for every signUp of a user, whose row
\* lacks the first name the column requires.
InsertRejected(r) ==
    /\ req[r].pc = "insert"
    /\ \/ LiveWith(req[r].kind, req[r].email) # {}
       \/ req[r].op = "register" /\ req[r].kind = "user"
    /\ Answer(r)
    /\ UNCHANGED <<row, tokens, history>>

-------------------------------------------------------------------------------
(* Links sent by mail *)

\* resendVerifyEmail, forgotPassword: a live account has the e-mail.
AskForLink(r, purpose, a) ==
    /\ req[r] = Idle
    /\ Exists(a)
    /\ Continue(r, [pc |-> "remember", t |->
           [purpose |-> purpose, kind |-> a.kind, id |-> a.id]])
    /\ UNCHANGED <<row, tokens, history>>

\* The cache entry is set.
RememberToken(r) ==
    /\ req[r].pc = "remember"
    /\ Continue(r, [pc |-> "enqueue", t |-> req[r].t])
    /\ UNCHANGED <<row, tokens, history>>

\* emailQueue.add; forgotPassword also answers with the link.
EnqueueMail(r) ==
    /\ req[r].pc = "enqueue"
    /\ tokens' = tokens \cup {req[r].t}
    /\ Answer(r)
    /\ UNCHANGED <<row, history>>

\* Mutant: the two services are configured with the same secrets.
VerifyToken_OneSecret(t, purpose, k) == t.purpose = purpose

\* verifyEmailToken, verifyForgotPasswordToken.
VerifyToken(t, purpose, k) == t.purpose = purpose /\ t.kind = k

\* Mutant: the row is looked up with its soft-deleted ones.
OpenLink_WithDeleted(r, t, k, p) ==
    /\ req[r] = Idle
    /\ LET a == [kind |-> k, id |-> t.id] IN
       /\ row[a] # None
       /\ \/ /\ VerifyToken(t, "verify", k) /\ k = "admin"
             /\ Continue(r, [pc |-> "save", op |-> "verify", a |-> a,
                             e |-> [Loaded(a) EXCEPT !.verified = TRUE]])
          \/ /\ VerifyToken(t, "forgot", k)
             /\ Continue(r, [pc |-> "forget", a |-> a, e |-> Loaded(a), pw |-> p])
    /\ UNCHANGED <<row, tokens, history>>

\* verifyAccount and resetPassword load the account the link names.  The user
\* controller hands verifyAccount its whole query object, which is no token:
\* only an administrator's verification gets this far.
OpenLink(r, t, k, p) ==
    /\ req[r] = Idle
    /\ LET a == [kind |-> k, id |-> t.id] IN
       /\ Exists(a)
       /\ \/ /\ VerifyToken(t, "verify", k) /\ k = "admin"
             /\ Continue(r, [pc |-> "save", op |-> "verify", a |-> a,
                             e |-> [Loaded(a) EXCEPT !.verified = TRUE]])
          \/ /\ VerifyToken(t, "forgot", k)
             /\ Continue(r, [pc |-> "forget", a |-> a, e |-> Loaded(a), pw |-> p])
    /\ UNCHANGED <<row, tokens, history>>

\* resetPassword deletes the cache entry, then compares the two new passwords;
\* the entity it saves was loaded before.
ForgetToken(r) ==
    /\ req[r].pc = "forget"
    /\ Continue(r, [pc |-> "save", op |-> "reset", a |-> req[r].a,
                    e |-> [req[r].e EXCEPT !.pw = [p |-> req[r].pw, n |-> 0]]])
    /\ UNCHANGED <<row, tokens, history>>

\* The two new passwords differ: 400, and the cache entry is gone already.
ForgetTokenMismatch(r) ==
    /\ req[r].pc = "forget"
    /\ Answer(r)
    /\ UNCHANGED <<row, tokens, history>>

\* verifyAccount, after its save.
ClearToken(r) ==
    /\ req[r].pc = "clear"
    /\ Answer(r)
    /\ UNCHANGED <<row, tokens, history>>

-------------------------------------------------------------------------------
(* Changes by the owner or by an administrator *)

\* changePassword: the old password is compared with the loaded hash.
LoadForChange(r, a, old, new) ==
    /\ req[r] = Idle
    /\ Exists(a) /\ Matches(row[a].pw, old)
    /\ Continue(r, [pc |-> "save", op |-> "change", a |-> a,
                    e |-> [Loaded(a) EXCEPT !.pw = [p |-> new, n |-> 0]]])
    /\ UNCHANGED <<row, tokens, history>>

\* Mutant: updateMe of an administrator forgets `delete user.password`.
LoadForProfile_KeepPassword(r, a) ==
    /\ req[r] = Idle
    /\ Exists(a)
    /\ Continue(r, [pc |-> "save", op |-> "profile", a |-> a, e |-> Loaded(a)])
    /\ UNCHANGED <<row, tokens, history>>

\* updateMe: the administrators' one drops the loaded password first.
LoadForProfile(r, a) ==
    /\ req[r] = Idle
    /\ Exists(a)
    /\ Continue(r, [pc |-> "save", op |-> "profile", a |-> a,
                    e |-> IF a.kind = "admin"
                          THEN [Loaded(a) EXCEPT !.pw = None] ELSE Loaded(a)])
    /\ UNCHANGED <<row, tokens, history>>

\* UserService.update sets names only; AdminUserService.update also assigns the
\* e-mail and drops the password.  (A role that is not found ends it: FailIO.)
LoadForEdit(r, a, m) ==
    /\ req[r] = Idle
    /\ Exists(a)
    /\ IF a.kind = "admin"
       THEN Continue(r, [pc |-> "save", op |-> "edit", a |-> a,
                         e |-> [Loaded(a) EXCEPT !.pw = None, !.email = m]])
       ELSE /\ m = row[a].email
            /\ Continue(r, [pc |-> "save", op |-> "edit", a |-> a,
                            e |-> Loaded(a)])
    /\ UNCHANGED <<row, tokens, history>>

\* The BeforeInsert / BeforeUpdate hook of both entities.
HashPassword(pw) == [pw EXCEPT !.n = IF pw.n = 2 THEN 2 ELSE pw.n + 1]

\* The re-hashing handlers: they save an entity with its loaded password.
Rehashing(k, op) == op = "verify" \/ (k = "user" /\ op \in {"profile", "edit"})

\* save(): the hook, then an UPDATE of every column of the entity that differs
\* from the row, deleted_at included; a conflict on the e-mail rejects it.
Save(r) ==
    /\ req[r].pc = "save"
    /\ LET a == req[r].a
           e == req[r].e
           op == req[r].op IN
       /\ LiveWith(a.kind, e.email) \subseteq {a}
       /\ row' = [row EXCEPT ![a] =
              [email |-> e.email, verified |-> e.verified, live |-> TRUE,
               pw |-> IF e.pw = None THEN row[a].pw ELSE HashPassword(e.pw)]]
       /\ chosen' = IF op \in {"reset", "change"}
                    THEN [chosen EXCEPT ![a] = [p |-> e.pw.p, by |-> op]]
                    ELSE chosen
       /\ spoiled' = IF op \in {"reset", "change"} THEN spoiled \ {a}
                     ELSE IF Rehashing(a.kind, op) THEN spoiled \cup {a}
                     ELSE spoiled
       /\ IF op = "verify" THEN Continue(r, [pc |-> "clear", a |-> a])
                           ELSE Answer(r)
    /\ UNCHANGED tokens

\* The unique index rejects the UPDATE: 409.
SaveRejected(r) ==
    /\ req[r].pc = "save"
    /\ ~ (LiveWith(req[r].a.kind, req[r].e.email) \subseteq {req[r].a})
    /\ Answer(r)
    /\ UNCHANGED <<row, tokens, history>>

\* remove: the row is loaded, then soft-deleted by its id.
LoadForRemove(r, a) ==
    /\ req[r] = Idle
    /\ Exists(a)
    /\ Continue(r, [pc |-> "remove", a |-> a])
    /\ UNCHANGED <<row, tokens, history>>

SoftRemove(r) ==
    /\ req[r].pc = "remove"
    /\ row' = [row EXCEPT ![req[r].a].live = FALSE]
    /\ Answer(r)
    /\ UNCHANGED <<tokens, history>>

-------------------------------------------------------------------------------
(* The rest of the world *)

\* An awaited call fails: the handler ends with an error.
FailIO(r) ==
    /\ req[r] # Idle
    /\ Answer(r)
    /\ UNCHANGED <<row, tokens, history>>

-------------------------------------------------------------------------------

Arrival(r) ==
    \/ \E op \in {"create", "register"}, k \in Kinds, m \in Emails, p \in Passwords :
           FindByEmail(r, op, k, m, p)
    \/ \E purpose \in Purposes, a \in Account : AskForLink(r, purpose, a)
    \/ \E t \in tokens, k \in Kinds, p \in Passwords : OpenLink(r, t, k, p)
    \/ \E a \in Account, old, new \in Passwords : LoadForChange(r, a, old, new)
    \/ \E a \in Account : LoadForProfile(r, a)
    \/ \E a \in Account, m \in Emails : LoadForEdit(r, a, m)
    \/ \E a \in Account : LoadForRemove(r, a)

Handling(r) ==
    \/ Insert(r)
    \/ InsertRejected(r)
    \/ RememberToken(r)
    \/ EnqueueMail(r)
    \/ ForgetToken(r)
    \/ ForgetTokenMismatch(r)
    \/ ClearToken(r)
    \/ Save(r)
    \/ SaveRejected(r)
    \/ SoftRemove(r)
    \/ FailIO(r)

Next ==
    \E r \in Requests : Arrival(r) \/ Handling(r)

Spec == Init /\ [][Next]_vars

-------------------------------------------------------------------------------

TypeOK ==
    /\ row \in [Account -> Row \cup {None}]
    /\ tokens \subseteq Token
    /\ req \in [Requests -> Handler]
    /\ chosen \in [Account ->
           [p : Passwords, by : {"create", "reset", "change"}] \cup {None}]
    /\ spoiled \subseteq Account

\* The owner can sign in with the password last accepted for the account, in
\* whatever order creation, resets, changes, edits and removals interleave,
\* except where a handler that saves the loaded hash came after: verifyAccount,
\* and for users updateMe and update.  The administrators' updateMe and update,
\* which drop the password first, disturb nothing even when they are stale.
LatestPasswordWorks ==
    \A a \in Account \ spoiled :
        row[a] # None => Matches(row[a].pw, chosen[a].p)

\* A handler that a link let in.
ActingOn(h, purpose) ==
    \/ purpose = "verify" /\ h.pc = "save" /\ h.op = "verify"
    \/ purpose = "forgot" /\ (h.pc = "forget" \/ (h.pc = "save" /\ h.op = "reset"))

\* A link changes only the account it was issued for, although ids of users and
\* administrators overlap and a removed account's e-mail can be used again.
LinksActOnTheirAccount ==
    \A r \in Requests : \A purpose \in Purposes :
        ActingOn(req[r], purpose) =>
            [purpose |-> purpose, kind |-> req[r].a.kind, id |-> req[r].a.id]
                \in tokens

\* The lookup of an e-mail and the INSERT are two statements, and a stale save
\* may bring a removed row back: the index keeps one live row per e-mail.
OneLiveAccountPerEmail ==
    \A k \in Kinds, m \in Emails : Cardinality(LiveWith(k, m)) <= 1

\* A handler that loaded the row of an account and will save it.
Holding(a) == \E r \in Requests :
    req[r].pc \in {"forget", "save"} /\ req[r].a = a

\* A save writes deleted_at back, so a handler that loaded the account before
\* its removal revives it; once no handler holds the entity the account stays
\* removed, whatever links, sessions and administrators' requests remain.
RemovedStaysRemoved ==
    [][\A a \in Account :
           row[a] # None /\ ~ row[a].live /\ ~ Holding(a)
               => ~ row'[a].live /\ ~ Holding(a)']_vars

===============================================================================
