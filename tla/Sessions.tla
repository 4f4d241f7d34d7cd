------------------------------- MODULE Sessions -------------------------------
(***************************************************************************)
(* Login sessions of the two authentication services of the API,           *)
(* user-auth.service.ts and admin-auth.service.ts.  The two are written    *)
(* separately but do the same to the one `sessions` table they share; they *)
(* differ in the JWT secrets (so a token carries the kind of the service   *)
(* that signed it) and in the account table they look the owner up in.     *)
(*                                                                         *)
(* A handler is asynchronous: every `await` is a point at which the        *)
(* handlers of other requests run, so a handler is several actions here.   *)
(* The rotation of the stored hash is not awaited by refreshToken: it is   *)
(* a message to the database that lands later, in any order, or fails.     *)
(*                                                                         *)
(* Abstractions.  A random 64-digit hash is the next unused number.  The   *)
(* access and the refresh token minted together are one record.  A refresh *)
(* token's own expiry (365 days) is left out: an expired token is one its  *)
(* holder does not present.  Access tokens of one kind have one lifetime,  *)
(* so they expire in the order in which they were minted.                  *)
(***************************************************************************)
EXTENDS Naturals, FiniteSets

CONSTANTS
    Requests,      \* the HTTP requests that can be in progress together
    Kinds,         \* the account kinds: "admin" and "user"
    Ids,           \* account ids; the two kinds number their rows separately
    NoRow,         \* the absent row of the sessions table
    MaxSessions,   \* bound on the rows ever inserted
    MaxMints       \* bound on the hashes ever generated

Sids == 1 .. MaxSessions
Hashes == 1 .. MaxMints
Account == [kind : Kinds, id : Ids]

\* A row of `sessions`: hash, userId, userType.
Row == [hash : Hashes, userId : Ids, userType : Kinds]

\* The pair of tokens one createToken call signs.
Token == [kind : Kinds, id : Ids, sid : Sids, hash : Hashes]

ASSUME SessionsAssumption ==
    /\ MaxSessions \in Nat
    /\ MaxMints \in Nat
    /\ Kinds # {} /\ Ids # {}
    /\ NoRow \notin Row
    /\ NoRow \notin Account
    /\ NoRow \notin Hashes

VARIABLES
    active,     \* accounts whose row is not soft-deleted
    session,    \* the sessions table
    updates,    \* UPDATE statements issued and not yet executed
    cache,      \* blacklist entries of the shared cache
    access,     \* token pairs whose access token has not expired
    req,        \* the handler that runs in each request
    nextSid,    \* the BIGSERIAL of the table
    nextHash,   \* the next hash the random generator returns
    \* history variables, read by properties only
    issued,     \* every token pair handed to a client
    retired,    \* hashes a row once held and holds no more
    deleted,    \* sessions whose row was deleted
    lost,       \* hashes whose UPDATE failed
    undelivered,\* hashes whose handler died before it answered
    spent,      \* <<old, new>>: a token of hash old was traded for one of new
    openedBy    \* the account that signed in to each session

history == <<issued, retired, deleted, lost, undelivered, spent, openedBy>>
vars == <<active, session, updates, cache, access, req, nextSid, nextHash,
          issued, retired, deleted, lost, undelivered, spent, openedBy>>

\* What a handler holds in its local variables between two awaits.
Idle == [pc |-> "idle"]
Handler == {Idle}
    \cup [pc : {"verify"}, kind : Kinds, id : Ids]
    \cup [pc : {"check"}, kind : Kinds, id : Ids, sid : Sids, hash : Hashes]
    \cup [pc : {"sign"}, token : Token]
    \cup [pc : {"delete"}, sid : Sids]

\* The two cache keys the code uses for a blacklisted session.
ServiceKey == "auth:session-blacklist"
StrategyKey == "session_blacklist"
CacheEntry == [key : {ServiceKey, StrategyKey}, sid : Sids, until : Token]

-------------------------------------------------------------------------------

Init ==
    /\ active = Account
    /\ session = [s \in Sids |-> NoRow]
    /\ updates = {}
    /\ cache = {}
    /\ access = {}
    /\ req = [r \in Requests |-> Idle]
    /\ nextSid = 1
    /\ nextHash = 1
    /\ issued = {}
    /\ retired = {}
    /\ deleted = {}
    /\ lost = {}
    /\ undelivered = {}
    /\ spent = {}
    /\ openedBy = [s \in Sids |-> NoRow]

-------------------------------------------------------------------------------
(* Sign-in *)

\* login / signIn: the account is found by e-mail; a soft-deleted row is not.
\* A wrong password changes nothing, so only the right one is a step.
SignInFind(r, a) ==
    /\ req[r] = Idle
    /\ a \in active
    /\ req' = [req EXCEPT ![r] = [pc |-> "verify", kind |-> a.kind, id |-> a.id]]
    /\ UNCHANGED <<active, session, updates, cache, access, nextSid, nextHash,
                   history>>

\* The password comparison is over: a hash is generated and the row inserted.
\* The account is not read again.
SignInSave(r) ==
    /\ req[r].pc = "verify"
    /\ nextSid \in Sids /\ nextHash \in Hashes
    /\ LET a == [kind |-> req[r].kind, id |-> req[r].id] IN
       /\ session' = [session EXCEPT ![nextSid] =
              [hash |-> nextHash, userId |-> a.id, userType |-> a.kind]]
       /\ openedBy' = [openedBy EXCEPT ![nextSid] = a]
       /\ req' = [req EXCEPT ![r] = [pc |-> "sign", token |->
              [kind |-> a.kind, id |-> a.id, sid |-> nextSid, hash |-> nextHash]]]
    /\ nextSid' = nextSid + 1
    /\ nextHash' = nextHash + 1
    /\ UNCHANGED <<active, updates, cache, access,
                   issued, retired, deleted, lost, undelivered, spent>>

\* createToken, and the answer to the client: sign-in and refresh end here.
CreateToken(r) ==
    /\ req[r].pc = "sign"
    /\ issued' = issued \cup {req[r].token}
    /\ access' = access \cup {req[r].token}
    /\ req' = [req EXCEPT ![r] = Idle]
    /\ UNCHANGED <<active, session, updates, cache, nextSid, nextHash,
                   retired, deleted, lost, undelivered, spent, openedBy>>

-------------------------------------------------------------------------------
(* Refresh *)

\* Mutant: both services are configured with one refresh secret.
VerifyRefreshToken_OneSecret(k, t) == TRUE

\* verifyRefreshToken accepts the tokens signed with the secret of its kind.
VerifyRefreshToken(k, t) == t.kind = k

\* refreshToken of the service of kind k, up to the answer of findOneBy: the
\* row must exist and hold the hash of the token, else 401 / 403.
RefreshRead(r, k, t) ==
    /\ req[r] = Idle
    /\ VerifyRefreshToken(k, t)
    /\ session[t.sid] # NoRow
    /\ session[t.sid].hash = t.hash
    /\ req' = [req EXCEPT ![r] = [pc |-> "check", kind |-> k,
                                 id |-> session[t.sid].userId, sid |-> t.sid,
                                 hash |-> t.hash]]
    /\ UNCHANGED <<active, session, updates, cache, access, nextSid, nextHash,
                   history>>

\* Mutant: the rotation is forgotten.
RefreshRotate_NoUpdate(r) ==
    /\ req[r].pc = "check"
    /\ [kind |-> req[r].kind, id |-> req[r].id] \in active
    /\ nextHash \in Hashes
    /\ req' = [req EXCEPT ![r] = [pc |-> "sign", token |->
           [kind |-> req[r].kind, id |-> req[r].id,
            sid |-> req[r].sid, hash |-> nextHash]]]
    /\ nextHash' = nextHash + 1
    /\ spent' = spent \cup {<<req[r].hash, nextHash>>}
    /\ UNCHANGED <<active, session, updates, cache, access, nextSid,
                   issued, retired, deleted, lost, undelivered, openedBy>>

\* Mutant: the generator is called once for the UPDATE and again for the token.
RefreshRotate_TwoHashes(r) ==
    /\ req[r].pc = "check"
    /\ [kind |-> req[r].kind, id |-> req[r].id] \in active
    /\ nextHash + 1 \in Hashes
    /\ updates' = updates \cup {[sid |-> req[r].sid, hash |-> nextHash]}
    /\ req' = [req EXCEPT ![r] = [pc |-> "sign", token |->
           [kind |-> req[r].kind, id |-> req[r].id,
            sid |-> req[r].sid, hash |-> nextHash + 1]]]
    /\ nextHash' = nextHash + 2
    /\ spent' = spent \cup {<<req[r].hash, nextHash + 1>>}
    /\ UNCHANGED <<active, session, cache, access, nextSid,
                   issued, retired, deleted, lost, undelivered, openedBy>>

\* Mutant: the owner is taken from the session row without looking it up.
RefreshRotate_NoOwnerCheck(r) ==
    /\ req[r].pc = "check"
    /\ nextHash \in Hashes
    /\ updates' = updates \cup {[sid |-> req[r].sid, hash |-> nextHash]}
    /\ req' = [req EXCEPT ![r] = [pc |-> "sign", token |->
           [kind |-> req[r].kind, id |-> req[r].id,
            sid |-> req[r].sid, hash |-> nextHash]]]
    /\ nextHash' = nextHash + 1
    /\ spent' = spent \cup {<<req[r].hash, nextHash>>}
    /\ UNCHANGED <<active, session, cache, access, nextSid,
                   issued, retired, deleted, lost, undelivered, openedBy>>

\* The owner still exists: a new hash, an UPDATE nobody awaits, new tokens.
RefreshRotate(r) ==
    /\ req[r].pc = "check"
    /\ [kind |-> req[r].kind, id |-> req[r].id] \in active
    /\ nextHash \in Hashes
    /\ updates' = updates \cup {[sid |-> req[r].sid, hash |-> nextHash]}
    /\ req' = [req EXCEPT ![r] = [pc |-> "sign", token |->
           [kind |-> req[r].kind, id |-> req[r].id,
            sid |-> req[r].sid, hash |-> nextHash]]]
    /\ nextHash' = nextHash + 1
    /\ spent' = spent \cup {<<req[r].hash, nextHash>>}
    /\ UNCHANGED <<active, session, cache, access, nextSid,
                   issued, retired, deleted, lost, undelivered, openedBy>>

\* findOneOrFail finds no owner: 404.
RefreshOwnerGone(r) ==
    /\ req[r].pc = "check"
    /\ [kind |-> req[r].kind, id |-> req[r].id] \notin active
    /\ req' = [req EXCEPT ![r] = Idle]
    /\ UNCHANGED <<active, session, updates, cache, access, nextSid, nextHash,
                   history>>

-------------------------------------------------------------------------------
(* The database executes or rejects the statements refreshToken left behind *)

\* Mutant: the row is written with session.save(), which inserts a missing one.
ApplyUpdate_Upsert(u) ==
    /\ u \in updates
    /\ updates' = updates \ {u}
    /\ LET a == openedBy[u.sid] IN
       session' = [session EXCEPT ![u.sid] =
                     [hash |-> u.hash, userId |-> a.id, userType |-> a.kind]]
    /\ retired' = IF session[u.sid] = NoRow THEN retired
                  ELSE retired \cup {session[u.sid].hash}
    /\ UNCHANGED <<active, cache, access, req, nextSid, nextHash,
                   issued, deleted, lost, undelivered, spent, openedBy>>

\* Mutant: the statement is retried after it has been executed.
ApplyUpdate_Retried(u) ==
    /\ u \in updates
    /\ session[u.sid] # NoRow /\ session[u.sid].hash # u.hash
    /\ session' = [session EXCEPT ![u.sid].hash = u.hash]
    /\ retired' = retired \cup {session[u.sid].hash}
    /\ UNCHANGED <<active, updates, cache, access, req, nextSid, nextHash,
                   issued, deleted, lost, undelivered, spent, openedBy>>

\* UPDATE sessions SET hash WHERE id: no row is changed if none is there.
ApplyUpdate(u) ==
    /\ u \in updates
    /\ updates' = updates \ {u}
    /\ IF session[u.sid] = NoRow
       THEN UNCHANGED <<session, retired>>
       ELSE /\ session' = [session EXCEPT ![u.sid].hash = u.hash]
            /\ retired' = retired \cup {session[u.sid].hash}
    /\ UNCHANGED <<active, cache, access, req, nextSid, nextHash,
                   issued, deleted, lost, undelivered, spent, openedBy>>

\* The statement fails.  Nobody catches the rejection; the error reporter's
\* handler of unhandled rejections keeps the process alive.
LoseUpdate(u) ==
    /\ u \in updates
    /\ updates' = updates \ {u}
    /\ lost' = lost \cup {u.hash}
    /\ UNCHANGED <<active, session, cache, access, req, nextSid, nextHash,
                   issued, retired, deleted, undelivered, spent, openedBy>>

-------------------------------------------------------------------------------
(* Guards and logout *)

Blacklisted(key, sid) == \E e \in cache : e.key = key /\ e.sid = sid

\* UserJwtStrategy / AdminJwtStrategy of kind k: the signature, the expiry, and
\* the strategies' own blacklist key.
GuardAccepts(k, t) ==
    /\ t.kind = k
    /\ t \in access
    /\ ~ Blacklisted(StrategyKey, t.sid)

\* Mutant: the row is deleted before the blacklist entry is written.
LogoutBlacklist_DeleteFirst(r, k, t) ==
    /\ req[r] = Idle
    /\ GuardAccepts(k, t)
    /\ session' = [session EXCEPT ![t.sid] = NoRow]
    /\ deleted' = deleted \cup {t.sid}
    /\ retired' = IF session[t.sid] = NoRow THEN retired
                  ELSE retired \cup {session[t.sid].hash}
    /\ req' = [req EXCEPT ![r] = [pc |-> "delete", sid |-> t.sid]]
    /\ UNCHANGED <<active, updates, cache, access, nextSid, nextHash,
                   issued, lost, undelivered, spent, openedBy>>

\* logout, first await: the blacklist entry, which lives until the presented
\* access token expires.  A second entry for the key replaces the first.
LogoutBlacklist(r, k, t) ==
    /\ req[r] = Idle
    /\ GuardAccepts(k, t)
    /\ cache' = {e \in cache : e.key # ServiceKey \/ e.sid # t.sid}
                 \cup {[key |-> ServiceKey, sid |-> t.sid, until |-> t]}
    /\ req' = [req EXCEPT ![r] = [pc |-> "delete", sid |-> t.sid]]
    /\ UNCHANGED <<active, session, updates, access, nextSid, nextHash, history>>

\* Mutant: the hash is blanked, the row stays.
LogoutDelete_BlankHash(r) ==
    /\ req[r].pc = "delete"
    /\ LET s == req[r].sid IN
       /\ session[s] # NoRow
       /\ session' = [session EXCEPT ![s].hash = 0]
       /\ retired' = retired \cup {session[s].hash}
    /\ req' = [req EXCEPT ![r] = Idle]
    /\ UNCHANGED <<active, updates, cache, access, nextSid, nextHash,
                   issued, deleted, lost, undelivered, spent, openedBy>>

\* logout, second await: DELETE FROM sessions WHERE id.
LogoutDelete(r) ==
    /\ req[r].pc = "delete"
    /\ LET s == req[r].sid IN
       /\ session' = [session EXCEPT ![s] = NoRow]
       /\ deleted' = deleted \cup {s}
       /\ retired' = IF session[s] = NoRow THEN retired
                     ELSE retired \cup {session[s].hash}
    /\ req' = [req EXCEPT ![r] = Idle]
    /\ UNCHANGED <<active, updates, cache, access, nextSid, nextHash,
                   issued, lost, undelivered, spent, openedBy>>

-------------------------------------------------------------------------------
(* The rest of the world *)

\* An awaited statement rejects: the request ends with a 500.
FailIO(r) ==
    /\ req[r].pc \in {"verify", "check", "delete"}
    /\ req' = [req EXCEPT ![r] = Idle]
    /\ UNCHANGED <<active, session, updates, cache, access, nextSid, nextHash,
                   history>>

\* UserService.remove / AdminUserService.remove: softRemove, sessions are kept.
RemoveAccount(a) ==
    /\ a \in active
    /\ active' = active \ {a}
    /\ UNCHANGED <<session, updates, cache, access, req, nextSid, nextHash,
                   history>>

\* Lifetimes of a kind are equal, so its oldest access token expires first,
\* and with it the blacklist entry whose time to live it gave.
AccessExpires(t) ==
    /\ t \in access
    /\ \A o \in access : o.kind = t.kind => o.hash >= t.hash
    /\ access' = access \ {t}
    /\ cache' = {e \in cache : e.until # t}
    /\ UNCHANGED <<active, session, updates, req, nextSid, nextHash, history>>

\* The process restarts: its handlers vanish; a statement already sent may
\* still execute (ApplyUpdate) or not (LoseUpdate); Redis keeps the blacklist.
Crash ==
    /\ \E r \in Requests : req[r] # Idle
    /\ req' = [r \in Requests |-> Idle]
    /\ undelivered' = undelivered \cup
           {req[r].token.hash : r \in {q \in Requests : req[q].pc = "sign"}}
    /\ UNCHANGED <<active, session, updates, cache, access, nextSid, nextHash,
                   issued, retired, deleted, lost, spent, openedBy>>

-------------------------------------------------------------------------------

Handling(r) ==
    \/ SignInSave(r)
    \/ CreateToken(r)
    \/ RefreshRotate(r)
    \/ RefreshOwnerGone(r)
    \/ LogoutDelete(r)
    \/ FailIO(r)

Arrival(r) ==
    \/ \E a \in Account : SignInFind(r, a)
    \/ \E k \in Kinds, t \in issued : RefreshRead(r, k, t)
    \/ \E k \in Kinds, t \in access : LogoutBlacklist(r, k, t)

Database ==
    \E u \in updates : ApplyUpdate(u) \/ LoseUpdate(u)

Next ==
    \/ \E r \in Requests : Arrival(r) \/ Handling(r)
    \/ Database
    \/ \E a \in Account : RemoveAccount(a)
    \/ \E t \in access : AccessExpires(t)
    \/ Crash

Spec == Init /\ [][Next]_vars

\* The event loop resumes every handler whose await has been answered, and
\* PostgreSQL answers every statement it was sent.
Fairness ==
    /\ \A r \in Requests : WF_vars(Handling(r))
    /\ \A u \in [sid : Sids, hash : Hashes] :
           WF_vars(ApplyUpdate(u) \/ LoseUpdate(u))

FairSpec == Spec /\ Fairness

-------------------------------------------------------------------------------

TypeOK ==
    /\ active \subseteq Account
    /\ session \in [Sids -> Row \cup {NoRow}]
    /\ updates \subseteq [sid : Sids, hash : Hashes]
    /\ cache \subseteq CacheEntry
    /\ access \subseteq Token
    /\ req \in [Requests -> Handler]
    /\ nextSid \in 1 .. (MaxSessions + 1)
    /\ nextHash \in 1 .. (MaxMints + 1)
    /\ issued \subseteq Token
    /\ retired \subseteq Hashes
    /\ deleted \subseteq Sids
    /\ lost \subseteq Hashes
    /\ undelivered \subseteq Hashes
    /\ spent \subseteq Hashes \X Hashes
    /\ openedBy \in [Sids -> Account \cup {NoRow}]

\* The hashes of the tokens that handlers are about to hand out.
Signing == {req[r].token.hash : r \in {q \in Requests : req[q].pc = "sign"}}

\* However the unawaited UPDATEs of concurrent refreshes are reordered, a hash
\* the row once gave up never becomes valid again: an old refresh token that
\* was replaced cannot come back to life (refreshToken's rotation).
SupersededNeverReturns ==
    \A s \in Sids : session[s] # NoRow => session[s].hash \notin retired

\* A refresh token that was traded for a new one works again only while the
\* UPDATE of that trade is still on its way, or because it failed.
SpentTokenDies ==
    \A p \in spent : \A s \in Sids :
        session[s] # NoRow /\ session[s].hash = p[1] =>
            [sid |-> s, hash |-> p[2]] \in updates \/ p[2] \in lost

\* A session that logout deleted has no row again, although a refresh that had
\* read the row before the DELETE may still rotate its hash afterwards.
DeletedStaysDeleted ==
    \A s \in deleted : session[s] = NoRow

\* Neither service looks at the userType of a row, and ids of users and admins
\* overlap: the tokens of a session still name the account that signed in.
TokensStayWithOwner ==
    \A t \in issued : openedBy[t.sid] = [kind |-> t.kind, id |-> t.id]

\* The hash in a row is one that a client holds or is about to receive, unless
\* the process died between the UPDATE and the answer: rotation locks nobody
\* out of a session on its own.
NoLockout ==
    \A s \in Sids : session[s] # NoRow =>
        session[s].hash \in {t.hash : t \in issued} \cup Signing \cup undelivered

\* logout deletes a row only under its blacklist entry: where the row is gone
\* and the entry is gone too, one of the session's access tokens has expired.
LogoutBlacklistsFirst ==
    \A s \in deleted :
        \/ Blacklisted(ServiceKey, s)
        \/ \E t \in issued \ access : t.sid = s

\* Past the check that its owner exists.
Cleared(a) ==
    \E r \in Requests :
        \/ req[r].pc = "verify" /\ [kind |-> req[r].kind, id |-> req[r].id] = a
        \/ req[r].pc = "sign" /\ req[r].token.kind = a.kind /\ req[r].token.id = a.id

\* softRemove keeps the sessions of the account, but they mint nothing more:
\* once the handlers that saw the account alive are over, no handler gets past
\* the owner check again, whatever refresh tokens are still valid.
QuietAfterRemoval ==
    [][\A a \in Account : a \notin active /\ ~ Cleared(a) => ~ Cleared(a)']_vars

\* Every token handed out gets its turn as the valid one, or its UPDATE fails,
\* or the session is deleted: the answer of refreshToken comes before the
\* database has the hash, but not in place of it.
IssuedTokenHasItsTurn ==
    \A t \in Token : t \in issued ~>
        \/ session[t.sid] = NoRow
        \/ session[t.sid].hash = t.hash
        \/ t.hash \in retired \cup lost

\* The table and the statements of all handlers together implement the promise
\* of SessionLifecycle: the valid hash is the one in the row.
Lifecycle == INSTANCE SessionLifecycle WITH
    Sid <- Sids, Hash <- Hashes, Owner <- Account, None <- NoRow,
    owner <- openedBy,
    valid <- [s \in Sids |->
                IF session[s] = NoRow THEN NoRow ELSE session[s].hash],
    burnt <- retired

\* Sessions open once, close for good and never reuse a hash (the statements of
\* signIn, refreshToken and logout, interleaved in every order).
ImplementsLifecycle == Lifecycle!Spec

\* "Force logout if the session is in the blacklist" (user-auth.service.ts and
\* admin-auth.service.ts, verifyAccessToken): no guard lets in an access token
\* of a session that logout put on the blacklist.
ForceLogout ==
    \A k \in Kinds : \A t \in access :
        Blacklisted(ServiceKey, t.sid) => ~ GuardAccepts(k, t)

===============================================================================
