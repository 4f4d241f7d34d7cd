---------------------------- MODULE SessionsProofs ----------------------------
(***************************************************************************)
(* Proofs about Sessions, for every number of requests, accounts, sessions *)
(* and hashes.                                                             *)
(***************************************************************************)
EXTENDS Sessions, TLAPS

\* What the program counter of a handler says of its other fields.
LEMMA HandlerFields ==
  ASSUME NEW h \in Handler
  PROVE  /\ h.pc = "verify" => h.kind \in Kinds /\ h.id \in Ids
         /\ h.pc = "check" => /\ h.kind \in Kinds /\ h.id \in Ids
                              /\ h.sid \in Sids /\ h.hash \in Hashes
         /\ h.pc = "sign" => h.token \in Token
         /\ h.pc = "delete" => h.sid \in Sids
  BY DEF Handler, Idle

\* Every variable keeps its type, whatever the interleaving of the handlers,
\* the statements they left behind and the crashes.
THEOREM TypeCorrect == Spec => []TypeOK
<1>1. Init => TypeOK
  BY SessionsAssumption DEF Init, TypeOK, Handler
<1>2. TypeOK /\ [Next]_vars => TypeOK'
  <2> SUFFICES ASSUME TypeOK, [Next]_vars PROVE TypeOK'
    OBVIOUS
  <2> USE SessionsAssumption
  <2>1. ASSUME NEW r \in Requests, NEW a \in Account, SignInFind(r, a) PROVE TypeOK'
    BY <2>1 DEF SignInFind, TypeOK, history, Handler, Account
  <2>2. ASSUME NEW r \in Requests, SignInSave(r) PROVE TypeOK'
    BY <2>2 DEF SignInSave, TypeOK, history, Idle, Handler, Sids, Hashes, Token,
       Account, Row, CacheEntry, ServiceKey, StrategyKey
  <2>3. ASSUME NEW r \in Requests, CreateToken(r) PROVE TypeOK'
    BY <2>3 DEF CreateToken, TypeOK, Idle, Handler, Row, CacheEntry
  <2>4. ASSUME NEW r \in Requests, NEW k \in Kinds, NEW t \in issued, RefreshRead(r, k, t)
        PROVE TypeOK'
    BY <2>4 DEF RefreshRead, TypeOK, history, Handler, Token, Row
  <2>5. ASSUME NEW r \in Requests, RefreshRotate(r) PROVE TypeOK'
    BY <2>5 DEF RefreshRotate, TypeOK, Idle, Handler, Hashes, Token
  <2>6. ASSUME NEW r \in Requests, RefreshOwnerGone(r) PROVE TypeOK'
    BY <2>6 DEF RefreshOwnerGone, TypeOK, history, Handler
  <2>7. ASSUME NEW u \in updates, ApplyUpdate(u) PROVE TypeOK'
    <3> USE <2>7 DEF ApplyUpdate
    <3>1. u.sid \in Sids /\ u.hash \in Hashes
      BY DEF TypeOK
    <3>2. session' \in [Sids -> Row \cup {NoRow}]
      <4>1. CASE session[u.sid] = NoRow
        BY <4>1 DEF TypeOK
      <4>2. CASE session[u.sid] # NoRow
        <5>1. session[u.sid] \in Row
          BY <4>2 DEF TypeOK
        <5>2. [session[u.sid] EXCEPT !.hash = u.hash] \in Row
          BY <3>1, <5>1 DEF Row
        <5>3. QED
          BY <5>2 DEF TypeOK
      <4>3. QED
        BY <4>1, <4>2
    <3>3. retired' \subseteq Hashes
      BY DEF TypeOK, Row
    <3>4. QED
      BY <3>2, <3>3 DEF TypeOK
  <2>8. ASSUME NEW u \in updates, LoseUpdate(u) PROVE TypeOK'
    BY <2>8 DEF LoseUpdate, TypeOK
  <2>9. ASSUME NEW r \in Requests, NEW k \in Kinds, NEW t \in access, LogoutBlacklist(r, k, t)
        PROVE TypeOK'
    BY <2>9 DEF LogoutBlacklist, TypeOK, history, Handler, Token, CacheEntry
  <2>10. ASSUME NEW r \in Requests, LogoutDelete(r) PROVE TypeOK'
    <3> USE <2>10 DEF LogoutDelete
    <3>1. req[r].sid \in Sids
      BY HandlerFields DEF TypeOK
    <3>2. retired' \subseteq Hashes
      BY <3>1 DEF TypeOK, Row
    <3>3. req' \in [Requests -> Handler]
      BY DEF TypeOK, Handler
    <3>4. session' \in [Sids -> Row \cup {NoRow}] /\ deleted' \subseteq Sids
      BY <3>1 DEF TypeOK
    <3>5. QED
      BY <3>2, <3>3, <3>4 DEF TypeOK
  <2>11. ASSUME NEW r \in Requests, FailIO(r) PROVE TypeOK'
    BY <2>11 DEF FailIO, TypeOK, history, Handler
  <2>12. ASSUME NEW a \in Account, RemoveAccount(a) PROVE TypeOK'
    BY <2>12 DEF RemoveAccount, TypeOK, history
  <2>13. ASSUME NEW t \in access, AccessExpires(t) PROVE TypeOK'
    BY <2>13 DEF AccessExpires, TypeOK, history
  <2>14. CASE Crash
    <3> USE <2>14 DEF Crash
    <3>1. undelivered' \subseteq Hashes
      BY HandlerFields DEF TypeOK, Token
    <3>2. req' \in [Requests -> Handler]
      BY DEF Handler
    <3>3. QED
      BY <3>1, <3>2 DEF TypeOK
  <2>15. CASE UNCHANGED vars
    BY <2>15 DEF vars, TypeOK
  <2>16. QED
    BY <2>1, <2>2, <2>3, <2>4, <2>5, <2>6, <2>7, <2>8, <2>9, <2>10, <2>11, <2>12,
       <2>13, <2>14, <2>15 DEF Next, Arrival, Handling, Database
<1>3. QED
  BY <1>1, <1>2, PTL DEF Spec

-------------------------------------------------------------------------------
(* Owners of sessions *)

\* A row belongs to the account that opened its session.
RowsOwned ==
    \A s \in Sids : session[s] # NoRow =>
        openedBy[s] = [kind |-> session[s].userType, id |-> session[s].userId]

\* The serial of the table has not been used yet.
SerialFresh == \A s \in Sids : s >= nextSid => openedBy[s] = NoRow

\* A deleted session was opened, and has no row.
DeletedOpened == \A s \in deleted : openedBy[s] # NoRow /\ session[s] = NoRow

PendingOpened == \A u \in updates : openedBy[u.sid] # NoRow

\* A handler that names an account and a session names the session's opener.
HandlerOwned(h) ==
    /\ h.pc = "sign" => openedBy[h.token.sid] = [kind |-> h.token.kind, id |-> h.token.id]
    /\ h.pc = "check" => openedBy[h.sid] = [kind |-> h.kind, id |-> h.id]
    /\ h.pc = "delete" => openedBy[h.sid] # NoRow

\* Everything that names a session names one that was opened, and its opener
\* where it names an account.
OwnersInv ==
    /\ RowsOwned
    /\ SerialFresh
    /\ DeletedOpened
    /\ PendingOpened
    /\ TokensStayWithOwner
    /\ access \subseteq issued
    /\ \A r \in Requests : HandlerOwned(req[r])

\* Rows, tokens, statements and handlers agree on who opened a session: no
\* handler of the one service ever serves a session of the other.
THEOREM OwnersCorrect == Spec => []OwnersInv
<1>1. Init => OwnersInv
  BY DEF Init, OwnersInv, RowsOwned, SerialFresh, DeletedOpened, PendingOpened,
     TokensStayWithOwner, HandlerOwned, Idle
<1>2. TypeOK /\ OwnersInv /\ [Next]_vars => OwnersInv'
  <2> SUFFICES ASSUME TypeOK, OwnersInv, [Next]_vars PROVE OwnersInv'
    OBVIOUS
  <2> USE SessionsAssumption
  <2>1. ASSUME NEW r \in Requests, NEW a \in Account, SignInFind(r, a) PROVE OwnersInv'
    BY <2>1 DEF SignInFind, OwnersInv, RowsOwned, SerialFresh, DeletedOpened,
       PendingOpened, TokensStayWithOwner, HandlerOwned, history
  <2>2. ASSUME NEW r \in Requests, SignInSave(r) PROVE OwnersInv'
    <3> DEFINE a == [kind |-> req[r].kind, id |-> req[r].id]
    <3>1. a \in Account /\ a # NoRow /\ nextSid \in Sids
      BY <2>2, HandlerFields DEF SignInSave, TypeOK, Account
    <3>2. openedBy[nextSid] = NoRow
      BY <3>1 DEF OwnersInv, SerialFresh, Sids
    <3>3. openedBy' = [openedBy EXCEPT ![nextSid] = a]
      BY <2>2 DEF SignInSave
    <3>4. \A s \in Sids : s # nextSid => openedBy'[s] = openedBy[s]
      BY <3>3
    <3>5. openedBy'[nextSid] = a
      BY <3>1, <3>3 DEF TypeOK
    <3>6. \A s \in Sids : openedBy[s] # NoRow => openedBy'[s] = openedBy[s]
      BY <3>2, <3>4
    <3>7. RowsOwned'
      BY <2>2 DEF SignInSave, OwnersInv, RowsOwned, TypeOK
    <3>8. SerialFresh'
      <4>1. nextSid' = nextSid + 1 /\ nextSid \in Nat
        BY <2>2 DEF SignInSave, Sids
      <4>2. SUFFICES ASSUME NEW s \in Sids, s >= nextSid + 1
                     PROVE  openedBy'[s] = NoRow
        BY <4>1 DEF SerialFresh
      <4>3. s # nextSid /\ s >= nextSid
        BY <4>1, <4>2 DEF Sids
      <4>4. QED
        BY <4>3, <3>4 DEF OwnersInv, SerialFresh
    <3>9. DeletedOpened'
      BY <2>2, <3>2 DEF SignInSave, OwnersInv, DeletedOpened
    <3>10. PendingOpened'
      BY <2>2, <3>6 DEF SignInSave, OwnersInv, PendingOpened
    <3>11. TokensStayWithOwner'
      <4>1. \A t \in issued : t \in Token /\ [kind |-> t.kind, id |-> t.id] \in Account
        BY DEF TypeOK, Token, Account
      <4>2. SUFFICES ASSUME NEW t \in issued
                     PROVE  openedBy'[t.sid] = [kind |-> t.kind, id |-> t.id]
        BY <2>2 DEF SignInSave, TokensStayWithOwner
      <4>3. openedBy[t.sid] = [kind |-> t.kind, id |-> t.id]
        BY DEF OwnersInv, TokensStayWithOwner
      <4>4. t.sid \in Sids
        BY <4>1 DEF Token
      <4>5. openedBy[t.sid] # NoRow
        BY <4>1, <4>3
      <4>6. QED
        BY <4>3, <4>4, <4>5, <3>6
    <3>12. (access \subseteq issued)'
      BY <2>2 DEF SignInSave, OwnersInv
    <3>13. ASSUME NEW q \in Requests PROVE HandlerOwned(req[q])'
      <4>1. CASE q = r
        <5>1. req'[q] = [pc |-> "sign", token |->
                 [kind |-> a.kind, id |-> a.id, sid |-> nextSid, hash |-> nextHash]]
          BY <2>2, <4>1 DEF SignInSave, TypeOK
        <5>2. QED
          BY <5>1, <3>5 DEF HandlerOwned
      <4>2. CASE q # r
        <5>1. req'[q] = req[q] /\ req[q] \in Handler
          BY <2>2, <4>2 DEF SignInSave, TypeOK
        <5>2. HandlerOwned(req[q])
          BY DEF OwnersInv
        <5>3. req[q].pc = "sign" => [kind |-> req[q].token.kind, id |-> req[q].token.id] \in Account
          BY <5>1, HandlerFields DEF Token, Account
        <5>4. req[q].pc = "check" => [kind |-> req[q].kind, id |-> req[q].id] \in Account
          BY <5>1, HandlerFields DEF Account
        <5>5. QED
          BY <5>1, <5>2, <5>3, <5>4, <3>6, HandlerFields DEF HandlerOwned, Token
      <4>3. QED
        BY <4>1, <4>2
    <3>14. QED
      BY <3>7, <3>8, <3>9, <3>10, <3>11, <3>12, <3>13 DEF OwnersInv
  <2>3. ASSUME NEW r \in Requests, CreateToken(r) PROVE OwnersInv'
    <3>1. TokensStayWithOwner' /\ (access \subseteq issued)'
      BY <2>3 DEF CreateToken, OwnersInv, TokensStayWithOwner, HandlerOwned
    <3>2. ASSUME NEW q \in Requests PROVE HandlerOwned(req'[q])
      BY <2>3 DEF CreateToken, OwnersInv, HandlerOwned, Idle
    <3>3. QED
      BY <2>3, <3>1, <3>2 DEF CreateToken, OwnersInv, RowsOwned, SerialFresh,
         DeletedOpened, PendingOpened, HandlerOwned
  <2>4. ASSUME NEW r \in Requests, NEW k \in Kinds, NEW t \in issued, RefreshRead(r, k, t)
        PROVE OwnersInv'
    <3>1. t \in Token /\ t.sid \in Sids
      BY DEF TypeOK, Token
    <3>2. openedBy[t.sid] = [kind |-> k, id |-> session[t.sid].userId]
      <4>1. openedBy[t.sid] = [kind |-> t.kind, id |-> t.id]
        BY DEF OwnersInv, TokensStayWithOwner
      <4>2. openedBy[t.sid] = [kind |-> session[t.sid].userType, id |-> session[t.sid].userId]
        BY <2>4, <3>1 DEF RefreshRead, OwnersInv, RowsOwned
      <4>3. t.id = session[t.sid].userId
        BY <4>1, <4>2
      <4>4. QED
        BY <2>4, <4>1, <4>3 DEF RefreshRead, VerifyRefreshToken
    <3>3. ASSUME NEW q \in Requests PROVE HandlerOwned(req'[q])
      BY <2>4, <3>2 DEF RefreshRead, OwnersInv, HandlerOwned
    <3>4. QED
      BY <2>4, <3>3 DEF RefreshRead, OwnersInv, RowsOwned, SerialFresh,
         DeletedOpened, PendingOpened, TokensStayWithOwner, HandlerOwned, history
  <2>5. ASSUME NEW r \in Requests, RefreshRotate(r) PROVE OwnersInv'
    <3>1. req[r] \in Handler /\ req[r].sid \in Sids
      BY <2>5, HandlerFields DEF RefreshRotate, TypeOK
    <3>2. /\ openedBy[req[r].sid] = [kind |-> req[r].kind, id |-> req[r].id]
          /\ [kind |-> req[r].kind, id |-> req[r].id] # NoRow
      <4>1. HandlerOwned(req[r]) /\ req[r].pc = "check"
        BY <2>5 DEF RefreshRotate, OwnersInv
      <4>2. [kind |-> req[r].kind, id |-> req[r].id] \in Account
        BY <4>1, <3>1, HandlerFields DEF Account
      <4>3. QED
        BY <4>1, <4>2 DEF HandlerOwned
    <3>3. PendingOpened'
      BY <2>5, <3>2 DEF RefreshRotate, OwnersInv, PendingOpened
    <3>4. ASSUME NEW q \in Requests PROVE HandlerOwned(req'[q])
      BY <2>5, <3>2 DEF RefreshRotate, OwnersInv, HandlerOwned
    <3>5. QED
      BY <2>5, <3>3, <3>4 DEF RefreshRotate, OwnersInv, RowsOwned, SerialFresh,
         DeletedOpened, TokensStayWithOwner, HandlerOwned
  <2>6. ASSUME NEW r \in Requests, RefreshOwnerGone(r) PROVE OwnersInv'
    BY <2>6 DEF RefreshOwnerGone, OwnersInv, RowsOwned, SerialFresh, DeletedOpened,
       PendingOpened, TokensStayWithOwner, HandlerOwned, history, Idle
  <2>7. ASSUME NEW u \in updates, ApplyUpdate(u) PROVE OwnersInv'
    <3>2. RowsOwned' /\ DeletedOpened'
      <4>1. CASE session[u.sid] = NoRow
        BY <2>7, <4>1 DEF ApplyUpdate, OwnersInv, RowsOwned, DeletedOpened
      <4>2. CASE session[u.sid] # NoRow
        <5>2. /\ session'[u.sid].userType = session[u.sid].userType
              /\ session'[u.sid].userId = session[u.sid].userId
          BY <2>7 DEF ApplyUpdate, TypeOK, Row
        <5>3. \A s \in Sids : s # u.sid => session'[s] = session[s]
          BY <2>7 DEF ApplyUpdate, TypeOK
        <5>5. deleted \subseteq Sids
          BY DEF TypeOK
        <5>6. openedBy' = openedBy /\ deleted' = deleted
          BY <2>7 DEF ApplyUpdate
        <5>7. QED
          BY <4>2, <5>2, <5>3, <5>5, <5>6 DEF OwnersInv, RowsOwned, DeletedOpened
      <4>3. QED
        BY <4>1, <4>2
    <3>3. QED
      BY <2>7, <3>2 DEF ApplyUpdate, OwnersInv, SerialFresh, PendingOpened,
         TokensStayWithOwner, HandlerOwned
  <2>8. ASSUME NEW u \in updates, LoseUpdate(u) PROVE OwnersInv'
    BY <2>8 DEF LoseUpdate, OwnersInv, RowsOwned, SerialFresh, DeletedOpened,
       PendingOpened, TokensStayWithOwner, HandlerOwned
  <2>9. ASSUME NEW r \in Requests, NEW k \in Kinds, NEW t \in access, LogoutBlacklist(r, k, t)
        PROVE OwnersInv'
    <3>1. t \in Token /\ t \in issued
      BY DEF TypeOK, OwnersInv
    <3>2. openedBy[t.sid] # NoRow
      <4>1. [kind |-> t.kind, id |-> t.id] \in Account
        BY <3>1 DEF Token, Account
      <4>2. QED
        BY <4>1 DEF OwnersInv, TokensStayWithOwner
    <3>3. ASSUME NEW q \in Requests PROVE HandlerOwned(req'[q])
      BY <2>9, <3>2 DEF LogoutBlacklist, OwnersInv, HandlerOwned
    <3>4. QED
      BY <2>9, <3>3 DEF LogoutBlacklist, OwnersInv, RowsOwned, SerialFresh,
         DeletedOpened, PendingOpened, TokensStayWithOwner, HandlerOwned, history
  <2>10. ASSUME NEW r \in Requests, LogoutDelete(r) PROVE OwnersInv'
    <3>1. req[r].sid \in Sids /\ openedBy[req[r].sid] # NoRow
      BY <2>10, HandlerFields DEF LogoutDelete, TypeOK, OwnersInv, HandlerOwned
    <3>2. RowsOwned' /\ DeletedOpened'
      BY <2>10, <3>1 DEF LogoutDelete, OwnersInv, RowsOwned, DeletedOpened, TypeOK
    <3>3. ASSUME NEW q \in Requests PROVE HandlerOwned(req'[q])
      BY <2>10 DEF LogoutDelete, OwnersInv, HandlerOwned, Idle
    <3>4. QED
      BY <2>10, <3>2, <3>3 DEF LogoutDelete, OwnersInv, SerialFresh, PendingOpened,
         TokensStayWithOwner, HandlerOwned
  <2>11. ASSUME NEW r \in Requests, FailIO(r) PROVE OwnersInv'
    BY <2>11 DEF FailIO, OwnersInv, RowsOwned, SerialFresh, DeletedOpened,
       PendingOpened, TokensStayWithOwner, HandlerOwned, history, Idle
  <2>12. ASSUME NEW a \in Account, RemoveAccount(a) PROVE OwnersInv'
    BY <2>12 DEF RemoveAccount, OwnersInv, RowsOwned, SerialFresh, DeletedOpened,
       PendingOpened, TokensStayWithOwner, HandlerOwned, history
  <2>13. ASSUME NEW t \in access, AccessExpires(t) PROVE OwnersInv'
    BY <2>13 DEF AccessExpires, OwnersInv, RowsOwned, SerialFresh, DeletedOpened,
       PendingOpened, TokensStayWithOwner, HandlerOwned, history
  <2>14. CASE Crash
    BY <2>14 DEF Crash, OwnersInv, RowsOwned, SerialFresh, DeletedOpened,
       PendingOpened, TokensStayWithOwner, HandlerOwned, Idle
  <2>15. CASE UNCHANGED vars
    BY <2>15 DEF vars, OwnersInv, RowsOwned, SerialFresh, DeletedOpened,
       PendingOpened, TokensStayWithOwner, HandlerOwned
  <2>16. QED
    BY <2>1, <2>2, <2>3, <2>4, <2>5, <2>6, <2>7, <2>8, <2>9, <2>10, <2>11, <2>12,
       <2>13, <2>14, <2>15 DEF Next, Arrival, Handling, Database
<1>3. QED
  BY <1>1, <1>2, TypeCorrect, PTL DEF Spec

-------------------------------------------------------------------------------
(* Hashes *)

\* Hashes of rows are pairwise different and not retired.
RowsApart ==
    /\ \A s \in Sids : session[s] # NoRow =>
          session[s].hash < nextHash /\ session[s].hash \notin retired
    /\ \A s1, s2 \in Sids :
          /\ session[s1] # NoRow /\ session[s2] # NoRow
          /\ session[s1].hash = session[s2].hash
          => s1 = s2

\* A pending statement carries a hash that no row has held.
PendingApart ==
    /\ \A u \in updates :
          /\ u.hash < nextHash
          /\ u.hash \notin retired
          /\ \A s \in Sids : session[s] # NoRow => session[s].hash # u.hash
    /\ \A u1, u2 \in updates : u1.hash = u2.hash => u1 = u2

\* A hash that was presented is an old one, and belongs to its session only.
PresentedKnown ==
    /\ \A r \in Requests : req[r].pc = "check" =>
          /\ req[r].hash < nextHash
          /\ \A u \in updates : u.hash # req[r].hash
          /\ \A s \in Sids :
                session[s] # NoRow /\ session[s].hash = req[r].hash =>
                    s = req[r].sid
    /\ \A p \in spent :
          /\ p[1] < nextHash
          /\ \A u \in updates : u.hash # p[1]

RotationInv ==
    /\ RowsApart
    /\ PendingApart
    /\ \A h \in retired : h < nextHash
    /\ PresentedKnown
    /\ SpentTokenDies

\* Hashes never come back: what the rotation of refresh tokens rests on.
THEOREM RotationCorrect == Spec => []RotationInv
<1>1. Init => RotationInv
  BY DEF Init, RotationInv, RowsApart, PendingApart, PresentedKnown, SpentTokenDies,
     Idle
<1>2. TypeOK /\ TypeOK' /\ RotationInv /\ [Next]_vars => RotationInv'
  <2> SUFFICES ASSUME TypeOK, TypeOK', RotationInv, [Next]_vars PROVE RotationInv'
    OBVIOUS
  <2> USE SessionsAssumption
  <2>1. ASSUME NEW r \in Requests, NEW a \in Account, SignInFind(r, a) PROVE RotationInv'
    BY <2>1 DEF SignInFind, RotationInv, RowsApart, PendingApart, PresentedKnown,
       SpentTokenDies, history
  <2>2. ASSUME NEW r \in Requests, SignInSave(r) PROVE RotationInv'
    <3> DEFINE n == nextSid
               h == nextHash
    <3>1. n \in Sids /\ h \in Hashes /\ h \in Nat
      BY <2>2 DEF SignInSave, Hashes
    <3>2. /\ session'[n] # NoRow /\ session'[n].hash = h
          /\ \A s \in Sids : s # n => session'[s] = session[s]
      BY <2>2, HandlerFields DEF SignInSave, TypeOK, Row
    <3>3. /\ nextHash' = h + 1
          /\ \A x \in Hashes : x < h => x # h /\ x < h + 1
          /\ h < h + 1
      BY <2>2 DEF SignInSave, Hashes
    <3>4. \A s \in Sids : session[s] # NoRow => session[s].hash \in Hashes
      BY DEF TypeOK, Row
    <3>5. RowsApart'
      <4>1. retired' = retired
        BY <2>2 DEF SignInSave
      <4>3. QED
        BY <3>1, <3>2, <3>3, <3>4, <4>1 DEF RotationInv, RowsApart
    <3>6. updates' = updates /\ retired' = retired /\ spent' = spent /\ lost' = lost
      BY <2>2 DEF SignInSave
    <3>7. PendingApart'
      BY <3>2, <3>3, <3>6 DEF RotationInv, PendingApart, TypeOK
    <3>8. \A x \in retired' : x < nextHash'
      BY <3>3, <3>6 DEF RotationInv, TypeOK
    <3>9. ASSUME NEW q \in Requests, req'[q].pc = "check"
          PROVE  /\ req[q].pc = "check" /\ req'[q] = req[q]
                 /\ req[q].hash \in Hashes
      BY <2>2, <3>9, HandlerFields DEF SignInSave, TypeOK
    <3>10. PresentedKnown'
      <4>1. ASSUME NEW q \in Requests, req'[q].pc = "check"
            PROVE  /\ req'[q].hash < nextHash'
                   /\ \A u \in updates' : u.hash # req'[q].hash
                   /\ \A s \in Sids :
                        session'[s] # NoRow /\ session'[s].hash = req'[q].hash =>
                          s = req'[q].sid
        BY <3>2, <3>3, <3>6, <3>9, <4>1 DEF RotationInv, PresentedKnown
      <4>2. ASSUME NEW p \in spent'
            PROVE  p[1] < nextHash' /\ \A u \in updates' : u.hash # p[1]
        BY <3>3, <3>6 DEF RotationInv, PresentedKnown, TypeOK
      <4>3. QED
        BY <4>1, <4>2 DEF PresentedKnown
    <3>11. SpentTokenDies'
      <4>1. \A p \in spent : p[1] # h
        BY DEF RotationInv, PresentedKnown, TypeOK
      <4>2. QED
        BY <3>2, <3>6, <4>1 DEF RotationInv, SpentTokenDies
    <3>12. QED
      BY <3>5, <3>7, <3>8, <3>10, <3>11 DEF RotationInv
  <2>3. ASSUME NEW r \in Requests, CreateToken(r) PROVE RotationInv'
    BY <2>3 DEF CreateToken, RotationInv, RowsApart, PendingApart, PresentedKnown,
       SpentTokenDies, Idle
  <2>4. ASSUME NEW r \in Requests, NEW k \in Kinds, NEW t \in issued, RefreshRead(r, k, t)
        PROVE RotationInv'
    <3>1. t \in Token /\ t.sid \in Sids
      BY DEF TypeOK, Token
    <3>2. /\ t.hash < nextHash
          /\ \A u \in updates : u.hash # t.hash
          /\ \A s \in Sids : session[s] # NoRow /\ session[s].hash = t.hash => s = t.sid
      BY <2>4, <3>1 DEF RefreshRead, RotationInv, RowsApart, PendingApart
    <3>3. PresentedKnown'
      BY <2>4, <3>2 DEF RefreshRead, RotationInv, PresentedKnown, history
    <3>4. QED
      BY <2>4, <3>3 DEF RefreshRead, RotationInv, RowsApart, PendingApart,
         SpentTokenDies, history
  <2>5. ASSUME NEW r \in Requests, RefreshRotate(r) PROVE RotationInv'
    <3> DEFINE h == nextHash
               new == [sid |-> req[r].sid, hash |-> h]
    <3>1. /\ req[r] \in Handler /\ req[r].pc = "check"
          /\ h \in Hashes /\ h \in Nat
          /\ req[r].hash \in Hashes /\ req[r].sid \in Sids
      BY <2>5, HandlerFields DEF RefreshRotate, TypeOK
    <3>2. /\ updates' = updates \cup {new}
          /\ spent' = spent \cup {<<req[r].hash, h>>}
          /\ session' = session /\ retired' = retired /\ lost' = lost
          /\ nextHash' = h + 1
      BY <2>5 DEF RefreshRotate
    <3>3. /\ \A x \in Hashes : x < h => x # h /\ x < h + 1
          /\ h < h + 1
      BY <3>1
    <3>4. \A s \in Sids : session[s] # NoRow => session[s].hash \in Hashes
      BY DEF TypeOK, Row
    <3>5. RowsApart'
      BY <3>2, <3>3, <3>4 DEF RotationInv, RowsApart
    <3>6. /\ h \notin retired
          /\ \A s \in Sids : session[s] # NoRow => session[s].hash # h
          /\ \A u \in updates : u.hash # h /\ u.hash \in Hashes
      BY DEF RotationInv, RowsApart, PendingApart, TypeOK
    <3>7. PendingApart'
      BY <3>2, <3>3, <3>6 DEF RotationInv, PendingApart
    <3>8. \A x \in retired' : x < nextHash'
      BY <3>2, <3>3 DEF RotationInv, TypeOK
    <3>9. req[r].hash < h /\ \A u \in updates : u.hash # req[r].hash
      BY <3>1 DEF RotationInv, PresentedKnown
    <3>10. PresentedKnown'
      <4>1. ASSUME NEW q \in Requests, req'[q].pc = "check"
            PROVE  req'[q] = req[q] /\ req[q].hash \in Hashes
        BY <2>5, <4>1, HandlerFields DEF RefreshRotate, TypeOK
      <4>2. ASSUME NEW q \in Requests, req'[q].pc = "check"
            PROVE  /\ req'[q].hash < nextHash'
                   /\ \A u \in updates' : u.hash # req'[q].hash
                   /\ \A s \in Sids :
                        session'[s] # NoRow /\ session'[s].hash = req'[q].hash =>
                          s = req'[q].sid
        BY <3>2, <3>3, <4>1, <4>2 DEF RotationInv, PresentedKnown
      <4>3. ASSUME NEW p \in spent'
            PROVE  p[1] < nextHash' /\ \A u \in updates' : u.hash # p[1]
        <5>1. CASE p \in spent
          BY <3>2, <3>3, <5>1 DEF RotationInv, PresentedKnown, TypeOK
        <5>2. CASE p = <<req[r].hash, h>>
          BY <3>1, <3>2, <3>3, <3>9, <5>2
        <5>3. QED
          BY <3>2, <5>1, <5>2
      <4>4. QED
        BY <4>2, <4>3 DEF PresentedKnown
    <3>11. SpentTokenDies'
      <4>1. \A s \in Sids : session[s] # NoRow /\ session[s].hash = req[r].hash => s = req[r].sid
        BY <3>1 DEF RotationInv, PresentedKnown
      <4>2. QED
        BY <3>2, <4>1 DEF RotationInv, SpentTokenDies
    <3>12. QED
      BY <3>5, <3>7, <3>8, <3>10, <3>11 DEF RotationInv
  <2>6. ASSUME NEW r \in Requests, RefreshOwnerGone(r) PROVE RotationInv'
    BY <2>6 DEF RefreshOwnerGone, RotationInv, RowsApart, PendingApart,
       PresentedKnown, SpentTokenDies, history, Idle
  <2>7. ASSUME NEW u \in updates, ApplyUpdate(u) PROVE RotationInv'
    <3>1. u.sid \in Sids /\ u.hash \in Hashes
      BY DEF TypeOK
    <3>2. /\ updates' = updates \ {u} /\ nextHash' = nextHash /\ spent' = spent
          /\ lost' = lost /\ req' = req
      BY <2>7 DEF ApplyUpdate
    <3>3. CASE session[u.sid] = NoRow
      <4>1. session' = session /\ retired' = retired
        BY <2>7, <3>3 DEF ApplyUpdate
      <4>2. SpentTokenDies'
        BY <3>2, <3>3, <4>1 DEF RotationInv, SpentTokenDies
      <4>3. QED
        BY <3>2, <4>1, <4>2 DEF RotationInv, RowsApart, PendingApart, PresentedKnown
    <3>4. CASE session[u.sid] # NoRow
      <4> DEFINE old == session[u.sid].hash
      <4>2. /\ session'[u.sid] = [session[u.sid] EXCEPT !.hash = u.hash]
            /\ \A s \in Sids : s # u.sid => session'[s] = session[s]
            /\ retired' = retired \cup {old}
        BY <2>7, <3>4 DEF ApplyUpdate, TypeOK
      <4>3. session'[u.sid].hash = u.hash
        BY <4>2
      <4>4. u.hash < nextHash /\ u.hash \notin retired /\ u.hash # old
        BY <3>1, <3>4 DEF RotationInv, PendingApart
      <4>5. old < nextHash /\ old \notin retired
        BY <3>1, <3>4 DEF RotationInv, RowsApart
      <4>6. RowsApart'
        <5>1. \A s \in Sids : session[s] # NoRow /\ s # u.sid =>
                 session[s].hash # old /\ session[s].hash # u.hash
          BY <3>1, <3>4 DEF RotationInv, RowsApart, PendingApart
        <5>2. ASSUME NEW s \in Sids, session'[s] # NoRow
              PROVE  session'[s].hash < nextHash' /\ session'[s].hash \notin retired'
          <6>1. CASE s = u.sid
            BY <3>2, <4>2, <4>3, <4>4, <6>1
          <6>2. CASE s # u.sid
            BY <3>2, <4>2, <5>1, <5>2, <6>2 DEF RotationInv, RowsApart
          <6>3. QED
            BY <6>1, <6>2
        <5>3. ASSUME NEW s1 \in Sids, NEW s2 \in Sids,
                     session'[s1] # NoRow, session'[s2] # NoRow,
                     session'[s1].hash = session'[s2].hash
              PROVE  s1 = s2
          <6>1. CASE s1 # u.sid /\ s2 # u.sid
            BY <4>2, <5>3, <6>1 DEF RotationInv, RowsApart
          <6>2. CASE s1 = u.sid \/ s2 = u.sid
            BY <4>2, <4>3, <5>1, <5>3, <6>2
          <6>3. QED
            BY <6>1, <6>2
        <5>4. QED
          BY <5>2, <5>3 DEF RowsApart
      <4>7. PendingApart'
        <5>1. \A v \in updates' : v \in updates /\ v.hash # u.hash /\ v.hash # old
          BY <3>1, <3>2, <3>4 DEF RotationInv, PendingApart
        <5>2. QED
          BY <3>2, <4>2, <4>3, <5>1 DEF RotationInv, PendingApart
      <4>8. \A x \in retired' : x < nextHash'
        BY <3>2, <4>2, <4>5 DEF RotationInv
      <4>9. PresentedKnown'
        <5>1. ASSUME NEW q \in Requests, req[q].pc = "check", NEW s \in Sids,
                     session'[s] # NoRow, session'[s].hash = req[q].hash
              PROVE  s = req[q].sid
          <6>1. s # u.sid
            BY <4>3, <5>1 DEF RotationInv, PresentedKnown
          <6>2. QED
            BY <4>2, <5>1, <6>1 DEF RotationInv, PresentedKnown
        <5>2. QED
          BY <3>2, <5>1 DEF RotationInv, PresentedKnown
      <4>10. SpentTokenDies'
        <5>1. SUFFICES ASSUME NEW p \in spent, NEW s \in Sids,
                              session'[s] # NoRow, session'[s].hash = p[1]
                       PROVE  [sid |-> s, hash |-> p[2]] \in updates' \/ p[2] \in lost'
          BY <3>2 DEF SpentTokenDies
        <5>2. s # u.sid
          BY <4>3, <5>1 DEF RotationInv, PresentedKnown
        <5>3. [sid |-> s, hash |-> p[2]] \in updates \/ p[2] \in lost
          BY <4>2, <5>1, <5>2 DEF RotationInv, SpentTokenDies
        <5>4. QED
          BY <3>2, <5>2, <5>3
      <4>11. QED
        BY <4>6, <4>7, <4>8, <4>9, <4>10 DEF RotationInv
    <3>5. QED
      BY <3>3, <3>4
  <2>8. ASSUME NEW u \in updates, LoseUpdate(u) PROVE RotationInv'
    BY <2>8 DEF LoseUpdate, RotationInv, RowsApart, PendingApart, PresentedKnown,
       SpentTokenDies
  <2>9. ASSUME NEW r \in Requests, NEW k \in Kinds, NEW t \in access, LogoutBlacklist(r, k, t)
        PROVE RotationInv'
    BY <2>9 DEF LogoutBlacklist, RotationInv, RowsApart, PendingApart,
       PresentedKnown, SpentTokenDies, history
  <2>10. ASSUME NEW r \in Requests, LogoutDelete(r) PROVE RotationInv'
    BY <2>10 DEF LogoutDelete, TypeOK, RotationInv, RowsApart, PendingApart,
       PresentedKnown, SpentTokenDies, Idle
  <2>11. ASSUME NEW r \in Requests, FailIO(r) PROVE RotationInv'
    BY <2>11 DEF FailIO, RotationInv, RowsApart, PendingApart, PresentedKnown,
       SpentTokenDies, history, Idle
  <2>12. ASSUME NEW a \in Account, RemoveAccount(a) PROVE RotationInv'
    BY <2>12 DEF RemoveAccount, RotationInv, RowsApart, PendingApart,
       PresentedKnown, SpentTokenDies, history
  <2>13. ASSUME NEW t \in access, AccessExpires(t) PROVE RotationInv'
    BY <2>13 DEF AccessExpires, RotationInv, RowsApart, PendingApart,
       PresentedKnown, SpentTokenDies, history
  <2>14. CASE Crash
    BY <2>14 DEF Crash, RotationInv, RowsApart, PendingApart, PresentedKnown,
       SpentTokenDies, Idle
  <2>15. CASE UNCHANGED vars
    BY <2>15 DEF vars, RotationInv, RowsApart, PendingApart, PresentedKnown,
       SpentTokenDies
  <2>16. QED
    BY <2>1, <2>2, <2>3, <2>4, <2>5, <2>6, <2>7, <2>8, <2>9, <2>10, <2>11, <2>12,
       <2>13, <2>14, <2>15 DEF Next, Arrival, Handling, Database
<1>3. QED
  BY <1>1, <1>2, TypeCorrect, PTL DEF Spec

-------------------------------------------------------------------------------
(* The properties of Sessions *)

\* A hash that was replaced or deleted never becomes valid again (rotation).
THEOREM SupersededStaysDead == Spec => []SupersededNeverReturns
<1>1. RotationInv => SupersededNeverReturns
  BY DEF RotationInv, RowsApart, SupersededNeverReturns
<1>2. QED
  BY <1>1, RotationCorrect, PTL

\* A traded refresh token works again only before its UPDATE or after a failed one.
THEOREM SpentStaysDead == Spec => []SpentTokenDies
<1>1. RotationInv => SpentTokenDies
  BY DEF RotationInv
<1>2. QED
  BY <1>1, RotationCorrect, PTL

\* No late UPDATE brings a deleted session back (logout against refreshToken).
THEOREM LogoutIsFinal == Spec => []DeletedStaysDeleted
<1>1. OwnersInv => DeletedStaysDeleted
  BY DEF OwnersInv, DeletedOpened, DeletedStaysDeleted
<1>2. QED
  BY <1>1, OwnersCorrect, PTL

\* Refreshing never moves a session to another account (userType is not read).
THEOREM OwnerIsFixed == Spec => []TokensStayWithOwner
<1>1. OwnersInv => TokensStayWithOwner
  BY DEF OwnersInv
<1>2. QED
  BY <1>1, OwnersCorrect, PTL

\* The sessions of a removed account fall silent (softRemove against refresh).
THEOREM RemovalIsQuiet == Spec => QuietAfterRemoval
<1>1. TypeOK /\ [Next]_vars =>
        [\A a \in Account : a \notin active /\ ~ Cleared(a) => ~ Cleared(a)']_vars
  <2> SUFFICES ASSUME TypeOK, Next, NEW acc \in Account,
                      acc \notin active, ~ Cleared(acc)
               PROVE  ~ Cleared(acc)'
    OBVIOUS
  <2> USE HandlerFields DEF Cleared, TypeOK, Account
  <2>1. ASSUME NEW r \in Requests, NEW a \in Account, SignInFind(r, a)
        PROVE ~ Cleared(acc)'
    BY <2>1 DEF SignInFind
  <2>2. ASSUME NEW r \in Requests, SignInSave(r) PROVE ~ Cleared(acc)'
    BY <2>2 DEF SignInSave
  <2>3. ASSUME NEW r \in Requests, CreateToken(r) PROVE ~ Cleared(acc)'
    BY <2>3 DEF CreateToken, Idle
  <2>4. ASSUME NEW r \in Requests, NEW k \in Kinds, NEW t \in issued, RefreshRead(r, k, t)
        PROVE ~ Cleared(acc)'
    BY <2>4 DEF RefreshRead
  <2>5. ASSUME NEW r \in Requests, RefreshRotate(r) PROVE ~ Cleared(acc)'
    BY <2>5 DEF RefreshRotate
  <2>6. ASSUME NEW r \in Requests, RefreshOwnerGone(r) PROVE ~ Cleared(acc)'
    BY <2>6 DEF RefreshOwnerGone, Idle
  <2>7. ASSUME NEW u \in updates, ApplyUpdate(u) PROVE ~ Cleared(acc)'
    BY <2>7 DEF ApplyUpdate
  <2>8. ASSUME NEW u \in updates, LoseUpdate(u) PROVE ~ Cleared(acc)'
    BY <2>8 DEF LoseUpdate
  <2>9. ASSUME NEW r \in Requests, NEW k \in Kinds, NEW t \in access, LogoutBlacklist(r, k, t)
        PROVE ~ Cleared(acc)'
    BY <2>9 DEF LogoutBlacklist
  <2>10. ASSUME NEW r \in Requests, LogoutDelete(r) PROVE ~ Cleared(acc)'
    BY <2>10 DEF LogoutDelete, Idle
  <2>11. ASSUME NEW r \in Requests, FailIO(r) PROVE ~ Cleared(acc)'
    BY <2>11 DEF FailIO, Idle
  <2>12. ASSUME NEW a \in Account, RemoveAccount(a) PROVE ~ Cleared(acc)'
    BY <2>12 DEF RemoveAccount
  <2>13. ASSUME NEW t \in access, AccessExpires(t) PROVE ~ Cleared(acc)'
    BY <2>13 DEF AccessExpires
  <2>14. CASE Crash
    BY <2>14 DEF Crash, Idle
  <2>15. QED
    BY <2>1, <2>2, <2>3, <2>4, <2>5, <2>6, <2>7, <2>8, <2>9, <2>10, <2>11, <2>12,
       <2>13, <2>14 DEF Next, Arrival, Handling, Database
<1>2. QED
  BY <1>1, TypeCorrect, PTL DEF Spec, QuietAfterRemoval

-------------------------------------------------------------------------------
(* Refinement *)

\* The statements of all handlers, interleaved, implement SessionLifecycle.
THEOREM LifecycleImplemented == Spec => ImplementsLifecycle
<1> DEFINE valid == [s \in Sids |->
                       IF session[s] = NoRow THEN NoRow ELSE session[s].hash]
<1> USE SessionsAssumption
<1>1. Init => Lifecycle!Init
  BY DEF Init, Lifecycle!Init
<1>2. TypeOK /\ OwnersInv /\ RotationInv /\ [Next]_vars => [Lifecycle!Next]_(Lifecycle!vars)
  <2> SUFFICES ASSUME TypeOK, OwnersInv, RotationInv, [Next]_vars
               PROVE  [Lifecycle!Next]_(Lifecycle!vars)
    OBVIOUS
  <2>1. ASSUME openedBy' = openedBy, session' = session, retired' = retired
        PROVE  UNCHANGED Lifecycle!vars
    BY <2>1 DEF Lifecycle!vars
  <2>2. ASSUME NEW r \in Requests, SignInSave(r) PROVE Lifecycle!Next
    <3> DEFINE a == [kind |-> req[r].kind, id |-> req[r].id]
    <3>1. /\ nextSid \in Sids /\ nextHash \in Hashes /\ a \in Account
          /\ req[r].kind \in Kinds /\ req[r].id \in Ids
      BY <2>2, HandlerFields DEF SignInSave, TypeOK, Account
    <3>2. openedBy[nextSid] = NoRow
      BY <3>1 DEF OwnersInv, SerialFresh, Sids
    <3>3. session[nextSid] = NoRow
      <4>1. session[nextSid] # NoRow =>
              /\ session[nextSid] \in Row
              /\ openedBy[nextSid] =
                   [kind |-> session[nextSid].userType, id |-> session[nextSid].userId]
        BY <3>1 DEF OwnersInv, RowsOwned, TypeOK
      <4>2. QED
        BY <3>2, <4>1 DEF Row, Account
    <3>4. Lifecycle!New(nextHash)
      <4>1. nextHash \notin retired
        BY <3>1 DEF RotationInv, Hashes
      <4>2. \A s \in Sids : session[s] # NoRow => session[s].hash # nextHash
        BY <3>1 DEF RotationInv, RowsApart, Hashes
      <4>3. QED
        BY <3>1, <4>1, <4>2 DEF Lifecycle!New
    <3>5. valid' = [valid EXCEPT ![nextSid] = nextHash]
      <4>1. /\ session'[nextSid] = [hash |-> nextHash, userId |-> a.id, userType |-> a.kind]
            /\ \A s \in Sids : s # nextSid => session'[s] = session[s]
        BY <2>2 DEF SignInSave, TypeOK
      <4>2. session'[nextSid] \in Row /\ session'[nextSid].hash = nextHash
        BY <3>1, <4>1 DEF Row
      <4>3. QED
        BY <4>1, <4>2
    <3>6. Lifecycle!Open(nextSid, a, nextHash)
      BY <2>2, <3>2, <3>3, <3>4, <3>5 DEF SignInSave, Lifecycle!Open
    <3>7. PICK n \in Sids, o \in Account, h \in Hashes :
             n = nextSid /\ o = a /\ h = nextHash
      BY <3>1
    <3>8. Lifecycle!Open(n, o, h)
      BY <3>6, <3>7 DEF Lifecycle!Open
    <3>9. QED
      BY <3>8 DEF Lifecycle!Next
  <2>3. ASSUME NEW u \in updates, ApplyUpdate(u), session[u.sid] # NoRow
        PROVE  Lifecycle!Next
    <3>1. u.sid \in Sids /\ u.hash \in Hashes /\ session[u.sid] \in Row
      BY <2>3 DEF TypeOK
    <3>2. session[u.sid].hash # NoRow
      BY <3>1 DEF Row
    <3>3. Lifecycle!New(u.hash)
      BY <3>1 DEF RotationInv, PendingApart, Lifecycle!New
    <3>4. valid' = [valid EXCEPT ![u.sid] = u.hash]
      <4>1. /\ session'[u.sid] = [session[u.sid] EXCEPT !.hash = u.hash]
            /\ \A s \in Sids : s # u.sid => session'[s] = session[s]
        BY <2>3 DEF ApplyUpdate, TypeOK
      <4>2. session'[u.sid] \in Row /\ session'[u.sid].hash = u.hash
        BY <3>1, <4>1 DEF Row
      <4>3. QED
        BY <4>1, <4>2
    <3>5. Lifecycle!Rotate(u.sid, u.hash)
      BY <2>3, <3>1, <3>2, <3>3, <3>4 DEF ApplyUpdate, Lifecycle!Rotate
    <3>6. QED
      BY <3>1, <3>5 DEF Lifecycle!Next
  <2>4. ASSUME NEW r \in Requests, LogoutDelete(r), session[req[r].sid] # NoRow
        PROVE  Lifecycle!Next
    <3> DEFINE s == req[r].sid
    <3>1. s \in Sids /\ session[s] \in Row
      BY <2>4, HandlerFields DEF LogoutDelete, TypeOK
    <3>2. session[s].hash # NoRow
      BY <3>1 DEF Row
    <3>3. valid' = [valid EXCEPT ![s] = NoRow]
      BY <2>4 DEF LogoutDelete, TypeOK
    <3>4. Lifecycle!Close(s)
      BY <2>4, <3>1, <3>2, <3>3 DEF LogoutDelete, Lifecycle!Close
    <3>5. PICK x \in Sids : x = s
      BY <3>1
    <3>6. Lifecycle!Close(x)
      BY <3>4, <3>5 DEF Lifecycle!Close
    <3>7. QED
      BY <3>6 DEF Lifecycle!Next
  <2>5. ASSUME NEW u \in updates, ApplyUpdate(u), session[u.sid] = NoRow
        PROVE  UNCHANGED Lifecycle!vars
    BY <2>1, <2>5 DEF ApplyUpdate
  <2>6. ASSUME NEW r \in Requests, LogoutDelete(r), session[req[r].sid] = NoRow
        PROVE  UNCHANGED Lifecycle!vars
    <3>1. session' = session
      BY <2>6 DEF LogoutDelete, TypeOK
    <3>2. QED
      BY <2>1, <2>6, <3>1 DEF LogoutDelete
  <2>7. ASSUME NEW r \in Requests,
               \/ \E a \in Account : SignInFind(r, a)
               \/ CreateToken(r)
               \/ \E k \in Kinds, t \in issued : RefreshRead(r, k, t)
               \/ RefreshRotate(r) \/ RefreshOwnerGone(r) \/ FailIO(r)
               \/ \E k \in Kinds, t \in access : LogoutBlacklist(r, k, t)
        PROVE  UNCHANGED Lifecycle!vars
    BY <2>1, <2>7 DEF SignInFind, CreateToken, RefreshRead, RefreshRotate,
       RefreshOwnerGone, FailIO, LogoutBlacklist, history
  <2>8. ASSUME \/ \E u \in updates : LoseUpdate(u)
               \/ \E a \in Account : RemoveAccount(a)
               \/ \E t \in access : AccessExpires(t)
               \/ Crash
               \/ UNCHANGED vars
        PROVE  UNCHANGED Lifecycle!vars
    BY <2>1, <2>8 DEF LoseUpdate, RemoveAccount, AccessExpires, Crash, vars, history
  <2>9. QED
    BY <2>2, <2>3, <2>4, <2>5, <2>6, <2>7, <2>8 DEF Next, Arrival, Handling,
       Database
<1>3. QED
  BY <1>1, <1>2, TypeCorrect, OwnersCorrect, RotationCorrect, PTL DEF Spec,
     ImplementsLifecycle, Lifecycle!Spec

-------------------------------------------------------------------------------
(* No lockout *)

\* Hashes a client has, is about to get, or missed through a crash.
Known == {t.hash : t \in issued} \cup Signing \cup undelivered

\* A hash stays known: a handler that signs answers, or dies in a crash.
LEMMA KnownStays ==
  ASSUME TypeOK, Next
  PROVE  Known \subseteq Known'
<1>1. ASSUME NEW r \in Requests, req[r].pc # "sign", issued' = issued, undelivered' = undelivered,
             \A q \in Requests : q # r => req'[q] = req[q]
      PROVE  Known \subseteq Known'
  BY <1>1 DEF Known, Signing
<1>2. ASSUME issued' = issued, undelivered' = undelivered, req' = req
      PROVE  Known \subseteq Known'
  BY <1>2 DEF Known, Signing
<1>3. ASSUME NEW r \in Requests, Arrival(r)
      PROVE  Known \subseteq Known'
  BY <1>1, <1>3 DEF Arrival, SignInFind, RefreshRead, LogoutBlacklist, Idle, TypeOK, history
<1>4. ASSUME NEW r \in Requests, CreateToken(r)
      PROVE  Known \subseteq Known'
  <2>1. \A q \in Requests : q # r => req'[q] = req[q]
    BY <1>4 DEF CreateToken, TypeOK
  <2>2. issued' = issued \cup {req[r].token} /\ undelivered' = undelivered
    BY <1>4 DEF CreateToken
  <2>3. QED
    BY <2>1, <2>2 DEF Known, Signing
<1>5. ASSUME NEW r \in Requests,
             SignInSave(r) \/ RefreshRotate(r) \/ RefreshOwnerGone(r) \/ LogoutDelete(r) \/ FailIO(r)
      PROVE  Known \subseteq Known'
  BY <1>1, <1>5 DEF SignInSave, RefreshRotate, RefreshOwnerGone, LogoutDelete, FailIO, TypeOK, history
<1>6. CASE Database \/ (\E a \in Account : RemoveAccount(a)) \/ \E t \in access : AccessExpires(t)
  BY <1>2, <1>6 DEF Database, ApplyUpdate, LoseUpdate, RemoveAccount, AccessExpires, history
<1>7. CASE Crash
  BY <1>7 DEF Crash, Known, Signing
<1>8. QED
  BY <1>3, <1>4, <1>5, <1>6, <1>7 DEF Next, Handling

\* The hashes of rows are known, and those of the UPDATEs that may replace them.
KnownInv ==
    /\ NoLockout
    /\ \A u \in updates : u.hash \in Known

\* A row never holds a hash no client can have: rotation alone, in any order of
\* its unawaited UPDATEs, locks nobody out (refreshToken).
THEOREM NobodyLockedOut == Spec => []NoLockout
<1>1. Init => KnownInv
  BY DEF Init, KnownInv, NoLockout
<1>2. TypeOK /\ KnownInv /\ [Next]_vars => KnownInv'
  <2> SUFFICES ASSUME TypeOK, KnownInv, Next PROVE KnownInv'
    BY DEF vars, KnownInv, NoLockout, Known, Signing
  <2>1. Known \subseteq Known'
    BY KnownStays
  <2>2. ASSUME \A s \in Sids : session'[s] # NoRow => session'[s].hash \in Known',
               \A u \in updates' : u.hash \in Known'
        PROVE  KnownInv'
    BY <2>2 DEF KnownInv, NoLockout, Known
  <2>3. /\ \A s \in Sids : session[s] # NoRow => session[s].hash \in Known'
        /\ \A u \in updates : u.hash \in Known'
    BY <2>1 DEF KnownInv, NoLockout, Known
  <2>4. ASSUME UNCHANGED <<session, updates>>
        PROVE  KnownInv'
    BY <2>2, <2>3, <2>4
  <2>5. ASSUME NEW r \in Requests, SignInSave(r)
        PROVE  KnownInv'
    <3>1. req'[r].pc = "sign" /\ req'[r].token.hash = nextHash
      BY <2>5 DEF SignInSave, TypeOK
    <3>2. nextHash \in Known'
      BY <3>1 DEF Known, Signing
    <3>3. \A s \in Sids : session'[s] # NoRow => session'[s] = session[s] \/ session'[s].hash = nextHash
      BY <2>5 DEF SignInSave, TypeOK
    <3>4. updates' = updates
      BY <2>5 DEF SignInSave
    <3>5. QED
      BY <2>2, <2>3, <3>2, <3>3, <3>4
  <2>6. ASSUME NEW r \in Requests, RefreshRotate(r)
        PROVE  KnownInv'
    <3>1. req'[r].pc = "sign" /\ req'[r].token.hash = nextHash
      BY <2>6 DEF RefreshRotate, TypeOK
    <3>2. nextHash \in Known'
      BY <3>1 DEF Known, Signing
    <3>3. session' = session /\ \A u \in updates' : u \in updates \/ u.hash = nextHash
      BY <2>6 DEF RefreshRotate
    <3>4. QED
      BY <2>2, <2>3, <3>2, <3>3
  <2>7. ASSUME NEW u \in updates, ApplyUpdate(u) \/ LoseUpdate(u)
        PROVE  KnownInv'
    <3>1. updates' \subseteq updates
      BY <2>7 DEF ApplyUpdate, LoseUpdate
    <3>2. \A s \in Sids : session'[s] # NoRow => session'[s] = session[s] \/ session'[s].hash = u.hash
      <4>1. CASE session' = session
        BY <4>1
      <4>2. CASE session[u.sid] # NoRow /\ session' = [session EXCEPT ![u.sid].hash = u.hash]
        <5>1. u.sid \in Sids /\ session[u.sid] \in Row
          BY <4>2 DEF TypeOK
        <5>2. session'[u.sid].hash = u.hash /\ \A s \in Sids : s # u.sid => session'[s] = session[s]
          BY <4>2, <5>1 DEF TypeOK, Row
        <5>3. QED
          BY <5>2
      <4>3. QED
        BY <2>7, <4>1, <4>2 DEF ApplyUpdate, LoseUpdate
    <3>3. QED
      BY <2>2, <2>3, <3>1, <3>2
  <2>8. ASSUME NEW r \in Requests, LogoutDelete(r)
        PROVE  KnownInv'
    <3>1. updates' = updates /\ \A s \in Sids : session'[s] # NoRow => session'[s] = session[s]
      BY <2>8 DEF LogoutDelete, TypeOK
    <3>2. QED
      BY <2>2, <2>3, <3>1
  <2>9. ASSUME NEW r \in Requests, Arrival(r) \/ CreateToken(r) \/ RefreshOwnerGone(r) \/ FailIO(r)
        PROVE  KnownInv'
    BY <2>4, <2>9 DEF Arrival, SignInFind, RefreshRead, LogoutBlacklist, CreateToken, RefreshOwnerGone, FailIO
  <2>10. CASE (\E a \in Account : RemoveAccount(a)) \/ (\E t \in access : AccessExpires(t)) \/ Crash
    BY <2>4, <2>10 DEF RemoveAccount, AccessExpires, Crash
  <2>11. QED
    BY <2>5, <2>6, <2>7, <2>8, <2>9, <2>10 DEF Next, Handling, Database
<1>3. KnownInv => NoLockout
  BY DEF KnownInv
<1>4. QED
  BY <1>1, <1>2, <1>3, TypeCorrect, PTL DEF Spec

-------------------------------------------------------------------------------
(* Logout blacklists first *)

\* The blacklist has the session, or an access token of it has expired.
Covered(s) == Blacklisted(ServiceKey, s) \/ \E t \in issued \ access : t.sid = s

\* Tokens that are about to be handed out are new, and each is one handler's.
SigningApart ==
    /\ \A t \in issued : t.hash < nextHash
    /\ \A r \in Requests : req[r].pc = "sign" =>
          req[r].token.hash < nextHash /\ \A t \in issued : t.hash # req[r].token.hash
    /\ \A q, r \in Requests :
          req[q].pc = "sign" /\ req[r].pc = "sign" /\ req[q].token.hash = req[r].token.hash => q = r

\* An entry lives as long as an access token of its session, and a logout is
\* past its entry when it deletes the row.
BlacklistInv ==
    /\ SigningApart
    /\ access \subseteq issued
    /\ \A e \in cache : e.until \in issued /\ e.until.sid = e.sid
    /\ \A r \in Requests, s \in Sids : req[r].pc = "delete" /\ req[r].sid = s => Covered(s)
    /\ LogoutBlacklistsFirst

\* What a step does to the handlers, if it is none of those that generate a hash.
LEMMA ApartStays ==
  ASSUME SigningApart, nextHash' = nextHash, issued' = issued,
         \A r \in Requests : req'[r].pc = "sign" => req'[r] = req[r]
  PROVE  SigningApart'
  BY DEF SigningApart

\* A covered session stays covered: a hash that is signed is new, so no token
\* that expired is handed out again.
LEMMA CoveredStays ==
  ASSUME TypeOK, BlacklistInv, Next, NEW s \in Sids, Covered(s)
  PROVE  Covered(s)'
<1>1. ASSUME cache' = cache, access' \subseteq access, issued \subseteq issued'
      PROVE  Covered(s)'
  BY <1>1 DEF Covered, Blacklisted
<1>2. ASSUME NEW r \in Requests, CreateToken(r)
      PROVE  Covered(s)'
  <2>1. req[r].token \notin issued
    BY <1>2 DEF CreateToken, BlacklistInv, SigningApart
  <2>2. QED
    BY <1>2, <2>1 DEF CreateToken, Covered, Blacklisted
<1>3. ASSUME NEW r \in Requests, NEW k \in Kinds, NEW t \in access, LogoutBlacklist(r, k, t)
      PROVE  Covered(s)'
  <2>1. /\ cache' = {e \in cache : e.key # ServiceKey \/ e.sid # t.sid}
                     \cup {[key |-> ServiceKey, sid |-> t.sid, until |-> t]}
        /\ issued' = issued /\ access' = access
    BY <1>3 DEF LogoutBlacklist, history
  <2>2. CASE s = t.sid
    <3>1. [key |-> ServiceKey, sid |-> t.sid, until |-> t] \in cache'
      BY <2>1
    <3>2. QED
      BY <2>2, <3>1 DEF Covered, Blacklisted
  <2>3. CASE s # t.sid
    BY <2>1, <2>3 DEF Covered, Blacklisted
  <2>4. QED
    BY <2>2, <2>3
<1>4. ASSUME NEW t \in access, AccessExpires(t)
      PROVE  Covered(s)'
  <2>1. issued' = issued /\ access' = access \ {t} /\ cache' = {e \in cache : e.until # t}
    BY <1>4 DEF AccessExpires, history
  <2>2. CASE \E x \in issued \ access : x.sid = s
    BY <2>1, <2>2 DEF Covered
  <2>3. ASSUME NEW e \in cache, e.key = ServiceKey, e.sid = s
        PROVE  Covered(s)'
    <3>1. CASE e.until = t
      BY <2>1, <2>3, <3>1 DEF Covered, BlacklistInv
    <3>2. CASE e.until # t
      BY <2>1, <2>3, <3>2 DEF Covered, Blacklisted
    <3>3. QED
      BY <3>1, <3>2
  <2>4. QED
    BY <2>2, <2>3 DEF Covered, Blacklisted
<1>5. ASSUME NEW r \in Requests,
             \/ \E a \in Account : SignInFind(r, a)
             \/ \E k \in Kinds, t \in issued : RefreshRead(r, k, t)
             \/ SignInSave(r) \/ RefreshRotate(r) \/ RefreshOwnerGone(r) \/ LogoutDelete(r) \/ FailIO(r)
      PROVE  Covered(s)'
  BY <1>1, <1>5 DEF SignInFind, RefreshRead, SignInSave, RefreshRotate, RefreshOwnerGone,
     LogoutDelete, FailIO, history
<1>6. CASE Database \/ (\E a \in Account : RemoveAccount(a)) \/ Crash
  BY <1>1, <1>6 DEF Database, ApplyUpdate, LoseUpdate, RemoveAccount, Crash, history
<1>7. QED
  BY <1>2, <1>3, <1>4, <1>5, <1>6 DEF Next, Arrival, Handling

LEMMA ApartKept ==
  ASSUME TypeOK, SigningApart, Next
  PROVE  SigningApart'
<1>1. nextHash \in Nat /\ \A t \in issued : t.hash \in Nat
  BY SessionsAssumption DEF TypeOK, Token, Hashes
<1>2. \A r \in Requests : req[r].pc = "sign" => req[r].token.hash \in Nat
  BY HandlerFields DEF TypeOK, Token, Hashes
<1>3. ASSUME NEW r \in Requests, SignInSave(r) \/ RefreshRotate(r)
      PROVE  SigningApart'
  <2>1. /\ req'[r].token.hash = nextHash /\ nextHash' = nextHash + 1 /\ issued' = issued
        /\ \A q \in Requests : q # r => req'[q] = req[q]
    BY <1>3 DEF SignInSave, RefreshRotate, TypeOK
  <2>2. \A q \in Requests : req'[q].pc = "sign" =>
            req'[q].token.hash < nextHash' /\ \A t \in issued' : t.hash # req'[q].token.hash
    BY <1>1, <1>2, <2>1 DEF SigningApart
  <2>3. \A p, q \in Requests :
            req'[p].pc = "sign" /\ req'[q].pc = "sign" /\ req'[p].token.hash = req'[q].token.hash => p = q
    BY <1>1, <1>2, <2>1 DEF SigningApart
  <2>4. \A t \in issued' : t.hash < nextHash'
    BY <1>1, <2>1 DEF SigningApart
  <2>5. QED
    BY <2>2, <2>3, <2>4 DEF SigningApart
<1>4. ASSUME NEW r \in Requests, CreateToken(r)
      PROVE  SigningApart'
  <2>1. /\ issued' = issued \cup {req[r].token} /\ nextHash' = nextHash /\ req[r].pc = "sign"
        /\ req'[r] = Idle /\ \A q \in Requests : q # r => req'[q] = req[q]
    BY <1>4 DEF CreateToken, TypeOK
  <2>2. \A q \in Requests : req'[q].pc = "sign" => q # r
    BY <2>1 DEF Idle
  <2>3. QED
    BY <2>1, <2>2 DEF SigningApart
<1>5. ASSUME nextHash' = nextHash, issued' = issued,
             \/ req' = req
             \/ \E r \in Requests : req'[r].pc # "sign" /\ \A q \in Requests : q # r => req'[q] = req[q]
             \/ \A q \in Requests : req'[q] = Idle
      PROVE  SigningApart'
  BY <1>5, ApartStays DEF Idle
<1>6. ASSUME NEW r \in Requests,
             Arrival(r) \/ RefreshOwnerGone(r) \/ LogoutDelete(r) \/ FailIO(r)
      PROVE  SigningApart'
  <2>1. req'[r].pc # "sign" /\ \A q \in Requests : q # r => req'[q] = req[q]
    BY <1>6 DEF Arrival, SignInFind, RefreshRead, LogoutBlacklist, RefreshOwnerGone, LogoutDelete, FailIO, Idle, TypeOK
  <2>2. nextHash' = nextHash /\ issued' = issued
    BY <1>6 DEF Arrival, SignInFind, RefreshRead, LogoutBlacklist, RefreshOwnerGone, LogoutDelete, FailIO, history
  <2>3. QED
    BY <1>5, <2>1, <2>2
<1>7. CASE Database \/ (\E a \in Account : RemoveAccount(a)) \/ (\E t \in access : AccessExpires(t)) \/ Crash
  BY <1>5, <1>7 DEF Database, ApplyUpdate, LoseUpdate, RemoveAccount, AccessExpires, Crash, history
<1>8. QED
  BY <1>3, <1>4, <1>6, <1>7 DEF Next, Handling

\* Where a session's row was deleted and nothing blacklists the session, an
\* access token of it has expired (logout writes the entry before it deletes).
THEOREM BlacklistComesFirst == Spec => []LogoutBlacklistsFirst
<1>1. Init => BlacklistInv
  BY DEF Init, BlacklistInv, SigningApart, LogoutBlacklistsFirst, Idle
<1>2. TypeOK /\ BlacklistInv /\ [Next]_vars => BlacklistInv'
  <2> SUFFICES ASSUME TypeOK, BlacklistInv, Next PROVE BlacklistInv'
    BY DEF vars, BlacklistInv, SigningApart, LogoutBlacklistsFirst, Covered, Blacklisted
  <2>1. SigningApart'
    BY ApartKept DEF BlacklistInv
  <2>2. \A s \in Sids : Covered(s) => Covered(s)'
    BY CoveredStays
  <2>3. ASSUME NEW r \in Requests, LogoutDelete(r)
        PROVE  BlacklistInv'
    <3>1. req[r].sid \in Sids /\ req[r].pc = "delete"
      BY <2>3, HandlerFields DEF LogoutDelete, TypeOK
    <3>2. deleted' = deleted \cup {req[r].sid} /\ cache' = cache /\ issued' = issued /\ access' = access
      BY <2>3 DEF LogoutDelete
    <3>3. \A q \in Requests : req'[q].pc = "delete" => req'[q] = req[q]
      BY <2>3 DEF LogoutDelete, TypeOK, Idle
    <3>4. \A s \in Sids : Covered(s)' <=> Covered(s)
      BY <3>2 DEF Covered, Blacklisted
    <3>5. \A s \in deleted' : Covered(s)
      BY <3>1, <3>2 DEF BlacklistInv, LogoutBlacklistsFirst, Covered
    <3>6. LogoutBlacklistsFirst'
      BY <3>2, <3>5 DEF LogoutBlacklistsFirst, Covered, Blacklisted
    <3>7. \A q \in Requests, s \in Sids : req'[q].pc = "delete" /\ req'[q].sid = s => Covered(s)'
      BY <3>3, <3>4 DEF BlacklistInv
    <3>8. access' \subseteq issued' /\ \A e \in cache' : e.until \in issued' /\ e.until.sid = e.sid
      BY <3>2 DEF BlacklistInv
    <3>9. QED
      BY <2>1, <3>6, <3>7, <3>8 DEF BlacklistInv
  <2>4. ASSUME deleted' = deleted,
               access' \subseteq issued',
               \A e \in cache' : e.until \in issued' /\ e.until.sid = e.sid,
               \A r \in Requests, s \in Sids :
                   req'[r].pc = "delete" /\ req'[r].sid = s => req'[r] = req[r] \/ Covered(s)'
        PROVE  BlacklistInv'
    <3>1. \A s \in deleted' : Covered(s)'
      BY <2>2, <2>4 DEF BlacklistInv, LogoutBlacklistsFirst, Covered, TypeOK
    <3>2. LogoutBlacklistsFirst'
      BY <3>1 DEF LogoutBlacklistsFirst, Covered, Blacklisted
    <3>3. \A r \in Requests, s \in Sids : req'[r].pc = "delete" /\ req'[r].sid = s => Covered(s)'
      BY <2>2, <2>4 DEF BlacklistInv
    <3>4. QED
      BY <2>1, <2>4, <3>2, <3>3 DEF BlacklistInv
  <2>5. ASSUME NEW r \in Requests, NEW k \in Kinds, NEW t \in access, LogoutBlacklist(r, k, t)
        PROVE  BlacklistInv'
    <3>1. /\ cache' = {e \in cache : e.key # ServiceKey \/ e.sid # t.sid}
                       \cup {[key |-> ServiceKey, sid |-> t.sid, until |-> t]}
          /\ issued' = issued /\ access' = access /\ deleted' = deleted
      BY <2>5 DEF LogoutBlacklist, history
    <3>2. [key |-> ServiceKey, sid |-> t.sid, until |-> t] \in cache'
      BY <3>1
    <3>3. Covered(t.sid)'
      BY <3>2 DEF Covered, Blacklisted
    <3>4. req'[r] = [pc |-> "delete", sid |-> t.sid] /\ \A q \in Requests : q # r => req'[q] = req[q]
      BY <2>5 DEF LogoutBlacklist, TypeOK
    <3>5. \A q \in Requests, s \in Sids :
              req'[q].pc = "delete" /\ req'[q].sid = s => req'[q] = req[q] \/ Covered(s)'
      BY <3>3, <3>4
    <3>6. \A e \in cache' : e.until \in issued' /\ e.until.sid = e.sid
      BY <3>1 DEF BlacklistInv
    <3>7. QED
      BY <2>4, <3>1, <3>5, <3>6 DEF BlacklistInv
  <2>6. ASSUME NEW t \in access, AccessExpires(t)
        PROVE  BlacklistInv'
    BY <2>4, <2>6 DEF AccessExpires, BlacklistInv, history
  <2>7. ASSUME NEW r \in Requests, CreateToken(r)
        PROVE  BlacklistInv'
    <3>1. \A q \in Requests : req'[q].pc = "delete" => req'[q] = req[q]
      BY <2>7 DEF CreateToken, TypeOK, Idle
    <3>2. QED
      BY <2>4, <2>7, <3>1 DEF CreateToken, BlacklistInv
  <2>8. ASSUME NEW r \in Requests,
               \/ \E a \in Account : SignInFind(r, a)
               \/ \E k \in Kinds, t \in issued : RefreshRead(r, k, t)
               \/ SignInSave(r) \/ RefreshRotate(r) \/ RefreshOwnerGone(r) \/ FailIO(r)
        PROVE  BlacklistInv'
    <3>1. \A q \in Requests : req'[q].pc = "delete" => req'[q] = req[q]
      BY <2>8 DEF SignInFind, RefreshRead, SignInSave, RefreshRotate, RefreshOwnerGone, FailIO, TypeOK, Idle
    <3>2. UNCHANGED <<deleted, access, issued, cache>>
      BY <2>8 DEF SignInFind, RefreshRead, SignInSave, RefreshRotate, RefreshOwnerGone, FailIO, history
    <3>3. QED
      BY <2>4, <3>1, <3>2 DEF BlacklistInv
  <2>9. CASE Database \/ (\E a \in Account : RemoveAccount(a)) \/ Crash
    <3>1. UNCHANGED <<deleted, access, issued, cache>>
      BY <2>9 DEF Database, ApplyUpdate, LoseUpdate, RemoveAccount, Crash, history
    <3>2. req' = req \/ req' = [r \in Requests |-> Idle]
      BY <2>9 DEF Database, ApplyUpdate, LoseUpdate, RemoveAccount, Crash
    <3>3. \A q \in Requests : req'[q].pc = "delete" => req'[q] = req[q]
      BY <3>2 DEF Idle
    <3>4. QED
      BY <2>4, <3>1, <3>3 DEF BlacklistInv
  <2>10. QED
    BY <2>3, <2>5, <2>6, <2>7, <2>8, <2>9 DEF Next, Arrival, Handling
<1>3. BlacklistInv => LogoutBlacklistsFirst
  BY DEF BlacklistInv
<1>4. QED
  BY <1>1, <1>2, <1>3, TypeCorrect, PTL DEF Spec

===============================================================================
