--------------------------- MODULE SystemSetupProofs ---------------------------
(***************************************************************************)
(* Proofs about SystemSetup, for any number of requests and names.         *)
(***************************************************************************)
EXTENDS SystemSetup, TLAPS

\* What the program counter of a handler says of its other fields.
LEMMA HandlerFields ==
    ASSUME NEW h \in Handler
    PROVE /\ h.pc \in {"idle", "probe", "role", "admin", "commit"}
          /\ h.pc = "idle" <=> h = Idle
          /\ h.pc # "idle" => h.role \in RoleNames /\ h.email \in Emails
          /\ h.pc = "probe" => /\ h.op \in {"status", "setup"}
                               /\ h.probe \in [Flags -> Probe]
  BY DEF Handler, Idle

\* A question moves on without a change of anything else in its handler.
LEMMA MoveKeepsHandler ==
    ASSUME TypeOK, NEW r \in Requests, NEW f \in Flags,
           NEW st \in {"get", "count", "set", "done"}, NEW v \in BOOLEAN,
           req[r].pc = "probe", Move(r, f, st, v)
    PROVE /\ req' \in [Requests -> Handler]
          /\ \A q \in Requests : req'[q].pc = req[q].pc
          /\ \A q \in Requests \ {r} : req'[q] = req[q]
          /\ \A g \in Flags \ {f} : req'[r].probe[g] = req[r].probe[g]
          /\ req'[r].probe[f].st = st
          /\ req'[r].probe[f].v = v
<1> DEFINE h == [req[r] EXCEPT !.probe[f] = [st |-> st, v |-> v]]
<1>1. req[r] \in [pc : {"probe"}, op : {"status", "setup"}, role : RoleNames,
                  email : Emails, probe : [Flags -> Probe]]
  BY DEF TypeOK, Handler, Idle
<1>2. h \in [pc : {"probe"}, op : {"status", "setup"}, role : RoleNames,
             email : Emails, probe : [Flags -> Probe]]
  BY <1>1 DEF Probe
<1>3. h \in Handler
  BY <1>2 DEF Handler
<1>4. req' = [req EXCEPT ![r] = h]
  BY DEF Move
<1>5. /\ h.pc = req[r].pc
      /\ h.probe[f] = [st |-> st, v |-> v]
      /\ \A g \in Flags \ {f} : h.probe[g] = req[r].probe[g]
  BY <1>1
<1> HIDE DEF h
<1>6. QED
  BY <1>3, <1>4, <1>5 DEF TypeOK

\* What the three steps of a question do to its handler and to the cache.
LEMMA ProbeGetStep ==
    ASSUME TypeOK, NEW r \in Requests, NEW f \in Flags, ProbeGet(r, f)
    PROVE /\ req[r].pc = "probe"
          /\ req' \in [Requests -> Handler]
          /\ \A q \in Requests : req'[q].pc = req[q].pc
          /\ \A q \in Requests \ {r} : req'[q] = req[q]
          /\ \A g \in Flags \ {f} : req'[r].probe[g] = req[r].probe[g]
          /\ \/ req'[r].probe[f].st = "count"
             \/ /\ req'[r].probe[f].st = "done"
                /\ cache[f] \in BOOLEAN
                /\ req'[r].probe[f].v = cache[f]
<1>1. req[r].pc = "probe"
  BY DEF ProbeGet, Asking
<1>2. CASE cache[f] = Empty
  <2>1. Move(r, f, "count", FALSE)
    BY <1>2 DEF ProbeGet
  <2>2. QED
    BY <1>1, <2>1, MoveKeepsHandler
<1>3. CASE cache[f] # Empty
  <2>1. cache[f] \in BOOLEAN
    BY <1>3 DEF TypeOK
  <2>2. Move(r, f, "done", cache[f])
    BY <1>3 DEF ProbeGet
  <2>3. QED
    BY <1>1, <2>1, <2>2, MoveKeepsHandler
<1>4. QED
  BY <1>2, <1>3

LEMMA ProbeCountStep ==
    ASSUME TypeOK, NEW r \in Requests, NEW f \in Flags, ProbeCount(r, f)
    PROVE /\ req[r].pc = "probe"
          /\ req' \in [Requests -> Handler]
          /\ \A q \in Requests : req'[q].pc = req[q].pc
          /\ \A q \in Requests \ {r} : req'[q] = req[q]
          /\ \A g \in Flags \ {f} : req'[r].probe[g] = req[r].probe[g]
          /\ live[f] # {} => req'[r].probe[f].v
<1>1. req[r].pc = "probe" /\ Move(r, f, "set", live[f] # {})
  BY DEF ProbeCount, Asking
<1>2. QED
  BY <1>1, MoveKeepsHandler

LEMMA ProbeSetStep ==
    ASSUME TypeOK, NEW r \in Requests, NEW f \in Flags, ProbeSet(r, f)
    PROVE /\ Asking(r, f, "set")
          /\ req[r].pc = "probe"
          /\ req[r].probe[f].v \in BOOLEAN
          /\ req' \in [Requests -> Handler]
          /\ \A q \in Requests : req'[q].pc = req[q].pc
          /\ \A q \in Requests \ {r} : req'[q] = req[q]
          /\ \A g \in Flags \ {f} : req'[r].probe[g] = req[r].probe[g]
          /\ req'[r].probe[f].v = req[r].probe[f].v
          /\ cache' = [cache EXCEPT ![f] = req[r].probe[f].v]
<1> DEFINE v == req[r].probe[f].v
<1>1. /\ Asking(r, f, "set") /\ req[r].pc = "probe" /\ Move(r, f, "done", v)
      /\ cache' = [cache EXCEPT ![f] = v]
  BY DEF ProbeSet, Asking
<1>2. v \in BOOLEAN
  BY <1>1, HandlerFields DEF TypeOK, Probe
<1> HIDE DEF v
<1>3. QED
  BY <1>1, <1>2, MoveKeepsHandler DEF v

\* Every variable keeps its type.
THEOREM TypeCorrect == Spec => []TypeOK
<1>1. Init => TypeOK
  <2> SUFFICES ASSUME Init PROVE TypeOK
    OBVIOUS
  <2>1. setups \in 0 .. MaxSetups
    BY SetupAssumption DEF Init
  <2>2. req \in [Requests -> Handler]
    BY DEF Init, Handler
  <2>3. QED
    BY <2>1, <2>2 DEF Init, TypeOK
<1>2. TypeOK /\ [Next]_vars => TypeOK'
  <2> SUFFICES ASSUME TypeOK, [Next]_vars PROVE TypeOK'
    OBVIOUS
  <2> USE SetupAssumption
  <2>1. ASSUME NEW r \in Requests, NEW op \in {"status", "setup"}, NEW n \in RoleNames,
             NEW m \in Emails, Arrive(r, op, n, m)
      PROVE TypeOK'
    BY <2>1 DEF Arrive, TypeOK, Handler, Probe, NewProbe
  <2>2. ASSUME NEW r \in Requests, NEW f \in Flags, ProbeGet(r, f)
      PROVE TypeOK'
    BY <2>2, ProbeGetStep DEF ProbeGet, TypeOK
  <2>3. ASSUME NEW r \in Requests, NEW f \in Flags, ProbeCount(r, f)
      PROVE TypeOK'
    BY <2>3, ProbeCountStep DEF ProbeCount, TypeOK
  <2>4. ASSUME NEW r \in Requests, NEW f \in Flags, ProbeSet(r, f)
      PROVE TypeOK'
    BY <2>4, ProbeSetStep DEF ProbeSet, TypeOK
  <2>5. ASSUME NEW r \in Requests, Decide(r) PROVE TypeOK'
    <3>1. /\ req[r].pc = "probe"
          /\ req[r].role \in RoleNames /\ req[r].email \in Emails
      BY <2>5, HandlerFields DEF Decide, Answered, TypeOK
    <3>2. req' \in [Requests -> Handler]
      BY <2>5, <3>1 DEF Decide, TypeOK, Handler
    <3>3. QED
      BY <2>5, <3>2 DEF Decide, TypeOK
  <2>6. ASSUME NEW r \in Requests, InsertRole(r) PROVE TypeOK'
    BY <2>6, HandlerFields DEF InsertRole, TypeOK, Handler, Flags
  <2>7. ASSUME NEW r \in Requests, InsertAdmin(r) PROVE TypeOK'
    BY <2>7, HandlerFields DEF InsertAdmin, TypeOK, Handler, Flags
  <2>8. ASSUME NEW r \in Requests, InsertRejected(r) PROVE TypeOK'
    BY <2>8 DEF InsertRejected, TypeOK, Handler
  <2>9. ASSUME NEW r \in Requests, Commit(r) PROVE TypeOK'
    BY <2>9, HandlerFields DEF Commit, TypeOK, Handler, Names, Flags
  <2>10. ASSUME NEW r \in Requests, FailIO(r) PROVE TypeOK'
    BY <2>10 DEF FailIO, TypeOK, Handler
  <2>11. ASSUME NEW f \in Flags, RunDel(f) PROVE TypeOK'
    BY <2>11 DEF RunDel, TypeOK
  <2>12. ASSUME NEW f \in Flags, LoseDel(f) PROVE TypeOK'
    BY <2>12 DEF LoseDel, TypeOK
  <2>13. ASSUME NEW f \in Flags, Expire(f) PROVE TypeOK'
    BY <2>13 DEF Expire, TypeOK
  <2>14. ASSUME NEW f \in Flags, NEW n \in Names(f), Create(f, n)
      PROVE TypeOK'
    BY <2>14 DEF Create, TypeOK, Names
  <2>15. ASSUME NEW f \in Flags, NEW n \in Names(f), Remove(f, n)
      PROVE TypeOK'
    BY <2>15 DEF Remove, TypeOK
  <2>16. ASSUME Crash PROVE TypeOK'
    BY <2>16 DEF Crash, TypeOK, Handler
  <2>17. CASE UNCHANGED vars
    BY <2>17 DEF vars, TypeOK
  <2>18. QED
    BY <2>1, <2>2, <2>3, <2>4, <2>5, <2>6, <2>7, <2>8, <2>9, <2>10, <2>11, <2>12,
       <2>13, <2>14, <2>15, <2>16, <2>17 DEF Next, Handling
<1>3. QED
  BY <1>1, <1>2, PTL DEF Spec

\* A set-up is all or nothing, for any number of concurrent set-ups.
THEOREM SetupIsAtomic == Spec => []AllOrNothing
<1>1. Init => AllOrNothing
  BY DEF Init, AllOrNothing, Flags
<1>2. AllOrNothing /\ TypeOK /\ [Next]_vars => AllOrNothing'
  <2> SUFFICES ASSUME AllOrNothing, TypeOK, [Next]_vars PROVE AllOrNothing'
    OBVIOUS
  <2>1. ASSUME NEW r \in Requests, Commit(r) PROVE AllOrNothing'
    BY <2>1 DEF Commit, AllOrNothing, TypeOK, Flags
  <2>2. ASSUME NEW f \in Flags, NEW n \in Names(f), Create(f, n) \/ Remove(f, n)
        PROVE AllOrNothing'
    BY <2>2 DEF Create, Remove, AllOrNothing
  <2>3. CASE UNCHANGED <<live, touched>>
    BY <2>3 DEF AllOrNothing
  <2>4. QED
    BY <2>1, <2>2, <2>3 DEF Next, Handling, Arrive, ProbeGet, ProbeCount, ProbeSet,
       Decide, InsertRole, InsertAdmin, InsertRejected, FailIO, RunDel, LoseDel,
       Expire, Crash, vars
<1>3. QED
  BY <1>1, <1>2, TypeCorrect, PTL DEF Spec

\* A stale "none" is cached or believed again only by those that already knew it.
THEOREM StalenessOnlyDrains == Spec => StalenessIsNotRenewed
<1> DEFINE P == \A f \in Flags :
                  live[f] # {} /\ live'[f] # {} /\ ~ Stale(f) => ~ Stale(f)'
<1>1. TypeOK /\ TypeOK' /\ [Next]_vars => P
  <2> SUFFICES ASSUME TypeOK, TypeOK', [Next]_vars, NEW g \in Flags,
                      live[g] # {}, ~ Stale(g)
               PROVE ~ Stale(g)'
    OBVIOUS
  <2> USE SetupAssumption
  <2>1. ASSUME NEW r \in Requests, NEW f \in Flags, ProbeGet(r, f)
        PROVE ~ Stale(g)'
    <3>1. cache' = cache
      BY <2>1 DEF ProbeGet
    <3>2. QED
      BY <2>1, <3>1, ProbeGetStep DEF Stale, Asking
  <2>2. ASSUME NEW r \in Requests, NEW f \in Flags, ProbeCount(r, f)
        PROVE ~ Stale(g)'
    BY <2>2, ProbeCountStep DEF ProbeCount, Stale, Asking
  <2>3. ASSUME NEW r \in Requests, NEW f \in Flags, ProbeSet(r, f)
        PROVE ~ Stale(g)'
    BY <2>3, ProbeSetStep DEF Stale, Asking, TypeOK
  <2>4. ASSUME NEW r \in Requests, cache' = cache,
               \A q \in Requests \ {r} : req'[q] = req[q],
               req'[r].pc = "probe" => \A f \in Flags : req'[r].probe[f].st = "get"
        PROVE ~ Stale(g)'
    BY <2>4 DEF Stale, Asking
  <2>5. ASSUME NEW f \in Flags, cache' = [cache EXCEPT ![f] = Empty], req' = req
        PROVE ~ Stale(g)'
    BY <2>5 DEF Stale, Asking, TypeOK
  <2>6. CASE UNCHANGED <<cache, req>>
    BY <2>6 DEF Stale, Asking
  <2>7. CASE Crash
    BY <2>7 DEF Crash, Stale, Asking, Idle
  <2>8. ASSUME NEW r \in Requests, NEW op \in {"status", "setup"},
               NEW n \in RoleNames, NEW m \in Emails, Arrive(r, op, n, m)
        PROVE ~ Stale(g)'
    BY <2>8, <2>4 DEF Arrive, TypeOK, NewProbe
  <2>9. ASSUME NEW r \in Requests,
               \/ Decide(r) \/ InsertRole(r) \/ InsertAdmin(r)
               \/ InsertRejected(r) \/ Commit(r) \/ FailIO(r)
        PROVE ~ Stale(g)'
    <3>1. cache' = cache /\ \A q \in Requests \ {r} : req'[q] = req[q]
      BY <2>9 DEF Decide, InsertRole, InsertAdmin, InsertRejected, Commit, FailIO,
         TypeOK
    <3>2. req'[r].pc # "probe"
      <4>1. CASE InsertRole(r) \/ InsertAdmin(r)
        BY <4>1 DEF InsertRole, InsertAdmin, TypeOK, Handler
      <4>2. CASE Decide(r) \/ InsertRejected(r) \/ Commit(r) \/ FailIO(r)
        BY <4>2 DEF Decide, InsertRejected, Commit, FailIO, TypeOK, Idle
      <4>3. QED
        BY <2>9, <4>1, <4>2
    <3>3. QED
      BY <3>1, <3>2, <2>4
  <2>10. QED
    BY <2>1, <2>2, <2>3, <2>5, <2>6, <2>7, <2>8, <2>9 DEF Next, Handling, RunDel,
       LoseDel, Expire, Create, Remove, vars
<1>2. QED
  BY <1>1, TypeCorrect, PTL DEF Spec, StalenessIsNotRenewed

\* No set-up begins while one of the tables is known to have rows.
THEOREM ClosedSetupStaysClosed == Spec => SetupClosed
<1> DEFINE P == (\E f \in Flags : live[f] # {} /\ ~ Stale(f)) =>
                  \A r \in Requests : req'[r].pc = "role" => req[r].pc = "role"
<1>1. TypeOK /\ [Next]_vars => P
  <2> SUFFICES ASSUME TypeOK, [Next]_vars, NEW g \in Flags, ~ Stale(g),
                      NEW q \in Requests, req'[q].pc = "role"
               PROVE req[q].pc = "role"
    OBVIOUS
  <2>1. ASSUME NEW r \in Requests, NEW f \in Flags,
               ProbeGet(r, f) \/ ProbeCount(r, f) \/ ProbeSet(r, f)
        PROVE req[q].pc = "role"
    BY <2>1, ProbeGetStep, ProbeCountStep, ProbeSetStep
  <2>2. ASSUME NEW r \in Requests, Decide(r) PROVE req[q].pc = "role"
    <3>1. \A f \in Flags : Asking(r, f, "done")
      BY <2>2 DEF Decide, Answered
    <3>2. req[r].probe[g].v
      BY <3>1 DEF Stale
    <3>3. req' = [req EXCEPT ![r] = Idle]
      BY <2>2, <3>2 DEF Decide
    <3>4. QED
      BY <3>3 DEF Idle
  <2>3. ASSUME NEW r \in Requests, NEW op \in {"status", "setup"},
               NEW n \in RoleNames, NEW m \in Emails, Arrive(r, op, n, m)
        PROVE req[q].pc = "role"
    BY <2>3 DEF Arrive
  <2>4. ASSUME NEW r \in Requests, InsertRole(r) \/ InsertAdmin(r)
        PROVE req[q].pc = "role"
    BY <2>4, HandlerFields DEF InsertRole, InsertAdmin, TypeOK, Handler
  <2>5. ASSUME NEW r \in Requests, InsertRejected(r) \/ Commit(r) \/ FailIO(r)
        PROVE req[q].pc = "role"
    BY <2>5 DEF InsertRejected, Commit, FailIO, TypeOK, Idle
  <2>6. CASE Crash
    BY <2>6 DEF Crash, Idle
  <2>7. QED
    BY <2>1, <2>2, <2>3, <2>4, <2>5, <2>6 DEF Next, Handling, RunDel, LoseDel,
       Expire, Create, Remove, vars
<1>2. QED
  BY <1>1, TypeCorrect, PTL DEF Spec, SetupClosed

===============================================================================
