---------------------------- MODULE SessionsProofs ----------------------------
(***************************************************************************)
(* Sessions, for any number of requests, sessions and failures: a refresh  *)
(* token is redeemed at most once; unless somebody signs out everywhere,   *)
(* what a client was given works until it is rotated, signed out or over;  *)
(* without activity writes and failed sign-ins besides, the list of a user *)
(* is complete.                                                            *)
(***************************************************************************)
EXTENDS Sessions, TLAPS

\* The stores are empty and nobody works at the start.
LEMMA InitIInv == Init => IInv
<1> SUFFICES ASSUME Init PROVE IInv
    OBVIOUS
<1> USE SessionsAssumption DEF Init, Idle, Unminted
<1>1. TypeOK
      BY DEF TypeOK, Job, Steps, SessionScope
<1>2. StepsMatchOperation
      BY DEF StepsMatchOperation, Claims
<1>3. NewSessionsArePrivate /\ ClaimsAreExclusive
      BY DEF NewSessionsArePrivate, ClaimsAreExclusive, Mints, Claims
<1>4. HeirsHaveIssuedParents /\ RowMeansNoHeir /\ OneHeir
      BY DEF HeirsHaveIssuedParents, RowMeansNoHeir, OneHeir
<1> QED
    BY <1>1, <1>2, <1>3, <1>4 DEF IInv

-----------------------------------------------------------------------------
\* The records the steps of a request write are requests.
LEMMA IdleIsJob == Idle \in Job
BY DEF Idle, Job, Steps, SessionScope

-----------------------------------------------------------------------------
\* What a step does to the requests: one of them gets a new record.
LEMMA JobStep ==
    ASSUME TypeOK, NEW w \in Workers, NEW j \in Job, Set(w, j)
    PROVE  /\ job' \in [Workers -> Job]
           /\ \A v \in Workers : job'[v] = IF v = w THEN j ELSE job[v]
BY DEF TypeOK, Set

LEMMA GoToStep ==
    ASSUME TypeOK, NEW w \in Workers, NEW p \in Steps, GoTo(w, p)
    PROVE  Set(w, [job[w] EXCEPT !.pc = p]) /\ job' \in [Workers -> Job]
<1>1. job[w] \in Job
      BY DEF TypeOK
<1>2. Set(w, [job[w] EXCEPT !.pc = p])
      BY DEF GoTo, Set, TypeOK
<1>3. [job[w] EXCEPT !.pc = p] \in Job
      BY <1>1 DEF Job
<1> QED
    BY <1>2, <1>3, JobStep

-----------------------------------------------------------------------------
\* The steps that only read, or only write sets of sids.
LEMMA TypeSimple ==
    ASSUME TypeOK, NEW w \in Workers, NEW j \in Job, Set(w, j), UNCHANGED minted,
           live' \subseteq Sids, listed' \subseteq Sids, rows' \subseteq Sids,
           expired' \subseteq Sids, issued' \subseteq Sids, closed' \subseteq Sids
    PROVE  TypeOK'
BY JobStep DEF TypeOK

\* A session that has been minted belongs to an application.
LEMMA MintedShape ==
    ASSUME TypeOK, NEW s \in Sids \ Fresh
    PROVE  minted[s] \in Minted
BY DEF TypeOK, Fresh

LEMMA MintedIsNotFresh ==
    ASSUME NEW m \in Minted
    PROVE  m # Unminted
BY DEF Minted, Unminted, SessionScope

\* login and refresh keep the shape of the state.
LEMMA TypeMint ==
    ASSUME IInv, NEW w \in Workers,
           \/ \E scope \in Scopes : StartLogin(w, scope)
           \/ \E s \in Sids : FindToken(w, s) \/ StoreBlob(w, s)
           \/ CheckSession(w) \/ Enlist(w) \/ SaveToken(w) \/ DeleteOldRow(w)
    PROVE  TypeOK'
<1>1. TypeOK /\ Idle \in Job /\ job[w] \in Job
      BY IdleIsJob DEF IInv, TypeOK
<1>2. /\ job[w].sid \in Sids \union {None} /\ job[w].new \in Sids \union {None}
      /\ job[w].scope \in SessionScope /\ job[w].todo \subseteq Sids
      BY <1>1 DEF Job
<1>3. ASSUME NEW scope \in Scopes, StartLogin(w, scope) PROVE TypeOK'
  <2> DEFINE j == [Idle EXCEPT !.pc = "mint", !.op = "login", !.scope = scope]
  <2>1. j \in Job
        BY <1>1, SessionsAssumption DEF Job, Steps, AllOps
  <2>2. Set(w, j)
        BY <1>3 DEF StartLogin
  <2> HIDE DEF j
  <2> QED
      BY <1>1, <1>3, <2>1, <2>2, TypeSimple DEF StartLogin, TypeOK
<1>4. ASSUME NEW s \in Sids, FindToken(w, s) PROVE TypeOK'
  <2>1. CASE s \in expired
        BY <1>1, <1>4, <2>1 DEF FindToken, TypeOK
  <2>2. CASE s \notin expired
    <3>1. minted[s] \in Minted
          BY <1>1, <1>4, MintedShape DEF IInv, HeirsHaveIssuedParents, FindToken
    <3>2. minted[s].scope \in SessionScope
          BY <3>1 DEF Minted
    <3> DEFINE j == [Idle EXCEPT !.pc = "found", !.op = "refresh",
                                 !.scope = minted[s].scope, !.sid = s]
    <3>3. j \in Job
          BY <1>1, <3>2 DEF Job, Steps, AllOps
    <3>4. Set(w, j)
          BY <1>4, <2>2 DEF FindToken
    <3> HIDE DEF j
    <3> QED
        BY <1>1, <1>4, <2>2, <3>3, <3>4, TypeSimple DEF FindToken, TypeOK
  <2> QED
      BY <2>1, <2>2
<1>5. ASSUME NEW s \in Sids, StoreBlob(w, s) PROVE TypeOK'
  <2> DEFINE j == [job[w] EXCEPT !.pc = "enlist", !.new = s]
             m == [scope |-> job[w].scope, from |-> job[w].sid]
  <2>1. j \in Job
        BY <1>1 DEF Job, Steps
  <2>2. m \in Minted
        BY <1>2 DEF Minted
  <2>3. Set(w, j) /\ minted' = [minted EXCEPT ![s] = m]
        BY <1>5 DEF StoreBlob
  <2> HIDE DEF j, m
  <2>4. job' \in [Workers -> Job]
        BY <1>1, <2>1, <2>3, JobStep
  <2>5. minted' \in [Sids -> Minted \union {Unminted}]
        BY <1>1, <2>2, <2>3 DEF TypeOK
  <2> QED
      BY <1>1, <1>5, <2>4, <2>5 DEF StoreBlob, TypeOK
<1>6. ASSUME CheckSession(w) PROVE TypeOK'
  <2>1. CASE job[w].sid \in live
        BY <1>1, <1>6, <2>1, GoToStep DEF CheckSession, TypeOK, Steps
  <2>2. CASE job[w].sid \notin live
        BY <1>1, <1>6, <2>2, TypeSimple DEF CheckSession, TypeOK
  <2> QED
      BY <2>1, <2>2
<1>7. ASSUME Enlist(w) PROVE TypeOK'
  <2>1. job[w].new \in Sids
        BY <1>7 DEF Enlist, At, IInv, NewSessionsArePrivate, Mints
  <2> QED
      BY <1>1, <1>7, <2>1, GoToStep DEF Enlist, TypeOK, Steps
<1>8. ASSUME SaveToken(w) PROVE TypeOK'
  <2>1. job[w].new \in Sids
        BY <1>8 DEF SaveToken, At, IInv, NewSessionsArePrivate, Mints
  <2>2. CASE job[w].op = "login"
        BY <1>1, <1>8, <2>1, <2>2, TypeSimple DEF SaveToken, TypeOK
  <2>3. CASE job[w].op # "login"
        BY <1>1, <1>8, <2>1, <2>3, GoToStep DEF SaveToken, TypeOK, Steps
  <2> QED
      BY <2>2, <2>3
<1>9. ASSUME DeleteOldRow(w) PROVE TypeOK'
  <2>1. CASE job[w].sid \in rows
    <3>1. job[w].sid \in Sids
          BY <1>1, <2>1 DEF TypeOK
    <3> DEFINE j == [job[w] EXCEPT !.pc = "drop", !.todo = {job[w].sid}]
    <3>2. j \in Job
          BY <1>1, <3>1 DEF Job, Steps
    <3>3. Set(w, j)
          BY <1>9, <2>1 DEF DeleteOldRow
    <3> HIDE DEF j
    <3> QED
        BY <1>1, <1>9, <2>1, <3>1, <3>2, <3>3, TypeSimple DEF DeleteOldRow, TypeOK
  <2>2. CASE job[w].sid \notin rows
        BY <1>1, <1>9, <2>2, TypeSimple DEF DeleteOldRow, TypeOK
  <2> QED
      BY <2>1, <2>2
<1> QED
    BY <1>3, <1>4, <1>5, <1>6, <1>7, <1>8, <1>9

-----------------------------------------------------------------------------
\* A step that mints nothing, answers nothing and adds no row is harmless.
LEMMA NotMinting ==
    ASSUME IInv, NEW w \in Workers, NEW j \in Job, Set(w, j), UNCHANGED <<minted, issued>>,
           rows' \subseteq rows, live' \subseteq Sids, listed' \subseteq Sids,
           expired' \subseteq Sids, closed' \subseteq Sids,
           j.pc \notin {"enlist", "save", "rotate"},
           j.pc \in {"found", "mint"} => j.op \in {"login", "refresh"},
           j.op = "login" => j.pc = "mint" /\ j.sid = None,
           j.op = "refresh" => j.pc \in {"found", "mint"} /\ j.sid \in issued,
           j.pc \in {"ttl", "write"} => j.sid \in Sids
    PROVE  IInv'
<1>1. TypeOK /\ TypeOK'
      BY TypeSimple DEF IInv, TypeOK
<1>2. \A v \in Workers : job'[v] = IF v = w THEN j ELSE job[v]
      BY <1>1, JobStep
<1>3. Fresh' = Fresh
      BY DEF Fresh
<1>4. ~Mints(w)' /\ ~Claims(w)'
      BY <1>2 DEF Mints, Claims
<1>5. \A v \in Workers : v # w => job'[v] = job[v] /\ Mints(v)' = Mints(v)
                                     /\ Claims(v)' = Claims(v)
      BY <1>2 DEF Mints, Claims
<1>6. StepsMatchOperation'
      BY <1>2, <1>4, <1>5 DEF IInv, StepsMatchOperation
<1>7. NewSessionsArePrivate'
      BY <1>3, <1>4, <1>5 DEF IInv, NewSessionsArePrivate
<1>8. ClaimsAreExclusive'
      BY <1>4, <1>5 DEF IInv, ClaimsAreExclusive
<1>9. HeirsHaveIssuedParents' /\ RowMeansNoHeir' /\ OneHeir'
      BY <1>3 DEF IInv, HeirsHaveIssuedParents, RowMeansNoHeir, OneHeir
<1> QED
    BY <1>1, <1>6, <1>7, <1>8, <1>9 DEF IInv

\* Giving up is harmless.
LEMMA BackToIdle ==
    ASSUME IInv, NEW w \in Workers, Set(w, Idle), UNCHANGED <<minted, issued>>,
           rows' \subseteq rows, live' \subseteq Sids, listed' \subseteq Sids,
           expired' \subseteq Sids, closed' \subseteq Sids
    PROVE  IInv'
<1>1. Idle \in Job /\ Idle.pc = "idle" /\ Idle.op = "none"
      BY IdleIsJob DEF Idle
<1> QED
    BY <1>1, NotMinting

\* Every step of login and refresh preserves the invariant.
LEMMA MintStep ==
    ASSUME IInv, NEW w \in Workers,
           \/ \E scope \in Scopes : StartLogin(w, scope)
           \/ \E s \in Sids : FindToken(w, s) \/ StoreBlob(w, s)
           \/ CheckSession(w) \/ Enlist(w) \/ SaveToken(w) \/ DeleteOldRow(w)
    PROVE  IInv'
<1>1. TypeOK /\ TypeOK' /\ Idle \in Job /\ job[w] \in Job
      BY TypeMint, IdleIsJob DEF IInv, TypeOK
<1>2. ASSUME NEW scope \in Scopes, StartLogin(w, scope) PROVE IInv'
  <2> DEFINE j == [Idle EXCEPT !.pc = "mint", !.op = "login", !.scope = scope]
  <2>1. /\ j \in Job
        /\ j.pc = "mint" /\ j.op = "login" /\ j.sid = None
        BY <1>1, SessionsAssumption DEF Job, Steps, AllOps, Idle
  <2>2. Set(w, j)
        BY <1>2 DEF StartLogin
  <2> HIDE DEF j
  <2> QED
      BY <1>1, <1>2, <2>1, <2>2, NotMinting DEF StartLogin, TypeOK
<1>3. ASSUME NEW s \in Sids, FindToken(w, s) PROVE IInv'
  <2>1. CASE s \in expired
    <3>1. job' = job /\ rows' \subseteq rows /\ UNCHANGED <<minted, issued>>
          BY <1>3, <2>1 DEF FindToken
    <3>2. StepsMatchOperation' /\ NewSessionsArePrivate'
          BY <3>1 DEF IInv, StepsMatchOperation, NewSessionsArePrivate, Mints, Claims, Fresh
    <3>3. ClaimsAreExclusive' /\ RowMeansNoHeir'
          BY <3>1 DEF IInv, ClaimsAreExclusive, RowMeansNoHeir, Claims
    <3>4. HeirsHaveIssuedParents' /\ OneHeir'
          BY <3>1 DEF IInv, HeirsHaveIssuedParents, OneHeir, Fresh
    <3> QED
        BY <1>1, <3>2, <3>3, <3>4 DEF IInv
  <2>2. CASE s \notin expired
    <3>1. s \in issued /\ minted[s] \in Minted
          BY <1>1, <1>3, MintedShape DEF IInv, HeirsHaveIssuedParents, FindToken
    <3> DEFINE j == [Idle EXCEPT !.pc = "found", !.op = "refresh",
                                 !.scope = minted[s].scope, !.sid = s]
    <3>2. /\ j \in Job
          /\ j.pc = "found" /\ j.op = "refresh" /\ j.sid = s
          BY <1>1, <3>1 DEF Job, Steps, AllOps, Minted, Idle
    <3>3. Set(w, j)
          BY <1>3, <2>2 DEF FindToken
    <3> HIDE DEF j
    <3> QED
        BY <1>1, <1>3, <2>2, <3>1, <3>2, <3>3, NotMinting DEF FindToken, TypeOK
  <2> QED
      BY <2>1, <2>2
<1>4. ASSUME CheckSession(w) PROVE IInv'
  <2>1. CASE job[w].sid \in live
    <3> DEFINE j == [job[w] EXCEPT !.pc = "mint"]
    <3>1. job[w].op = "refresh" /\ job[w].sid \in issued
          BY <1>4 DEF CheckSession, At, IInv, StepsMatchOperation
    <3>2. /\ j \in Job
          /\ j.pc = "mint" /\ j.op = "refresh" /\ j.sid \in issued
          BY <1>1, <3>1 DEF Job, Steps
    <3>3. Set(w, j)
          BY <1>1, <1>4, <2>1, GoToStep DEF CheckSession, Steps
    <3> HIDE DEF j
    <3> QED
        BY <1>1, <1>4, <2>1, <3>2, <3>3, NotMinting DEF CheckSession, TypeOK
  <2>2. CASE job[w].sid \notin live
        BY <1>1, <1>4, <2>2, BackToIdle DEF CheckSession, TypeOK
  <2> QED
      BY <2>1, <2>2
<1>5. ASSUME NEW s \in Sids, StoreBlob(w, s) PROVE IInv'
  <2> DEFINE j == [job[w] EXCEPT !.pc = "enlist", !.new = s]
             m == [scope |-> job[w].scope, from |-> job[w].sid]
  <2>1. /\ job[w].op \in {"login", "refresh"}
        /\ job[w].sid \in issued \union {None}
        /\ ~Mints(w) /\ ~Claims(w) /\ s \in Fresh
        BY <1>5 DEF StoreBlob, At, IInv, StepsMatchOperation, Mints, Claims
  <2>2. /\ j \in Job
        /\ j.pc = "enlist" /\ j.op = job[w].op /\ j.sid = job[w].sid /\ j.new = s
        BY <1>1 DEF Job, Steps
  <2>3. m \in Minted /\ m.from = job[w].sid
        BY <1>1 DEF Minted, Job
  <2>4. Set(w, j) /\ minted' = [minted EXCEPT ![s] = m]
        BY <1>5 DEF StoreBlob
  <2> HIDE DEF j, m
  <2>5. \A v \in Workers : job'[v] = IF v = w THEN j ELSE job[v]
        BY <1>1, <2>2, <2>4, JobStep
  <2>6. \A t \in Sids : minted'[t] = IF t = s THEN m ELSE minted[t]
        BY <1>1, <2>4 DEF TypeOK
  <2>7. Fresh' = Fresh \ {s}
        BY <2>3, <2>6, MintedIsNotFresh DEF Fresh
  <2>8. UNCHANGED <<rows, issued>> /\ s \notin issued
        BY <1>5, <2>1 DEF StoreBlob, IInv, HeirsHaveIssuedParents
  <2>9. Mints(w)' /\ ~Claims(w)'
        BY <2>2, <2>5 DEF Mints, Claims
  <2>10. \A v \in Workers \ {w} : job'[v] = job[v] /\ Mints(v)' = Mints(v)
                                    /\ Claims(v)' = Claims(v)
        BY <2>5 DEF Mints, Claims
  <2>11. StepsMatchOperation'
        BY <2>1, <2>2, <2>5, <2>8, <2>9, <2>10 DEF IInv, StepsMatchOperation
  <2>12. NewSessionsArePrivate'
    <3>1. \A v \in Workers \ {w} : Mints(v) => job[v].new # s
          BY <2>1 DEF IInv, NewSessionsArePrivate
    <3> QED
        BY <2>1, <2>2, <2>3, <2>5, <2>6, <2>7, <2>8, <2>9, <2>10, <3>1
        DEF IInv, NewSessionsArePrivate
  <2>13. issued \subseteq Sids /\ \A t \in issued : minted'[t] = minted[t]
        BY <1>1, <2>6, <2>8 DEF TypeOK
  <2>14. HeirsHaveIssuedParents'
        BY <2>1, <2>3, <2>6, <2>7, <2>8 DEF IInv, HeirsHaveIssuedParents
  <2>15. ClaimsAreExclusive'
        BY <2>8, <2>9, <2>10, <2>13 DEF IInv, ClaimsAreExclusive
  <2>16. RowMeansNoHeir' /\ OneHeir'
        BY <2>8, <2>13 DEF IInv, RowMeansNoHeir, OneHeir
  <2> QED
      BY <1>1, <2>11, <2>12, <2>14, <2>15, <2>16 DEF IInv
<1>6. ASSUME Enlist(w) PROVE IInv'
  <2> DEFINE j == [job[w] EXCEPT !.pc = "save"]
  <2>1. /\ j \in Job
        /\ j.pc = "save" /\ j.op = job[w].op /\ j.sid = job[w].sid /\ j.new = job[w].new
        BY <1>1 DEF Job, Steps
  <2>2. Set(w, j)
        BY <1>1, <1>6, GoToStep DEF Enlist, Steps
  <2> HIDE DEF j
  <2>3. \A v \in Workers : job'[v] = IF v = w THEN j ELSE job[v]
        BY <1>1, <2>1, <2>2, JobStep
  <2>4. UNCHANGED <<rows, issued, minted>> /\ job[w].pc = "enlist"
        BY <1>6 DEF Enlist, At
  <2>5. \A v \in Workers : /\ job'[v].new = job[v].new /\ job'[v].sid = job[v].sid
                           /\ Mints(v)' = Mints(v) /\ Claims(v)' = Claims(v)
        BY <2>1, <2>3, <2>4 DEF Mints, Claims
  <2>6. StepsMatchOperation'
        BY <2>1, <2>3, <2>4, <2>5 DEF IInv, StepsMatchOperation, Claims
  <2>7. NewSessionsArePrivate' /\ ClaimsAreExclusive'
        BY <2>4, <2>5 DEF IInv, NewSessionsArePrivate, ClaimsAreExclusive, Fresh
  <2>8. HeirsHaveIssuedParents' /\ RowMeansNoHeir' /\ OneHeir'
        BY <2>4 DEF IInv, HeirsHaveIssuedParents, RowMeansNoHeir, OneHeir, Fresh
  <2> QED
      BY <1>1, <2>6, <2>7, <2>8 DEF IInv
<1>7. ASSUME SaveToken(w) PROVE IInv'
  <2> DEFINE n == job[w].new
  <2>1. /\ job[w].pc = "save" /\ Mints(w) /\ ~Claims(w)
        /\ n \in Sids \ (Fresh \union issued)
        /\ minted[n].from = job[w].sid
        /\ rows' = rows \union {n} /\ UNCHANGED minted
        BY <1>7 DEF SaveToken, At, Mints, Claims, IInv, NewSessionsArePrivate
  <2>2. Fresh' = Fresh
        BY <2>1 DEF Fresh
  <2>3. \A t \in Sids : minted[t].from # n
        BY <2>1, SessionsAssumption DEF IInv, HeirsHaveIssuedParents
  <2>4. \A v \in Workers : Claims(v) => job[v].sid # n
        BY <2>1 DEF IInv, StepsMatchOperation, Claims
  <2>5. \A v \in Workers \ {w} : Mints(v) => job[v].new # n
        BY <2>1 DEF IInv, NewSessionsArePrivate
  <2>6. issued \subseteq Sids
        BY <1>1 DEF TypeOK
  <2>7. CASE job[w].op = "login"
    <3>1. issued' = issued \union {n} /\ Set(w, Idle) /\ minted[n].from = None
          BY <1>7, <2>1, <2>7 DEF SaveToken, IInv, StepsMatchOperation
    <3>2. \A v \in Workers : job'[v] = IF v = w THEN Idle ELSE job[v]
          BY <1>1, <3>1, JobStep
    <3>3. ~Mints(w)' /\ ~Claims(w)'
          BY <3>2 DEF Mints, Claims, Idle
    <3>4. \A v \in Workers \ {w} : job'[v] = job[v] /\ Mints(v)' = Mints(v)
                                     /\ Claims(v)' = Claims(v)
          BY <3>2 DEF Mints, Claims
    <3>5. StepsMatchOperation'
          BY <3>1, <3>2, <3>3, <3>4 DEF IInv, StepsMatchOperation, Idle
    <3>6. NewSessionsArePrivate'
          BY <2>1, <2>2, <2>5, <3>1, <3>3, <3>4 DEF IInv, NewSessionsArePrivate
    <3>7. HeirsHaveIssuedParents'
          BY <2>1, <2>2, <3>1 DEF IInv, HeirsHaveIssuedParents
    <3>8. ClaimsAreExclusive'
      <4>1. \A v \in Workers : Claims(v) => job[v].sid # None
            BY <2>6, SessionsAssumption DEF IInv, StepsMatchOperation, Claims
      <4> QED
          BY <2>1, <2>4, <3>1, <3>3, <3>4, <4>1 DEF IInv, ClaimsAreExclusive
    <3>9. RowMeansNoHeir'
      <4>1. rows \subseteq Sids
            BY <1>1 DEF TypeOK
      <4> QED
          BY <2>1, <2>3, <2>6, <3>1, <4>1, SessionsAssumption DEF IInv, RowMeansNoHeir
    <3>10. OneHeir'
          BY <2>1, <3>1 DEF IInv, OneHeir
    <3> QED
        BY <1>1, <3>5, <3>6, <3>7, <3>8, <3>9, <3>10 DEF IInv
  <2>8. CASE job[w].op # "login"
    <3> DEFINE j == [job[w] EXCEPT !.pc = "rotate"]
    <3>1. /\ j \in Job
          /\ j.pc = "rotate" /\ j.op = job[w].op /\ j.sid = job[w].sid /\ j.new = n
          BY <1>1 DEF Job, Steps
    <3>2. Set(w, j) /\ issued' = issued /\ job[w].op = "refresh"
          BY <1>1, <1>7, <2>1, <2>8, GoToStep
          DEF SaveToken, Steps, IInv, StepsMatchOperation
    <3> HIDE DEF j
    <3>3. \A v \in Workers : job'[v] = IF v = w THEN j ELSE job[v]
          BY <1>1, <3>1, <3>2, JobStep
    <3>4. \A v \in Workers : /\ job'[v].new = job[v].new /\ job'[v].sid = job[v].sid
                             /\ Mints(v)' = Mints(v) /\ Claims(v)' = Claims(v)
          BY <2>1, <3>1, <3>3 DEF Mints, Claims
    <3>5. StepsMatchOperation'
          BY <2>1, <3>1, <3>2, <3>3, <3>4 DEF IInv, StepsMatchOperation, Claims
    <3>6. NewSessionsArePrivate'
          BY <2>1, <2>2, <3>2, <3>4 DEF IInv, NewSessionsArePrivate
    <3>7. ClaimsAreExclusive'
          BY <2>1, <2>4, <3>2, <3>4 DEF IInv, ClaimsAreExclusive
    <3>8. HeirsHaveIssuedParents' /\ RowMeansNoHeir' /\ OneHeir'
          BY <2>1, <2>2, <2>3, <2>6, <3>2
          DEF IInv, HeirsHaveIssuedParents, RowMeansNoHeir, OneHeir
    <3> QED
        BY <1>1, <3>5, <3>6, <3>7, <3>8 DEF IInv
  <2> QED
      BY <2>7, <2>8
<1>8. ASSUME DeleteOldRow(w) PROVE IInv'
  <2>1. CASE job[w].sid \in rows
    <3> DEFINE j == [job[w] EXCEPT !.pc = "drop", !.todo = {job[w].sid}]
    <3>a. job[w].pc = "rotate" /\ job[w].sid # None
          BY <1>1, <1>8, <2>1, SessionsAssumption DEF DeleteOldRow, At, TypeOK
    <3>1. /\ job[w].pc = "rotate" /\ job[w].op = "refresh"
          /\ Mints(w) /\ ~Claims(w) /\ job[w].sid \in issued
          BY <3>a DEF Mints, Claims, IInv, StepsMatchOperation
    <3>2. /\ j \in Job
          /\ j.pc = "drop" /\ j.op = "refresh" /\ j.sid = job[w].sid
          /\ j.new = job[w].new /\ j.todo = {j.sid}
          BY <1>1, <2>1, <3>1 DEF Job, Steps, TypeOK
    <3>3. /\ Set(w, j) /\ UNCHANGED <<issued, minted>>
          /\ rows' = rows \ {job[w].sid}
          BY <1>8, <2>1 DEF DeleteOldRow
    <3> HIDE DEF j
    <3>4. \A v \in Workers : job'[v] = IF v = w THEN j ELSE job[v]
          BY <1>1, <3>2, <3>3, JobStep
    <3>5. \A v \in Workers : /\ job'[v].new = job[v].new /\ job'[v].sid = job[v].sid
                             /\ Mints(v)' = Mints(v)
                             /\ Claims(v)' = (Claims(v) \/ v = w)
          BY <3>1, <3>2, <3>4 DEF Mints, Claims
    <3>6. StepsMatchOperation'
          BY <3>1, <3>2, <3>3, <3>4, <3>5 DEF IInv, StepsMatchOperation
    <3>7. NewSessionsArePrivate'
          BY <3>3, <3>5 DEF IInv, NewSessionsArePrivate, Fresh
    <3>8. ClaimsAreExclusive'
      <4>1. \A v \in Workers \ {w} : Claims(v)' => Claims(v) /\ job'[v].sid = job[v].sid
            BY <3>4 DEF Claims
      <4>2. \A v \in Workers \ {w} : Claims(v)' =>
               /\ job'[v].sid \notin rows' /\ job'[v].sid # job'[w].sid
               /\ \A t \in issued' : minted'[t].from # job'[v].sid
            BY <2>1, <3>3, <3>5, <4>1 DEF IInv, ClaimsAreExclusive
      <4>3. /\ job'[w].sid \notin rows'
            /\ \A t \in issued' : minted'[t].from # job'[w].sid
            BY <2>1, <3>3, <3>5 DEF IInv, RowMeansNoHeir
      <4>4. \A u, v \in Workers \ {w} : Claims(u)' /\ Claims(v)' /\ job'[u].sid = job'[v].sid
                                          => u = v
            BY <4>1 DEF IInv, ClaimsAreExclusive
      <4> QED
          BY <4>2, <4>3, <4>4 DEF ClaimsAreExclusive
    <3>9. HeirsHaveIssuedParents' /\ RowMeansNoHeir' /\ OneHeir'
          BY <3>3 DEF IInv, HeirsHaveIssuedParents, RowMeansNoHeir, OneHeir, Fresh
    <3> QED
        BY <1>1, <3>6, <3>7, <3>8, <3>9 DEF IInv
  <2>2. CASE job[w].sid \notin rows
        BY <1>1, <1>8, <2>2, BackToIdle DEF DeleteOldRow, TypeOK
  <2> QED
      BY <2>1, <2>2
<1> QED
    BY <1>2, <1>3, <1>4, <1>5, <1>6, <1>7, <1>8

-----------------------------------------------------------------------------
\* The end of a rotation: the blob and the list entry of the old session go,
\* and the client gets the new one.
LEMMA RotationEnds ==
    ASSUME IInv, NEW w \in Workers, job[w].op = "refresh",
           Unlist(w) \/ \E s \in Sids : DropBlob(w, s)
    PROVE  IInv'
<1>1. TypeOK /\ job[w] \in Job /\ job[w].todo = {job[w].sid} /\ Idle \in Job
      BY IdleIsJob DEF IInv, TypeOK, Unlist, DropBlob, At, StepsMatchOperation, Claims
<1>2. /\ Mints(w) /\ Claims(w) /\ job[w].sid \in issued
      /\ job[w].new \in Sids \ (Fresh \union issued)
      /\ minted[job[w].new].from = job[w].sid
      BY DEF Unlist, DropBlob, At, Mints, Claims, IInv, StepsMatchOperation,
             NewSessionsArePrivate
<1>3. ASSUME NEW s \in Sids, DropBlob(w, s) PROVE IInv'
  <2> DEFINE j == [job[w] EXCEPT !.pc = "unlist", !.sid = s]
  <2>1. s = job[w].sid
        BY <1>1, <1>3 DEF DropBlob
  <2>2. /\ j \in Job
        /\ j.pc = "unlist" /\ j.op = "refresh" /\ j.sid = job[w].sid
        /\ j.new = job[w].new /\ j.todo = {j.sid}
        BY <1>1, <2>1 DEF Job, Steps
  <2>3. Set(w, j) /\ UNCHANGED <<rows, issued, minted>>
        BY <1>3 DEF DropBlob
  <2>4. live' \subseteq Sids /\ UNCHANGED <<listed, expired, closed>>
        BY <1>1, <1>3 DEF DropBlob, TypeOK
  <2> HIDE DEF j
  <2>5. TypeOK'
        BY <1>1, <2>2, <2>3, <2>4, TypeSimple DEF TypeOK
  <2>6. \A v \in Workers : job'[v] = IF v = w THEN j ELSE job[v]
        BY <1>1, <2>2, <2>3, JobStep
  <2>7. \A v \in Workers : /\ job'[v].new = job[v].new /\ job'[v].sid = job[v].sid
                           /\ Mints(v)' = Mints(v) /\ Claims(v)' = Claims(v)
        BY <1>2, <2>2, <2>6 DEF Mints, Claims
  <2>8. StepsMatchOperation'
        BY <1>2, <2>2, <2>3, <2>6, <2>7 DEF IInv, StepsMatchOperation
  <2>9. NewSessionsArePrivate' /\ ClaimsAreExclusive'
        BY <2>3, <2>7 DEF IInv, NewSessionsArePrivate, ClaimsAreExclusive, Fresh
  <2>10. HeirsHaveIssuedParents' /\ RowMeansNoHeir' /\ OneHeir'
        BY <2>3 DEF IInv, HeirsHaveIssuedParents, RowMeansNoHeir, OneHeir, Fresh
  <2> QED
      BY <2>5, <2>8, <2>9, <2>10 DEF IInv
<1>4. ASSUME Unlist(w) PROVE IInv'
  <2> DEFINE n == job[w].new
  <2>1. /\ issued' = issued \union {n} /\ Set(w, Idle)
        /\ UNCHANGED <<live, rows, expired, minted, closed>>
        /\ listed' \subseteq listed
        BY <1>1, <1>4 DEF Unlist
  <2>2. TypeOK'
        BY <1>1, <1>2, <2>1, TypeSimple DEF TypeOK
  <2>3. \A v \in Workers : job'[v] = IF v = w THEN Idle ELSE job[v]
        BY <1>1, <2>1, JobStep
  <2>4. ~Mints(w)' /\ ~Claims(w)' /\ Fresh' = Fresh
        BY <2>1, <2>3 DEF Mints, Claims, Idle, Fresh
  <2>5. \A v \in Workers \ {w} : job'[v] = job[v] /\ Mints(v)' = Mints(v)
                                   /\ Claims(v)' = Claims(v)
        BY <2>3 DEF Mints, Claims
  <2>6. StepsMatchOperation'
        BY <2>1, <2>3, <2>4, <2>5 DEF IInv, StepsMatchOperation, Idle
  <2>7. NewSessionsArePrivate'
        BY <1>2, <2>1, <2>4, <2>5 DEF IInv, NewSessionsArePrivate
  <2>8. ClaimsAreExclusive'
        BY <1>2, <2>1, <2>4, <2>5 DEF IInv, ClaimsAreExclusive
  <2>9. HeirsHaveIssuedParents'
        BY <1>2, <2>1, <2>4 DEF IInv, HeirsHaveIssuedParents
  <2>10. RowMeansNoHeir'
        BY <1>2, <2>1 DEF IInv, RowMeansNoHeir, ClaimsAreExclusive
  <2>11. OneHeir'
        BY <1>2, <2>1 DEF IInv, OneHeir, ClaimsAreExclusive
  <2> QED
      BY <2>2, <2>6, <2>7, <2>8, <2>9, <2>10, <2>11 DEF IInv
<1> QED
    BY <1>3, <1>4

\* Every step of a sign-out preserves the invariant.
LEMMA SignOutStep ==
    ASSUME IInv, NEW w \in Workers, job[w].op # "refresh",
           \/ \E s \in Sids : \/ StartLogout(w, s) \/ StartRevoke(w, s)
                              \/ StartRevokeOthers(w, s) \/ DropBlob(w, s)
           \/ StartRevokeAll(w) \/ Scan(w) \/ DropSet(w) \/ DropRows(w) \/ Unlist(w)
           \/ \E cookie \in BOOLEAN : DropRow(w, cookie)
    PROVE  IInv'
<1>1. TypeOK /\ Idle \in Job /\ job[w] \in Job
      BY IdleIsJob DEF IInv, TypeOK
<1>2. /\ live \subseteq Sids /\ listed \subseteq Sids /\ rows \subseteq Sids
      /\ expired \subseteq Sids /\ closed \subseteq Sids /\ issued \subseteq Sids
      BY DEF IInv, TypeOK
<1>3. At(w, "scan") \/ At(w, "drop") \/ At(w, "unlist") \/ At(w, "dropSet") =>
        job[w].op \notin {"login", "refresh"}
      BY DEF At, IInv, StepsMatchOperation
<1>4. ASSUME NEW s \in Sids, StartLogout(w, s) PROVE IInv'
  <2> DEFINE j == [Idle EXCEPT !.pc = "drop", !.op = "logout", !.sid = s, !.todo = {s}]
  <2>1. j \in Job /\ j.pc = "drop" /\ j.op = "logout"
        BY <1>1 DEF Job, Steps, AllOps, Idle
  <2>2. Set(w, j)
        BY <1>4 DEF StartLogout
  <2> HIDE DEF j
  <2> QED
      BY <1>2, <1>4, <2>1, <2>2, NotMinting DEF StartLogout
<1>5. ASSUME NEW s \in Sids, StartRevoke(w, s) PROVE IInv'
  <2> DEFINE j == [Idle EXCEPT !.pc = "drop", !.op = "revoke", !.todo = {s}]
  <2>1. j \in Job /\ j.pc = "drop" /\ j.op = "revoke"
        BY <1>1 DEF Job, Steps, AllOps, Idle
  <2>2. Set(w, j)
        BY <1>5 DEF StartRevoke
  <2> HIDE DEF j
  <2> QED
      BY <1>2, <1>5, <2>1, <2>2, NotMinting DEF StartRevoke
<1>6. ASSUME NEW s \in Sids, StartRevokeOthers(w, s) PROVE IInv'
  <2> DEFINE doomed == (listed \intersect Of(minted[s].scope)) \ {s}
             j == [Idle EXCEPT !.pc = "drop", !.op = "revokeOthers", !.todo = doomed]
  <2>1. j \in Job /\ j.pc = "drop" /\ j.op = "revokeOthers"
        BY <1>1, <1>2 DEF Job, Steps, AllOps, Idle
  <2>2. Set(w, j) /\ closed' = closed \union doomed
        BY <1>6 DEF StartRevokeOthers
  <2> HIDE DEF j
  <2> QED
      BY <1>2, <1>6, <2>1, <2>2, NotMinting DEF StartRevokeOthers
<1>7. ASSUME StartRevokeAll(w) PROVE IInv'
  <2> DEFINE j == [Idle EXCEPT !.pc = "scan", !.op = "revokeAll", !.scope = "ADMIN"]
  <2>1. j \in Job /\ j.pc = "scan" /\ j.op = "revokeAll"
        BY <1>1 DEF Job, Steps, AllOps, Idle, SessionScope
  <2>2. Set(w, j)
        BY <1>7 DEF StartRevokeAll
  <2> HIDE DEF j
  <2> QED
      BY <1>2, <1>7, <2>1, <2>2, NotMinting DEF StartRevokeAll
<1>8. ASSUME Scan(w) PROVE IInv'
  <2> DEFINE found == listed \intersect Of(job[w].scope)
             j == [job[w] EXCEPT !.todo = found,
                                 !.pc = IF found = {} THEN "dropSet" ELSE "drop"]
  <2>1. j \in Job /\ j.pc \in {"dropSet", "drop"} /\ j.op = job[w].op
        BY ZenonT(40), <1>1, <1>2 DEF Job, Steps
  <2>2. Set(w, j) /\ j.op \notin {"login", "refresh"}
        BY <1>3, <1>8, <2>1 DEF Scan
  <2> HIDE DEF j
  <2> QED
      BY <1>2, <1>8, <2>1, <2>2, NotMinting DEF Scan
<1>9. ASSUME NEW s \in Sids, DropBlob(w, s) PROVE IInv'
  <2>1. CASE job[w].op = "revokeAll"
    <3> DEFINE j == [job[w] EXCEPT !.todo = @ \ {s},
                       !.pc = IF job[w].todo = {s} THEN "dropSet" ELSE "drop"]
    <3>1. j \in Job /\ j.pc \in {"dropSet", "drop"} /\ j.op = "revokeAll"
          BY ZenonT(40), <1>1, <2>1 DEF Job, Steps
    <3>2. Set(w, j)
          BY <1>9, <2>1 DEF DropBlob
    <3> HIDE DEF j
    <3> QED
        BY <1>2, <1>9, <3>1, <3>2, NotMinting DEF DropBlob
  <2>2. CASE job[w].op # "revokeAll"
    <3> DEFINE j == [job[w] EXCEPT !.pc = "unlist", !.sid = s]
    <3>1. j \in Job /\ j.pc = "unlist" /\ j.op \notin {"login", "refresh"}
          BY <1>1, <1>3, <1>9 DEF Job, Steps, DropBlob
    <3>2. Set(w, j)
          BY <1>9, <2>2 DEF DropBlob
    <3> HIDE DEF j
    <3> QED
        BY <1>2, <1>9, <3>1, <3>2, NotMinting DEF DropBlob
  <2> QED
      BY <2>1, <2>2
<1>10. ASSUME Unlist(w) PROVE IInv'
  <2> DEFINE left == job[w].todo \ {job[w].sid}
  <2>1. /\ listed' \subseteq Sids /\ issued' = issued
        /\ UNCHANGED <<live, rows, expired, minted, closed>>
        /\ job[w].op \notin {"login", "refresh"}
        BY <1>2, <1>3, <1>10 DEF Unlist
  <2>2. CASE left # {}
    <3> DEFINE j == [job[w] EXCEPT !.pc = "drop", !.todo = left]
    <3>1. j \in Job /\ j.pc = "drop" /\ j.op = job[w].op
          BY <1>1 DEF Job, Steps
    <3>2. Set(w, j)
          BY <1>10, <2>2 DEF Unlist
    <3> HIDE DEF j
    <3> QED
        BY <1>2, <2>1, <3>1, <3>2, NotMinting
  <2>3. CASE left = {} /\ job[w].op = "logout"
    <3> DEFINE j == [job[w] EXCEPT !.pc = "dropRow"]
    <3>1. j \in Job /\ j.pc = "dropRow" /\ j.op = job[w].op
          BY <1>1 DEF Job, Steps
    <3>2. Set(w, j)
          BY <1>1, <1>10, <2>3, GoToStep DEF Unlist, Steps
    <3> HIDE DEF j
    <3> QED
        BY <1>2, <2>1, <3>1, <3>2, NotMinting
  <2>4. CASE left = {} /\ job[w].op # "logout"
        BY <1>2, <1>10, <2>1, <2>4, BackToIdle DEF Unlist
  <2> QED
      BY <2>2, <2>3, <2>4
<1>11. ASSUME NEW cookie \in BOOLEAN, DropRow(w, cookie) PROVE IInv'
       BY <1>2, <1>11, BackToIdle DEF DropRow
<1>12. ASSUME DropSet(w) PROVE IInv'
  <2>1. CASE job[w].scope = "ADMIN"
    <3> DEFINE j == [job[w] EXCEPT !.pc = "scan", !.scope = "TENANT"]
    <3>1. j \in Job /\ j.pc = "scan" /\ j.op = job[w].op
          BY <1>1 DEF Job, Steps, SessionScope
    <3>2. Set(w, j) /\ j.op \notin {"login", "refresh"}
          BY <1>3, <1>12, <2>1, <3>1 DEF DropSet
    <3> HIDE DEF j
    <3> QED
        BY <1>2, <1>12, <3>1, <3>2, NotMinting DEF DropSet
  <2>2. CASE job[w].scope # "ADMIN"
    <3> DEFINE j == [job[w] EXCEPT !.pc = "dropRows"]
    <3>1. j \in Job /\ j.pc = "dropRows" /\ j.op = job[w].op
          BY <1>1 DEF Job, Steps
    <3>2. Set(w, j) /\ j.op \notin {"login", "refresh"}
          BY <1>1, <1>3, <1>12, <2>2, <3>1, GoToStep DEF DropSet, Steps
    <3> HIDE DEF j
    <3> QED
        BY <1>2, <1>12, <3>1, <3>2, NotMinting DEF DropSet
  <2> QED
      BY <2>1, <2>2
<1>13. ASSUME DropRows(w) PROVE IInv'
       BY <1>2, <1>13, BackToIdle DEF DropRows
<1> QED
    BY <1>4, <1>5, <1>6, <1>7, <1>8, <1>9, <1>10, <1>11, <1>12, <1>13

-----------------------------------------------------------------------------
\* Listing, touching, failing and expiring preserve the invariant.
LEMMA OtherStep ==
    ASSUME IInv, NEW w \in Workers,
           \/ \E scope \in Scopes : StartList(w, scope)
           \/ \E s \in Sids : Clean(w, s) \/ StartTouch(w, s)
           \/ FetchAll(w) \/ ReadTtl(w) \/ WriteBlob(w) \/ Abort(w)
    PROVE  IInv'
<1>1. TypeOK /\ Idle \in Job /\ job[w] \in Job
      BY IdleIsJob DEF IInv, TypeOK
<1>2. /\ live \subseteq Sids /\ listed \subseteq Sids /\ rows \subseteq Sids
      /\ expired \subseteq Sids /\ closed \subseteq Sids
      BY DEF IInv, TypeOK
<1>3. At(w, "mget") \/ At(w, "clean") \/ At(w, "ttl") \/ At(w, "write") =>
        job[w].op \notin {"login", "refresh"}
      BY DEF At, IInv, StepsMatchOperation
<1>4. ASSUME NEW scope \in Scopes, StartList(w, scope) PROVE IInv'
  <2> DEFINE members == listed \intersect Of(scope)
             j == [Idle EXCEPT !.pc = "mget", !.op = "list", !.todo = members]
  <2>1. j \in Job /\ j.pc = "mget" /\ j.op = "list"
        BY <1>1, <1>2 DEF Job, Steps, AllOps, Idle
  <2>2. Set(w, j)
        BY <1>4 DEF StartList
  <2> HIDE DEF j
  <2> QED
      BY <1>2, <1>4, <2>1, <2>2, NotMinting DEF StartList
<1>5. ASSUME FetchAll(w) PROVE IInv'
  <2>1. CASE job[w].todo \subseteq live
        BY <1>2, <1>5, <2>1, BackToIdle DEF FetchAll
  <2>2. CASE ~(job[w].todo \subseteq live)
    <3> DEFINE j == [job[w] EXCEPT !.pc = "clean", !.todo = @ \ live]
    <3>1. j \in Job /\ j.pc = "clean" /\ j.op = job[w].op
          BY <1>1 DEF Job, Steps
    <3>2. Set(w, j) /\ j.op \notin {"login", "refresh"}
          BY <1>3, <1>5, <2>2, <3>1 DEF FetchAll
    <3> HIDE DEF j
    <3> QED
        BY <1>2, <1>5, <3>1, <3>2, NotMinting DEF FetchAll
  <2> QED
      BY <2>1, <2>2
<1>6. ASSUME NEW s \in Sids, Clean(w, s) PROVE IInv'
  <2>1. CASE job[w].todo = {s}
        BY <1>2, <1>6, <2>1, BackToIdle DEF Clean
  <2>2. CASE job[w].todo # {s}
    <3> DEFINE j == [job[w] EXCEPT !.todo = @ \ {s}]
    <3>1. j \in Job /\ j.pc = "clean" /\ j.op = job[w].op
          BY <1>1, <1>6 DEF Job, Clean, At
    <3>2. Set(w, j) /\ j.op \notin {"login", "refresh"}
          BY <1>3, <1>6, <2>2, <3>1 DEF Clean
    <3> HIDE DEF j
    <3> QED
        BY <1>2, <1>6, <3>1, <3>2, NotMinting DEF Clean
  <2> QED
      BY <2>1, <2>2
<1>7. ASSUME NEW s \in Sids, StartTouch(w, s) PROVE IInv'
  <2> DEFINE j == [Idle EXCEPT !.pc = "ttl", !.op = "touch", !.sid = s]
  <2>1. j \in Job /\ j.pc = "ttl" /\ j.op = "touch" /\ j.sid \in Sids
        BY <1>1 DEF Job, Steps, AllOps, Idle
  <2>2. Set(w, j)
        BY <1>7 DEF StartTouch
  <2> HIDE DEF j
  <2> QED
      BY <1>2, <1>7, <2>1, <2>2, NotMinting DEF StartTouch
<1>8. ASSUME ReadTtl(w) PROVE IInv'
  <2>1. CASE job[w].sid \in live
    <3> DEFINE j == [job[w] EXCEPT !.pc = "write"]
    <3>1. j \in Job /\ j.pc = "write" /\ j.op = job[w].op /\ j.sid \in Sids
          BY <1>1, <1>2, <2>1 DEF Job, Steps
    <3>2. Set(w, j) /\ j.op \notin {"login", "refresh"}
          BY <1>1, <1>3, <1>8, <2>1, <3>1, GoToStep DEF ReadTtl, Steps
    <3> HIDE DEF j
    <3> QED
        BY <1>2, <1>8, <3>1, <3>2, NotMinting DEF ReadTtl
  <2>2. CASE job[w].sid \notin live
        BY <1>2, <1>8, <2>2, BackToIdle DEF ReadTtl
  <2> QED
      BY <2>1, <2>2
<1>9. ASSUME WriteBlob(w) PROVE IInv'
  <2>1. job[w].sid \in Sids
        BY <1>9 DEF WriteBlob, At, IInv, StepsMatchOperation
  <2> QED
      BY <1>2, <1>9, <2>1, BackToIdle DEF WriteBlob
<1>10. ASSUME Abort(w) PROVE IInv'
       BY <1>2, <1>10, BackToIdle DEF Abort
<1> QED
    BY <1>4, <1>5, <1>6, <1>7, <1>8, <1>9, <1>10

\* The end of a lifetime, or a step that changes nothing here.
LEMMA NoRequestStep ==
    ASSUME IInv, UNCHANGED vars \/ \E s \in Sids : Expire(s)
    PROVE  IInv'
<1>1. /\ UNCHANGED <<rows, minted, issued, job, listed, closed>>
      /\ live' \subseteq Sids /\ expired' \subseteq Sids
      BY DEF vars, Expire, IInv, TypeOK
<1>2. TypeOK'
      BY <1>1 DEF IInv, TypeOK
<1>3. StepsMatchOperation' /\ NewSessionsArePrivate'
      BY <1>1 DEF IInv, StepsMatchOperation, NewSessionsArePrivate, Mints, Claims, Fresh
<1>4. ClaimsAreExclusive' /\ RowMeansNoHeir'
      BY <1>1 DEF IInv, ClaimsAreExclusive, RowMeansNoHeir, Claims
<1>5. HeirsHaveIssuedParents' /\ OneHeir'
      BY <1>1 DEF IInv, HeirsHaveIssuedParents, OneHeir, Fresh
<1> QED
    BY <1>2, <1>3, <1>4, <1>5 DEF IInv

LEMMA NextStep == IInv /\ [Next]_vars => IInv'
<1> SUFFICES ASSUME IInv, [Next]_vars PROVE IInv'
    OBVIOUS
<1>1. ASSUME NEW w \in Workers,
             \/ \E scope \in Scopes : StartLogin(w, scope)
             \/ \E s \in Sids : FindToken(w, s) \/ StoreBlob(w, s)
             \/ CheckSession(w) \/ Enlist(w) \/ SaveToken(w) \/ DeleteOldRow(w)
      PROVE IInv'
      BY <1>1, MintStep
<1>2. ASSUME NEW w \in Workers,
             \/ \E s \in Sids : \/ StartLogout(w, s) \/ StartRevoke(w, s)
                                \/ StartRevokeOthers(w, s) \/ DropBlob(w, s)
             \/ StartRevokeAll(w) \/ Scan(w) \/ DropSet(w) \/ DropRows(w) \/ Unlist(w)
             \/ \E cookie \in BOOLEAN : DropRow(w, cookie)
      PROVE IInv'
  <2>1. CASE job[w].op = "refresh"
    <3>1. job[w].pc \in {"found", "mint", "enlist", "save", "rotate", "drop", "unlist"}
          BY <2>1 DEF IInv, StepsMatchOperation
    <3>2. \A s \in Sids : ~StartLogout(w, s) /\ ~StartRevoke(w, s) /\ ~StartRevokeOthers(w, s)
          BY <2>1 DEF StartLogout, StartRevoke, StartRevokeOthers, Accept, Idle
    <3>3. ~StartRevokeAll(w)
          BY <2>1 DEF StartRevokeAll, Accept, Idle
    <3>4. ~Scan(w) /\ ~DropSet(w) /\ ~DropRows(w)
          BY <3>1 DEF Scan, DropSet, DropRows, At
    <3>5. \A cookie \in BOOLEAN : ~DropRow(w, cookie)
          BY <3>1 DEF DropRow, At
    <3>6. Unlist(w) \/ \E s \in Sids : DropBlob(w, s)
          BY <1>2, <3>2, <3>3, <3>4, <3>5
    <3> QED
        BY <2>1, <3>6, RotationEnds
  <2>2. CASE job[w].op # "refresh"
        BY <1>2, <2>2, SignOutStep
  <2> QED
      BY <2>1, <2>2
<1>3. ASSUME NEW w \in Workers,
             \/ \E scope \in Scopes : StartList(w, scope)
             \/ \E s \in Sids : Clean(w, s) \/ StartTouch(w, s)
             \/ FetchAll(w) \/ ReadTtl(w) \/ WriteBlob(w) \/ Abort(w)
      PROVE IInv'
      BY <1>3, OtherStep
<1>4. CASE UNCHANGED vars \/ \E s \in Sids : Expire(s)
      BY <1>4, NoRequestStep
<1> QED
    BY <1>1, <1>2, <1>3, <1>4 DEF Next

-----------------------------------------------------------------------------
\* Sessions: the inductive invariant of rotation holds in every state.
THEOREM InvariantHolds == Spec => []IInv
BY InitIInv, NextStep, PTL DEF Spec

\* Sessions: every store and every request keeps the shape the code gives it.
THEOREM TypeCorrect == Spec => []TypeOK
<1>1. IInv => TypeOK
      BY DEF IInv
<1> QED
    BY <1>1, InvariantHolds, PTL

\* AuthService.refreshToken: whatever races, fails or is signed out meanwhile,
\* a refresh token is answered with a new session at most once.
THEOREM RedeemedOnce == Spec => []OneHeir
<1>1. IInv => OneHeir
      BY DEF IInv
<1> QED
    BY <1>1, InvariantHolds, PTL

-----------------------------------------------------------------------------
(* What clients were given keeps working, and the list is complete.        *)

LEMMA WorkStep ==
    ASSUME IInv, WorkInv, NEW w \in Workers, NEW j \in Job, Set(w, j),
           Fresh' \subseteq Fresh, closed \subseteq closed', expired \subseteq expired',
           issued \subseteq issued', issued' \subseteq Sids \ Fresh',
           listed \ Lost' \subseteq listed', rows \ Lost' \subseteq rows',
           live' \union listed' \subseteq Sids \ Fresh', Sids \ Fresh' \subseteq live' \union Lost',
           \A s \in issued' \ issued : s \in (listed' \intersect rows') \union Lost',
           JobKeeps(j)'
    PROVE  WorkInv'
<1>1. \A v \in Workers : job'[v] = IF v = w THEN j ELSE job[v]
      BY JobStep DEF IInv
<1>2. Lost \subseteq Lost'
      BY DEF Lost
<1>3. ASSUME NEW v \in Workers PROVE JobKeeps(job[v])'
  <2>1. CASE v = w
        BY <1>1, <2>1 DEF JobKeeps
  <2>2. CASE v # w
    <3>1. PICK k : k = job[v]
          OBVIOUS
    <3>2. JobKeeps(k)
          BY <3>1 DEF WorkInv
    <3>3. JobKeeps(k)'
          BY <1>2, <3>2 DEF JobKeeps
    <3>4. job'[v] = k
          BY <1>1, <2>2, <3>1
    <3> QED
        BY <3>3, <3>4 DEF JobKeeps
  <2> QED
      BY <2>1, <2>2
<1>4. IssuedSessionsWork'
      BY <1>2 DEF WorkInv, IssuedSessionsWork, Lost
<1> QED
    BY <1>3, <1>4 DEF WorkInv

\* A step that mints nothing and answers nobody.
LEMMA SoberStep ==
    ASSUME IInv, WorkInv, NEW w \in Workers, NEW j \in Job, Set(w, j),
           UNCHANGED <<minted, issued, expired>>, closed \subseteq closed',
           live' \subseteq live, listed' \subseteq listed,
           live \ Lost' \subseteq live', listed \ Lost' \subseteq listed', rows \ Lost' \subseteq rows',
           JobKeeps(j)'
    PROVE  WorkInv'
<1>1. Fresh' = Fresh
      BY DEF Fresh
<1>2. issued \subseteq Sids \ Fresh
      BY DEF IInv, TypeOK, HeirsHaveIssuedParents
<1>3. Lost \subseteq Lost'
      BY DEF Lost
<1> QED
    BY <1>1, <1>2, <1>3, WorkStep DEF WorkInv

LEMMA ListStep ==
    ASSUME IInv, WorkInv, ListInv, NEW w \in Workers, NEW j \in Job, Set(w, j),
           Fresh' \subseteq Fresh,
           \A s \in live' \ live : s \in Fresh /\ j.pc = "enlist" /\ j.new = s,
           (listed \ listed') \intersect live' = {},
           At(w, "enlist") => job[w].new \in listed',
           JobLists(j)'
    PROVE  ListInv'
<1>1. \A v \in Workers : job'[v] = IF v = w THEN j ELSE job[v]
      BY JobStep DEF IInv
<1>2. ASSUME NEW v \in Workers PROVE JobLists(job[v])'
  <2>1. CASE v = w
        BY <1>1, <2>1 DEF JobLists
  <2>2. CASE v # w
    <3>1. PICK k : k = job[v]
          OBVIOUS
    <3>2. JobLists(k) /\ JobKeeps(k)
          BY <3>1 DEF WorkInv, ListInv
    <3>3. JobLists(k)'
          BY <3>2 DEF JobLists, JobKeeps
    <3>4. job'[v] = k
          BY <1>1, <2>2, <3>1
    <3> QED
        BY <3>3, <3>4 DEF JobLists
  <2> QED
      BY <2>1, <2>2
<1>3. ASSUME NEW s \in live'
      PROVE  s \in listed' \/ \E v \in Workers : At(v, "enlist")' /\ job'[v].new = s
  <2>1. CASE s \in live
    <3>1. CASE s \in listed
          BY <3>1
    <3>2. CASE s \notin listed
      <4>1. PICK v \in Workers : At(v, "enlist") /\ job[v].new = s
            BY <2>1, <3>2 DEF ListInv
      <4>2. CASE v = w
            BY <4>1, <4>2
      <4>3. CASE v # w
            BY <1>1, <4>1, <4>3 DEF At
      <4> QED
          BY <4>2, <4>3
    <3> QED
        BY <3>1, <3>2
  <2>2. CASE s \notin live
    <3>1. j.pc = "enlist" /\ j.new = s /\ job'[w] = j
          BY <1>1, <2>2
    <3> QED
        BY <3>1 DEF At
  <2> QED
      BY <2>1, <2>2
<1> QED
    BY <1>2, <1>3 DEF ListInv

\* Nothing brings a blob back, and no session is lost between its blob and the list.
Undisturbed == "touch" \notin Ops /\ {"login", "refresh"} \intersect Faults = {}

LEMMA SoberBoth ==
    ASSUME IInv, WorkInv, NEW w \in Workers, NEW j \in Job, Set(w, j),
           UNCHANGED <<minted, issued, expired>>, closed \subseteq closed',
           live' \subseteq live, listed' \subseteq listed,
           live \ Lost' \subseteq live', listed \ Lost' \subseteq listed', rows \ Lost' \subseteq rows',
           JobKeeps(j)',
           ListInv /\ Undisturbed =>
               JobLists(j)' /\ ~At(w, "enlist") /\ (listed \ listed') \intersect live' = {}
    PROVE  WorkInv' /\ (ListInv /\ Undisturbed => ListInv')
<1>1. WorkInv'
      BY SoberStep
<1>2. Fresh' \subseteq Fresh /\ \A s \in live' \ live : s \in Fresh /\ j.pc = "enlist" /\ j.new = s
      BY DEF Fresh
<1> QED
    BY <1>1, <1>2, ListStep

LEMMA IdleBoth ==
    ASSUME IInv, WorkInv, NEW w \in Workers, Set(w, Idle),
           UNCHANGED <<minted, issued, expired, closed>>,
           live' = live, listed' \subseteq listed,
           listed \ Lost \subseteq listed', rows \ Lost \subseteq rows',
           ListInv /\ Undisturbed =>
               ~At(w, "enlist") /\ (listed \ listed') \intersect live = {}
    PROVE  WorkInv' /\ (ListInv /\ Undisturbed => ListInv')
<1>1. Idle \in Job /\ Idle.pc = "idle" /\ Idle.op = "none" /\ Idle.todo = {}
      BY IdleIsJob DEF Idle
<1>2. JobKeeps(Idle)' /\ JobLists(Idle)'
      BY <1>1 DEF JobKeeps, JobLists
<1>3. Lost' = Lost
      BY DEF Lost
<1> QED
    BY <1>1, <1>2, <1>3, SoberBoth

\* Every step of login and refresh keeps both.
LEMMA MintBoth ==
    ASSUME IInv, WorkInv, NEW w \in Workers,
           \/ \E scope \in Scopes : StartLogin(w, scope)
           \/ \E s \in Sids : FindToken(w, s) \/ StoreBlob(w, s)
           \/ CheckSession(w) \/ Enlist(w) \/ SaveToken(w) \/ DeleteOldRow(w)
    PROVE  WorkInv' /\ (ListInv /\ Undisturbed => ListInv')
<1>1. TypeOK /\ job[w] \in Job /\ JobKeeps(job[w]) /\ (ListInv => JobLists(job[w]))
      BY DEF IInv, TypeOK, WorkInv, ListInv
<1>2. /\ job[w].sid \in Sids \union {None} /\ job[w].new \in Sids \union {None}
      /\ job[w].scope \in SessionScope /\ job[w].todo \subseteq Sids
      BY <1>1 DEF Job
<1>3. Idle \in Job /\ Idle.pc = "idle" /\ Idle.op = "none" /\ Idle.todo = {}
      BY IdleIsJob DEF Idle
<1>4. issued \subseteq Sids \ Fresh
      BY DEF IInv, TypeOK, HeirsHaveIssuedParents
<1>5. Mints(w) => job[w].new \in Sids \ (Fresh \union issued)
      BY DEF IInv, NewSessionsArePrivate
<1>6. ASSUME NEW scope \in Scopes, StartLogin(w, scope)
      PROVE  WorkInv' /\ (ListInv /\ Undisturbed => ListInv')
  <2> DEFINE k == [Idle EXCEPT !.pc = "mint", !.op = "login", !.scope = scope]
  <2>1. k \in Job /\ k.pc = "mint" /\ k.op = "login" /\ k.todo = {}
        BY <1>3, SessionsAssumption DEF Job, Steps, AllOps, Idle
  <2>2. Set(w, k)
        BY <1>6 DEF StartLogin
  <2> HIDE DEF k
  <2>0. PICK j \in Job : Set(w, j) /\ j.pc = "mint" /\ j.op = "login" /\ j.todo = {}
      BY <2>1, <2>2
  <2>3. UNCHANGED <<live, listed, rows, expired, minted, issued, closed>> /\ ~At(w, "enlist")
        BY <1>3, <1>6 DEF StartLogin, Accept, At
  <2>4. JobKeeps(j)' /\ JobLists(j)'
        BY <2>0 DEF JobKeeps, JobLists
  <2> QED
      BY <2>0, <2>2, <2>3, <2>4, SoberBoth
<1>7. ASSUME NEW s \in Sids, FindToken(w, s)
      PROVE  WorkInv' /\ (ListInv /\ Undisturbed => ListInv')
  <2>1. CASE s \in expired
    <3>1. /\ UNCHANGED <<live, listed, expired, minted, issued, closed, job>>
          /\ rows \ Lost \subseteq rows'
          BY <1>7, <2>1 DEF FindToken, Lost
    <3>2. Fresh' = Fresh /\ Lost' = Lost
          BY <3>1 DEF Fresh, Lost
    <3>3. ASSUME NEW v \in Workers PROVE JobKeeps(job[v])'
      <4>1. PICK k : k = job[v]
            OBVIOUS
      <4>2. JobKeeps(k) /\ job'[v] = k
            BY <3>1, <4>1 DEF WorkInv
      <4>3. JobKeeps(k)'
            BY <3>1, <3>2, <4>2 DEF JobKeeps
      <4> QED
          BY <4>2, <4>3 DEF JobKeeps
    <3>4. WorkInv'
          BY <3>1, <3>2, <3>3 DEF WorkInv, IssuedSessionsWork, Lost
    <3>5. ListInv => ListInv'
          BY <3>1, <3>2 DEF ListInv, JobLists, At
    <3> QED
        BY <3>4, <3>5
  <2>2. CASE s \notin expired
    <3>1. minted[s] \in Minted
          BY <1>1, <1>4, <1>7, MintedShape DEF FindToken
    <3> DEFINE k == [Idle EXCEPT !.pc = "found", !.op = "refresh",
                                 !.scope = minted[s].scope, !.sid = s]
    <3>2. k \in Job /\ k.pc = "found" /\ k.op = "refresh" /\ k.todo = {}
          BY <1>3, <3>1 DEF Job, Steps, AllOps, Minted, Idle
    <3>3. Set(w, k)
          BY <1>7, <2>2 DEF FindToken
    <3> HIDE DEF k
    <3>0. PICK j \in Job : Set(w, j) /\ j.pc = "found" /\ j.op = "refresh" /\ j.todo = {}
        BY <3>2, <3>3
    <3>4. UNCHANGED <<live, listed, rows, expired, minted, issued, closed>> /\ ~At(w, "enlist")
          BY <1>3, <1>7, <2>2 DEF FindToken, Accept, At
    <3>5. JobKeeps(j)' /\ JobLists(j)'
          BY <3>0 DEF JobKeeps, JobLists
    <3> QED
        BY <3>0, <3>3, <3>4, <3>5, SoberBoth
  <2> QED
      BY <2>1, <2>2
<1>8. ASSUME CheckSession(w)
      PROVE  WorkInv' /\ (ListInv /\ Undisturbed => ListInv')
  <2>1. job[w].op = "refresh" /\ job[w].sid \in issued /\ job[w].pc = "found"
        BY <1>8 DEF CheckSession, At, IInv, StepsMatchOperation
  <2>2. CASE job[w].sid \in live
    <3> DEFINE k == [job[w] EXCEPT !.pc = "mint"]
    <3>1. k \in Job /\ k.pc = "mint" /\ k.op = "refresh" /\ k.todo = job[w].todo
          BY <1>1, <2>1 DEF Job, Steps
    <3>2. Set(w, k)
          BY <1>1, <1>8, <2>2, GoToStep DEF CheckSession, Steps
    <3> HIDE DEF k
    <3>0. PICK j \in Job : Set(w, j) /\ j.pc = "mint" /\ j.op = "refresh" /\ j.todo = job[w].todo
        BY <3>1, <3>2
    <3>3. UNCHANGED <<live, listed, rows, expired, minted, issued, closed>> /\ ~At(w, "enlist")
          BY <1>8, <2>1, <2>2 DEF CheckSession, At
    <3>4. Fresh' = Fresh
          BY <3>3 DEF Fresh
    <3>5. JobKeeps(j)' /\ JobLists(j)'
          BY <1>1, <3>0, <3>4 DEF JobKeeps, JobLists
    <3> QED
        BY <3>0, <3>2, <3>3, <3>5, SoberBoth
  <2>3. CASE job[w].sid \notin live
    <3>1. job[w].sid \in Lost
          BY <1>4, <2>1, <2>3 DEF WorkInv
    <3>2. /\ UNCHANGED <<live, listed, expired, minted, issued, closed>>
          /\ rows' = rows \ {job[w].sid} /\ Set(w, Idle) /\ ~At(w, "enlist")
          BY <1>8, <2>1, <2>3 DEF CheckSession, At
    <3> QED
        BY <3>1, <3>2, IdleBoth
  <2> QED
      BY <2>2, <2>3
<1>9. ASSUME NEW s \in Sids, StoreBlob(w, s)
      PROVE  WorkInv' /\ (ListInv /\ Undisturbed => ListInv')
  <2> DEFINE k == [job[w] EXCEPT !.pc = "enlist", !.new = s]
             m == [scope |-> job[w].scope, from |-> job[w].sid]
  <2>1. k \in Job /\ k.pc = "enlist" /\ k.op = job[w].op /\ k.new = s /\ k.todo = job[w].todo
        BY <1>1 DEF Job, Steps
  <2>2. m \in Minted
        BY <1>2 DEF Minted
  <2>3. Set(w, k) /\ minted' = [minted EXCEPT ![s] = m]
        BY <1>9 DEF StoreBlob
  <2> HIDE DEF k, m
  <2>0. PICK j \in Job : Set(w, j) /\ j.pc = "enlist" /\ j.op = job[w].op /\ j.new = s /\ j.todo = job[w].todo
      BY <2>1, <2>3
  <2>4. Fresh' = Fresh \ {s}
        BY <1>1, <2>2, <2>3, MintedIsNotFresh DEF Fresh, TypeOK
  <2>5. /\ UNCHANGED <<listed, rows, expired, issued, closed>> /\ live' = live \union {s}
        /\ s \in Fresh /\ ~At(w, "enlist") /\ s \in Sids
        BY <1>9 DEF StoreBlob, At
  <2>6. JobKeeps(j)' /\ JobLists(j)'
        BY <1>1, <2>0, <2>4 DEF JobKeeps, JobLists
  <2>7. Lost' = Lost
        BY <2>5 DEF Lost
  <2>8. /\ live' \union listed' \subseteq Sids \ Fresh' /\ Sids \ Fresh' \subseteq live' \union Lost'
        /\ issued' \subseteq Sids \ Fresh' /\ Fresh' \subseteq Fresh
        BY <1>4, <2>4, <2>5, <2>7 DEF WorkInv
  <2>9. WorkInv'
        BY <2>0, <2>3, <2>5, <2>6, <2>7, <2>8, WorkStep
  <2>10. ListInv => ListInv'
        BY <2>0, <2>3, <2>5, <2>6, <2>8, ListStep
  <2> QED
      BY <2>9, <2>10
<1>10. ASSUME Enlist(w)
       PROVE  WorkInv' /\ (ListInv /\ Undisturbed => ListInv')
  <2> DEFINE k == [job[w] EXCEPT !.pc = "save"]
  <2>1. k \in Job /\ k.pc = "save" /\ k.op = job[w].op /\ k.new = job[w].new /\ k.todo = job[w].todo
        BY <1>1 DEF Job, Steps
  <2>2. Set(w, k)
        BY <1>1, <1>10, GoToStep DEF Enlist, Steps
  <2> HIDE DEF k
  <2>0. PICK j \in Job : Set(w, j) /\ j.pc = "save" /\ j.op = job[w].op /\ j.new = job[w].new /\ j.todo = job[w].todo
      BY <2>1, <2>2
  <2>3. /\ UNCHANGED <<live, rows, expired, minted, issued, closed>> /\ job[w].pc = "enlist"
        /\ listed' = listed \union {job[w].new}
        BY <1>10 DEF Enlist, At
  <2>4. job[w].new \in Sids \ Fresh /\ Fresh' = Fresh /\ Lost' = Lost
        BY <1>5, <2>3 DEF Mints, Fresh, Lost
  <2>5. JobKeeps(j)' /\ JobLists(j)'
        BY <1>1, <2>0, <2>3, <2>4 DEF JobKeeps, JobLists
  <2>6. /\ live' \union listed' \subseteq Sids \ Fresh' /\ Sids \ Fresh' \subseteq live' \union Lost'
        BY <2>3, <2>4 DEF WorkInv
  <2>7. WorkInv'
        BY <1>4, <2>0, <2>2, <2>3, <2>4, <2>5, <2>6, WorkStep
  <2>8. ListInv => ListInv'
        BY <2>0, <2>2, <2>3, <2>4, <2>5, ListStep
  <2> QED
      BY <2>7, <2>8
<1>11. ASSUME SaveToken(w)
       PROVE  WorkInv' /\ (ListInv /\ Undisturbed => ListInv')
  <2>1. /\ UNCHANGED <<live, listed, expired, minted, closed>> /\ job[w].pc = "save"
        /\ rows' = rows \union {job[w].new}
        BY <1>11 DEF SaveToken, At
  <2>2. /\ job[w].new \in Sids \ Fresh /\ Fresh' = Fresh /\ Lost' = Lost
        /\ job[w].new \in listed \union Lost
        BY <1>1, <1>5, <2>1 DEF Mints, Fresh, Lost, JobKeeps
  <2>3. CASE job[w].op = "login"
    <3>1. Set(w, Idle) /\ issued' = issued \union {job[w].new}
          BY <1>11, <2>3 DEF SaveToken
    <3>2. JobKeeps(Idle)' /\ JobLists(Idle)'
          BY <1>3 DEF JobKeeps, JobLists
    <3>3. WorkInv'
          BY <1>3, <1>4, <2>1, <2>2, <3>1, <3>2, WorkStep DEF WorkInv
    <3>4. ListInv => ListInv'
          BY <1>3, <2>1, <2>2, <3>1, <3>2, ListStep DEF At
    <3> QED
        BY <3>3, <3>4
  <2>4. CASE job[w].op # "login"
    <3> DEFINE k == [job[w] EXCEPT !.pc = "rotate"]
    <3>1. k \in Job /\ k.pc = "rotate" /\ k.op = job[w].op /\ k.new = job[w].new /\ k.todo = job[w].todo
          BY <1>1 DEF Job, Steps
    <3>2. Set(w, k) /\ issued' = issued
          BY <1>1, <1>11, <2>4, GoToStep DEF SaveToken, Steps
    <3> HIDE DEF k
    <3>0. PICK j \in Job : Set(w, j) /\ j.pc = "rotate" /\ j.op = job[w].op /\ j.new = job[w].new /\ j.todo = job[w].todo
        BY <3>1, <3>2
    <3>3. JobKeeps(j)' /\ JobLists(j)'
          BY <1>1, <2>1, <2>2, <3>0 DEF JobKeeps, JobLists
    <3>4. WorkInv'
          BY <1>4, <2>1, <2>2, <3>0, <3>2, <3>3, WorkStep DEF WorkInv
    <3>5. ListInv => ListInv'
          BY <2>1, <2>2, <3>0, <3>2, <3>3, ListStep DEF At
    <3> QED
        BY <3>4, <3>5
  <2> QED
      BY <2>3, <2>4
<1>12. ASSUME DeleteOldRow(w)
       PROVE  WorkInv' /\ (ListInv /\ Undisturbed => ListInv')
  <2>1. /\ UNCHANGED <<live, listed, expired, minted, issued>> /\ job[w].pc = "rotate"
        /\ job[w].op = "refresh" /\ job[w].sid \in issued /\ Fresh' = Fresh
        BY <1>12 DEF DeleteOldRow, At, IInv, StepsMatchOperation, Fresh
  <2>2. CASE job[w].sid \in rows
    <3> DEFINE s == job[w].sid
               k == [job[w] EXCEPT !.pc = "drop", !.todo = {s}]
    <3>1. s \in Sids \ Fresh
          BY <1>4, <2>1
    <3>2. k \in Job /\ k.pc = "drop" /\ k.op = "refresh" /\ k.new = job[w].new /\ k.todo = {s}
          BY <1>1, <2>1, <3>1 DEF Job, Steps
    <3>3. Set(w, k) /\ rows' = rows \ {s} /\ closed' = closed \union {s}
          BY <1>12, <2>2 DEF DeleteOldRow
    <3> HIDE DEF s, k
    <3>0. PICK j \in Job : Set(w, j) /\ j.pc = "drop" /\ j.op = "refresh" /\ j.new = job[w].new /\ j.todo = {s}
        BY <3>2, <3>3
    <3>4. Lost' = Lost \union {s}
          BY <2>1, <3>3 DEF Lost
    <3>5. job[w].new \in (listed \intersect rows) \union Lost
          BY <1>1, <2>1 DEF JobKeeps
    <3>6. JobKeeps(j)' /\ JobLists(j)'
          BY <2>1, <3>1, <3>0, <3>3, <3>4, <3>5 DEF JobKeeps, JobLists
    <3> QED
        BY <2>1, <3>0, <3>3, <3>4, <3>6, SoberBoth DEF At
  <2>3. CASE job[w].sid \notin rows
        BY <1>12, <2>1, <2>3, IdleBoth DEF DeleteOldRow, At
  <2> QED
      BY <2>2, <2>3
<1> QED
    BY <1>6, <1>7, <1>8, <1>9, <1>10, <1>11, <1>12

\* Every step of a sign-out keeps both, and so does the end of a rotation.
LEMMA SignOutBoth ==
    ASSUME IInv, WorkInv, NEW w \in Workers, "revokeAll" \notin Ops,
           \/ \E s \in Sids : \/ StartLogout(w, s) \/ StartRevoke(w, s)
                              \/ StartRevokeOthers(w, s) \/ DropBlob(w, s)
           \/ StartRevokeAll(w) \/ Scan(w) \/ DropSet(w) \/ DropRows(w) \/ Unlist(w)
           \/ \E cookie \in BOOLEAN : DropRow(w, cookie)
    PROVE  WorkInv' /\ (ListInv /\ Undisturbed => ListInv')
<1>1. TypeOK /\ job[w] \in Job /\ JobKeeps(job[w]) /\ (ListInv => JobLists(job[w]))
      BY DEF IInv, TypeOK, WorkInv, ListInv
<1>2. /\ job[w].sid \in Sids \union {None} /\ job[w].new \in Sids \union {None}
      /\ job[w].todo \subseteq Sids
      BY <1>1 DEF Job
<1>3. Idle \in Job /\ Idle.pc = "idle" /\ Idle.op = "none" /\ Idle.todo = {}
      BY IdleIsJob DEF Idle
<1>4. /\ issued \subseteq Sids \ Fresh /\ live \subseteq Sids \ Fresh /\ listed \subseteq Sids \ Fresh
      BY DEF IInv, TypeOK, HeirsHaveIssuedParents, WorkInv
<1>5. ASSUME NEW s \in Sids, StartLogout(w, s)
      PROVE  WorkInv' /\ (ListInv /\ Undisturbed => ListInv')
  <2> DEFINE k == [Idle EXCEPT !.pc = "drop", !.op = "logout", !.sid = s, !.todo = {s}]
  <2>1. k \in Job /\ k.pc = "drop" /\ k.op = "logout" /\ k.todo = {s}
        BY <1>3 DEF Job, Steps, AllOps, Idle
  <2>2. Set(w, k)
        BY <1>5 DEF StartLogout
  <2> HIDE DEF k
  <2>p. PICK j \in Job : Set(w, j) /\ j.pc = "drop" /\ j.op = "logout" /\ j.todo = {s}
      BY <2>1, <2>2
  <2>3. /\ UNCHANGED <<live, listed, rows, expired, minted, issued>> /\ ~At(w, "enlist")
        /\ closed' = closed \union {s} /\ s \in issued /\ Fresh' = Fresh
        BY <1>3, <1>5 DEF StartLogout, Accept, At, Authenticated, Fresh
  <2>4. JobKeeps(j)' /\ JobLists(j)'
        BY <1>4, <2>p, <2>3 DEF JobKeeps, JobLists
  <2> QED
      BY <2>p, <2>2, <2>3, <2>4, SoberBoth
<1>6. ASSUME NEW s \in Sids, StartRevoke(w, s)
      PROVE  WorkInv' /\ (ListInv /\ Undisturbed => ListInv')
  <2> DEFINE k == [Idle EXCEPT !.pc = "drop", !.op = "revoke", !.todo = {s}]
  <2>1. k \in Job /\ k.pc = "drop" /\ k.op = "revoke" /\ k.todo = {s}
        BY <1>3 DEF Job, Steps, AllOps, Idle
  <2>2. Set(w, k)
        BY <1>6 DEF StartRevoke
  <2> HIDE DEF k
  <2>p. PICK j \in Job : Set(w, j) /\ j.pc = "drop" /\ j.op = "revoke" /\ j.todo = {s}
      BY <2>1, <2>2
  <2>3. /\ UNCHANGED <<live, listed, rows, expired, minted, issued>> /\ ~At(w, "enlist")
        /\ closed' = closed \union {s} /\ s \in live /\ Fresh' = Fresh
        BY <1>3, <1>6 DEF StartRevoke, Accept, At, Fresh
  <2>4. JobKeeps(j)' /\ JobLists(j)'
        BY <1>4, <2>p, <2>3 DEF JobKeeps, JobLists
  <2> QED
      BY <2>p, <2>2, <2>3, <2>4, SoberBoth
<1>7. ASSUME NEW s \in Sids, StartRevokeOthers(w, s)
      PROVE  WorkInv' /\ (ListInv /\ Undisturbed => ListInv')
  <2>0. PICK doomed \in SUBSET Sids : doomed = (listed \intersect Of(minted[s].scope)) \ {s}
        BY <1>4
  <2> DEFINE k == [Idle EXCEPT !.pc = "drop", !.op = "revokeOthers", !.todo = doomed]
  <2>1. k \in Job /\ k.pc = "drop" /\ k.op = "revokeOthers" /\ k.todo = doomed
        BY <1>3 DEF Job, Steps, AllOps, Idle
  <2>2. Set(w, k)
        BY <1>7, <2>0 DEF StartRevokeOthers
  <2> HIDE DEF k
  <2>p. PICK j \in Job : Set(w, j) /\ j.pc = "drop" /\ j.op = "revokeOthers" /\ j.todo = doomed
      BY <2>1, <2>2
  <2>3. /\ UNCHANGED <<live, listed, rows, expired, minted, issued>> /\ ~At(w, "enlist")
        /\ closed' = closed \union doomed /\ doomed \subseteq listed /\ Fresh' = Fresh
        BY <1>3, <1>7, <2>0 DEF StartRevokeOthers, Accept, At, Fresh
  <2>4. JobKeeps(j)' /\ JobLists(j)'
        BY <1>4, <2>p, <2>3 DEF JobKeeps, JobLists
  <2> QED
      BY <2>p, <2>2, <2>3, <2>4, SoberBoth
<1>8. ASSUME NEW s \in Sids, DropBlob(w, s)
      PROVE  WorkInv' /\ (ListInv /\ Undisturbed => ListInv')
  <2> DEFINE k == [job[w] EXCEPT !.pc = "unlist", !.sid = s]
  <2>0. /\ job[w].op # "revokeAll" /\ job[w].pc = "drop" /\ s \in job[w].todo
        /\ job[w].todo \subseteq closed /\ job[w].todo \intersect Fresh = {}
        BY <1>1, <1>8 DEF DropBlob, At, JobKeeps
  <2>1. /\ k \in Job /\ k.pc = "unlist" /\ k.op = job[w].op /\ k.sid = s
        /\ k.new = job[w].new /\ k.todo = job[w].todo
        BY <1>1 DEF Job, Steps
  <2>2. Set(w, k)
        BY <1>8, <2>0 DEF DropBlob
  <2> HIDE DEF k
  <2>p. PICK j \in Job : Set(w, j) /\ j.pc = "unlist" /\ j.op = job[w].op /\ j.sid = s /\ j.new = job[w].new /\ j.todo = job[w].todo
      BY <2>1, <2>2
  <2>3. /\ UNCHANGED <<listed, rows, expired, minted, issued, closed>> /\ ~At(w, "enlist")
        /\ live' = live \ {s} /\ Fresh' = Fresh /\ Lost' = Lost /\ s \in Lost
        BY <1>8, <2>0 DEF DropBlob, At, Fresh, Lost
  <2>4. JobKeeps(j)'
        BY <1>1, <2>0, <2>p, <2>3 DEF JobKeeps
  <2>5. JobLists(j)'
        BY <2>0, <2>p, <2>3 DEF JobLists
  <2> QED
      BY <2>p, <2>2, <2>3, <2>4, <2>5, SoberBoth
<1>9. ASSUME Unlist(w)
      PROVE  WorkInv' /\ (ListInv /\ Undisturbed => ListInv')
  <2>0. PICK left \in SUBSET Sids : left = job[w].todo \ {job[w].sid}
        BY <1>2
  <2>1. /\ job[w].pc = "unlist" /\ job[w].sid \in closed /\ job[w].sid \in Lost
        /\ job[w].todo \subseteq closed /\ job[w].todo \intersect Fresh = {} /\ ~At(w, "enlist")
        BY <1>1, <1>9 DEF Unlist, At, JobKeeps, Lost
  <2>2. /\ UNCHANGED <<live, rows, expired, minted, closed>>
        /\ listed' = listed \ {job[w].sid} /\ Fresh' = Fresh /\ Lost' = Lost
        /\ issued' = IF job[w].op = "refresh" THEN issued \union {job[w].new} ELSE issued
        BY <1>9 DEF Unlist, Fresh, Lost
  <2>3. job[w].op = "refresh" =>
          /\ job[w].new \in Sids \ Fresh
          /\ job[w].new \in (listed' \intersect rows') \union Lost'
    <3>1. ASSUME job[w].op = "refresh"
          PROVE  job[w].new \in Sids \ Fresh /\ job[w].new \in (listed \intersect rows) \union Lost
          BY <1>1, <2>1, <3>1 DEF IInv, NewSessionsArePrivate, Mints, JobKeeps
    <3> QED
        BY <2>1, <2>2, <3>1
  <2>4. ListInv => job[w].sid \notin live'
        BY <1>1, <2>1, <2>2 DEF JobLists
  <2>5. /\ issued' \subseteq Sids \ Fresh' /\ issued \subseteq issued'
        /\ \A s \in issued' \ issued : s \in (listed' \intersect rows') \union Lost'
        BY <1>4, <2>2, <2>3
  <2>6. /\ listed \ Lost' \subseteq listed' /\ rows \ Lost' \subseteq rows'
        /\ live' \union listed' \subseteq Sids \ Fresh'
        /\ Sids \ Fresh' \subseteq live' \union Lost'
        BY <2>1, <2>2 DEF WorkInv
  <2>7. ASSUME NEW j \in Job, Set(w, j), JobKeeps(j)', JobLists(j)'
        PROVE  WorkInv' /\ (ListInv /\ Undisturbed => ListInv')
    <3>1. WorkInv'
          BY <2>2, <2>5, <2>6, <2>7, WorkStep
    <3>2. ListInv => ListInv'
          BY <2>1, <2>2, <2>4, <2>7, ListStep
    <3> QED
        BY <3>1, <3>2
  <2>8. CASE left # {}
    <3> DEFINE k == [job[w] EXCEPT !.pc = "drop", !.todo = left]
    <3>1. k \in Job /\ k.pc = "drop" /\ k.op = job[w].op /\ k.new = job[w].new /\ k.todo = left
          BY <1>1 DEF Job, Steps
    <3>2. Set(w, k)
          BY <1>9, <2>0, <2>8 DEF Unlist
    <3> HIDE DEF k
    <3>p. PICK j \in Job : Set(w, j) /\ j.pc = "drop" /\ j.op = job[w].op /\ j.new = job[w].new /\ j.todo = left
        BY <3>1, <3>2
    <3>3. JobKeeps(j)' /\ JobLists(j)'
          BY <1>1, <2>0, <2>1, <2>2, <2>3, <3>p DEF JobKeeps, JobLists
    <3> QED
        BY <2>7, <3>p, <3>2, <3>3
  <2>9. CASE left = {} /\ job[w].op = "logout"
    <3> DEFINE k == [job[w] EXCEPT !.pc = "dropRow"]
    <3>1. k \in Job /\ k.pc = "dropRow" /\ k.op = "logout" /\ k.sid = job[w].sid /\ k.todo = job[w].todo
          BY <1>1, <2>9 DEF Job, Steps
    <3>2. Set(w, k)
          BY <1>1, <1>9, <2>0, <2>9, GoToStep DEF Unlist, Steps
    <3> HIDE DEF k
    <3>p. PICK j \in Job : Set(w, j) /\ j.pc = "dropRow" /\ j.op = "logout" /\ j.sid = job[w].sid /\ j.todo = job[w].todo
        BY <3>1, <3>2
    <3>3. JobKeeps(j)' /\ JobLists(j)'
          BY <1>1, <2>1, <2>2, <3>p DEF JobKeeps, JobLists
    <3> QED
        BY <2>7, <3>p, <3>2, <3>3
  <2>10. CASE left = {} /\ job[w].op # "logout"
    <3>1. Set(w, Idle)
          BY <1>9, <2>0, <2>10 DEF Unlist
    <3>2. JobKeeps(Idle)' /\ JobLists(Idle)'
          BY <1>3 DEF JobKeeps, JobLists
    <3> QED
        BY <1>3, <2>7, <3>1, <3>2
  <2> QED
      BY <2>8, <2>9, <2>10
<1>10. ASSUME NEW cookie \in BOOLEAN, DropRow(w, cookie)
       PROVE  WorkInv' /\ (ListInv /\ Undisturbed => ListInv')
  <2>1. job[w].pc = "dropRow" /\ job[w].sid \in Lost
        BY <1>1, <1>10 DEF DropRow, At, JobKeeps, Lost
  <2>2. /\ UNCHANGED <<live, listed, expired, minted, issued, closed>> /\ Set(w, Idle)
        /\ rows \ Lost \subseteq rows' /\ ~At(w, "enlist")
        BY <1>10, <2>1 DEF DropRow, At
  <2> QED
      BY <2>2, IdleBoth
<1>11. ~(StartRevokeAll(w) \/ Scan(w) \/ DropSet(w) \/ DropRows(w))
       BY <1>1 DEF StartRevokeAll, Accept, Scan, DropSet, DropRows, At, JobKeeps
<1> QED
    BY <1>5, <1>6, <1>7, <1>8, <1>9, <1>10, <1>11

-----------------------------------------------------------------------------
\* Listing, touching and failing keep both.
LEMMA OtherBoth ==
    ASSUME IInv, WorkInv, NEW w \in Workers,
           \/ \E scope \in Scopes : StartList(w, scope)
           \/ \E s \in Sids : Clean(w, s) \/ StartTouch(w, s)
           \/ FetchAll(w) \/ ReadTtl(w) \/ WriteBlob(w) \/ Abort(w)
    PROVE  WorkInv' /\ (ListInv /\ Undisturbed => ListInv')
<1>1. TypeOK /\ job[w] \in Job /\ JobKeeps(job[w]) /\ (ListInv => JobLists(job[w]))
      BY DEF IInv, TypeOK, WorkInv, ListInv
<1>2. job[w].todo \subseteq Sids
      BY <1>1 DEF Job
<1>3. Idle \in Job /\ Idle.pc = "idle" /\ Idle.op = "none" /\ Idle.todo = {}
      BY IdleIsJob DEF Idle
<1>4. /\ issued \subseteq Sids \ Fresh /\ live \subseteq Sids \ Fresh /\ listed \subseteq Sids \ Fresh
      BY DEF IInv, TypeOK, HeirsHaveIssuedParents, WorkInv
<1>5. ASSUME NEW scope \in Scopes, StartList(w, scope)
      PROVE  WorkInv' /\ (ListInv /\ Undisturbed => ListInv')
  <2>0. PICK members \in SUBSET Sids : members = listed \intersect Of(scope)
        BY <1>4
  <2> DEFINE k == [Idle EXCEPT !.pc = "mget", !.op = "list", !.todo = members]
  <2>1. k \in Job /\ k.pc = "mget" /\ k.op = "list" /\ k.todo = members
        BY <1>3 DEF Job, Steps, AllOps, Idle
  <2>2. Set(w, k)
        BY <1>5, <2>0 DEF StartList
  <2> HIDE DEF k
  <2>p. PICK j \in Job : Set(w, j) /\ j.pc = "mget" /\ j.op = "list" /\ j.todo = members
      BY <2>1, <2>2
  <2>3. /\ UNCHANGED <<live, listed, rows, expired, minted, issued, closed>> /\ ~At(w, "enlist")
        /\ members \subseteq listed /\ Fresh' = Fresh
        BY <1>3, <1>5, <2>0 DEF StartList, Accept, At, Fresh
  <2>4. JobKeeps(j)' /\ JobLists(j)'
        BY <1>4, <2>p, <2>3 DEF JobKeeps, JobLists
  <2> QED
      BY <2>p, <2>2, <2>3, <2>4, SoberBoth
<1>6. ASSUME FetchAll(w)
      PROVE  WorkInv' /\ (ListInv /\ Undisturbed => ListInv')
  <2>1. /\ UNCHANGED <<live, listed, rows, expired, minted, issued, closed>>
        /\ job[w].pc = "mget" /\ ~At(w, "enlist") /\ job[w].op # "revokeAll"
        /\ job[w].todo \intersect Fresh = {}
        BY <1>1, <1>6 DEF FetchAll, At, JobKeeps
  <2>2. CASE job[w].todo \subseteq live
        BY <1>6, <2>1, <2>2, IdleBoth DEF FetchAll
  <2>3. CASE ~(job[w].todo \subseteq live)
    <3>0. PICK dead \in SUBSET Sids : dead = job[w].todo \ live
          BY <1>2
    <3> DEFINE k == [job[w] EXCEPT !.pc = "clean", !.todo = dead]
    <3>1. k \in Job /\ k.pc = "clean" /\ k.op = job[w].op /\ k.todo = dead
          BY <1>1 DEF Job, Steps
    <3>2. Set(w, k)
          BY <1>6, <2>3, <3>0 DEF FetchAll
    <3> HIDE DEF k
    <3>p. PICK j \in Job : Set(w, j) /\ j.pc = "clean" /\ j.op = job[w].op /\ j.todo = dead
        BY <3>1, <3>2
    <3>3. dead \subseteq Lost /\ dead \intersect live = {} /\ Fresh' = Fresh /\ Lost' = Lost
          BY <2>1, <3>0 DEF WorkInv, Fresh, Lost
    <3>4. JobKeeps(j)' /\ JobLists(j)'
          BY <2>1, <3>0, <3>p, <3>3 DEF JobKeeps, JobLists
    <3> QED
        BY <2>1, <3>p, <3>2, <3>4, SoberBoth
  <2> QED
      BY <2>2, <2>3
<1>7. ASSUME NEW s \in Sids, Clean(w, s)
      PROVE  WorkInv' /\ (ListInv /\ Undisturbed => ListInv')
  <2>1. /\ UNCHANGED <<live, rows, expired, minted, issued, closed>> /\ listed' = listed \ {s}
        /\ job[w].pc = "clean" /\ ~At(w, "enlist") /\ job[w].op # "revokeAll"
        /\ job[w].todo \intersect Fresh = {} /\ job[w].todo \subseteq Lost
        /\ s \in job[w].todo /\ (ListInv => job[w].todo \intersect live = {})
        /\ Fresh' = Fresh /\ Lost' = Lost
        BY <1>1, <1>7 DEF Clean, At, JobKeeps, JobLists, Fresh, Lost
  <2>2. CASE job[w].todo = {s}
    <3>1. Set(w, Idle)
          BY <1>7, <2>2 DEF Clean
    <3> QED
        BY <2>1, <3>1, IdleBoth
  <2>3. CASE job[w].todo # {s}
    <3>0. PICK left \in SUBSET Sids : left = job[w].todo \ {s}
          BY <1>2
    <3> DEFINE k == [job[w] EXCEPT !.todo = left]
    <3>1. k \in Job /\ k.pc = "clean" /\ k.op = job[w].op /\ k.todo = left
          BY <1>1, <2>1 DEF Job
    <3>2. Set(w, k)
          BY <1>7, <2>3, <3>0 DEF Clean
    <3> HIDE DEF k
    <3>p. PICK j \in Job : Set(w, j) /\ j.pc = "clean" /\ j.op = job[w].op /\ j.todo = left
        BY <3>1, <3>2
    <3>3. JobKeeps(j)' /\ (ListInv => JobLists(j)')
          BY <2>1, <3>0, <3>p DEF JobKeeps, JobLists
    <3> QED
        BY <2>1, <3>p, <3>2, <3>3, SoberBoth
  <2> QED
      BY <2>2, <2>3
<1>8. ASSUME NEW s \in Sids, StartTouch(w, s)
      PROVE  WorkInv' /\ (ListInv /\ Undisturbed => ListInv')
  <2> DEFINE k == [Idle EXCEPT !.pc = "ttl", !.op = "touch", !.sid = s]
  <2>1. k \in Job /\ k.pc = "ttl" /\ k.op = "touch" /\ k.sid = s /\ k.todo = {}
        BY <1>3 DEF Job, Steps, AllOps, Idle
  <2>2. Set(w, k)
        BY <1>8 DEF StartTouch
  <2> HIDE DEF k
  <2>p. PICK j \in Job : Set(w, j) /\ j.pc = "ttl" /\ j.op = "touch" /\ j.sid = s /\ j.todo = {}
      BY <2>1, <2>2
  <2>3. /\ UNCHANGED <<live, listed, rows, expired, minted, issued, closed>> /\ ~At(w, "enlist")
        /\ s \in issued /\ "touch" \in Ops
        BY <1>3, <1>8 DEF StartTouch, Accept, At, Authenticated
  <2>4. JobKeeps(j)'
        BY <2>p, <2>3 DEF JobKeeps
  <2> QED
      BY <2>p, <2>2, <2>3, <2>4, SoberBoth DEF Undisturbed
<1>9. ASSUME ReadTtl(w)
      PROVE  WorkInv' /\ (ListInv /\ Undisturbed => ListInv')
  <2>1. /\ UNCHANGED <<live, listed, rows, expired, minted, issued, closed>> /\ ~At(w, "enlist")
        /\ job[w].sid \in issued /\ job[w].op # "revokeAll" /\ job[w].todo \intersect Fresh = {}
        /\ ~ListInv /\ Fresh' = Fresh
        BY <1>1, <1>9 DEF ReadTtl, At, JobKeeps, JobLists, Fresh
  <2>2. CASE job[w].sid \in live
    <3> DEFINE k == [job[w] EXCEPT !.pc = "write"]
    <3>1. k \in Job /\ k.pc = "write" /\ k.op = job[w].op /\ k.sid = job[w].sid /\ k.todo = job[w].todo
          BY <1>1 DEF Job, Steps
    <3>2. Set(w, k)
          BY <1>1, <1>9, <2>2, GoToStep DEF ReadTtl, Steps
    <3> HIDE DEF k
    <3>p. PICK j \in Job : Set(w, j) /\ j.pc = "write" /\ j.op = job[w].op /\ j.sid = job[w].sid /\ j.todo = job[w].todo
        BY <3>1, <3>2
    <3>3. JobKeeps(j)'
          BY <2>1, <3>p DEF JobKeeps
    <3> QED
        BY <2>1, <3>p, <3>2, <3>3, SoberBoth
  <2>3. CASE job[w].sid \notin live
        BY <1>9, <2>1, <2>3, IdleBoth DEF ReadTtl
  <2> QED
      BY <2>2, <2>3
<1>10. ASSUME WriteBlob(w)
       PROVE  WorkInv' /\ (ListInv /\ Undisturbed => ListInv')
  <2>1. /\ UNCHANGED <<listed, rows, expired, minted, issued, closed>>
        /\ live' = live \union {job[w].sid} /\ Set(w, Idle)
        /\ job[w].sid \in issued /\ ~ListInv /\ Fresh' = Fresh /\ Lost' = Lost
        BY <1>1, <1>10 DEF WriteBlob, At, JobKeeps, JobLists, Fresh, Lost
  <2>2. JobKeeps(Idle)'
        BY <1>3 DEF JobKeeps
  <2>3. /\ live' \union listed' \subseteq Sids \ Fresh' /\ Sids \ Fresh' \subseteq live' \union Lost'
        BY <1>4, <2>1 DEF WorkInv
  <2> QED
      BY <1>3, <1>4, <2>1, <2>2, <2>3, WorkStep
<1>11. ASSUME Abort(w)
       PROVE  WorkInv' /\ (ListInv /\ Undisturbed => ListInv')
  <2>1. /\ UNCHANGED <<live, listed, rows, expired, minted, issued, closed>> /\ Set(w, Idle)
        /\ job[w].op \in Faults
        BY <1>11 DEF Abort
  <2>2. Undisturbed => ~At(w, "enlist")
        BY <2>1 DEF Undisturbed, At, IInv, StepsMatchOperation
  <2> QED
      BY <2>1, <2>2, IdleBoth
<1> QED
    BY <1>5, <1>6, <1>7, <1>8, <1>9, <1>10, <1>11

LEMMA ExpireBoth ==
    ASSUME IInv, WorkInv, NEW s \in Sids, Expire(s)
    PROVE  WorkInv' /\ (ListInv /\ Undisturbed => ListInv')
<1>1. /\ UNCHANGED <<listed, rows, minted, issued, closed, job>>
      /\ live' = live \ {s} /\ expired' = expired \union {s} /\ Fresh' = Fresh /\ Lost' = Lost \union {s}
      BY DEF Expire, Fresh, Lost
<1>2. ASSUME NEW v \in Workers PROVE JobKeeps(job[v])' /\ (ListInv => JobLists(job[v])')
  <2>1. PICK k : k = job[v]
        OBVIOUS
  <2>2. JobKeeps(k) /\ (ListInv => JobLists(k)) /\ job'[v] = k
        BY <1>1, <2>1 DEF WorkInv, ListInv
  <2>3. JobKeeps(k)' /\ (ListInv => JobLists(k)')
        BY <1>1, <2>2 DEF JobKeeps, JobLists
  <2> QED
      BY <2>2, <2>3 DEF JobKeeps, JobLists
<1>3. WorkInv'
      BY <1>1, <1>2 DEF WorkInv, IssuedSessionsWork, Lost
<1>4. ListInv => ListInv'
      BY <1>1, <1>2 DEF ListInv, At
<1> QED
    BY <1>3, <1>4

LEMMA WorkInit == Init => WorkInv /\ ListInv
<1> SUFFICES ASSUME Init PROVE WorkInv /\ ListInv
    OBVIOUS
<1>1. Fresh = Sids /\ \A w \in Workers : job[w] = Idle
      BY DEF Init, Fresh
<1>2. Idle.pc = "idle" /\ Idle.op = "none" /\ Idle.todo = {}
      BY DEF Idle
<1>3. JobKeeps(Idle) /\ JobLists(Idle)
      BY <1>2 DEF JobKeeps, JobLists
<1>4. \A w \in Workers : JobKeeps(job[w]) /\ JobLists(job[w])
      BY <1>1, <1>3 DEF JobKeeps, JobLists
<1>5. live = {} /\ listed = {} /\ issued = {}
      BY DEF Init
<1> QED
    BY <1>1, <1>4, <1>5 DEF WorkInv, ListInv, IssuedSessionsWork

LEMMA BothStep ==
    "revokeAll" \notin Ops =>
        (IInv /\ WorkInv /\ [Next]_vars => WorkInv' /\ (ListInv /\ Undisturbed => ListInv'))
<1> SUFFICES ASSUME "revokeAll" \notin Ops, IInv, WorkInv, [Next]_vars
             PROVE  WorkInv' /\ (ListInv /\ Undisturbed => ListInv')
    OBVIOUS
<1>1. CASE UNCHANGED vars
  <2>1. /\ UNCHANGED <<live, listed, rows, expired, minted, issued, closed, job>>
        /\ Fresh' = Fresh /\ Lost' = Lost
        BY <1>1 DEF vars, Fresh, Lost
  <2>2. WorkInv'
        BY <2>1 DEF WorkInv, IssuedSessionsWork, JobKeeps
  <2>3. ListInv => ListInv'
        BY <2>1 DEF ListInv, JobLists, At
  <2> QED
      BY <2>2, <2>3
<1>2. CASE Next
      BY <1>2, MintBoth, SignOutBoth, OtherBoth, ExpireBoth DEF Next
<1> QED
    BY <1>1, <1>2

\* Sessions: while nobody signs out of everything, what a client was given stays in all three
\* stores until it is rotated, signed out or over, whatever races and fails.
THEOREM GivenSessionsWork == "revokeAll" \notin Ops => (Spec => []IssuedSessionsWork)
<1> SUFFICES ASSUME "revokeAll" \notin Ops PROVE Spec => []IssuedSessionsWork
    OBVIOUS
<1>1. Init => IInv /\ WorkInv
      BY InitIInv, WorkInit
<1>2. IInv /\ WorkInv /\ [Next]_vars => (IInv /\ WorkInv)'
      BY NextStep, BothStep
<1>3. IInv /\ WorkInv => IssuedSessionsWork
      BY DEF WorkInv
<1> QED
    BY <1>1, <1>2, <1>3, PTL DEF Spec

\* SessionsService.list: when, besides, no lastSeenAt write and no failure of a sign-in is under
\* way, every live session is in the list once the requests in progress are done.
THEOREM ListIsComplete ==
    /\ {"revokeAll", "touch"} \intersect Ops = {} /\ {"login", "refresh"} \intersect Faults = {}
    => (Spec => []LiveSessionsAreListed)
<1> SUFFICES ASSUME {"revokeAll", "touch"} \intersect Ops = {}, {"login", "refresh"} \intersect Faults = {}
             PROVE  Spec => []LiveSessionsAreListed
    OBVIOUS
<1>0. Undisturbed /\ "revokeAll" \notin Ops
      BY DEF Undisturbed
<1>1. Init => IInv /\ WorkInv /\ ListInv
      BY InitIInv, WorkInit
<1>2. IInv /\ WorkInv /\ ListInv /\ [Next]_vars => (IInv /\ WorkInv /\ ListInv)'
      BY <1>0, NextStep, BothStep
<1>3. IInv /\ WorkInv /\ ListInv => LiveSessionsAreListed
      BY DEF ListInv, LiveSessionsAreListed, Quiet, At, Idle
<1> QED
    BY <1>1, <1>2, <1>3, PTL DEF Spec
=============================================================================
