------------------------ MODULE AdminSessionsProofs ------------------------
(***************************************************************************)
(* Theorems about AdminSessions, for any set of tokens, any number of      *)
(* requests, and any timeout and limit.                                    *)
(***************************************************************************)
EXTENDS AdminSessions, FiniteSetTheorems, TLAPS

\* What a stored token has left is a number; a live one has something left.
LEMMA StoredHasTime ==
    ASSUME TypeOK
    PROVE  /\ \A token \in Stored : remaining[token] \in 0..Timeout
           /\ Live \subseteq Stored /\ Stored \subseteq Tokens
    BY ConstantsAssumption DEF TypeOK, Stored, Live

\* Dropping tokens from the store keeps the types and leaves what is kept as it was.
LEMMA KeptIsAsBefore ==
    ASSUME TypeOK, NEW kept \in SUBSET Stored, Keep(kept)
    PROVE  /\ remaining' \in [Tokens -> 0..Timeout \cup {None}]
           /\ ended' \subseteq Tokens
           /\ Stored' = kept
           /\ \A token \in kept : remaining'[token] = remaining[token]
           /\ ended' = ended \cup (Stored \ kept)
    BY ConstantsAssumption DEF TypeOK, Stored, Keep

\* Renewing a token that is stored changes what it has left and nothing else.
LEMMA RenewedIsStored ==
    ASSUME TypeOK, NEW token \in Stored,
           remaining' = [remaining EXCEPT ![token] = Timeout]
    PROVE  /\ remaining' \in [Tokens -> 0..Timeout \cup {None}]
           /\ Stored' = Stored
           /\ remaining'[token] = Timeout
           /\ \A other \in Stored \ {token} : remaining'[other] = remaining[other]
    BY ConstantsAssumption DEF TypeOK, Stored

\* The store after a login holds the new token and what was not evicted.
LEMMA LoginAdds ==
    ASSUME TypeOK, NEW new \in Fresh, NEW evicted \in SUBSET Live,
           remaining' = [t \in Tokens |-> IF t = new THEN Timeout
                                          ELSE IF t \in Live \ evicted THEN remaining[t]
                                          ELSE None]
    PROVE  /\ remaining' \in [Tokens -> 0..Timeout \cup {None}]
           /\ Stored' = (Live \ evicted) \cup {new}
           /\ remaining'[new] = Timeout
           /\ \A token \in Live \ evicted : remaining'[token] = remaining[token]
    BY ConstantsAssumption DEF TypeOK, Stored, Live, Fresh

\* Time drops nothing from the store.
LEMMA PassingKeeps ==
    ASSUME TypeOK, Pass
    PROVE  /\ remaining' \in [Tokens -> 0..Timeout \cup {None}]
           /\ Stored' = Stored
           /\ \A token \in Live : remaining'[token] = remaining[token] - 1
           /\ \A token \in Stored \ Live : remaining'[token] = 0
    BY ConstantsAssumption DEF TypeOK, Stored, Live, Pass

-----------------------------------------------------------------------------
\* The types hold at the start.
LEMMA InitType == Init => TypeOK
    BY ConstantsAssumption DEF Init, TypeOK

\* Every step keeps the types.
LEMMA NextType == TypeOK /\ [Next]_vars => TypeOK'
<1> SUFFICES ASSUME TypeOK, [Next]_vars PROVE TypeOK'
    OBVIOUS
<1> USE ConstantsAssumption
<1>1. CASE Pass
    BY <1>1, PassingKeeps DEF Pass, TypeOK
<1>2. ASSUME NEW new \in Tokens, Login(new) PROVE TypeOK'
  <2>1. PICK evicted \in SUBSET Live :
            /\ remaining' = [t \in Tokens |-> IF t = new THEN Timeout
                                              ELSE IF t \in Live \ evicted THEN remaining[t]
                                              ELSE None]
            /\ ended' = ended \cup (Stored \ (Live \ evicted))
    BY <1>2 DEF Login
  <2>2. remaining' \in [Tokens -> 0..Timeout \cup {None}]
    BY <1>2, <2>1, LoginAdds DEF Login
  <2>3. ended' \subseteq Tokens
    BY <2>1 DEF TypeOK, Stored
  <2> QED
    BY <1>2, <2>2, <2>3 DEF Login, TypeOK
<1>3. ASSUME NEW token \in Tokens, Logout(token) PROVE TypeOK'
    BY <1>3, KeptIsAsBefore DEF Logout, TypeOK
<1>4. ASSUME NEW r \in Requests, NEW token \in Tokens, Begin(r, token) PROVE TypeOK'
    BY <1>4, KeptIsAsBefore DEF Begin, Validated, TypeOK
<1>5. ASSUME NEW r \in Requests, Fail(r) PROVE TypeOK'
    BY <1>5 DEF Fail, TypeOK
<1>6. ASSUME NEW r \in Requests, Succeed(r) PROVE TypeOK'
  <2>1. CASE request[r] \in Live
    BY <1>6, <2>1, RenewedIsStored, StoredHasTime DEF Succeed, TypeOK
  <2>2. CASE request[r] \notin Live
    BY <1>6, <2>2, KeptIsAsBefore DEF Succeed, Validated, TypeOK
  <2> QED BY <2>1, <2>2
<1>7. CASE Restart
    BY <1>7, KeptIsAsBefore DEF Restart, TypeOK
<1>8. CASE UNCHANGED vars
    BY <1>8 DEF vars, TypeOK
<1> QED
    BY <1>1, <1>2, <1>3, <1>4, <1>5, <1>6, <1>7, <1>8 DEF Next

\* Every variable keeps its type: what is stored never has more than the timeout left.
THEOREM TypeCorrect == Spec => []TypeOK
<1>1. Init => TypeOK BY InitType
<1>2. TypeOK /\ [Next]_vars => TypeOK' BY NextType
<1> QED BY <1>1, <1>2, PTL DEF Spec

-----------------------------------------------------------------------------
\* A smaller store is finite and bounded if the larger one is.
LEMMA SmallerIsBounded ==
    ASSUME IsFiniteSet(Stored), Cardinality(Stored) <= MaxSessions, NEW S \in SUBSET Stored
    PROVE  /\ IsFiniteSet(S)
           /\ Cardinality(S) \in Nat
           /\ Cardinality(S) <= MaxSessions
<1>1. IsFiniteSet(S) /\ Cardinality(S) <= Cardinality(Stored)
    BY FS_Subset
<1>2. Cardinality(S) \in Nat /\ Cardinality(Stored) \in Nat
    BY <1>1, FS_CardinalityType
<1> QED
    BY <1>1, <1>2, ConstantsAssumption

\* Dropping tokens keeps the invariant.
LEMMA KeepInv ==
    ASSUME TypeOK, IInv, NEW kept \in SUBSET Stored, Keep(kept), UNCHANGED idle
    PROVE  IInv'
<1>1. Stored' = kept /\ ended' = ended \cup (Stored \ kept)
    BY KeptIsAsBefore
<1>2. \A token \in kept : remaining'[token] = remaining[token]
    BY KeptIsAsBefore
<1>3. EndedIsOver'
    BY <1>1 DEF EndedIsOver, IInv
<1>4. TimesAddUp'
    BY <1>1, <1>2 DEF TimesAddUp, IInv
<1>5. StoreIsFinite' /\ StoreIsBounded'
    BY <1>1, SmallerIsBounded DEF StoreIsFinite, StoreIsBounded, IInv
<1> QED BY <1>3, <1>4, <1>5 DEF IInv

\* With a login, the store is at most full: either there was room, or all but
\* MaxSessions - 1 sessions were evicted.
LEMMA LoginInv ==
    ASSUME TypeOK, IInv, NEW new \in Tokens, Login(new)
    PROVE  IInv'
<1> USE ConstantsAssumption
<1>1. PICK evicted \in SUBSET Live :
        /\ Evicts(evicted)
        /\ remaining' = [t \in Tokens |-> IF t = new THEN Timeout
                                          ELSE IF t \in Live \ evicted THEN remaining[t]
                                          ELSE None]
        /\ ended' = ended \cup (Stored \ (Live \ evicted))
    BY DEF Login
<1>2. new \in Fresh /\ idle' = [idle EXCEPT ![new] = 0]
    BY DEF Login
<1>3. /\ Stored' = (Live \ evicted) \cup {new}
      /\ remaining'[new] = Timeout
      /\ \A token \in Live \ evicted : remaining'[token] = remaining[token]
    BY <1>1, <1>2, LoginAdds
<1>4. new \notin Stored /\ new \notin ended
    BY <1>2 DEF Fresh
<1>5. Live \subseteq Stored /\ Stored \subseteq Tokens
    BY StoredHasTime
<1>6. EndedIsOver'
    BY <1>1, <1>3, <1>4, <1>5 DEF EndedIsOver, IInv
<1>7. TimesAddUp'
  <2>1. idle'[new] = 0 /\ \A token \in Tokens \ {new} : idle'[token] = idle[token]
    BY <1>2 DEF TypeOK
  <2>2. \A token \in Live \ evicted : remaining[token] + idle[token] <= Timeout
    BY <1>5 DEF TimesAddUp, IInv
  <2> QED
    BY <1>3, <1>4, <1>5, <2>1, <2>2 DEF TimesAddUp
<1>8. StoreIsFinite' /\ StoreIsBounded'
  <2>1. IsFiniteSet(Live \ evicted) /\ Cardinality(Live \ evicted) \in Nat
    BY <1>5, SmallerIsBounded DEF StoreIsFinite, StoreIsBounded, IInv
  <2>2. IsFiniteSet(Live) /\ Cardinality(Live) \in Nat
    BY <1>5, SmallerIsBounded DEF StoreIsFinite, StoreIsBounded, IInv
  <2>3. Cardinality(Live \ evicted) <= MaxSessions - 1
    <3>1. CASE Cardinality(Live) < MaxSessions
      <4>1. Live \ evicted = Live
        BY <1>1, <3>1 DEF Evicts
      <4> QED BY <2>2, <3>1, <4>1
    <3>2. CASE ~(Cardinality(Live) < MaxSessions)
      BY <1>1, <3>2 DEF Evicts
    <3> QED BY <3>1, <3>2
  <2>4. /\ IsFiniteSet((Live \ evicted) \cup {new})
        /\ Cardinality((Live \ evicted) \cup {new}) = Cardinality(Live \ evicted) + 1
    BY <2>1, <1>4, <1>5, FS_AddElement
  <2> QED
    BY <1>3, <2>1, <2>3, <2>4 DEF StoreIsFinite, StoreIsBounded
<1> QED BY <1>6, <1>7, <1>8 DEF IInv

\* Nothing is stored at the start.
LEMMA InitInv == Init => IInv
<1> SUFFICES ASSUME Init PROVE IInv
    OBVIOUS
<1>1. Stored = {}
    BY DEF Init, Stored
<1>2. IsFiniteSet({}) /\ Cardinality({}) = 0
    BY FS_EmptySet
<1> QED
    BY <1>1, <1>2, ConstantsAssumption
    DEF IInv, EndedIsOver, TimesAddUp, StoreIsFinite, StoreIsBounded

\* Every step keeps the invariant.
LEMMA NextInv == TypeOK /\ IInv /\ [Next]_vars => IInv'
<1> SUFFICES ASSUME TypeOK, IInv, [Next]_vars PROVE IInv'
    OBVIOUS
<1> USE ConstantsAssumption
<1>1. CASE Pass
  <2>1. Stored' = Stored /\ ended' = ended
    BY <1>1, PassingKeeps DEF Pass
  <2>2. TimesAddUp'
    <3> SUFFICES ASSUME NEW token \in Stored PROVE remaining'[token] + idle'[token] <= Timeout
      BY <2>1 DEF TimesAddUp
    <3>1. /\ token \in Tokens
          /\ remaining[token] \in 0..Timeout
          /\ remaining[token] + idle[token] <= Timeout
      BY StoredHasTime DEF TimesAddUp, IInv
    <3>2. /\ idle[token] \in 0..Timeout
          /\ idle'[token] \in 0..Timeout
          /\ idle'[token] <= idle[token] + 1
      BY <1>1, <3>1 DEF Pass, TypeOK
    <3>3. CASE token \in Live
      BY <1>1, <3>1, <3>2, <3>3, PassingKeeps
    <3>4. CASE token \notin Live
      BY <1>1, <3>1, <3>2, <3>4, PassingKeeps
    <3> QED BY <3>3, <3>4
  <2> QED
    BY <2>1, <2>2 DEF IInv, EndedIsOver, StoreIsFinite, StoreIsBounded
<1>2. ASSUME NEW new \in Tokens, Login(new) PROVE IInv'
    BY <1>2, LoginInv
<1>3. ASSUME NEW token \in Tokens, Logout(token) PROVE IInv'
    BY <1>3, KeepInv DEF Logout
<1>4. ASSUME NEW r \in Requests, NEW token \in Tokens, Begin(r, token) PROVE IInv'
    BY <1>4, KeepInv DEF Begin, Validated
<1>5. ASSUME NEW r \in Requests, Fail(r) PROVE IInv'
    BY <1>5 DEF Fail, IInv, EndedIsOver, TimesAddUp, StoreIsFinite, StoreIsBounded, Stored
<1>6. ASSUME NEW r \in Requests, Succeed(r) PROVE IInv'
  <2>1. CASE request[r] \in Live
    <3>1. /\ remaining' = [remaining EXCEPT ![request[r]] = Timeout]
          /\ idle' = [idle EXCEPT ![request[r]] = 0]
          /\ ended' = ended
      BY <1>6, <2>1 DEF Succeed
    <3>2. request[r] \in Stored /\ Stored \subseteq Tokens
      BY <2>1, StoredHasTime
    <3>3. /\ Stored' = Stored
          /\ remaining'[request[r]] = Timeout
          /\ \A other \in Stored \ {request[r]} : remaining'[other] = remaining[other]
      BY <3>1, <3>2, RenewedIsStored
    <3>4. TimesAddUp'
      <4>1. /\ idle'[request[r]] = 0
            /\ \A other \in Stored \ {request[r]} : idle'[other] = idle[other]
        BY <3>1, <3>2 DEF TypeOK
      <4> QED
        BY <3>3, <4>1 DEF TimesAddUp, IInv
    <3> QED
      BY <3>1, <3>3, <3>4 DEF IInv, EndedIsOver, StoreIsFinite, StoreIsBounded
  <2>2. CASE request[r] \notin Live
    BY <1>6, <2>2, KeepInv DEF Succeed, Validated
  <2> QED BY <2>1, <2>2
<1>7. CASE Restart
    BY <1>7, KeepInv DEF Restart
<1>8. CASE UNCHANGED vars
    BY <1>8 DEF vars, IInv, EndedIsOver, TimesAddUp, StoreIsFinite, StoreIsBounded, Stored
<1> QED
    BY <1>1, <1>2, <1>3, <1>4, <1>5, <1>6, <1>7, <1>8 DEF Next

\* The inductive invariant: what has ended is not stored, what a token has left and
\* what it has been idle make up at most the timeout, and the store is bounded.
THEOREM Invariance == Spec => [](TypeOK /\ IInv)
<1>1. Init => TypeOK /\ IInv BY InitType, InitInv
<1>2. TypeOK /\ IInv /\ [Next]_vars => (TypeOK /\ IInv)' BY NextType, NextInv
<1> QED BY <1>1, <1>2, PTL DEF Spec

\* A session that was revoked, evicted, or found expired is never valid again, however
\* many privileged requests that began with it are done later.
THEOREM RevokedForGood == Spec => []EndedIsOver
<1>1. IInv => EndedIsOver BY DEF IInv
<1> QED BY <1>1, Invariance, PTL

\* A session that has not been used for the timeout is not valid.
THEOREM IdleSessionsExpire == Spec => []IdleExpires
<1>1. TypeOK /\ IInv => IdleExpires
  <2> SUFFICES ASSUME TypeOK, IInv, NEW token \in Live PROVE idle[token] < Timeout
    BY DEF IdleExpires
  <2>1. /\ token \in Stored /\ token \in Tokens
        /\ remaining[token] \in 0..Timeout /\ remaining[token] > 0
    BY StoredHasTime DEF Live
  <2> QED
    BY <2>1, ConstantsAssumption DEF TimesAddUp, IInv, TypeOK
<1> QED BY <1>1, Invariance, PTL

\* The store never holds more than max_sessions tokens.
THEOREM StoreStaysBounded == Spec => []StoreIsBounded
<1>1. IInv => StoreIsBounded BY DEF IInv
<1> QED BY <1>1, Invariance, PTL

\* A login ends another session only for want of room, and never one that would have
\* outlived one it keeps.
THEOREM LoginsEvictTheLeast == Spec => EvictsTheLeast
<1> DEFINE Fair == \A new \in Stored' \ Stored, token \in Live \ Stored' :
                    /\ Cardinality(Live) >= MaxSessions
                    /\ \A other \in Live \cap Stored' : remaining[token] <= remaining[other]
<1>1. TypeOK /\ IInv /\ [Next]_vars => [Fair]_vars
  <2> SUFFICES ASSUME TypeOK, IInv, Next,
                      NEW new \in Stored' \ Stored, NEW token \in Live \ Stored'
               PROVE  /\ Cardinality(Live) >= MaxSessions
                      /\ \A other \in Live \cap Stored' : remaining[token] <= remaining[other]
    OBVIOUS
  <2> HIDE DEF Fair
  <2>1. PICK login \in Tokens : Login(login)
    <3>1. ASSUME NEW kept \in SUBSET Stored, Keep(kept) PROVE FALSE
      BY <3>1, KeptIsAsBefore
    <3>2. ASSUME NEW t \in Tokens, Logout(t) PROVE FALSE
      BY <3>1, <3>2 DEF Logout
    <3>3. ASSUME NEW r \in Requests, NEW t \in Tokens, Begin(r, t) PROVE FALSE
      BY <3>1, <3>3 DEF Begin, Validated
    <3>4. ASSUME NEW r \in Requests, Fail(r) PROVE FALSE
      BY <3>4 DEF Fail, Stored
    <3>5. ASSUME NEW r \in Requests, Succeed(r) PROVE FALSE
      <4>1. CASE request[r] \in Live
        BY <3>5, <4>1, StoredHasTime, RenewedIsStored DEF Succeed
      <4>2. CASE request[r] \notin Live
        BY <3>1, <3>5, <4>2 DEF Succeed, Validated
      <4> QED BY <4>1, <4>2
    <3>6. CASE Restart
      BY <3>1, <3>6 DEF Restart
    <3>7. CASE Pass
      BY <3>7, PassingKeeps
    <3> QED
      BY <3>2, <3>3, <3>4, <3>5, <3>6, <3>7 DEF Next
  <2>2. PICK evicted \in SUBSET Live :
            /\ Evicts(evicted)
            /\ remaining' = [t \in Tokens |-> IF t = login THEN Timeout
                                              ELSE IF t \in Live \ evicted THEN remaining[t]
                                              ELSE None]
    BY <2>1 DEF Login
  <2>3. login \in Fresh /\ login \notin Live
    BY <2>1, StoredHasTime DEF Login, Fresh
  <2>4. Stored' = (Live \ evicted) \cup {login}
    BY <2>2, <2>3, LoginAdds
  <2>5. token \in evicted
    BY <2>4
  <2>6. Cardinality(Live) >= MaxSessions
    <3>1. Cardinality(Live) \in Nat
      BY StoredHasTime, SmallerIsBounded DEF StoreIsFinite, StoreIsBounded, IInv
    <3>2. ~(Cardinality(Live) < MaxSessions)
      BY <2>2, <2>5 DEF Evicts
    <3> QED BY <3>1, <3>2, ConstantsAssumption
  <2>7. ASSUME NEW other \in Live \cap Stored' PROVE remaining[token] <= remaining[other]
    BY <2>2, <2>3, <2>4, <2>5, <2>7 DEF Evicts
  <2> QED BY <2>6, <2>7
<1>2. Spec => [][Fair]_vars
    BY <1>1, Invariance, PTL DEF Spec
<1> QED BY <1>2 DEF EvictsTheLeast
=============================================================================
