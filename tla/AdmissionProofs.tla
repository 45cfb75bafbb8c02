-------------------------- MODULE AdmissionProofs --------------------------
(***************************************************************************)
(* What holds of admission for any number of requests, addresses, keys and *)
(* settings.  The counters are exact because every step either leaves the  *)
(* set of counted requests and the counters alone, or adds one request, or *)
(* removes one (CountedStep); everything else follows from that.           *)
(***************************************************************************)
EXTENDS Admission, FiniteSetTheorems, TLAPS

\* The session table holds exactly the sessions being served.
TableExact == live = {r \in Requests : pc[r] = "serving"}

Granted(r) ==
  /\ r \notin Counted /\ Counted' = Counted \union {r}
  /\ ~Full(snap[r], r)
  /\ perIP' = [perIP EXCEPT ![IPOf[r]] = @ + 1]
  /\ perKey' = [perKey EXCEPT ![KeyOf[r]] = @ + 1]

Returned(r) ==
  /\ r \in Counted /\ Counted' = Counted \ {r}
  /\ perIP' = IF IPOf[r] # NoIP /\ perIP[IPOf[r]] > 0
              THEN [perIP EXCEPT ![IPOf[r]] = @ - 1] ELSE perIP
  /\ perKey' = IF KeyOf[r] # NoKey /\ perKey[KeyOf[r]] > 0
               THEN [perKey EXCEPT ![KeyOf[r]] = @ - 1] ELSE perKey

Kept == Counted' = Counted /\ perIP' = perIP /\ perKey' = perKey

-----------------------------------------------------------------------------
\* No settings yet are settings.
LEMMA UnsetType == Unset \in Settings
  BY SettingsAssumption DEF Unset

(***************************************************************************)
(* Type correctness: positions, copies of the settings and counters stay   *)
(* in range; no counter becomes negative whatever Unregister is given.     *)
(***************************************************************************)
THEOREM TypeCorrect == Spec => []TypeOK
<1>1. Init => TypeOK
  BY UnsetType DEF Init, TypeOK, Positions
<1>2. TypeOK /\ [Next]_vars => TypeOK'
  <2> SUFFICES ASSUME TypeOK, [Next]_vars PROVE TypeOK'
    OBVIOUS
  <2> USE DEF TypeOK, Goto
  <2>1. CASE UNCHANGED vars
    BY <2>1 DEF vars
  <2>2. CASE Reconfigure
    BY <2>2 DEF Reconfigure
  <2>3. ASSUME NEW r \in Requests,
               Arrive(r) \/ Disconnect(r) \/ Handler(r) \/ Unregister(r)
        PROVE  TypeOK'
    <3>1. CASE Arrive(r)
      BY <3>1 DEF Arrive, Positions
    <3>2. CASE Disconnect(r)
      BY <3>2 DEF Disconnect
    <3>3. CASE ReadSettings(r)
      BY <3>3 DEF ReadSettings, Positions
    <3>4. CASE Admit(r)
      <4>1. IPOf[r] \in IPs /\ KeyOf[r] \in Keys
        BY RequestsAssumption
      <4>2. (perIP \in [IPs -> Nat])' /\ (perKey \in [Keys -> Nat])'
        BY <3>4, <4>1 DEF Admit
      <4>3. (pc \in [Requests -> Positions])' /\ (snap \in [Requests -> Settings])'
        BY <3>4, UnsetType DEF Admit, Positions
      <4> QED
        BY <3>4, <4>2, <4>3 DEF Admit
    <3>5. CASE Overload(r)
      BY <3>5, UnsetType DEF Overload, Positions
    <3>6. CASE PollAgain(r)
      BY <3>6, UnsetType DEF PollAgain, Positions
    <3>7. CASE QueueTimeout(r)
      BY <3>7 DEF QueueTimeout, Positions
    <3>8. CASE HangUp(r)
      BY <3>8 DEF HangUp, Positions
    <3>9. CASE ImmediateError(r)
      BY <3>9 DEF ImmediateError, Positions
    <3>10. CASE Register(r)
      BY <3>10 DEF Register, Positions
    <3>11. CASE Unregister(r)
      <4>1. IPOf[r] \in IPs /\ KeyOf[r] \in Keys
        BY RequestsAssumption
      <4>2. (perIP \in [IPs -> Nat])'
        BY <3>11, <4>1 DEF Unregister
      <4>3. (perKey \in [Keys -> Nat])'
        BY <3>11, <4>1 DEF Unregister
      <4> QED
        BY <3>11, <4>2, <4>3 DEF Unregister, Positions
    <3> QED
      BY <2>3, <3>1, <3>2, <3>3, <3>4, <3>5, <3>6, <3>7, <3>8, <3>9, <3>10, <3>11
      DEF Handler
  <2> QED
    BY <2>1, <2>2, <2>3 DEF Next
<1> QED
  BY <1>1, <1>2, PTL DEF Spec

-----------------------------------------------------------------------------
\* What a step does to the slots and to the table.
LEMMA CountedStep ==
  ASSUME TypeOK, TypeOK', TableExact, [Next]_vars
  PROVE  /\ TableExact'
         /\ Kept \/ \E r \in Requests : Granted(r) \/ Returned(r)
<1> USE DEF TypeOK, TableExact, Goto, Counted
<1>1. CASE UNCHANGED vars
  BY <1>1 DEF vars, Kept
<1>2. CASE Reconfigure
  BY <1>2 DEF Reconfigure, Kept
<1>3. ASSUME NEW r \in Requests,
             Arrive(r) \/ Disconnect(r) \/ Handler(r) \/ Unregister(r)
      PROVE  /\ TableExact'
             /\ Kept \/ \E q \in Requests : Granted(q) \/ Returned(q)
  <2>1. CASE Arrive(r)
    BY <2>1 DEF Arrive, Kept
  <2>2. CASE Disconnect(r)
    BY <2>2 DEF Disconnect, Kept
  <2>3. CASE ReadSettings(r)
    BY <2>3 DEF ReadSettings, Kept
  <2>4. CASE Admit(r)
    <3>1. TableExact'
      BY <2>4 DEF Admit
    <3>2. r \notin Counted /\ Counted' = Counted \union {r}
      BY <2>4 DEF Admit
    <3> QED
      BY <2>4, <3>1, <3>2 DEF Admit, Granted
  <2>5. CASE Overload(r)
    BY <2>5 DEF Overload, Kept
  <2>6. CASE PollAgain(r)
    BY <2>6 DEF PollAgain, Kept
  <2>7. CASE QueueTimeout(r)
    BY <2>7 DEF QueueTimeout, Kept
  <2>8. CASE HangUp(r)
    BY <2>8 DEF HangUp, Kept
  <2>9. CASE ImmediateError(r)
    BY <2>9 DEF ImmediateError, Kept
  <2>10. CASE Register(r)
    BY <2>10 DEF Register, Kept
  <2>11. CASE Unregister(r)
    <3>1. TableExact'
      BY <2>11 DEF Unregister
    <3>2. r \in Counted /\ Counted' = Counted \ {r}
      BY <2>11 DEF Unregister
    <3> QED
      BY <2>11, <3>1, <3>2 DEF Unregister, Returned
  <2> QED
    BY <1>3, <2>1, <2>2, <2>3, <2>4, <2>5, <2>6, <2>7, <2>8, <2>9, <2>10, <2>11
    DEF Handler
<1> QED
  BY <1>1, <1>2, <1>3 DEF Next

-----------------------------------------------------------------------------
\* One element more or less, counted within a group.
LEMMA CardinalityType ==
  ASSUME NEW S, NEW G, IsFiniteSet(S)
  PROVE  IsFiniteSet(S \intersect G) /\ Cardinality(S \intersect G) \in Nat
  BY FS_Intersection, FS_CardinalityType

\* Counting: a set that gains a member, and those of G in it.
LEMMA OneMore ==
  ASSUME NEW S, NEW G, NEW r, r \notin S, IsFiniteSet(S)
  PROVE  /\ IsFiniteSet(S \union {r})
         /\ Cardinality((S \union {r}) \intersect G)
              = IF r \in G THEN Cardinality(S \intersect G) + 1 ELSE Cardinality(S \intersect G)
<1>1. IsFiniteSet(S \union {r})
  BY FS_AddElement
<1>2. IsFiniteSet(S \intersect G) /\ Cardinality(S \intersect G) \in Nat
  BY CardinalityType
<1>3. CASE r \in G
  <2>1. (S \union {r}) \intersect G = (S \intersect G) \union {r}
    BY <1>3
  <2>2. Cardinality((S \intersect G) \union {r}) = Cardinality(S \intersect G) + 1
    BY <1>2, FS_AddElement
  <2> QED
    BY <1>1, <1>3, <2>1, <2>2
<1>4. CASE r \notin G
  <2>1. (S \union {r}) \intersect G = S \intersect G
    BY <1>4
  <2> QED
    BY <1>1, <1>2, <1>4, <2>1
<1> QED
  BY <1>3, <1>4

\* Counting: a set that loses a member, and those of G in it.
LEMMA OneLess ==
  ASSUME NEW S, NEW G, NEW r \in S, IsFiniteSet(S)
  PROVE  /\ IsFiniteSet(S \ {r})
         /\ Cardinality((S \ {r}) \intersect G)
              = IF r \in G THEN Cardinality(S \intersect G) - 1 ELSE Cardinality(S \intersect G)
         /\ r \in G => Cardinality(S \intersect G) > 0
<1>1. IsFiniteSet(S \ {r})
  BY FS_RemoveElement
<1>2. IsFiniteSet(S \intersect G) /\ Cardinality(S \intersect G) \in Nat
  BY CardinalityType
<1>3. CASE r \in G
  <2>1. (S \ {r}) \intersect G = (S \intersect G) \ {r}
    OBVIOUS
  <2>2. Cardinality((S \intersect G) \ {r}) = Cardinality(S \intersect G) - 1
    BY <1>2, <1>3, FS_RemoveElement
  <2>3. Cardinality(S \intersect G) # 0
    BY <1>2, <1>3, FS_EmptySet
  <2> QED
    BY <1>1, <1>2, <1>3, <2>1, <2>2, <2>3
<1>4. CASE r \notin G
  <2>1. (S \ {r}) \intersect G = S \intersect G
    BY <1>4
  <2> QED
    BY <1>1, <1>2, <1>4, <2>1
<1> QED
  BY <1>3, <1>4

-----------------------------------------------------------------------------
\* The limits, for slots instead of sessions: an inductive form of IPLimit
\* and KeyLimitHolds, since a slot is counted before its session is seen.
IPBound ==
  \A i \in IPs \ {NoIP} : \A n \in {s.maxPerIP : s \in Settings} :
    (\A s \in Settings : 0 < s.maxPerIP /\ s.maxPerIP <= n)
      => Cardinality(Counted \intersect From(i)) <= n

KeyBound ==
  \A k \in Keys \ {NoKey} : \A n \in {KeyLimit(s, k) : s \in Settings} :
    (\A s \in Settings : 0 < KeyLimit(s, k) /\ KeyLimit(s, k) <= n)
      => Cardinality(Counted \intersect Using(k)) <= n

SlotInv ==
  /\ TypeOK /\ TableExact /\ IsFiniteSet(Counted)
  /\ CountersExact /\ IPBound /\ KeyBound

\* At first nothing is counted.
LEMMA SlotInit == Init => SlotInv
<1> SUFFICES ASSUME Init PROVE SlotInv
  OBVIOUS
<1>1. TypeOK
  BY UnsetType DEF Init, TypeOK, Positions
<1>2. TableExact
  BY DEF Init, TableExact
<1>3. Counted = {}
  BY DEF Init, Counted
<1>4. IsFiniteSet(Counted) /\ \A G : Cardinality(Counted \intersect G) = 0
  BY <1>3, FS_EmptySet
<1>5. CountersExact
  BY <1>4 DEF Init, CountersExact
<1>6. IPBound
  BY <1>4, SettingsAssumption DEF IPBound
<1>7. KeyBound
  BY <1>4, SettingsAssumption, RequestsAssumption DEF KeyBound, KeyLimit
<1> QED
  BY <1>1, <1>2, <1>4, <1>5, <1>6, <1>7 DEF SlotInv

\* A granted slot: the counters go up with the set, and the limit that was
\* tested leaves room for one more.
LEMMA GrantedStep ==
  ASSUME SlotInv, NEW r \in Requests, Granted(r)
  PROVE  IsFiniteSet(Counted)' /\ CountersExact' /\ IPBound' /\ KeyBound'
<1>1. /\ r \notin Counted /\ Counted' = Counted \union {r} /\ IsFiniteSet(Counted)
      /\ IPOf[r] \in IPs /\ KeyOf[r] \in Keys /\ snap[r] \in Settings
  BY RequestsAssumption DEF SlotInv, Granted, TypeOK
<1>2. IsFiniteSet(Counted)'
  BY <1>1, OneMore
<1>3. ASSUME NEW i \in IPs \ {NoIP}
      PROVE  /\ perIP'[i] = Cardinality(Counted' \intersect From(i))
             /\ \A n \in {s.maxPerIP : s \in Settings} :
                  (\A s \in Settings : 0 < s.maxPerIP /\ s.maxPerIP <= n)
                    => Cardinality(Counted' \intersect From(i)) <= n
  <2>1. /\ perIP[i] = Cardinality(Counted \intersect From(i))
        /\ perIP[i] \in Nat
        /\ Cardinality(Counted' \intersect From(i))
             = IF r \in From(i) THEN perIP[i] + 1 ELSE perIP[i]
    BY <1>1, OneMore DEF SlotInv, CountersExact, TypeOK
  <2>2. perIP'[i] = IF IPOf[r] = i THEN perIP[i] + 1 ELSE perIP[i]
    BY <1>1 DEF Granted, SlotInv, TypeOK
  <2>3. perIP'[i] = Cardinality(Counted' \intersect From(i))
    BY <2>1, <2>2 DEF From
  <2>4. ASSUME NEW n \in {s.maxPerIP : s \in Settings},
               \A s \in Settings : 0 < s.maxPerIP /\ s.maxPerIP <= n
        PROVE  perIP'[i] <= n
    <3>1. perIP[i] <= n
      BY <2>1, <2>4 DEF SlotInv, IPBound
    <3>2. CASE IPOf[r] = i
      <4>1. snap[r].maxPerIP \in Nat /\ n \in Nat
        BY <1>1, SettingsAssumption
      <4>2. 0 < snap[r].maxPerIP /\ snap[r].maxPerIP <= n
        BY <1>1, <2>4
      <4>3. ~(perIP[i] >= snap[r].maxPerIP)
        BY <3>2, <4>1, <4>2 DEF Granted, Full
      <4> QED
        BY <2>1, <2>2, <3>2, <4>1, <4>2, <4>3
    <3> QED
      BY <2>2, <3>1, <3>2
  <2> QED
    BY <2>3, <2>4
<1>4. ASSUME NEW k \in Keys \ {NoKey}
      PROVE  /\ perKey'[k] = Cardinality(Counted' \intersect Using(k))
             /\ \A n \in {KeyLimit(s, k) : s \in Settings} :
                  (\A s \in Settings : 0 < KeyLimit(s, k) /\ KeyLimit(s, k) <= n)
                    => Cardinality(Counted' \intersect Using(k)) <= n
  <2>1. /\ perKey[k] = Cardinality(Counted \intersect Using(k))
        /\ perKey[k] \in Nat
        /\ Cardinality(Counted' \intersect Using(k))
             = IF r \in Using(k) THEN perKey[k] + 1 ELSE perKey[k]
    BY <1>1, OneMore DEF SlotInv, CountersExact, TypeOK
  <2>2. perKey'[k] = IF KeyOf[r] = k THEN perKey[k] + 1 ELSE perKey[k]
    BY <1>1 DEF Granted, SlotInv, TypeOK
  <2>3. perKey'[k] = Cardinality(Counted' \intersect Using(k))
    BY <2>1, <2>2 DEF Using
  <2>4. ASSUME NEW n \in {KeyLimit(s, k) : s \in Settings},
               \A s \in Settings : 0 < KeyLimit(s, k) /\ KeyLimit(s, k) <= n
        PROVE  perKey'[k] <= n
    <3>1. perKey[k] <= n
      BY <2>1, <2>4 DEF SlotInv, KeyBound
    <3>2. CASE KeyOf[r] = k
      <4>1. KeyLimit(snap[r], k) \in Nat /\ n \in Nat
        BY <1>1, SettingsAssumption, RequestsAssumption DEF KeyLimit
      <4>2. 0 < KeyLimit(snap[r], k) /\ KeyLimit(snap[r], k) <= n
        BY <1>1, <2>4
      <4>3. ~(perKey[k] >= KeyLimit(snap[r], k))
        BY <3>2, <4>1, <4>2 DEF Granted, Full
      <4> QED
        BY <2>1, <2>2, <3>2, <4>1, <4>2, <4>3
    <3> QED
      BY <2>2, <3>1, <3>2
  <2> QED
    BY <2>3, <2>4
<1> QED
  BY <1>2, <1>3, <1>4 DEF CountersExact, IPBound, KeyBound, From, Using, KeyLimit

\* A returned slot: the counter was positive, so it does go down.
LEMMA ReturnedStep ==
  ASSUME SlotInv, NEW r \in Requests, Returned(r)
  PROVE  IsFiniteSet(Counted)' /\ CountersExact' /\ IPBound' /\ KeyBound'
<1>1. /\ r \in Counted /\ Counted' = Counted \ {r} /\ IsFiniteSet(Counted)
      /\ IPOf[r] \in IPs /\ KeyOf[r] \in Keys
  BY RequestsAssumption DEF SlotInv, Returned
<1>2. IsFiniteSet(Counted)'
  BY <1>1, OneLess
<1>3. ASSUME NEW i \in IPs \ {NoIP}
      PROVE  /\ perIP'[i] = Cardinality(Counted' \intersect From(i))
             /\ \A n \in {s.maxPerIP : s \in Settings} :
                  (\A s \in Settings : 0 < s.maxPerIP /\ s.maxPerIP <= n)
                    => Cardinality(Counted' \intersect From(i)) <= n
  <2> DEFINE G == From(i)
  <2>1. perIP[i] = Cardinality(Counted \intersect G) /\ perIP[i] \in Nat
    BY DEF SlotInv, CountersExact, TypeOK
  <2>2. /\ Cardinality(Counted' \intersect G)
             = IF r \in G THEN Cardinality(Counted \intersect G) - 1
                          ELSE Cardinality(Counted \intersect G)
        /\ r \in G => Cardinality(Counted \intersect G) > 0
    <3> HIDE DEF G
    <3> QED
      BY <1>1, OneLess
  <2>3. /\ perIP[i] = Cardinality(Counted \intersect From(i)) /\ perIP[i] \in Nat
        /\ Cardinality(Counted' \intersect From(i))
             = IF r \in From(i) THEN perIP[i] - 1 ELSE perIP[i]
        /\ r \in From(i) => perIP[i] > 0
    BY <2>1, <2>2
  <2>4. perIP'[i] = IF IPOf[r] = i THEN perIP[i] - 1 ELSE perIP[i]
    BY <1>1, <2>3 DEF Returned, SlotInv, TypeOK, From
  <2>5. perIP'[i] = Cardinality(Counted' \intersect From(i)) /\ perIP'[i] <= perIP[i]
    BY <2>3, <2>4 DEF From
  <2>6. ASSUME NEW n \in {s.maxPerIP : s \in Settings},
               \A s \in Settings : 0 < s.maxPerIP /\ s.maxPerIP <= n
        PROVE  Cardinality(Counted' \intersect From(i)) <= n
    <3>1. perIP[i] <= n /\ n \in Nat
      BY <2>3, <2>6, SettingsAssumption DEF SlotInv, IPBound
    <3> QED
      BY <2>3, <2>4, <2>5, <3>1
  <2> QED
    BY <2>5, <2>6
<1>4. ASSUME NEW k \in Keys \ {NoKey}
      PROVE  /\ perKey'[k] = Cardinality(Counted' \intersect Using(k))
             /\ \A n \in {KeyLimit(s, k) : s \in Settings} :
                  (\A s \in Settings : 0 < KeyLimit(s, k) /\ KeyLimit(s, k) <= n)
                    => Cardinality(Counted' \intersect Using(k)) <= n
  <2> DEFINE G == Using(k)
  <2>1. perKey[k] = Cardinality(Counted \intersect G) /\ perKey[k] \in Nat
    BY DEF SlotInv, CountersExact, TypeOK
  <2>2. /\ Cardinality(Counted' \intersect G)
             = IF r \in G THEN Cardinality(Counted \intersect G) - 1
                          ELSE Cardinality(Counted \intersect G)
        /\ r \in G => Cardinality(Counted \intersect G) > 0
    <3> HIDE DEF G
    <3> QED
      BY <1>1, OneLess
  <2>3. /\ perKey[k] = Cardinality(Counted \intersect Using(k)) /\ perKey[k] \in Nat
        /\ Cardinality(Counted' \intersect Using(k))
             = IF r \in Using(k) THEN perKey[k] - 1 ELSE perKey[k]
        /\ r \in Using(k) => perKey[k] > 0
    BY <2>1, <2>2
  <2>4. perKey'[k] = IF KeyOf[r] = k THEN perKey[k] - 1 ELSE perKey[k]
    BY <1>1, <2>3 DEF Returned, SlotInv, TypeOK, Using
  <2>5. perKey'[k] = Cardinality(Counted' \intersect Using(k)) /\ perKey'[k] <= perKey[k]
    BY <2>3, <2>4 DEF Using
  <2>6. ASSUME NEW n \in {KeyLimit(s, k) : s \in Settings},
               \A s \in Settings : 0 < KeyLimit(s, k) /\ KeyLimit(s, k) <= n
        PROVE  Cardinality(Counted' \intersect Using(k)) <= n
    <3>1. perKey[k] <= n
      BY <2>3, <2>6 DEF SlotInv, KeyBound
    <3>2. n \in Nat
      BY SettingsAssumption, RequestsAssumption DEF KeyLimit
    <3> QED
      BY <2>3, <2>4, <2>5, <3>1, <3>2
  <2> QED
    BY <2>5, <2>6
<1> QED
  BY <1>2, <1>3, <1>4 DEF CountersExact, IPBound, KeyBound, From, Using, KeyLimit

\* Every step keeps the counters exact and within their limits.
LEMMA SlotStep == SlotInv /\ TypeOK' /\ [Next]_vars => SlotInv'
<1> SUFFICES ASSUME SlotInv, TypeOK', [Next]_vars PROVE SlotInv'
  OBVIOUS
<1>1. TableExact' /\ (Kept \/ \E r \in Requests : Granted(r) \/ Returned(r))
  BY CountedStep DEF SlotInv
<1>2. CASE Kept
  <2>1. /\ IsFiniteSet(Counted)' /\ CountersExact' /\ IPBound' /\ KeyBound'
    BY <1>2 DEF Kept, SlotInv, CountersExact, IPBound, KeyBound, From, Using, KeyLimit
  <2> QED
    BY <1>1, <2>1 DEF SlotInv
<1>3. CASE \E r \in Requests : Granted(r) \/ Returned(r)
  BY <1>1, <1>3, GrantedStep, ReturnedStep DEF SlotInv
<1> QED
  BY <1>1, <1>2, <1>3

\* So they are always.
LEMMA SlotInvariant == Spec => []SlotInv
<1>1. Spec => []TypeOK
  BY TypeCorrect
<1> QED
  BY <1>1, SlotInit, SlotStep, PTL DEF Spec

(***************************************************************************)
(* The counters of Admit and Unregister are exact, for every address and   *)
(* every key: no interleaving of handlers and no change of settings makes  *)
(* them drift from the slots taken and not returned.                       *)
(***************************************************************************)
THEOREM CountersCorrect == Spec => []CountersExact
<1>1. SlotInv => CountersExact
  BY DEF SlotInv
<1> QED
  BY <1>1, SlotInvariant, PTL

(***************************************************************************)
(* The limit per address holds for the sessions that run.                  *)
(***************************************************************************)
THEOREM IPLimitCorrect == Spec => []IPLimit
<1>1. SlotInv => IPLimit
  <2> SUFFICES ASSUME SlotInv, NEW i \in IPs \ {NoIP},
                      NEW n \in {s.maxPerIP : s \in Settings},
                      \A s \in Settings : 0 < s.maxPerIP /\ s.maxPerIP <= n
               PROVE  Cardinality(live \intersect From(i)) <= n
    BY DEF IPLimit
  <2>1. IsFiniteSet(Counted \intersect From(i))
        /\ Cardinality(Counted \intersect From(i)) \in Nat
    BY CardinalityType DEF SlotInv
  <2>2. live \intersect From(i) \in SUBSET (Counted \intersect From(i))
    BY DEF SlotInv, TableExact, Counted
  <2>3. /\ IsFiniteSet(live \intersect From(i))
        /\ Cardinality(live \intersect From(i)) <= Cardinality(Counted \intersect From(i))
    BY <2>1, <2>2, FS_Subset
  <2>4. Cardinality(live \intersect From(i)) \in Nat /\ n \in Nat
    BY <2>3, FS_CardinalityType, SettingsAssumption
  <2>5. Cardinality(Counted \intersect From(i)) <= n
    BY DEF SlotInv, IPBound
  <2> QED
    BY <2>1, <2>3, <2>4, <2>5
<1> QED
  BY <1>1, SlotInvariant, PTL

(***************************************************************************)
(* The limit per key holds, where a key record's own maximum takes the     *)
(* place of the setting.                                                   *)
(***************************************************************************)
THEOREM KeyLimitCorrect == Spec => []KeyLimitHolds
<1>1. SlotInv => KeyLimitHolds
  <2> SUFFICES ASSUME SlotInv, NEW k \in Keys \ {NoKey},
                      NEW n \in {KeyLimit(s, k) : s \in Settings},
                      \A s \in Settings : 0 < KeyLimit(s, k) /\ KeyLimit(s, k) <= n
               PROVE  Cardinality(live \intersect Using(k)) <= n
    BY DEF KeyLimitHolds
  <2>1. IsFiniteSet(Counted \intersect Using(k))
        /\ Cardinality(Counted \intersect Using(k)) \in Nat
    BY CardinalityType DEF SlotInv
  <2>2. live \intersect Using(k) \in SUBSET (Counted \intersect Using(k))
    BY DEF SlotInv, TableExact, Counted
  <2>3. /\ IsFiniteSet(live \intersect Using(k))
        /\ Cardinality(live \intersect Using(k)) <= Cardinality(Counted \intersect Using(k))
    BY <2>1, <2>2, FS_Subset
  <2>4. Cardinality(live \intersect Using(k)) \in Nat /\ n \in Nat
    BY <2>3, FS_CardinalityType, SettingsAssumption, RequestsAssumption DEF KeyLimit
  <2>5. Cardinality(Counted \intersect Using(k)) <= n
    BY DEF SlotInv, KeyBound
  <2> QED
    BY <2>1, <2>3, <2>4, <2>5
<1> QED
  BY <1>1, SlotInvariant, PTL

(***************************************************************************)
(* Admission implements the abstract pool of slots: a granted slot fits    *)
(* under the settings its handler had read, although they may have changed *)
(* since, and nothing else moves.                                          *)
(***************************************************************************)
THEOREM AdmissionImplementsPool == Spec => ImplementsPool
<1>1. Init => Pool!Init
  BY DEF Init, Pool!Init, Counted
<1>2. SlotInv /\ TypeOK' /\ [Next]_vars => [Pool!Next]_Counted
  <2> SUFFICES ASSUME SlotInv, TypeOK', [Next]_vars PROVE [Pool!Next]_Counted
    OBVIOUS
  <2>1. Kept \/ \E r \in Requests : Granted(r) \/ Returned(r)
    BY CountedStep DEF SlotInv
  <2>2. CASE Kept
    BY <2>2 DEF Kept
  <2>3. ASSUME NEW r \in Requests, Granted(r) PROVE Pool!Acquire(r)
    <3>1. IPOf[r] \in IPs /\ KeyOf[r] \in Keys /\ snap[r] \in Settings
      BY RequestsAssumption DEF SlotInv, TypeOK
    <3>2. ~Full(snap[r], r)
      BY <2>3 DEF Granted
    <3>3. Pool!IPHolders(IPOf[r]) = Counted \intersect From(IPOf[r])
      BY DEF Pool!IPHolders, From, Counted
    <3>4. Pool!KeyHolders(KeyOf[r]) = Counted \intersect Using(KeyOf[r])
      BY DEF Pool!KeyHolders, Using, Counted
    <3>5. /\ IPOf[r] # NoIP => Cardinality(Pool!IPHolders(IPOf[r])) = perIP[IPOf[r]]
          /\ KeyOf[r] # NoKey => Cardinality(Pool!KeyHolders(KeyOf[r])) = perKey[KeyOf[r]]
      BY <3>1, <3>3, <3>4 DEF SlotInv, CountersExact
    <3>6. /\ perIP[IPOf[r]] \in Nat /\ perKey[KeyOf[r]] \in Nat
          /\ snap[r].maxPerIP \in Nat /\ KeyLimit(snap[r], KeyOf[r]) \in Nat
      BY <3>1, SettingsAssumption, RequestsAssumption DEF SlotInv, TypeOK, KeyLimit
    <3>7. Pool!KeyCap(snap[r], KeyOf[r]) = KeyLimit(snap[r], KeyOf[r])
      BY DEF Pool!KeyCap, KeyLimit
    <3>8. \A S : Pool!Cardinality(S) = Cardinality(S)
      BY DEF Pool!Cardinality, Cardinality
    <3>9. Pool!Fits(snap[r], r)
      BY <3>2, <3>5, <3>6, <3>7, <3>8 DEF Pool!Fits, Full
    <3> QED
      BY <2>3, <3>1, <3>9 DEF Granted, Pool!Acquire
  <2>4. ASSUME NEW r \in Requests, Returned(r) PROVE Pool!Release(r)
    BY <2>4 DEF Returned, Pool!Release
  <2> QED
    BY <2>1, <2>2, <2>3, <2>4 DEF Pool!Next
<1> QED
  BY <1>1, <1>2, TypeCorrect, SlotInvariant, PTL DEF Spec, ImplementsPool, Pool!Spec
=============================================================================
