------------------------- MODULE RateLimiterProofs -------------------------
(***************************************************************************)
(* What holds of the limiter for any number of sessions, any rates, any    *)
(* burst capacities and any schedule of reconfigurations.  The bound on    *)
(* bursts holds because the ideal bucket of the same name is never behind: *)
(* it holds at least what the real one could have refilled to at the       *)
(* largest rate (Ahead).                                                   *)
(***************************************************************************)
EXTENDS RateLimiter, TLAPS

\* Every configuration that limits has a burst capacity: "Off" is not used.
NoneOff == \A c \in SessionConfigs \union GlobalConfigs : c.rate > 0 => c.capacity > 0

BucketRecord == [rate : Nat, capacity : Nat, tokens : Nat, age : Nat]

\* A bucket as configure and newBucket leave it.
Configurable(b) ==
  /\ b \in BucketRecord
  /\ b.rate <= MaxRate /\ b.capacity <= Allowance
  /\ b.rate > 0 => b.capacity > 0

\* What a bucket could hold if all its ticks counted at the largest rate.
Potential(b) == Lesser(b.tokens + b.age * MaxRate, Allowance)

Ahead ==
  /\ bucket \in [Buckets -> BucketRecord]
  /\ need \in [Sessions -> Nat]
  /\ credit \in [Buckets -> Int]
  /\ \A k \in Buckets : Configurable(bucket[k]) /\ credit[k] >= Potential(bucket[k])

-----------------------------------------------------------------------------
\* A product of numbers is one.
LEMMA ProductType ==
  ASSUME NEW a \in Nat, NEW r \in Nat
  PROVE  a * r \in Nat
  OBVIOUS

\* A slower rate refills less.
LEMMA SlowerIsLess ==
  ASSUME NEW a \in Nat, NEW r \in Nat, NEW q \in Nat, r <= q
  PROVE  a * r <= a * q
  OBVIOUS

\* Fewer ticks refill less.
LEMMA SoonerIsLess ==
  ASSUME NEW a \in Nat, NEW b \in Nat, NEW r \in Nat, a <= b
  PROVE  a * r <= b * r
  OBVIOUS

\* One tick more is worth one more rate.
LEMMA OneTickMore ==
  ASSUME NEW a \in Nat, NEW r \in Nat
  PROVE  (a + 1) * r = a * r + r
  OBVIOUS

\* The constants are numbers.
LEMMA ConstantsType ==
  /\ MaxRate \in Nat /\ Allowance \in Nat /\ AgeCap \in Nat /\ Peers \in Nat \ {0}
  /\ \A k \in Buckets : \A c \in ConfigsOf(k) :
       /\ c \in [rate : Nat, capacity : Nat]
       /\ c \in SessionConfigs \union GlobalConfigs
       /\ c.rate <= MaxRate /\ c.capacity <= Allowance
  BY LimiterAssumption DEF ConfigsOf, Buckets

\* What a bucket holds after its refill is within its potential.
LEMMA AvailableBound ==
  ASSUME NEW b, Configurable(b), b.rate > 0
  PROVE  Available(b) \in Nat /\ Available(b) <= Potential(b)
<1>1. /\ b.tokens \in Nat /\ b.age \in Nat /\ b.rate \in Nat /\ b.capacity \in Nat
      /\ b.rate <= MaxRate /\ b.capacity <= Allowance /\ b.capacity > 0
      /\ MaxRate \in Nat /\ Allowance \in Nat
  BY ConstantsType DEF Configurable, BucketRecord
<1>2. b.age * b.rate \in Nat /\ b.age * MaxRate \in Nat /\ b.age * b.rate <= b.age * MaxRate
  BY <1>1, ProductType, SlowerIsLess
<1> QED
  BY <1>1, <1>2 DEF Available, Potential, Lesser

\* What a bucket may still let through is a number.
LEMMA PotentialType ==
  ASSUME NEW b \in BucketRecord
  PROVE  Potential(b) \in Nat /\ Potential(b) <= Allowance
<1>1. b.tokens \in Nat /\ b.age * MaxRate \in Nat /\ Allowance \in Nat
  BY ConstantsType, ProductType DEF BucketRecord
<1> QED
  BY <1>1 DEF Potential, Lesser

\* A take costs the ideal bucket no more than it takes from the potential.
LEMMA TakenBound ==
  ASSUME NEW b, Configurable(b), NEW n \in Nat, NEW c \in Int, c >= Potential(b)
  PROVE  /\ Configurable(Taken(b, n))
         /\ (IF Enough(b, n) /\ b.rate > 0 THEN c - n ELSE c) >= Potential(Taken(b, n))
<1>1. b \in BucketRecord /\ b.rate \in Nat /\ Potential(b) \in Nat
  BY PotentialType DEF Configurable, BucketRecord
<1>2. CASE b.rate = 0
  BY <1>1, <1>2 DEF Taken, Enough
<1>3. CASE b.rate > 0
  <2> DEFINE rest == IF Available(b) >= n THEN Available(b) - n ELSE 0
  <2>1. Available(b) \in Nat /\ Available(b) <= Potential(b)
    BY <1>3, AvailableBound
  <2>2. rest \in Nat
    BY <2>1
  <2>3. Taken(b, n) = [[b EXCEPT !.age = 0] EXCEPT !.tokens = rest]
    BY <1>1, <1>3 DEF Taken, BucketRecord
  <2>4. /\ Taken(b, n) \in BucketRecord
        /\ Taken(b, n).rate = b.rate /\ Taken(b, n).capacity = b.capacity
        /\ Taken(b, n).age = 0 /\ Taken(b, n).tokens = rest
    <3> HIDE DEF rest
    <3>1. [b EXCEPT !.age = 0] \in BucketRecord
      BY <1>1 DEF BucketRecord
    <3> QED
      BY <1>1, <2>2, <2>3, <3>1 DEF BucketRecord
  <2>5. Configurable(Taken(b, n))
    BY <2>4 DEF Configurable
  <2>6. Potential(Taken(b, n)) <= rest
    <3>1. 0 * MaxRate = 0 /\ Allowance \in Nat
      BY ConstantsType
    <3> QED
      BY <2>2, <2>4, <3>1 DEF Potential, Lesser
  <2>7. Potential(Taken(b, n)) \in Nat
    BY <2>4, PotentialType
  <2>8. CASE Available(b) >= n
    BY <1>1, <1>3, <2>1, <2>5, <2>6, <2>7, <2>8 DEF Enough
  <2>9. CASE ~(Available(b) >= n)
    BY <1>1, <1>3, <2>1, <2>5, <2>6, <2>7, <2>9 DEF Enough
  <2> QED
    BY <2>8, <2>9
<1> QED
  BY <1>1, <1>2, <1>3

\* Reconfiguring a bucket never raises its potential.
LEMMA ConfiguredBound ==
  ASSUME NoneOff, NEW b, Configurable(b), NEW k \in Buckets, NEW c \in ConfigsOf(k)
  PROVE  Configurable(Configured(b, c)) /\ Potential(Configured(b, c)) <= Potential(b)
<1>1. /\ b \in BucketRecord /\ c \in [rate : Nat, capacity : Nat]
      /\ c.rate <= MaxRate /\ c.capacity <= Allowance
      /\ c.rate > 0 => c.capacity > 0
  BY ConstantsType DEF Configurable, NoneOff
<1> DEFINE d == Configured(b, c)
<1>2. /\ d \in BucketRecord /\ d.rate = c.rate /\ d.capacity = c.capacity
      /\ d.age = b.age /\ d.tokens <= b.tokens
  <2> DEFINE t == Lesser(b.tokens, c.capacity)
  <2>1. t \in Nat /\ t <= b.tokens
    BY <1>1 DEF BucketRecord, Lesser
  <2>2. d = [b EXCEPT !.rate = c.rate, !.capacity = c.capacity, !.tokens = t]
    BY <1>1 DEF Configured, BucketRecord
  <2> HIDE DEF t, d
  <2> QED
    BY <1>1, <2>1, <2>2 DEF BucketRecord
<1>3. /\ b.tokens \in Nat /\ d.tokens \in Nat
      /\ b.age * MaxRate \in Nat /\ d.age * MaxRate = b.age * MaxRate /\ Allowance \in Nat
  BY <1>1, <1>2, ConstantsType, ProductType DEF BucketRecord
<1>4. Potential(d) <= Potential(b)
  BY <1>2, <1>3 DEF Potential, Lesser
<1> HIDE DEF d
<1>5. Configurable(d)
  BY <1>1, <1>2 DEF Configurable
<1> QED
  BY <1>4, <1>5 DEF d

\* A tick adds at most the largest rate.
LEMMA TickBound ==
  ASSUME NEW b, Configurable(b), NEW c \in Int, c >= Potential(b)
  PROVE  LET d == [b EXCEPT !.age = Lesser(@ + 1, AgeCap)]
         IN  /\ Configurable(d)
             /\ Lesser(c + MaxRate, Allowance) >= Potential(d)
<1> DEFINE d == [b EXCEPT !.age = Lesser(@ + 1, AgeCap)]
<1>1. /\ b \in BucketRecord /\ AgeCap \in Nat /\ MaxRate \in Nat /\ Allowance \in Nat
  BY ConstantsType DEF Configurable
<1>2. /\ d \in BucketRecord /\ d.rate = b.rate /\ d.capacity = b.capacity
      /\ d.tokens = b.tokens /\ d.age <= b.age + 1
  BY <1>1 DEF BucketRecord, Lesser
<1>3. /\ b.age \in Nat /\ d.age \in Nat /\ b.tokens \in Nat
  BY <1>1, <1>2 DEF BucketRecord
<1>4. /\ d.age * MaxRate <= b.age * MaxRate + MaxRate
      /\ d.age * MaxRate \in Nat /\ b.age * MaxRate \in Nat
  <2>1. d.age * MaxRate <= (b.age + 1) * MaxRate
    BY <1>1, <1>2, <1>3, SoonerIsLess
  <2>2. (b.age + 1) * MaxRate = b.age * MaxRate + MaxRate
    BY <1>1, <1>3, OneTickMore
  <2> QED
    BY <1>1, <1>3, <2>1, <2>2, ProductType
<1>5. Lesser(c + MaxRate, Allowance) >= Potential(d)
  BY <1>1, <1>2, <1>3, <1>4 DEF Potential, Lesser
<1> QED
  BY <1>2, <1>5 DEF Configurable

-----------------------------------------------------------------------------
\* A new bucket is within the largest rate and burst.
LEMMA NewBucketBound ==
  ASSUME NoneOff, NEW k \in Buckets, NEW c \in ConfigsOf(k)
  PROVE  Configurable(NewBucket(c))
<1>1. /\ c \in [rate : Nat, capacity : Nat]
      /\ c.rate <= MaxRate /\ c.capacity <= Allowance
      /\ c.rate > 0 => c.capacity > 0
  BY ConstantsType DEF NoneOff
<1> QED
  BY <1>1 DEF NewBucket, Configurable, BucketRecord

\* At first no more than the bound has been let through.
LEMMA AheadInit == NoneOff /\ Init => Ahead
<1> SUFFICES ASSUME NoneOff, Init PROVE Ahead
  OBVIOUS
<1>1. \A k \in Buckets : Configurable(bucket[k]) /\ bucket[k] \in BucketRecord
  BY NewBucketBound DEF Init, Configurable
<1>2. bucket \in [Buckets -> BucketRecord]
  BY <1>1 DEF Init
<1>3. need \in [Sessions -> Nat] /\ credit \in [Buckets -> Int]
  BY ConstantsType DEF Init
<1>4. \A k \in Buckets : credit[k] >= Potential(bucket[k])
  BY <1>1, PotentialType, ConstantsType DEF Init
<1> QED
  BY <1>1, <1>2, <1>3, <1>4 DEF Ahead

\* A take, of a session's bucket or of the global one.
LEMMA DrawStep ==
  ASSUME Ahead, NEW k \in Buckets, NEW s \in Sessions, Draw(k, s), need' = need
  PROVE  Ahead'
<1> DEFINE spent == IF Enough(bucket[k], need[s]) /\ bucket[k].rate > 0
                    THEN credit[k] - need[s] ELSE credit[k]
<1>1. /\ bucket[k] \in BucketRecord /\ Configurable(bucket[k]) /\ need[s] \in Nat
      /\ credit[k] \in Int /\ credit[k] >= Potential(bucket[k])
  BY DEF Ahead
<1>2. Configurable(Taken(bucket[k], need[s])) /\ spent >= Potential(Taken(bucket[k], need[s]))
  BY <1>1, TakenBound
<1>3. bucket' = [bucket EXCEPT ![k] = Taken(bucket[k], need[s])]
  BY DEF Draw
<1>4. credit' = [credit EXCEPT ![k] = spent] /\ spent \in Int
  <2>1. CASE Enough(bucket[k], need[s]) /\ bucket[k].rate > 0
    <3>1. credit' = [credit EXCEPT ![k] = credit[k] - need[s]]
      BY ONLY <2>1, Draw(k, s) DEF Draw
    <3>2. spent = credit[k] - need[s]
      BY ONLY <2>1
    <3>3. spent \in Int
      BY <1>1, <3>2
    <3> QED
      BY ONLY <3>1, <3>2, <3>3
  <2>2. CASE ~(Enough(bucket[k], need[s]) /\ bucket[k].rate > 0)
    <3>1. credit = [credit EXCEPT ![k] = credit[k]]
      BY DEF Ahead
    <3>2. credit' = credit
      BY ONLY <2>2, Draw(k, s) DEF Draw
    <3>3. spent = credit[k]
      BY ONLY <2>2
    <3> QED
      BY ONLY <1>1, <3>1, <3>2, <3>3
  <2> QED
    BY <2>1, <2>2
<1> HIDE DEF spent
<1>5. bucket' \in [Buckets -> BucketRecord] /\ credit' \in [Buckets -> Int]
  BY <1>2, <1>3, <1>4 DEF Ahead, Configurable
<1>6. \A j \in Buckets : Configurable(bucket'[j]) /\ credit'[j] >= Potential(bucket'[j])
  BY <1>2, <1>3, <1>4 DEF Ahead
<1> QED
  BY <1>5, <1>6 DEF Ahead

\* Every step keeps within the bound.
LEMMA AheadStep == NoneOff /\ Ahead /\ [Next]_vars => Ahead'
<1> SUFFICES ASSUME NoneOff, Ahead, [Next]_vars PROVE Ahead'
  OBVIOUS
<1>1. CASE UNCHANGED vars
  BY <1>1 DEF Ahead, vars
<1>2. ASSUME NEW s \in Sessions, Emitter(s) \/ Cancel(s) \/ SetPaused(s)
      PROVE  Ahead'
  <2>1. CASE Ask(s)
    <3>1. need' \in [Sessions -> Nat] /\ UNCHANGED <<bucket, credit>>
      BY <2>1, LimiterAssumption DEF Ask, Ahead
    <3> QED
      BY <3>1 DEF Ahead
  <2>2. CASE CheckPaused(s)
    BY <2>2 DEF CheckPaused, Ahead
  <2>3. CASE TakeSession(s)
    BY <2>3, DrawStep DEF TakeSession, Buckets
  <2>4. CASE TakeGlobal(s)
    BY <2>4, DrawStep DEF TakeGlobal, Buckets
  <2>5. CASE Wake(s)
    BY <2>5 DEF Wake, Ahead
  <2>6. CASE Cancel(s)
    BY <2>6 DEF Cancel, Ahead
  <2>7. CASE SetPaused(s)
    BY <2>7 DEF SetPaused, Ahead
  <2> QED
    BY <1>2, <2>1, <2>2, <2>3, <2>4, <2>5, <2>6, <2>7 DEF Emitter
<1>3. ASSUME NEW k \in Buckets, Configure(k)
      PROVE  Ahead'
  <2>1. PICK c \in ConfigsOf(k) : bucket' = [bucket EXCEPT ![k] = Configured(bucket[k], c)]
    BY <1>3 DEF Configure
  <2>2. /\ bucket[k] \in BucketRecord /\ Configurable(bucket[k])
        /\ credit[k] \in Int /\ credit[k] >= Potential(bucket[k])
    BY DEF Ahead
  <2>3. /\ Configurable(Configured(bucket[k], c))
        /\ Potential(Configured(bucket[k], c)) <= Potential(bucket[k])
    BY <2>2, ConfiguredBound
  <2>4. /\ Configured(bucket[k], c) \in BucketRecord
        /\ Potential(Configured(bucket[k], c)) \in Nat /\ Potential(bucket[k]) \in Nat
    BY <2>2, <2>3, PotentialType DEF Configurable
  <2>5. credit[k] >= Potential(Configured(bucket[k], c))
    BY <2>2, <2>3, <2>4
  <2>6. credit' = credit /\ need' = need
    BY <1>3 DEF Configure
  <2> QED
    BY <2>1, <2>3, <2>4, <2>5, <2>6 DEF Ahead
<1>4. CASE Tick
  <2>1. ASSUME NEW k \in Buckets
        PROVE  /\ bucket'[k] \in BucketRecord /\ Configurable(bucket'[k])
               /\ credit'[k] \in Int /\ credit'[k] >= Potential(bucket'[k])
    <3>1. /\ Configurable(bucket[k]) /\ credit[k] \in Int
          /\ credit[k] >= Potential(bucket[k])
      BY DEF Ahead
    <3>2. bucket'[k] = [bucket[k] EXCEPT !.age = Lesser(@ + 1, AgeCap)]
      BY <1>4 DEF Tick
    <3>3. credit'[k] = Lesser(credit[k] + MaxRate, Allowance)
      BY <1>4 DEF Tick
    <3>4. Configurable(bucket'[k]) /\ credit'[k] >= Potential(bucket'[k])
      BY <3>1, <3>2, <3>3, TickBound
    <3>5. credit'[k] \in Int
      BY <3>1, <3>3, ConstantsType DEF Lesser
    <3> QED
      BY <3>4, <3>5 DEF Configurable
  <2>2. bucket' \in [Buckets -> BucketRecord] /\ credit' \in [Buckets -> Int]
    BY <1>4, <2>1 DEF Tick
  <2> QED
    BY <1>4, <2>1, <2>2 DEF Tick, Ahead
<1> QED
  BY <1>1, <1>2, <1>3, <1>4 DEF Next

(***************************************************************************)
(* Bursts are bounded for every session and for the server as a whole, if  *)
(* no configuration switches the burst capacity off: over any t ticks a    *)
(* bucket grants at most the largest burst plus t times the largest rate.  *)
(***************************************************************************)
THEOREM BurstBounded == NoneOff => (Spec => []BurstBound)
<1> SUFFICES ASSUME NoneOff PROVE Spec => []BurstBound
  OBVIOUS
<1>1. Init => Ahead
  BY AheadInit
<1>2. Ahead /\ [Next]_vars => Ahead'
  BY AheadStep
<1>3. Ahead => BurstBound
  <2> SUFFICES ASSUME Ahead, NEW k \in Buckets PROVE credit[k] >= 0
    BY DEF BurstBound
  <2>1. Potential(bucket[k]) \in Nat /\ credit[k] \in Int /\ credit[k] >= Potential(bucket[k])
    BY PotentialType DEF Ahead
  <2> QED
    BY <2>1
<1> QED
  BY <1>1, <1>2, <1>3, PTL DEF Spec

-----------------------------------------------------------------------------
\* A session that was granted a unit while paused is not past the check.
Checked ==
  /\ place \in [Sessions -> {"idle", "session", "take", "asleep_session", "global",
                             "asleep_global", "cancelled"}]
  /\ late \in [Sessions -> {0, 1}]
  /\ paused \in [Sessions -> BOOLEAN]
  /\ \A s \in Sessions :
       late[s] = 1 => paused[s] /\ place[s] \in {"idle", "session", "cancelled"}

(***************************************************************************)
(* A paused session is granted at most the one unit whose Wait had passed  *)
(* the check before, whatever the rates and however often it is resumed.   *)
(***************************************************************************)
THEOREM PauseCorrect == Spec => []PauseHolds
<1>1. Init => Checked
  BY DEF Init, Checked
<1>2. Checked /\ [Next]_vars => Checked'
  <2> SUFFICES ASSUME Checked, [Next]_vars PROVE Checked'
    OBVIOUS
  <2> USE DEF Checked, Go
  <2>1. CASE UNCHANGED vars
    BY <2>1 DEF vars
  <2>2. CASE Tick
    BY <2>2 DEF Tick
  <2>3. ASSUME NEW k \in Buckets, Configure(k)
        PROVE  Checked'
    BY <2>3 DEF Configure
  <2>4. ASSUME NEW s \in Sessions, Emitter(s) \/ Cancel(s) \/ SetPaused(s)
        PROVE  Checked'
    <3>1. CASE Ask(s)
      BY <3>1 DEF Ask
    <3>2. CASE CheckPaused(s)
      BY <3>2 DEF CheckPaused
    <3>3. CASE TakeSession(s)
      BY <3>3 DEF TakeSession
    <3>4. CASE TakeGlobal(s)
      <4>1. late[s] = 0
        BY <3>4 DEF TakeGlobal
      <4>2. Lesser(late[s] + 1, 2) = 1
        BY <4>1 DEF Lesser
      <4> QED
        BY <3>4, <4>1, <4>2 DEF TakeGlobal
    <3>5. CASE Wake(s)
      BY <3>5 DEF Wake
    <3>6. CASE Cancel(s)
      BY <3>6 DEF Cancel
    <3>7. CASE SetPaused(s)
      BY <3>7 DEF SetPaused
    <3> QED
      BY <2>4, <3>1, <3>2, <3>3, <3>4, <3>5, <3>6, <3>7 DEF Emitter
  <2> QED
    BY <2>1, <2>2, <2>3, <2>4 DEF Next
<1>3. Checked => PauseHolds
  <2> SUFFICES ASSUME Checked, NEW s \in Sessions PROVE late[s] <= 1
    BY DEF PauseHolds
  <2>1. late[s] = 0 \/ late[s] = 1
    BY DEF Checked
  <2> QED
    BY <2>1
<1> QED
  BY <1>1, <1>2, <1>3, PTL DEF Spec
-----------------------------------------------------------------------------
\* A quotient of numbers is one.
LEMMA QuotientType ==
  ASSUME NEW x \in Nat, NEW d \in Nat \ {0}
  PROVE  x \div d \in Nat
  OBVIOUS

\* A product of positive numbers is positive.
LEMMA PositiveProduct ==
  ASSUME NEW x \in Nat \ {0}, NEW y \in Nat \ {0}
  PROVE  x * y \in Nat \ {0}
  OBVIOUS

\* What is available is a number.
LEMMA AvailableType ==
  ASSUME NEW b \in BucketRecord
  PROVE  Available(b) \in Nat
<1>1. b.tokens \in Nat /\ b.capacity \in Nat /\ b.age * b.rate \in Nat
  BY ProductType DEF BucketRecord
<1> QED
  BY <1>1 DEF Available, Lesser

\* A bucket that something was taken from is one.
LEMMA TakenType ==
  ASSUME NEW b \in BucketRecord, NEW n \in Nat
  PROVE  Taken(b, n) \in BucketRecord
<1> DEFINE rest == IF Available(b) >= n THEN Available(b) - n ELSE 0
<1>1. rest \in Nat
  BY AvailableType
<1>2. Taken(b, n) = IF b.rate = 0 THEN b ELSE [[b EXCEPT !.age = 0] EXCEPT !.tokens = rest]
  BY DEF Taken, BucketRecord
<1> HIDE DEF rest
<1>3. [b EXCEPT !.age = 0] \in BucketRecord
  BY DEF BucketRecord
<1>4. [[b EXCEPT !.age = 0] EXCEPT !.tokens = rest] \in BucketRecord
  BY <1>1, <1>3 DEF BucketRecord
<1> QED
  BY <1>2, <1>4

\* A timer is never set to a time that has passed.
LEMMA TicksType ==
  ASSUME NEW b \in BucketRecord, NEW n \in Nat, NEW share \in Nat \ {0}, ~Enough(b, n)
  PROVE  TicksFor(b, n, share) \in Nat
<1>1. Available(b) \in Nat /\ Available(b) < n /\ b.rate \in Nat \ {0}
  BY AvailableType DEF Enough, BucketRecord
<1>2. b.rate * share \in Nat \ {0}
  BY <1>1, PositiveProduct
<1>3. n - Available(b) + b.rate * share - 1 \in Nat
  BY <1>1, <1>2
<1> QED
  BY <1>2, <1>3, QuotientType DEF TicksFor

\* A draw keeps the types of the buckets and the credit.
LEMMA DrawType ==
  ASSUME TypeOK, NEW k \in Buckets, NEW s \in Sessions, Draw(k, s)
  PROVE  bucket' \in [Buckets -> BucketRecord] /\ credit' \in [Buckets -> Int]
<1>1. Taken(bucket[k], need[s]) \in BucketRecord /\ need[s] \in Nat
  BY TakenType DEF TypeOK, BucketRecord
<1>2. bucket' \in [Buckets -> BucketRecord]
  BY <1>1 DEF Draw, TypeOK, BucketRecord
<1>3. credit' = credit \/ credit' = [credit EXCEPT ![k] = credit[k] - need[s]]
  BY DEF Draw
<1>4. credit' \in [Buckets -> Int]
  BY <1>1, <1>3 DEF TypeOK
<1> QED
  BY <1>2, <1>4

(***************************************************************************)
(* Tokens, waits and counts never become negative, with or without a burst *)
(* capacity: a take that fails empties the bucket and leaves no debt, and  *)
(* every wait it computes is a number of ticks to come.                    *)
(***************************************************************************)
THEOREM TypeCorrect == Spec => []TypeOK
<1>1. Init => TypeOK
  <2> SUFFICES ASSUME Init PROVE TypeOK
    OBVIOUS
  <2>1. \A k \in Buckets : \A c \in ConfigsOf(k) : NewBucket(c) \in BucketRecord
    BY ConstantsType DEF NewBucket, BucketRecord
  <2>2. bucket \in [Buckets -> BucketRecord]
    BY <2>1 DEF Init
  <2> QED
    BY <2>2, ConstantsType DEF Init, TypeOK, BucketRecord
<1>2. TypeOK /\ [Next]_vars => TypeOK'
  <2> SUFFICES ASSUME TypeOK, [Next]_vars PROVE TypeOK'
    OBVIOUS
  <2> USE DEF Go
  <2>1. CASE UNCHANGED vars
    BY <2>1 DEF vars, TypeOK
  <2>2. CASE Tick
    <3>1. \A k \in Buckets : bucket'[k] \in BucketRecord /\ credit'[k] \in Int
      BY <2>2, ConstantsType DEF Tick, TypeOK, BucketRecord, Lesser
    <3>2. bucket' \in [Buckets -> BucketRecord] /\ credit' \in [Buckets -> Int]
      BY <2>2, <3>1 DEF Tick
    <3>3. \A s \in Sessions : sleep'[s] \in Nat
      BY <2>2 DEF Tick, TypeOK
    <3>4. sleep' \in [Sessions -> Nat]
      BY <2>2, <3>3 DEF Tick
    <3> QED
      BY <2>2, <3>2, <3>4 DEF Tick, TypeOK, BucketRecord
  <2>3. ASSUME NEW k \in Buckets, Configure(k)
        PROVE  TypeOK'
    <3>1. PICK c \in ConfigsOf(k) : bucket' = [bucket EXCEPT ![k] = Configured(bucket[k], c)]
      BY <2>3 DEF Configure
    <3> DEFINE t == Lesser(bucket[k].tokens, c.capacity)
    <3>2. bucket[k] \in BucketRecord /\ c \in [rate : Nat, capacity : Nat]
      BY ConstantsType DEF TypeOK, BucketRecord
    <3>3. t \in Nat
      BY <3>2 DEF BucketRecord, Lesser
    <3>4. Configured(bucket[k], c) = [bucket[k] EXCEPT !.rate = c.rate, !.capacity = c.capacity,
                                                       !.tokens = t]
      BY <3>2 DEF Configured, BucketRecord
    <3> HIDE DEF t
    <3>5. Configured(bucket[k], c) \in BucketRecord
      BY <3>2, <3>3, <3>4 DEF BucketRecord
    <3>6. bucket' \in [Buckets -> BucketRecord]
      BY <3>1, <3>5 DEF TypeOK, BucketRecord
    <3> QED
      BY <2>3, <3>6 DEF Configure, TypeOK, BucketRecord
  <2>4. ASSUME NEW s \in Sessions, Emitter(s) \/ Cancel(s) \/ SetPaused(s)
        PROVE  TypeOK'
    <3>1. CASE Ask(s)
      BY <3>1, LimiterAssumption DEF Ask, TypeOK
    <3>2. CASE CheckPaused(s)
      BY <3>2 DEF CheckPaused, TypeOK
    <3>3. CASE TakeSession(s)
      <4>1. bucket' \in [Buckets -> BucketRecord] /\ credit' \in [Buckets -> Int]
        BY <3>3, DrawType DEF TakeSession, Buckets
      <4>2. ~Enough(bucket[s], need[s]) => TicksFor(bucket[s], need[s], 1) \in Nat
        BY TicksType DEF TypeOK, Buckets, BucketRecord
      <4>3. sleep' \in [Sessions -> Nat]
        BY <3>3, <4>2 DEF TakeSession, TypeOK
      <4> QED
        BY <3>3, <4>1, <4>3 DEF TakeSession, TypeOK, BucketRecord
    <3>4. CASE TakeGlobal(s)
      <4>1. bucket' \in [Buckets -> BucketRecord] /\ credit' \in [Buckets -> Int]
        BY <3>4, DrawType DEF TakeGlobal, Buckets
      <4>2. ~Enough(bucket[Global], need[s])
              => TicksFor(bucket[Global], need[s], Lesser(Peers, 16)) \in Nat
        BY TicksType, LimiterAssumption DEF TypeOK, Buckets, BucketRecord, Lesser
      <4>3. sleep' \in [Sessions -> Nat]
        BY <3>4, <4>2 DEF TakeGlobal, TypeOK
      <4>4. late' \in [Sessions -> Nat]
        BY <3>4 DEF TakeGlobal, TypeOK, Lesser
      <4> QED
        BY <3>4, <4>1, <4>3, <4>4 DEF TakeGlobal, TypeOK, BucketRecord
    <3>5. CASE Wake(s)
      BY <3>5 DEF Wake, TypeOK
    <3>6. CASE Cancel(s)
      BY <3>6 DEF Cancel, TypeOK
    <3>7. CASE SetPaused(s)
      BY <3>7 DEF SetPaused, TypeOK
    <3> QED
      BY <2>4, <3>1, <3>2, <3>3, <3>4, <3>5, <3>6, <3>7 DEF Emitter
  <2> QED
    BY <2>1, <2>2, <2>3, <2>4 DEF Next
<1> QED
  BY <1>1, <1>2, PTL DEF Spec

=============================================================================
