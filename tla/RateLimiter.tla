---------------------------- MODULE RateLimiter ----------------------------
(***************************************************************************)
(* Output token rate limiting: the token bucket of every session, the      *)
(* global bucket all of them share, and SessionBucket.Wait, which passes   *)
(* a session through both before it may emit.                              *)
(*                                                                         *)
(* Time passes in ticks; a rate is in tokens per tick, so a duration       *)
(* deficit/rate is rounded up to the tick at which its timer fires.  A     *)
(* bucket keeps the ticks since its last refill instead of a clock, and    *)
(* "credit" is a monitor, not part of the code: an ideal bucket that every *)
(* limited take draws from.                                                *)
(***************************************************************************)
EXTENDS Integers

CONSTANTS
  Sessions,   \* sessions that emit tokens
  Global,     \* names the limiter's global bucket
  Chunks,     \* token counts of the units sessions emit
  SessionConfigs, GlobalConfigs, \* [rate, capacity] pairs an administrator may
              \* configure; capacity = rate * burst seconds, 0 when either is 0
  Reconfigurations, \* bound: configuration changes in a behaviour
  Peers,      \* sessions attached to the limiter; Detach is never called
  MaxRate,    \* the largest rate an administrator configures
  Allowance,  \* the largest burst: capacity of the ideal bucket
  AgeCap      \* bound: ticks since a refill that are told apart

Buckets == Sessions \union {Global}
ConfigsOf(k) == IF k = Global THEN GlobalConfigs ELSE SessionConfigs

ASSUME LimiterAssumption ==
  /\ Global \notin Sessions
  /\ Chunks \subseteq Nat \ {0}
  /\ SessionConfigs \subseteq [rate : Nat, capacity : Nat]
  /\ GlobalConfigs \subseteq [rate : Nat, capacity : Nat]
  /\ Peers \in Nat \ {0} /\ MaxRate \in Nat /\ Allowance \in Nat
  /\ AgeCap \in Nat /\ Reconfigurations \in Nat
  /\ \A c \in SessionConfigs \union GlobalConfigs :
       c.rate <= MaxRate /\ c.capacity <= Allowance

VARIABLES
  bucket,   \* rate, capacity, tokens and age of every bucket
  paused,   \* SessionBucket.paused
  place,    \* where each session's Wait is
  need,     \* the tokens it asks for
  sleep,    \* ticks until its timer fires
  changes,  \* configuration changes made
  credit,   \* monitor: tokens the ideal bucket of that name still holds
  late      \* monitor: units granted to a session since it was paused

vars == <<bucket, paused, place, need, sleep, changes, credit, late>>

-----------------------------------------------------------------------------
(***************************************************************************)
(* The bucket itself, as functions of a bucket record.                     *)
(***************************************************************************)
Lesser(a, b) == IF a <= b THEN a ELSE b

NewBucket(c) ==
  [rate |-> c.rate, capacity |-> c.capacity, tokens |-> c.capacity, age |-> 0]

\* configure: the refill time stays, so the ticks since it count at the new rate.
Configured(b, c) ==
  [b EXCEPT !.rate = c.rate, !.capacity = c.capacity,
            !.tokens = Lesser(@, c.capacity)]

\* Mutant of Available: a burst is not capped.
AvailableUncapped(b) == b.tokens + b.age * b.rate

\* Tokens after the refill that every take of a limited bucket begins with.
\* Without a burst capacity nothing caps what has accumulated.
Available(b) ==
  IF b.capacity > 0 THEN Lesser(b.tokens + b.age * b.rate, b.capacity)
  ELSE b.tokens + b.age * b.rate

Enough(b, n) == b.rate = 0 \/ Available(b) >= n

\* Mutant of Taken: a failed take goes into debt.
TakenInDebt(b, n) ==
  IF b.rate = 0 THEN b ELSE [b EXCEPT !.age = 0, !.tokens = Available(b) - n]

\* take of n tokens, succeeding or not; the tokens of a failed take are lost.
Taken(b, n) ==
  IF b.rate = 0 THEN b
  ELSE [b EXCEPT !.age = 0, !.tokens = IF Available(b) >= n THEN Available(b) - n ELSE 0]

\* The first tick at which a timer set to (n - Available) / rate / share has fired.
TicksFor(b, n, share) == (n - Available(b) + b.rate * share - 1) \div (b.rate * share)

-----------------------------------------------------------------------------
Init ==
  /\ \E c \in [Buckets -> SessionConfigs \union GlobalConfigs] :
       /\ \A k \in Buckets : c[k] \in ConfigsOf(k)
       /\ bucket = [k \in Buckets |-> NewBucket(c[k])]
  /\ paused = [s \in Sessions |-> FALSE]
  /\ place = [s \in Sessions |-> "idle"]
  /\ need = [s \in Sessions |-> 0]
  /\ sleep = [s \in Sessions |-> 0]
  /\ changes = 0
  /\ credit = [k \in Buckets |-> Allowance]
  /\ late = [s \in Sessions |-> 0]

Go(s, from, to) == place[s] = from /\ place' = [place EXCEPT ![s] = to]

\* Wait is called for the next unit.
Ask(s) ==
  /\ Go(s, "idle", "session")
  /\ \E n \in Chunks : need' = [need EXCEPT ![s] = n]
  /\ UNCHANGED <<bucket, paused, sleep, changes, credit, late>>

\* Mutant of CheckPaused: the flag is not looked at.
CheckPausedNever(s) ==
  /\ Go(s, "session", "take")
  /\ UNCHANGED <<bucket, paused, need, sleep, changes, credit, late>>

\* The pause flag is read under its lock and acted on after it is released.
CheckPaused(s) ==
  /\ ~paused[s]
  /\ Go(s, "session", "take")
  /\ UNCHANGED <<bucket, paused, need, sleep, changes, credit, late>>

\* A failed take changes the bucket as well; only a limited one is metered.
Draw(k, s) ==
  /\ bucket' = [bucket EXCEPT ![k] = Taken(@, need[s])]
  /\ credit' = IF Enough(bucket[k], need[s]) /\ bucket[k].rate > 0
               THEN [credit EXCEPT ![k] = @ - need[s]] ELSE credit

TakeSession(s) ==
  /\ Draw(s, s)
  /\ \/ Enough(bucket[s], need[s]) /\ Go(s, "take", "global") /\ UNCHANGED sleep
     \/ /\ ~Enough(bucket[s], need[s])
        /\ Go(s, "take", "asleep_session")
        /\ sleep' = [sleep EXCEPT ![s] = TicksFor(bucket[s], need[s], 1)]
  /\ UNCHANGED <<paused, need, changes, late>>

\* waitGlobal shortens the wait by the number of attached sessions, at most 16.
TakeGlobal(s) ==
  /\ Draw(Global, s)
  /\ \/ /\ Enough(bucket[Global], need[s])
        /\ Go(s, "global", "idle")
        /\ late' = [late EXCEPT ![s] = IF paused[s] THEN Lesser(@ + 1, 2) ELSE 0]
        /\ UNCHANGED sleep
     \/ /\ ~Enough(bucket[Global], need[s])
        /\ Go(s, "global", "asleep_global")
        /\ sleep' = [sleep EXCEPT ![s] =
                       TicksFor(bucket[Global], need[s], Lesser(Peers, 16))]
        /\ UNCHANGED late
  /\ UNCHANGED <<paused, need, changes>>

\* The timer has fired; the goroutine runs some time after.
Wake(s) ==
  /\ sleep[s] = 0
  /\ Go(s, "asleep_session", "session") \/ Go(s, "asleep_global", "global")
  /\ UNCHANGED <<bucket, paused, need, sleep, changes, credit, late>>

\* The request context is cancelled: Wait returns false from any of its waits.
Cancel(s) ==
  /\ \/ Go(s, "asleep_session", "cancelled") \/ Go(s, "asleep_global", "cancelled")
     \/ paused[s] /\ Go(s, "session", "cancelled")
  /\ UNCHANGED <<bucket, paused, need, sleep, changes, credit, late>>

\* Update, and SetGlobal for the global bucket.
Configure(k) ==
  /\ changes < Reconfigurations
  /\ changes' = changes + 1
  /\ \E c \in ConfigsOf(k) : bucket' = [bucket EXCEPT ![k] = Configured(@, c)]
  /\ UNCHANGED <<paused, place, need, sleep, credit, late>>

SetPaused(s) ==
  /\ changes < Reconfigurations
  /\ changes' = changes + 1
  /\ paused' = [paused EXCEPT ![s] = ~@]
  /\ late' = [late EXCEPT ![s] = 0]
  /\ UNCHANGED <<bucket, place, need, sleep, credit>>

Tick ==
  /\ bucket' = [k \in Buckets |-> [bucket[k] EXCEPT !.age = Lesser(@ + 1, AgeCap)]]
  /\ sleep' = [s \in Sessions |-> IF sleep[s] > 0 THEN sleep[s] - 1 ELSE 0]
  /\ credit' = [k \in Buckets |-> Lesser(credit[k] + MaxRate, Allowance)]
  /\ UNCHANGED <<paused, place, need, changes, late>>

Emitter(s) == Ask(s) \/ CheckPaused(s) \/ TakeSession(s) \/ TakeGlobal(s) \/ Wake(s)

Next ==
  \/ \E s \in Sessions : Emitter(s) \/ Cancel(s) \/ SetPaused(s)
  \/ \E k \in Buckets : Configure(k)
  \/ Tick

Spec == Init /\ [][Next]_vars

\* Time passes and every session's goroutine is scheduled.
FairSpec == Spec /\ WF_vars(Tick) /\ \A s \in Sessions : WF_vars(Emitter(s))

-----------------------------------------------------------------------------
TypeOK ==
  /\ bucket \in [Buckets -> [rate : Nat, capacity : Nat, tokens : Nat, age : Nat]]
  /\ paused \in [Sessions -> BOOLEAN]
  /\ place \in [Sessions -> {"idle", "session", "take", "asleep_session", "global",
                             "asleep_global", "cancelled"}]
  /\ need \in [Sessions -> Nat]
  /\ sleep \in [Sessions -> Nat]
  /\ changes \in Nat
  /\ credit \in [Buckets -> Int]
  /\ late \in [Sessions -> Nat]

(***************************************************************************)
(* In every interval of t ticks, a bucket that stays limited with a burst  *)
(* capacity lets through at most the largest burst plus t times the        *)
(* largest rate, for a session and for all sessions together, however      *)
(* often the configuration changes and although ticks that passed under an *)
(* old rate, or under none, are credited at the new one.                   *)
(***************************************************************************)
BurstBound == \A k \in Buckets : credit[k] >= 0

(***************************************************************************)
(* Once a session is paused it is granted at most one more unit: the one   *)
(* whose Wait had passed the check of the pause flag.                      *)
(***************************************************************************)
PauseHolds == \A s \in Sessions : late[s] <= 1

(***************************************************************************)
(* Violated: no session may monopolise the global rate for ever.  A unit   *)
(* a session waits to send would eventually be granted.                    *)
(***************************************************************************)
Served ==
  \A s \in Sessions :
    place[s] # "idle" ~> (place[s] \in {"idle", "cancelled"} \/ paused[s])

=============================================================================
