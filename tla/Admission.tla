----------------------------- MODULE Admission -----------------------------
(***************************************************************************)
(* Admission of OpenAI requests into the session table: sessions.Manager   *)
(* (Admit, Register, Unregister and the counters they share) driven by the *)
(* HTTP handlers' admit / Create / deferred Unregister sequence.           *)
(*                                                                         *)
(* Every critical section of Manager.mu is one step.  What happens between *)
(* two of them is visible: the settings are read before the lock is taken, *)
(* the slot is counted in Admit and the session enters the table only in   *)
(* Register, and an administrator may change the settings at any time.     *)
(***************************************************************************)
EXTENDS Integers, FiniteSets

CONSTANTS
  Requests,   \* client requests, each made once
  IPs,        \* client addresses, as clientIP computes them
  NoIP,       \* the empty address: X-Forwarded-For may begin with a comma
  Keys,       \* API-key fingerprints
  NoKey,      \* the empty fingerprint: no Authorization header
  IPOf,       \* [Requests -> IPs], the address a request comes from
  KeyOf,      \* [Requests -> Keys]
  KeyMax,     \* [Keys -> Nat], the key record's own max_sessions, 0 = none
  Settings,   \* the runtime settings an administrator may store
  MaxPolls    \* Admit retries of a queued request: 60 s of 200 ms polls

Overloads == {"reject", "queue", "hang", "custom_error"}

ASSUME RequestsAssumption ==
  /\ NoIP \in IPs /\ NoKey \in Keys
  /\ IPOf \in [Requests -> IPs]
  /\ KeyOf \in [Requests -> Keys]
  /\ KeyMax \in [Keys -> Nat]

ASSUME SettingsAssumption ==
  /\ Settings # {}
  /\ \A s \in Settings : /\ s.maxActive \in Nat /\ s.maxPerIP \in Nat
                         /\ s.maxPerKey \in Nat /\ s.overload \in Overloads
  /\ MaxPolls \in Nat

VARIABLES
  rt,      \* config.RuntimeSettings as stored now
  pc,      \* where each request's handler goroutine is
  snap,    \* the settings copy the handler's current Admit call works on
  polls,   \* Admit retries made from the overload queue
  gone,    \* requests whose client closed the connection (r.Context() done)
  live,    \* Manager.live: the registered sessions
  perIP,   \* Manager.perIP
  perKey   \* Manager.perKey

vars == <<rt, pc, snap, polls, gone, live, perIP, perKey>>

\* Handler positions.  "first" and "retry" are inside an Admit call, with the
\* settings read and the lock not yet taken.
Positions == {"idle", "arrived", "first", "polling", "retry", "hanging",
              "admitted", "serving", "released", "errored", "refused"}

Refused == {"refused", "released", "errored"}

\* A copy of the settings that has gone out of scope.
Unset == CHOOSE s \in Settings : TRUE

-----------------------------------------------------------------------------
Init ==
  /\ rt \in Settings
  /\ pc = [r \in Requests |-> "idle"]
  /\ snap = [r \in Requests |-> Unset]
  /\ polls = [r \in Requests |-> 0]
  /\ gone = {}
  /\ live = {}
  /\ perIP = [i \in IPs |-> 0]
  /\ perKey = [k \in Keys |-> 0]

Goto(r, from, to) == pc[r] = from /\ pc' = [pc EXCEPT ![r] = to]

\* The client connects; authentication, body and model checks passed.
Arrive(r) ==
  /\ Goto(r, "idle", "arrived")
  /\ UNCHANGED <<rt, snap, polls, gone, live, perIP, perKey>>

\* The client closes its connection at any moment before the handler is over.
Disconnect(r) ==
  /\ pc[r] \notin {"idle"} \union Refused
  /\ gone' = gone \union {r}
  /\ UNCHANGED <<rt, pc, snap, polls, live, perIP, perKey>>

\* The admin settings page stores another configuration.
Reconfigure ==
  /\ rt' \in Settings
  /\ UNCHANGED <<pc, snap, polls, gone, live, perIP, perKey>>

\* Admit's first line: the settings are copied before m.mu is taken.
ReadSettings(r) ==
  /\ \/ Goto(r, "arrived", "first")
     \/ Goto(r, "polling", "retry") /\ polls[r] < MaxPolls
  /\ snap' = [snap EXCEPT ![r] = rt]
  /\ UNCHANGED <<rt, polls, gone, live, perIP, perKey>>

\* The per-key limit: the key record's own maximum overrides the setting.
KeyLimit(s, k) == IF KeyMax[k] > 0 THEN KeyMax[k] ELSE s.maxPerKey

\* Mutants of Full: one too many per address; no key limit; the table is
\* consulted, which lags behind the counters until Register.
FullOneLate(s, r) ==
  \/ s.maxActive > 0 /\ Cardinality(live) >= s.maxActive
  \/ s.maxPerIP > 0 /\ IPOf[r] # NoIP /\ perIP[IPOf[r]] > s.maxPerIP
  \/ KeyLimit(s, KeyOf[r]) > 0 /\ KeyOf[r] # NoKey /\ perKey[KeyOf[r]] >= KeyLimit(s, KeyOf[r])

FullNoKey(s, r) ==
  \/ s.maxActive > 0 /\ Cardinality(live) >= s.maxActive
  \/ s.maxPerIP > 0 /\ IPOf[r] # NoIP /\ perIP[IPOf[r]] >= s.maxPerIP

FullByTable(s, r) ==
  \/ s.maxActive > 0 /\ Cardinality(live) >= s.maxActive
  \/ /\ s.maxPerIP > 0 /\ IPOf[r] # NoIP
     /\ Cardinality({q \in live : IPOf[q] = IPOf[r]}) >= s.maxPerIP
  \/ KeyLimit(s, KeyOf[r]) > 0 /\ KeyOf[r] # NoKey /\ perKey[KeyOf[r]] >= KeyLimit(s, KeyOf[r])

Full(s, r) ==
  \/ s.maxActive > 0 /\ Cardinality(live) >= s.maxActive
  \/ s.maxPerIP > 0 /\ IPOf[r] # NoIP /\ perIP[IPOf[r]] >= s.maxPerIP
  \/ /\ KeyLimit(s, KeyOf[r]) > 0 /\ KeyOf[r] # NoKey
     /\ perKey[KeyOf[r]] >= KeyLimit(s, KeyOf[r])

\* Admit succeeds: both counters go up in the critical section that tested
\* them; the session itself enters m.live only when the handler registers it.
Admit(r) ==
  /\ Goto(r, "first", "admitted") \/ Goto(r, "retry", "admitted")
  /\ ~Full(snap[r], r)
  /\ perIP' = [perIP EXCEPT ![IPOf[r]] = @ + 1]
  /\ perKey' = [perKey EXCEPT ![KeyOf[r]] = @ + 1]
  /\ snap' = [snap EXCEPT ![r] = Unset]
  /\ UNCHANGED <<rt, polls, gone, live>>

\* The first Admit fails: the overload behaviour in the settings decides.
Overload(r) ==
  /\ Full(snap[r], r)
  /\ \/ snap[r].overload = "queue" /\ Goto(r, "first", "polling")
     \/ snap[r].overload = "hang" /\ Goto(r, "first", "hanging")
     \/ snap[r].overload \in {"reject", "custom_error"} /\ Goto(r, "first", "refused")
  /\ snap' = [snap EXCEPT ![r] = Unset]
  /\ UNCHANGED <<rt, polls, gone, live, perIP, perKey>>

\* Mutant of PollAgain: the deadline starts afresh at every poll.
PollForever(r) ==
  /\ Full(snap[r], r)
  /\ Goto(r, "retry", "polling")
  /\ snap' = [snap EXCEPT ![r] = Unset]
  /\ UNCHANGED <<rt, polls, gone, live, perIP, perKey>>

\* A retry from the queue fails: sleep 200 ms, or leave if the client has gone
\* (both arms of the select may be ready).
PollAgain(r) ==
  /\ Full(snap[r], r)
  /\ \/ Goto(r, "retry", "polling")
     \/ Goto(r, "retry", "refused") /\ r \in gone
  /\ polls' = [polls EXCEPT ![r] = @ + 1]
  /\ snap' = [snap EXCEPT ![r] = Unset]
  /\ UNCHANGED <<rt, gone, live, perIP, perKey>>

\* The 60 s deadline passes: 429.  Polls that take longer than 200 ms make it
\* pass after fewer of them.
QueueTimeout(r) ==
  /\ Goto(r, "polling", "refused")
  /\ polls[r] > 0
  /\ UNCHANGED <<rt, snap, polls, gone, live, perIP, perKey>>

\* Overload behaviour "hang": the handler waits for the client to give up.
HangUp(r) ==
  /\ Goto(r, "hanging", "refused")
  /\ r \in gone
  /\ UNCHANGED <<rt, snap, polls, gone, live, perIP, perKey>>

\* Mutant of ImmediateError: gives the slot back but does not return.
ImmediateErrorGoesOn(r) ==
  /\ pc[r] = "admitted"
  /\ perIP' = [perIP EXCEPT ![IPOf[r]] = @ - 1]
  /\ perKey' = [perKey EXCEPT ![KeyOf[r]] = @ - 1]
  /\ UNCHANGED <<rt, pc, snap, polls, gone, live>>

\* A model of behaviour ImmediateError answers without creating a session.
\* Unregister("") finds no session, so neither counter goes down.
ImmediateError(r) ==
  /\ Goto(r, "admitted", "errored")
  /\ UNCHANGED <<rt, snap, polls, gone, live, perIP, perKey>>

\* Create's last call, Register.
Register(r) ==
  /\ Goto(r, "admitted", "serving")
  /\ live' = live \union {r}
  /\ UNCHANGED <<rt, snap, polls, gone, perIP, perKey>>

\* Mutants of Unregister: the key's counter stays; the session stays.
UnregisterKeepsKey(r) ==
  /\ Goto(r, "serving", "released")
  /\ live' = live \ {r}
  /\ perIP' = [perIP EXCEPT ![IPOf[r]] = @ - 1]
  /\ UNCHANGED <<rt, snap, polls, gone, perKey>>

UnregisterKeepsSession(r) ==
  /\ Goto(r, "serving", "released")
  /\ perIP' = [perIP EXCEPT ![IPOf[r]] = @ - 1]
  /\ perKey' = [perKey EXCEPT ![KeyOf[r]] = @ - 1]
  /\ UNCHANGED <<rt, snap, polls, gone, live>>

\* The handler's deferred Unregister, however the session ended.
Unregister(r) ==
  /\ Goto(r, "serving", "released")
  /\ r \in live
  /\ live' = live \ {r}
  /\ perIP' = IF IPOf[r] # NoIP /\ perIP[IPOf[r]] > 0
              THEN [perIP EXCEPT ![IPOf[r]] = @ - 1] ELSE perIP
  /\ perKey' = IF KeyOf[r] # NoKey /\ perKey[KeyOf[r]] > 0
               THEN [perKey EXCEPT ![KeyOf[r]] = @ - 1] ELSE perKey
  /\ UNCHANGED <<rt, snap, polls, gone>>

\* What the handler does on its own, without the client or an administrator.
\* How long a session lives is not the handler's choice: Unregister is apart.
Handler(r) ==
  \/ ReadSettings(r) \/ Admit(r) \/ Overload(r) \/ PollAgain(r)
  \/ QueueTimeout(r) \/ HangUp(r) \/ ImmediateError(r) \/ Register(r)

Next ==
  \/ \E r \in Requests :
       Arrive(r) \/ Disconnect(r) \/ Handler(r) \/ Unregister(r)
  \/ Reconfigure

Spec == Init /\ [][Next]_vars

\* Goroutines are scheduled; a session whose client has gone is torn down,
\* because every wait of the stream loop also waits on the request context.
Fairness ==
  \A r \in Requests : /\ WF_vars(Handler(r))
                      /\ WF_vars(r \in gone /\ Unregister(r))

FairSpec == Spec /\ Fairness

-----------------------------------------------------------------------------
TypeOK ==
  /\ rt \in Settings
  /\ pc \in [Requests -> Positions]
  /\ snap \in [Requests -> Settings]
  /\ polls \in [Requests -> Nat]
  /\ gone \subseteq Requests
  /\ live \subseteq Requests
  /\ perIP \in [IPs -> Nat]
  /\ perKey \in [Keys -> Nat]


\* Requests that a counter still counts: admitted, serving a session, or
\* answered by ImmediateError and never given back.
Counted == {r \in Requests : pc[r] \in {"admitted", "serving", "errored"}}

From(i) == {r \in Requests : IPOf[r] = i}
Using(k) == {r \in Requests : KeyOf[r] = k}

(***************************************************************************)
(* The counters of Admit and Unregister agree with the requests that took  *)
(* a slot and have not returned it, for every address and every key that a *)
(* limit can apply to.  Admit, Register and Unregister take the lock       *)
(* separately and settings change in between, so a counter that drifts     *)
(* would lock a client out or let it through for good.                     *)
(***************************************************************************)
CountersExact ==
  /\ \A i \in IPs \ {NoIP} : perIP[i] = Cardinality(Counted \intersect From(i))
  /\ \A k \in Keys \ {NoKey} : perKey[k] = Cardinality(Counted \intersect Using(k))

(***************************************************************************)
(* At no time do more sessions of one address run than the largest limit   *)
(* an administrator has ever configured: the slot is reserved in the same  *)
(* critical section that tested the limit, so concurrent handlers and      *)
(* settings read before the lock cannot push it over.                      *)
(***************************************************************************)
IPLimit ==
  \A i \in IPs \ {NoIP}, n \in {s.maxPerIP : s \in Settings} :
    (\A s \in Settings : 0 < s.maxPerIP /\ s.maxPerIP <= n)
      => Cardinality(live \intersect From(i)) <= n

(***************************************************************************)
(* The same for API keys, where a key record's own maximum takes the place *)
(* of the setting.                                                         *)
(***************************************************************************)
KeyLimitHolds ==
  \A k \in Keys \ {NoKey} : \A n \in {KeyLimit(s, k) : s \in Settings} :
    (\A s \in Settings : 0 < KeyLimit(s, k) /\ KeyLimit(s, k) <= n)
      => Cardinality(live \intersect Using(k)) <= n

(***************************************************************************)
(* A queued request is answered: admitted, or refused when the deadline of *)
(* the overload queue passes or its client goes away.                      *)
(***************************************************************************)
QueueResolves ==
  \A r \in Requests : pc[r] = "polling" ~> pc[r] \in {"admitted"} \union Refused

(***************************************************************************)
(* Whatever a request is waiting for (a slot, the hang behaviour, the end  *)
(* of its session), once its client has gone the handler finishes and, if  *)
(* it had registered a session, the session leaves the table.              *)
(***************************************************************************)
GoneFinishes ==
  \A r \in Requests : r \in gone ~> (pc[r] \in Refused /\ r \notin live)

(***************************************************************************)
(* Violated: Unregister("") on the ImmediateError path is commented "no-op *)
(* to keep counters balanced"; balanced counters would count exactly the   *)
(* requests that are being handled.                                        *)
(***************************************************************************)
CountersBalanced ==
  \A i \in IPs \ {NoIP} :
    perIP[i] = Cardinality({r \in From(i) : pc[r] \in {"admitted", "serving"}})

-----------------------------------------------------------------------------
\* What admission promises, seen from outside: slots per address and per key.
Pool == INSTANCE SlotPool WITH holders <- Counted

(***************************************************************************)
(* The counters implement a set of slot holders: every Admit is an acquire *)
(* that the abstract pool allows, every Unregister a release, and no other *)
(* step changes who holds a slot.                                          *)
(***************************************************************************)
ImplementsPool == Pool!Spec

=============================================================================
