------------------------------ MODULE SlotPool ------------------------------
(***************************************************************************)
(* The abstract promise of admission control (sessions.Manager.Admit and   *)
(* Unregister): a set of requests that hold a slot, none of them granted   *)
(* beyond a limit that some stored configuration allows.  There are no     *)
(* counters, locks or settings here.                                       *)
(***************************************************************************)
EXTENDS Integers, FiniteSets

CONSTANTS Requests, IPs, NoIP, Keys, NoKey, IPOf, KeyOf, KeyMax, Settings

VARIABLE holders

IPHolders(i) == {r \in holders : IPOf[r] = i}
KeyHolders(k) == {r \in holders : KeyOf[r] = k}

KeyCap(s, k) == IF KeyMax[k] > 0 THEN KeyMax[k] ELSE s.maxPerKey

\* Under settings s another holder fits beside those of its address and key.
Fits(s, r) ==
  /\ (IPOf[r] # NoIP /\ s.maxPerIP > 0)
       => Cardinality(IPHolders(IPOf[r])) < s.maxPerIP
  /\ (KeyOf[r] # NoKey /\ KeyCap(s, KeyOf[r]) > 0)
       => Cardinality(KeyHolders(KeyOf[r])) < KeyCap(s, KeyOf[r])

Init == holders = {}

Acquire(r) ==
  /\ r \notin holders
  /\ \E s \in Settings : Fits(s, r)
  /\ holders' = holders \union {r}

Release(r) ==
  /\ r \in holders
  /\ holders' = holders \ {r}

Next == \E r \in Requests : Acquire(r) \/ Release(r)

Spec == Init /\ [][Next]_holders
=============================================================================
