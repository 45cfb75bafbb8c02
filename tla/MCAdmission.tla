---------------------------- MODULE MCAdmission ----------------------------
(***************************************************************************)
(* Instances of Admission for TLC.                                         *)
(***************************************************************************)
EXTENDS Admission, TLC

CONSTANTS r1, r2, r3, ip1, key1

Setting(active, ip, key, behaviour) ==
  [maxActive |-> active, maxPerIP |-> ip, maxPerKey |-> key, overload |-> behaviour]

\* Two requests share an address, two a key; one has no address, one no key.
MixedIPOf == [r \in Requests |-> IF r = r2 THEN NoIP ELSE ip1]
MixedKeyOf == [r \in Requests |-> IF r = r3 THEN NoKey ELSE key1]

\* The key's record has a maximum of its own, which overrides the settings.
OwnKeyMax == [k \in Keys |-> IF k = key1 THEN 1 ELSE 0]

\* An administrator switching between configurations with every kind of
\* overload behaviour, one of them without a global limit.
ChangingSettings ==
  {Setting(2, 1, 0, "queue"), Setting(1, 1, 2, "hang"), Setting(0, 1, 1, "reject")}

\* One request per address.
OnePerIP == {Setting(0, 1, 0, "reject")}
=============================================================================
