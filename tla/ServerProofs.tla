------------------------------ MODULE ServerProofs ------------------------------
(***************************************************************************)
(* What holds of the server for any number of administrators, clients,     *)
(* keys, models and files, whatever programs of handlers interleave, fail  *)
(* or are cut by a stop.                                                   *)
(***************************************************************************)
EXTENDS Server, SequenceTheorems, FiniteSetTheorems, TLAPS

-----------------------------------------------------------------------------
(***************************************************************************)
(* The audit log.  Inductive is that the entries are divided among the     *)
(* batch, the hands of the flushers, the table, and those refused or gone: *)
(* no two of these have one in common, and none has an entry twice.        *)
(***************************************************************************)
AuditTyped ==
  /\ logged \in Nat /\ batch \in Seq(Nat) /\ audit \in Seq(Nat)
  /\ DOMAIN hands = Flushers /\ \A f \in Flushers : hands[f] \in Seq(Nat)

Once ==
  /\ IsInjective(batch) /\ IsInjective(audit)
  /\ \A f \in Flushers : IsInjective(hands[f])

\* Where an entry is; the places of one kind exclude those of the others.
InHands(e) == \E f \in Flushers : e \in Range(hands[f])

Divided ==
  /\ \A e : e \in Entries <=> \/ e \in Range(batch) \/ e \in Range(audit)
                              \/ InHands(e) \/ e \in failed \/ e \in lost
  /\ \A e \in Range(batch) : e \notin Range(audit) /\ ~InHands(e) /\ e \notin failed /\ e \notin lost
  /\ \A e \in Range(audit) : ~InHands(e) /\ e \notin failed /\ e \notin lost
  /\ \A e \in failed : ~InHands(e) /\ e \notin lost
  /\ \A e \in lost : ~InHands(e)
  /\ \A f, g \in Flushers : f # g => Range(hands[f]) \intersect Range(hands[g]) = {}

Accounted == AuditTyped /\ Once /\ Divided

-----------------------------------------------------------------------------
\* An entry is appended.
LEMMA AppendedRange ==
  ASSUME NEW s \in Seq(Nat), NEW e \in Nat
  PROVE  /\ Append(s, e) \in Seq(Nat) /\ Range(Append(s, e)) = Range(s) \union {e}
         /\ IsInjective(s) /\ e \notin Range(s) => IsInjective(Append(s, e))
  <1>1. /\ Append(s, e) \in Seq(Nat) /\ DOMAIN Append(s, e) = 1..(Len(s) + 1) /\ DOMAIN s = 1..Len(s)
        /\ Append(s, e)[Len(s) + 1] = e /\ \A i \in 1..Len(s) : Append(s, e)[i] = s[i]
        /\ Len(s) \in Nat
    BY AppendProperties, LenProperties
  <1>2. \A i : i \in 1..(Len(s) + 1) <=> i \in 1..Len(s) \/ i = Len(s) + 1
    BY <1>1
  <1>3. Range(Append(s, e)) = Range(s) \union {e}
    BY <1>1, <1>2 DEF Range
  <1>4. ASSUME IsInjective(s), e \notin Range(s) PROVE IsInjective(Append(s, e))
    BY <1>1, <1>2, <1>4 DEF Range, IsInjective
  <1> QED BY <1>1, <1>3, <1>4

\* The first entry is taken from the others.
LEMMA TailRange ==
  ASSUME NEW s \in Seq(Nat), s # <<>>, IsInjective(s)
  PROVE  /\ Tail(s) \in Seq(Nat) /\ Head(s) \in Nat /\ Head(s) \in Range(s)
         /\ Range(Tail(s)) = Range(s) \ {Head(s)} /\ IsInjective(Tail(s))
  <1>1. /\ Len(s) \in Nat \ {0} /\ DOMAIN s = 1..Len(s) /\ Head(s) = s[1]
        /\ Tail(s) \in Seq(Nat) /\ DOMAIN Tail(s) = 1..(Len(s) - 1)
        /\ \A i \in 1..(Len(s) - 1) : Tail(s)[i] = s[i + 1]
    BY LenProperties, EmptySeq, HeadTailProperties
  <1>2. 1 \in DOMAIN s /\ s[1] \in Nat
    BY <1>1, LenProperties
  <1>3. \A i \in DOMAIN s : i = 1 \/ \E j \in 1..(Len(s) - 1) : i = j + 1
    <2> SUFFICES ASSUME NEW i \in DOMAIN s, i # 1 PROVE \E j \in 1..(Len(s) - 1) : i = j + 1
      OBVIOUS
    <2>1. i - 1 \in 1..(Len(s) - 1) /\ i = (i - 1) + 1
      BY <1>1
    <2> QED BY <2>1
  <1>4. \A j \in 1..(Len(s) - 1) : j + 1 \in DOMAIN s /\ j + 1 # 1
    BY <1>1
  <1>5. \A i, j \in DOMAIN s : s[i] = s[j] => i = j
    BY DEF IsInjective
  <1>6. Range(Tail(s)) = Range(s) \ {Head(s)}
    <2>1. ASSUME NEW e \in Range(Tail(s)) PROVE e \in Range(s) /\ e # Head(s)
      <3>1. PICK j \in 1..(Len(s) - 1) : e = Tail(s)[j]
        BY <1>1, <2>1 DEF Range
      <3>2. e = s[j + 1] /\ j + 1 \in DOMAIN s /\ s[j + 1] # s[1]
        BY <1>1, <1>2, <1>4, <1>5, <3>1
      <3> QED BY <1>1, <3>2 DEF Range
    <2>2. ASSUME NEW e \in Range(s), e # Head(s) PROVE e \in Range(Tail(s))
      <3>1. PICK i \in DOMAIN s : e = s[i] /\ i # 1
        BY <1>1, <2>2 DEF Range
      <3>2. PICK j \in 1..(Len(s) - 1) : i = j + 1
        BY <1>3, <3>1
      <3>3. e = Tail(s)[j] /\ j \in DOMAIN Tail(s)
        BY <1>1, <3>1, <3>2
      <3> QED BY <3>3 DEF Range
    <2> QED BY <2>1, <2>2
  <1>7. IsInjective(Tail(s))
    <2> SUFFICES ASSUME NEW i \in 1..(Len(s) - 1), NEW j \in 1..(Len(s) - 1), Tail(s)[i] = Tail(s)[j]
                 PROVE  i = j
      BY <1>1 DEF IsInjective
    <2>1. i + 1 = j + 1
      BY <1>1, <1>4, <1>5
    <2> QED BY <2>1
  <1> QED BY <1>1, <1>2, <1>6, <1>7 DEF Range

\* Nothing is in an empty sequence.
LEMMA EmptyRange == <<>> \in Seq(Nat) /\ Range(<<>>) = {} /\ IsInjective(<<>>)
  BY EmptySeq DEF Range, IsInjective

\* The positions of an entry in a sequence that has it once at most.
LEMMA SpotsOnce ==
  ASSUME NEW s \in Seq(Nat), IsInjective(s), NEW e, NEW tag
  PROVE  /\ e \notin Range(s) => Spots(s, e, tag) = {}
         /\ e \in Range(s) => \E p : Spots(s, e, tag) = {p}
  <1>1. DOMAIN s = 1..Len(s)
    BY LenProperties
  <1>2. ASSUME e \notin Range(s) PROVE {j \in 1..Len(s) : s[j] = e} = {}
    BY <1>1, <1>2 DEF Range
  <1>3. ASSUME e \in Range(s) PROVE \E i : {j \in 1..Len(s) : s[j] = e} = {i}
    <2>1. PICK i \in 1..Len(s) : s[i] = e
      BY <1>1, <1>3 DEF Range
    <2>2. {j \in 1..Len(s) : s[j] = e} = {i}
      BY <1>1, <2>1 DEF IsInjective
    <2> QED BY <2>2
  <1>4. ASSUME NEW i PROVE {<<tag, k>> : k \in {i}} = {<<tag, i>>}
    OBVIOUS
  <1> QED BY <1>2, <1>3, <1>4 DEF Spots

-----------------------------------------------------------------------------
\* At the start there is no entry.
LEMMA AccountedFirst == AuditInit => Accounted
  <1> SUFFICES ASSUME AuditInit PROVE Accounted
    OBVIOUS
  <1>1. /\ batch = <<>> /\ audit = <<>> /\ logged = 0 /\ failed = {} /\ lost = {}
        /\ DOMAIN hands = Flushers /\ \A f \in Flushers : hands[f] = <<>>
    BY DEF AuditInit
  <1>2. AuditTyped /\ Once
    BY <1>1, EmptyRange DEF AuditTyped, Once
  <1>3. Entries = {} /\ \A e : ~InHands(e)
    BY <1>1, EmptyRange DEF Entries, InHands
  <1>4. Divided
    BY <1>1, <1>3, EmptyRange DEF Divided
  <1> QED BY <1>2, <1>4 DEF Accounted

\* Every step keeps the division: Log adds an entry, a flusher takes all of the
\* batch and then puts entry after entry into the table or drops it, and the end
\* of the process drops what is left.
LEMMA AccountedStep == Accounted /\ [AuditNext]_auditVars => Accounted'
  <1> SUFFICES ASSUME Accounted, [AuditNext]_auditVars PROVE Accounted'
    OBVIOUS
  <1>1. AuditTyped /\ Once /\ Divided
    BY DEF Accounted
  <1>2. CASE UNCHANGED auditVars
    BY <1>1, <1>2 DEF auditVars, Accounted, AuditTyped, Once, Divided, InHands, Entries
  <1>3. CASE Log
    <2> DEFINE n == logged + 1
    <2>1. /\ logged' = n /\ batch' = Append(batch, n) /\ n \in Nat
          /\ UNCHANGED <<hands, audit, failed, lost>>
      BY <1>1, <1>3 DEF Log, AuditTyped
    <2>2. n \notin Entries /\ Entries' = Entries \union {n}
      BY <1>1, <2>1 DEF Entries, AuditTyped
    <2> HIDE DEF n
    <2>3. /\ n \notin Range(batch) /\ n \notin Range(audit) /\ ~InHands(n)
          /\ n \notin failed /\ n \notin lost
      BY <1>1, <2>2 DEF Divided
    <2>4. /\ batch' \in Seq(Nat) /\ Range(batch') = Range(batch) \union {n} /\ IsInjective(batch')
      BY <1>1, <2>1, <2>3, AppendedRange DEF AuditTyped, Once
    <2>5. \A e : InHands(e)' <=> InHands(e)
      BY <2>1 DEF InHands
    <2>6. AuditTyped' /\ Once'
      BY <1>1, <2>1, <2>4 DEF AuditTyped, Once
    <2>7. Divided'
      BY <1>1, <2>1, <2>2, <2>3, <2>4, <2>5 DEF Divided
    <2> QED BY <2>6, <2>7 DEF Accounted
  <1>4. ASSUME NEW f \in Flushers, TakeBatch(f) PROVE Accounted'
    <2>1. /\ hands[f] = <<>> /\ batch' = <<>> /\ DOMAIN hands' = Flushers
          /\ hands'[f] = batch /\ \A g \in Flushers \ {f} : hands'[g] = hands[g]
          /\ UNCHANGED <<audit, logged, failed, lost>>
      BY <1>1, <1>4 DEF TakeBatch, AuditTyped
    <2>2. /\ Range(hands[f]) = {} /\ Range(batch') = {} /\ Range(hands'[f]) = Range(batch)
          /\ batch' \in Seq(Nat) /\ IsInjective(batch')
      BY <2>1, EmptyRange
    <2>3. /\ \A e : InHands(e)' <=> InHands(e) \/ e \in Range(batch)
          /\ Entries' = Entries
      BY <2>1, <2>2 DEF InHands, Entries
    <2>4. AuditTyped' /\ Once'
      BY <1>1, <2>1, <2>2 DEF AuditTyped, Once
    <2>5. \A g, h \in Flushers : g # h => Range(hands'[g]) \intersect Range(hands'[h]) = {}
      <3>1. \A g \in Flushers \ {f} : Range(hands[g]) \intersect Range(batch) = {}
        BY <1>1 DEF Divided, InHands
      <3> QED BY <1>1, <2>1, <2>2, <3>1 DEF Divided
    <2>6. Divided'
      BY <1>1, <2>1, <2>2, <2>3, <2>5 DEF Divided
    <2> QED BY <2>4, <2>6 DEF Accounted
  <1>5. ASSUME NEW f \in Flushers, AppendAudit(f) PROVE Accounted'
    <2> DEFINE x == Head(hands[f])
    <2>1. /\ hands[f] # <<>> /\ DOMAIN hands' = Flushers
          /\ hands'[f] = Tail(hands[f]) /\ \A g \in Flushers \ {f} : hands'[g] = hands[g]
          /\ \/ audit' = Append(audit, x) /\ failed' = failed
             \/ failed' = failed \union {x} /\ audit' = audit
          /\ UNCHANGED <<batch, logged, lost>>
      BY <1>1, <1>5 DEF AppendAudit, AuditTyped
    <2>2. /\ hands'[f] \in Seq(Nat) /\ x \in Nat /\ x \in Range(hands[f])
          /\ Range(hands'[f]) = Range(hands[f]) \ {x} /\ IsInjective(hands'[f])
      BY <1>1, <2>1, TailRange DEF AuditTyped, Once
    <2> HIDE DEF x
    <2>3. /\ InHands(x) /\ x \notin Range(batch) /\ x \notin Range(audit) /\ x \notin failed
          /\ x \notin lost /\ \A g \in Flushers \ {f} : x \notin Range(hands[g])
      BY <1>1, <2>2 DEF Divided, InHands
    <2>4. \A e : InHands(e)' <=> InHands(e) /\ e # x
      BY <2>1, <2>2, <2>3 DEF InHands
    <2>5. /\ audit' \in Seq(Nat) /\ IsInjective(audit')
          /\ \/ Range(audit') = Range(audit) \union {x} /\ failed' = failed
             \/ Range(audit') = Range(audit) /\ failed' = failed \union {x}
      BY <1>1, <2>1, <2>2, <2>3, AppendedRange DEF AuditTyped, Once
    <2>6. AuditTyped' /\ Once'
      BY <1>1, <2>1, <2>2, <2>5 DEF AuditTyped, Once
    <2>7. \A g, h \in Flushers : g # h => Range(hands'[g]) \intersect Range(hands'[h]) = {}
      BY <1>1, <2>1, <2>2 DEF Divided
    <2>8. Entries' = Entries
      BY <2>1 DEF Entries
    <2>9. Divided'
      <3>1. CASE Range(audit') = Range(audit) \union {x} /\ failed' = failed
        BY <1>1, <2>1, <2>3, <2>4, <2>7, <2>8, <3>1 DEF Divided
      <3>2. CASE Range(audit') = Range(audit) /\ failed' = failed \union {x}
        BY <1>1, <2>1, <2>3, <2>4, <2>7, <2>8, <3>2 DEF Divided
      <3> QED BY <2>5, <3>1, <3>2
    <2> QED BY <2>6, <2>9 DEF Accounted
  <1>6. CASE Forget
    <2>1. /\ batch' = <<>> /\ DOMAIN hands' = Flushers /\ \A f \in Flushers : hands'[f] = <<>>
          /\ UNCHANGED <<audit, logged, failed>>
          /\ \A e : e \in lost' <=> e \in lost \/ e \in Range(batch) \/ InHands(e)
      BY <1>6 DEF Forget, InHands
    <2>2. Range(batch') = {} /\ \A e : ~InHands(e)'
      BY <2>1, EmptyRange DEF InHands
    <2>3. AuditTyped' /\ Once'
      BY <1>1, <2>1, EmptyRange DEF AuditTyped, Once
    <2>4. Entries' = Entries /\ \A f \in Flushers : Range(hands'[f]) = {}
      BY <2>1, EmptyRange DEF Entries
    <2>5. Divided'
      BY <1>1, <2>1, <2>2, <2>4 DEF Divided
    <2> QED BY <2>3, <2>5 DEF Accounted
  <1> QED BY <1>2, <1>3, <1>4, <1>5, <1>6 DEF AuditNext

\* An entry that is in one place, and once there, has one place.
LEMMA AccountedOnce == Accounted => AuditOnce
  <1> SUFFICES ASSUME Accounted, NEW e \in Entries PROVE Cardinality(Places(e)) = 1
    BY DEF AuditOnce
  <1> DEFINE hand == UNION {Spots(hands[f], e, f) : f \in Flushers}
             refused == IF e \in failed THEN {<<"failed", 0>>} ELSE {}
             gone == IF e \in lost THEN {<<"lost", 0>>} ELSE {}
  <1>1. AuditTyped /\ Once /\ Divided
    BY DEF Accounted
  <1>2. Places(e) = ((Spots(batch, e, "batch") \union Spots(audit, e, "audit")) \union hand)
                      \union (refused \union gone)
    BY DEF Places
  <1>3. /\ e \notin Range(batch) => Spots(batch, e, "batch") = {}
        /\ e \in Range(batch) => \E p : Spots(batch, e, "batch") = {p}
        /\ e \notin Range(audit) => Spots(audit, e, "audit") = {}
        /\ e \in Range(audit) => \E p : Spots(audit, e, "audit") = {p}
    BY <1>1, SpotsOnce DEF AuditTyped, Once
  <1>4. ASSUME NEW f \in Flushers
        PROVE  /\ e \notin Range(hands[f]) => Spots(hands[f], e, f) = {}
               /\ e \in Range(hands[f]) => \E p : Spots(hands[f], e, f) = {p}
    BY <1>1, SpotsOnce DEF AuditTyped, Once
  <1>5. ~InHands(e) => hand = {}
    BY <1>4 DEF InHands
  <1>6. InHands(e) => \E p : hand = {p}
    <2> SUFFICES ASSUME InHands(e) PROVE \E p : hand = {p}
      OBVIOUS
    <2>1. PICK f \in Flushers : e \in Range(hands[f])
      BY DEF InHands
    <2>2. PICK p : Spots(hands[f], e, f) = {p}
      BY <1>4, <2>1
    <2>3. \A g \in Flushers \ {f} : Spots(hands[g], e, g) = {}
      BY <1>1, <1>4, <2>1 DEF Divided
    <2>4. hand = {p}
      BY <2>2, <2>3
    <2> QED BY <2>4
  <1>7. /\ e \in failed => \E p : refused = {p}
        /\ e \notin failed => refused = {}
        /\ e \in lost => \E p : gone = {p}
        /\ e \notin lost => gone = {}
    OBVIOUS
  <1> HIDE DEF hand, refused, gone
  <1>8. \E p : Places(e) = {p}
    <2>1. CASE e \in Range(batch)
      BY <1>1, <1>2, <1>3, <1>5, <1>7, <2>1 DEF Divided
    <2>2. CASE e \in Range(audit)
      BY <1>1, <1>2, <1>3, <1>5, <1>7, <2>2 DEF Divided
    <2>3. CASE InHands(e)
      BY <1>1, <1>2, <1>3, <1>6, <1>7, <2>3 DEF Divided
    <2>4. CASE e \in failed
      BY <1>1, <1>2, <1>3, <1>5, <1>7, <2>4 DEF Divided
    <2>5. CASE e \in lost
      BY <1>1, <1>2, <1>3, <1>5, <1>7, <2>5 DEF Divided
    <2> QED BY <1>1, <2>1, <2>2, <2>3, <2>4, <2>5 DEF Divided
  <1> QED BY <1>8, FS_Singleton

\* AuditOnce, of the log by itself: no interleaving of flushers loses an entry or
\* stores it twice.
THEOREM EntriesOnce == AuditSpec => []AuditOnce
  BY AccountedFirst, AccountedStep, AccountedOnce, PTL DEF AuditSpec

-----------------------------------------------------------------------------
(***************************************************************************)
(* The programs of the handlers.                                           *)
(***************************************************************************)
\* What steps there are.
Ops ==
  {"list", "update", "delete_key", "lookup", "query", "fill", "settings",
   "get", "insert", "clone", "update_model", "delete_model", "resolve", "begin", "end",
   "create", "write", "create_row", "find", "open", "preview", "remove", "delete_row",
   "login", "logout", "verify", "set", "save", "log", "flush", "append"}

\* Steps that rely on the one before, and those that rely on the one after.
LaterOps ==
  {"write", "create_row", "update", "fill", "resolve", "open", "remove", "save", "clone",
   "update_model"}
OpeningOps == {"begin", "set"}

\* What the steps are given, in the area they are of.
KeyPatches == {[enabled |-> b] : b \in BOOLEAN} \union {[limit |-> l] : l \in Limits}

ModelPatches ==
  {[enabled |-> b] : b \in BOOLEAN} \union {[text |-> t] : t \in Texts}
  \union {[id |-> id] : id \in ModelIds}

SettingsPatches == {[keyMode |-> m] : m \in {"any", "require"}} \union {[fallback |-> TRUE]}

\* Which steps have which arguments.
ModelOps == {"get", "clone", "resolve", "delete_model"}
PasswordOps == {"login", "verify", "set", "save"}
PlainOps == Ops \ (ModelOps \union PasswordOps \union {"insert", "update", "update_model", "settings"})

Steps ==
  {[op |-> o] : o \in PlainOps}
  \union {[op |-> o, id |-> id] : o \in ModelOps, id \in ModelIds}
  \union {[op |-> o, id |-> id, text |-> t] : o \in {"insert"}, id \in ModelIds, t \in Texts}
  \union {[op |-> o, patch |-> patch] : o \in {"update"}, patch \in KeyPatches}
  \union {[op |-> o, patch |-> patch] : o \in {"update_model"}, patch \in ModelPatches}
  \union {[op |-> o, patch |-> patch] : o \in {"settings"}, patch \in SettingsPatches}
  \union {[op |-> o, password |-> p] : o \in PasswordOps, p \in Passwords}

\* Which step may come after which: a request's key is checked first, and what
\* a step works on is what the one before it read, wrote or set.
Follows(a, b) ==
  /\ b.op \notin {"lookup", "login"}
  /\ b.op = "write" => a.op = "create"
  /\ b.op = "create_row" => a.op = "write"
  /\ b.op = "update" => a.op = "list"
  /\ b.op \in {"clone", "update_model"} => a.op = "get"
  /\ b.op = "fill" => a.op = "query"
  /\ b.op = "resolve" => a.op \in {"lookup", "fill"}
  /\ b.op \in {"open", "remove"} => a.op = "find"
  /\ b.op = "save" => a.op = "set"
  /\ a.op = "begin" => b.op = "end"
  /\ a.op = "set" => b.op = "save" /\ b.password = a.password

\* What a handler still has to do.
Shaped(p) ==
  /\ p \in Seq(Steps)
  /\ \A i \in 1..(Len(p) - 1) : Follows(p[i], p[i + 1])
  /\ p # <<>> => p[Len(p)].op \notin OpeningOps

\* What it has to do when a request arrives.
Fresh(p) == Shaped(p) /\ p # <<>> /\ p[1].op \notin LaterOps

\* The rest of a program is a program, and begins with a step that may follow.
LEMMA TailShaped ==
  ASSUME NEW p, Shaped(p), p # <<>>
  PROVE  /\ Shaped(Tail(p))
         /\ Tail(p) # <<>> => Follows(Head(p), Head(Tail(p)))
  <1>1. /\ Len(p) \in Nat \ {0} /\ Tail(p) \in Seq(Steps) /\ Len(Tail(p)) = Len(p) - 1
        /\ \A i \in 1..Len(Tail(p)) : Tail(p)[i] = p[i + 1] /\ i + 1 \in 1..Len(p)
        /\ Head(p) = p[1] /\ p \in Seq(Steps)
        /\ Tail(p) # <<>> => Len(Tail(p)) # 0 /\ Head(Tail(p)) = Tail(p)[1]
    BY LenProperties, HeadTailProperties, EmptySeq DEF Shaped
  <1>3. \A i \in 1..(Len(Tail(p)) - 1) : Follows(Tail(p)[i], Tail(p)[i + 1])
    <2> SUFFICES ASSUME NEW i \in 1..(Len(Tail(p)) - 1)
                 PROVE  Follows(Tail(p)[i], Tail(p)[i + 1])
      OBVIOUS
    <2>1. i + 1 \in 1..(Len(p) - 1) /\ Tail(p)[i] = p[i + 1] /\ Tail(p)[i + 1] = p[(i + 1) + 1]
      BY <1>1
    <2> QED BY <2>1 DEF Shaped
  <1>4. Tail(p) # <<>> => Tail(p)[Len(Tail(p))] = p[Len(p)] /\ Follows(p[1], Tail(p)[1])
    <2> SUFFICES ASSUME Tail(p) # <<>>
                 PROVE  Tail(p)[Len(Tail(p))] = p[Len(p)] /\ Follows(p[1], Tail(p)[1])
      OBVIOUS
    <2>1. Len(Tail(p)) \in 1..Len(Tail(p)) /\ 1 \in 1..Len(Tail(p)) /\ 1 \in 1..(Len(p) - 1)
      BY <1>1
    <2>2. Tail(p)[1] = p[1 + 1] /\ Tail(p)[Len(Tail(p))] = p[Len(p)]
      BY <1>1, <2>1
    <2> QED BY <2>1, <2>2 DEF Shaped
  <1>5. p[Len(p)].op \notin OpeningOps
    BY DEF Shaped
  <1> QED BY <1>1, <1>3, <1>4, <1>5 DEF Shaped

\* The step a program is at.
LEMMA HeadFormed ==
  ASSUME NEW p, Shaped(p), p # <<>>
  PROVE  Head(p) = p[1] /\ Head(p) \in Steps
  <1>1. Head(p) = p[1] /\ Len(p) \in Nat \ {0}
    BY LenProperties, HeadTailProperties, EmptySeq DEF Shaped
  <1> QED BY <1>1 DEF Shaped

\* A step without arguments is a step.
LEMMA OpStep ==
  ASSUME NEW o \in PlainOps
  PROVE  Do(o) \in Steps /\ Do(o).op = o
  BY DEF Do, Steps

\* One program after another is one, if its first step may follow the other's last.
LEMMA JoinShaped ==
  ASSUME NEW p, NEW q, Shaped(p), Shaped(q), p # <<>>, q # <<>>, Follows(p[Len(p)], q[1])
  PROVE  Shaped(p \o q) /\ p \o q # <<>> /\ (p \o q)[1] = p[1]
  <1>1. /\ p \in Seq(Steps) /\ q \in Seq(Steps) /\ Len(p) \in Nat \ {0} /\ Len(q) \in Nat \ {0}
    BY LenProperties, EmptySeq DEF Shaped
  <1>2. /\ p \o q \in Seq(Steps) /\ Len(p \o q) = Len(p) + Len(q)
        /\ \A i \in 1..Len(p) : (p \o q)[i] = p[i]
        /\ \A i \in 1..Len(q) : (p \o q)[Len(p) + i] = q[i]
    BY <1>1, ConcatProperties
  <1>3. \A i \in 1..(Len(p) + Len(q)) : i \in 1..Len(p) \/ \E j \in 1..Len(q) : i = Len(p) + j
    <2> SUFFICES ASSUME NEW i \in 1..(Len(p) + Len(q)), i \notin 1..Len(p)
                 PROVE  \E j \in 1..Len(q) : i = Len(p) + j
      OBVIOUS
    <2>1. i - Len(p) \in 1..Len(q) /\ i = Len(p) + (i - Len(p))
      BY <1>1
    <2> QED BY <2>1
  <1>5. \A i \in 1..(Len(p \o q) - 1) : Follows((p \o q)[i], (p \o q)[i + 1])
    <2> SUFFICES ASSUME NEW i \in 1..(Len(p) + Len(q) - 1)
                 PROVE  Follows((p \o q)[i], (p \o q)[i + 1])
      BY <1>2
    <2>1. CASE i < Len(p)
      <3>1. i \in 1..Len(p) /\ i + 1 \in 1..Len(p) /\ i \in 1..(Len(p) - 1)
        BY <1>1, <2>1
      <3> QED BY <1>2, <3>1 DEF Shaped
    <2>2. CASE i = Len(p)
      <3>1. (p \o q)[i] = p[Len(p)] /\ (p \o q)[i + 1] = q[1]
        BY <1>1, <1>2, <2>2
      <3> QED BY <3>1
    <2>3. CASE i > Len(p)
      <3> DEFINE j == i - Len(p)
      <3>1. j \in 1..(Len(q) - 1) /\ j \in 1..Len(q) /\ j + 1 \in 1..Len(q)
            /\ i = Len(p) + j /\ i + 1 = Len(p) + (j + 1)
        BY <1>1, <2>3
      <3> HIDE DEF j
      <3>2. (p \o q)[i] = q[j] /\ (p \o q)[i + 1] = q[j + 1]
        BY <1>2, <3>1
      <3> QED BY <3>1, <3>2 DEF Shaped
    <2> QED BY <1>1, <2>1, <2>2, <2>3
  <1>6. (p \o q)[Len(p \o q)] = q[Len(q)] /\ (p \o q)[1] = p[1] /\ Len(p \o q) # 0
    BY <1>1, <1>2
  <1>7. q[Len(q)].op \notin OpeningOps
    BY DEF Shaped
  <1>8. p \o q # <<>>
    BY <1>6, EmptySeq
  <1> QED BY <1>2, <1>5, <1>6, <1>7, <1>8 DEF Shaped

\* Two programs, one after the other, make a program.
LEMMA JoinFresh ==
  ASSUME NEW p, NEW q, Fresh(p), Shaped(q), q # <<>>, Follows(p[Len(p)], q[1])
  PROVE  Fresh(p \o q)
  BY JoinShaped DEF Fresh

\* A handler of one step.
LEMMA OneFresh ==
  ASSUME NEW s \in Steps, s.op \in Ops \ (LaterOps \union OpeningOps)
  PROVE  Fresh(<<s>>) /\ Len(<<s>>) = 1 /\ <<s>>[1] = s
  BY DEF Fresh, Shaped

\* A handler may log its operation at the end.
LEMMA LoggedFresh ==
  ASSUME NEW p, Fresh(p)
  PROVE  Fresh(Logged(p))
  <1> DEFINE d == Do("log")
  <1>1. d \in Steps /\ d.op = "log" /\ Fresh(<<d>>) /\ <<d>>[1] = d /\ d \in Steps
    BY OpStep, OneFresh DEF Ops, PlainOps, ModelOps, PasswordOps, LaterOps, OpeningOps
  <1> HIDE DEF d
  <1>2. Append(p, d) = p \o <<d>>
    BY <1>1, AppendIsConcat DEF Fresh, Shaped
  <1>3. p[Len(p)].op \notin OpeningOps
    BY DEF Fresh, Shaped
  <1>4. Follows(p[Len(p)], <<d>>[1])
    BY <1>1, <1>3 DEF Follows, OpeningOps
  <1>5. Fresh(p \o <<d>>)
    BY <1>1, <1>4, JoinFresh DEF Fresh
  <1> QED BY <1>2, <1>5 DEF Logged, d

\* A handler of two steps that logs, or not.
LEMMA TwoFresh ==
  ASSUME NEW s \in Steps, NEW t \in Steps, s.op \in Ops \ LaterOps, Follows(s, t),
         t.op \in Ops \ OpeningOps
  PROVE  Fresh(<<s, t>>) /\ Fresh(Logged(<<s, t>>))
  <1>1. Fresh(<<s, t>>)
    BY DEF Fresh, Shaped
  <1> QED BY <1>1, LoggedFresh

\* A handler of three steps, that logs or not.
LEMMA ThreeFresh ==
  ASSUME NEW s \in Steps, NEW t \in Steps, NEW u \in Steps, s.op \in Ops \ LaterOps,
         Follows(s, t), Follows(t, u), u.op \in Ops \ OpeningOps
  PROVE  Fresh(<<s, t, u>>) /\ Fresh(Logged(<<s, t, u>>))
  <1>1. Fresh(<<s, t, u>>)
    BY DEF Fresh, Shaped
  <1> QED BY <1>1, LoggedFresh

-----------------------------------------------------------------------------
\* The steps that patch a row or the settings.
LEMMA PatchSteps ==
  /\ \A patch \in KeyPatches : [op |-> "update", patch |-> patch] \in Steps
  /\ \A patch \in ModelPatches : [op |-> "update_model", patch |-> patch] \in Steps
  /\ \A patch \in SettingsPatches : [op |-> "settings", patch |-> patch] \in Steps
  <1>1. ASSUME NEW patch \in KeyPatches PROVE [op |-> "update", patch |-> patch] \in Steps
    BY DEF Steps
  <1>2. ASSUME NEW patch \in ModelPatches PROVE [op |-> "update_model", patch |-> patch] \in Steps
    BY DEF Steps
  <1>3. ASSUME NEW patch \in SettingsPatches PROVE [op |-> "settings", patch |-> patch] \in Steps
    BY DEF Steps
  <1> QED BY <1>1, <1>2, <1>3

\* The steps on a model.
LEMMA ModelSteps ==
  ASSUME NEW id \in ModelIds
  PROVE  /\ \A o \in ModelOps : [op |-> o, id |-> id] \in Steps
         /\ \A t \in Texts : [op |-> "insert", id |-> id, text |-> t] \in Steps
  BY DEF Steps

\* The steps with a password.
LEMMA PasswordSteps ==
  ASSUME NEW o \in PasswordOps, NEW p \in Passwords
  PROVE  [op |-> o, password |-> p] \in Steps
  BY DEF Steps

\* What arguments a step has, then.
LEMMA StepArguments ==
  ASSUME NEW s \in Steps
  PROVE  /\ s.op \in Ops
         /\ s.op \in ModelOps \union {"insert"} => s.id \in ModelIds
         /\ s.op = "insert" => s.text \in Texts
         /\ s.op = "update" => s.patch \in KeyPatches
         /\ s.op = "update_model" => s.patch \in ModelPatches
         /\ s.op = "settings" => s.patch \in SettingsPatches
         /\ s.op \in PasswordOps => s.password \in Passwords
  <1> USE DEF Ops, PlainOps, ModelOps, PasswordOps
  <1>1. CASE \E o \in PlainOps : s = [op |-> o]
    BY <1>1
  <1>2. CASE \E o \in ModelOps, id \in ModelIds : s = [op |-> o, id |-> id]
    BY <1>2
  <1>3. CASE \E id \in ModelIds, t \in Texts : s = [op |-> "insert", id |-> id, text |-> t]
    BY <1>3
  <1>4. CASE \E patch \in KeyPatches : s = [op |-> "update", patch |-> patch]
    BY <1>4
  <1>5. CASE \E patch \in ModelPatches : s = [op |-> "update_model", patch |-> patch]
    BY <1>5
  <1>6. CASE \E patch \in SettingsPatches : s = [op |-> "settings", patch |-> patch]
    BY <1>6
  <1>7. CASE \E o \in PasswordOps, p \in Passwords : s = [op |-> o, password |-> p]
    BY <1>7
  <1> QED BY ONLY <1>1, <1>2, <1>3, <1>4, <1>5, <1>6, <1>7, s \in Steps DEF Steps

\* The programs of handleKeyDetail and handleSettings.
LEMMA KeyPrograms ==
  /\ \A patch \in KeyPatches : Fresh(EditOfKey(patch))
  /\ \A patch \in SettingsPatches : Fresh(SetSettings(patch))
  /\ Fresh(DeletionOfKey)
  <1> DEFINE d(o) == Do(o)
             u(patch) == [op |-> "update", patch |-> patch]
             e(patch) == [op |-> "settings", patch |-> patch]
  <1>1. /\ d("list") \in Steps /\ d("list").op = "list"
        /\ d("delete_key") \in Steps /\ d("delete_key").op = "delete_key"
    BY OpStep DEF Ops, PlainOps, ModelOps, PasswordOps
  <1>2. /\ \A patch \in KeyPatches : u(patch) \in Steps /\ u(patch).op = "update"
        /\ \A patch \in SettingsPatches : e(patch) \in Steps /\ e(patch).op = "settings"
    BY PatchSteps
  <1> HIDE DEF d, u, e
  <1>3. ASSUME NEW patch \in KeyPatches PROVE Fresh(Logged(<<d("list"), u(patch)>>))
    <2>1. Follows(d("list"), u(patch))
      BY <1>1, <1>2 DEF Follows
    <2> QED BY <1>1, <1>2, <2>1, TwoFresh DEF Ops, LaterOps, OpeningOps
  <1>4. ASSUME NEW patch \in SettingsPatches PROVE Fresh(Logged(<<e(patch)>>))
    BY <1>2, OneFresh, LoggedFresh DEF Ops, LaterOps, OpeningOps
  <1>5. Fresh(Logged(<<d("list"), d("delete_key")>>))
    <2>1. Follows(d("list"), d("delete_key"))
      BY <1>1 DEF Follows
    <2> QED BY <1>1, <2>1, TwoFresh DEF Ops, LaterOps, OpeningOps
  <1> QED BY <1>3, <1>4, <1>5 DEF EditOfKey, SetSettings, DeletionOfKey, d, u, e

\* The programs of handleModels and handleModelDetail.
LEMMA ModelPrograms ==
  ASSUME NEW id \in ModelIds
  PROVE  /\ \A t \in Texts : Fresh(NewModel(id, t))
         /\ \A new \in ModelIds : Fresh(Clone(id, new))
         /\ Fresh(DeletionOfModel(id))
         /\ \A patch \in ModelPatches : Fresh(EditOfModel(id, patch))
  <1> USE DEF Ops, LaterOps, OpeningOps
  <1>1. ASSUME NEW t \in Texts PROVE Fresh(NewModel(id, t))
    BY ModelSteps, OneFresh, LoggedFresh DEF NewModel
  <1>2. ASSUME NEW s \in Steps, NEW t \in Steps, s.op = "get", t.op \in {"clone", "update_model"}
        PROVE  Fresh(Logged(<<s, t>>))
    <2>1. Follows(s, t)
      BY <1>2 DEF Follows
    <2> QED BY <1>2, <2>1, TwoFresh
  <1> DEFINE g == [op |-> "get", id |-> id]
             c(new) == [op |-> "clone", id |-> new]
             u(patch) == [op |-> "update_model", patch |-> patch]
  <1>3. /\ g \in Steps /\ g.op = "get"
        /\ \A new \in ModelIds : c(new) \in Steps /\ c(new).op = "clone"
        /\ \A patch \in ModelPatches : u(patch) \in Steps /\ u(patch).op = "update_model"
    BY ModelSteps, PatchSteps DEF ModelOps
  <1> HIDE DEF g, c, u
  <1>4. ASSUME NEW new \in ModelIds PROVE Fresh(Clone(id, new))
    <2>1. Fresh(Logged(<<g, c(new)>>))
      BY <1>2, <1>3
    <2> QED BY <2>1 DEF Clone, g, c
  <1>5. Fresh(DeletionOfModel(id))
    BY ModelSteps, OneFresh, LoggedFresh DEF DeletionOfModel, ModelOps
  <1>6. ASSUME NEW patch \in ModelPatches PROVE Fresh(EditOfModel(id, patch))
    <2>1. Fresh(Logged(<<g, u(patch)>>))
      BY <1>2, <1>3
    <2> QED BY <2>1 DEF EditOfModel, g, u
  <1> QED BY <1>1, <1>4, <1>5, <1>6

\* The programs of handleLogin, handleLogout, handlePassword and handleAudit.
LEMMA AccountPrograms ==
  /\ Fresh(LogOut) /\ Fresh(ListAudit)
  /\ \A p \in Passwords : Fresh(LogIn(p))
  /\ \A old \in Passwords, new \in Passwords : Fresh(ChangePassword(old, new))
  <1> DEFINE step(op, p) == [op |-> op, password |-> p]
  <1>1. ASSUME NEW op \in {"login", "verify", "set", "save"}, NEW p \in Passwords
        PROVE  step(op, p) \in Steps /\ step(op, p).op = op /\ step(op, p).password = p
    BY PasswordSteps DEF PasswordOps
  <1> HIDE DEF step
  <1>2. ASSUME NEW p \in Passwords PROVE Fresh(Logged(<<step("login", p)>>))
    BY <1>1, OneFresh, LoggedFresh DEF Ops, LaterOps, OpeningOps
  <1>3. ASSUME NEW old \in Passwords, NEW new \in Passwords
        PROVE  Fresh(Logged(<<step("verify", old), step("set", new), step("save", new)>>))
    <2>1. Follows(step("verify", old), step("set", new)) /\ Follows(step("set", new), step("save", new))
      BY <1>1 DEF Follows
    <2> QED BY <1>1, <2>1, ThreeFresh DEF Ops, LaterOps, OpeningOps
  <1>4. Fresh(LogOut) /\ Fresh(ListAudit)
    BY OpStep, OneFresh DEF LogOut, ListAudit, PlainOps, ModelOps, PasswordOps, Ops, LaterOps, OpeningOps
  <1> QED BY <1>2, <1>3, <1>4 DEF LogIn, ChangePassword, step

\* The programs of chat completions and of the handlers of files and assets.
LEMMA ClientForms ==
  /\ \A id \in ModelIds : Fresh(Chat(id))
  /\ Fresh(Check \o Upload) /\ Fresh(UploadForm) /\ Fresh(Download) /\ Fresh(<<Do("preview")>>)
  /\ Fresh(DeleteOwn) /\ Fresh(Logged(Deletion))
  <1> DEFINE d(o) == Do(o)
  <1>1. ASSUME NEW o \in PlainOps PROVE d(o) \in Steps /\ d(o).op = o
    BY OpStep
  <1> HIDE DEF d
  <1>2. /\ Fresh(<<d("lookup")>>) /\ Len(<<d("lookup")>>) = 1 /\ <<d("lookup")>>[1].op = "lookup"
        /\ Fresh(<<d("preview")>>)
    BY <1>1, OneFresh DEF Ops, PlainOps, ModelOps, PasswordOps, LaterOps, OpeningOps
  <1>3. ASSUME NEW q, Shaped(q), q # <<>>,
               q[1].op \notin {"lookup", "write", "create_row", "update", "fill", "open", "remove", "save",
                           "clone", "update_model", "login"}
        PROVE  Fresh(<<d("lookup")>> \o q)
    <2>1. Follows(<<d("lookup")>>[Len(<<d("lookup")>>)], q[1])
      BY <1>2, <1>3 DEF Follows
    <2> QED BY <1>2, <1>3, <2>1, JoinFresh
  <1>4. ASSUME NEW id \in ModelIds
        PROVE  Fresh(Chat(id))
    <2> DEFINE r == [op |-> "resolve", id |-> id]
    <2>1. r \in Steps /\ r.op = "resolve"
      BY ModelSteps DEF ModelOps
    <2>2. d("begin") \in Steps /\ d("begin").op = "begin" /\ d("end") \in Steps /\ d("end").op = "end"
      BY <1>1 DEF Ops, PlainOps, ModelOps, PasswordOps
    <2> HIDE DEF r
    <2>3. Shaped(<<r, d("begin"), d("end")>>) /\ <<r, d("begin"), d("end")>>[1] = r
          /\ <<r, d("begin"), d("end")>> # <<>>
      BY <2>1, <2>2 DEF Shaped, Follows, OpeningOps
    <2>4. Fresh(<<d("lookup")>> \o <<r, d("begin"), d("end")>>)
      BY <1>3, <2>1, <2>3
    <2> QED BY <2>4 DEF r, d, Chat, Check
  <1>5. /\ Fresh(<<d("create"), d("write"), d("create_row")>>)
        /\ <<d("create"), d("write"), d("create_row")>>[1].op = "create"
        /\ <<d("create"), d("write"), d("create_row")>>[3].op = "create_row"
        /\ Len(<<d("create"), d("write"), d("create_row")>>) = 3
    <2>1. /\ d("create") \in Steps /\ d("create").op = "create"
          /\ d("write") \in Steps /\ d("write").op = "write"
          /\ d("create_row") \in Steps /\ d("create_row").op = "create_row"
      BY <1>1 DEF Ops, PlainOps, ModelOps, PasswordOps
    <2>2. Follows(d("create"), d("write")) /\ Follows(d("write"), d("create_row"))
      BY <2>1 DEF Follows
    <2> QED BY <2>1, <2>2, ThreeFresh DEF Ops, LaterOps, OpeningOps
  <1>6. Fresh(<<d("find"), d("open")>>) /\ <<d("find"), d("open")>>[1].op = "find"
    <2>1. d("find") \in Steps /\ d("find").op = "find" /\ d("open") \in Steps /\ d("open").op = "open"
      BY <1>1 DEF Ops, PlainOps, ModelOps, PasswordOps
    <2>2. Follows(d("find"), d("open"))
      BY <2>1 DEF Follows
    <2> QED BY <2>1, <2>2, TwoFresh DEF Ops, LaterOps, OpeningOps
  <1>7. /\ Fresh(<<d("find"), d("remove"), d("delete_row")>>)
        /\ Fresh(Logged(<<d("find"), d("remove"), d("delete_row")>>))
        /\ <<d("find"), d("remove"), d("delete_row")>>[1].op = "find"
    <2>1. /\ d("find") \in Steps /\ d("find").op = "find"
          /\ d("remove") \in Steps /\ d("remove").op = "remove"
          /\ d("delete_row") \in Steps /\ d("delete_row").op = "delete_row"
      BY <1>1 DEF Ops, PlainOps, ModelOps, PasswordOps
    <2>2. Follows(d("find"), d("remove")) /\ Follows(d("remove"), d("delete_row"))
      BY <2>1 DEF Follows
    <2> QED BY <2>1, <2>2, ThreeFresh DEF Ops, LaterOps, OpeningOps
  <1>8. /\ Upload = <<d("create"), d("write"), d("create_row")>> /\ Check = <<d("lookup")>>
        /\ Deletion = <<d("find"), d("remove"), d("delete_row")>>
        /\ Download = <<d("lookup")>> \o <<d("find"), d("open")>>
    BY DEF Upload, Check, Deletion, Download, d
  <1>9. Fresh(Check \o Upload) /\ Fresh(Download) /\ Fresh(DeleteOwn)
    BY <1>3, <1>5, <1>6, <1>7, <1>8 DEF Fresh, DeleteOwn
  <1>10. Fresh(UploadForm)
    <2>1. (Check \o Upload)[Len(Check \o Upload)].op = "create_row"
      <3>1. Upload \in Seq(Steps) /\ Check \in Seq(Steps)
        BY <1>2, <1>5, <1>8 DEF Fresh, Shaped
      <3>2. Len(Upload) = 3 /\ Len(Check) = 1 /\ Upload[3].op = "create_row"
        BY <1>2, <1>5, <1>8
      <3>3. Len(Check \o Upload) = 4 /\ (Check \o Upload)[1 + 3] = Upload[3]
        <4>1. /\ Len(Check \o Upload) = Len(Check) + Len(Upload)
              /\ \A i \in 1..Len(Upload) : (Check \o Upload)[Len(Check) + i] = Upload[i]
          BY <3>1, ConcatProperties
        <4> HIDE DEF Check, Upload
        <4> QED BY <3>2, <4>1
      <3> QED BY <3>2, <3>3
    <2>2. Follows((Check \o Upload)[Len(Check \o Upload)], Upload[1])
      BY <1>5, <1>8, <2>1 DEF Follows
    <2>3. Shaped(Upload) /\ Upload # <<>>
      BY <1>5, <1>8 DEF Fresh
    <2> QED BY <1>9, <2>2, <2>3, JoinFresh DEF UploadForm
  <1> QED BY <1>2, <1>4, <1>7, <1>8, <1>9, <1>10 DEF d

\* The patches that administrators send.
LEMMA PatchForms ==
  /\ \A b \in BOOLEAN : [enabled |-> b] \in KeyPatches /\ [enabled |-> b] \in ModelPatches
  /\ \A l \in Limits : [limit |-> l] \in KeyPatches
  /\ \A t \in Texts : [text |-> t] \in ModelPatches
  /\ \A id \in ModelIds : [id |-> id] \in ModelPatches
  /\ \A m \in {"any", "require"} : [keyMode |-> m] \in SettingsPatches
  /\ [fallback |-> TRUE] \in SettingsPatches
  BY DEF KeyPatches, ModelPatches, SettingsPatches

\* Whatever an administrator asks for starts a program.
LEMMA AdminProgramsFresh ==
  ASSUME area \in Areas, NEW program \in AdminPrograms
  PROVE  Fresh(program)
  <1>1. CASE area = "keys"
    <2>1. \/ \E b \in BOOLEAN : program = EditOfKey([enabled |-> b])
          \/ \E l \in Limits : program = EditOfKey([limit |-> l])
          \/ program = DeletionOfKey
          \/ \E m \in {"any", "require"} : program = SetSettings([keyMode |-> m])
      BY <1>1 DEF AdminPrograms, KeyRequests
    <2>2. \/ \E patch \in KeyPatches : program = EditOfKey(patch)
          \/ \E patch \in SettingsPatches : program = SetSettings(patch)
          \/ program = DeletionOfKey
      BY <2>1, PatchForms
    <2> QED BY <2>2, KeyPrograms
  <1>2. CASE area = "models"
    <2>1. \/ \E id \in ModelIds, t \in Texts : program = NewModel(id, t)
          \/ \E id \in ModelIds, b \in BOOLEAN : program = EditOfModel(id, [enabled |-> b])
          \/ \E id \in ModelIds, t \in Texts : program = EditOfModel(id, [text |-> t])
          \/ \E id \in ModelIds, new \in ModelIds : program = EditOfModel(id, [id |-> new])
          \/ \E id \in ModelIds, new \in ModelIds : program = Clone(id, new)
          \/ \E id \in ModelIds : program = DeletionOfModel(id)
          \/ program = SetSettings([fallback |-> TRUE])
      BY <1>2 DEF AdminPrograms, ModelRequests
    <2>2. \/ \E id \in ModelIds, t \in Texts : program = NewModel(id, t)
          \/ \E id \in ModelIds, patch \in ModelPatches : program = EditOfModel(id, patch)
          \/ \E id \in ModelIds, new \in ModelIds : program = Clone(id, new)
          \/ \E id \in ModelIds : program = DeletionOfModel(id)
          \/ \E patch \in SettingsPatches : program = SetSettings(patch)
      <3>1. ASSUME NEW id \in ModelIds, NEW b \in BOOLEAN, program = EditOfModel(id, [enabled |-> b])
            PROVE  \E patch \in ModelPatches : program = EditOfModel(id, patch)
        BY <3>1, PatchForms
      <3>2. ASSUME NEW id \in ModelIds, NEW t \in Texts, program = EditOfModel(id, [text |-> t])
            PROVE  \E patch \in ModelPatches : program = EditOfModel(id, patch)
        BY <3>2, PatchForms
      <3>3. ASSUME NEW id \in ModelIds, NEW new \in ModelIds, program = EditOfModel(id, [id |-> new])
            PROVE  \E patch \in ModelPatches : program = EditOfModel(id, patch)
        BY <3>3, PatchForms
      <3> QED BY <2>1, <3>1, <3>2, <3>3, PatchForms
    <2> QED BY <2>2, ModelPrograms, KeyPrograms
  <1>3. CASE area = "files"
    BY <1>3, AccountPrograms, ClientForms DEF AdminPrograms
  <1>4. CASE area = "account"
    BY <1>4, AccountPrograms DEF AdminPrograms, AccountRequests
  <1> QED BY <1>1, <1>2, <1>3, <1>4, ServerAssumption

\* Whatever a client asks for starts a program.
LEMMA ClientProgramsFresh ==
  ASSUME area \in Areas, NEW program \in ClientPrograms
  PROVE  Fresh(program)
  <1>1. CASE area = "keys"
    BY <1>1, ClientForms, ModelAssumption DEF ClientPrograms
  <1>2. CASE area = "models"
    BY <1>2, ClientForms DEF ClientPrograms
  <1>3. CASE area = "files"
    BY <1>3, ClientForms DEF ClientPrograms
  <1>4. CASE area = "account"
    BY <1>4 DEF ClientPrograms
  <1> QED BY <1>1, <1>2, <1>3, <1>4, ServerAssumption

-----------------------------------------------------------------------------
At(h, op) == prog[h] # <<>> /\ Head(prog[h]).op = op

\* Every handler's program goes on as programs do, and a process that is down
\* runs none.
Handled ==
  /\ area \in Areas /\ DOMAIN prog = Actors
  /\ \A h \in Workers : Shaped(prog[h])
  /\ phase = "down" => \A h \in Workers : prog[h] = <<>>

\* What Check and Log put in front of the rest: the query behind a cache miss,
\* the flush of a full batch, the statement of the flush.
Inserts(op, steps) ==
  \/ op = "lookup" /\ steps = <<Do("query"), Do("fill")>>
  \/ op = "log" /\ steps = <<Do("flush")>>
  \/ op = "flush" /\ steps = <<Do("append")>>

\* One goroutine goes on.
Goes(a) ==
  /\ DOMAIN prog' = DOMAIN prog /\ \A h \in DOMAIN prog \ {a} : prog'[h] = prog[h]
  /\ prog[a] # <<>>
  /\ \/ prog'[a] \in {prog[a], Tail(prog[a]), <<>>}
     \/ \E steps : Inserts(Head(prog[a]).op, steps) /\ prog'[a] = steps \o Tail(prog[a])

\* Where a handler is after a step: where it was, at the end, at a step that may
\* follow, or at the first of a request.
NextAt(h) ==
  \/ prog'[h] \in {prog[h], <<>>}
  \/ prog[h] # <<>> /\ prog'[h] # <<>> /\ Follows(Head(prog[h]), Head(prog'[h]))
  \/ prog[h] = <<>> /\ prog'[h] # <<>> /\ Head(prog'[h]).op \notin LaterOps

\* So a step that relies on the one before comes after it.
LEMMA ComesFrom ==
  ASSUME NEW h, NextAt(h)
  PROVE  /\ At(h, "write")' => At(h, "write") \/ At(h, "create")
         /\ At(h, "create_row")' => At(h, "create_row") \/ At(h, "write")
         /\ At(h, "update")' => At(h, "update") \/ At(h, "list")
         /\ At(h, "fill")' => At(h, "fill") \/ At(h, "query")
         /\ At(h, "resolve")' => At(h, "resolve") \/ At(h, "lookup") \/ At(h, "fill")
         /\ At(h, "open")' => At(h, "open") \/ At(h, "find")
         /\ At(h, "remove")' => At(h, "remove") \/ At(h, "find")
         /\ At(h, "lookup")' => At(h, "lookup") \/ prog[h] = <<>>
         /\ At(h, "login")' => At(h, "login") \/ prog[h] = <<>>
         /\ At(h, "clone")' => At(h, "clone") \/ At(h, "get")
         /\ At(h, "update_model")' => At(h, "update_model") \/ At(h, "get")
         /\ At(h, "save")' => /\ At(h, "save") \/ At(h, "set")
                              /\ Head(prog'[h]).password = Head(prog[h]).password
  BY DEF NextAt, At, Follows, LaterOps

\* What is inserted is a program, it may follow, and what followed may follow it.
LEMMA InsertedShaped ==
  ASSUME NEW s, NEW steps, Inserts(s.op, steps)
  PROVE  /\ Shaped(steps) /\ steps # <<>> /\ Follows(s, steps[1])
         /\ \A b : Follows(s, b) => Follows(steps[Len(steps)], b)
  <1> DEFINE d(o) == Do(o)
  <1>1. ASSUME NEW o \in {"query", "fill", "flush", "append"}
        PROVE  d(o) \in Steps /\ d(o).op = o
    BY OpStep DEF Ops, PlainOps, ModelOps, PasswordOps
  <1> HIDE DEF d
  <1>2. CASE s.op = "lookup"
    <2>1. steps = <<d("query"), d("fill")>>
      BY <1>2 DEF Inserts, d
    <2>2. Follows(d("query"), d("fill"))
      BY <1>1 DEF Follows
    <2>3. Fresh(<<d("query"), d("fill")>>)
      BY <1>1, <2>2, TwoFresh DEF Ops, LaterOps, OpeningOps
    <2>4. steps[1].op = "query" /\ steps[Len(steps)].op = "fill"
      BY <1>1, <2>1
    <2> QED BY <1>2, <2>1, <2>3, <2>4 DEF Fresh, Follows
  <1>3. CASE s.op \in {"log", "flush"}
    <2>1. PICK o \in {"flush", "append"} : steps = <<d(o)>>
      BY <1>3 DEF Inserts, d
    <2>2. Fresh(<<d(o)>>) /\ steps[1].op = o /\ steps[Len(steps)].op = o
      BY <1>1, <2>1, OneFresh DEF Ops, LaterOps, OpeningOps
    <2> QED BY <1>3, <2>1, <2>2 DEF Fresh, Follows
  <1> QED BY <1>2, <1>3 DEF Inserts

\* A goroutine that goes on keeps its program one, and goes on as NextAt says.
LEMMA GoesOn ==
  ASSUME Handled, NEW a \in Actors, Goes(a)
  PROVE  /\ DOMAIN prog' = Actors
         /\ \A h \in Workers : Shaped(prog'[h]) /\ NextAt(h)
  <1>1. DOMAIN prog' = Actors /\ \A h \in Workers \ {a} : prog'[h] = prog[h]
    BY DEF Goes, Handled, Workers, Actors
  <1>2. \A h \in Workers \ {a} : Shaped(prog'[h]) /\ NextAt(h)
    BY <1>1 DEF Handled, NextAt
  <1>3. ASSUME a \in Workers PROVE Shaped(prog'[a]) /\ NextAt(a)
    <2>1. Shaped(prog[a]) /\ prog[a] # <<>> /\ Shaped(Tail(prog[a]))
      BY <1>3, TailShaped DEF Handled, Goes
    <2>2. CASE prog'[a] = prog[a]
      BY <2>1, <2>2 DEF NextAt
    <2>3. CASE prog'[a] = Tail(prog[a])
      BY <2>1, <2>3, TailShaped DEF NextAt
    <2>4. CASE prog'[a] = <<>>
      BY <2>4 DEF NextAt, Shaped
    <2>5. ASSUME NEW steps, Inserts(Head(prog[a]).op, steps), prog'[a] = steps \o Tail(prog[a])
          PROVE  Shaped(prog'[a]) /\ NextAt(a)
      <3>1. /\ Shaped(steps) /\ steps # <<>> /\ Follows(Head(prog[a]), steps[1])
            /\ \A b : Follows(Head(prog[a]), b) => Follows(steps[Len(steps)], b)
        BY <2>5, InsertedShaped
      <3>2. Shaped(prog'[a]) /\ prog'[a] # <<>> /\ prog'[a][1] = steps[1]
        <4>1. CASE Tail(prog[a]) = <<>>
          <5>1. steps \o <<>> = steps
            BY <3>1, ConcatEmptySeq DEF Shaped
          <5> QED BY <2>5, <3>1, <4>1, <5>1
        <4>2. CASE Tail(prog[a]) # <<>>
          <5>1. Follows(Head(prog[a]), Head(Tail(prog[a])))
            BY <2>1, TailShaped, <4>2
          <5>2. Head(Tail(prog[a])) = Tail(prog[a])[1]
            BY <2>1, <4>2, HeadTailProperties DEF Shaped
          <5>3. Follows(steps[Len(steps)], Tail(prog[a])[1])
            BY <3>1, <5>1, <5>2
          <5>4. /\ Shaped(steps \o Tail(prog[a])) /\ steps \o Tail(prog[a]) # <<>>
                /\ (steps \o Tail(prog[a]))[1] = steps[1]
            BY <2>1, <3>1, <4>2, <5>3, JoinShaped
          <5> QED BY <2>5, <5>4
        <4> QED BY <4>1, <4>2
      <3>3. Head(prog'[a]) = steps[1]
        BY <3>2, HeadTailProperties DEF Shaped
      <3> QED BY <2>1, <3>1, <3>2, <3>3 DEF NextAt
    <2> QED BY <2>2, <2>3, <2>4, <2>5 DEF Goes
  <1> QED BY <1>1, <1>2, <1>3

\* Every step of the server but a request, a tick and a stop is one goroutine
\* going on while the process is up.
LEMMA StepGoes ==
  ASSUME Handled, NEW a \in Actors, Step(a)
  PROVE  Goes(a) /\ phase # "down" /\ UNCHANGED <<phase, area>>
  <1> USE DEF Handled, Goes, Ready, boundVars
  <1>1. CASE CheckKey(a)
    BY <1>1 DEF CheckKey, Advance, Before, Refuse, Enter, OnlyKeys, Inserts
  <1>2. CASE EditKey(a)
    BY <1>2 DEF EditKey, Advance, Refuse, OnlyKeys
  <1>3. CASE UpdateSettings(a)
    BY <1>3 DEF UpdateSettings, Advance, OnlySettings
  <1>4. CASE EditModel(a)
    BY <1>4 DEF EditModel, Advance, Refuse, OnlyModels
  <1>5. CASE ResolveModel(a)
    BY <1>5 DEF ResolveModel, Advance, Refuse, OnlyModels
  <1>6. CASE UploadFile(a)
    BY <1>6 DEF UploadFile, Advance, Refuse, OnlyFiles
  <1>7. CASE FindFile(a) \/ OpenFile(a)
    BY <1>7 DEF FindFile, OpenFile, Advance, Refuse, OnlyFiles
  <1>8. CASE DeleteFile(a)
    BY <1>8 DEF DeleteFile, Advance, Refuse, OnlyFiles
  <1>9. CASE Account(a)
    BY <1>9 DEF Account, Advance, Refuse, OnlyAccount
  <1>10. CASE RunSession(a)
    BY <1>10 DEF RunSession, Advance, OnlySession
  <1>11. CASE LogOperation(a)
    BY <1>11 DEF LogOperation, Advance, Before, Flush, Inserts, OnlyAudit
  <1>12. CASE FlushStep(a)
    BY <1>12 DEF FlushStep, Advance, Before, Inserts, OnlyAudit
  <1> QED BY <1>1, <1>2, <1>3, <1>4, <1>5, <1>6, <1>7, <1>8, <1>9, <1>10, <1>11, <1>12 DEF Step

\* A request comes to a handler that is idle.
LEMMA AskStep ==
  ASSUME Handled, NEW h \in Workers, NEW program, Fresh(program), Ask(h, program)
  PROVE  /\ Handled'
         /\ \A g \in Workers : NextAt(g)
         /\ prog[h] = <<>> /\ prog' = [prog EXCEPT ![h] = program]
  <1>1. DOMAIN prog' = Actors /\ prog'[h] = program /\ \A g \in Workers \ {h} : prog'[g] = prog[g]
    BY DEF Ask, Handled, Actors, Workers
  <1>2. Handled'
    BY <1>1 DEF Ask, Handled, Serving, Fresh
  <1>3. \A g \in Workers : NextAt(g)
    <2>1. prog[h] = <<>> /\ program # <<>> /\ Head(program).op \notin LaterOps
      BY HeadFormed DEF Ask, Fresh
    <2> QED BY <1>1, <2>1 DEF NextAt
  <1> QED BY <1>2, <1>3 DEF Ask

\* After every step what a handler still has to do is a program, reached as GoesOn
\* says.
LEMMA HandledStep ==
  ASSUME Handled, [Next]_vars
  PROVE  Handled' /\ \A h \in Workers : NextAt(h)
  <1>1. CASE UNCHANGED vars
    BY <1>1 DEF vars, boundVars, Handled, NextAt, At
  <1>2. ASSUME NEW h \in Admins, AdminAsks(h) PROVE Handled' /\ \A g \in Workers : NextAt(g)
    <2>1. ASSUME NEW program \in AdminPrograms, Ask(h, program) PROVE Handled' /\ \A g \in Workers : NextAt(g)
      BY <2>1, AskStep, AdminProgramsFresh DEF Workers, Handled
    <2>2. ASSUME NEW p \in Passwords, Ask(h, LogIn(p)) PROVE Handled' /\ \A g \in Workers : NextAt(g)
      BY <2>2, AskStep, AccountPrograms DEF Workers
    <2> QED BY <1>2, <2>1, <2>2 DEF AdminAsks
  <1>3. ASSUME NEW h \in Clients, ClientAsks(h) PROVE Handled' /\ \A g \in Workers : NextAt(g)
    BY <1>3, AskStep, ClientProgramsFresh DEF ClientAsks, Workers, Handled
  <1>4. ASSUME NEW a \in Actors, Step(a) PROVE Handled' /\ \A g \in Workers : NextAt(g)
    <2>1. Goes(a) /\ phase # "down" /\ UNCHANGED <<phase, area>>
      BY <1>4, StepGoes
    <2>2. DOMAIN prog' = Actors /\ \A g \in Workers : Shaped(prog'[g]) /\ NextAt(g)
      BY <2>1, GoesOn
    <2> QED BY <2>1, <2>2 DEF Handled
  <1>5. CASE Tick \/ Close
    <2>1. \A h \in Workers : prog'[h] = prog[h]
      BY <1>5, ServerAssumption DEF Tick, Close, Handled, Actors, Workers
    <2>2. DOMAIN prog' = Actors /\ UNCHANGED area /\ phase # "down" /\ phase' # "down"
      BY <1>5 DEF Tick, Close, Handled, OnlyAudit, boundVars
    <2> QED BY <2>1, <2>2 DEF Handled, NextAt, At
  <1>6. CASE Shutdown \/ Start
    BY <1>6 DEF Shutdown, Start, Handled, NextAt, At, boundVars
  <1>7. CASE Exit \/ Crash
    <2>1. Shaped(<<>>)
      BY DEF Shaped
    <2> QED BY <1>7, <2>1 DEF Exit, Crash, End, Handled, NextAt, At, Workers, Actors
  <1> QED BY <1>1, <1>2, <1>3, <1>4, <1>5, <1>6, <1>7 DEF Next

\* At the start no handler runs.
LEMMA HandledInit == ASSUME Init PROVE Handled
  BY DEF Init, Handled, Shaped, Workers, Actors

-----------------------------------------------------------------------------
\* A deleted model is without a row in the table, which is a function of the ids.
ModelsKept ==
  /\ DOMAIN models = ModelIds /\ freed \subseteq ModelIds
  /\ DeletedStays

\* handleModels and handleModelDetail bring no deleted model back.
LEMMA EditModelKeeps ==
  ASSUME Handled, ModelsKept, NEW h \in Workers, EditModel(h)
  PROVE  ModelsKept'
  <1> USE DEF ModelsKept, DeletedStays
  <1>1. CASE UNCHANGED <<models, freed>>
    BY <1>1
  <1>2. ASSUME NEW row, NEW id, Insert(row, id) PROVE ModelsKept'
    BY <1>2 DEF Insert
  <1>3. ASSUME NEW patch, UpdateModel(h, patch) PROVE ModelsKept'
    BY <1>3 DEF UpdateModel
  <1>4. ASSUME Ready(h, "delete_model"), DeleteModel(Head(prog[h]).id) PROVE ModelsKept'
    <2>1. Head(prog[h]).id \in ModelIds
      BY <1>4, HeadFormed, StepArguments DEF Ready, Handled, ModelOps
    <2> QED BY <1>4, <2>1 DEF DeleteModel
  <1> QED BY <1>1, <1>2, <1>3, <1>4 DEF EditModel, GetModel, CreateModel, CloneModel, modelVars

\* Only the handlers of models and the seeding at the start touch the table, and
\* both take an id out of the deleted ones when they insert it.
LEMMA ModelsStep ==
  ASSUME Handled, ModelsKept, [Next]_vars
  PROVE  ModelsKept'
  <1>1. CASE UNCHANGED modelVars
    BY <1>1 DEF modelVars, ModelsKept, DeletedStays
  <1>2. ASSUME NEW h \in Workers, NEW program, Ask(h, program) PROVE ModelsKept'
    BY <1>2 DEF Ask, ModelsKept, DeletedStays
  <1>3. ASSUME NEW a \in Actors, Step(a) PROVE ModelsKept'
    <2>1. CASE a \in Workers /\ EditModel(a)
      BY <2>1, EditModelKeeps
    <2>2. CASE a \in Workers /\ ResolveModel(a)
      BY <2>2 DEF ResolveModel, Resolve, GetModel, modelVars, ModelsKept, DeletedStays
    <2>3. CASE CheckKey(a) \/ EditKey(a) \/ UpdateSettings(a) \/ Account(a) \/ RunSession(a)
      BY <2>3, <1>1 DEF CheckKey, EditKey, UpdateSettings, Account, RunSession, OnlyKeys, OnlySettings,
           OnlyAccount, OnlySession
    <2>4. CASE UploadFile(a) \/ FindFile(a) \/ OpenFile(a) \/ DeleteFile(a)
      BY <2>4, <1>1 DEF UploadFile, FindFile, OpenFile, DeleteFile, OnlyFiles
    <2>5. CASE LogOperation(a) \/ FlushStep(a)
      BY <2>5, <1>1 DEF LogOperation, FlushStep, OnlyAudit
    <2> QED BY <1>3, <2>1, <2>2, <2>3, <2>4, <2>5 DEF Step
  <1>4. CASE Tick \/ Close \/ Shutdown \/ Exit \/ Crash
    BY <1>4, <1>1 DEF Tick, Close, Shutdown, Exit, Crash, End, OnlyAudit
  <1>5. CASE Start
    BY <1>5 DEF Start, SeedModels, Insert, ModelsKept, DeletedStays
  <1> QED BY <1>1, <1>2, <1>3, <1>4, <1>5 DEF Next, AdminAsks, ClientAsks, Workers, vars

\* DeletedStays: a model that DeleteModel removed comes back only by an insert of
\* its id.  UpdateModel of a row that was read before changes a row or nothing,
\* however the reads and writes of the administrators interleave.
THEOREM DeletionsLast == Spec => []DeletedStays
  <1>1. Init => Handled /\ ModelsKept
    BY HandledInit DEF Init, ModelInit, ModelsKept, DeletedStays
  <1>2. Handled /\ ModelsKept /\ [Next]_vars => (Handled /\ ModelsKept)'
    BY HandledStep, ModelsStep
  <1>3. ModelsKept => DeletedStays
    BY DEF ModelsKept
  <1> QED BY <1>1, <1>2, <1>3, PTL DEF Spec

-----------------------------------------------------------------------------
\* Whoever's session is stored as running still has to close it, or was cut by a
\* stop.
Attended ==
  /\ DOMAIN session = Workers /\ DOMAIN sesRow = SessionIds
  /\ \A s \in SessionIds :
       sesRow[s] = "running" => s \in cut \/ \E h \in Workers : session[h] = s /\ At(h, "end")

\* The handler that begins a session has its end ahead of it.
LEMMA RunSessionKeeps ==
  ASSUME Handled, Attended, NEW h \in Workers, RunSession(h)
  PROVE  Attended'
  <1>1. \A g \in Workers \ {h} : prog'[g] = prog[g]
    BY DEF RunSession, Advance, Handled, Workers, Actors
  <1>2. CASE Ready(h, "begin")
    <2>1. At(h, "end")' /\ ~At(h, "end")
      <3>1. Shaped(prog[h]) /\ prog[h] # <<>> /\ Head(prog[h]).op = "begin"
        BY <1>2 DEF Handled, Ready
      <3>2. Tail(prog[h]) # <<>>
        <4>1. Len(prog[h]) \in Nat /\ Head(prog[h]) = prog[h][1] /\ Len(prog[h]) # 0
          BY <3>1 DEF Shaped
        <4>2. Len(prog[h]) # 1
          BY <3>1, <4>1 DEF Shaped, OpeningOps
        <4>3. Len(Tail(prog[h])) = Len(prog[h]) - 1
          BY <3>1 DEF Shaped
        <4>4. Len(Tail(prog[h])) # 0
          BY <4>1, <4>2, <4>3
        <4> QED BY <4>4, Len(<<>>) = 0
      <3>3. prog'[h] = Tail(prog[h])
        BY <1>2 DEF RunSession, Ready, Advance, Handled, Workers, Actors
      <3> QED BY <3>1, <3>2, <3>3, TailShaped DEF At, Follows
    <2>2. PICK s \in SessionIds : /\ sesRow[s] = "none"
                                  /\ sesRow' = [sesRow EXCEPT ![s] = "running"]
                                  /\ session' = [session EXCEPT ![h] = s] /\ UNCHANGED cut
      BY <1>2 DEF RunSession, Ready
    <2> QED BY <1>1, <2>1, <2>2 DEF Attended, At
  <1>3. CASE Ready(h, "end")
    <2>1. EndSession(h) /\ UNCHANGED cut
      BY <1>3 DEF RunSession, Ready
    <2> QED BY <1>1, <2>1 DEF Attended, EndSession, At
  <1> QED BY <1>2, <1>3 DEF RunSession

\* Only Close, a stop and a crash take a session from its handler.
LEMMA AttendedStep ==
  ASSUME Handled, Attended, [Next]_vars
  PROVE  Attended'
  <1>1. ASSUME UNCHANGED sessionVars, \A h \in Workers : At(h, "end") => prog'[h] = prog[h]
        PROVE  Attended'
    BY <1>1 DEF Attended, sessionVars, At
  <1>2. ASSUME NEW h \in Workers, NEW program, Ask(h, program) PROVE Attended'
    <2>1. \A g \in Workers : At(g, "end") => prog'[g] = prog[g]
      BY <1>2 DEF Ask, At, Handled, Workers, Actors
    <2> QED BY <1>1, <1>2, <2>1 DEF Ask, sessionVars
  <1>3. ASSUME NEW a \in Actors, Step(a) PROVE Attended'
    <2>1. CASE a \in Workers /\ RunSession(a)
      BY <2>1, RunSessionKeeps
    <2>2. CASE ~(a \in Workers /\ RunSession(a))
      <3>1. Goes(a)
        BY <1>3, StepGoes
      <3>2. ~At(a, "end") /\ UNCHANGED sessionVars
        <4> USE DEF Ready, At
        <4>1. CASE CheckKey(a) \/ EditKey(a)
          BY <4>1 DEF CheckKey, EditKey, OnlyKeys
        <4>2. CASE UpdateSettings(a) \/ Account(a)
          BY <4>2 DEF UpdateSettings, Account, OnlySettings, OnlyAccount
        <4>3. CASE EditModel(a) \/ ResolveModel(a)
          BY <4>3 DEF EditModel, ResolveModel, OnlyModels
        <4>4. CASE UploadFile(a) \/ FindFile(a) \/ OpenFile(a) \/ DeleteFile(a)
          BY <4>4 DEF UploadFile, FindFile, OpenFile, DeleteFile, OnlyFiles
        <4>5. CASE LogOperation(a) \/ FlushStep(a)
          BY <4>5 DEF LogOperation, FlushStep, OnlyAudit
        <4> QED BY <1>3, <2>2, <4>1, <4>2, <4>3, <4>4, <4>5 DEF Step
      <3> QED BY <1>1, <3>1, <3>2 DEF Goes, Handled, Workers, Actors
    <2> QED BY <2>1, <2>2
  <1>4. CASE Tick \/ Close
    <2>1. \A h \in Workers : prog'[h] = prog[h]
      BY <1>4, ServerAssumption DEF Tick, Close, Handled, Actors, Workers
    <2> QED BY <1>1, <1>4, <2>1 DEF Tick, Close, OnlyAudit
  <1>5. CASE Exit \/ Crash
    BY <1>5 DEF Exit, Crash, End, Attended
  <1>6. CASE Shutdown \/ Start \/ UNCHANGED vars
    BY <1>1, <1>6 DEF Shutdown, Start, vars
  <1> QED BY <1>2, <1>3, <1>4, <1>5, <1>6 DEF Next, AdminAsks, ClientAsks, Workers

\* OnlyStopsOrphan: a row that says a session is running has a handler that will
\* close it, unless the process stopped under it: no error path of a handler
\* leaves without Close.
THEOREM SessionsAttended == Spec => []OnlyStopsOrphan
  <1>1. Init => Handled /\ Attended
    BY HandledInit DEF Init, Attended
  <1>2. Handled /\ Attended /\ [Next]_vars => (Handled /\ Attended)'
    BY HandledStep, AttendedStep
  <1>3. Attended => OnlyStopsOrphan
    BY DEF Attended, OnlyStopsOrphan
  <1> QED BY <1>1, <1>2, <1>3, PTL DEF Spec

-----------------------------------------------------------------------------
\* The handler of an upload has its file and no row for it yet.
Uploading(h) == At(h, "write") \/ At(h, "create_row")

\* An upload's file is its own and has no row; when the row is next, the content
\* is whole or its deletion was asked for.
FilesKept ==
  /\ DOMAIN disk = Files /\ DOMAIN file = Workers
  /\ used \subseteq Files /\ rows \subseteq used
  /\ \A h \in Workers : Uploading(h) => file[h] \in used \ rows
  /\ \A h \in Workers : At(h, "create_row") => disk[file[h]] = "whole" \/ file[h] \in removed
  /\ \A g \in Workers, h \in Workers : Uploading(g) /\ Uploading(h) /\ g # h => file[g] # file[h]
  /\ RowsWhole

\* What leaves the files alone and starts no upload.
LEMMA OthersUpload ==
  ASSUME FilesKept, UNCHANGED assetVars, \A h \in Workers : Uploading(h)' => Uploading(h),
         \A h \in Workers : At(h, "create_row")' => At(h, "create_row")
  PROVE  FilesKept'
  BY DEF FilesKept, RowsWhole, assetVars

\* The steps of an upload: create, write, row, each of which may fail.
LEMMA UploadKeeps ==
  ASSUME Handled, FilesKept, NEW h \in Workers, UploadFile(h),
         \A g \in Workers : NextAt(g)
  PROVE  FilesKept'
  <1>1. \A g \in Workers \ {h} : prog'[g] = prog[g]
    BY DEF UploadFile, Advance, Refuse, Handled, Workers, Actors
  <1>2. \A g \in Workers \ {h} : /\ Uploading(g)' <=> Uploading(g)
                                 /\ At(g, "create_row")' <=> At(g, "create_row")
    BY <1>1 DEF Uploading, At
  <1>3. CASE Ready(h, "create")
    <2>1. Create(h) /\ ~At(h, "create_row")' /\ h \in DOMAIN file
      BY <1>3, ComesFrom DEF UploadFile, Ready, At, FilesKept
    <2> QED BY <1>2, <2>1 DEF Create, FilesKept, RowsWhole, Uploading
  <1>4. CASE Ready(h, "write")
    <2>1. At(h, "write")
      BY <1>4 DEF Ready, At
    <2>2. CASE WriteAll(h)
      BY <1>2, <2>1, <2>2 DEF WriteAll, FilesKept, RowsWhole, Uploading
    <2>3. CASE Refuse(h) /\ (WriteTooLarge(h) \/ UNCHANGED assetVars)
      <3>1. ~Uploading(h)'
        BY <2>3 DEF Refuse, Uploading, At, Handled, Workers, Actors
      <3>2. CASE UNCHANGED assetVars
        BY <1>2, <3>1, <3>2 DEF FilesKept, RowsWhole, assetVars, Uploading
      <3>3. CASE WriteTooLarge(h)
        BY <1>2, <2>1, <3>1, <3>3 DEF WriteTooLarge, FilesKept, RowsWhole, Uploading
      <3> QED BY <2>3, <3>2, <3>3
    <2> QED BY <1>4, <2>2, <2>3 DEF UploadFile, Ready
  <1>5. CASE Ready(h, "create_row")
    <2>1. At(h, "create_row")
      BY <1>5 DEF Ready, At
    <2>2. ~Uploading(h)'
      <3>1. prog'[h] = Tail(prog[h]) \/ prog'[h] = <<>>
        BY <1>5 DEF UploadFile, Ready, Advance, Refuse, Handled, Workers, Actors
      <3>2. Shaped(prog[h]) /\ prog[h] # <<>>
        BY <2>1 DEF Handled, At
      <3>3. Tail(prog[h]) # <<>> => Follows(Head(prog[h]), Head(Tail(prog[h])))
        BY <3>2, TailShaped
      <3> QED BY <2>1, <3>1, <3>3 DEF Uploading, At, Follows
    <2>3. CASE CreateRow(h)
      BY <1>2, <2>1, <2>2, <2>3 DEF CreateRow, FilesKept, RowsWhole, Uploading
    <2>4. CASE UNCHANGED assetVars
      BY <1>2, <2>2, <2>4 DEF FilesKept, RowsWhole, Uploading, assetVars
    <2> QED BY <1>5, <2>3, <2>4 DEF UploadFile, Ready
  <1> QED BY <1>3, <1>4, <1>5 DEF UploadFile

\* Every other step: deletions and downloads work on files that have a row, or
\* had one.
LEMMA FilesStep ==
  ASSUME Handled, FilesKept, [Next]_vars
  PROVE  FilesKept'
  <1>1. \A h \in Workers : NextAt(h)
    BY HandledStep
  <1>2. ASSUME NEW h \in Workers, NEW program, Ask(h, program), Fresh(program) PROVE FilesKept'
    <2>1. /\ \A g \in Workers \ {h} : prog'[g] = prog[g]
          /\ ~Uploading(h)' /\ ~Uploading(h)
      BY <1>2, AskStep, HeadFormed DEF Handled, Workers, Actors, Uploading, At, Fresh, LaterOps
    <2>2. \A g \in Workers \ {h} : Uploading(g)' => Uploading(g) /\ file'[g] = file[g]
      BY <1>2, <2>1 DEF Ask, Uploading, At, FilesKept
    <2>3. \A g \in Workers : At(g, "create_row")' => At(g, "create_row") /\ g # h
      BY <2>1 DEF At, Uploading
    <2> QED BY <1>2, <2>1, <2>2, <2>3 DEF Ask, FilesKept, RowsWhole, Uploading
  <1>3. ASSUME NEW a \in Actors, Step(a) PROVE FilesKept'
    <2>1. CASE a \in Workers /\ UploadFile(a)
      BY <1>1, <2>1, UploadKeeps
    <2>2. CASE ~(a \in Workers /\ UploadFile(a))
      <3>1. Goes(a)
        BY <1>3, StepGoes
      <3>2. ~At(a, "create") /\ ~Uploading(a)
        <4> USE DEF Ready, At, Uploading
        <4>1. CASE CheckKey(a) \/ EditKey(a)
          BY <4>1 DEF CheckKey, EditKey
        <4>2. CASE UpdateSettings(a) \/ Account(a) \/ RunSession(a)
          BY <4>2 DEF UpdateSettings, Account, RunSession
        <4>3. CASE EditModel(a) \/ ResolveModel(a)
          BY <4>3 DEF EditModel, ResolveModel
        <4>4. CASE FindFile(a) \/ OpenFile(a) \/ DeleteFile(a)
          BY <4>4 DEF FindFile, OpenFile, DeleteFile
        <4>5. CASE LogOperation(a) \/ FlushStep(a)
          BY <4>5 DEF LogOperation, FlushStep
        <4> QED BY <1>3, <2>2, <4>1, <4>2, <4>3, <4>4, <4>5 DEF Step
      <3>3. \A h \in Workers : /\ Uploading(h)' => Uploading(h) /\ h # a
                               /\ At(h, "create_row")' => At(h, "create_row")
        BY <1>1, <3>1, <3>2, ComesFrom DEF Goes, Handled, Uploading, At, Workers, Actors
      <3>4. CASE UNCHANGED assetVars
        BY <3>3, <3>4, OthersUpload
      <3>5. CASE a \in Workers /\ (FindFile(a) \/ OpenFile(a) \/ DeleteFile(a))
        <4>1. CASE \E f \in Files : Find(a, f)
          BY <3>3, <4>1 DEF Find, FilesKept, RowsWhole, Uploading
        <4>2. CASE Open(a)
          BY <3>3, <4>2 DEF Open, FilesKept, RowsWhole, Uploading
        <4>3. CASE Preview(a)
          BY <3>3, <4>3 DEF Preview, FilesKept, RowsWhole, Uploading
        <4>4. CASE RemoveContent(a)
          BY <3>3, <4>4 DEF RemoveContent, FilesKept, RowsWhole, Uploading
        <4>5. CASE DeleteRow(a)
          BY <3>3, <4>5 DEF DeleteRow, FilesKept, RowsWhole, Uploading
        <4> QED BY <3>4, <3>5, <4>1, <4>2, <4>3, <4>4, <4>5 DEF FindFile, OpenFile, DeleteFile
      <3>6. CASE CheckKey(a) \/ EditKey(a) \/ UpdateSettings(a) \/ Account(a) \/ RunSession(a)
        BY <3>4, <3>6 DEF CheckKey, EditKey, UpdateSettings, Account, RunSession, OnlyKeys, OnlySettings,
             OnlyAccount, OnlySession
      <3>7. CASE EditModel(a) \/ ResolveModel(a) \/ LogOperation(a) \/ FlushStep(a)
        BY <3>4, <3>7 DEF EditModel, ResolveModel, LogOperation, FlushStep, OnlyModels, OnlyAudit
      <3> QED BY <1>3, <2>2, <3>5, <3>6, <3>7 DEF Step
    <2> QED BY <2>1, <2>2
  <1>4. CASE Tick \/ Close
    <2>1. \A h \in Workers : prog'[h] = prog[h]
      BY <1>4, ServerAssumption DEF Tick, Close, Handled, Actors, Workers
    <2> QED BY <1>4, <2>1, OthersUpload DEF Tick, Close, OnlyAudit, Uploading, At
  <1>5. CASE Exit \/ Crash
    <2>1. UNCHANGED assetVars /\ \A h \in Workers : prog'[h] = <<>>
      BY <1>5 DEF Exit, Crash, End, Workers, Actors
    <2> QED BY <2>1, OthersUpload DEF Uploading, At
  <1>6. CASE Start
    BY <1>6, ServerAssumption DEF Start, StartAssets, Handled, FilesKept, RowsWhole, Uploading, At
  <1>7. CASE Shutdown \/ UNCHANGED vars
    BY <1>7, OthersUpload DEF Shutdown, vars, Uploading, At
  <1>8. ASSUME NEW h \in Admins, AdminAsks(h) PROVE FilesKept'
    BY <1>2, <1>8, AdminProgramsFresh, AccountPrograms DEF AdminAsks, Workers, Handled
  <1>9. ASSUME NEW h \in Clients, ClientAsks(h) PROVE FilesKept'
    BY <1>2, <1>9, ClientProgramsFresh DEF ClientAsks, Workers, Handled
  <1> QED BY <1>3, <1>4, <1>5, <1>6, <1>7, <1>8, <1>9 DEF Next

\* RowsWhole: a file in the table has its whole content on disk unless its
\* deletion was asked for: CreateFile comes after the copy of the body, on no path
\* before it, and no stop between the two lists the rest of an upload.
THEOREM ListedFilesWhole == Spec => []RowsWhole
  <1>1. Init => Handled /\ FilesKept
    <2>1. ASSUME Init PROVE \A h \in Workers : ~Uploading(h) /\ ~At(h, "create_row")
      BY <2>1 DEF Init, Uploading, At, Workers, Actors
    <2>2. ASSUME Init PROVE FilesKept
      BY <2>1, <2>2, ServerAssumption DEF Init, AssetInit, FilesKept, RowsWhole
    <2> QED BY <2>2, HandledInit
  <1>2. Handled /\ FilesKept /\ [Next]_vars => (Handled /\ FilesKept)'
    BY HandledStep, FilesStep
  <1>3. FilesKept => RowsWhole
    BY DEF FilesKept
  <1> QED BY <1>1, <1>2, <1>3, PTL DEF Spec

-----------------------------------------------------------------------------
\* What has a row, or somebody asked to delete, has been written to the end, and
\* so has the file a handler is about to open or remove.
DownloadsKept ==
  /\ DOMAIN got = Workers /\ removed \subseteq used
  /\ \A f \in rows \union removed : disk[f] # "partial"
  /\ \A h \in Workers : At(h, "open") \/ At(h, "remove") =>
       file[h] \in used /\ disk[file[h]] # "partial"
  /\ \A h \in Workers : got[h] # "partial"

\* What leaves the files alone and comes to no such step.
LEMMA OthersDownload ==
  ASSUME DownloadsKept, UNCHANGED assetVars,
         \A h \in Workers : At(h, "open")' \/ At(h, "remove")' => At(h, "open") \/ At(h, "remove")
  PROVE  DownloadsKept'
  BY DEF DownloadsKept, assetVars

\* The steps that do something to a file.
LEMMA FileSteps ==
  ASSUME Handled, FilesKept, DownloadsKept, NEW h \in Workers, Step(h),
         UploadFile(h) \/ FindFile(h) \/ OpenFile(h) \/ DeleteFile(h)
  PROVE  DownloadsKept'
  <1> USE DEF DownloadsKept
  <1>1. \A g \in Workers : NextAt(g)
    BY StepGoes, GoesOn DEF Workers, Actors
  <1>2. \A g \in Workers \ {h} : prog'[g] = prog[g]
    BY StepGoes DEF Goes, Handled, Workers, Actors
  <1>3. \A g \in Workers \ {h} : At(g, "open")' \/ At(g, "remove")' => At(g, "open") \/ At(g, "remove")
    BY <1>2 DEF At
  <1>4. At(h, "open")' \/ At(h, "remove")' => At(h, "open") \/ At(h, "remove") \/ At(h, "find")
    BY <1>1, ComesFrom
  <1>5. CASE UNCHANGED assetVars /\ ~At(h, "find")
    BY <1>3, <1>4, <1>5, OthersDownload
  <1>6. CASE UNCHANGED assetVars /\ Refuse(h)
    <2>1. prog'[h] = <<>>
      BY <1>6 DEF Refuse, Handled, Workers, Actors
    <2> QED BY <1>3, <1>6, <2>1, OthersDownload DEF At
  <1>7. CASE Ready(h, "create") /\ Create(h)
    <2>1. ~At(h, "open")' /\ ~At(h, "remove")'
      BY <1>4, <1>7 DEF Ready, At
    <2> QED BY <1>3, <1>7, <2>1 DEF Create, FilesKept
  <1>8. CASE Ready(h, "write") /\ (WriteAll(h) \/ WriteTooLarge(h))
    <2>1. ~At(h, "open")' /\ ~At(h, "remove")' /\ file[h] \in Files
      BY <1>4, <1>8 DEF Ready, At, FilesKept, Uploading
    <2> QED BY <1>3, <1>8, <2>1 DEF WriteAll, WriteTooLarge, FilesKept
  <1>9. CASE Ready(h, "create_row") /\ CreateRow(h)
    <2>1. /\ ~At(h, "open")' /\ ~At(h, "remove")' /\ file[h] \in used
          /\ disk[file[h]] # "partial"
      BY <1>4, <1>9 DEF Ready, At, FilesKept, Uploading
    <2> QED BY <1>3, <1>9, <2>1 DEF CreateRow, FilesKept
  <1>10. CASE Ready(h, "find") /\ \E f \in Files : Find(h, f)
    BY <1>3, <1>10 DEF Find, FilesKept
  <1>11. CASE Ready(h, "open") /\ Open(h)
    <2>1. At(h, "open") /\ ~At(h, "find")
      BY <1>11 DEF Ready, At
    <2> QED BY <1>3, <1>4, <1>11, <2>1 DEF Open, FilesKept
  <1>12. CASE Ready(h, "preview") /\ Preview(h)
    <2>1. ~At(h, "open")' /\ ~At(h, "remove")'
      BY <1>4, <1>12 DEF Ready, At
    <2> QED BY <1>3, <1>12, <2>1 DEF Preview, FilesKept
  <1>13. CASE Ready(h, "remove") /\ RemoveContent(h)
    <2>1. At(h, "remove") /\ ~At(h, "find") /\ file[h] \in Files
      BY <1>13 DEF Ready, At, FilesKept
    <2> QED BY <1>3, <1>4, <1>13, <2>1 DEF RemoveContent, FilesKept
  <1>14. CASE Ready(h, "delete_row") /\ DeleteRow(h)
    <2>1. ~At(h, "open")' /\ ~At(h, "remove")'
      BY <1>4, <1>14 DEF Ready, At
    <2> QED BY <1>3, <1>14, <2>1 DEF DeleteRow
  <1> QED BY <1>5, <1>6, <1>7, <1>8, <1>9, <1>10, <1>11, <1>12, <1>13, <1>14
          DEF UploadFile, FindFile, OpenFile, DeleteFile

\* Nothing else opens or removes a file.
LEMMA DownloadsStep ==
  ASSUME Handled, FilesKept, DownloadsKept, [Next]_vars
  PROVE  DownloadsKept'
  <1>1. \A h \in Workers : NextAt(h)
    BY HandledStep
  <1>2. ASSUME NEW h \in Workers, NEW program, Ask(h, program), Fresh(program) PROVE DownloadsKept'
    <2>1. /\ \A g \in Workers \ {h} : prog'[g] = prog[g]
          /\ ~At(h, "open")' /\ ~At(h, "remove")'
      BY <1>2, AskStep, HeadFormed DEF Handled, Workers, Actors, At, Fresh, LaterOps
    <2>2. \A g \in Workers : At(g, "open")' \/ At(g, "remove")' =>
            (At(g, "open") \/ At(g, "remove")) /\ file'[g] = file[g]
      BY <1>2, <2>1 DEF Ask, At, FilesKept
    <2> QED BY <1>2, <2>2 DEF Ask, DownloadsKept
  <1>3. ASSUME NEW a \in Actors, Step(a) PROVE DownloadsKept'
    <2>1. CASE a \in Workers /\ (UploadFile(a) \/ FindFile(a) \/ OpenFile(a) \/ DeleteFile(a))
      BY <1>3, <2>1, FileSteps
    <2>2. CASE ~(a \in Workers /\ (UploadFile(a) \/ FindFile(a) \/ OpenFile(a) \/ DeleteFile(a)))
      <3>1. Goes(a)
        BY <1>3, StepGoes
      <3>2. ~At(a, "find") /\ UNCHANGED assetVars
        <4> USE DEF Ready, At
        <4>1. CASE CheckKey(a) \/ EditKey(a)
          BY <4>1 DEF CheckKey, EditKey, OnlyKeys
        <4>2. CASE UpdateSettings(a) \/ Account(a) \/ RunSession(a)
          BY <4>2 DEF UpdateSettings, Account, RunSession, OnlySettings, OnlyAccount, OnlySession
        <4>3. CASE EditModel(a) \/ ResolveModel(a)
          BY <4>3 DEF EditModel, ResolveModel, OnlyModels
        <4>4. CASE LogOperation(a) \/ FlushStep(a)
          BY <4>4 DEF LogOperation, FlushStep, OnlyAudit
        <4> QED BY <1>3, <2>2, <4>1, <4>2, <4>3, <4>4 DEF Step
      <3>3. \A h \in Workers : At(h, "open")' \/ At(h, "remove")' => At(h, "open") \/ At(h, "remove")
        BY <1>1, <3>1, <3>2, ComesFrom DEF Goes, Handled, At, Workers, Actors
      <3> QED BY <3>2, <3>3, OthersDownload
    <2> QED BY <2>1, <2>2
  <1>4. CASE Tick \/ Close
    <2>1. \A h \in Workers : prog'[h] = prog[h]
      BY <1>4, ServerAssumption DEF Tick, Close, Handled, Actors, Workers
    <2> QED BY <1>4, <2>1, OthersDownload DEF Tick, Close, OnlyAudit, At
  <1>5. CASE Exit \/ Crash
    <2>1. UNCHANGED assetVars /\ \A h \in Workers : prog'[h] = <<>>
      BY <1>5 DEF Exit, Crash, End, Workers, Actors
    <2> QED BY <2>1, OthersDownload DEF At
  <1>6. CASE Start
    BY <1>6, ServerAssumption DEF Start, StartAssets, Handled, DownloadsKept, At
  <1>7. CASE Shutdown \/ UNCHANGED vars
    BY <1>7, OthersDownload DEF Shutdown, vars, At
  <1>8. ASSUME NEW h \in Admins, AdminAsks(h) PROVE DownloadsKept'
    BY <1>2, <1>8, AdminProgramsFresh, AccountPrograms DEF AdminAsks, Workers, Handled
  <1>9. ASSUME NEW h \in Clients, ClientAsks(h) PROVE DownloadsKept'
    BY <1>2, <1>9, ClientProgramsFresh DEF ClientAsks, Workers, Handled
  <1> QED BY <1>3, <1>4, <1>5, <1>6, <1>7, <1>8, <1>9 DEF Next

\* At the start there are no files.
LEMMA FilesFirst == Init => FilesKept /\ DownloadsKept
  <1>1. ASSUME Init PROVE \A h \in Workers : prog[h] = <<>>
    BY <1>1 DEF Init, Workers, Actors
  <1>2. ASSUME Init PROVE FilesKept /\ DownloadsKept
    BY <1>1, <1>2, ServerAssumption
       DEF Init, AssetInit, FilesKept, RowsWhole, DownloadsKept, Uploading, At
  <1> QED BY <1>2

\* DownloadWhole: what a client receives is never the beginning of an upload, in
\* whatever order uploads, downloads, previews and deletions of a file run, are
\* refused by the disk or the database, or are cut by a stop.
THEOREM DownloadsComplete == Spec => []DownloadWhole
  <1>1. DownloadsKept => DownloadWhole
    BY ServerAssumption DEF DownloadsKept, DownloadWhole
  <1>2. Handled /\ FilesKept /\ DownloadsKept /\ [Next]_vars =>
          (Handled /\ FilesKept /\ DownloadsKept)'
    BY HandledStep, FilesStep, DownloadsStep
  <1>3. Init => Handled /\ FilesKept /\ DownloadsKept
    BY HandledInit, FilesFirst
  <1> QED BY <1>1, <1>2, <1>3, PTL DEF Spec

-----------------------------------------------------------------------------
\* A row, as opposed to NoKey, has both columns.
RowsOnly(S) == \A k \in S \ {NoKey} : DOMAIN k = {"enabled", "limit"}

\* Where the records in the cache and in handlers come from; which of them a
\* handler relies on; and that without a stale edit the row is the ideal one.
KeysKept ==
  /\ DOMAIN held = Workers
  /\ key \in was /\ cache \in was \union {NoKey}
  /\ \A h \in Workers : held[h] \in was \union {NoKey}
  /\ \A h \in Workers : At(h, "lookup") => held[h] = NoKey
  /\ \A h \in Workers : At(h, "resolve") => held[h] = NoKey \/ held[h].enabled
  /\ \A h \in Workers : At(h, "update") => held[h] # NoKey
  /\ RowsOnly(was) /\ RowsOnly({ideal})
  /\ key = NoKey <=> ideal = NoKey
  /\ ~stale => key = ideal

\* A step that leaves the keys alone, and begins none of these.
LEMMA OthersKeys ==
  ASSUME KeysKept, UNCHANGED keyVars,
         \A h \in Workers : /\ At(h, "lookup")' => At(h, "lookup")
                            /\ At(h, "resolve")' => At(h, "resolve") \/ At(h, "lookup")
                            /\ At(h, "update")' => At(h, "update")
  PROVE  KeysKept'
  BY DEF KeysKept, keyVars, RowsOnly

\* A patch of a row is a row.
LEMMA PatchedRow ==
  ASSUME NEW k, NEW patch, DOMAIN k = {"enabled", "limit"}
  PROVE  DOMAIN Patched(k, patch) = {"enabled", "limit"} /\ Patched(k, patch) # NoKey
  <1>1. DOMAIN Patched(k, patch) = {"enabled", "limit"}
    BY DEF Patched
  <1>2. DOMAIN NoKey = {"enabled"} /\ {"enabled"} # {"enabled", "limit"}
    BY DEF NoKey
  <1> QED BY <1>1, <1>2

\* Check and the handlers of keys.
LEMMA KeySteps ==
  ASSUME Handled, KeysKept, NEW h \in Workers, CheckKey(h) \/ EditKey(h)
  PROVE  KeysKept'
  <1>1. Step(h) /\ h \in Actors
    BY DEF Step, Actors
  <1>2. NextAt(h) /\ \A g \in Workers \ {h} : prog'[g] = prog[g]
    BY <1>1, StepGoes, GoesOn DEF Goes, Handled, Workers, Actors
  <1>3. \A g \in Workers \ {h} : /\ At(g, "lookup")' => At(g, "lookup")
                                 /\ At(g, "resolve")' => At(g, "resolve")
                                 /\ At(g, "update")' => At(g, "update")
    BY <1>2 DEF At
  <1>4. /\ prog[h] # <<>>
        /\ \A o \in Ops : Ready(h, o) => At(h, o)
    BY DEF CheckKey, EditKey, Ready, At
  <1> HIDE DEF KeysKept
  <1>5. CASE Ready(h, "lookup") /\ Advance(h) /\ UNCHANGED keyVars
    <2>1. At(h, "lookup")
      BY <1>4, <1>5 DEF Ops
    <2>2. ~At(h, "lookup")' /\ ~At(h, "update")'
      <3>1. prog'[h] = Tail(prog[h]) /\ Shaped(prog[h])
        BY <1>5 DEF Advance, Handled, Workers, Actors
      <3> QED BY <1>4, <2>1, <3>1, TailShaped DEF At, Follows
    <2> QED BY <1>3, <1>5, <2>1, <2>2, OthersKeys
  <1>6. CASE Ready(h, "lookup") /\ Lookup(h) /\ IF cache = NoKey THEN Before(h, <<Do("query"), Do("fill")>>) ELSE Enter(h)
    <2>1. held' = [held EXCEPT ![h] = cache] /\ UNCHANGED <<key, cache, was, ideal, stale>>
      BY <1>6 DEF Lookup, Hold
    <2>2. ~At(h, "lookup")' /\ ~At(h, "update")' /\ (At(h, "resolve")' => cache.enabled)
      <3>1. CASE cache = NoKey
        <4>1. prog'[h] = <<Do("query"), Do("fill")>> \o Tail(prog[h]) /\ Shaped(Tail(prog[h]))
          BY <1>4, <1>6, <3>1, TailShaped DEF Before, Handled, Workers, Actors
        <4>2. <<Do("query"), Do("fill")>> \in Seq(Steps) /\ Tail(prog[h]) \in Seq(Steps)
          BY <4>1, OpStep DEF Ops, PlainOps, ModelOps, PasswordOps, Shaped
        <4>3. Head(prog'[h]) = Do("query")
          BY <4>1, <4>2
        <4> QED BY <4>3 DEF At, Do
      <3>2. CASE cache # NoKey
        <4>1. \/ prog'[h] = Tail(prog[h]) /\ held'[h].enabled
              \/ prog'[h] = <<>>
          BY <1>6, <3>2 DEF Enter, Accepted, Advance, Refuse, Handled, Workers, Actors
        <4>2. held'[h] = cache
          BY <2>1 DEF KeysKept
        <4>3. At(h, "lookup") /\ Shaped(prog[h])
          BY <1>4, <1>6 DEF Ops, Handled
        <4>4. CASE prog'[h] = <<>>
          BY <4>4 DEF At
        <4>5. CASE prog'[h] = Tail(prog[h]) /\ held'[h].enabled
          <5>1. ~At(h, "lookup")' /\ ~At(h, "update")'
            BY <1>4, <4>3, <4>5, TailShaped DEF At, Follows
          <5> QED BY <4>2, <4>5, <5>1
        <4> QED BY <4>1, <4>4, <4>5
      <3> QED BY <3>1, <3>2
    <2> QED BY <1>3, <2>1, <2>2 DEF KeysKept
  <1>7. CASE Ready(h, "query") /\ Query(h) /\ Advance(h)
    <2>1. PICK found \in {key, NoKey} :
            held' = [held EXCEPT ![h] = found] /\ UNCHANGED <<key, cache, was, ideal, stale>>
      BY <1>7 DEF Query, Hold
    <2>2. ~At(h, "lookup")' /\ ~At(h, "update")' /\ ~At(h, "resolve")'
      BY <1>2, <1>4, <1>7, ComesFrom DEF At, Ops
    <2> QED BY <1>3, <2>1, <2>2 DEF KeysKept
  <1>8. CASE Ready(h, "fill") /\ Fill(h) /\ Enter(h)
    <2>1. /\ cache' = (IF held[h] = NoKey THEN cache ELSE held[h])
          /\ UNCHANGED <<key, held, was, ideal, stale>>
      BY <1>8 DEF Fill
    <2>2. ~At(h, "lookup")' /\ ~At(h, "update")'
      BY <1>2, <1>4, <1>8, ComesFrom DEF At, Ops
    <2>3. At(h, "resolve")' => held[h].enabled
      BY <1>8, <2>1 DEF Enter, Accepted, Refuse, At, Handled, Workers, Actors
    <2> QED BY <1>3, <2>1, <2>2, <2>3 DEF KeysKept
  <1>9. CASE Ready(h, "list") /\ ListKeys(h) /\ IF key = NoKey THEN Refuse(h) ELSE Advance(h)
    <2>1. held' = [held EXCEPT ![h] = key] /\ UNCHANGED <<key, cache, was, ideal, stale>>
      BY <1>9 DEF ListKeys, Hold
    <2>2. ~At(h, "lookup")' /\ ~At(h, "resolve")'
      BY <1>2, <1>4, <1>9, ComesFrom DEF At, Ops
    <2>3. At(h, "update")' => key # NoKey
      BY <1>9 DEF Refuse, At, Handled, Workers, Actors
    <2> QED BY <1>3, <2>1, <2>2, <2>3 DEF KeysKept
  <1>10. CASE Ready(h, "update") /\ UpdateKey(h, Head(prog[h]).patch) /\ Advance(h)
    <2>1. ~At(h, "lookup")' /\ ~At(h, "resolve")' /\ ~At(h, "update")' /\ held[h] # NoKey
      <3>1. prog'[h] = Tail(prog[h]) /\ Shaped(prog[h]) /\ At(h, "update")
        BY <1>4, <1>10 DEF Advance, Handled, Workers, Actors, Ops
      <3> QED BY <1>4, <3>1, TailShaped DEF At, Follows, KeysKept
    <2>2. CASE UNCHANGED keyVars
      BY <1>3, <2>1, <2>2, OthersKeys
    <2>3. CASE ~UNCHANGED keyVars
      <3>1. PICK patch : /\ key # NoKey /\ key' = Patched(held[h], patch)
                         /\ was' = was \union {key'} /\ ideal' = Patched(ideal, patch)
                         /\ stale' = (stale \/ held[h] # key) /\ UNCHANGED <<cache, held>>
        BY <1>10, <2>3 DEF UpdateKey, Write, keyVars
      <3>2. DOMAIN held[h] = {"enabled", "limit"} /\ DOMAIN ideal = {"enabled", "limit"}
        BY <2>1, <3>1 DEF KeysKept, RowsOnly
      <3>3. /\ DOMAIN key' = {"enabled", "limit"} /\ key' # NoKey
            /\ DOMAIN ideal' = {"enabled", "limit"} /\ ideal' # NoKey
        BY <3>1, <3>2, PatchedRow
      <3>4. ~stale' => key' = ideal'
        BY <3>1 DEF KeysKept
      <3>5. RowsOnly(was') /\ RowsOnly({ideal'})
        BY <3>1, <3>3 DEF KeysKept, RowsOnly
      <3> QED BY <1>3, <2>1, <3>1, <3>3, <3>4, <3>5 DEF KeysKept
    <2> QED BY <2>2, <2>3
  <1>11. CASE Ready(h, "delete_key") /\ DeleteKey(h) /\ Advance(h)
    <2>1. ~At(h, "lookup")' /\ ~At(h, "resolve")' /\ ~At(h, "update")'
      BY <1>2, <1>4, <1>11, ComesFrom DEF At, Ops
    <2>2. key' = NoKey /\ was' = was \union {NoKey} /\ ideal' = NoKey /\ UNCHANGED <<cache, held, stale>>
      BY <1>11 DEF DeleteKey, Write
    <2>3. RowsOnly(was') /\ RowsOnly({ideal'})
      BY <2>2 DEF KeysKept, RowsOnly
    <2> QED BY <1>3, <2>1, <2>2, <2>3 DEF KeysKept
  <1> QED BY <1>5, <1>6, <1>7, <1>8, <1>9, <1>10, <1>11 DEF CheckKey, EditKey

\* Nothing else reads or edits keys, but a start empties the cache.
LEMMA KeysStep ==
  ASSUME Handled, KeysKept, [Next]_vars
  PROVE  KeysKept'
  <1>1. \A h \in Workers : NextAt(h)
    BY HandledStep
  <1>2. ASSUME NEW h \in Workers, NEW program, Ask(h, program), Fresh(program) PROVE KeysKept'
    <2>1. /\ \A g \in Workers \ {h} : prog'[g] = prog[g]
          /\ ~At(h, "resolve")' /\ ~At(h, "update")'
      BY <1>2, AskStep, HeadFormed DEF Handled, Workers, Actors, At, Fresh, LaterOps
    <2>2. held' = [held EXCEPT ![h] = NoKey] /\ UNCHANGED <<key, cache, was, ideal, stale>>
      BY <1>2 DEF Ask
    <2> QED BY <2>1, <2>2 DEF KeysKept, At
  <1>3. ASSUME NEW a \in Actors, Step(a) PROVE KeysKept'
    <2>1. CASE a \in Workers /\ (CheckKey(a) \/ EditKey(a))
      BY <2>1, KeySteps
    <2>2. CASE ~(a \in Workers /\ (CheckKey(a) \/ EditKey(a)))
      <3>1. Goes(a)
        BY <1>3, StepGoes
      <3>2. ~At(a, "lookup") /\ ~At(a, "fill") /\ ~At(a, "list") /\ UNCHANGED keyVars
        <4> USE DEF Ready, At
        <4>1. CASE UploadFile(a) \/ FindFile(a) \/ OpenFile(a) \/ DeleteFile(a)
          BY <4>1 DEF UploadFile, FindFile, OpenFile, DeleteFile, OnlyFiles
        <4>2. CASE UpdateSettings(a) \/ Account(a) \/ RunSession(a)
          BY <4>2 DEF UpdateSettings, Account, RunSession, OnlySettings, OnlyAccount, OnlySession
        <4>3. CASE EditModel(a) \/ ResolveModel(a)
          BY <4>3 DEF EditModel, ResolveModel, OnlyModels
        <4>4. CASE LogOperation(a) \/ FlushStep(a)
          BY <4>4 DEF LogOperation, FlushStep, OnlyAudit
        <4> QED BY <1>3, <2>2, <4>1, <4>2, <4>3, <4>4 DEF Step
      <3>3. \A h \in Workers : /\ At(h, "lookup")' => At(h, "lookup")
                               /\ At(h, "resolve")' => At(h, "resolve")
                               /\ At(h, "update")' => At(h, "update")
        BY <1>1, <3>1, <3>2, ComesFrom DEF Goes, Handled, At, Workers, Actors
      <3> QED BY <3>2, <3>3, OthersKeys
    <2> QED BY <2>1, <2>2
  <1>4. CASE Tick \/ Close
    <2>1. \A h \in Workers : prog'[h] = prog[h]
      BY <1>4, ServerAssumption DEF Tick, Close, Handled, Actors, Workers
    <2> QED BY <1>4, <2>1, OthersKeys DEF Tick, Close, OnlyAudit, At
  <1>5. CASE Exit \/ Crash
    <2>1. UNCHANGED keyVars /\ \A h \in Workers : prog'[h] = <<>>
      BY <1>5 DEF Exit, Crash, End, Workers, Actors
    <2> QED BY <2>1, OthersKeys DEF At
  <1>6. CASE Start
    <2>1. /\ cache' = NoKey /\ was' = {key} /\ held' = [h \in Workers |-> NoKey]
          /\ UNCHANGED <<key, ideal, stale, prog>> /\ \A h \in Workers : prog[h] = <<>>
      BY <1>6, ServerAssumption DEF Start, StartKeys, Handled
    <2> QED BY <2>1 DEF KeysKept, At, RowsOnly
  <1>7. CASE Shutdown \/ UNCHANGED vars
    BY <1>7, OthersKeys DEF Shutdown, vars, At
  <1>8. ASSUME NEW h \in Admins, AdminAsks(h) PROVE KeysKept'
    BY <1>2, <1>8, AdminProgramsFresh, AccountPrograms DEF AdminAsks, Workers, Handled
  <1>9. ASSUME NEW h \in Clients, ClientAsks(h) PROVE KeysKept'
    BY <1>2, <1>9, ClientProgramsFresh DEF ClientAsks, Workers, Handled
  <1> QED BY <1>3, <1>4, <1>5, <1>6, <1>7, <1>8, <1>9 DEF Next

\* At the start there is the key as it was created.
LEMMA KeysFirst == Init => KeysKept
  <1> SUFFICES ASSUME Init PROVE KeysKept
    OBVIOUS
  <1> DEFINE l == CHOOSE limit \in Limits : TRUE
             k == [enabled |-> TRUE, limit |-> l]
  <1>1. /\ key = k /\ cache = NoKey /\ was = {key} /\ ideal = key /\ stale = FALSE
        /\ held = [h \in Workers |-> NoKey] /\ \A h \in Workers : prog[h] = <<>>
    BY ServerAssumption DEF Init, KeyInit, Workers, Actors
  <1>2. DOMAIN k = {"enabled", "limit"} /\ DOMAIN NoKey = {"enabled"}
    BY DEF NoKey
  <1> HIDE DEF k, l
  <1>3. k # NoKey
    BY <1>2
  <1> QED BY <1>1, <1>2, <1>3 DEF KeysKept, RowsOnly, At

\* AcceptedOfThisLife: a key that let a request in was enabled in some row it has
\* had since the process started, however checks, edits, deletions and restarts
\* interleave: the cache is at worst as old as the process.
THEOREM AcceptedRows == Spec => []AcceptedOfThisLife
  <1>1. KeysKept => AcceptedOfThisLife
    BY DEF KeysKept, AcceptedOfThisLife, Ready, At, Workers
  <1> QED BY <1>1, HandledInit, HandledStep, KeysFirst, KeysStep, PTL DEF Spec

\* EditsKept: an edit is only lost to another that read the row before, and a
\* deletion never: UpdateKey of a row that is gone changes nothing.
THEOREM EditsLast == Spec => []EditsKept
  <1>1. KeysKept => EditsKept
    BY DEF KeysKept, EditsKept
  <1> QED BY <1>1, HandledInit, HandledStep, KeysFirst, KeysStep, PTL DEF Spec

-----------------------------------------------------------------------------
\* A change of the password that has set it and not stored it is the only one, and
\* stores what logs in.
AccountKept ==
  phase # "down" /\ ~clash =>
    /\ \A h \in Workers : At(h, "save") => Head(prog[h]).password = password
    /\ \A g \in Workers, h \in Workers : At(g, "save") /\ At(h, "save") => g = h
    /\ (\A h \in Workers : ~At(h, "save")) => saved = password

\* Where the password and who stores it stay.
LEMMA OthersAccount ==
  ASSUME AccountKept, UNCHANGED <<phase, password, saved, clash>>,
         \A h \in Workers : /\ At(h, "save")' <=> At(h, "save")
                            /\ At(h, "save") => Head(prog'[h]) = Head(prog[h])
  PROVE  AccountKept'
  BY DEF AccountKept

\* A goroutine at the end of one that is not storing the password.
LEMMA NotSaving ==
  ASSUME Handled, NEW a \in Actors, Goes(a), a \in Workers => ~At(a, "save") /\ ~At(a, "set")
  PROVE  \A h \in Workers : /\ At(h, "save")' <=> At(h, "save")
                            /\ At(h, "save") => Head(prog'[h]) = Head(prog[h])
  <1>1. \A h \in Workers \ {a} : prog'[h] = prog[h]
    BY DEF Goes, Handled, Workers, Actors
  <1>2. a \in Workers => ~At(a, "save")'
    BY GoesOn, ComesFrom
  <1> QED BY <1>1, <1>2 DEF At

\* AdminAuth: a password is set and then stored.
LEMMA AccountSteps ==
  ASSUME Handled, AccountKept, NEW h \in Workers, Account(h)
  PROVE  AccountKept'
  <1>1. Step(h) /\ h \in Actors
    BY DEF Step, Actors
  <1>2. Goes(h) /\ NextAt(h) /\ phase # "down" /\ phase' = phase
    BY <1>1, StepGoes, GoesOn
  <1>3. prog[h] # <<>> /\ Shaped(prog[h]) /\ \A g \in Workers \ {h} : prog'[g] = prog[g]
    BY <1>2 DEF Goes, Handled, Workers, Actors
  <1>4. CASE ~At(h, "set") /\ ~At(h, "save")
    <2>1. UNCHANGED <<password, saved, clash>>
      BY <1>4 DEF Account, Ready, At, accountVars
    <2> QED BY <1>1, <1>2, <1>4, <2>1, NotSaving, OthersAccount
  <1>5. CASE At(h, "set")
    <2>1. /\ prog' = [prog EXCEPT ![h] = Tail(@)] /\ password' = Head(prog[h]).password
          /\ clash' = (clash \/ \E o \in Workers : Saving(o)) /\ saved' = saved
      BY <1>5 DEF Account, Ready, At, Advance, accountVars
    <2>2. prog'[h] = Tail(prog[h])
      BY <2>1 DEF Handled, Workers, Actors
    <2>3. Tail(prog[h]) # <<>>
      <3>1. Len(prog[h]) \in Nat \ {0} /\ Head(prog[h]) = prog[h][1] /\ Len(Tail(prog[h])) = Len(prog[h]) - 1
        BY <1>3, LenProperties, HeadTailProperties, EmptySeq DEF Shaped
      <3>2. Len(prog[h]) # 1
        BY <1>3, <1>5, <3>1 DEF At, Shaped, OpeningOps
      <3>3. Len(Tail(prog[h])) # 0 /\ Len(<<>>) = 0
        BY <3>1, <3>2
      <3> QED BY <3>3
    <2>4. At(h, "save")' /\ Head(prog'[h]).password = password'
      <3>1. Follows(Head(prog[h]), Head(Tail(prog[h])))
        BY <1>3, <2>3, TailShaped
      <3> QED BY <1>5, <2>1, <2>2, <2>3, <3>1 DEF At, Follows
    <2>5. ~clash' => ~clash /\ \A g \in Workers : ~At(g, "save")
      BY <2>1 DEF Saving, At
    <2>6. ~clash' => \A g \in Workers \ {h} : ~At(g, "save")'
      BY <1>3, <2>5 DEF At
    <2> QED BY <2>4, <2>6 DEF AccountKept
  <1>6. CASE At(h, "save")
    <2>1. /\ \/ saved' = Head(prog[h]).password /\ clash' = clash
             \/ clash' = TRUE
          /\ password' = password
      BY <1>6 DEF Account, Ready, At, accountVars
    <2>2. ~At(h, "save")'
      <3>1. prog'[h] = Tail(prog[h])
        BY <1>6 DEF Account, Ready, At, Advance, Handled, Workers, Actors
      <3> QED BY <1>3, <1>6, <3>1, TailShaped DEF At, Follows
    <2>3. ASSUME ~clash' PROVE saved' = password' /\ \A g \in Workers : ~At(g, "save")'
      <3>1. ~clash /\ saved' = Head(prog[h]).password
        BY <2>1, <2>3
      <3>2. Head(prog[h]).password = password /\ \A g \in Workers \ {h} : ~At(g, "save")
        BY <1>2, <1>6, <3>1 DEF AccountKept
      <3>3. \A g \in Workers \ {h} : ~At(g, "save")'
        BY <1>3, <3>2 DEF At
      <3> QED BY <2>1, <2>2, <3>1, <3>2, <3>3
    <2> QED BY <2>3 DEF AccountKept
  <1> QED BY <1>4, <1>5, <1>6

\* Nothing else sets or stores it, but a start reads what was stored.
LEMMA AccountStep ==
  ASSUME Handled, AccountKept, [Next]_vars
  PROVE  AccountKept'
  <1>1. ASSUME NEW h \in Workers, NEW program, Ask(h, program), Fresh(program)
        PROVE  AccountKept'
    <2>1. /\ \A g \in Workers \ {h} : prog'[g] = prog[g] /\ prog[h] = <<>>
          /\ ~At(h, "save")' /\ prog[h] = <<>>
      BY <1>1, AskStep, HeadFormed DEF Handled, Workers, Actors, At, Fresh, LaterOps
    <2>2. UNCHANGED <<phase, password, saved, clash>>
      BY <1>1 DEF Ask, accountVars
    <2> QED BY <2>1, <2>2, OthersAccount DEF At
  <1>2. ASSUME NEW a \in Actors, Step(a) PROVE AccountKept'
    <2>1. Goes(a) /\ phase # "down" /\ phase' = phase
      BY <1>2, StepGoes
    <2>2. CASE a \in Workers /\ Account(a)
      BY <2>1, <2>2, AccountSteps
    <2>3. CASE ~(a \in Workers /\ Account(a))
      <3>1. (a \in Workers => ~At(a, "save") /\ ~At(a, "set")) /\ UNCHANGED <<password, saved, clash>>
        <4> USE DEF Ready, At, accountVars
        <4>1. CASE UploadFile(a) \/ FindFile(a) \/ OpenFile(a) \/ DeleteFile(a)
          BY <4>1 DEF UploadFile, FindFile, OpenFile, DeleteFile, OnlyFiles
        <4>2. CASE UpdateSettings(a) \/ RunSession(a)
          BY <4>2 DEF UpdateSettings, RunSession, OnlySettings, OnlySession
        <4>3. CASE EditModel(a) \/ ResolveModel(a)
          BY <4>3 DEF EditModel, ResolveModel, OnlyModels
        <4>4. CASE LogOperation(a) \/ FlushStep(a)
          BY <4>4 DEF LogOperation, FlushStep, OnlyAudit
        <4>5. CASE CheckKey(a) \/ EditKey(a)
          BY <4>5 DEF CheckKey, EditKey, OnlyKeys
        <4> QED BY <1>2, <2>3, <4>1, <4>2, <4>3, <4>4, <4>5 DEF Step
      <3> QED BY <2>1, <3>1, NotSaving, OthersAccount
    <2> QED BY <2>2, <2>3
  <1>3. CASE Tick \/ Close \/ Shutdown
    <2>1. \A h \in Workers : prog'[h] = prog[h]
      BY <1>3, ServerAssumption DEF Tick, Close, Shutdown, Handled, Actors, Workers
    <2>2. phase # "down" /\ phase' # "down" /\ UNCHANGED <<password, saved, clash>>
      BY <1>3 DEF Tick, Close, Shutdown, OnlyAudit, accountVars
    <2> QED BY <2>1, <2>2 DEF AccountKept, At
  <1>4. CASE Exit \/ Crash
    <2>1. /\ phase # "down" /\ phase' = "down" /\ UNCHANGED <<password, saved>>
          /\ clash' = (clash \/ \E h \in Workers : Saving(h))
      BY <1>4 DEF Exit, Crash, End, Serving
    <2>2. ~clash' => ~clash /\ \A h \in Workers : ~At(h, "save")
      BY <2>1 DEF Saving, At
    <2> QED BY <2>1, <2>2 DEF AccountKept
  <1>5. CASE Start
    <2>1. /\ phase' # "down" /\ saved' = saved /\ prog' = prog /\ \A h \in Workers : prog[h] = <<>>
          /\ \E answered \in BOOLEAN : password' = Restored(answered) /\ clash' = ~answered
      BY <1>5 DEF Start, Handled
    <2>2. ~clash' => password' = saved
      BY <2>1 DEF Restored
    <2> QED BY <2>1, <2>2 DEF AccountKept, At
  <1>6. CASE UNCHANGED vars
    BY <1>6, OthersAccount DEF vars, accountVars, At
  <1>7. ASSUME NEW h \in Admins, AdminAsks(h) PROVE AccountKept'
    BY <1>1, <1>7, AdminProgramsFresh, AccountPrograms DEF AdminAsks, Workers, Handled
  <1>8. ASSUME NEW h \in Clients, ClientAsks(h) PROVE AccountKept'
    BY <1>1, <1>8, ClientProgramsFresh DEF ClientAsks, Workers, Handled
  <1> QED BY <1>2, <1>3, <1>4, <1>5, <1>6, <1>7, <1>8 DEF Next

\* At the start the configured password is the stored one.
LEMMA AccountFirst == Init => AccountKept
  BY DEF Init, AccountKept, At, Workers, Actors

\* PasswordKept: the password that logs in is the one a restart will read, unless
\* two changes overlapped or the database failed: handlePassword sets one and then
\* the other, and a stop may come between.
THEOREM PasswordStored == Spec => []PasswordKept
  <1>1. AccountKept => PasswordKept
    BY DEF AccountKept, PasswordKept, Saving, At
  <1> QED BY <1>1, HandledInit, HandledStep, AccountFirst, AccountStep, PTL DEF Spec

-----------------------------------------------------------------------------
\* What a step of the server does to the audit log.
LEMMA AuditSteps == [Next]_vars => [AuditNext]_auditVars
  <1> SUFFICES ASSUME [Next]_vars PROVE [AuditNext]_auditVars
    OBVIOUS
  <1>1. ASSUME NEW a \in Actors, Step(a) PROVE [AuditNext]_auditVars
    <2>1. CASE LogOperation(a)
      BY <2>1 DEF LogOperation, AuditNext
    <2>2. CASE FlushStep(a)
      BY <2>2, ServerAssumption DEF FlushStep, AuditNext
    <2>3. CASE UploadFile(a) \/ FindFile(a) \/ OpenFile(a) \/ DeleteFile(a)
      BY <2>3 DEF UploadFile, FindFile, OpenFile, DeleteFile, OnlyFiles
    <2>4. CASE UpdateSettings(a) \/ Account(a) \/ RunSession(a)
      BY <2>4 DEF UpdateSettings, Account, RunSession, OnlySettings, OnlyAccount, OnlySession
    <2>5. CASE EditModel(a) \/ ResolveModel(a)
      BY <2>5 DEF EditModel, ResolveModel, OnlyModels
    <2>6. CASE CheckKey(a) \/ EditKey(a)
      BY <2>6 DEF CheckKey, EditKey, OnlyKeys
    <2> QED BY <1>1, <2>1, <2>2, <2>3, <2>4, <2>5, <2>6 DEF Step
  <1>2. CASE Exit \/ Crash
    BY <1>2 DEF Exit, Crash, End, AuditNext
  <1>3. CASE Tick \/ Close \/ Shutdown \/ Start \/ UNCHANGED vars
    BY <1>3 DEF Tick, Close, Shutdown, Start, OnlyAudit, vars
  <1>4. ASSUME NEW h, NEW program, Ask(h, program) PROVE [AuditNext]_auditVars
    BY <1>4 DEF Ask
  <1> QED BY <1>1, <1>2, <1>3, <1>4 DEF Next, AdminAsks, ClientAsks

\* The server's goroutines use the audit log as AuditLog says: handlers that log
\* or list it, the loop, and main at shutdown, with the end of the process between
\* any two steps.
THEOREM ServerAudits == Spec => AuditSpec
  <1>1. Init => AuditInit
    BY DEF Init
  <1> QED BY <1>1, AuditSteps, PTL DEF Spec, AuditSpec

\* AuditOnce, of the server: no entry an administrator's operation left is lost but
\* by a stop or a failed INSERT, and none is stored twice.
THEOREM ServerAuditsOnce == Spec => []AuditOnce
  BY ServerAudits, EntriesOnce, PTL

-----------------------------------------------------------------------------
(***************************************************************************)
(* Types.  What a statement writes comes from the request, whose steps     *)
(* carry what they are for, or from what its handler has read before.      *)
(***************************************************************************)
\* The copy of a model that a handler has read, with its id.
Copies == [id : ModelIds, enabled : BOOLEAN, text : Texts]

\* Who has yet to use what it read in the table has read a row.
ModelsTyped ==
  /\ models \in [ModelIds -> Rows \union {NoModel}] /\ DOMAIN copy = Workers
  /\ \A h \in Workers : At(h, "clone") \/ At(h, "update_model") => copy[h] \in Copies

KeysTyped ==
  /\ {key, cache} \subseteq Keys \union {NoKey} /\ held \in [Workers -> Keys \union {NoKey}]

\* Only administrators log in, and a process that is ending is one of those that may.
RestTyped ==
  /\ disk \in [Files -> {"none", "partial", "whole"}]
  /\ phase \in {"up", "closing", "shutdown", "down"}
  /\ settings \in Settings /\ {password, saved} \subseteq Passwords
  /\ tokens \subseteq Admins /\ \A h \in Workers : At(h, "login") => h \in Admins
  /\ sesRow \in [SessionIds -> {"none", "running", "ended"}]
  /\ requests \in 0..MaxRequests[area]
  /\ stops \in 0..MaxStops /\ (phase \in {"closing", "shutdown"} => stops < MaxStops)

\* Which action changes what.
LEMMA ServerChanges ==
  ASSUME Handled, [Next]_vars
  PROVE  /\ UNCHANGED keyVars \/ StartKeys
              \/ \E h \in Workers : \/ CheckKey(h) \/ EditKey(h)
                                    \/ (held' = [held EXCEPT ![h] = NoKey] /\ UNCHANGED <<key, cache>>)
         /\ UNCHANGED models \/ SeedModels \/ \E h \in Workers : EditModel(h)
         /\ UNCHANGED disk \/ \E h \in Workers : UploadFile(h) \/ DeleteFile(h)
         /\ UNCHANGED settings \/ settings' = Default \/ \E h \in Workers : UpdateSettings(h)
         /\ UNCHANGED <<password, saved>> \/ (\E h \in Workers : Account(h))
              \/ (saved' = saved /\ password' \in {saved, DefaultPassword})
         /\ UNCHANGED tokens \/ (\E h \in Workers : Account(h)) \/ tokens' = {}
         /\ UNCHANGED sesRow \/ \E h \in Workers : RunSession(h)
         /\ area' = area
         /\ requests' = requests \/ (requests < MaxRequests[area] /\ requests' = requests + 1)
         /\ \/ UNCHANGED <<stops, phase>>
            \/ stops' = stops /\ (Close \/ Shutdown \/ Start)
            \/ stops' = stops + 1 /\ phase' = "down" /\ (Exit \/ Crash)
  <1> USE DEF boundVars, accountVars, sessionVars, keyVars, modelVars, assetVars
  <1>1. ASSUME NEW h \in Workers, NEW program, Ask(h, program)
        PROVE  /\ held' = [held EXCEPT ![h] = NoKey] /\ UNCHANGED <<key, cache>>
               /\ UNCHANGED <<models, disk, settings, password, saved, tokens, sesRow, area, stops, phase>>
               /\ requests < MaxRequests[area] /\ requests' = requests + 1
    BY <1>1 DEF Ask
  <1>2. CASE \E h \in Workers : \E program : Ask(h, program)
    BY <1>1, <1>2
  <1>3. ASSUME NEW a \in Actors, Step(a)
        PROVE  /\ UNCHANGED keyVars \/ (a \in Workers /\ (CheckKey(a) \/ EditKey(a)))
               /\ UNCHANGED models \/ (a \in Workers /\ EditModel(a))
               /\ UNCHANGED disk \/ (a \in Workers /\ (UploadFile(a) \/ DeleteFile(a)))
               /\ UNCHANGED settings \/ (a \in Workers /\ UpdateSettings(a))
               /\ UNCHANGED accountVars \/ (a \in Workers /\ Account(a))
               /\ UNCHANGED sesRow \/ (a \in Workers /\ RunSession(a))
               /\ UNCHANGED <<area, requests, stops, phase>>
    <2>1. CASE LogOperation(a) \/ FlushStep(a)
      BY <2>1 DEF LogOperation, FlushStep, OnlyAudit
    <2>2. CASE a \in Workers /\ (UploadFile(a) \/ DeleteFile(a))
      BY <2>2 DEF UploadFile, DeleteFile, OnlyFiles
    <2>3. CASE FindFile(a) \/ OpenFile(a)
      BY <2>3 DEF FindFile, OpenFile, OnlyFiles, Find, Open, Preview
    <2>4. CASE a \in Workers /\ UpdateSettings(a)
      BY <2>4 DEF UpdateSettings, OnlySettings
    <2>5. CASE a \in Workers /\ Account(a)
      BY <2>5 DEF Account, OnlyAccount
    <2>6. CASE a \in Workers /\ RunSession(a)
      BY <2>6 DEF RunSession, OnlySession
    <2>7. CASE a \in Workers /\ EditModel(a)
      BY <2>7 DEF EditModel, OnlyModels
    <2>8. CASE a \in Workers /\ ResolveModel(a)
      BY <2>8 DEF ResolveModel, Resolve, GetModel, OnlyModels
    <2>9. CASE a \in Workers /\ (CheckKey(a) \/ EditKey(a))
      BY <2>9 DEF CheckKey, EditKey, OnlyKeys
    <2> QED BY <1>3, <2>1, <2>2, <2>3, <2>4, <2>5, <2>6, <2>7, <2>8, <2>9 DEF Step
  <1>4. CASE \E a \in Actors : Step(a)
    BY <1>3, <1>4
  <1>5. CASE Tick
    BY <1>5 DEF Tick, OnlyAudit
  <1>6. CASE Close \/ Shutdown
    BY <1>6 DEF Close, Shutdown
  <1>7. CASE Exit \/ Crash
    BY <1>7 DEF Exit, Crash, End
  <1>8. CASE Start
    BY <1>8 DEF Start, StartAssets, Restored
  <1>9. CASE UNCHANGED vars
    BY <1>9 DEF vars
  <1> QED BY <1>2, <1>4, <1>5, <1>6, <1>7, <1>8, <1>9 DEF Next, AdminAsks, ClientAsks, Workers

\* Who is about to use the copy of a model has just read it.
LEMMA CopyStep ==
  ASSUME Handled, ModelsTyped, [Next]_vars
  PROVE  /\ DOMAIN copy' = Workers
         /\ \A h \in Workers : (At(h, "clone") \/ At(h, "update_model"))' => copy'[h] \in Copies
  <1>1. \A h \in Workers : NextAt(h)
    BY HandledStep
  <1>2. ASSUME NEW h \in Workers, copy'[h] = copy[h], (At(h, "clone") \/ At(h, "update_model"))',
               ~At(h, "get")
        PROVE  copy'[h] \in Copies
    BY <1>1, <1>2, ComesFrom DEF ModelsTyped
  <1>3. ASSUME NEW h \in Workers, prog[h] = <<>> PROVE ~(At(h, "clone") \/ At(h, "update_model"))'
    BY <1>1, <1>3, ComesFrom DEF At
  <1>4. ASSUME NEW a \in Workers, NEW program, Ask(a, program)
        PROVE  /\ DOMAIN copy' = Workers
               /\ \A h \in Workers : (At(h, "clone") \/ At(h, "update_model"))' => copy'[h] \in Copies
    <2>1. /\ prog[a] = <<>> /\ DOMAIN copy' = Workers
          /\ \A h \in Workers \ {a} : copy'[h] = copy[h] /\ prog'[h] = prog[h]
      BY <1>4 DEF Ask, ModelsTyped, Handled, Workers, Actors
    <2> QED BY <1>3, <2>1 DEF At, ModelsTyped
  <1>5. ASSUME NEW a \in Actors, Step(a)
        PROVE  /\ DOMAIN copy' = Workers
               /\ \A h \in Workers : (At(h, "clone") \/ At(h, "update_model"))' => copy'[h] \in Copies
    <2>1. Goes(a) /\ \A h \in Workers \ {a} : prog'[h] = prog[h]
      BY <1>5, StepGoes DEF Goes, Handled, Workers, Actors
    <2>2. CASE a \in Workers /\ EditModel(a)
      <3>1. DOMAIN copy' = Workers /\ \A h \in Workers \ {a} : copy'[h] = copy[h]
        BY <2>2 DEF EditModel, GetModel, CreateModel, CloneModel, UpdateModel, DeleteModel, modelVars,
             ModelsTyped
      <3>2. (At(a, "clone") \/ At(a, "update_model"))' => copy'[a] \in Copies
        <4>1. CASE At(a, "get")
          <5> DEFINE id == Head(prog[a]).id
          <5>1. id \in ModelIds
            BY <2>2, <4>1, HeadFormed, StepArguments DEF At, Handled, ModelOps
          <5>2. GetModel(a, id) \/ Refuse(a)
            BY <2>2, <4>1 DEF At, EditModel, Ready
          <5> HIDE DEF id
          <5>3. CASE GetModel(a, id)
            <6>1. models[id] \in Rows /\ copy'[a] = Copy(id)
              BY <2>2, <5>1, <5>3 DEF GetModel, ModelsTyped
            <6> QED BY <5>1, <6>1 DEF Rows, Copy, Copies
          <5>4. CASE Refuse(a)
            BY <2>2, <5>4 DEF Refuse, At, Handled, Workers, Actors
          <5> QED BY <5>2, <5>3, <5>4
        <4>2. CASE ~At(a, "get")
          <5>1. copy'[a] = copy[a]
            BY <2>2, <4>2 DEF EditModel, At, Ready, CreateModel, CloneModel, UpdateModel, DeleteModel,
                 modelVars
          <5> QED BY <1>2, <2>2, <4>2, <5>1
        <4> QED BY <4>1, <4>2
      <3> QED BY <2>1, <3>1, <3>2 DEF At, ModelsTyped
    <2>3. CASE a \in Workers /\ ResolveModel(a)
      <3>1. /\ DOMAIN copy' = Workers /\ \A h \in Workers \ {a} : copy'[h] = copy[h]
            /\ At(a, "resolve")
        BY <2>3 DEF ResolveModel, Resolve, GetModel, modelVars, ModelsTyped, Ready, At
      <3>2. ~(At(a, "clone") \/ At(a, "update_model"))'
        BY <1>1, <2>3, <3>1, ComesFrom DEF At
      <3> QED BY <2>1, <3>1, <3>2 DEF At, ModelsTyped
    <2>4. CASE ~(a \in Workers /\ (EditModel(a) \/ ResolveModel(a)))
      <3>1. UNCHANGED copy /\ (a \in Workers => ~At(a, "get"))
        <4> USE DEF Ready, At, modelVars
        <4>1. CASE UploadFile(a) \/ FindFile(a) \/ OpenFile(a) \/ DeleteFile(a)
          BY <4>1 DEF UploadFile, FindFile, OpenFile, DeleteFile, OnlyFiles
        <4>2. CASE UpdateSettings(a) \/ Account(a) \/ RunSession(a)
          BY <4>2 DEF UpdateSettings, Account, RunSession, OnlySettings, OnlyAccount, OnlySession
        <4>3. CASE CheckKey(a) \/ EditKey(a)
          BY <4>3 DEF CheckKey, EditKey, OnlyKeys
        <4>4. CASE LogOperation(a) \/ FlushStep(a)
          BY <4>4 DEF LogOperation, FlushStep, OnlyAudit
        <4> QED BY <1>5, <2>4, <4>1, <4>2, <4>3, <4>4 DEF Step
      <3>2. a \in Workers => ((At(a, "clone") \/ At(a, "update_model"))' => copy'[a] \in Copies)
        BY <1>2, <3>1
      <3> QED BY <2>1, <3>1, <3>2 DEF At, ModelsTyped
    <2> QED BY <2>2, <2>3, <2>4
  <1>6. CASE \/ \E h \in Admins : AdminAsks(h)
             \/ \E h \in Clients : ClientAsks(h)
    BY <1>4, <1>6 DEF AdminAsks, ClientAsks, Workers
  <1>7. CASE Tick \/ Close \/ Shutdown \/ UNCHANGED vars
    <2>1. UNCHANGED copy /\ \A h \in Workers : prog'[h] = prog[h]
      BY <1>7, ServerAssumption DEF Tick, Close, Shutdown, OnlyAudit, vars, modelVars, Handled, Workers, Actors
    <2> QED BY <2>1 DEF At, ModelsTyped
  <1>8. CASE Exit \/ Crash
    <2>1. UNCHANGED copy /\ \A h \in Workers : prog'[h] = <<>>
      BY <1>8 DEF Exit, Crash, End, modelVars, Workers, Actors
    <2> QED BY <2>1 DEF At, ModelsTyped
  <1>9. CASE Start
    <2>1. copy' = [h \in Workers |-> NoCopy] /\ \A h \in Workers : prog[h] = <<>>
      BY <1>9, ServerAssumption DEF Start, SeedModels, Handled
    <2> QED BY <1>3, <2>1
  <1> QED BY <1>5, <1>6, <1>7, <1>8, <1>9 DEF Next

\* A patched row has the types of a row: a patch has the one column.
LEMMA PatchedTypes ==
  /\ \A k \in Keys, patch \in KeyPatches : Patched(k, patch) \in Keys
  /\ \A c \in Copies, patch \in ModelPatches : Row(Patch(c, patch)) \in Rows
  /\ \A s \in Settings, patch \in SettingsPatches : Patched(s, patch) \in Settings
  <1>1. ASSUME NEW k \in Keys, NEW patch \in KeyPatches PROVE Patched(k, patch) \in Keys
    <2>1. CASE \E b \in BOOLEAN : patch = [enabled |-> b]
      <3>1. PICK b \in BOOLEAN : patch = [enabled |-> b]
        BY <2>1
      <3>2. Patched(k, patch) = [enabled |-> b, limit |-> k.limit]
        BY <3>1 DEF Keys, Patched
      <3> QED BY <3>2 DEF Keys
    <2>2. CASE \E l \in Limits : patch = [limit |-> l]
      <3>1. PICK l \in Limits : patch = [limit |-> l]
        BY <2>2
      <3>2. Patched(k, patch) = [enabled |-> k.enabled, limit |-> l]
        BY <3>1 DEF Keys, Patched
      <3> QED BY <3>2 DEF Keys
    <2> QED BY <2>1, <2>2 DEF KeyPatches
  <1>2. ASSUME NEW c \in Copies, NEW patch \in ModelPatches PROVE Row(Patch(c, patch)) \in Rows
    <2> DEFINE p == Patch(c, patch)
    <2>1. p.enabled \in BOOLEAN /\ p.text \in Texts
      <3>1. CASE \E b \in BOOLEAN : patch = [enabled |-> b]
        BY <3>1 DEF Copies, Patch
      <3>2. CASE \E t \in Texts : patch = [text |-> t]
        BY <3>2 DEF Copies, Patch
      <3>3. CASE \E id \in ModelIds : patch = [id |-> id]
        BY <3>3 DEF Copies, Patch
      <3> QED BY <3>1, <3>2, <3>3 DEF ModelPatches
    <2> HIDE DEF p
    <2>2. Row(p) \in Rows
      BY <2>1 DEF Row, Rows
    <2> QED BY <2>2 DEF p
  <1>3. ASSUME NEW s \in Settings, NEW patch \in SettingsPatches PROVE Patched(s, patch) \in Settings
    <2>1. CASE \E m \in {"any", "require"} : patch = [keyMode |-> m]
      <3>1. PICK m \in {"any", "require"} : patch = [keyMode |-> m]
        BY <2>1
      <3>2. Patched(s, patch) = [keyMode |-> m, fallback |-> s.fallback]
        BY <3>1 DEF Settings, Patched
      <3> QED BY <3>2 DEF Settings
    <2>2. CASE patch = [fallback |-> TRUE]
      <3>1. PICK b \in BOOLEAN : patch = [fallback |-> b]
        BY <2>2
      <3>2. Patched(s, patch) = [keyMode |-> s.keyMode, fallback |-> b]
        BY <3>1 DEF Settings, Patched
      <3> QED BY <3>2 DEF Settings
    <2> QED BY <2>1, <2>2 DEF SettingsPatches
  <1> QED BY <1>1, <1>2, <1>3

\* The models, whoever inserts, patches, clones or seeds them.
LEMMA ModelsTypedStep ==
  ASSUME Handled, ModelsTyped, [Next]_vars
  PROVE  ModelsTyped'
  <1> DEFINE Tables == [ModelIds -> Rows \union {NoModel}]
  <1>1. models \in Tables
    BY DEF ModelsTyped
  <1>2. ASSUME NEW row \in Rows, NEW id, Insert(row, id) PROVE models' \in Tables
    BY <1>1, <1>2 DEF Insert
  <1>3. ASSUME NEW h \in Workers, EditModel(h) PROVE models' \in Tables
    <2> DEFINE step == Head(prog[h])
    <2>1. prog[h] # <<>> /\ step \in Steps
      BY <1>3, HeadFormed DEF EditModel, Ready, Handled
    <2> HIDE DEF step
    <2>2. CASE UNCHANGED models
      BY <1>1, <2>2
    <2>3. CASE step.op = "insert" /\ CreateModel(step.id, step.text)
      <3>1. [enabled |-> TRUE, text |-> step.text] \in Rows
        BY <2>1, <2>3, StepArguments DEF Rows
      <3> QED BY <1>2, <2>3, <3>1 DEF CreateModel
    <2>4. CASE step.op = "clone" /\ CloneModel(h, step.id)
      <3>1. copy[h] \in Copies
        BY <2>1, <2>4 DEF ModelsTyped, At, step
      <3>2. Row(copy[h]) \in Rows
        BY <3>1 DEF Copies, Row, Rows
      <3> QED BY <1>2, <2>4, <3>2 DEF CloneModel
    <2>5. CASE step.op = "update_model" /\ UpdateModel(h, step.patch)
      <3>1. copy[h] \in Copies
        BY <2>1, <2>5 DEF ModelsTyped, At, step
      <3>2. Row(Patch(copy[h], step.patch)) \in Rows
        BY <2>1, <2>5, <3>1, StepArguments, PatchedTypes
      <3> QED BY <1>1, <2>5, <3>2 DEF UpdateModel
    <2>6. CASE DeleteModel(step.id)
      BY <1>1, <2>6 DEF DeleteModel
    <2> QED BY <1>3, <2>2, <2>3, <2>4, <2>5, <2>6 DEF EditModel, Ready, GetModel, modelVars, step
  <1>4. ASSUME SeedModels PROVE models' \in Tables
    <2>1. Seeded \in Rows
      BY ModelAssumption DEF Seeded, Texts0, Rows
    <2>2. Insert(Seeded, DefaultModel) \/ UNCHANGED models
      BY <1>4 DEF SeedModels
    <2> QED BY <1>1, <1>2, <2>1, <2>2
  <1> HIDE DEF Tables
  <1>5. models' \in Tables
    <2>1. UNCHANGED models \/ SeedModels \/ \E h \in Workers : EditModel(h)
      BY ServerChanges
    <2> QED BY <1>1, <1>3, <1>4, <2>1
  <1> QED BY <1>5, CopyStep DEF ModelsTyped, Tables

\* The key, its record in the cache and those that handlers hold.
LEMMA KeysTypedStep ==
  ASSUME Handled, KeysKept, KeysTyped, [Next]_vars
  PROVE  KeysTyped'
  <1> DEFINE Records == Keys \union {NoKey}
  <1>1. /\ key \in Records /\ cache \in Records /\ held \in [Workers -> Records]
        /\ \A h \in Workers, k \in Records : [held EXCEPT ![h] = k] \in [Workers -> Records]
    BY DEF KeysTyped
  <1> HIDE DEF Records
  <1>2. NoKey \in Records
    BY DEF Records
  <1>3. ASSUME NEW h \in Workers, CheckKey(h)
        PROVE  key' \in Records /\ cache' \in Records /\ held' \in [Workers -> Records]
    BY <1>1, <1>2, <1>3 DEF CheckKey, Lookup, Query, Fill, Hold, keyVars
  <1>4. ASSUME NEW h \in Workers, EditKey(h)
        PROVE  key' \in Records /\ cache' \in Records /\ held' \in [Workers -> Records]
    <2>1. CASE ListKeys(h) \/ DeleteKey(h)
      BY <1>1, <1>2, <2>1 DEF ListKeys, DeleteKey, Write, Hold
    <2>2. CASE Ready(h, "update") /\ UpdateKey(h, Head(prog[h]).patch)
      <3>1. At(h, "update") /\ Head(prog[h]) \in Steps
        BY <2>2, HeadFormed DEF Ready, At, Handled
      <3>2. Head(prog[h]).patch \in KeyPatches /\ held[h] \in Keys
        BY <1>1, <3>1, StepArguments DEF At, KeysKept, Records
      <3>3. Patched(held[h], Head(prog[h]).patch) \in Records
        BY <3>2, PatchedTypes DEF Records
      <3> QED BY <1>1, <2>2, <3>3 DEF UpdateKey, Write
    <2> QED BY <1>4, <2>1, <2>2 DEF EditKey
  <1>5. ASSUME StartKeys PROVE key' \in Records /\ cache' \in Records /\ held' \in [Workers -> Records]
    <2>1. key' = key /\ cache' = NoKey /\ held' = [h \in Workers |-> NoKey]
      BY <1>5, ServerAssumption DEF StartKeys
    <2> QED BY <1>1, <1>2, <2>1
  <1>6. key' \in Records /\ cache' \in Records /\ held' \in [Workers -> Records]
    <2>1. \/ key' = key /\ cache' = cache /\ held' = held
          \/ StartKeys
          \/ \E h \in Workers : \/ CheckKey(h) \/ EditKey(h)
                                \/ (held' = [held EXCEPT ![h] = NoKey] /\ key' = key /\ cache' = cache)
      BY ServerChanges DEF keyVars
    <2> QED BY <1>1, <1>2, <1>3, <1>4, <1>5, <2>1
  <1> QED BY <1>6 DEF KeysTyped, Records

\* Clients' programs begin with the check of the key, or have none.
LEMMA ClientsStart ==
  ASSUME area \in Areas, NEW program \in ClientPrograms
  PROVE  Head(program).op # "login"
  <1>1. Check \in Seq(Steps) /\ Check = <<Do("lookup")>> /\ Do("lookup").op = "lookup"
    BY OpStep DEF Check, Ops, PlainOps, ModelOps, PasswordOps
  <1>2. ASSUME NEW q \in Seq(Steps) PROVE Check \o q \in Seq(Steps) /\ Head(Check \o q).op = "lookup"
    <2>1. /\ Check \o q \in Seq(Steps) /\ Len(Check \o q) = Len(Check) + Len(q)
          /\ (Check \o q)[1] = Check[1] /\ Len(q) \in Nat
      BY <1>1, ConcatProperties, LenProperties
    <2> QED BY <1>1, <2>1, HeadTailProperties, EmptySeq
  <1>3. ASSUME NEW id \in ModelIds PROVE Head(Chat(id)).op = "lookup"
    <2>1. <<[op |-> "resolve", id |-> id], Do("begin"), Do("end")>> \in Seq(Steps)
      <3>1. [op |-> "resolve", id |-> id] \in Steps
        BY ModelSteps DEF ModelOps
      <3>2. Do("begin") \in Steps /\ Do("end") \in Steps
        BY OpStep DEF Ops, PlainOps, ModelOps, PasswordOps
      <3> QED BY ONLY <3>1, <3>2
    <2> QED BY <1>2, <2>1 DEF Chat
  <1>4. /\ Upload \in Seq(Steps) /\ Deletion \in Seq(Steps) /\ <<Do("find"), Do("open")>> \in Seq(Steps)
    <2>1. \A o \in {"create", "write", "create_row", "find", "remove", "delete_row", "open"} : Do(o) \in Steps
      BY OpStep DEF Ops, PlainOps, ModelOps, PasswordOps
    <2> QED BY ONLY <2>1 DEF Upload, Deletion
  <1> HIDE DEF Check, Upload, Deletion, Chat
  <1>5. Head(UploadForm).op = "lookup"
    <2>1. Check \o Upload \o Upload = Check \o (Upload \o Upload) /\ Upload \o Upload \in Seq(Steps)
      BY <1>1, <1>4, ConcatAssociative, ConcatProperties
    <2> QED BY <1>2, <2>1 DEF UploadForm
  <1>6. Head(<<Do("preview")>>).op = "preview"
    BY DEF Do
  <1>7. /\ Head(Check \o Upload).op = "lookup" /\ Head(Download).op = "lookup"
        /\ Head(DeleteOwn).op = "lookup"
    BY <1>2, <1>4 DEF Download, DeleteOwn
  <1> QED BY <1>3, <1>5, <1>6, <1>7, ServerAssumption, ModelAssumption DEF ClientPrograms

\* Files, phase, settings, accounts, sessions and the bounds.
LEMMA RestTypedStep ==
  ASSUME Handled, RestTyped, [Next]_vars
  PROVE  RestTyped'
  <1> USE DEF RestTyped
  <1>1. disk' \in [Files -> {"none", "partial", "whole"}]
    <2>1. ASSUME NEW h, UploadFile(h) \/ DeleteFile(h) PROVE disk' \in [Files -> {"none", "partial", "whole"}]
      BY <2>1 DEF UploadFile, DeleteFile, Create, WriteAll, WriteTooLarge, CreateRow, RemoveContent,
           DeleteRow, assetVars
    <2> QED BY <2>1, ServerChanges
  <1>2. settings' \in Settings
    <2>1. ASSUME NEW h \in Workers, UpdateSettings(h) PROVE settings' \in Settings
      <3>1. Head(prog[h]).patch \in SettingsPatches
        BY <2>1, HeadFormed, StepArguments DEF UpdateSettings, Ready, Handled
      <3> QED BY <2>1, <3>1, PatchedTypes DEF UpdateSettings
    <2>2. Default \in Settings
      BY DEF Default, Settings
    <2> QED BY <2>1, <2>2, ServerChanges
  <1>3. ASSUME NEW h \in Workers, Account(h)
        PROVE  {password', saved'} \subseteq Passwords /\ tokens' \subseteq Admins
    <2>1. prog[h] # <<>> /\ Head(prog[h]) \in Steps
      BY <1>3, HeadFormed DEF Account, Ready, Handled
    <2>2. Head(prog[h]).op \in {"set", "save"} => Head(prog[h]).password \in Passwords
      BY <2>1, StepArguments DEF PasswordOps
    <2>3. Head(prog[h]).op = "login" => h \in Admins
      BY <2>1 DEF At
    <2> QED BY <1>3, <2>2, <2>3 DEF Account, Ready, accountVars
  <1>4. {password', saved'} \subseteq Passwords /\ tokens' \subseteq Admins
    BY <1>3, ServerChanges, ServerAssumption
  <1>5. sesRow' \in [SessionIds -> {"none", "running", "ended"}]
    <2>1. ASSUME NEW h, RunSession(h) PROVE sesRow' \in [SessionIds -> {"none", "running", "ended"}]
      BY <2>1 DEF RunSession, EndSession
    <2> QED BY <2>1, ServerChanges
  <1>6. requests' \in 0..MaxRequests'[area']
    <2>1. MaxRequests[area] \in Nat
      BY ServerAssumption DEF Handled
    <2> QED BY <2>1, ServerChanges
  <1>7. /\ phase' \in {"up", "closing", "shutdown", "down"}
        /\ stops' \in 0..MaxStops /\ (phase' \in {"closing", "shutdown"} => stops' < MaxStops)
    <2>1. MaxStops \in Nat
      BY ServerAssumption
    <2>2. CASE UNCHANGED <<stops, phase>>
      BY <2>2
    <2>3. CASE stops' = stops /\ (Close \/ Shutdown \/ Start)
      BY <2>1, <2>3 DEF Close, Shutdown, Start
    <2>4. CASE stops' = stops + 1 /\ phase' = "down" /\ (Exit \/ Crash)
      <3>1. stops < MaxStops
        BY <2>4 DEF Exit, Crash
      <3> QED BY <2>1, <2>4, <3>1
    <2> QED BY <2>2, <2>3, <2>4, ServerChanges
  <1>8. ASSUME NEW h \in Workers, At(h, "login")' PROVE h \in Admins
    <2>1. \A g \in Workers : NextAt(g)
      BY HandledStep
    <2>2. At(h, "login") \/ prog[h] = <<>>
      BY <1>8, <2>1, ComesFrom
    <2>3. CASE prog[h] = <<>> /\ h \notin Admins
      <3>1. h \in Clients /\ prog'[h] # prog[h] /\ h \in Actors /\ h \notin {"loop", "main"}
        BY <1>8, <2>3, ServerAssumption DEF At, Workers, Actors
      <3>2. ASSUME NEW a \in Actors, Step(a) PROVE FALSE
        BY <2>3, <3>1, <3>2, StepGoes DEF Goes, Handled
      <3>3. ASSUME NEW a \in Workers, NEW program, Ask(a, program) PROVE a = h /\ prog'[h] = program
        BY <3>1, <3>3 DEF Ask, Handled, Workers, Actors
      <3>4. ~(Tick \/ Close \/ Shutdown \/ Start \/ UNCHANGED vars)
        BY <3>1 DEF Tick, Close, Shutdown, Start, vars, Handled
      <3>5. ~(Exit \/ Crash)
        BY <2>3, <3>1 DEF Exit, Crash, End
      <3>6. PICK program \in ClientPrograms : prog'[h] = program
        BY <2>3, <3>2, <3>3, <3>4, <3>5, ServerAssumption DEF Next, AdminAsks, ClientAsks, Workers
      <3> QED BY <1>8, <3>6, ClientsStart DEF At, Handled
    <2> QED BY <2>2, <2>3
  <1> QED BY <1>1, <1>2, <1>4, <1>5, <1>6, <1>7, <1>8

\* At the start.
LEMMA TypesFirst == Init => ModelsTyped /\ KeysTyped /\ RestTyped
  <1> SUFFICES ASSUME Init PROVE ModelsTyped /\ KeysTyped /\ RestTyped
    OBVIOUS
  <1>1. \A h \in Workers : prog[h] = <<>> /\ \A o : ~At(h, o)
    BY DEF Init, Workers, Actors, At
  <1>2. ModelsTyped
    <2>1. Seeded \in Rows
      BY ModelAssumption DEF Seeded, Texts0, Rows
    <2> QED BY <1>1, <2>1, ServerAssumption DEF Init, ModelInit, ModelsTyped
  <1>3. KeysTyped
    <2> DEFINE l == CHOOSE limit \in Limits : TRUE
    <2>1. l \in Limits
      BY KeyAssumption
    <2>2. /\ key = [enabled |-> TRUE, limit |-> l] /\ cache = NoKey
          /\ held = [h \in Workers |-> NoKey]
      BY ServerAssumption DEF Init, KeyInit
    <2> HIDE DEF l
    <2>3. key \in Keys
      BY <2>1, <2>2 DEF Keys
    <2> QED BY <2>2, <2>3 DEF KeysTyped
  <1>4. settings \in Settings
    <2>1. settings = [Default EXCEPT !.keyMode = IF area = "keys" THEN "require" ELSE @]
      BY DEF Init
    <2>3. PICK m \in {"any", "require"} : m = IF area = "keys" THEN "require" ELSE "any"
      OBVIOUS
    <2>2. settings = [keyMode |-> m, fallback |-> FALSE]
      BY <2>1, <2>3 DEF Default
    <2> QED BY <2>2 DEF Settings
  <1>5. MaxRequests[area] \in Nat /\ MaxStops \in Nat
    BY ServerAssumption DEF Init
  <1> QED BY <1>1, <1>2, <1>3, <1>4, <1>5, ServerAssumption DEF Init, AssetInit, RestTyped

\* In the log, the batch and the hands there are entries that were logged.
LEMMA AuditTypes ==
  ASSUME Accounted
  PROVE  /\ \A f \in Flushers : hands[f] \in Seq(Entries)
         /\ batch \in Seq(Entries) /\ audit \in Seq(Entries)
  <1>1. AuditTyped /\ Divided
    BY DEF Accounted
  <1>2. ASSUME NEW s \in Seq(Nat), Range(s) \subseteq Entries PROVE s \in Seq(Entries)
    <2>1. Len(s) \in Nat /\ DOMAIN s = 1..Len(s) /\ s = [i \in 1..Len(s) |-> s[i]]
      BY LenProperties
    <2>2. \A i \in 1..Len(s) : s[i] \in Entries
      BY <1>2, <2>1 DEF Range
    <2> QED BY <2>1, <2>2, SeqDef
  <1>3. /\ Range(batch) \subseteq Entries /\ Range(audit) \subseteq Entries
        /\ \A f \in Flushers : Range(hands[f]) \subseteq Entries
    BY <1>1 DEF Divided, InHands
  <1> QED BY <1>1, <1>2, <1>3 DEF AuditTyped

\* The log has its bound.
LEMMA LoggedStep ==
  ASSUME logged \in 0..MaxLogged, [Next]_vars
  PROVE  logged' \in 0..MaxLogged
  BY AuditSteps, AuditAssumption DEF AuditNext, Log, Forget, TakeBatch, AppendAudit, auditVars

\* TypeOK: whatever requests, failures and stops interleave, rows, records and
\* settings keep their types.  What a late statement writes was read by its
\* handler before, and what a request carries is what its step is for.
THEOREM TypeCorrect == Spec => []TypeOK
  <1> DEFINE IInv == /\ Handled /\ KeysKept /\ FilesKept /\ Accounted
                     /\ ModelsTyped /\ KeysTyped /\ RestTyped /\ ModelsKept
                     /\ logged \in 0..MaxLogged
  <1>1. IInv => TypeOK
    BY AuditTypes, ServerAssumption
       DEF TypeOK, Handled, FilesKept, ModelsKept, ModelsTyped, KeysTyped, RestTyped
  <1>2. Init => IInv
    <2>1. Init => AuditInit /\ logged = 0 /\ ModelsKept
      BY DEF Init, AuditInit, ModelInit, ModelsKept, DeletedStays
    <2> QED BY <2>1, HandledInit, KeysFirst, FilesFirst, AccountedFirst, TypesFirst, AuditAssumption
  <1>3. IInv /\ [Next]_vars => IInv'
    <2> SUFFICES ASSUME IInv, [Next]_vars PROVE IInv'
      OBVIOUS
    <2>1. Handled' /\ KeysKept' /\ FilesKept' /\ Accounted' /\ ModelsKept'
      BY HandledStep, ModelsStep, KeysStep, FilesStep, AuditSteps, AccountedStep
    <2>2. ModelsTyped' /\ KeysTyped' /\ RestTyped' /\ logged' \in 0..MaxLogged
      BY ModelsTypedStep, KeysTypedStep, RestTypedStep, LoggedStep
    <2> QED BY <2>1, <2>2
  <1> QED BY <1>1, <1>2, <1>3, PTL DEF Spec

=============================================================================
