------------------------------ MODULE TextProofs ------------------------------
(***************************************************************************)
(* Lemmas about the texts of EchoText, of any length: the types of what is *)
(* made of them, that a prompt stays one, and that what is echoed comes    *)
(* back as it was.                                                         *)
(*                                                                         *)
(* What is defined character by character is proved by induction.  The     *)
(* property goes in as a set of numbers, or of texts (Numbers, Texts), and *)
(* the induction rests on sets of numbers having a least member.           *)
(***************************************************************************)
EXTENDS AgentLoop, WellFoundedInduction, SequenceTheorems, FiniteSetTheorems, TLAPS

-----------------------------------------------------------------------------
(***************************************************************************)
(* Induction.                                                              *)
(***************************************************************************)
Less == {ss \in Nat \X Nat : ss[1] < ss[2]}

\* Every set of numbers with a member has a least one: what the proofs below
\* use for induction.
LEMMA Least ==
  ASSUME NEW S \in SUBSET Nat, S # {}
  PROVE  \E x \in S : \A y \in S : x <= y
  <1>1. IsWellFoundedOn(Less, Nat)
    BY NatLessThanWellFounded DEF OpToRel, Less
  <1>2. PICK x \in S : \A y \in S : ~(<<y, x>> \in Less)
    BY <1>1, WFMin
  <1>3. ASSUME NEW y \in S PROVE x <= y
    <2>1. ~(<<y, x>> \in Less)
      BY <1>2
    <2> QED BY <2>1 DEF Less
  <1> QED BY <1>3

\* Induction over the numbers up to n, for a property given as a set.
LEMMA Numbers ==
  ASSUME NEW n \in Nat, NEW Good, 0 \in Good, \A m \in 1..n : m - 1 \in Good => m \in Good
  PROVE  \A m \in 0..n : m \in Good
  <1> DEFINE bad == {m \in 0..n : m \notin Good}
  <1> SUFFICES ASSUME bad # {} PROVE FALSE
    OBVIOUS
  <1>1. bad \in SUBSET Nat
    OBVIOUS
  <1>2. PICK m \in bad : \A k \in bad : m <= k
    BY <1>1, Least
  <1>3. m \in 1..n /\ m - 1 \in 0..n
    OBVIOUS
  <1>4. m - 1 \notin bad
    BY <1>2, <1>3
  <1> QED BY <1>3, <1>4

\* Induction over texts that grow at the end.
LEMMA Texts ==
  ASSUME NEW C, NEW Good, <<>> \in Good,
         \A s \in Seq(C), c \in C : s \in Good => Append(s, c) \in Good
  PROVE  Seq(C) \subseteq Good
  <1> SUFFICES ASSUME NEW t \in Seq(C) PROVE t \in Good
    OBVIOUS
  <1> DEFINE n == Len(t)
             done == {m \in 0..n : \A s \in Seq(C) : Len(s) = m => s \in Good}
  <1>1. n \in Nat
    BY LenProperties
  <1>2. 0 \in done
    <2>1. ASSUME NEW s \in Seq(C), Len(s) = 0 PROVE s \in Good
      <3>1. s = <<>>
        BY <2>1, EmptySeq
      <3> QED BY <3>1
    <2> QED BY <1>1, <2>1
  <1>3. ASSUME NEW m \in 1..n, m - 1 \in done PROVE m \in done
    <2>1. ASSUME NEW s \in Seq(C), Len(s) = m PROVE s \in Good
      <3>1. s # <<>>
        BY <2>1, EmptySeq
      <3>2. PICK r \in Seq(C), c \in C : s = Append(r, c)
        BY <3>1, SequenceEmptyOrAppend
      <3>3. Len(r) = m - 1
        BY <1>1, <2>1, <3>2, AppendProperties, LenProperties
      <3> QED BY <1>3, <3>2, <3>3
    <2> QED BY <2>1
  <1> HIDE DEF n, done
  <1>4. n \in done
    BY <1>1, <1>2, <1>3, Numbers
  <1> QED BY <1>4 DEF n, done

\* The function that FlattenSeq is defined by exists.
LEMMA FlattenDefined ==
  ASSUME NEW n \in Nat, NEW seqs
  PROVE  \A m \in 0..n : \E g :
           g = [i \in 1..m |-> IF i = 1 THEN seqs[i] ELSE g[i - 1] \o seqs[i]]
  <1> DEFINE Is(g, m) == g = [i \in 1..m |-> IF i = 1 THEN seqs[i] ELSE g[i - 1] \o seqs[i]]
             Has(m) == \E g : Is(g, m)
             bad == {m \in 0..n : ~Has(m)}
  <1>1. Has(0)
    <2>1. Is([i \in 1..0 |-> {}], 0)
      OBVIOUS
    <2> QED BY <2>1
  <1>2. ASSUME NEW m \in 1..n, Has(m - 1) PROVE Has(m)
    <2>1. PICK g : Is(g, m - 1)
      BY <1>2
    <2> DEFINE h == [i \in 1..m |-> IF i = m THEN (IF m = 1 THEN seqs[1] ELSE g[m - 1] \o seqs[m])
                                    ELSE g[i]]
    <2>2. ASSUME NEW i \in 1..m PROVE h[i] = IF i = 1 THEN seqs[i] ELSE h[i - 1] \o seqs[i]
      <3>1. CASE i = m
        BY <3>1
      <3>2. CASE i # m
        <4>1. i \in 1..(m - 1) /\ h[i] = g[i]
          BY <3>2
        <4>2. g[i] = IF i = 1 THEN seqs[i] ELSE g[i - 1] \o seqs[i]
          BY <4>1, <2>1
        <4>3. i # 1 => h[i - 1] = g[i - 1]
          BY <4>1
        <4> QED BY <4>1, <4>2, <4>3
      <3> QED BY <3>1, <3>2
    <2>3. Is(h, m)
      BY <2>2
    <2> QED BY <2>3
  <1> HIDE DEF Has
  <1>3. bad = {}
    <2> SUFFICES ASSUME bad # {} PROVE FALSE
      OBVIOUS
    <2>0. bad \in SUBSET Nat
      OBVIOUS
    <2>1. PICK m \in bad : \A k \in bad : m <= k
      BY <2>0, Least
    <2>2. m \in 1..n
      BY <1>1
    <2>3. m - 1 \in 0..n /\ m - 1 \notin bad
      BY <2>1, <2>2
    <2> QED BY <1>2, <2>2, <2>3
  <1>4. \A m \in 0..n : Has(m)
    BY <1>3
  <1> QED BY <1>4 DEF Has

\* FlattenSeq appends one sequence after the other.
Builds(g, n, S, seqs) ==
  /\ g \in [0..n -> Seq(S)] /\ g[0] = <<>> /\ g[n] = FlattenSeq(seqs)
  /\ \A i \in 1..n : g[i] = g[i - 1] \o seqs[i]

\* There is such a list of the results so far.
LEMMA Flattens ==
  ASSUME NEW n \in Nat, NEW S, NEW seqs \in [1..n -> Seq(S)]
  PROVE  \E g : Builds(g, n, S, seqs)
  <1>0. Len(seqs) = n
    OBVIOUS
  <1>1. CASE n = 0
    <2>1. FlattenSeq(seqs) = seqs
      BY <1>0, <1>1 DEF FlattenSeq
    <2>2. seqs = <<>>
      BY <1>1
    <2> DEFINE g == [i \in 0..n |-> <<>>]
    <2>3. g \in [0..n -> Seq(S)] /\ g[0] = <<>> /\ g[n] = <<>>
      OBVIOUS
    <2>4. \A i \in 1..n : g[i] = g[i - 1] \o seqs[i]
      BY <1>1
    <2> HIDE DEF g
    <2>5. Builds(g, n, S, seqs)
      BY <2>1, <2>2, <2>3, <2>4 DEF Builds
    <2> QED BY <2>5
  <1>2. CASE n # 0
    <2> DEFINE Is(f) == f = [i \in 1..n |-> IF i = 1 THEN seqs[i] ELSE f[i - 1] \o seqs[i]]
               f == CHOOSE f : Is(f)
    <2>1. Is(f)
      <3>1. \E e : Is(e)
        <4>1. n \in 0..n
          OBVIOUS
        <4> QED BY <4>1, FlattenDefined
      <3> HIDE DEF Is
      <3> QED BY <3>1
    <2>2. FlattenSeq(seqs) = f[n]
      BY <1>0, <1>2 DEF FlattenSeq
    <2>3. \A i \in 1..n : f[i] = IF i = 1 THEN seqs[i] ELSE f[i - 1] \o seqs[i]
      BY <2>1
    <2> HIDE DEF f
    <2> DEFINE g == [i \in 0..n |-> IF i = 0 THEN <<>> ELSE f[i]]
               bad == {m \in 0..n : ~(g[m] \in Seq(S))}
    <2>4. g[0] = <<>> /\ \A i \in 1..n : g[i] = f[i]
      OBVIOUS
    <2>5. ASSUME NEW i \in 1..n PROVE g[i] = g[i - 1] \o seqs[i]
      <3>1. CASE i = 1
        <4>1. seqs[1] \in Seq(S)
          BY <3>1
        <4>2. <<>> \o seqs[1] = seqs[1]
          BY <4>1, ConcatEmptySeq
        <4> QED BY <2>3, <2>4, <3>1, <4>2
      <3>2. CASE i # 1
        <4>1. i - 1 \in 1..n
          BY <3>2
        <4> HIDE DEF g
        <4> QED BY <2>3, <2>4, <3>2, <4>1
      <3> QED BY <3>1, <3>2
    <2>6. g = [i \in 0..n |-> g[i]]
      OBVIOUS
    <2> HIDE DEF g
    <2>7. bad = {}
      <3> SUFFICES ASSUME bad # {} PROVE FALSE
        OBVIOUS
      <3>0. bad \in SUBSET Nat
        OBVIOUS
      <3>1. PICK m \in bad : \A k \in bad : m <= k
        BY <3>0, Least
      <3>2. m # 0
        <4>1. g[0] \in Seq(S)
          BY <2>4, EmptySeq
        <4> QED BY <4>1
      <3>3. m \in 1..n /\ m - 1 \in 0..n /\ m - 1 \notin bad
        BY <3>1, <3>2
      <3>4. g[m - 1] \in Seq(S) /\ seqs[m] \in Seq(S)
        BY <3>3
      <3>5. g[m - 1] \o seqs[m] \in Seq(S)
        BY <3>4, ConcatProperties
      <3> QED BY <2>5, <3>3, <3>5
    <2>8. g \in [0..n -> Seq(S)]
      <3>1. \A i \in 0..n : g[i] \in Seq(S)
        BY <2>7
      <3> QED BY <2>6, <3>1
    <2>9. n \in 1..n
      BY <1>2
    <2>10. Builds(g, n, S, seqs)
      BY <2>2, <2>4, <2>5, <2>8, <2>9 DEF Builds
    <2> QED BY <2>10
  <1> QED BY <1>1, <1>2

\* One sequence more.
LEMMA FlattenMore ==
  ASSUME NEW n \in Nat, NEW S, NEW seqs \in [1..n -> Seq(S)], NEW more \in [1..(n + 1) -> Seq(S)],
         \A i \in 1..n : more[i] = seqs[i]
  PROVE  FlattenSeq(seqs) \in Seq(S) /\ FlattenSeq(more) = FlattenSeq(seqs) \o more[n + 1]
  <1>1. PICK g : Builds(g, n, S, seqs)
    BY Flattens
  <1>2. PICK h : Builds(h, n + 1, S, more)
    <2>1. n + 1 \in Nat
      OBVIOUS
    <2> QED BY <2>1, Flattens
  <1> DEFINE Good == {i \in 0..n : g[i] = h[i]}
  <1>3. 0 \in Good
    BY <1>1, <1>2 DEF Builds
  <1>4. ASSUME NEW i \in 1..n, i - 1 \in Good PROVE i \in Good
    <2>1. g[i] = g[i - 1] \o seqs[i]
      BY <1>1 DEF Builds
    <2>2. i \in 1..(n + 1)
      OBVIOUS
    <2>3. h[i] = h[i - 1] \o more[i]
      BY <1>2, <2>2 DEF Builds
    <2>4. g[i - 1] = h[i - 1] /\ more[i] = seqs[i]
      BY <1>4
    <2>5. g[i] = h[i]
      BY <2>1, <2>3, <2>4
    <2> QED BY <2>5
  <1> HIDE DEF Good
  <1>5. \A i \in 0..n : i \in Good
    BY <1>3, <1>4, Numbers
  <1>6. h[n] = g[n]
    BY <1>5 DEF Good
  <1>7. h[n + 1] = FlattenSeq(more) /\ h[n + 1] = h[n] \o more[n + 1]
    <2>1. n + 1 \in 1..(n + 1) /\ (n + 1) - 1 = n
      OBVIOUS
    <2>2. h[n + 1] = h[(n + 1) - 1] \o more[n + 1]
      BY <1>2, <2>1 DEF Builds
    <2> QED BY <1>2, <2>1, <2>2 DEF Builds
  <1>8. g[n] = FlattenSeq(seqs) /\ g[n] \in Seq(S)
    BY <1>1 DEF Builds
  <1> QED BY <1>6, <1>7, <1>8

\* Nothing at all.
LEMMA FlattenNone ==
  ASSUME NEW S, NEW seqs \in [1..0 -> Seq(S)]
  PROVE  FlattenSeq(seqs) = <<>>
  <1>1. PICK g : Builds(g, 0, S, seqs)
    BY Flattens
  <1> QED BY <1>1 DEF Builds

-----------------------------------------------------------------------------
(***************************************************************************)
(* The text of a call, and the prompt that a client reads from it.         *)
(***************************************************************************)
\* What is left when characters are taken out of a text, as it grows.
LEMMA WithoutAppend ==
  ASSUME NEW C, NEW s \in Seq(C), NEW c \in C, NEW P, NEW Q,
         \A i \in 1..Len(s) : i \in P <=> i \in Q
  PROVE  /\ Without(s, Q) \in Seq(C)
         /\ Without(Append(s, c), P) =
              IF Len(s) + 1 \in P THEN Without(s, Q) ELSE Append(Without(s, Q), c)
  <1> DEFINE n == Len(s)
             t == Append(s, c)
             seqs == [i \in DOMAIN s |-> IF i \in Q THEN <<>> ELSE <<s[i]>>]
             more == [i \in DOMAIN t |-> IF i \in P THEN <<>> ELSE <<t[i]>>]
  <1>1. n \in Nat /\ DOMAIN s = 1..n /\ \A i \in 1..n : s[i] \in C
    BY LenProperties
  <1>2. /\ t \in Seq(C) /\ Len(t) = n + 1 /\ DOMAIN t = 1..(n + 1) /\ t[n + 1] = c
        /\ \A i \in 1..n : t[i] = s[i]
    BY <1>1, AppendProperties, LenProperties
  <1>3. <<>> \in Seq(C) /\ \A x \in C : <<x>> \in Seq(C)
    OBVIOUS
  <1>4. seqs \in [1..n -> Seq(C)]
    BY <1>1, <1>3
  <1>5. \A i \in 1..(n + 1) : t[i] \in C
    BY <1>1, <1>2
  <1>6. more \in [1..(n + 1) -> Seq(C)]
    BY <1>2, <1>3, <1>5
  <1>7. \A i \in 1..n : more[i] = seqs[i]
    BY <1>1, <1>2
  <1>8. more[n + 1] = IF n + 1 \in P THEN <<>> ELSE <<c>>
    BY <1>1, <1>2
  <1>9. Without(s, Q) = FlattenSeq(seqs) /\ Without(t, P) = FlattenSeq(more)
    BY DEF Without
  <1> HIDE DEF n, t, seqs, more
  <1>10. FlattenSeq(seqs) \in Seq(C) /\ FlattenSeq(more) = FlattenSeq(seqs) \o more[n + 1]
    BY <1>1, <1>4, <1>6, <1>7, FlattenMore
  <1>11. CASE n + 1 \in P
    BY <1>8, <1>9, <1>10, <1>11, ConcatEmptySeq DEF n, t
  <1>12. CASE n + 1 \notin P
    <2>1. FlattenSeq(seqs) \o <<c>> = Append(FlattenSeq(seqs), c)
      BY <1>10, AppendIsConcat
    <2> QED BY <1>8, <1>9, <1>10, <1>12, <2>1 DEF n, t
  <1> QED BY <1>11, <1>12

\* Nothing to take anything from.
LEMMA WithoutEmpty == ASSUME NEW P PROVE Without(<<>>, P) = <<>>
  <1> DEFINE seqs == [i \in DOMAIN <<>> |-> IF i \in P THEN <<>> ELSE << <<>>[i] >>]
  <1>1. seqs \in [1..0 -> Seq({})]
    OBVIOUS
  <1>2. Without(<<>>, P) = FlattenSeq(seqs)
    BY DEF Without
  <1> HIDE DEF seqs
  <1> QED BY <1>1, <1>2, FlattenNone

\* Only the places within the text count.
LEMMA WithoutSame ==
  ASSUME NEW s, NEW P, NEW Q, \A i \in DOMAIN s : i \in P <=> i \in Q
  PROVE  Without(s, P) = Without(s, Q)
  <1>1. [i \in DOMAIN s |-> IF i \in P THEN <<>> ELSE <<s[i]>>]
          = [i \in DOMAIN s |-> IF i \in Q THEN <<>> ELSE <<s[i]>>]
    OBVIOUS
  <1> QED BY <1>1 DEF Without

\* Taking nothing out leaves the text.
LEMMA WithoutNothing ==
  ASSUME NEW C, NEW s \in Seq(C), NEW P, \A i \in DOMAIN s : i \notin P
  PROVE  Without(s, P) = s
  <1> DEFINE Good == {t \in Seq(C) : Without(t, {}) = t}
  <1>1. <<>> \in Good
    BY WithoutEmpty, EmptySeq
  <1>2. ASSUME NEW t \in Seq(C), NEW c \in C, t \in Good PROVE Append(t, c) \in Good
    <2>1. Without(Append(t, c), {}) =
            IF Len(t) + 1 \in {} THEN Without(t, {}) ELSE Append(Without(t, {}), c)
      BY WithoutAppend
    <2>2. Append(t, c) \in Seq(C)
      BY AppendProperties
    <2> QED BY <1>2, <2>1, <2>2
  <1> HIDE DEF Good
  <1>3. Seq(C) \subseteq Good
    BY <1>1, <1>2, Texts
  <1>4. Without(s, {}) = s
    BY <1>3 DEF Good
  <1>5. Without(s, P) = Without(s, {})
    BY WithoutSame
  <1> QED BY <1>4, <1>5

\* What is not taken out stays first.
LEMMA WithoutFirst ==
  ASSUME NEW C, NEW s \in Seq(C), s # <<>>, NEW P, 1 \notin P
  PROVE  Len(Without(s, P)) >= 1 /\ Without(s, P)[1] = s[1] /\ Len(Without(s, P)) \in Nat
  <1> DEFINE Kept(t) == Without(t, P)
             Good == {t \in Seq(C) : t = <<>> \/ (Kept(t) # <<>> /\ Kept(t)[1] = t[1])}
  <1>1. <<>> \in Good
    BY EmptySeq
  <1>2. ASSUME NEW t \in Seq(C), NEW c \in C, t \in Good PROVE Append(t, c) \in Good
    <2>1. /\ Kept(t) \in Seq(C)
          /\ Kept(Append(t, c)) = IF Len(t) + 1 \in P THEN Kept(t) ELSE Append(Kept(t), c)
      BY WithoutAppend
    <2>2. /\ Append(t, c) \in Seq(C) /\ Len(t) \in Nat
          /\ \A i \in 1..Len(t) : Append(t, c)[i] = t[i]
          /\ Append(t, c)[Len(t) + 1] = c
      BY AppendProperties, LenProperties
    <2>3. CASE t = <<>>
      <3>1. Kept(t) = <<>> /\ Len(t) = 0
        BY <2>3, WithoutEmpty
      <3>2. Kept(Append(t, c)) = Append(Kept(t), c)
        BY <2>1, <3>1
      <3>3. Append(Kept(t), c) # <<>> /\ Append(Kept(t), c)[1] = c
        BY <3>1, <2>3
      <3> HIDE DEF Kept
      <3> QED BY <2>2, <3>1, <3>2, <3>3
    <2>4. CASE t # <<>>
      <3>1. Kept(t) # <<>> /\ Kept(t)[1] = t[1] /\ Len(t) >= 1
        BY <1>2, <2>4, EmptySeq
      <3>2. /\ Append(Kept(t), c) # <<>> /\ Len(Kept(t)) >= 1
            /\ Append(Kept(t), c)[1] = Kept(t)[1]
        <4>1. Len(Kept(t)) \in Nat \ {0}
          BY <2>1, <3>1, EmptySeq
        <4> HIDE DEF Kept
        <4> QED BY <2>1, <4>1, AppendProperties
      <3>3. Append(t, c)[1] = t[1]
        BY <2>2, <3>1
      <3> HIDE DEF Kept
      <3> QED BY <2>1, <2>2, <3>1, <3>2, <3>3
    <2> QED BY <2>3, <2>4
  <1> HIDE DEF Good
  <1>3. Seq(C) \subseteq Good
    BY <1>1, <1>2, Texts
  <1>4. Kept(s) # <<>> /\ Kept(s)[1] = s[1]
    BY <1>3 DEF Good
  <1>5. Kept(s) \in Seq(C)
    <2>1. PICK t \in Seq(C), c \in C : s = Append(t, c)
      BY SequenceEmptyOrAppend
    <2>2. /\ Kept(t) \in Seq(C)
          /\ Kept(Append(t, c)) = IF Len(t) + 1 \in P THEN Kept(t) ELSE Append(Kept(t), c)
      BY WithoutAppend
    <2> HIDE DEF Kept
    <2> QED BY <2>1, <2>2, AppendProperties
  <1>6. Len(Kept(s)) \in Nat \ {0}
    BY <1>4, <1>5, EmptySeq
  <1> QED BY <1>4, <1>6

\* What Clean makes of one character.
Piece(c) == CASE c = "quote" -> <<"back", "quote">> [] c = "nl" -> <<" ">> [] OTHER -> <<c>>

\* Clean goes through the text character by character.
LEMMA CleanAppend ==
  ASSUME NEW s \in Seq(Characters), NEW c \in Characters
  PROVE  /\ Clean(s) \in Seq(Characters)
         /\ Clean(Append(s, c)) = Clean(s) \o Piece(c)
  <1> DEFINE n == Len(s)
             t == Append(s, c)
             seqs == [i \in DOMAIN s |-> Piece(s[i])]
             more == [i \in DOMAIN t |-> Piece(t[i])]
  <1>1. n \in Nat /\ DOMAIN s = 1..n /\ \A i \in 1..n : s[i] \in Characters
    BY LenProperties
  <1>2. /\ t \in Seq(Characters) /\ Len(t) = n + 1 /\ DOMAIN t = 1..(n + 1) /\ t[n + 1] = c
        /\ \A i \in 1..n : t[i] = s[i]
    BY <1>1, AppendProperties, LenProperties
  <1>3. \A x \in Characters : Piece(x) \in Seq(Characters)
    <2>1. {"back", "quote", " "} \subseteq Characters
      BY DEF Characters
    <2>2. \A x, y \in Characters : <<x, y>> \in Seq(Characters) /\ <<x>> \in Seq(Characters)
      OBVIOUS
    <2> QED BY <2>1, <2>2 DEF Piece
  <1>4. seqs \in [1..n -> Seq(Characters)]
    BY <1>1, <1>3
  <1>5. \A i \in 1..(n + 1) : t[i] \in Characters
    BY <1>1, <1>2
  <1>6. more \in [1..(n + 1) -> Seq(Characters)]
    BY <1>2, <1>3, <1>5
  <1>7. (\A i \in 1..n : more[i] = seqs[i]) /\ more[n + 1] = Piece(c)
    BY <1>1, <1>2
  <1>8. Clean(s) = FlattenSeq(seqs) /\ Clean(t) = FlattenSeq(more)
    BY DEF Clean, Piece
  <1> HIDE DEF n, t, seqs, more
  <1>9. FlattenSeq(seqs) \in Seq(Characters) /\ FlattenSeq(more) = FlattenSeq(seqs) \o more[n + 1]
    BY <1>1, <1>4, <1>6, <1>7, FlattenMore
  <1> QED BY <1>7, <1>8, <1>9 DEF t

\* Nothing stays nothing.
LEMMA CleanEmpty == Clean(<<>>) = <<>>
  <1> DEFINE seqs == [i \in DOMAIN <<>> |-> Piece(<<>>[i])]
  <1>1. seqs \in [1..0 -> Seq({})]
    OBVIOUS
  <1>2. Clean(<<>>) = FlattenSeq(seqs)
    BY DEF Clean, Piece
  <1> HIDE DEF seqs
  <1> QED BY <1>1, <1>2, FlattenNone

\* The prompt, read again, is one: its first word is not taken out.
LEMMA PromptIsAsk ==
  ASSUME NEW s \in Seq(Characters)
  PROVE  IsSubagentEchoRequest(Decode(Prompt(s)).text)
  <1> DEFINE x == IF AllBlank(s) THEN Hello ELSE s
             json == Prompt(s)
             escapes == {i \in DOMAIN json : json[i] = "back" /\ PlaceInRun(json, i) % 2 = 0}
  <1>1. {"a", "ask", "back", "quote"} \subseteq Characters
    BY DEF Characters
  <1>2. x \in Seq(Characters)
    BY <1>1 DEF Hello
  <1>3. Clean(x) \in Seq(Characters)
    BY <1>1, <1>2, CleanAppend
  <1>4. json = <<"ask", "back", "quote">> \o Clean(x) \o <<"back", "quote">>
    BY DEF Prompt
  <1>5. <<"ask", "back", "quote">> \in Seq(Characters) /\ <<"back", "quote">> \in Seq(Characters)
    BY <1>1
  <1> HIDE DEF x, json
  <1>6. json \in Seq(Characters) /\ json # <<>> /\ json[1] = "ask"
    <2> DEFINE u == <<"ask", "back", "quote">>
               v == Clean(x)
    <2>1. u \in Seq(Characters) /\ v \in Seq(Characters) /\ Len(u) = 3 /\ u[1] = "ask"
      BY <1>3, <1>5
    <2> DEFINE w == u \o v
    <2>2. json = w \o <<"back", "quote">>
      BY <1>4
    <2> HIDE DEF u, v
    <2>3. w \in Seq(Characters) /\ Len(w) >= 3 /\ w[1] = "ask" /\ Len(w) \in Nat
      <3>1. /\ w \in Seq(Characters) /\ Len(w) = Len(u) + Len(v) /\ Len(v) \in Nat
            /\ \A i \in 1..(Len(u) + Len(v)) : w[i] = IF i <= Len(u) THEN u[i] ELSE v[i - Len(u)]
        BY <2>1, ConcatProperties, LenProperties
      <3> HIDE DEF w
      <3> QED BY <2>1, <3>1
    <2> HIDE DEF w
    <2>4. json \in Seq(Characters) /\ Len(json) = Len(w) + 2 /\ json[1] = w[1]
      <3>1. Len(<<"back", "quote">>) = 2
        OBVIOUS
      <3>2. 1 \in 1..(Len(w) + Len(<<"back", "quote">>)) /\ 1 <= Len(w)
        BY <2>3, <3>1
      <3> QED BY <1>5, <2>2, <2>3, <3>1, <3>2, ConcatProperties
    <2> QED BY <2>3, <2>4, EmptySeq
  <1>7. Decode(json).text = Without(json, escapes)
    BY DEF Decode
  <1>8. 1 \notin escapes
    BY <1>6
  <1> HIDE DEF escapes
  <1>9. Len(Without(json, escapes)) >= 1 /\ Without(json, escapes)[1] = "ask"
        /\ Len(Without(json, escapes)) \in Nat
    BY <1>6, <1>8, WithoutFirst
  <1>10. 1 \in 1..Len(Without(json, escapes))
    BY <1>9
  <1> QED BY <1>7, <1>9, <1>10 DEF IsSubagentEchoRequest, Contains, json

-----------------------------------------------------------------------------
(***************************************************************************)
(* Tokens and blocks.                                                      *)
(***************************************************************************)
\* The larger of two numbers, and the smaller.
LEMMA OfTwo ==
  ASSUME NEW a \in Nat, NEW b \in Nat
  PROVE  /\ Max({a, b}) = IF a >= b THEN a ELSE b
         /\ Min({a, b}) = IF a <= b THEN a ELSE b
  <1>1. Max({a, b}) = IF a >= b THEN a ELSE b
    <2> DEFINE m == IF a >= b THEN a ELSE b
    <2>1. m \in {a, b} /\ \A y \in {a, b} : m >= y
      OBVIOUS
    <2>2. \A x \in {a, b} : (\A y \in {a, b} : x >= y) => x = m
      OBVIOUS
    <2> HIDE DEF m
    <2>3. Max({a, b}) = m
      BY <2>1, <2>2 DEF Max
    <2> QED BY <2>3 DEF m
  <1>2. Min({a, b}) = IF a <= b THEN a ELSE b
    <2> DEFINE m == IF a <= b THEN a ELSE b
    <2>1. m \in {a, b} /\ \A y \in {a, b} : m <= y
      OBVIOUS
    <2>2. \A x \in {a, b} : (\A y \in {a, b} : x <= y) => x = m
      OBVIOUS
    <2> HIDE DEF m
    <2>3. Min({a, b}) = m
      BY <2>1, <2>2 DEF Min
    <2> QED BY <2>3 DEF m
  <1> QED BY <1>1, <1>2

\* The tokens are counted from left to right.
LEMMA Counts ==
  ASSUME NEW s, NEW n \in Nat, Len(s) = n
  PROVE  /\ CountTo(s) \in [0..n -> Nat] /\ CountTo(s)[0] = 0
         /\ \A i \in 1..n : CountTo(s)[i] = CountTo(s)[i - 1] + Weight(s, i)
         /\ Count(s) = CountTo(s)[n]
  <1> DEFINE Is(g, m) == g = [i \in 0..m |-> IF i = 0 THEN 0 ELSE g[i - 1] + Weight(s, i)]
             Has == {m \in 0..n : \E g : Is(g, m)}
  <1>1. 0 \in Has
    <2>1. Is([i \in 0..0 |-> 0], 0)
      OBVIOUS
    <2>2. \E g : Is(g, 0)
      BY <2>1
    <2> HIDE DEF Is
    <2> QED BY <2>2
  <1>2. ASSUME NEW m \in 1..n, m - 1 \in Has PROVE m \in Has
    <2>1. PICK g : Is(g, m - 1)
      BY <1>2
    <2> DEFINE h == [i \in 0..m |-> IF i = m THEN g[m - 1] + Weight(s, m) ELSE g[i]]
    <2>2. ASSUME NEW i \in 0..m PROVE h[i] = IF i = 0 THEN 0 ELSE h[i - 1] + Weight(s, i)
      <3>1. CASE i = m
        BY <3>1
      <3>2. CASE i # m
        <4>1. i \in 0..(m - 1) /\ h[i] = g[i]
          BY <3>2
        <4>2. g[i] = IF i = 0 THEN 0 ELSE g[i - 1] + Weight(s, i)
          BY <4>1, <2>1
        <4>3. i # 0 => h[i - 1] = g[i - 1]
          BY <4>1
        <4> QED BY <4>1, <4>2, <4>3
      <3> QED BY <3>1, <3>2
    <2>3. Is(h, m)
      BY <2>2
    <2>4. \E e : Is(e, m)
      BY <2>3
    <2> HIDE DEF Is
    <2> QED BY <2>4
  <1> HIDE DEF Has
  <1>3. n \in Has
    BY <1>1, <1>2, Numbers
  <1> DEFINE c == CHOOSE g : Is(g, n)
  <1>4. Is(c, n)
    <2>1. \E g : Is(g, n)
      BY <1>3 DEF Has
    <2> HIDE DEF Is
    <2> QED BY <2>1
  <1>5. CountTo(s) = c
    BY DEF CountTo
  <1>6. Count(s) = c[n]
    BY <1>5 DEF Count
  <1> HIDE DEF c
  <1>7. c[0] = 0 /\ \A i \in 1..n : c[i] = c[i - 1] + Weight(s, i)
    <2>1. \A i \in 0..n : c[i] = IF i = 0 THEN 0 ELSE c[i - 1] + Weight(s, i)
      BY <1>4
    <2>2. 0 \in 0..n /\ \A i \in 1..n : i \in 0..n /\ i # 0
      OBVIOUS
    <2> QED BY <2>1, <2>2
  <1>8. c = [i \in 0..n |-> c[i]]
    BY <1>4
  <1> DEFINE Good == {i \in 0..n : c[i] \in Nat}
  <1>9. 0 \in Good
    BY <1>7
  <1>10. ASSUME NEW i \in 1..n, i - 1 \in Good PROVE i \in Good
    <2>1. Weight(s, i) \in Nat
      BY DEF Weight
    <2> QED BY <1>7, <1>10, <2>1
  <1> HIDE DEF Good
  <1>11. \A i \in 0..n : i \in Good
    BY <1>9, <1>10, Numbers
  <1>12. \A i \in 0..n : c[i] \in Nat
    BY <1>11 DEF Good
  <1> QED BY <1>5, <1>6, <1>7, <1>8, <1>12

\* A text has at least a token.
LEMMA CountType ==
  ASSUME NEW s \in Seq(Characters), s # <<>>
  PROVE  Count(s) \in Nat \ {0}
  <1> DEFINE n == Len(s)
             c == CountTo(s)
  <1>1. n \in Nat \ {0}
    BY EmptySeq
  <1>2. /\ c \in [0..n -> Nat] /\ c[0] = 0 /\ \A i \in 1..n : c[i] = c[i - 1] + Weight(s, i)
        /\ Count(s) = c[n]
    BY <1>1, Counts
  <1>3. Weight(s, 1) \in Nat \ {0}
    <2>1. PlaceInRun(s, 1) = 0
      <3>1. {j \in 1..(1 - 1) : \A k \in j..1 : RunOf(s[k]) = RunOf(s[1])} = {}
        OBVIOUS
      <3> QED BY <3>1, FS_EmptySet DEF PlaceInRun
    <2>2. PerToken(s[1]) \in {1, 3, 4}
      BY DEF PerToken
    <2>3. 0 % PerToken(s[1]) = 0
      BY <2>2
    <2> QED BY <2>1, <2>3 DEF Weight
  <1> HIDE DEF n, c
  <1> DEFINE Good == {i \in 0..n : i = 0 \/ c[i] >= 1}
  <1>4. 0 \in Good
    BY <1>1
  <1>5. ASSUME NEW i \in 1..n, i - 1 \in Good PROVE i \in Good
    <2>1. Weight(s, i) \in Nat
      BY DEF Weight
    <2>2. c[i] = c[i - 1] + Weight(s, i) /\ c[i - 1] \in Nat
      <3>1. i - 1 \in 0..n
        BY <1>1
      <3> QED BY <1>2, <3>1
    <2> QED BY <1>2, <1>3, <1>5, <2>1, <2>2
  <1> HIDE DEF Good
  <1>6. n \in Good
    BY <1>1, <1>4, <1>5, Numbers
  <1>7. c[n] >= 1 /\ c[n] \in Nat
    BY <1>1, <1>2, <1>6 DEF Good
  <1> QED BY <1>2, <1>7

\* How often a text is repeated.
Repeats(s, m) == Max({1, m \div Count(Unit(s))})

\* There is always something to repeat.
LEMMA UnitType ==
  ASSUME NEW S \in SUBSET Characters, "a" \in S, NEW s \in Seq(S)
  PROVE  Unit(s) \in Seq(S) /\ Unit(s) \in Seq(Characters) /\ Unit(s) # <<>>
  <1>1. Hello \in Seq(S) /\ Hello # <<>>
    BY DEF Hello
  <1>2. Seq(S) \subseteq Seq(Characters)
    BY SeqMonotonic
  <1> QED BY <1>1, <1>2 DEF Unit

\* A block consists of characters of the text.
LEMMA BlockBuilt ==
  ASSUME NEW S \in SUBSET Characters, "a" \in S, NEW s \in Seq(S), NEW m \in Nat
  PROVE  /\ Repeats(s, m) \in Nat \ {0}
         /\ BuildInfiniteMaxText(s, m) = FlattenSeq([i \in 1..Repeats(s, m) |-> Unit(s)])
         /\ BuildInfiniteMaxText(s, m) \in Seq(S)
  <1>1. Unit(s) \in Seq(S) /\ Count(Unit(s)) \in Nat \ {0}
    BY UnitType, CountType
  <1>2. m \div Count(Unit(s)) \in Nat
    BY <1>1
  <1> DEFINE n == Repeats(s, m)
             seqs == [i \in 1..n |-> Unit(s)]
  <1>3. n \in Nat \ {0}
    BY <1>2, OfTwo DEF Repeats
  <1>4. BuildInfiniteMaxText(s, m) = FlattenSeq(seqs)
    BY DEF BuildInfiniteMaxText, Repeats, Unit
  <1>5. seqs \in [1..n -> Seq(S)]
    BY <1>1
  <1> HIDE DEF seqs
  <1>6. PICK g : Builds(g, n, S, seqs)
    BY <1>3, <1>5, Flattens
  <1>7. FlattenSeq(seqs) \in Seq(S)
    BY <1>3, <1>6 DEF Builds
  <1> QED BY <1>3, <1>4, <1>7 DEF seqs

\* The tokens of a block are a number, and at least one.
LEMMA BlockTokensType ==
  ASSUME NEW chunk \in Nat \ {0}, NEW maxTokens \in Nat, NEW subs \in Nat \ {0}, NEW streaming
  PROVE  BlockTokens(chunk, maxTokens, subs, streaming) \in Nat \ {0}
  <1> DEFINE share == maxTokens \div (1 + subs)
  <1>1. share \in Nat
    OBVIOUS
  <1> HIDE DEF share
  <1>2. Max({1, share}) \in Nat \ {0}
    BY <1>1, OfTwo
  <1>3. Min({chunk, Max({1, share})}) \in Nat \ {0}
    BY <1>2, OfTwo
  <1> QED BY <1>3 DEF BlockTokens, share

-----------------------------------------------------------------------------
(***************************************************************************)
(* Tools, and the types of all texts.                                      *)
(***************************************************************************)
\* The names of tools.
ToolNames ==
  STRING \union Range(Spawners) \union Range(Shells) \union Range(ShellsOfSubagent) \union {""}

\* The first of the names that is in the set is one of them, and in it.
LEMMA FirstIsOf ==
  ASSUME NEW S, NEW names \in Seq(S), NEW set, Range(names) \intersect set # {}
  PROVE  FirstOf(names, set) \in Range(names) \intersect set
  <1> DEFINE places == {i \in DOMAIN names : names[i] \in set}
  <1>1. DOMAIN names \subseteq Nat
    OBVIOUS
  <1>2. places \in SUBSET Nat /\ places # {}
    BY <1>1 DEF Range
  <1>3. \E x \in places : \A y \in places : x <= y
    BY <1>2, Least
  <1>4. Min(places) \in places
    BY <1>3 DEF Min
  <1>5. FirstOf(names, set) = names[Min(places)]
    BY DEF FirstOf
  <1> HIDE DEF places
  <1>6. Min(places) \in DOMAIN names /\ names[Min(places)] \in set
    BY <1>4 DEF places
  <1> QED BY <1>5, <1>6 DEF Range

\* The lists of preferred tools are lists of names.
LEMMA Preferences ==
  /\ Spawners \o Shells \in Seq(ToolNames) /\ ShellsOfSubagent \in Seq(ToolNames)
  /\ Range(Spawners) = {"collaboration__spawn_agent", "spawn_agent", "task", "subagent"}
  /\ Range(ShellsOfSubagent) =
       {"exec_command", "bash", "powershell", "execute_command", "terminal", "shell",
        "run_command"}
  <1>1. Range(Spawners) = {"collaboration__spawn_agent", "spawn_agent", "task", "subagent"}
    BY DEF Spawners, Range
  <1>2. Range(Shells) = {"exec_command", "powershell", "bash", "execute_command", "terminal"}
    BY DEF Shells, Range
  <1>3. Range(ShellsOfSubagent) =
          {"exec_command", "bash", "powershell", "execute_command", "terminal", "shell",
           "run_command"}
    BY DEF ShellsOfSubagent, Range
  <1>4. \A a, b, c, d \in ToolNames : <<a, b, c, d>> \in Seq(ToolNames)
    OBVIOUS
  <1>5. \A a, b, c, d, e \in ToolNames : <<a, b, c, d, e>> \in Seq(ToolNames)
    OBVIOUS
  <1>6. \A a, b, c, d, e, f, g \in ToolNames : <<a, b, c, d, e, f, g>> \in Seq(ToolNames)
    OBVIOUS
  <1>7. Spawners \in Seq(ToolNames)
    BY <1>1, <1>4 DEF Spawners, ToolNames
  <1>8. Shells \in Seq(ToolNames)
    BY <1>2, <1>5 DEF Shells, ToolNames
  <1>9. ShellsOfSubagent \in Seq(ToolNames)
    BY <1>3, <1>6 DEF ShellsOfSubagent, ToolNames
  <1>10. Spawners \o Shells \in Seq(ToolNames)
    BY <1>7, <1>8, ConcatProperties
  <1> QED BY <1>1, <1>3, <1>9, <1>10

\* The tool of a round has a name.
LEMMA CallToolType ==
  ASSUME NEW tools \in Seq(STRING) \ {<<>>}
  PROVE  CallTool(tools) \in ToolNames
  <1> DEFINE names == Spawners \o Shells
  <1>1. names \in Seq(ToolNames)
    BY Preferences
  <1>2. Head(tools) \in ToolNames
    BY HeadTailProperties DEF ToolNames
  <1> HIDE DEF names
  <1>3. Range(names) \subseteq ToolNames
    BY <1>1 DEF Range
  <1>4. Range(names) \intersect Range(tools) # {} => FirstOf(names, Range(tools)) \in ToolNames
    BY <1>1, <1>3, FirstIsOf
  <1> QED BY <1>2, <1>4 DEF CallTool, names

\* The tool that a subagent echoes with starts no agent.
LEMMA ShellStartsNone ==
  ASSUME NEW tools \in Seq(STRING)
  PROVE  PickShellTool(tools) \in ToolNames /\ ~SpawnsAgent(PickShellTool(tools))
  <1>1. ShellsOfSubagent \in Seq(ToolNames)
    BY Preferences
  <1>2. Range(ShellsOfSubagent) \intersect Range(Spawners) = {}
    BY Preferences
  <1>3. "bash" \in Range(ShellsOfSubagent)
    BY Preferences
  <1>4. Range(ShellsOfSubagent) \subseteq ToolNames /\ Range(tools) \subseteq ToolNames
    <2>1. Range(tools) \subseteq STRING
      BY DEF Range
    <2> QED BY <2>1 DEF ToolNames
  <1>5. CASE Range(ShellsOfSubagent) \intersect Range(tools) # {}
    <2>1. FirstOf(ShellsOfSubagent, Range(tools)) \in Range(ShellsOfSubagent)
      BY <1>1, <1>5, FirstIsOf
    <2> QED BY <1>2, <1>4, <1>5, <2>1 DEF PickShellTool, SpawnsAgent
  <1>6. CASE Range(ShellsOfSubagent) \intersect Range(tools) = {}
    <2> DEFINE others == Range(tools) \ NoShells
    <2>1. PickShellTool(tools) = IF others # {} THEN FirstOf(tools, others) ELSE "bash"
      BY <1>6 DEF PickShellTool
    <2>2. Range(tools) \intersect others = others /\ others \intersect Range(Spawners) = {}
      BY DEF NoShells
    <2> HIDE DEF others
    <2>3. others # {} => FirstOf(tools, others) \in Range(tools) \intersect others
      BY <2>2, FirstIsOf
    <2> QED BY <1>2, <1>3, <1>4, <2>1, <2>2, <2>3 DEF SpawnsAgent
  <1> QED BY <1>5, <1>6

\* What is left of a text is one.
LEMMA WithoutType ==
  ASSUME NEW C, NEW s \in Seq(C), NEW P
  PROVE  Without(s, P) \in Seq(C)
  <1>1. CASE s = <<>>
    BY <1>1, WithoutEmpty
  <1>2. CASE s # <<>>
    <2>1. PICK t \in Seq(C), c \in C : s = Append(t, c)
      BY <1>2, SequenceEmptyOrAppend
    <2>2. /\ Without(t, P) \in Seq(C)
          /\ Without(Append(t, c), P) =
               IF Len(t) + 1 \in P THEN Without(t, P) ELSE Append(Without(t, P), c)
      BY WithoutAppend
    <2> QED BY <2>1, <2>2, AppendProperties
  <1> QED BY <1>1, <1>2

\* The prompt of a round, what a client reads from it, and the payload in that,
\* are texts.
LEMMA TextTypes ==
  ASSUME NEW s \in Seq(Characters)
  PROVE  /\ Prompt(s) \in Seq(Characters)
         /\ Decode(s).text \in Seq(Characters)
         /\ ExtractEchoPayload(s) \in Seq(Characters)
  <1>1. {"a", "ask", "back", "quote"} \subseteq Characters
    BY DEF Characters
  <1>2. Prompt(s) \in Seq(Characters)
    <2> DEFINE x == IF AllBlank(s) THEN Hello ELSE s
               u == <<"ask", "back", "quote">>
               v == <<"back", "quote">>
    <2>1. x \in Seq(Characters) /\ u \in Seq(Characters) /\ v \in Seq(Characters)
      BY <1>1 DEF Hello
    <2>2. Prompt(s) = u \o Clean(x) \o v
      BY DEF Prompt
    <2> HIDE DEF x, u, v
    <2>3. Clean(x) \in Seq(Characters)
      BY <1>1, <2>1, CleanAppend
    <2>4. u \o Clean(x) \in Seq(Characters)
      BY <2>1, <2>3, ConcatProperties
    <2> QED BY <2>1, <2>2, <2>4, ConcatProperties
  <1>3. Decode(s).text \in Seq(Characters)
    BY WithoutType DEF Decode
  <1>4. ExtractEchoPayload(s) \in Seq(Characters)
    <2> DEFINE opening == {i \in DOMAIN s : s[i] = "ask" /\ i < Len(s) /\ s[i + 1] = "quote"}
               from == Min(opening) + 2
               quotes == {i \in from..Len(s) : s[i] = "quote"}
               last == IF quotes = {} THEN Len(s) ELSE ClosingQuote(quotes) - 1
    <2>1. ExtractEchoPayload(s) = IF opening = {} THEN s ELSE Unescaped(SubSeq(s, from, last))
      BY DEF ExtractEchoPayload
    <2>2. CASE opening # {}
      <3>0. Len(s) \in Nat /\ DOMAIN s = 1..Len(s)
        BY LenProperties
      <3>1. opening \in SUBSET Nat
        BY <3>0
      <3>2. \E x \in opening : \A y \in opening : x <= y
        BY <2>2, <3>1, Least
      <3>3. Min(opening) \in opening
        BY <3>2 DEF Min
      <3>4. from \in Nat /\ from >= 1
        BY <3>1, <3>3
      <3> HIDE DEF opening, from
      <3>5. last \in Int /\ last <= Len(s)
        <4>1. CASE quotes # {}
          <5> DEFINE back == {Len(s) - i : i \in quotes}
          <5>1. back \in SUBSET Nat /\ back # {}
            BY <3>0, <3>4, <4>1
          <5>2. PICK x \in back : \A y \in back : x <= y
            BY <5>1, Least
          <5>3. PICK i \in quotes : x = Len(s) - i
            BY <5>2
          <5>4. \A j \in quotes : i >= j
            <6> SUFFICES ASSUME NEW j \in quotes PROVE i >= j
              OBVIOUS
            <6>1. Len(s) - i <= Len(s) - j
              BY <5>2, <5>3
            <6> QED BY <3>0, <3>4, <6>1
          <5>5. Max(quotes) \in quotes
            BY <5>3, <5>4 DEF Max
          <5>6. Max(quotes) \in Int /\ Max(quotes) <= Len(s)
            BY <3>0, <3>4, <5>5
          <5> HIDE DEF quotes
          <5> QED BY <3>0, <4>1, <5>6 DEF ClosingQuote
        <4> QED BY <3>0, <4>1
      <3> HIDE DEF last
      <3>6. SubSeq(s, from, last) \in Seq(Characters)
        BY <3>0, <3>4, <3>5
      <3>7. Unescaped(SubSeq(s, from, last)) \in Seq(Characters)
        BY <3>6, WithoutType DEF Unescaped
      <3> QED BY <2>1, <2>2, <3>7 DEF opening
    <2> QED BY <2>1, <2>2
  <1> QED BY <1>2, <1>3, <1>4

-----------------------------------------------------------------------------
(***************************************************************************)
(* From a text to the payload and back.                                    *)
(***************************************************************************)
\* Characters that a call leaves as they are, quotes and new lines apart, and
\* that do not look like the words of a prompt.
Plain == Characters \ {"back", "tab", "ask"}

\* Escapes are single backslashes, each with a character after it.
Tidy(t) ==
  /\ t \in Seq(Characters) /\ t # <<>> /\ t[Len(t)] # "back"
  /\ \A i \in 1..(Len(t) - 1) : t[i] = "back" => t[i + 1] # "back"

Backs(t) == {i \in DOMAIN t : t[i] = "back"}
Stripped(t) == Without(t, Backs(t))

\* A character more, or an escaped one.
LEMMA TidyMore ==
  ASSUME NEW t, Tidy(t), NEW c \in Characters \ {"back"}
  PROVE  /\ Tidy(Append(t, c)) /\ Stripped(Append(t, c)) = Append(Stripped(t), c)
         /\ LET u == Append(Append(t, "back"), c)
            IN Tidy(u) /\ Stripped(u) = Append(Stripped(t), c)
  <1> DEFINE n == Len(t)
             v == Append(t, "back")
  <1>1. t \in Seq(Characters) /\ n \in Nat \ {0} /\ DOMAIN t = 1..n
    BY EmptySeq, LenProperties DEF Tidy
  <1>2. "back" \in Characters
    BY DEF Characters
  <1>3. ASSUME NEW s \in Seq(Characters), NEW d \in Characters
        PROVE  /\ Append(s, d) \in Seq(Characters) /\ Len(Append(s, d)) = Len(s) + 1
               /\ Append(s, d)[Len(s) + 1] = d
               /\ \A i \in 1..Len(s) : Append(s, d)[i] = s[i]
               /\ Stripped(s) \in Seq(Characters)
               /\ Stripped(Append(s, d)) =
                    IF d = "back" THEN Stripped(s) ELSE Append(Stripped(s), d)
    <2> DEFINE w == Append(s, d)
    <2>1. /\ w \in Seq(Characters) /\ Len(w) = Len(s) + 1 /\ w[Len(s) + 1] = d
          /\ \A i \in 1..Len(s) : w[i] = s[i]
          /\ DOMAIN s = 1..Len(s) /\ DOMAIN w = 1..Len(w) /\ Len(s) \in Nat
      BY AppendProperties, LenProperties
    <2> HIDE DEF w
    <2>2. \A i \in 1..Len(s) : i \in Backs(w) <=> i \in Backs(s)
      BY <2>1 DEF Backs
    <2>3. Len(s) + 1 \in Backs(w) <=> d = "back"
      BY <2>1 DEF Backs
    <2>4. /\ Without(s, Backs(s)) \in Seq(Characters)
          /\ Without(Append(s, d), Backs(w)) =
               IF Len(s) + 1 \in Backs(w) THEN Without(s, Backs(s))
               ELSE Append(Without(s, Backs(s)), d)
      BY <2>2, WithoutAppend
    <2> QED BY <2>1, <2>3, <2>4 DEF Stripped, w
  <1>4. Tidy(Append(t, c)) /\ Stripped(Append(t, c)) = Append(Stripped(t), c)
    <2> DEFINE w == Append(t, c)
    <2>1. /\ w \in Seq(Characters) /\ Len(w) = n + 1 /\ w[n + 1] = c
          /\ \A i \in 1..n : w[i] = t[i]
          /\ Stripped(w) = Append(Stripped(t), c)
      BY <1>1, <1>3
    <2> HIDE DEF w
    <2>2. w # <<>>
      BY <1>1, <2>1, EmptySeq
    <2>3. ASSUME NEW i \in 1..(Len(w) - 1), w[i] = "back" PROVE w[i + 1] # "back"
      <3>1. CASE i = n
        BY <2>1, <3>1
      <3>2. CASE i # n
        <4>0. n \in Nat \ {0} /\ i \in 1..n
          BY <1>1, <2>1
        <4> HIDE DEF n
        <4>1. i \in 1..(n - 1) /\ i + 1 \in 1..n
          BY <3>2, <4>0
        <4> QED BY <2>1, <2>3, <4>0, <4>1 DEF Tidy, n
      <3> QED BY <3>1, <3>2
    <2>4. Tidy(w)
      BY <2>1, <2>2, <2>3 DEF Tidy
    <2> QED BY <2>1, <2>4 DEF w
  <1>5. /\ v \in Seq(Characters) /\ Len(v) = n + 1 /\ v[n + 1] = "back"
        /\ \A i \in 1..n : v[i] = t[i]
        /\ Stripped(v) = Stripped(t)
    BY <1>1, <1>2, <1>3
  <1> HIDE DEF v
  <1> DEFINE u == Append(v, c)
  <1>6. /\ u \in Seq(Characters) /\ Len(u) = n + 2 /\ u[n + 2] = c
        /\ \A i \in 1..(n + 1) : u[i] = v[i]
        /\ Stripped(u) = Append(Stripped(t), c)
    <2>1. /\ u \in Seq(Characters) /\ Len(u) = Len(v) + 1 /\ u[Len(v) + 1] = c
          /\ \A i \in 1..Len(v) : u[i] = v[i]
          /\ Stripped(u) = Append(Stripped(v), c)
      BY <1>3, <1>5
    <2>2. Len(v) + 1 = n + 2
      BY <1>1, <1>5
    <2> HIDE DEF u
    <2> QED BY <1>5, <2>1, <2>2
  <1> HIDE DEF u
  <1>7. u # <<>>
    BY <1>1, <1>6, EmptySeq
  <1>8. ASSUME NEW i \in 1..(Len(u) - 1), u[i] = "back" PROVE u[i + 1] # "back"
    <2>1. CASE i = n + 1
      BY <1>1, <1>6, <2>1
    <2>2. CASE i = n
      <3>1. n \in 1..n /\ n \in 1..(n + 1)
        BY <1>1
      <3> QED BY <1>5, <1>6, <1>8, <2>2, <3>1 DEF Tidy
    <2>3. CASE i # n + 1 /\ i # n
      <3>0. n \in Nat \ {0} /\ i \in 1..(n + 1)
        BY <1>1, <1>6
      <3>1. i \in 1..(n - 1) /\ i \in 1..n /\ i + 1 \in 1..n /\ i + 1 \in 1..(n + 1)
        <4> HIDE DEF n
        <4> QED BY <2>3, <3>0
      <3>2. u[i] = t[i] /\ u[i + 1] = t[i + 1]
        BY <1>5, <1>6, <3>0, <3>1
      <3> QED BY <1>8, <3>1, <3>2 DEF Tidy
    <2> QED BY <2>1, <2>2, <2>3
  <1>9. Tidy(u)
    BY <1>6, <1>7, <1>8 DEF Tidy
  <1> QED BY <1>4, <1>6, <1>9 DEF u, v

\* A client that reads a tidy string takes out its backslashes.
LEMMA TidyDecodes ==
  ASSUME NEW t, Tidy(t)
  PROVE  Decode(t).text = Stripped(t)
  <1> DEFINE escapes == {i \in DOMAIN t : t[i] = "back" /\ PlaceInRun(t, i) % 2 = 0}
  <1>1. DOMAIN t = 1..Len(t) /\ Len(t) \in Nat
    BY LenProperties DEF Tidy
  <1>2. ASSUME NEW i \in DOMAIN t, t[i] = "back" PROVE PlaceInRun(t, i) = 0
    <2> DEFINE before == {j \in 1..(i - 1) : \A k \in j..i : RunOf(t[k]) = RunOf(t[i])}
    <2>1. ASSUME NEW j \in 1..(i - 1), \A k \in j..i : RunOf(t[k]) = RunOf(t[i]) PROVE FALSE
      <3>1. i \in 1..Len(t) /\ i - 1 \in j..i /\ i - 1 \in 1..(Len(t) - 1) /\ (i - 1) + 1 = i
        BY <1>1, <2>1
      <3>2. RunOf(t[i - 1]) = "back"
        BY <1>2, <2>1, <3>1 DEF RunOf
      <3>3. t[i - 1] = "back"
        BY <3>2 DEF RunOf
      <3> QED BY <1>2, <3>1, <3>3 DEF Tidy
    <2>2. before = {}
      BY <2>1
    <2>3. PlaceInRun(t, i) = Cardinality(before)
      BY DEF PlaceInRun
    <2> QED BY <2>2, <2>3, FS_EmptySet
  <1>3. \A i \in DOMAIN t : i \in escapes <=> i \in Backs(t)
    BY <1>2 DEF Backs
  <1>4. Decode(t).text = Without(t, escapes)
    BY DEF Decode
  <1> HIDE DEF escapes
  <1> QED BY <1>3, <1>4, WithoutSame DEF Stripped

\* To append to what follows is to append.
LEMMA AppendLast ==
  ASSUME NEW C, NEW u \in Seq(C), NEW v \in Seq(C), NEW c \in C
  PROVE  u \o Append(v, c) = Append(u \o v, c)
  <1>1. <<c>> \in Seq(C) /\ u \o v \in Seq(C)
    BY ConcatProperties
  <1>2. Append(v, c) = v \o <<c>> /\ Append(u \o v, c) = (u \o v) \o <<c>>
    BY <1>1, AppendIsConcat
  <1>3. u \o (v \o <<c>>) = (u \o v) \o <<c>>
    BY <1>1, ConcatAssociative
  <1> QED BY <1>2, <1>3

\* The text with blanks for new lines, as it grows.
LEMMA FlatAppend ==
  ASSUME NEW s \in Seq(Plain), NEW c \in Plain
  PROVE  /\ Flat(s) \in Seq(Plain)
         /\ Flat(Append(s, c)) = Append(Flat(s), IF c = "nl" THEN " " ELSE c)
  <1> DEFINE n == Len(s)
             d == IF c = "nl" THEN " " ELSE c
             u == Flat(Append(s, c))
             v == Append(Flat(s), d)
  <1>1. " " \in Plain
    BY DEF Plain, Characters
  <1>2. n \in Nat /\ DOMAIN s = 1..n /\ \A i \in 1..n : s[i] \in Plain
    BY LenProperties
  <1>3. Flat(s) = [i \in 1..n |-> IF s[i] = "nl" THEN " " ELSE s[i]]
    BY <1>2 DEF Flat
  <1>4. Flat(s) \in Seq(Plain) /\ Len(Flat(s)) = n
    <2>1. Flat(s) \in [1..n -> Plain]
      BY <1>1, <1>2, <1>3
    <2> HIDE DEF n
    <2> QED BY <1>2, <2>1
  <1>5. /\ Append(s, c) \in Seq(Plain) /\ Len(Append(s, c)) = n + 1
        /\ DOMAIN Append(s, c) = 1..(n + 1) /\ Append(s, c)[n + 1] = c
        /\ \A i \in 1..n : Append(s, c)[i] = s[i]
    BY <1>2, AppendProperties, LenProperties
  <1>6. d \in Plain
    BY <1>1
  <1>7. /\ v \in Seq(Plain) /\ DOMAIN v = 1..(n + 1) /\ v[n + 1] = d
        /\ \A i \in 1..n : v[i] = Flat(s)[i]
    <2> HIDE DEF d
    <2>1. v \in Seq(Plain) /\ Len(v) = n + 1
      BY <1>4, <1>6, AppendProperties
    <2>2. v[n + 1] = d /\ \A i \in 1..n : v[i] = Flat(s)[i]
      BY <1>4, <1>6, AppendProperties
    <2> HIDE DEF v
    <2> QED BY <2>1, <2>2, LenProperties
  <1>8. u = [i \in 1..(n + 1) |-> IF Append(s, c)[i] = "nl" THEN " " ELSE Append(s, c)[i]]
    BY <1>5 DEF Flat
  <1>9. v = [i \in 1..(n + 1) |-> v[i]]
    BY <1>7, LenProperties
  <1>10. ASSUME NEW i \in 1..(n + 1) PROVE u[i] = v[i]
    <2>1. CASE i = n + 1
      BY <1>5, <1>7, <1>8, <2>1
    <2>2. CASE i # n + 1
      <3>1. i \in 1..n
        BY <1>2, <2>2
      <3>2. Flat(s)[i] = IF s[i] = "nl" THEN " " ELSE s[i]
        BY <1>3, <3>1
      <3>3. u[i] = IF s[i] = "nl" THEN " " ELSE s[i]
        BY <1>5, <1>8, <3>1
      <3>4. v[i] = Flat(s)[i]
        BY <1>7, <3>1
      <3> QED BY <3>2, <3>3, <3>4
    <2> QED BY <2>1, <2>2
  <1> HIDE DEF v
  <1>11. u = v
    BY <1>8, <1>9, <1>10
  <1> QED BY <1>4, <1>11 DEF v

\* The string of a call, up to the closing quotes.
Opened(x) == <<"ask", "back", "quote">> \o Clean(x)

\* It is tidy, and says the text without new lines.
LEMMA OpenedSays ==
  ASSUME NEW x \in Seq(Plain)
  PROVE  /\ Opened(x) \in Seq(Characters) /\ Tidy(Opened(x))
         /\ Stripped(Opened(x)) = <<"ask", "quote">> \o Flat(x)
  <1> DEFINE p == <<"ask", "back", "quote">>
             q == <<"ask", "quote">>
             Good == {y \in Seq(Plain) :
                        Tidy(p \o Clean(y)) /\ Stripped(p \o Clean(y)) = q \o Flat(y)}
  <1>1. {"ask", "back", "quote", " "} \subseteq Characters /\ Plain \subseteq Characters
        /\ {"quote", " "} \subseteq Plain
    BY DEF Characters, Plain
  <1>2. p \in Seq(Characters) /\ q \in Seq(Characters)
    <2>1. "ask" \in Characters /\ "back" \in Characters /\ "quote" \in Characters
      BY <1>1
    <2> QED BY <2>1
  <1>3. Seq(Plain) \subseteq Seq(Characters)
    BY <1>1, SeqMonotonic
  <1>4. <<>> \in Good
    <2> DEFINE t == <<"ask">>
    <2>0. "ask" \in Characters
      BY <1>1
    <2>1. Tidy(t)
      <3>1. t \in Seq(Characters) /\ t # <<>> /\ Len(t) = 1 /\ t[1] = "ask"
        BY <2>0
      <3> HIDE DEF t
      <3> QED BY <3>1 DEF Tidy
    <2>2. Stripped(t) = t
      <3>1. t \in Seq(Characters) /\ \A i \in DOMAIN t : t[i] = "ask"
        BY <2>0
      <3> HIDE DEF t
      <3>2. \A i \in DOMAIN t : i \notin Backs(t)
        BY <3>1 DEF Backs
      <3> QED BY <3>1, <3>2, WithoutNothing DEF Stripped
    <2>3. p = Append(Append(t, "back"), "quote") /\ q = Append(t, "quote")
      OBVIOUS
    <2>4. "quote" \in Characters \ {"back"}
      BY <1>1
    <2> HIDE DEF t, p, q
    <2>5. Tidy(p) /\ Stripped(p) = q
      BY <2>1, <2>2, <2>3, <2>4, TidyMore
    <2>6. Clean(<<>>) = <<>> /\ Flat(<<>>) = <<>> /\ <<>> \in Seq(Plain)
      BY CleanEmpty, EmptySeq DEF Flat
    <2>7. p \o <<>> = p /\ q \o <<>> = q
      BY <1>2, ConcatEmptySeq
    <2> QED BY <2>5, <2>6, <2>7
  <1>5. ASSUME NEW y \in Seq(Plain), NEW c \in Plain, y \in Good PROVE Append(y, c) \in Good
    <2> DEFINE d == IF c = "nl" THEN " " ELSE c
               t == p \o Clean(y)
               z == Append(y, c)
    <2>1. d \in Plain /\ d \in Characters \ {"back"} /\ "back" \in Characters
      BY <1>1 DEF Plain
    <2>2. /\ y \in Seq(Characters) /\ c \in Characters /\ z \in Seq(Plain)
          /\ Clean(y) \in Seq(Characters) /\ Clean(z) = Clean(y) \o Piece(c)
      BY <1>1, <1>3, CleanAppend, AppendProperties
    <2>3. Tidy(t) /\ Stripped(t) = q \o Flat(y)
      BY <1>5
    <2>4. Flat(y) \in Seq(Characters) /\ Flat(z) = Append(Flat(y), d)
      BY <1>3, FlatAppend
    <2> HIDE DEF p, q, d, z
    <2>5. q \o Flat(z) = Append(Stripped(t), d)
      BY <1>2, <2>1, <2>3, <2>4, AppendLast
    <2>6. CASE c = "quote"
      <3>1. d = "quote"
        BY <2>6 DEF d
      <3>2. Piece(c) = Append(<<"back">>, "quote") /\ <<"back">> \in Seq(Characters)
        BY <2>1, <2>6 DEF Piece
      <3>3. Clean(z) = Append(Append(Clean(y), "back"), "quote")
        <4>1. Clean(y) \o Append(<<"back">>, "quote") = Append(Clean(y) \o <<"back">>, "quote")
          BY <2>1, <2>2, <3>1, <3>2, AppendLast
        <4>2. Clean(y) \o <<"back">> = Append(Clean(y), "back")
          BY <2>1, <2>2, AppendIsConcat
        <4> QED BY <2>2, <3>2, <4>1, <4>2
      <3>4. Append(Clean(y), "back") \in Seq(Characters)
        BY <2>1, <2>2, AppendProperties
      <3>5. p \o Clean(z) = Append(Append(t, "back"), d)
        <4>1. p \o Append(Clean(y), "back") = Append(t, "back")
          BY <1>2, <2>1, <2>2, AppendLast
        <4>2. p \o Append(Append(Clean(y), "back"), "quote")
                = Append(p \o Append(Clean(y), "back"), "quote")
          BY <1>2, <2>1, <3>1, <3>4, AppendLast
        <4> QED BY <3>1, <3>3, <4>1, <4>2
      <3> HIDE DEF t
      <3>6. Tidy(p \o Clean(z)) /\ Stripped(p \o Clean(z)) = Append(Stripped(t), d)
        BY <2>1, <2>3, <3>5, TidyMore
      <3> QED BY <2>2, <2>5, <3>6 DEF z
    <2>7. CASE c # "quote"
      <3>1. Piece(c) = <<d>>
        BY <2>7 DEF Piece, d
      <3>2. Clean(z) = Append(Clean(y), d)
        BY <2>1, <2>2, <3>1, AppendIsConcat
      <3>3. p \o Clean(z) = Append(t, d)
        BY <1>2, <2>1, <2>2, <3>2, AppendLast
      <3> HIDE DEF t
      <3>4. Tidy(p \o Clean(z)) /\ Stripped(p \o Clean(z)) = Append(Stripped(t), d)
        BY <2>1, <2>3, <3>3, TidyMore
      <3> QED BY <2>2, <2>5, <3>4 DEF z
    <2> QED BY <2>6, <2>7
  <1> HIDE DEF Good
  <1>6. x \in Good
    BY <1>4, <1>5, Texts
  <1>7. Tidy(Opened(x)) /\ Stripped(Opened(x)) = q \o Flat(x)
    BY <1>6 DEF Good, Opened
  <1> QED BY <1>7 DEF Tidy

\* A text without new lines is said as it is.
LEMMA FlatSame ==
  ASSUME NEW s \in Seq(Plain), \A i \in DOMAIN s : s[i] # "nl"
  PROVE  Flat(s) = s
  <1>1. s = [i \in DOMAIN s |-> s[i]]
    BY LenProperties
  <1>2. Flat(s) = [i \in DOMAIN s |-> s[i]]
    BY DEF Flat
  <1> QED BY <1>1, <1>2

\* What a round's calls are to be echoed.
Said(s) == IF AllBlank(s) THEN Hello ELSE s

\* It is plain too, and not blank.
LEMMA SaidType ==
  ASSUME NEW s \in Seq(Plain)
  PROVE  /\ Said(s) \in Seq(Plain) /\ ~AllBlank(Flat(Said(s)))
         /\ Flat(Said(s)) = IF AllBlank(s) THEN Hello ELSE Flat(s)
  <1>1. "a" \in Plain /\ "a" \notin Blanks /\ "nl" \in Blanks
    BY DEF Plain, Characters, Blanks
  <1>2. Hello \in Seq(Plain)
    BY <1>1 DEF Hello
  <1>3. \A i \in DOMAIN Hello : Hello[i] = "a"
    BY DEF Hello
  <1>4. 1 \in DOMAIN Hello
    BY DEF Hello
  <1>5. Flat(Hello) = Hello
    BY <1>2, <1>3, FlatSame
  <1>6. ~AllBlank(Hello)
    BY <1>1, <1>3, <1>4 DEF AllBlank
  <1>7. ASSUME ~AllBlank(s) PROVE ~AllBlank(Flat(s))
    <2>1. PICK i \in DOMAIN s : s[i] \notin Blanks
      BY <1>7 DEF AllBlank
    <2>2. i \in DOMAIN Flat(s) /\ Flat(s)[i] = s[i]
      BY <1>1, <2>1 DEF Flat
    <2> QED BY <2>1, <2>2 DEF AllBlank
  <1> QED BY <1>2, <1>5, <1>6, <1>7 DEF Said

\* What the client reads from the string of a call.
LEMMA PromptSays ==
  ASSUME NEW s \in Seq(Plain)
  PROVE  Decode(Prompt(s)).text = Append(<<"ask", "quote">> \o Flat(Said(s)), "quote")
  <1> DEFINE x == Said(s)
             u == Opened(x)
  <1>1. x \in Seq(Plain)
    BY SaidType
  <1>2. u \in Seq(Characters) /\ Tidy(u) /\ Stripped(u) = <<"ask", "quote">> \o Flat(x)
    BY <1>1, OpenedSays
  <1>3. {"back", "quote"} \subseteq Characters /\ "quote" \in Characters \ {"back"}
    BY DEF Characters
  <1>4. Prompt(s) = u \o <<"back", "quote">>
    BY DEF Prompt, Opened, Said
  <1> HIDE DEF u, x
  <1>5. Prompt(s) = Append(Append(u, "back"), "quote")
    <2>1. <<"back", "quote">> = Append(<<"back">>, "quote") /\ <<"back">> \in Seq(Characters)
      BY <1>3
    <2>2. u \o Append(<<"back">>, "quote") = Append(u \o <<"back">>, "quote")
      BY <1>2, <1>3, <2>1, AppendLast
    <2>3. u \o <<"back">> = Append(u, "back")
      BY <1>2, <1>3, AppendIsConcat
    <2> QED BY <1>4, <2>1, <2>2, <2>3
  <1>6. Tidy(Prompt(s)) /\ Stripped(Prompt(s)) = Append(Stripped(u), "quote")
    BY <1>2, <1>3, <1>5, TidyMore
  <1>7. Decode(Prompt(s)).text = Stripped(Prompt(s))
    BY <1>6, TidyDecodes
  <1> QED BY <1>2, <1>6, <1>7 DEF x

\* The payload of such a prompt is what is between its quotes.
LEMMA PayloadFound ==
  ASSUME NEW y \in Seq(Plain)
  PROVE  ExtractEchoPayload(Append(<<"ask", "quote">> \o y, "quote")) = y
  <1> DEFINE n == Len(y)
             q == <<"ask", "quote">>
             w == q \o y
             t == Append(w, "quote")
             opening == {i \in DOMAIN t : t[i] = "ask" /\ i < Len(t) /\ t[i + 1] = "quote"}
             from == Min(opening) + 2
             quotes == {i \in from..Len(t) : t[i] = "quote"}
             sub == SubSeq(t, from, IF quotes = {} THEN Len(t) ELSE ClosingQuote(quotes) - 1)
  <1>1. {"ask", "quote"} \subseteq Characters /\ Plain \subseteq Characters
    BY DEF Characters, Plain
  <1>2. /\ y \in Seq(Characters) /\ q \in Seq(Characters)
        /\ Len(q) = 2 /\ q[1] = "ask" /\ q[2] = "quote"
        /\ n \in Nat
    BY <1>1, SeqMonotonic, LenProperties
  <1>3. \A i \in 1..n : y[i] # "ask" /\ y[i] # "back"
    BY ElementOfSeq DEF Plain
  <1> HIDE DEF q
  <1>4. w \in Seq(Characters) /\ Len(w) = 2 + n
        /\ \A i \in 1..(2 + n) : w[i] = IF i <= 2 THEN q[i] ELSE y[i - 2]
    <2>1. /\ w \in Seq(Characters) /\ Len(w) = Len(q) + Len(y)
          /\ \A i \in 1..(Len(q) + Len(y)) : w[i] = IF i <= Len(q) THEN q[i] ELSE y[i - Len(q)]
      BY <1>2, ConcatProperties
    <2> HIDE DEF w
    <2> QED BY <1>2, <2>1
  <1> HIDE DEF w, n
  <1>5. /\ t \in Seq(Characters) /\ Len(t) = n + 3 /\ t[n + 3] = "quote"
        /\ \A i \in 1..(2 + n) : t[i] = w[i]
    <2>1. /\ t \in Seq(Characters) /\ Len(t) = Len(w) + 1 /\ t[Len(w) + 1] = "quote"
          /\ \A i \in 1..Len(w) : t[i] = w[i]
      BY <1>1, <1>4, AppendProperties
    <2>2. Len(w) + 1 = n + 3
      BY <1>2, <1>4
    <2> HIDE DEF t
    <2> QED BY <1>4, <2>1, <2>2
  <1>6. DOMAIN t = 1..(n + 3)
    BY <1>5, LenProperties
  <1> HIDE DEF t
  <1>7. t[1] = "ask" /\ t[2] = "quote" /\ \A i \in 1..n : t[i + 2] = y[i]
    <2>1. t[1] = "ask" /\ t[2] = "quote"
      BY <1>2, <1>4, <1>5
    <2>2. ASSUME NEW i \in 1..n PROVE t[i + 2] = y[i]
      <3>1. i + 2 \in 1..(2 + n) /\ ~(i + 2 <= 2) /\ (i + 2) - 2 = i
        BY <1>2
      <3> QED BY <1>4, <1>5, <3>1
    <2> QED BY <2>1, <2>2
  <1>8. opening = {1}
    <2>1. 1 \in opening
      BY <1>2, <1>5, <1>6, <1>7
    <2>2. ASSUME NEW i \in opening PROVE i = 1
      <3>1. i \in 1..(n + 3) /\ t[i] = "ask"
        BY <1>6
      <3>2. i # n + 3 /\ i # 2
        BY <1>5, <1>7, <3>1
      <3>3. CASE i # 1
        <4>1. i - 2 \in 1..n /\ (i - 2) + 2 = i
          BY <1>2, <3>1, <3>2, <3>3
        <4>2. t[(i - 2) + 2] = y[i - 2]
          BY <1>7, <4>1
        <4>3. y[i - 2] # "ask"
          BY <1>3, <4>1 DEF n
        <4> QED BY <3>1, <4>1, <4>2, <4>3
      <3> QED BY <3>3
    <2> HIDE DEF opening
    <2> QED BY <2>1, <2>2
  <1>9. from = 3
    <2>1. Min({1}) = 1
      BY DEF Min
    <2> HIDE DEF opening
    <2> QED BY <1>8, <2>1
  <1>10. ExtractEchoPayload(t) = IF opening = {} THEN t ELSE Unescaped(sub)
    BY DEF ExtractEchoPayload
  <1> HIDE DEF opening, from
  <1>11. n + 3 \in quotes /\ quotes # {} /\ \A i \in quotes : i \in Nat /\ n + 3 >= i
    <2>1. quotes = {i \in 3..(n + 3) : t[i] = "quote"}
      BY <1>5, <1>9
    <2> HIDE DEF quotes
    <2>2. n + 3 \in 3..(n + 3) /\ \A i \in 3..(n + 3) : i \in Nat /\ n + 3 >= i
      BY ONLY <1>2
    <2> QED BY ONLY <1>5, <2>1, <2>2
  <1>12. ClosingQuote(quotes) = n + 3
    <2>1. \A j \in quotes : (\A i \in quotes : j >= i) => j = n + 3
      BY <1>2, <1>11
    <2> HIDE DEF quotes
    <2> QED BY <1>11, <2>1 DEF ClosingQuote, Max
  <1> HIDE DEF quotes
  <1>13. sub = SubSeq(t, 3, n + 2)
    BY <1>2, <1>9, <1>11, <1>12
  <1> HIDE DEF sub
  <1>14. sub = y
    <2>1. \A i \in 3..(n + 2) : t[i] \in Characters
      BY <1>2, <1>5, <1>6
    <2>2. n + 2 \in Int
      BY <1>2
    <2> DEFINE v == SubSeq(t, 3, n + 2)
    <2>3. /\ v \in Seq(Characters) /\ Len(v) = IF 3 <= n + 2 THEN (n + 2) - 3 + 1 ELSE 0
          /\ \A i \in 1..((n + 2) - 3 + 1) : v[i] = t[3 + i - 1]
      BY <2>1, <2>2, SubSeqProperties
    <2> HIDE DEF v
    <2>4. Len(v) = n
      BY <1>2, <2>3
    <2>5. ASSUME NEW i \in 1..n PROVE v[i] = y[i]
      <3>1. i \in 1..((n + 2) - 3 + 1) /\ 3 + i - 1 = i + 2
        BY <1>2
      <3> QED BY <1>7, <2>3, <3>1
    <2>6. v = y
      BY <1>2, <2>3, <2>4, <2>5, SeqEqual DEF n
    <2> QED BY <1>13, <2>6 DEF v
  <1>15. Unescaped(y) = y
    <2>1. DOMAIN y = 1..n
      BY LenProperties DEF n
    <2>2. \A i \in DOMAIN y :
            i \notin {k \in DOMAIN y : y[k] = "back" /\ k < Len(y) /\ y[k + 1] = "quote"}
      BY <1>3, <2>1 DEF n
    <2> QED BY <2>2, WithoutNothing DEF Unescaped
  <1>16. ExtractEchoPayload(t) = y
    BY <1>8, <1>10, <1>14, <1>15
  <1> QED BY <1>16 DEF t, w, q

\* What a subagent says that is started with a prompt.
Reported(text) ==
  IF AllBlank(ExtractEchoPayload(text)) THEN text ELSE ExtractEchoPayload(text)

\* It is the text of the round, new lines apart.
LEMMA RoundTrip ==
  ASSUME NEW s \in Seq(Plain)
  PROVE  Reported(Decode(Prompt(s)).text) = IF AllBlank(s) THEN Hello ELSE Flat(s)
  <1>1. Flat(Said(s)) \in Seq(Plain)
    <2> DEFINE x == Said(s)
    <2>1. x \in Seq(Plain)
      BY SaidType
    <2>2. "a" \in Plain
      BY DEF Plain, Characters
    <2> HIDE DEF x
    <2>3. Flat(x) \in Seq(Plain)
      BY <2>1, <2>2, FlatAppend
    <2> QED BY <2>3 DEF x
  <1>2. ExtractEchoPayload(Decode(Prompt(s)).text) = Flat(Said(s))
    BY <1>1, PromptSays, PayloadFound
  <1> QED BY <1>2, SaidType DEF Reported

-----------------------------------------------------------------------------
(***************************************************************************)
(* The tokens of a repeated text.                                          *)
(***************************************************************************)
\* The place in a run, from left to right.
LEMMA Places ==
  ASSUME NEW s, NEW i \in Nat \ {0}
  PROVE  /\ PlaceInRun(s, i) \in Nat /\ PlaceInRun(s, 1) = 0
         /\ PlaceInRun(s, i + 1) = IF RunOf(s[i + 1]) = RunOf(s[i]) THEN PlaceInRun(s, i) + 1 ELSE 0
  <1> DEFINE Same(n) == {j \in 1..(n - 1) : \A k \in j..n : RunOf(s[k]) = RunOf(s[n])}
  <1>1. ASSUME NEW n \in Nat \ {0}
        PROVE  IsFiniteSet(Same(n)) /\ Cardinality(Same(n)) \in Nat
    <2>1. IsFiniteSet(1..(n - 1)) /\ Same(n) \subseteq 1..(n - 1)
      BY FS_Interval
    <2> QED BY <2>1, FS_Subset, FS_CardinalityType
  <1>2. Same(1) = {}
    OBVIOUS
  <1>3. CASE RunOf(s[i + 1]) = RunOf(s[i])
    <2>1. Same(i + 1) = Same(i) \union {i} /\ i \notin Same(i)
      <3>1. \A j \in 1..i : (\A k \in j..(i + 1) : RunOf(s[k]) = RunOf(s[i + 1]))
                              <=> \A k \in j..i : RunOf(s[k]) = RunOf(s[i])
        <4>1. \A j \in 1..i : \A k : k \in j..(i + 1) <=> k \in j..i \/ k = i + 1
          OBVIOUS
        <4> QED BY <1>3, <4>1
      <3>2. \A k \in i..i : RunOf(s[k]) = RunOf(s[i])
        OBVIOUS
      <3> QED BY <3>1, <3>2
    <2> HIDE DEF Same
    <2>2. Cardinality(Same(i + 1)) = Cardinality(Same(i)) + 1
      BY <1>1, <2>1, FS_AddElement
    <2> QED BY <1>1, <1>2, <1>3, <2>2, FS_EmptySet DEF PlaceInRun, Same
  <1>4. CASE RunOf(s[i + 1]) # RunOf(s[i])
    <2>1. Same(i + 1) = {}
      <3>1. \A j \in 1..i : i \in j..(i + 1)
        OBVIOUS
      <3> QED BY <1>4, <3>1
    <2> QED BY <1>1, <1>2, <1>4, <2>1, FS_EmptySet DEF PlaceInRun
  <1> QED BY <1>3, <1>4

\* What a character weighs depends on its place only if a token of its kind
\* holds three or four.
LEMMA Weighs ==
  ASSUME NEW s, NEW i
  PROVE  /\ Weight(s, i) \in Nat
         /\ PerToken(s[i]) \in {1, 3, 4}
         /\ PerToken(s[i]) # 1 =>
              Weight(s, i) = IF PlaceInRun(s, i) % PerToken(s[i]) = 0 THEN 1 ELSE 0
  <1>1. PerToken(s[i]) \in {1, 3, 4}
    BY DEF PerToken
  <1>2. s[i] = "ask" => PerToken(s[i]) = 1
    BY DEF PerToken, RunOf
  <1> QED BY <1>1, <1>2 DEF Weight

\* How many tokens begin in a run of m characters, p to a token.
Ceiling(m, p) == (m + p - 1) \div p

\* A run that goes on after k characters begins no more tokens than on its own.
LEMMA Ceilings ==
  ASSUME NEW k \in Nat, NEW m \in Nat, NEW p \in {3, 4}
  PROVE  /\ Ceiling(m, p) \in Nat /\ Ceiling(0, p) = 0 /\ Ceiling(1, p) = 1
         /\ Ceiling(m + 1, p) = Ceiling(m, p) + IF m % p = 0 THEN 1 ELSE 0
         /\ Ceiling(k + m, p) <= Ceiling(k, p) + Ceiling(m, p)
  <1>1. CASE p = 3
    BY <1>1 DEF Ceiling
  <1>2. CASE p = 4
    BY <1>2 DEF Ceiling
  <1> QED BY <1>1, <1>2

\* A text that comes first is counted as on its own.
LEMMA CountFirst ==
  ASSUME NEW s \in Seq(Characters), NEW t \in Seq(Characters)
  PROVE  /\ \A i \in 1..Len(s) : PlaceInRun(s \o t, i) = PlaceInRun(s, i)
         /\ CountTo(s \o t)[Len(s)] = Count(s)
  <1> DEFINE st == s \o t
             n == Len(s)
  <1>1. /\ st \in Seq(Characters) /\ n \in Nat /\ Len(t) \in Nat /\ Len(st) = n + Len(t)
        /\ \A i \in 1..n : st[i] = s[i]
    <2>1. /\ st \in Seq(Characters) /\ Len(st) = n + Len(t)
          /\ \A i \in 1..(n + Len(t)) : st[i] = IF i <= n THEN s[i] ELSE t[i - n]
      BY ConcatProperties
    <2>2. n \in Nat /\ Len(t) \in Nat
      OBVIOUS
    <2> HIDE DEF st, n
    <2> QED BY <2>1, <2>2
  <1> HIDE DEF st, n
  <1>2. ASSUME NEW i \in 1..n PROVE PlaceInRun(st, i) = PlaceInRun(s, i) /\ Weight(st, i) = Weight(s, i)
    <2>1. \A j \in 1..(i - 1) : \A k \in j..i : st[k] = s[k]
      BY <1>1
    <2>2. st[i] = s[i]
      BY <1>1
    <2>3. PlaceInRun(st, i) = PlaceInRun(s, i)
      <3>1. {j \in 1..(i - 1) : \A k \in j..i : RunOf(st[k]) = RunOf(st[i])}
              = {j \in 1..(i - 1) : \A k \in j..i : RunOf(s[k]) = RunOf(s[i])}
        BY <2>1, <2>2
      <3> QED BY <3>1 DEF PlaceInRun
    <2> QED BY <2>2, <2>3 DEF Weight
  <1> DEFINE a == CountTo(st)
             b == CountTo(s)
             Good == {i \in 0..n : a[i] = b[i]}
  <1>3. /\ a[0] = 0 /\ \A i \in 1..(n + Len(t)) : a[i] = a[i - 1] + Weight(st, i)
        /\ b[0] = 0 /\ \A i \in 1..n : b[i] = b[i - 1] + Weight(s, i)
        /\ Count(s) = b[n]
    <2>1. n + Len(t) \in Nat /\ n = Len(s)
      BY <1>1 DEF n
    <2> QED BY <1>1, <2>1, Counts
  <1> HIDE DEF a, b
  <1>4. 0 \in Good
    BY <1>1, <1>3
  <1>5. ASSUME NEW i \in 1..n, i - 1 \in Good PROVE i \in Good
    BY <1>1, <1>2, <1>3, <1>5
  <1>6. n \in Nat
    BY <1>1
  <1> HIDE DEF Good
  <1>7. n \in Good
    <2>1. \A i \in 0..n : i \in Good
      BY <1>4, <1>5, <1>6, Numbers
    <2> QED BY <1>6, <2>1
  <1>8. a[n] = b[n]
    BY <1>7 DEF Good
  <1> QED BY <1>2, <1>3, <1>8 DEF a, st, n

(***************************************************************************)
(* A text after another is counted as on its own from its second run on;   *)
(* its first may go on with the last run of the other, and then saves a    *)
(* token or none.                                                          *)
(***************************************************************************)
Apart(x, y, p) == x = y \/ p = 1

\* The k characters before belong to the first run, of m characters so far.
FirstRun(x, y, k, m, p, sum, alone) ==
  /\ p \in {3, 4} /\ y = m - 1 /\ x = k + y
  /\ alone = Ceiling(m, p) /\ sum = Ceiling(k + m, p) - Ceiling(k, p)

\* The next character weighs as on its own, in a run of its own or in the first.
LEMMA RunGoesOn ==
  ASSUME NEW x, NEW y, NEW k \in Nat, NEW m \in Nat \ {0}, NEW p, NEW sum, NEW alone,
         FirstRun(x, y, k, m, p, sum, alone)
  PROVE  /\ sum <= alone
         /\ FirstRun(x + 1, y + 1, k, m + 1, p, sum + (IF (x + 1) % p = 0 THEN 1 ELSE 0),
                     alone + (IF (y + 1) % p = 0 THEN 1 ELSE 0))
  <1>1. p \in {3, 4} /\ y = m - 1 /\ x = k + y
    BY DEF FirstRun
  <1>2. x + 1 = k + m /\ y + 1 = m /\ k + m \in Nat
    BY <1>1
  <1> DEFINE l == k + m
  <1>3. /\ Ceiling(m, p) \in Nat /\ Ceiling(m + 1, p) = Ceiling(m, p) + IF m % p = 0 THEN 1 ELSE 0
        /\ Ceiling(l, p) <= Ceiling(k, p) + Ceiling(m, p)
    BY <1>1, Ceilings
  <1>4. /\ Ceiling(k, p) \in Nat
        /\ Ceiling(l, p) \in Nat /\ Ceiling(l + 1, p) = Ceiling(l, p) + IF l % p = 0 THEN 1 ELSE 0
    <2>1. l \in Nat
      OBVIOUS
    <2> HIDE DEF l
    <2> QED BY <1>1, <2>1, Ceilings
  <1>5. k + (m + 1) = (k + m) + 1
    OBVIOUS
  <1>6. sum <= alone
    BY <1>3, <1>4 DEF FirstRun
  <1>7. y + 1 = (m + 1) - 1 /\ x + 1 = k + (y + 1)
    BY <1>1
  <1>8. alone + (IF (y + 1) % p = 0 THEN 1 ELSE 0) = Ceiling(m + 1, p)
    BY <1>2, <1>3 DEF FirstRun
  <1>9. sum + (IF (x + 1) % p = 0 THEN 1 ELSE 0) = Ceiling(k + (m + 1), p) - Ceiling(k, p)
    <2>1. sum = Ceiling(l, p) - Ceiling(k, p) /\ x + 1 = l /\ k + (m + 1) = l + 1
      BY <1>1, <1>2 DEF FirstRun
    <2> HIDE DEF l
    <2> QED BY <1>4, <2>1
  <1> QED BY <1>1, <1>6, <1>7, <1>8, <1>9 DEF FirstRun

\* A text after another has at most the tokens of both.
LEMMA CountJoined ==
  ASSUME NEW s \in Seq(Characters), NEW t \in Seq(Characters)
  PROVE  Count(s \o t) <= Count(s) + Count(t)
  <1> DEFINE st == s \o t
             n == Len(s)
             l == Len(t)
             a == CountTo(st)
             b == CountTo(t)
             c == Count(s)
             x(i) == PlaceInRun(st, n + i)
             y(i) == PlaceInRun(t, i)
             p(i) == PerToken(t[i])
             k == x(1)
             Good == {i \in 0..l :
                        /\ a[n + i] - c <= b[i]
                        /\ i > 0 => \/ Apart(x(i), y(i), p(i))
                                    \/ FirstRun(x(i), y(i), k, i, p(i), a[n + i] - c, b[i])}
  <1>1. n \in Nat /\ l \in Nat /\ Len(st) = n + l /\ \A i \in 1..l : st[n + i] = t[i]
    <2>1. /\ Len(st) = n + l
          /\ \A i \in 1..(n + l) : st[i] = IF i <= n THEN s[i] ELSE t[i - n]
      BY ConcatProperties
    <2>2. n \in Nat /\ l \in Nat
      OBVIOUS
    <2> HIDE DEF st, n, l
    <2>3. ASSUME NEW i \in 1..l PROVE st[n + i] = t[i]
      <3>1. n + i \in 1..(n + l) /\ ~(n + i <= n) /\ (n + i) - n = i
        BY <2>2
      <3> QED BY <2>1, <3>1
    <2> QED BY <2>1, <2>2, <2>3
  <1>2. /\ a[n] = c /\ c \in Nat
        /\ \A i \in 0..l : a[n + i] \in Nat /\ b[i] \in Nat
        /\ \A i \in 1..l : /\ a[n + i] = a[n + i - 1] + Weight(st, n + i)
                           /\ b[i] = b[i - 1] + Weight(t, i)
        /\ b[0] = 0 /\ Count(t) = b[l] /\ Count(st) = a[n + l]
    <2>1. a[n] = c
      BY CountFirst
    <2> HIDE DEF st, n, l
    <2>2. n + l \in Nat
      BY <1>1
    <2>3. /\ a \in [0..(n + l) -> Nat] /\ Count(st) = a[n + l]
          /\ \A i \in 1..(n + l) : a[i] = a[i - 1] + Weight(st, i)
      BY <1>1, <2>2, Counts
    <2>4. /\ b \in [0..l -> Nat] /\ b[0] = 0 /\ Count(t) = b[l]
          /\ \A i \in 1..l : b[i] = b[i - 1] + Weight(t, i)
      BY <1>1, Counts DEF l
    <2> HIDE DEF a, b, c
    <2>5. \A i \in 0..l : n + i \in 0..(n + l)
      BY <1>1
    <2>6. \A i \in 1..l : n + i \in 1..(n + l)
      BY <1>1
    <2>7. c \in Nat
      <3>1. 0 \in 0..l /\ n + 0 = n
        BY <1>1
      <3> QED BY <2>1, <2>3, <2>5, <3>1
    <2>8. \A i \in 0..l : a[n + i] \in Nat /\ b[i] \in Nat
      BY <2>3, <2>4, <2>5
    <2>9. \A i \in 1..l : b[i] = b[i - 1] + Weight(t, i)
      BY <2>4
    <2>10. ASSUME NEW i \in 1..l PROVE a[n + i] = a[n + i - 1] + Weight(st, n + i)
      <3>1. n + i \in 1..(n + l)
        BY <2>6
      <3> QED BY <1>1, <2>3, <3>1
    <2> QED BY <2>1, <2>3, <2>4, <2>7, <2>8, <2>9, <2>10
  <1> HIDE DEF a, b, c, st, n, l
  <1>3. ASSUME NEW i \in 1..l
        PROVE  /\ x(i) \in Nat /\ y(i) \in Nat /\ p(i) \in {1, 3, 4}
               /\ Apart(x(i), y(i), p(i)) => Weight(st, n + i) = Weight(t, i)
               /\ p(i) # 1 => /\ Weight(st, n + i) = IF x(i) % p(i) = 0 THEN 1 ELSE 0
                              /\ Weight(t, i) = IF y(i) % p(i) = 0 THEN 1 ELSE 0
               /\ Weight(st, n + i) \in Nat /\ Weight(t, i) \in Nat
    <2>1. n + i \in Nat \ {0} /\ st[n + i] = t[i] /\ i \in Nat \ {0}
      BY <1>1
    <2>2. x(i) \in Nat /\ y(i) \in Nat
      BY <2>1, Places
    <2>3. p(i) = 1 => Weight(st, n + i) = Weight(t, i)
      BY <2>1, <2>2 DEF Weight
    <2>4. x(i) = y(i) => Weight(st, n + i) = Weight(t, i)
      BY <2>1 DEF Weight
    <2> QED BY <2>1, <2>2, <2>3, <2>4, Weighs DEF Apart
  <1>4. ASSUME NEW i \in 1..l, i + 1 \in 1..l
        PROVE  \/ /\ x(i + 1) = x(i) + 1 /\ y(i + 1) = y(i) + 1 /\ p(i + 1) = p(i)
               \/ x(i + 1) = y(i + 1)
    <2>1. /\ n + i \in Nat \ {0} /\ st[n + i] = t[i] /\ st[n + i + 1] = t[i + 1]
          /\ i \in Nat \ {0}
      <3>1. n + (i + 1) = n + i + 1
        BY <1>1
      <3> QED BY <1>1, <1>4, <3>1
    <2>2. n + (i + 1) = n + i + 1
      BY <1>1
    <2>3. /\ x(i + 1) = IF RunOf(t[i + 1]) = RunOf(t[i]) THEN x(i) + 1 ELSE 0
          /\ y(i + 1) = IF RunOf(t[i + 1]) = RunOf(t[i]) THEN y(i) + 1 ELSE 0
      BY <2>1, <2>2, Places
    <2>4. RunOf(t[i + 1]) = RunOf(t[i]) => p(i + 1) = p(i)
      BY DEF PerToken, RunOf
    <2> QED BY <2>3, <2>4
  <1>5. 1 \in 1..l => y(1) = 0
    BY Places
  <1> HIDE DEF x, y, p
  <1>6. 0 \in Good
    BY <1>1, <1>2
  <1>7. ASSUME NEW i \in 1..l, i - 1 \in Good PROVE i \in Good
    <2> DEFINE A == a[n + i - 1]
               w == Weight(st, n + i)
               v == Weight(t, i)
    <2>1. /\ a[n + i] = A + w /\ b[i] = b[i - 1] + v /\ A - c <= b[i - 1]
          /\ A \in Nat /\ b[i - 1] \in Nat /\ c \in Nat /\ w \in Nat /\ v \in Nat
      <3>1. i - 1 \in 0..l /\ n + (i - 1) = n + i - 1
        BY <1>1
      <3> QED BY <1>2, <1>3, <1>7, <3>1
    <2>2. CASE Apart(x(i), y(i), p(i))
      <3>1. w = v
        BY <1>3, <2>2
      <3> QED BY <1>7, <2>1, <2>2, <3>1
    <2>3. CASE ~Apart(x(i), y(i), p(i)) /\ i = 1
      <3>1. p(1) \in {3, 4} /\ k \in Nat /\ y(1) = 0
        BY <1>3, <1>5, <2>3 DEF Apart
      <3>2. A = c /\ b[i - 1] = 0
        BY <1>1, <1>2, <2>3
      <3>3. /\ w = IF k % p(1) = 0 THEN 1 ELSE 0
            /\ v = IF 0 % p(1) = 0 THEN 1 ELSE 0
        BY <1>3, <2>3, <3>1
      <3>4. /\ Ceiling(1, p(1)) = 1 /\ Ceiling(k, p(1)) \in Nat
            /\ Ceiling(k + 1, p(1)) = Ceiling(k, p(1)) + IF k % p(1) = 0 THEN 1 ELSE 0
        BY <3>1, Ceilings
      <3>5. v = 1
        BY <3>1, <3>3
      <3>6. a[n + i] - c = w /\ b[i] = 1
        BY <2>1, <3>2, <3>5
      <3>7. w = Ceiling(k + 1, p(1)) - Ceiling(k, p(1))
        BY <3>3, <3>4
      <3>8. FirstRun(x(1), y(1), k, 1, p(1), w, 1)
        BY <3>1, <3>4, <3>7 DEF FirstRun
      <3>9. w <= 1
        BY <3>3
      <3> QED BY <2>3, <3>6, <3>8, <3>9
    <2>4. CASE ~Apart(x(i), y(i), p(i)) /\ i # 1
      <3> DEFINE h == i - 1
      <3>1. h \in 1..l /\ h + 1 = i /\ n + h = n + i - 1
        BY <1>1, <2>4
      <3> HIDE DEF h
      <3>2. x(i) = x(h) + 1 /\ y(i) = y(h) + 1 /\ p(i) = p(h)
        BY <1>4, <2>4, <3>1 DEF Apart
      <3>3. ~Apart(x(h), y(h), p(h))
        BY <1>3, <2>4, <3>1, <3>2 DEF Apart
      <3>4. FirstRun(x(h), y(h), k, h, p(h), A - c, b[h])
        BY <1>7, <3>1, <3>3 DEF h
      <3>5. k \in Nat /\ h \in Nat \ {0}
        <4>1. 1 \in 1..l /\ h \in Nat \ {0}
          BY <1>1, <3>1
        <4> QED BY <1>3, <4>1
      <3>6. FirstRun(x(i), y(i), k, i, p(i), (A - c) + (IF x(i) % p(i) = 0 THEN 1 ELSE 0),
                     b[h] + (IF y(i) % p(i) = 0 THEN 1 ELSE 0))
        BY <3>1, <3>2, <3>4, <3>5, RunGoesOn
      <3>7. p(i) # 1
        BY <2>4 DEF Apart
      <3>8. FirstRun(x(i), y(i), k, i, p(i), (A - c) + w, b[h] + v)
        BY <1>3, <3>6, <3>7
      <3>9. (A - c) + w = a[n + i] - c /\ b[h] + v = b[i]
        BY <2>1 DEF h
      <3>10. FirstRun(x(i), y(i), k, i, p(i), a[n + i] - c, b[i])
        BY <3>8, <3>9
      <3>11. a[n + i] - c <= b[i]
        <4>1. i \in Nat \ {0}
          BY <1>1
        <4> QED BY <3>5, <3>10, <4>1, RunGoesOn
      <3> QED BY <3>10, <3>11
    <2> QED BY <2>2, <2>3, <2>4
  <1>12. l \in Nat
    BY <1>1
  <1> HIDE DEF Good
  <1>8. l \in Good
    <2>1. \A i \in 0..l : i \in Good
      BY <1>6, <1>7, <1>12, Numbers
    <2> QED BY <1>12, <2>1
  <1>9. a[n + l] - c <= b[l]
    BY <1>8 DEF Good
  <1>10. a[n + l] \in Nat /\ b[l] \in Nat
    BY <1>1, <1>2
  <1>11. a[n + l] <= c + b[l]
    BY <1>2, <1>9, <1>10
  <1> QED BY <1>2, <1>11 DEF st, c

\* Division of numbers.
LEMMA Quotient ==
  ASSUME NEW a \in Nat, NEW d \in Nat \ {0}
  PROVE  a \div d \in Nat /\ d * (a \div d) <= a /\ a < d * ((a \div d) + 1)
  <1> DEFINE q == a \div d
  <1>1. q \in Nat
    OBVIOUS
  <1>2. a = (d * q) + (a % d) /\ a % d \in 0..(d - 1)
    OBVIOUS
  <1>3. d * (q + 1) = d * q + d
    OBVIOUS
  <1> QED BY <1>1, <1>2, <1>3

\* Products keep the order.
LEMMA Products ==
  ASSUME NEW a \in Nat, NEW b \in Nat, NEW d \in Nat, a <= b
  PROVE  d * a \in Nat /\ d * a <= d * b
  <1>1. d * (b - a) >= 0 /\ d * (b - a) = d * b - d * a
    OBVIOUS
  <1>2. d * a \in Nat /\ d * b \in Nat
    OBVIOUS
  <1> QED BY <1>1, <1>2

\* What is shared among d fits, and so does what a share has room for.
LEMMA Shares ==
  ASSUME NEW total \in Nat, NEW d \in Nat \ {0}, NEW c \in Nat, d * c <= total
  PROVE  /\ total \div d \in Nat /\ c <= total \div d
         /\ \A x \in Nat : x <= total \div d => d * x <= total
  <1> DEFINE q == total \div d
  <1>1. q \in Nat /\ d * q <= total /\ total < d * (q + 1)
    BY Quotient
  <1> HIDE DEF q
  <1>2. c <= q
    <2> SUFFICES ASSUME ~(c <= q) PROVE FALSE
      OBVIOUS
    <2>1. q + 1 <= c /\ q + 1 \in Nat
      BY <1>1
    <2>2. d * (q + 1) <= d * c /\ d * (q + 1) \in Nat
      BY <2>1, Products
    <2>3. d * c \in Nat
      OBVIOUS
    <2> QED BY <1>1, <2>2, <2>3
  <1>3. ASSUME NEW x \in Nat, x <= q PROVE d * x <= total
    <2>1. d * x <= d * q /\ d * x \in Nat /\ d * q \in Nat
      BY <1>1, <1>3, Products
    <2> QED BY <1>1, <2>1
  <1> QED BY <1>1, <1>2, <1>3 DEF q

\* A repeated text has no more tokens than its unit as often.
LEMMA CountRepeated ==
  ASSUME NEW u \in Seq(Characters), u # <<>>, NEW r \in Nat
  PROVE  Count(FlattenSeq([i \in 1..r |-> u])) <= Count(u) * r
  <1> DEFINE seqs == [i \in 1..r |-> u]
             c == Count(u)
  <1>1. c \in Nat
    BY CountType
  <1>2. seqs \in [1..r -> Seq(Characters)] /\ \A i \in 1..r : seqs[i] = u
    OBVIOUS
  <1> HIDE DEF seqs
  <1>3. PICK g : Builds(g, r, Characters, seqs)
    BY <1>2, Flattens
  <1>4. /\ g[0] = <<>> /\ g[r] = FlattenSeq(seqs) /\ \A i \in 0..r : g[i] \in Seq(Characters)
        /\ \A i \in 1..r : g[i] = g[i - 1] \o u
    BY <1>2, <1>3 DEF Builds
  <1>5. \A s \in Seq(Characters) : Count(s) \in Nat
    <2> SUFFICES ASSUME NEW s \in Seq(Characters) PROVE Count(s) \in Nat
      OBVIOUS
    <2> DEFINE n == Len(s)
    <2>1. n \in Nat
      OBVIOUS
    <2>2. CountTo(s) \in [0..n -> Nat] /\ Count(s) = CountTo(s)[n]
      BY <2>1, Counts
    <2> HIDE DEF n
    <2> QED BY <2>1, <2>2
  <1>6. Count(<<>>) = 0
    <2>1. Len(<<>>) = 0
      OBVIOUS
    <2> QED BY <2>1, Counts
  <1> HIDE DEF c
  <1> DEFINE Good == {i \in 0..r : Count(g[i]) <= c * i}
  <1>7. 0 \in Good
    <2>1. c * 0 = 0
      BY <1>1
    <2> QED BY <1>4, <1>6, <2>1
  <1>8. ASSUME NEW i \in 1..r, i - 1 \in Good PROVE i \in Good
    <2>1. i - 1 \in 0..r /\ g[i - 1] \in Seq(Characters) /\ g[i] = g[i - 1] \o u
      BY <1>4
    <2>2. Count(g[i]) <= Count(g[i - 1]) + c
      BY <2>1, CountJoined DEF c
    <2>3. c * i = c * (i - 1) + c /\ c * (i - 1) \in Nat
      BY <1>1
    <2>4. Count(g[i]) \in Nat /\ Count(g[i - 1]) \in Nat
      <3>1. i \in 0..r
        OBVIOUS
      <3> QED BY <1>4, <1>5, <2>1, <3>1
    <2>5. Count(g[i - 1]) <= c * (i - 1)
      BY <1>8
    <2>6. Count(g[i]) <= c * i
      BY <1>1, <2>2, <2>3, <2>4, <2>5
    <2> QED BY <2>6
  <1> HIDE DEF Good
  <1>9. r \in Good
    <2>1. \A i \in 0..r : i \in Good
      BY <1>7, <1>8, Numbers
    <2> QED BY <2>1
  <1>10. Count(g[r]) <= c * r
    BY <1>9 DEF Good
  <1> QED BY <1>4, <1>10 DEF c, seqs

\* The blocks of a round fit into max_tokens if the text does as often.
LEMMA BlocksFit ==
  ASSUME NEW s \in Seq(Characters), NEW chunk \in Nat \ {0}, NEW maxTokens \in Nat,
         NEW subs \in Nat \ {0}, NEW streaming, maxTokens >= (1 + subs) * Count(Unit(s))
  PROVE  (1 + subs) * Count(BuildInfiniteMaxText(s, BlockTokens(chunk, maxTokens, subs, streaming)))
           <= maxTokens
  <1> DEFINE u == Unit(s)
             c == Count(u)
             d == 1 + subs
             share == maxTokens \div d
             room == BlockTokens(chunk, maxTokens, subs, streaming)
             r == Repeats(s, room)
             block == BuildInfiniteMaxText(s, room)
  <1>1. "a" \in Characters
    BY DEF Characters
  <1>2. u \in Seq(Characters) /\ u # <<>> /\ c \in Nat \ {0}
    BY <1>1, UnitType, CountType
  <1>3. d \in Nat \ {0} /\ d * c <= maxTokens
    BY <1>2
  <1>4. share \in Nat /\ c <= share /\ \A x \in Nat : x <= share => d * x <= maxTokens
    BY <1>2, <1>3, Shares
  <1>5. maxTokens # 0
    <2>1. d * c \in Nat \ {0}
      BY <1>2, <1>3
    <2> QED BY <1>3, <2>1
  <1>6. room \in Nat \ {0} /\ room <= share
    <2>1. room = Min({chunk, Max({1, share})})
      BY <1>2, <1>4, <1>5 DEF BlockTokens
    <2>2. share >= 1
      BY <1>2, <1>4
    <2> HIDE DEF share, room
    <2>3. Max({1, share}) = share
      BY <1>4, <2>2, OfTwo
    <2>4. room = IF chunk <= share THEN chunk ELSE share
      <3>1. chunk \in Nat /\ Min({chunk, share}) = IF chunk <= share THEN chunk ELSE share
        BY <1>4, OfTwo
      <3>2. room = Min({chunk, share})
        BY <2>1, <2>3
      <3> QED BY <3>1, <3>2
    <2> QED BY <1>4, <2>2, <2>4
  <1>7. block \in Seq(Characters) /\ r \in Nat \ {0} /\ block = FlattenSeq([i \in 1..r |-> u])
    <2> HIDE DEF room
    <2> QED BY <1>1, <1>6, BlockBuilt
  <1>8. c * r <= share
    <2>1. r = Max({1, room \div c})
      BY DEF Repeats
    <2> HIDE DEF room, share, c
    <2>2. room \div c \in Nat /\ c * (room \div c) <= room
      BY <1>2, <1>6, Quotient
    <2>3. r = 1 \/ r = room \div c
      BY <2>1, <2>2, OfTwo
    <2>4. CASE r = 1
      <3>1. c * 1 = c
        BY <1>2
      <3> QED BY <1>4, <2>4, <3>1
    <2>5. CASE r = room \div c
      <3>1. c * r <= room /\ c * r \in Nat
        BY <1>2, <1>7, <2>2, <2>5
      <3> QED BY <1>4, <1>6, <3>1
    <2> QED BY <2>3, <2>4, <2>5
  <1>9. Count(block) <= c * r
    BY <1>2, <1>7, CountRepeated
  <1>10. Count(block) \in Nat
    <2>1. Len(block) \in Nat
      BY <1>7
    <2> HIDE DEF block
    <2> DEFINE n == Len(block)
    <2>2. n \in 0..n
      BY <2>1
    <2>3. CountTo(block) \in [0..n -> Nat] /\ Count(block) = CountTo(block)[n]
      BY <2>1, Counts
    <2> HIDE DEF n
    <2> QED BY <2>2, <2>3
  <1> HIDE DEF u, c, d, share, room, r, block
  <1>11. c * r \in Nat
    BY <1>2, <1>7
  <1>12. Count(block) <= share
    BY <1>4, <1>8, <1>9, <1>10, <1>11
  <1>13. d * Count(block) <= maxTokens
    BY <1>4, <1>10, <1>12
  <1> QED BY <1>13 DEF d, block, room

=============================================================================
