------------------------------ MODULE DataFacts ------------------------------
(***************************************************************************)
(* The lemmas the proofs share, in two parts.                              *)
(*                                                                         *)
(* Sequences of pieces: what FlattenSeq and Reverse of the community       *)
(* modules do to a chain of pieces to which one is added, or from which    *)
(* one is taken.  FlattenSeq is defined by a recursive function, so the    *)
(* facts rest on induction: LeastOf and Induction are derived from the     *)
(* well-foundedness of the naturals, Recursion and FlattenIsPartial say    *)
(* what the recursive function is.  Some facts are packed into an operator *)
(* (Associates, Splits, Peels, SameAt) that the proofs which instantiate   *)
(* them need not expand.                                                   *)
(*                                                                         *)
(* Varints: what the functions of Varint compute, for every word of either *)
(* type and every byte string: the table of lengths gives the shortest     *)
(* form, a form tells its own length, and decoding undoes encoding.        *)
(***************************************************************************)
EXTENDS Varint, SequencesExt, SequenceTheorems, WellFoundedInduction, TLAPS

\* The order on the naturals as the relation the library's theorem is about.
LEMMA OpToRelLess ==
  ASSUME NEW x \in Nat, NEW y \in Nat, y < x
  PROVE  <<y, x>> \in OpToRel(<, Nat)
<1>1. <<y, x>> \in {ss \in Nat \X Nat : ss[1] < ss[2]}
  OBVIOUS
<1>2. QED
  BY <1>1 DEF OpToRel

\* A set of naturals that has a member has a least one, since the order is
\* well-founded.
LEMMA LeastOf ==
  ASSUME NEW T \in SUBSET Nat, T # {}
  PROVE  \E x \in T : \A y \in T : x <= y
<1>1. IsWellFoundedOn(OpToRel(<, Nat), Nat)
  BY NatLessThanWellFounded, Zenon
<1>2. PICK x \in T : \A y \in T : <<y, x>> \notin OpToRel(<, Nat)
  BY <1>1, WFMin, Zenon
<1>3. ASSUME NEW y \in T PROVE x <= y
  <2>1. x \in Nat /\ y \in Nat
    OBVIOUS
  <2>2. ~(y < x)
    BY <2>1, <1>2, OpToRelLess, Zenon
  <2>3. QED
    BY <2>1, <2>2
<1>4. QED
  BY <1>3

\* Induction over the naturals, for a set instead of a predicate: a set with
\* zero in it that is closed under successor has no least natural outside.
LEMMA Induction ==
  ASSUME NEW T, 0 \in T, \A n \in Nat : n \in T => n + 1 \in T
  PROVE  Nat \subseteq T
<1> DEFINE Bad == {n \in Nat : n \notin T}
<1>1. SUFFICES ASSUME Bad # {} PROVE FALSE
  OBVIOUS
<1>2. PICK x \in Bad : \A y \in Bad : x <= y
  BY <1>1, LeastOf
<1>3. x # 0 /\ x \in Nat
  OBVIOUS
<1>4. x - 1 \in Nat /\ x - 1 \notin Bad
  BY <1>2, <1>3
<1>5. QED
  BY <1>3, <1>4

\* Induction over sequences: what holds of no elements and goes on when one is
\* appended holds of every sequence.
LEMMA AppendInduction ==
  ASSUME NEW S, NEW T, << >> \in T,
         \A s \in Seq(S), x \in S : s \in T => Append(s, x) \in T
  PROVE  Seq(S) \subseteq T
<1> DEFINE Q == {n \in Nat : \A s \in Seq(S) : Len(s) = n => s \in T}
<1>1. 0 \in Q
  <2>1. \A s \in Seq(S) : Len(s) = 0 => s = << >>
    BY EmptySeq
  <2>2. QED
    BY <2>1
<1>2. ASSUME NEW n \in Nat, n \in Q
      PROVE  n + 1 \in Q
  <2>1. SUFFICES ASSUME NEW s \in Seq(S), Len(s) = n + 1 PROVE s \in T
    OBVIOUS
  <2>2. s # << >>
    BY <2>1, EmptySeq
  <2>3. PICK f \in Seq(S), x \in S : s = Append(f, x)
    <3>1. \A i \in 1..n + 1 : s[i] \in S
      BY <2>1, ElementOfSeq
    <3> DEFINE f == [i \in 1..n |-> s[i]]
               x == s[n + 1]
    <3>2. f \in Seq(S) /\ Len(f) = n /\ x \in S
      <4>1. f \in [1..n -> S] /\ n + 1 \in 1..n + 1
        BY <3>1
      <4>2. QED
        BY <3>1, <4>1
    <3>3. s = Append(f, x)
      <4>1. /\ Append(f, x) \in Seq(S) /\ Len(Append(f, x)) = n + 1
            /\ \A i \in 1..n : Append(f, x)[i] = f[i]
            /\ Append(f, x)[n + 1] = x
        BY <3>2, AppendProperties
      <4>2. \A i \in 1..n + 1 : Append(f, x)[i] = s[i]
        BY <4>1
      <4>3. QED
        BY <2>1, <4>1, <4>2, SeqEqual
    <3>4. QED
      BY <3>2, <3>3
  <2>4. Len(f) = n
    <3>1. Len(Append(f, x)) = Len(f) + 1 /\ Len(f) \in Nat
      BY AppendProperties, LenProperties
    <3>2. QED
      BY <2>1, <2>3, <3>1
  <2>5. QED
    BY <1>2, <2>3, <2>4
<1> HIDE DEF Q
<1>3. Nat \subseteq Q
  BY <1>1, <1>2, Induction
<1>4. \A s \in Seq(S) : Len(s) \in Nat
  BY LenProperties
<1>5. QED
  BY <1>3, <1>4 DEF Q

\* The same when an element is put in front.
LEMMA PrependInduction ==
  ASSUME NEW S, NEW T, << >> \in T,
         \A s \in Seq(S), x \in S : s \in T => <<x>> \o s \in T
  PROVE  Seq(S) \subseteq T
<1> DEFINE Q == {n \in Nat : \A s \in Seq(S) : Len(s) = n => s \in T}
<1>1. 0 \in Q
  <2>1. \A s \in Seq(S) : Len(s) = 0 => s = << >>
    BY EmptySeq
  <2>2. QED
    BY <2>1
<1>2. ASSUME NEW n \in Nat, n \in Q
      PROVE  n + 1 \in Q
  <2>1. SUFFICES ASSUME NEW s \in Seq(S), Len(s) = n + 1 PROVE s \in T
    OBVIOUS
  <2>2. s # << >>
    BY <2>1, EmptySeq
  <2>3. /\ Tail(s) \in Seq(S) /\ Head(s) \in S /\ Len(Tail(s)) = n
        /\ s = <<Head(s)>> \o Tail(s)
    <3> DEFINE f == Tail(s)
               x == Head(s)
    <3>1. /\ f \in Seq(S) /\ Len(f) = n /\ x \in S /\ x = s[1]
          /\ \A i \in 1..n : f[i] = s[i + 1]
      BY <2>1, <2>2, HeadTailProperties
    <3>2. <<x>> \in Seq(S) /\ Len(<<x>>) = 1 /\ <<x>>[1] = x
      BY <3>1
    <3> DEFINE h == <<x>>
    <3> HIDE DEF f, x, h
    <3>3. /\ h \o f \in Seq(S) /\ Len(h \o f) = Len(h) + Len(f)
          /\ \A i \in 1..Len(h) + Len(f) :
               (h \o f)[i] = IF i <= Len(h) THEN h[i] ELSE f[i - Len(h)]
      <4>1. h \in Seq(S) /\ f \in Seq(S)
        BY <3>1, <3>2 DEF h
      <4>2. QED
        BY <4>1, ConcatProperties, Zenon
    <3>4. Len(h) = 1 /\ h[1] = x
      BY <3>2 DEF h
    <3>5. Len(h \o f) = n + 1 /\ \A i \in 1..n + 1 : (h \o f)[i] = s[i]
      <4>1. Len(h) + Len(f) = n + 1
        BY <3>1, <3>4
      <4>2. ASSUME NEW i \in 1..n + 1 PROVE (h \o f)[i] = s[i]
        <5>1. CASE i = 1
          BY <3>1, <3>3, <3>4, <4>1, <5>1
        <5>2. CASE i # 1
          <6>1. i - 1 \in 1..n /\ (i - 1) + 1 = i /\ ~(i <= 1)
            BY <5>2
          <6>2. QED
            BY <3>1, <3>3, <3>4, <4>1, <6>1
        <5>3. QED
          BY <5>1, <5>2
      <4>3. QED
        BY <3>3, <4>1, <4>2
    <3>6. h \o f = s
      BY <2>1, <3>3, <3>5, SeqEqual
    <3>7. QED
      BY <3>1, <3>6 DEF f, x, h
  <2>4. QED
    BY <1>2, <2>3
<1> HIDE DEF Q
<1>3. Nat \subseteq Q
  BY <1>1, <1>2, Induction
<1>4. \A s \in Seq(S) : Len(s) \in Nat
  BY LenProperties
<1>5. QED
  BY <1>3, <1>4 DEF Q

\* f starts with a and goes on by step[i].
Recursive(f, V, n, a, step) ==
  /\ f \in [0..n -> V]
  /\ f[0] = a
  /\ \A i \in 1..n : f[i] = step[i][f[i - 1]]

Steps(V, n, step) == \A i \in 1..n : \A v \in V : step[i][v] \in V

\* A function defined by recursion along 1..n exists.
LEMMA Recursion ==
  ASSUME NEW V, NEW n \in Nat, NEW a \in V, NEW step,
         Steps(V, n, step)
  PROVE  \E f : Recursive(f, V, n, a, step)
<1> DEFINE Upto(k, f) == f[0] = a /\ \A i \in 1..n : i <= k => f[i] = step[i][f[i - 1]]
           T == {k \in Nat : k <= n => \E f \in [0..n -> V] : Upto(k, f)}
<1>1. 0 \in T
  <2>1. /\ [i \in 0..n |-> a] \in [0..n -> V]
        /\ Upto(0, [i \in 0..n |-> a])
    OBVIOUS
  <2>2. QED
    BY <2>1
<1>2. ASSUME NEW k \in Nat, k \in T PROVE k + 1 \in T
  <2>1. SUFFICES ASSUME k + 1 <= n PROVE \E f \in [0..n -> V] : Upto(k + 1, f)
    OBVIOUS
  <2>2. PICK f \in [0..n -> V] : Upto(k, f)
    BY <1>2, <2>1
  <2> DEFINE g == [i \in 0..n |-> IF i = k + 1 THEN step[k + 1][f[k]] ELSE f[i]]
  <2>3. step[k + 1][f[k]] \in V
    BY <2>1 DEF Steps
  <2>4. g \in [0..n -> V]
    BY <2>3
  <2>5. g[0] = a
    BY <2>2
  <2>6. ASSUME NEW i \in 1..n, i <= k + 1
        PROVE  g[i] = step[i][g[i - 1]]
    <3>1. g[i - 1] = f[i - 1]
      BY <2>6
    <3>2. CASE i = k + 1
      BY <3>1, <3>2
    <3>3. CASE i # k + 1
      BY <2>2, <2>6, <3>1, <3>3
    <3>4. QED
      BY <3>2, <3>3
  <2>7. Upto(k + 1, g)
    BY <2>5, <2>6
  <2>8. QED
    BY <2>4, <2>7
<1>3. n \in T
  <2> HIDE DEF T
  <2>1. QED
    BY <1>1, <1>2, Induction
<1>4. QED
  BY <1>3 DEF Recursive

\* f has the partial concatenations of ss.
Partial(f, ss, S) ==
  /\ f \in [0..Len(ss) -> Seq(S)]
  /\ f[0] = << >>
  /\ \A i \in 1..Len(ss) : f[i] = f[i - 1] \o ss[i]

\* The partial concatenations are such a function.
LEMMA PartialExists ==
  ASSUME NEW S, NEW ss \in Seq(Seq(S))
  PROVE  \E f : Partial(f, ss, S)
<1> DEFINE n == Len(ss)
           step == [i \in 1..n |-> [v \in Seq(S) |-> v \o ss[i]]]
<1>1. n \in Nat /\ \A i \in 1..n : ss[i] \in Seq(S)
  BY LenProperties, ElementOfSeq
<1>2. Steps(Seq(S), n, step)
  BY <1>1, ConcatProperties DEF Steps
<1>3. << >> \in Seq(S)
  BY EmptySeq
<1>4. PICK f \in [0..n -> Seq(S)] :
        f[0] = << >> /\ \A i \in 1..n : f[i] = step[i][f[i - 1]]
  <2> HIDE DEF step, n
  <2>1. \E f : Recursive(f, Seq(S), n, << >>, step)
    BY <1>1, <1>2, <1>3, Recursion
  <2>2. QED
    BY <2>1 DEF Recursive
<1>5. ASSUME NEW i \in 1..n PROVE f[i] = f[i - 1] \o ss[i]
  <2>1. i - 1 \in 0..n
    BY <1>1
  <2>2. f[i - 1] \in Seq(S)
    BY <2>1
  <2>3. f[i] = step[i][f[i - 1]]
    BY <1>4, Zenon
  <2>4. step[i][f[i - 1]] = f[i - 1] \o ss[i]
    BY <2>2, Zenon
  <2>5. QED
    BY <2>3, <2>4, Zenon
<1>6. QED
  BY <1>4, <1>5 DEF Partial

\* FlattenSeq, which chooses a function that meets its recursive equation, has
\* no other to choose than the partial concatenations.
LEMMA FlattenIsPartial ==
  ASSUME NEW S, NEW ss \in Seq(Seq(S)), NEW f, Partial(f, ss, S)
  PROVE  FlattenSeq(ss) = f[Len(ss)]
<1>1. CASE Len(ss) = 0
  <2>1. ss = << >>
    BY <1>1, EmptySeq
  <2>2. QED
    BY <1>1, <2>1 DEF FlattenSeq, Partial
<1>2. CASE Len(ss) # 0
  <2> DEFINE n == Len(ss)
             Eqn(h) == h = [i \in 1..n |-> IF i = 1 THEN ss[i] ELSE h[i - 1] \o ss[i]]
             g  == CHOOSE h : Eqn(h)
             fr == [i \in 1..n |-> f[i]]
  <2>1. n \in Nat /\ n >= 1 /\ ss[1] \in Seq(S)
    BY <1>2, LenProperties, ElementOfSeq
  <2>2. f[1] = ss[1]
    <3>1. f[1] = f[1 - 1] \o ss[1] /\ f[0] = << >>
      <4>1. 1 \in 1..n
        BY <2>1
      <4>2. QED
        BY <4>1, Zenon DEF Partial
    <3>2. QED
      <4>1. 1 - 1 = 0
        OBVIOUS
      <4>2. << >> \o ss[1] = ss[1]
        BY <2>1, ConcatEmptySeq, Zenon
      <4>3. QED
        BY <3>1, <4>1, <4>2, Zenon
  <2>3. ASSUME NEW i \in 1..n
        PROVE fr[i] = IF i = 1 THEN ss[i] ELSE fr[i - 1] \o ss[i]
    <3>1. CASE i = 1
      BY <2>2, <3>1
    <3>2. CASE i # 1
      <4>1. i - 1 \in 1..n
        BY <2>1, <3>2
      <4>2. f[i] = f[i - 1] \o ss[i]
        BY Zenon DEF Partial
      <4>3. QED
        BY <3>2, <4>1, <4>2, Zenon
    <3>3. QED
      BY <3>1, <3>2
  <2>4. Eqn(fr)
    BY <2>3
  <2>5. Eqn(g)
    <3> HIDE DEF fr, Eqn
    <3>1. QED BY <2>4, Zenon
  <2> DEFINE T == {k \in Nat : k + 1 \in 1..n => g[k + 1] = fr[k + 1]}
  <2> HIDE DEF g
  <2>6. \A i \in 1..n : g[i] = IF i = 1 THEN ss[i] ELSE g[i - 1] \o ss[i]
    BY <2>5
  <2>7. 0 \in T
    BY <2>1, <2>2, <2>6
  <2>8. ASSUME NEW k \in Nat, k \in T PROVE k + 1 \in T
    <3>1. SUFFICES ASSUME k + 2 <= n PROVE g[k + 2] = fr[k + 2]
      BY <2>1
    <3>2. g[k + 2] = g[k + 1] \o ss[k + 2] /\ fr[k + 2] = fr[k + 1] \o ss[k + 2]
      <4> HIDE DEF fr
      <4>1. k + 2 \in 1..n /\ k + 2 # 1 /\ (k + 2) - 1 = k + 1
        BY <2>1, <3>1
      <4>2. QED
        BY <2>3, <2>6, <4>1, Zenon
    <3>3. g[k + 1] = fr[k + 1]
      BY <2>8, <3>1
    <3>4. QED
      BY <3>2, <3>3
  <2>9. n - 1 \in T
    <3> HIDE DEF T
    <3>1. QED BY <2>1, <2>7, <2>8, Induction
  <2>10. g[n] = f[n]
    BY <2>1, <2>9
  <2>11. FlattenSeq(ss) = g[n]
    BY <1>2 DEF FlattenSeq, g
  <2>12. QED
    BY <2>10, <2>11
<1>3. QED
  BY <1>1, <1>2

\* Flattening no pieces gives no data.
LEMMA FlattenEmpty == FlattenSeq(<< >>) = << >>
BY DEF FlattenSeq

\* Flattening pieces over S gives a sequence over S.
LEMMA FlattenType ==
  ASSUME NEW S, NEW ss \in Seq(Seq(S))
  PROVE  FlattenSeq(ss) \in Seq(S)
<1>1. PICK f : Partial(f, ss, S)
  BY PartialExists
<1>2. Len(ss) \in 0..Len(ss)
  BY LenProperties
<1>3. QED
  <2>1. FlattenSeq(ss) = f[Len(ss)]
    BY <1>1, FlattenIsPartial
  <2>2. f \in [0..Len(ss) -> Seq(S)]
    BY <1>1, Zenon DEF Partial
  <2>3. QED
    BY <1>2, <2>1, <2>2

\* The last piece ends up last.
LEMMA FlattenAppend ==
  ASSUME NEW S, NEW ss \in Seq(Seq(S)), NEW v \in Seq(S)
  PROVE  FlattenSeq(Append(ss, v)) = FlattenSeq(ss) \o v
<1> DEFINE tt == Append(ss, v)
           n  == Len(ss)
<1>1. /\ tt \in Seq(Seq(S)) /\ n \in Nat /\ Len(tt) = n + 1
      /\ \A i \in 1..n : tt[i] = ss[i]
      /\ tt[n + 1] = v
  BY AppendProperties, LenProperties
<1> HIDE DEF tt
<1>2. PICK f : Partial(f, tt, S)
  BY <1>1, PartialExists
<1> DEFINE g == [i \in 0..n |-> f[i]]
<1>3. Partial(g, ss, S)
  <2>1. f \in [0..n + 1 -> Seq(S)] /\ f[0] = << >>
        /\ \A i \in 1..n + 1 : f[i] = f[i - 1] \o tt[i]
    BY <1>1, <1>2, Zenon DEF Partial
  <2>2. g \in [0..n -> Seq(S)] /\ g[0] = << >>
    BY <1>1, <2>1
  <2>3. ASSUME NEW i \in 1..n PROVE g[i] = g[i - 1] \o ss[i]
    <3>1. i \in 1..n + 1 /\ i - 1 \in 0..n /\ i \in 0..n
      BY <1>1
    <3>2. g[i] = f[i] /\ g[i - 1] = f[i - 1]
      BY <3>1
    <3>3. QED
      BY <1>1, <2>1, <3>1, <3>2, Zenon
  <2>4. QED
    BY <2>2, <2>3 DEF Partial
<1>4. FlattenSeq(ss) = f[n]
  <2>1. FlattenSeq(ss) = g[n]
    BY <1>3, FlattenIsPartial
  <2>2. QED
    BY <1>1, <2>1
<1>5. FlattenSeq(tt) = f[n + 1]
  BY <1>1, <1>2, FlattenIsPartial
<1>6. f[n + 1] = f[n] \o v
  <2>1. n + 1 \in 1..Len(tt) /\ (n + 1) - 1 = n
    BY <1>1
  <2>2. f[n + 1] = f[(n + 1) - 1] \o tt[n + 1]
    BY <1>2, <2>1, Zenon DEF Partial
  <2>3. QED
    BY <1>1, <2>1, <2>2, Zenon
<1>7. QED
  BY <1>4, <1>5, <1>6 DEF tt

\* The first piece ends up first.
LEMMA FlattenPrepend ==
  ASSUME NEW S, NEW ss \in Seq(Seq(S)), NEW v \in Seq(S)
  PROVE  FlattenSeq(<<v>> \o ss) = v \o FlattenSeq(ss)
<1> DEFINE tt == <<v>> \o ss
           n  == Len(ss)
<1>1. /\ tt \in Seq(Seq(S)) /\ n \in Nat /\ Len(tt) = n + 1
      /\ \A i \in 1..n : tt[i + 1] = ss[i]
      /\ tt[1] = v
  <2>1. <<v>> \in Seq(Seq(S)) /\ Len(<<v>>) = 1 /\ n \in Nat
    BY LenProperties
  <2>2. /\ tt \in Seq(Seq(S)) /\ Len(tt) = 1 + n
        /\ \A i \in 1..1 + n : tt[i] = IF i <= 1 THEN <<v>>[i] ELSE ss[i - 1]
    BY <2>1, ConcatProperties
  <2> HIDE DEF tt
  <2>3. QED
    BY <2>1, <2>2
<1> HIDE DEF tt
<1>2. PICK f : Partial(f, ss, S)
  BY PartialExists
<1>3. f \in [0..n -> Seq(S)] /\ f[0] = << >>
      /\ \A i \in 1..n : f[i] = f[i - 1] \o ss[i]
  BY <1>2, Zenon DEF Partial
<1> DEFINE g == [i \in 0..n + 1 |-> IF i = 0 THEN << >> ELSE v \o f[i - 1]]
<1>4. Partial(g, tt, S)
  <2>1. \A i \in 0..n : f[i] \in Seq(S)
    BY <1>3
  <2>2. \A i \in 0..n : v \o f[i] \in Seq(S)
    BY <2>1, ConcatProperties
  <2>3. g \in [0..n + 1 -> Seq(S)] /\ g[0] = << >>
    BY <1>1, <2>2, EmptySeq
  <2>4. ASSUME NEW i \in 1..n + 1 PROVE g[i] = g[i - 1] \o tt[i]
    <3>1. CASE i = 1
      <4>1. g[1] = v \o f[0] /\ g[0] = << >>
        BY <1>1
      <4>2. g[1] = v /\ << >> \o v = v
        BY <1>3, <4>1, ConcatEmptySeq, Zenon
      <4>3. i - 1 = 0
        BY <3>1
      <4>4. QED
        BY <1>1, <3>1, <4>1, <4>2, <4>3, Zenon
    <3>2. CASE i # 1
      <4> DEFINE j == i - 1
      <4>1. j \in 1..n /\ j - 1 \in 0..n /\ j \in 0..n /\ j + 1 = i /\ i \in 0..n + 1
            /\ j \in 0..n + 1 /\ j # 0 /\ i # 0
        BY <1>1, <3>2
      <4>2. g[i] = v \o f[j] /\ g[j] = v \o f[j - 1] /\ tt[i] = ss[j]
        BY <1>1, <4>1
      <4>3. f[j] = f[j - 1] \o ss[j]
        BY <1>3, <4>1
      <4>4. ss[j] \in Seq(S) /\ f[j - 1] \in Seq(S)
        BY <2>1, <4>1, ElementOfSeq
      <4>5. (v \o f[j - 1]) \o ss[j] = v \o (f[j - 1] \o ss[j])
        <5> DEFINE a == f[j - 1]
                   b == ss[j]
        <5>1. a \in Seq(S) /\ b \in Seq(S)
          BY <4>4
        <5> HIDE DEF a, b
        <5>2. (v \o a) \o b = v \o (a \o b)
          BY <5>1, ConcatAssociative
        <5>3. QED
          BY <5>2 DEF a, b
      <4>6. QED
        BY <4>2, <4>3, <4>5, Zenon
    <3>3. QED
      BY <3>1, <3>2
  <2>5. QED
    <3> HIDE DEF g
    <3>1. QED
      BY <1>1, <2>3, <2>4, Zenon DEF Partial
<1>5. FlattenSeq(ss) = f[n]
  BY <1>2, FlattenIsPartial
<1>6. FlattenSeq(tt) = g[n + 1]
  <2> HIDE DEF g
  <2>1. QED
    BY <1>1, <1>4, FlattenIsPartial
<1>7. g[n + 1] = v \o f[n]
  BY <1>1
<1>8. QED
  BY <1>5, <1>6, <1>7, Zenon DEF tt

\* The last element comes first in the reverse.
LEMMA ReverseAppend ==
  ASSUME NEW S, NEW s \in Seq(S), NEW v \in S
  PROVE  /\ Reverse(s) \in Seq(S)
         /\ Reverse(Append(s, v)) = <<v>> \o Reverse(s)
<1> DEFINE n == Len(s)
<1>1. n \in Nat /\ \A i \in 1..n : s[i] \in S
  BY LenProperties, ElementOfSeq
<1>2. /\ Append(s, v) \in Seq(S) /\ Len(Append(s, v)) = n + 1
      /\ \A i \in 1..n : Append(s, v)[i] = s[i]
      /\ Append(s, v)[n + 1] = v
  BY AppendProperties
<1>3. Reverse(s) \in Seq(S) /\ Len(Reverse(s)) = n /\ \A i \in 1..n : Reverse(s)[i] = s[n - i + 1]
  <2>1. Reverse(s) = [i \in 1..n |-> s[n - i + 1]]
    BY DEF Reverse
  <2>2. \A i \in 1..n : n - i + 1 \in 1..n
    BY <1>1
  <2>3. Reverse(s) \in [1..n -> S]
    BY <1>1, <2>1, <2>2
  <2>4. QED
    BY <1>1, <2>1, <2>3
<1> DEFINE t == Append(s, v)
           r == Reverse(t)
           c == <<v>> \o Reverse(s)
<1>4. r \in Seq(S) /\ Len(r) = n + 1 /\ \A i \in 1..n + 1 : r[i] = t[n + 2 - i]
  <2> HIDE DEF t
  <2>1. t \in Seq(S) /\ Len(t) = n + 1 /\ \A i \in 1..n + 1 : t[i] \in S
    BY <1>2, ElementOfSeq DEF t
  <2>2. r = [i \in 1..n + 1 |-> t[(n + 1) - i + 1]]
    BY <2>1, Zenon DEF Reverse
  <2>3. \A i \in 1..n + 1 : (n + 1) - i + 1 \in 1..n + 1 /\ (n + 1) - i + 1 = n + 2 - i
    BY <1>1
  <2>4. r \in [1..n + 1 -> S]
    BY <2>1, <2>2, <2>3
  <2>5. ASSUME NEW i \in 1..n + 1 PROVE r[i] = t[n + 2 - i]
    BY <2>2, <2>3
  <2> DEFINE m == n + 1
  <2>6. m \in Nat /\ r \in [1..m -> S]
    BY <1>1, <2>4
  <2> HIDE DEF m, r
  <2>7. r \in Seq(S) /\ Len(r) = m
    BY <2>6
  <2>8. QED
    BY <2>5, <2>7 DEF m
<1>5. c \in Seq(S) /\ Len(c) = n + 1
      /\ \A i \in 1..n + 1 : c[i] = IF i <= 1 THEN v ELSE s[n - (i - 1) + 1]
  <2> DEFINE q == Reverse(s)
  <2> HIDE DEF q
  <2>1. <<v>> \in Seq(S) /\ Len(<<v>>) = 1 /\ <<v>>[1] = v
    OBVIOUS
  <2>2. q \in Seq(S) /\ Len(q) = n /\ \A i \in 1..n : q[i] = s[n - i + 1]
    BY <1>3 DEF q
  <2>3. /\ <<v>> \o q \in Seq(S) /\ Len(<<v>> \o q) = 1 + n
        /\ \A i \in 1..1 + n : (<<v>> \o q)[i] = IF i <= 1 THEN <<v>>[i] ELSE q[i - 1]
    BY <2>1, <2>2, ConcatProperties
  <2>4. ASSUME NEW i \in 1..n + 1
        PROVE  (<<v>> \o q)[i] = IF i <= 1 THEN v ELSE s[n - (i - 1) + 1]
    BY <1>1, <2>1, <2>2, <2>3
  <2>5. QED
    BY <1>1, <2>3, <2>4 DEF q
<1>6. ASSUME NEW i \in 1..n + 1 PROVE r[i] = c[i]
  <2> HIDE DEF r, c, t
  <2>1. CASE i = 1
    <3>1. n + 2 - i = n + 1
      BY <2>1, <1>1
    <3>2. QED
      BY <1>2, <1>4, <1>5, <2>1, <3>1 DEF t
  <2>2. CASE i # 1
    <3>1. n + 2 - i \in 1..n /\ n + 2 - i = n - (i - 1) + 1 /\ ~(i <= 1)
      BY <2>2, <1>1
    <3>2. QED
      BY <1>2, <1>4, <1>5, <2>2, <3>1 DEF t
  <2>3. QED
    BY <2>1, <2>2
<1>7. r = c
  <2> HIDE DEF r, c
  <2>1. QED
    BY <1>4, <1>5, <1>6, SeqEqual
<1>8. QED
  BY <1>3, <1>7

\* Pieces laid from the end: the latest piece lies in front of the earlier
\* ones.
LEMMA FromEndAppend ==
  ASSUME NEW S, NEW ss \in Seq(Seq(S)), NEW v \in Seq(S)
  PROVE  /\ FlattenSeq(Reverse(ss)) \in Seq(S)
         /\ FlattenSeq(Reverse(Append(ss, v))) = v \o FlattenSeq(Reverse(ss))
<1>1. Reverse(ss) \in Seq(Seq(S)) /\ Reverse(Append(ss, v)) = <<v>> \o Reverse(ss)
  BY ReverseAppend, Zenon
<1>2. QED
  BY <1>1, FlattenPrepend, FlattenType, Zenon


\* Two chains of pieces laid from the end.
LEMMA ReversePrepend ==
  ASSUME NEW S, NEW s \in Seq(S), s # << >>
  PROVE  /\ Tail(s) \in Seq(S) /\ Head(s) \in S
         /\ Reverse(s) = Append(Reverse(Tail(s)), Head(s))
<1> DEFINE n == Len(s)
           t == Tail(s)
<1>1. /\ t \in Seq(S) /\ Head(s) \in S /\ n \in Nat /\ n >= 1 /\ Len(t) = n - 1
      /\ \A i \in 1..n - 1 : t[i] = s[i + 1]
      /\ \A i \in 1..n : s[i] \in S
      /\ Head(s) = s[1]
  BY HeadTailProperties, LenProperties, ElementOfSeq, EmptySeq
<1> HIDE DEF t
<1>2. /\ Reverse(s) = [i \in 1..n |-> s[n - i + 1]]
      /\ Reverse(t) = [i \in 1..n - 1 |-> t[n - 1 - i + 1]]
  BY <1>1, Zenon DEF Reverse
<1>3. \A i \in 1..n : n - i + 1 \in 1..n
  BY <1>1
<1>4. Reverse(s) \in [1..n -> S]
  BY <1>1, <1>2, <1>3
<1>5. Reverse(s) \in Seq(S) /\ Len(Reverse(s)) = n
  BY <1>1, <1>4
<1> DEFINE m == n - 1
<1>6. \A i \in 1..m : m - i + 1 \in 1..m
  BY <1>1
<1>7. m \in Nat /\ Reverse(t) \in [1..m -> S]
  BY <1>1, <1>2, <1>6, ElementOfSeq
<1>8. Reverse(t) \in Seq(S) /\ Len(Reverse(t)) = m
  <2> HIDE DEF m
  <2>1. QED BY <1>7
<1> DEFINE c == Append(Reverse(t), Head(s))
<1>9. /\ c \in Seq(S) /\ Len(c) = m + 1
      /\ \A i \in 1..m : c[i] = Reverse(t)[i]
      /\ c[m + 1] = s[1]
  <2> HIDE DEF m
  <2>1. QED BY <1>1, <1>8, AppendProperties
<1>10. ASSUME NEW i \in 1..n PROVE Reverse(s)[i] = c[i]
  <2> HIDE DEF c
  <2>1. CASE i = n
    BY <1>1, <1>2, <1>9, <2>1
  <2>2. CASE i # n
    <3>1. i \in 1..m /\ m - i + 1 \in 1..n - 1 /\ (m - i + 1) + 1 = n - i + 1
      BY <1>1, <2>2
    <3>2. c[i] = Reverse(t)[i] /\ Reverse(t)[i] = t[m - i + 1] /\ Reverse(s)[i] = s[n - i + 1]
      BY <1>2, <1>9, <3>1
    <3>3. t[m - i + 1] = s[n - i + 1]
      BY <1>1, <3>1
    <3>4. QED
      BY <3>2, <3>3
  <2>3. QED
    BY <2>1, <2>2
<1>11. Reverse(s) = c
  <2> HIDE DEF c
  <2>1. Len(c) = n
    BY <1>1, <1>9
  <2>2. QED
    BY <1>5, <1>9, <1>10, <2>1, SeqEqual
<1>12. QED
  BY <1>1, <1>11 DEF t

\* Pieces laid from the end: the earliest piece is the last of the data.
LEMMA FromEndPrepend ==
  ASSUME NEW S, NEW ss \in Seq(Seq(S)), ss # << >>
  PROVE  /\ Tail(ss) \in Seq(Seq(S)) /\ Head(ss) \in Seq(S)
         /\ FlattenSeq(Reverse(Tail(ss))) \in Seq(S)
         /\ FlattenSeq(Reverse(ss)) = FlattenSeq(Reverse(Tail(ss))) \o Head(ss)
<1>1. /\ Tail(ss) \in Seq(Seq(S)) /\ Head(ss) \in Seq(S)
      /\ Reverse(ss) = Append(Reverse(Tail(ss)), Head(ss))
  BY ReversePrepend, Zenon
<1>2. Reverse(Tail(ss)) \in Seq(Seq(S))
  BY <1>1, ReverseAppend, Zenon
<1>3. QED
  BY <1>1, <1>2, FlattenAppend, FlattenType, Zenon

\* The reverse of nothing.
LEMMA ReverseEmpty == Reverse(<< >>) = << >>
BY DEF Reverse

\* The order of the pieces does not matter for the length of the whole.
LEMMA FromEndLen ==
  ASSUME NEW S, NEW ss \in Seq(Seq(S))
  PROVE  Len(FlattenSeq(Reverse(ss))) = Len(FlattenSeq(ss))
<1> DEFINE T == {k \in Nat : \A s \in Seq(Seq(S)) :
                   Len(s) = k => Len(FlattenSeq(Reverse(s))) = Len(FlattenSeq(s))}
<1>1. 0 \in T
  <2>1. ASSUME NEW s \in Seq(Seq(S)), Len(s) = 0
        PROVE  Len(FlattenSeq(Reverse(s))) = Len(FlattenSeq(s))
    <3>1. s = << >>
      BY <2>1, EmptySeq
    <3>2. QED
      BY <3>1, ReverseEmpty, Zenon
  <2>2. QED
    BY <2>1
<1>2. ASSUME NEW k \in Nat, k \in T PROVE k + 1 \in T
  <2>1. ASSUME NEW s \in Seq(Seq(S)), Len(s) = k + 1
        PROVE  Len(FlattenSeq(Reverse(s))) = Len(FlattenSeq(s))
    <3>1. s # << >>
      BY <1>2, <2>1, EmptySeq
    <3>2. PICK t \in Seq(Seq(S)), e \in Seq(S) : s = Append(t, e)
      BY <3>1, SequenceEmptyOrAppend, Zenon
    <3>3. Len(t) = k
      BY <1>2, <2>1, <3>2, AppendProperties, LenProperties
    <3>4. Len(FlattenSeq(Reverse(t))) = Len(FlattenSeq(t))
      BY <1>2, <3>3
    <3>5. /\ FlattenSeq(s) = FlattenSeq(t) \o e
          /\ FlattenSeq(Reverse(s)) = e \o FlattenSeq(Reverse(t))
          /\ FlattenSeq(t) \in Seq(S) /\ FlattenSeq(Reverse(t)) \in Seq(S)
      BY <3>2, FlattenAppend, FromEndAppend, FlattenType, Zenon
    <3> DEFINE a == FlattenSeq(t)
               b == FlattenSeq(Reverse(t))
    <3> HIDE DEF a, b
    <3>6. a \in Seq(S) /\ b \in Seq(S) /\ Len(a) = Len(b)
      BY <3>4, <3>5 DEF a, b
    <3>7. Len(a \o e) = Len(a) + Len(e) /\ Len(e \o b) = Len(e) + Len(b)
      BY <3>2, <3>6, ConcatProperties, Zenon
    <3>8. Len(a) \in Nat /\ Len(e) \in Nat
      BY <3>2, <3>6, LenProperties, Zenon
    <3>9. Len(a \o e) = Len(e \o b)
      BY <3>6, <3>7, <3>8, SMT
    <3>10. QED
      BY <3>5, <3>9, Zenon DEF a, b
  <2>2. QED
    BY <1>2, <2>1
<1>3. Len(ss) \in T
  <2> HIDE DEF T
  <2>1. Len(ss) \in Nat
    BY LenProperties
  <2>2. QED
    BY <1>1, <1>2, <2>1, Induction
<1>4. QED
  BY <1>3

\* Concatenation is associative, in a form that is instantiated by its name.
Associates(s, t, u) == (s \o t) \o u = s \o (t \o u)

\* Associates holds of any three sequences.
LEMMA Association ==
  ASSUME NEW S, NEW s \in Seq(S), NEW t \in Seq(S), NEW u \in Seq(S)
  PROVE  Associates(s, t, u)
BY ConcatAssociative DEF Associates

\* A sequence cut in two is the concatenation of the pieces.
LEMMA CutSeq ==
  ASSUME NEW S, NEW s \in Seq(S), NEW n \in 0..Len(s)
  PROVE  LET a == SubSeq(s, 1, n)
             b == SubSeq(s, n + 1, Len(s))
         IN /\ a \in Seq(S) /\ b \in Seq(S)
            /\ Len(a) = n /\ Len(b) = Len(s) - n
            /\ a \o b = s
<1> DEFINE a == SubSeq(s, 1, n)
           b == SubSeq(s, n + 1, Len(s))
           m == Len(s)
<1>1. m \in Nat /\ n \in Nat /\ n <= m
  BY LenProperties
<1>2. \A i \in 1..m : s[i] \in S
  BY ElementOfSeq
<1>3. /\ a \in Seq(S) /\ Len(a) = n
      /\ \A i \in 1..n : a[i] = s[i]
  <2>1. \A i \in 1..n : s[i] \in S
    BY <1>1, <1>2
  <2>2. QED
    BY <1>1, <2>1, SubSeqProperties
<1>4. /\ b \in Seq(S) /\ Len(b) = m - n
      /\ \A i \in 1..m - n : b[i] = s[n + i]
  <2>1. \A i \in n + 1..m : s[i] \in S
    BY <1>1, <1>2
  <2>2. QED
    BY <1>1, <2>1, SubSeqProperties
<1> HIDE DEF a, b, m
<1>5. /\ a \o b \in Seq(S) /\ Len(a \o b) = m
      /\ \A i \in 1..m : (a \o b)[i] = IF i <= n THEN a[i] ELSE b[i - n]
  <2>1. /\ a \o b \in Seq(S) /\ Len(a \o b) = Len(a) + Len(b)
        /\ \A i \in 1..Len(a) + Len(b) :
             (a \o b)[i] = IF i <= Len(a) THEN a[i] ELSE b[i - Len(a)]
    BY <1>3, <1>4, ConcatProperties, Zenon
  <2>2. Len(a) = n /\ Len(a) + Len(b) = m
    BY <1>1, <1>3, <1>4
  <2>3. QED
    BY <2>1, <2>2
<1>6. ASSUME NEW i \in 1..m PROVE (a \o b)[i] = s[i]
  <2>1. CASE i <= n
    BY <1>1, <1>3, <1>5, <2>1
  <2>2. CASE ~(i <= n)
    <3>1. i - n \in 1..m - n /\ n + (i - n) = i
      BY <1>1, <2>2
    <3>2. QED
      BY <1>4, <1>5, <2>2, <3>1
  <2>3. QED
    BY <2>1, <2>2
<1>7. a \o b = s
  BY <1>5, <1>6, SeqEqual DEF m
<1>8. QED
  BY <1>3, <1>4, <1>7 DEF a, b, m

\* Ends of equal length of equal sequences are equal, and so is what is before.
LEMMA SplitEnd ==
  ASSUME NEW S, NEW a \in Seq(S), NEW b \in Seq(S), NEW v \in Seq(S), NEW w \in Seq(S),
         a \o v = b \o w, Len(v) = Len(w)
  PROVE  a = b /\ v = w
<1>1. /\ Len(a) \in Nat /\ Len(b) \in Nat /\ Len(v) \in Nat /\ Len(w) \in Nat
      /\ Len(a \o v) = Len(a) + Len(v) /\ Len(b \o w) = Len(b) + Len(w)
      /\ \A i \in 1..Len(a) + Len(v) :
           (a \o v)[i] = IF i <= Len(a) THEN a[i] ELSE v[i - Len(a)]
      /\ \A i \in 1..Len(b) + Len(w) :
           (b \o w)[i] = IF i <= Len(b) THEN b[i] ELSE w[i - Len(b)]
  BY ConcatProperties, LenProperties
<1> DEFINE c == a \o v
<1>2. /\ Len(c) = Len(a) + Len(v) /\ Len(c) = Len(b) + Len(v)
      /\ \A i \in 1..Len(a) + Len(v) : c[i] = IF i <= Len(a) THEN a[i] ELSE v[i - Len(a)]
      /\ \A i \in 1..Len(b) + Len(v) : c[i] = IF i <= Len(b) THEN b[i] ELSE w[i - Len(b)]
  BY <1>1
<1> HIDE DEF c
<1>3. Len(a) = Len(b)
  BY <1>1, <1>2
<1>4. ASSUME NEW i \in 1..Len(a) PROVE a[i] = b[i]
  <2>1. i \in 1..Len(a) + Len(v) /\ i <= Len(a)
    BY <1>1
  <2>2. QED
    BY <1>2, <1>3, <2>1
<1>5. ASSUME NEW i \in 1..Len(v) PROVE v[i] = w[i]
  <2>1. Len(a) + i \in 1..Len(a) + Len(v) /\ ~(Len(a) + i <= Len(a))
        /\ (Len(a) + i) - Len(a) = i
    BY <1>1
  <2>2. QED
    BY <1>2, <1>3, <2>1
<1>6. a = b
  BY <1>3, <1>4, SeqEqual
<1>7. v = w
  BY <1>5, SeqEqual
<1>8. QED
  BY <1>6, <1>7

Splits(c, a, v, d, b, w) ==
  c \o (a \o v) = d \o (b \o w) /\ Len(v) = Len(w) => c \o a = d \o b /\ v = w

\* Ends of equal length of two concatenations of three are equal.
LEMMA SplitEnds ==
  ASSUME NEW S, NEW a \in Seq(S), NEW b \in Seq(S), NEW v \in Seq(S), NEW w \in Seq(S),
         NEW c \in Seq(S), NEW d \in Seq(S)
  PROVE  Splits(c, a, v, d, b, w)
<1>1. c \o a \in Seq(S) /\ d \o b \in Seq(S)
  BY ConcatProperties, Zenon
<1>2. (c \o a) \o v = c \o (a \o v)
  BY ConcatAssociative
<1>3. (d \o b) \o w = d \o (b \o w)
  BY ConcatAssociative
<1> DEFINE e == c \o a
           f == d \o b
<1>4. e \in Seq(S) /\ f \in Seq(S)
  BY <1>1
<1> HIDE DEF e, f
<1>5. e \o v = f \o w /\ Len(v) = Len(w) => e = f /\ v = w
  BY <1>4, SplitEnd, Zenon
<1>6. QED
  BY <1>2, <1>3, <1>5 DEF e, f, Splits

Peels(c, x, d, y, S) ==
  c \o FlattenSeq(Reverse(x)) = d \o FlattenSeq(Reverse(y))
  => /\ Tail(x) \in Seq(Seq(S)) /\ Tail(y) \in Seq(Seq(S))
     /\ Head(x) = Head(y)
     /\ c \o FlattenSeq(Reverse(Tail(x))) = d \o FlattenSeq(Reverse(Tail(y)))

\* The first pieces of two chains laid from the end are the last data of both:
\* if they are equally long they are equal and can be taken away.
LEMMA PeelEnds ==
  ASSUME NEW S, NEW x \in Seq(Seq(S)), NEW y \in Seq(Seq(S)),
         NEW c \in Seq(S), NEW d \in Seq(S), x # << >>, y # << >>,
         Len(Head(x)) = Len(Head(y))
  PROVE  Peels(c, x, d, y, S)
<1> DEFINE f == FlattenSeq(Reverse(Tail(x)))
           g == FlattenSeq(Reverse(Tail(y)))
           v == Head(x)
           w == Head(y)
<1>1. /\ Tail(x) \in Seq(Seq(S)) /\ Tail(y) \in Seq(Seq(S))
      /\ f \in Seq(S) /\ g \in Seq(S) /\ v \in Seq(S) /\ w \in Seq(S)
      /\ FlattenSeq(Reverse(x)) = f \o v
      /\ FlattenSeq(Reverse(y)) = g \o w
  BY FromEndPrepend, Zenon
<1>2. Len(v) = Len(w)
  OBVIOUS
<1> HIDE DEF f, g, v, w
<1>3. Splits(c, f, v, d, g, w)
  BY <1>1, SplitEnds, Zenon
<1>4. c \o (f \o v) = d \o (g \o w) => c \o f = d \o g /\ v = w
  BY <1>2, <1>3 DEF Splits
<1>5. QED
  BY <1>1, <1>4, Zenon DEF f, g, v, w, Peels

\* Of two chains of pieces laid from the end, the first k of which have the same
\* lengths, the k-th pieces are the same if the wholes are.
SameAt(k, S) ==
  \A x, y \in Seq(Seq(S)) : \A c, d \in Seq(S) :
    /\ k >= 1 /\ k <= Len(x) /\ k <= Len(y)
    /\ \A j \in 1..k : Len(x[j]) = Len(y[j])
    /\ c \o FlattenSeq(Reverse(x)) = d \o FlattenSeq(Reverse(y))
    => x[k] = y[k]

\* SameAt for every k, by induction: the first pieces are peeled off both
\* chains.
LEMMA SamePieces ==
  ASSUME NEW S, NEW k \in Nat
  PROVE  SameAt(k, S)
<1> DEFINE T == {n \in Nat : SameAt(n, S)}
<1>1. 0 \in T
  BY DEF SameAt
<1>2. ASSUME NEW n \in Nat, SameAt(n, S) PROVE SameAt(n + 1, S)
  <2>1. SUFFICES ASSUME NEW x \in Seq(Seq(S)), NEW y \in Seq(Seq(S)),
                        NEW c \in Seq(S), NEW d \in Seq(S),
                        n + 1 <= Len(x), n + 1 <= Len(y),
                        \A j \in 1..n + 1 : Len(x[j]) = Len(y[j]),
                        c \o FlattenSeq(Reverse(x)) = d \o FlattenSeq(Reverse(y))
                 PROVE  x[n + 1] = y[n + 1]
    BY Zenon DEF SameAt
  <2>2. x # << >> /\ y # << >> /\ Len(x) \in Nat /\ Len(y) \in Nat
    BY <2>1, EmptySeq, LenProperties
  <2>3. /\ Head(x) = x[1] /\ Head(y) = y[1]
        /\ Len(Tail(x)) = Len(x) - 1 /\ Len(Tail(y)) = Len(y) - 1
        /\ \A i \in 1..Len(x) - 1 : Tail(x)[i] = x[i + 1]
        /\ \A i \in 1..Len(y) - 1 : Tail(y)[i] = y[i + 1]
    BY <2>2, HeadTailProperties
  <2>4. 1 \in 1..n + 1 /\ n + 1 <= Len(x) /\ n + 1 <= Len(y)
    BY <1>2, <2>1
  <2>5. Len(Head(x)) = Len(Head(y))
    BY <2>1, <2>3, <2>4, Zenon
  <2>6. /\ Tail(x) \in Seq(Seq(S)) /\ Tail(y) \in Seq(Seq(S))
        /\ Head(x) = Head(y)
        /\ c \o FlattenSeq(Reverse(Tail(x))) = d \o FlattenSeq(Reverse(Tail(y)))
    <3>1. c \o FlattenSeq(Reverse(x)) = d \o FlattenSeq(Reverse(y))
      BY <2>1
    <3>2. x # << >> /\ y # << >>
      BY <2>2
    <3>3. Peels(c, x, d, y, S)
      BY <2>5, <3>2, PeelEnds, Zenon
    <3>4. QED
      BY <3>1, <3>3, Zenon DEF Peels
  <2> DEFINE t == Tail(x)
             u == Tail(y)
             lx == Len(x)
             ly == Len(y)
  <2>7. /\ Head(x) = x[1] /\ Head(y) = y[1]
        /\ Len(t) = lx - 1 /\ Len(u) = ly - 1
        /\ \A i \in 1..lx - 1 : t[i] = x[i + 1]
        /\ \A i \in 1..ly - 1 : u[i] = y[i + 1]
    BY <2>3
  <2>8. lx \in Nat /\ ly \in Nat /\ n + 1 <= lx /\ n + 1 <= ly
    BY <2>2, <2>4
  <2>9. /\ t \in Seq(Seq(S)) /\ u \in Seq(Seq(S))
        /\ c \o FlattenSeq(Reverse(t)) = d \o FlattenSeq(Reverse(u))
    BY <2>6
  <2> HIDE DEF t, u, lx, ly
  <2>10. CASE n = 0
    BY <2>6, <2>7, <2>10
  <2>11. CASE n # 0
    <3>1. n >= 1 /\ n <= Len(t) /\ n <= Len(u)
      BY <2>7, <2>8, <2>11
    <3>2. ASSUME NEW j \in 1..n PROVE Len(t[j]) = Len(u[j])
      <4>1. j \in 1..lx - 1 /\ j \in 1..ly - 1 /\ j + 1 \in 1..n + 1
        BY <2>8
      <4>2. QED
        BY <2>1, <2>7, <4>1, Zenon
    <3>3. t[n] = u[n]
      BY <1>2, <2>9, <3>1, <3>2, Zenon DEF SameAt
    <3>4. n \in 1..lx - 1 /\ n \in 1..ly - 1
      BY <2>8, <2>11
    <3>5. QED
      BY <2>7, <3>3, <3>4, Zenon
  <2>12. QED
    BY <2>10, <2>11
<1>3. k \in T
  <2>1. \A n \in Nat : n \in T => n + 1 \in T
    BY <1>2
  <2> HIDE DEF T
  <2>2. QED
    BY <1>1, <2>1, Induction
<1>4. QED
  BY <1>3

-----------------------------------------------------------------------------

(* Concatenation, element by element.                                      *)

\* What is in a concatenation, in a form that is instantiated by its name.
Joined(a, b, S) ==
  /\ a \o b \in Seq(S) /\ Len(a \o b) = Len(a) + Len(b)
  /\ \A i \in 1..Len(a) : (a \o b)[i] = a[i]
  /\ \A i \in 1..Len(b) : (a \o b)[Len(a) + i] = b[i]

\* Joined holds of any two sequences.
LEMMA Join ==
  ASSUME NEW S, NEW a \in Seq(S), NEW b \in Seq(S)
  PROVE  Joined(a, b, S)
<1>1. /\ a \o b \in Seq(S) /\ Len(a \o b) = Len(a) + Len(b)
      /\ \A i \in 1..Len(a) + Len(b) :
           (a \o b)[i] = IF i <= Len(a) THEN a[i] ELSE b[i - Len(a)]
  BY ConcatProperties, Zenon
<1>2. Len(a) \in Nat /\ Len(b) \in Nat
  BY LenProperties
<1> DEFINE c == a \o b
           m == Len(a)
           n == Len(b)
<1>3. \A i \in 1..m + n : c[i] = IF i <= m THEN a[i] ELSE b[i - m]
  BY <1>1
<1>4. m \in Nat /\ n \in Nat
  BY <1>2
<1> HIDE DEF c, m, n
<1>5. /\ \A i \in 1..m : c[i] = a[i]
      /\ \A i \in 1..n : m + i \in 1..m + n /\ ~(m + i <= m) /\ (m + i) - m = i
  BY <1>3, <1>4
<1>6. \A i \in 1..n : c[m + i] = b[i]
  BY <1>3, <1>5
<1>7. QED
  BY <1>1, <1>5, <1>6 DEF Joined, c, m, n

\* Fronts of equal length of equal sequences are equal, and so is what follows.
SplitsFront(a, v, b, w) == a \o v = b \o w /\ Len(a) = Len(b) => a = b /\ v = w

\* SplitsFront holds of any four sequences.
LEMMA SplitFront ==
  ASSUME NEW S, NEW a \in Seq(S), NEW b \in Seq(S), NEW v \in Seq(S), NEW w \in Seq(S)
  PROVE  SplitsFront(a, v, b, w)
<1> SUFFICES ASSUME a \o v = b \o w, Len(a) = Len(b)
             PROVE  a = b /\ v = w
  BY DEF SplitsFront
<1>1. Joined(a, v, S) /\ Joined(b, w, S)
  BY Join
<1>2. Len(a) \in Nat /\ Len(b) \in Nat /\ Len(v) \in Nat /\ Len(w) \in Nat
  BY LenProperties
<1>3. Len(v) = Len(w)
  BY <1>1, <1>2 DEF Joined
<1>4. QED
  BY <1>3, SplitEnd

\* A sequence is a prefix of another if something makes it the other.
LEMMA PrefixIs ==
  ASSUME NEW S, NEW a \in Seq(S), NEW b \in Seq(S)
  PROVE  IsPrefix(a, b) <=> \E c \in Seq(S) : b = a \o c
<1>1. Len(a) \in Nat /\ Len(b) \in Nat
  BY LenProperties
<1>2. ASSUME NEW s \in Seq(S)
      PROVE  SubSeq(s, 1, Len(s)) = s
  <2>1. \A i \in 1..Len(s) : s[i] \in S
    BY ElementOfSeq
  <2>2. Len(s) \in Nat
    BY LenProperties
  <2> DEFINE m == Len(s)
  <2>3. /\ SubSeq(s, 1, m) \in Seq(S) /\ Len(SubSeq(s, 1, m)) = IF 1 <= m THEN m - 1 + 1 ELSE 0
        /\ \A i \in 1..m - 1 + 1 : SubSeq(s, 1, m)[i] = s[1 + i - 1]
    BY <2>1, <2>2, SubSeqProperties
  <2>4. m \in Nat
    BY <2>2
  <2> HIDE DEF m
  <2>5. (IF 1 <= m THEN m - 1 + 1 ELSE 0) = m /\ \A i \in 1..m : i \in 1..m - 1 + 1 /\ 1 + i - 1 = i
    BY <2>4
  <2>6. Len(SubSeq(s, 1, m)) = m /\ \A i \in 1..m : SubSeq(s, 1, m)[i] = s[i]
    BY <2>3, <2>5
  <2>7. QED
    BY <2>3, <2>6, SeqEqual DEF m
<1>3. ASSUME IsPrefix(a, b)
      PROVE  \E c \in Seq(S) : b = a \o c
  <2> DEFINE n == Len(a)
  <2>1. n \in 0..Len(b)
    BY <1>1, <1>3 DEF IsPrefix
  <2>2. SubSeq(b, 1, n) = a
    BY <1>2, <1>3 DEF IsPrefix
  <2> HIDE DEF n
  <2>3. /\ SubSeq(b, n + 1, Len(b)) \in Seq(S)
        /\ SubSeq(b, 1, n) \o SubSeq(b, n + 1, Len(b)) = b
    BY <2>1, CutSeq
  <2>4. QED
    BY <2>2, <2>3
<1>4. ASSUME NEW c \in Seq(S), b = a \o c
      PROVE  IsPrefix(a, b)
  <2>1. Joined(a, c, S) /\ Len(c) \in Nat
    BY Join, LenProperties
  <2>2. Len(b) = Len(a) + Len(c)
    BY <1>4, <2>1 DEF Joined
  <2> DEFINE n == Len(a)
  <2>3. n \in 0..Len(b) /\ n <= Len(b)
    BY <1>1, <2>1, <2>2
  <2> HIDE DEF n
  <2>4. /\ SubSeq(b, 1, n) \in Seq(S) /\ SubSeq(b, n + 1, Len(b)) \in Seq(S)
        /\ Len(SubSeq(b, 1, n)) = n
        /\ SubSeq(b, 1, n) \o SubSeq(b, n + 1, Len(b)) = b
    BY <2>3, CutSeq
  <2> DEFINE d == SubSeq(b, 1, n)
             e == SubSeq(b, n + 1, Len(b))
  <2>5. d \in Seq(S) /\ e \in Seq(S) /\ d \o e = a \o c /\ Len(d) = Len(a)
    BY <1>4, <2>4 DEF n
  <2> HIDE DEF d, e
  <2>6. SplitsFront(d, e, a, c)
    BY <2>5, SplitFront
  <2>7. d = a
    BY <2>5, <2>6 DEF SplitsFront
  <2>8. QED
    BY <1>2, <2>3, <2>7 DEF IsPrefix, d, n
<1>5. QED
  BY <1>3, <1>4

\* One element in front.
LEMMA Single ==
  ASSUME NEW S, NEW x \in S
  PROVE  <<x>> \in Seq(S) /\ Len(<<x>>) = 1 /\ <<x>>[1] = x
OBVIOUS

\* Two elements.
LEMMA Double ==
  ASSUME NEW S, NEW x \in S, NEW y \in S
  PROVE  /\ <<x, y>> \in Seq(S) /\ Len(<<x, y>>) = 2
         /\ <<x, y>>[1] = x /\ <<x, y>>[2] = y
OBVIOUS

\* A sequence that is not empty is its first element and the rest.
LEMMA HeadAndTail ==
  ASSUME NEW S, NEW s \in Seq(S), s # << >>
  PROVE  Head(s) \in S /\ Tail(s) \in Seq(S) /\ s = <<Head(s)>> \o Tail(s)
<1> DEFINE x == Head(s)
           t == Tail(s)
           h == <<x>>
           m == Len(s)
<1>1. /\ x \in S /\ x = s[1] /\ t \in Seq(S) /\ Len(t) = m - 1 /\ m \in Nat
      /\ \A i \in 1..m - 1 : t[i] = s[i + 1]
  BY HeadTailProperties, LenProperties
<1>2. h \in Seq(S) /\ Len(h) = 1 /\ h[1] = x
  BY <1>1, Single
<1>3. m # 0
  BY EmptySeq
<1> HIDE DEF x, t, h
<1>4. Joined(h, t, S)
  BY <1>1, <1>2, Join
<1> DEFINE c == h \o t
<1>5. c \in Seq(S) /\ Len(c) = m /\ c[1] = x /\ \A i \in 1..m - 1 : c[1 + i] = t[i]
  BY <1>1, <1>2, <1>4 DEF Joined
<1> HIDE DEF c, m
<1>6. ASSUME NEW i \in 1..m PROVE c[i] = s[i]
  <2>1. CASE i = 1
    BY <1>1, <1>5, <2>1
  <2>2. CASE i # 1
    <3>1. i - 1 \in 1..m - 1 /\ 1 + (i - 1) = i /\ (i - 1) + 1 = i
      BY <1>1, <2>2
    <3>2. QED
      BY <1>1, <1>5, <3>1
  <2>3. QED
    BY <2>1, <2>2
<1>7. c = s
  BY <1>5, <1>6, SeqEqual DEF m
<1>8. QED
  BY <1>1, <1>7 DEF x, t, h, c

\* Equal concatenations begin with the same element.
FirstAgrees(a, v, b, w) ==
  a \o v = b \o w /\ Len(a) >= 1 /\ Len(b) >= 1 => a[1] = b[1]

\* FirstAgrees holds of any four sequences.
LEMMA FirstOf ==
  ASSUME NEW S, NEW a \in Seq(S), NEW v \in Seq(S), NEW b \in Seq(S), NEW w \in Seq(S)
  PROVE  FirstAgrees(a, v, b, w)
<1> SUFFICES ASSUME a \o v = b \o w, Len(a) >= 1, Len(b) >= 1
             PROVE  a[1] = b[1]
  BY DEF FirstAgrees
<1>1. Len(a) \in Nat /\ Len(b) \in Nat
  BY LenProperties
<1>2. 1 \in 1..Len(a) /\ 1 \in 1..Len(b)
  BY <1>1
<1>3. Joined(a, v, S) /\ Joined(b, w, S)
  BY Join
<1>4. (a \o v)[1] = a[1] /\ (b \o w)[1] = b[1]
  BY <1>2, <1>3, Zenon DEF Joined
<1>5. QED
  BY <1>4, Zenon

\* The elements of the pieces of a sequence cut in two.
LEMMA CutElements ==
  ASSUME NEW S, NEW s \in Seq(S), NEW n \in 0..Len(s)
  PROVE  /\ SubSeq(s, 1, n) \in Seq(S) /\ Len(SubSeq(s, 1, n)) = n
         /\ \A i \in 1..n : SubSeq(s, 1, n)[i] = s[i]
         /\ SubSeq(s, n + 1, Len(s)) \in Seq(S) /\ Len(SubSeq(s, n + 1, Len(s))) = Len(s) - n
         /\ \A i \in 1..Len(s) - n : SubSeq(s, n + 1, Len(s))[i] = s[n + i]
<1> DEFINE m == Len(s)
<1>1. m \in Nat /\ n \in Nat /\ n <= m /\ \A i \in 1..m : s[i] \in S
  BY LenProperties, ElementOfSeq
<1> HIDE DEF m
<1>2. \A i \in 1..n : s[i] \in S
  BY <1>1
<1>3. \A i \in n + 1..m : s[i] \in S
  BY <1>1
<1>4. /\ SubSeq(s, 1, n) \in Seq(S) /\ Len(SubSeq(s, 1, n)) = n
      /\ \A i \in 1..n : SubSeq(s, 1, n)[i] = s[i]
  BY <1>1, <1>2, SubSeqProperties
<1>5. /\ SubSeq(s, n + 1, m) \in Seq(S) /\ Len(SubSeq(s, n + 1, m)) = m - n
      /\ \A i \in 1..m - n : SubSeq(s, n + 1, m)[i] = s[n + i]
  BY <1>1, <1>3, SubSeqProperties
<1>6. QED
  BY <1>4, <1>5 DEF m

\* What is left when more is taken from what is left.
LEMMA DropTwice ==
  ASSUME NEW S, NEW s \in Seq(S), NEW m \in Nat, NEW n \in Nat, m + n <= Len(s)
  PROVE  LET t == SubSeq(s, m + 1, Len(s))
         IN SubSeq(t, n + 1, Len(t)) = SubSeq(s, (m + n) + 1, Len(s))
<1> DEFINE l == Len(s)
           t == SubSeq(s, m + 1, Len(s))
           a == SubSeq(t, n + 1, Len(t))
           b == SubSeq(s, (m + n) + 1, Len(s))
<1>1. l \in Nat /\ m \in 0..l /\ m + n \in 0..l
  BY LenProperties
<1>2. t \in Seq(S) /\ Len(t) = l - m /\ \A i \in 1..l - m : t[i] = s[m + i]
  BY <1>1, CutElements
<1>3. b \in Seq(S) /\ Len(b) = l - (m + n) /\ \A i \in 1..l - (m + n) : b[i] = s[(m + n) + i]
  BY <1>1, CutElements
<1> HIDE DEF t
<1>4. n \in 0..Len(t)
  BY <1>1, <1>2
<1>5. a \in Seq(S) /\ Len(a) = Len(t) - n /\ \A i \in 1..Len(t) - n : a[i] = t[n + i]
  BY <1>2, <1>4, CutElements
<1> HIDE DEF a, b, l
<1>6. Len(a) = Len(b)
  BY <1>1, <1>2, <1>3, <1>5
<1>7. ASSUME NEW i \in 1..Len(b) PROVE a[i] = b[i]
  <2>1. /\ i \in 1..l - (m + n) /\ i \in 1..Len(t) - n /\ n + i \in 1..l - m
        /\ m + (n + i) = (m + n) + i
    BY <1>1, <1>2, <1>3
  <2>2. a[i] = t[n + i] /\ t[n + i] = s[m + (n + i)] /\ b[i] = s[(m + n) + i]
    BY <1>2, <1>3, <1>5, <2>1
  <2>3. QED
    BY <2>1, <2>2
<1>8. a = b
  BY <1>3, <1>5, <1>6, <1>7, SeqEqual
<1>9. QED
  BY <1>8 DEF a, b, t

\* Two sequences neither of which begins with the other part at some element.
Parts(a, b, S) ==
  \E c \in Seq(S), s \in Seq(S), t \in Seq(S) :
    a = c \o s /\ b = c \o t /\ s # << >> /\ t # << >> /\ s[1] # t[1]

\* Parts holds of any two such sequences.
LEMMA Parting ==
  ASSUME NEW S, NEW a \in Seq(S), NEW b \in Seq(S), ~IsPrefix(a, b), ~IsPrefix(b, a)
  PROVE  Parts(a, b, S)
<1> DEFINE m == Len(a)
           n == Len(b)
           I == {i \in 1..m : i <= n /\ a[i] # b[i]}
<1>1. m \in Nat /\ n \in Nat
  BY LenProperties
<1>2. I # {}
  <2>1. SUFFICES ASSUME I = {} PROVE FALSE
    OBVIOUS
  <2>2. ASSUME NEW s \in Seq(S), NEW t \in Seq(S), Len(s) <= Len(t), ~IsPrefix(s, t)
        PROVE  \E i \in 1..Len(s) : s[i] # t[i]
    <3> DEFINE l == Len(s)
               f == SubSeq(s, 1, l)
               g == SubSeq(t, 1, l)
    <3>1. l \in 0..Len(s) /\ l \in 0..Len(t)
      BY <2>2, LenProperties
    <3>2. /\ f \in Seq(S) /\ Len(f) = l /\ \A i \in 1..l : f[i] = s[i]
          /\ g \in Seq(S) /\ Len(g) = l /\ \A i \in 1..l : g[i] = t[i]
      BY <3>1, CutElements
    <3>3. f # g
      BY <2>2 DEF IsPrefix
    <3> HIDE DEF f, g
    <3>4. \E i \in 1..l : f[i] # g[i]
      BY <3>2, <3>3, SeqEqual
    <3>5. QED
      BY <3>2, <3>4
  <2>3. CASE m <= n
    <3>1. \E i \in 1..m : a[i] # b[i]
      BY <2>2, <2>3
    <3>2. QED
      BY <1>1, <2>1, <2>3, <3>1
  <2>4. CASE n <= m
    <3>1. \E i \in 1..n : b[i] # a[i]
      BY <2>2, <2>4
    <3>2. QED
      BY <1>1, <2>1, <2>4, <3>1
  <2>5. QED
    BY <1>1, <2>3, <2>4
<1>3. PICK i \in I : \A j \in I : i <= j
  <2>1. I \in SUBSET Nat
    OBVIOUS
  <2> HIDE DEF I
  <2>2. QED
    BY <1>2, <2>1, LeastOf
<1>4. i \in 1..m /\ i \in 1..n /\ a[i] # b[i] /\ i - 1 \in 0..m /\ i - 1 \in 0..n
  BY <1>1
<1>5. \A j \in 1..i - 1 : a[j] = b[j]
  <2>1. SUFFICES ASSUME NEW j \in 1..i - 1, a[j] # b[j] PROVE FALSE
    OBVIOUS
  <2>2. j \in I
    BY <1>1, <1>4, <2>1
  <2>3. i <= j
    BY <1>3, <2>2
  <2>4. QED
    BY <1>4, <2>3
<1> DEFINE k == i - 1
           c == SubSeq(a, 1, k)
           d == SubSeq(b, 1, k)
           s == SubSeq(a, k + 1, m)
           t == SubSeq(b, k + 1, n)
<1>6. /\ c \in Seq(S) /\ Len(c) = k /\ \A j \in 1..k : c[j] = a[j]
      /\ s \in Seq(S) /\ Len(s) = m - k /\ \A j \in 1..m - k : s[j] = a[k + j]
  BY <1>4, CutElements
<1>7. /\ d \in Seq(S) /\ Len(d) = k /\ \A j \in 1..k : d[j] = b[j]
      /\ t \in Seq(S) /\ Len(t) = n - k /\ \A j \in 1..n - k : t[j] = b[k + j]
  BY <1>4, CutElements
<1>8. c \o s = a /\ d \o t = b
  BY <1>4, CutSeq
<1>9. k + 1 = i /\ 1 \in 1..m - k /\ 1 \in 1..n - k
  BY <1>1, <1>4
<1> HIDE DEF c, d, s, t, k
<1>10. c = d
  <2>1. \A j \in 1..k : c[j] = d[j]
    BY <1>5, <1>6, <1>7 DEF k
  <2>2. QED
    BY <1>6, <1>7, <2>1, SeqEqual
<1>11. s[1] = a[i] /\ t[1] = b[i]
  BY <1>6, <1>7, <1>9
<1>12. s # << >> /\ t # << >>
  <2>1. Len(s) # 0 /\ Len(t) # 0
    BY <1>1, <1>4, <1>6, <1>7, <1>9
  <2>2. QED
    BY <2>1, EmptySeq
<1>13. QED
  BY <1>4, <1>6, <1>7, <1>8, <1>10, <1>11, <1>12 DEF Parts

\* The front of a sequence grows by the next element.
LEMMA GrowFront ==
  ASSUME NEW S, NEW s \in Seq(S), NEW i \in Nat, i < Len(s)
  PROVE  /\ s[i + 1] \in S /\ SubSeq(s, 1, i) \in Seq(S)
         /\ SubSeq(s, 1, i + 1) = Append(SubSeq(s, 1, i), s[i + 1])
<1> DEFINE f == SubSeq(s, 1, i)
           g == SubSeq(s, 1, i + 1)
           x == s[i + 1]
           h == Append(f, x)
<1>1. i \in 0..Len(s) /\ i + 1 \in 0..Len(s) /\ i + 1 \in 1..Len(s)
  BY LenProperties
<1>2. f \in Seq(S) /\ Len(f) = i /\ \A j \in 1..i : f[j] = s[j]
  BY <1>1, CutElements
<1>3. g \in Seq(S) /\ Len(g) = i + 1 /\ \A j \in 1..i + 1 : g[j] = s[j]
  BY <1>1, CutElements
<1>4. x \in S
  BY <1>1, ElementOfSeq
<1> HIDE DEF f, g
<1>5. /\ h \in Seq(S) /\ Len(h) = i + 1 /\ \A j \in 1..i : h[j] = f[j]
      /\ h[i + 1] = x
  BY <1>2, <1>4, AppendProperties
<1> HIDE DEF h
<1>6. \A j \in 1..i + 1 : j \in 1..i \/ j = i + 1
  OBVIOUS
<1>7. \A j \in 1..i + 1 : g[j] = h[j]
  BY <1>2, <1>3, <1>5, <1>6
<1>8. g = h
  BY <1>3, <1>5, <1>7, SeqEqual
<1>9. QED
  BY <1>2, <1>4, <1>8 DEF f, g, h

\* A sequence is its front up to its length.
LEMMA WholeFront ==
  ASSUME NEW S, NEW s \in Seq(S)
  PROVE  SubSeq(s, 1, Len(s)) = s
<1> DEFINE m == Len(s)
           g == SubSeq(s, 1, m)
<1>1. m \in 0..Len(s)
  BY LenProperties
<1>2. g \in Seq(S) /\ Len(g) = m /\ \A j \in 1..m : g[j] = s[j]
  BY <1>1, CutElements
<1> HIDE DEF g
<1>3. g = s
  BY <1>2, SeqEqual
<1>4. QED
  BY <1>3 DEF g

-----------------------------------------------------------------------------

(* The pieces of a flattened sequence before and after one of them.        *)

\* The elements of a reversed sequence.
LEMMA ReverseElements ==
  ASSUME NEW S, NEW s \in Seq(S)
  PROVE  /\ Reverse(s) \in Seq(S) /\ Len(Reverse(s)) = Len(s)
         /\ \A j \in 1..Len(s) : /\ Reverse(s)[j] = s[(Len(s) - j) + 1]
                                 /\ (Len(s) - j) + 1 \in 1..Len(s)
         /\ Reverse(Reverse(s)) = s
<1> DEFINE n == Len(s)
           r == [j \in 1..n |-> s[(n - j) + 1]]
           q == [j \in 1..n |-> r[(n - j) + 1]]
<1>1. n \in Nat /\ \A j \in 1..n : s[j] \in S
  BY LenProperties, ElementOfSeq
<1>2. Reverse(s) = r
  BY DEF Reverse
<1> HIDE DEF n
<1>3. \A j \in 1..n : (n - j) + 1 \in 1..n /\ (n - ((n - j) + 1)) + 1 = j
  BY <1>1
<1>4. r \in Seq(S) /\ Len(r) = n /\ \A j \in 1..n : r[j] = s[(n - j) + 1]
  BY <1>1, <1>3
<1> HIDE DEF r
<1>5. Reverse(r) = q
  BY <1>4 DEF Reverse
<1>6. q \in Seq(S) /\ Len(q) = n /\ \A j \in 1..n : q[j] = r[(n - j) + 1]
  BY <1>1, <1>3, <1>4
<1> HIDE DEF q
<1>7. \A j \in 1..n : q[j] = s[j]
  <2>1. ASSUME NEW j \in 1..n PROVE q[j] = s[j]
    <3>1. q[j] = r[(n - j) + 1] /\ (n - j) + 1 \in 1..n
      BY <1>3, <1>6
    <3>2. r[(n - j) + 1] = s[(n - ((n - j) + 1)) + 1]
      BY <1>4, <3>1
    <3>3. QED
      BY <1>3, <3>1, <3>2
  <2>2. QED
    BY <2>1
<1>8. q = s
  BY <1>6, <1>7, SeqEqual DEF n
<1>9. QED
  BY <1>2, <1>3, <1>4, <1>5, <1>8 DEF n

\* Flattening, taken apart.
Flattens(ss, tt) == FlattenSeq(ss \o tt) = FlattenSeq(ss) \o FlattenSeq(tt)
FlattensFromEnd(ss, tt) ==
  FlattenSeq(Reverse(ss \o tt)) = FlattenSeq(Reverse(tt)) \o FlattenSeq(Reverse(ss))

\* Appending and concatenating are associative.
LEMMA ConcatAppend ==
  ASSUME NEW S, NEW s \in Seq(S), NEW t \in Seq(S), NEW x \in S
  PROVE  s \o Append(t, x) = Append(s \o t, x)
<1> DEFINE a == s \o Append(t, x)
           b == Append(s \o t, x)
           m == Len(s)
           n == Len(t)
<1>1. m \in Nat /\ n \in Nat
  BY LenProperties
<1>2. /\ Append(t, x) \in Seq(S) /\ Len(Append(t, x)) = n + 1
      /\ \A i \in 1..n : Append(t, x)[i] = t[i]
      /\ Append(t, x)[n + 1] = x
  BY AppendProperties, LenProperties
<1>3. Joined(s, t, S)
  BY Join
<1>4. Joined(s, Append(t, x), S)
  BY <1>2, Join
<1>5. /\ b \in Seq(S) /\ Len(b) = (m + n) + 1
      /\ \A i \in 1..m + n : b[i] = (s \o t)[i]
      /\ b[(m + n) + 1] = x
  BY <1>3, AppendProperties DEF Joined
<1>6. a \in Seq(S) /\ Len(a) = m + (n + 1)
  BY <1>2, <1>4 DEF Joined
<1>7. ASSUME NEW i \in 1..m + (n + 1) PROVE a[i] = b[i]
  <2>1. CASE i \in 1..m
    BY <1>1, <1>3, <1>4, <1>5, <2>1 DEF Joined
  <2>2. CASE i - m \in 1..n
    <3>1. m + (i - m) = i /\ i \in 1..m + n /\ i - m \in 1..n + 1
      BY <1>1, <2>2
    <3>2. a[i] = Append(t, x)[i - m]
      BY <1>2, <1>4, <2>2, <3>1 DEF Joined
    <3>3. b[i] = t[i - m]
      BY <1>3, <1>5, <2>2, <3>1 DEF Joined
    <3>4. QED
      BY <1>2, <2>2, <3>2, <3>3
  <2>3. CASE i = m + (n + 1)
    <3>1. n + 1 \in 1..n + 1 /\ i = (m + n) + 1
      BY <1>1, <2>3
    <3>2. a[m + (n + 1)] = Append(t, x)[n + 1]
      BY <1>2, <1>4, <3>1 DEF Joined
    <3>3. QED
      BY <1>2, <1>5, <2>3, <3>1, <3>2
  <2>4. QED
    BY <1>1, <2>1, <2>2, <2>3
<1>8. Len(a) = Len(b)
  BY <1>1, <1>5, <1>6
<1>9. QED
  BY <1>5, <1>6, <1>7, <1>8, SeqEqual

\* Both hold of all pieces, by induction over those that come later.
LEMMA FlattenConcat ==
  ASSUME NEW S, NEW ss \in Seq(Seq(S)), NEW tt \in Seq(Seq(S))
  PROVE  Flattens(ss, tt) /\ FlattensFromEnd(ss, tt)
<1> DEFINE T == {uu \in Seq(Seq(S)) : Flattens(ss, uu) /\ FlattensFromEnd(ss, uu)}
<1>1. << >> \in T
  <2>1. ss \o << >> = ss /\ << >> \in Seq(Seq(S))
    BY ConcatEmptySeq, EmptySeq
  <2>2. FlattenSeq(ss) \in Seq(S) /\ FlattenSeq(Reverse(ss)) \in Seq(S)
    BY FlattenType, ReverseElements
  <2>3. /\ FlattenSeq(ss) \o << >> = FlattenSeq(ss)
        /\ << >> \o FlattenSeq(Reverse(ss)) = FlattenSeq(Reverse(ss))
    BY <2>2, ConcatEmptySeq
  <2>4. Flattens(ss, << >>) /\ FlattensFromEnd(ss, << >>)
    BY <2>1, <2>3, FlattenEmpty, ReverseEmpty DEF Flattens, FlattensFromEnd
  <2>5. QED
    BY <2>1, <2>4
<1>2. ASSUME NEW uu \in Seq(Seq(S)), NEW v \in Seq(S), uu \in T
      PROVE  Append(uu, v) \in T
  <2>1. /\ Append(uu, v) \in Seq(Seq(S)) /\ ss \o uu \in Seq(Seq(S))
        /\ ss \o Append(uu, v) = Append(ss \o uu, v)
    BY ConcatAppend, AppendProperties, ConcatProperties
  <2>2. /\ FlattenSeq(Append(ss \o uu, v)) = FlattenSeq(ss \o uu) \o v
        /\ FlattenSeq(Append(uu, v)) = FlattenSeq(uu) \o v
    BY <2>1, FlattenAppend
  <2>3. /\ FlattenSeq(Reverse(Append(ss \o uu, v))) = v \o FlattenSeq(Reverse(ss \o uu))
        /\ FlattenSeq(Reverse(Append(uu, v))) = v \o FlattenSeq(Reverse(uu))
        /\ FlattenSeq(Reverse(uu)) \in Seq(S)
    BY <2>1, FromEndAppend
  <2>4. /\ FlattenSeq(ss) \in Seq(S) /\ FlattenSeq(uu) \in Seq(S)
        /\ FlattenSeq(Reverse(ss)) \in Seq(S)
    BY FlattenType, ReverseElements
  <2>5. Flattens(ss, uu) /\ FlattensFromEnd(ss, uu)
    BY <1>2
  <2>6. Associates(FlattenSeq(ss), FlattenSeq(uu), v)
    BY <2>4, Association
  <2>7. Associates(v, FlattenSeq(Reverse(uu)), FlattenSeq(Reverse(ss)))
    BY <2>3, <2>4, Association
  <2>8. Flattens(ss, Append(uu, v))
    BY <2>1, <2>2, <2>5, <2>6 DEF Flattens, Associates
  <2>9. FlattensFromEnd(ss, Append(uu, v))
    BY <2>1, <2>3, <2>5, <2>7 DEF FlattensFromEnd, Associates
  <2>10. QED
    BY <2>1, <2>8, <2>9
<1>3. Seq(Seq(S)) \subseteq T
  <2> HIDE DEF T
  <2>1. QED
    BY <1>1, <1>2, AppendInduction
<1>4. QED
  BY <1>3

\* What is around the i-th piece.
Around(ss, i, S) ==
  /\ FlattenSeq(SubSeq(ss, 1, i - 1)) \in Seq(S)
  /\ \E z \in Seq(S) : FlattenSeq(ss) = FlattenSeq(SubSeq(ss, 1, i - 1)) \o (ss[i] \o z)
AroundFromEnd(ss, i, S) ==
  /\ FlattenSeq(Reverse(SubSeq(ss, 1, i - 1))) \in Seq(S)
  /\ \E z \in Seq(S) :
       FlattenSeq(Reverse(ss)) = z \o (ss[i] \o FlattenSeq(Reverse(SubSeq(ss, 1, i - 1))))

\* Every piece is between those before it and those after it.
LEMMA FlattenAround ==
  ASSUME NEW S, NEW ss \in Seq(Seq(S)), NEW i \in 1..Len(ss)
  PROVE  Around(ss, i, S) /\ AroundFromEnd(ss, i, S)
<1> DEFINE a == SubSeq(ss, 1, i - 1)
           b == SubSeq(ss, 1, i)
           c == SubSeq(ss, i + 1, Len(ss))
           x == ss[i]
<1>1. i \in 0..Len(ss) /\ i - 1 \in Nat /\ i - 1 < Len(ss) /\ (i - 1) + 1 = i
  BY LenProperties
<1>2. b \in Seq(Seq(S)) /\ c \in Seq(Seq(S)) /\ b \o c = ss
  BY <1>1, CutSeq
<1>3. x \in Seq(S) /\ a \in Seq(Seq(S)) /\ b = Append(a, x)
  BY <1>1, GrowFront
<1> HIDE DEF a, b, c, x
<1>4. Flattens(b, c) /\ FlattensFromEnd(b, c)
  BY <1>2, FlattenConcat
<1> DEFINE fa == FlattenSeq(a)
           fc == FlattenSeq(c)
           ra == FlattenSeq(Reverse(a))
           rc == FlattenSeq(Reverse(c))
<1>5. fa \in Seq(S) /\ fc \in Seq(S)
  BY <1>2, <1>3, FlattenType
<1>6. ra \in Seq(S) /\ rc \in Seq(S)
  BY <1>2, <1>3, FromEndAppend
<1>7. FlattenSeq(b) = fa \o x
  BY <1>3, FlattenAppend
<1>8. FlattenSeq(Reverse(b)) = x \o ra
  BY <1>3, FromEndAppend
<1>9. FlattenSeq(ss) = (fa \o x) \o fc
  BY <1>2, <1>4, <1>7, Zenon DEF Flattens
<1>10. FlattenSeq(Reverse(ss)) = rc \o (x \o ra)
  BY <1>2, <1>4, <1>8, Zenon DEF FlattensFromEnd
<1>11. Associates(fa, x, fc)
  BY <1>3, <1>5, Association
<1>12. fa \in Seq(S) /\ \E z \in Seq(S) : FlattenSeq(ss) = fa \o (x \o z)
  BY <1>5, <1>9, <1>11, Zenon DEF Associates
<1>13. ra \in Seq(S) /\ \E z \in Seq(S) : FlattenSeq(Reverse(ss)) = z \o (x \o ra)
  BY <1>6, <1>10, Zenon
<1>14. Around(ss, i, S)
  BY <1>12, Zenon DEF Around, a, x
<1>15. AroundFromEnd(ss, i, S)
  BY <1>13, Zenon DEF AroundFromEnd, a, x
<1>16. QED
  BY <1>14, <1>15

\* The elements of a piece of a sequence.
LEMMA PieceElements ==
  ASSUME NEW S, NEW s \in Seq(S), NEW m \in Nat, NEW n \in Nat, m + n <= Len(s)
  PROVE  /\ SubSeq(s, m + 1, m + n) \in Seq(S) /\ Len(SubSeq(s, m + 1, m + n)) = n
         /\ \A i \in 1..n : SubSeq(s, m + 1, m + n)[i] = s[m + i]
<1> DEFINE p == m + 1
           q == m + n
           t == SubSeq(s, p, q)
<1>1. p \in Int /\ q \in Int /\ \A i \in p..q : i \in 1..Len(s)
  BY LenProperties
<1>2. \A i \in p..q : s[i] \in S
  BY <1>1, ElementOfSeq
<1> HIDE DEF p, q
<1>3. /\ t \in Seq(S) /\ Len(t) = IF p <= q THEN q - p + 1 ELSE 0
      /\ \A i \in 1..q - p + 1 : t[i] = s[p + i - 1]
  BY <1>1, <1>2, SubSeqProperties
<1> HIDE DEF t
<1>4. q - p + 1 = n /\ (p <= q <=> n >= 1) /\ \A i \in 1..n : p + i - 1 = m + i
  BY DEF p, q
<1>5. Len(t) = n /\ \A i \in 1..n : t[i] = s[m + i]
  BY <1>3, <1>4
<1>6. QED
  BY <1>3, <1>5 DEF p, q, t

\* The middle of three pieces, by its place.
LEMMA MiddleOf ==
  ASSUME NEW S, NEW a \in Seq(S), NEW b \in Seq(S), NEW c \in Seq(S)
  PROVE  /\ SubSeq(a \o (b \o c), Len(a) + 1, Len(a) + Len(b)) = b
         /\ Len(a) + Len(b) <= Len(a \o (b \o c))
         /\ a \o (b \o c) \in Seq(S)
<1> DEFINE s == a \o (b \o c)
           m == Len(a)
           n == Len(b)
           t == SubSeq(s, m + 1, m + n)
<1>1. m \in Nat /\ n \in Nat /\ Len(c) \in Nat
  BY LenProperties
<1>2. Joined(b, c, S)
  BY Join
<1>3. b \o c \in Seq(S) /\ Len(b \o c) = n + Len(c) /\ \A i \in 1..n : (b \o c)[i] = b[i]
  BY <1>2 DEF Joined
<1>4. Joined(a, b \o c, S)
  BY <1>3, Join
<1>5. /\ s \in Seq(S) /\ Len(s) = m + (n + Len(c))
      /\ \A i \in 1..n : s[m + i] = b[i]
  <2>1. \A i \in 1..n : i \in 1..Len(b \o c)
    BY <1>1, <1>3
  <2>2. QED
    BY <1>3, <1>4, <2>1 DEF Joined
<1> HIDE DEF s, m, n
<1>6. m + n <= Len(s)
  BY <1>1, <1>5
<1>7. t \in Seq(S) /\ Len(t) = n /\ \A i \in 1..n : t[i] = s[m + i]
  BY <1>1, <1>5, <1>6, PieceElements
<1> HIDE DEF t
<1>8. \A i \in 1..n : t[i] = b[i]
  BY <1>5, <1>7
<1>9. t = b
  BY <1>7, <1>8, SeqEqual DEF n
<1>10. QED
  BY <1>5, <1>6, <1>9 DEF s, m, n, t

\* A front and the piece behind it are a longer front.
LEMMA FrontGrows ==
  ASSUME NEW S, NEW s \in Seq(S), NEW m \in Nat, NEW n \in Nat, m + n <= Len(s)
  PROVE  SubSeq(s, 1, m) \o SubSeq(s, m + 1, m + n) = SubSeq(s, 1, m + n)
<1> DEFINE f == SubSeq(s, 1, m + n)
           g == SubSeq(s, 1, m)
           h == SubSeq(f, m + 1, Len(f))
<1>1. m \in 0..Len(s) /\ m + n \in 0..Len(s)
  BY LenProperties
<1>2. f \in Seq(S) /\ Len(f) = m + n /\ \A j \in 1..m + n : f[j] = s[j]
  BY <1>1, CutElements
<1>3. m \in 0..Len(f)
  BY <1>2
<1> HIDE DEF f
<1>4. SubSeq(f, 1, m) \o h = f
  BY <1>2, <1>3, CutSeq
<1>5. SubSeq(f, 1, m) = g
  <2>1. SubSeq(f, 1, m) \in Seq(S) /\ Len(SubSeq(f, 1, m)) = m /\ \A j \in 1..m : SubSeq(f, 1, m)[j] = f[j]
    BY <1>2, <1>3, CutElements
  <2>2. g \in Seq(S) /\ Len(g) = m /\ \A j \in 1..m : g[j] = s[j]
    BY <1>1, CutElements
  <2> HIDE DEF g
  <2>3. \A j \in 1..m : j \in 1..m + n
    OBVIOUS
  <2>4. QED
    BY <1>2, <2>1, <2>2, <2>3, SeqEqual
<1>6. h = SubSeq(s, m + 1, m + n)
  <2> DEFINE k == SubSeq(s, m + 1, m + n)
  <2>1. h \in Seq(S) /\ Len(h) = Len(f) - m /\ \A i \in 1..Len(f) - m : h[i] = f[m + i]
    BY <1>2, <1>3, CutElements
  <2>2. k \in Seq(S) /\ Len(k) = n /\ \A i \in 1..n : k[i] = s[m + i]
    BY PieceElements
  <2> HIDE DEF h, k
  <2>3. Len(f) - m = n /\ \A i \in 1..n : m + i \in 1..m + n
    BY <1>2
  <2>4. \A i \in 1..n : h[i] = k[i]
    BY <1>2, <2>1, <2>2, <2>3
  <2>5. h = k
    BY <2>1, <2>2, <2>3, <2>4, SeqEqual
  <2>6. QED
    BY <2>5 DEF k
<1>7. QED
  BY <1>4, <1>5, <1>6 DEF f

-----------------------------------------------------------------------------

\* Max is the greatest member of a bounded set of naturals that has one.
LEMMA MaxOf ==
  ASSUME NEW n \in Nat, NEW T \in SUBSET (0..n), T # {}
  PROVE  Max(T) \in T /\ \A y \in T : y <= Max(T)
<1> DEFINE D == {n - x : x \in T}
<1>1. D \in SUBSET Nat /\ D # {}
  <2>1. \A x \in T : n - x \in Nat
    OBVIOUS
  <2>2. D \in SUBSET Nat
    BY <2>1
  <2>3. PICK x \in T : TRUE
    OBVIOUS
  <2>4. n - x \in D
    BY <2>3
  <2>5. QED
    BY <2>2, <2>4
<1>2. PICK d \in D : \A e \in D : d <= e
  BY <1>1, LeastOf
<1>3. PICK x \in T : d = n - x
  BY <1>2
<1>4. \A y \in T : x >= y
  <2>1. SUFFICES ASSUME NEW y \in T PROVE x >= y
    OBVIOUS
  <2>2. n - y \in D
    OBVIOUS
  <2>3. d <= n - y
    BY <1>2, <2>2
  <2>4. QED
    BY <1>3, <2>3
<1>5. \E m \in T : \A y \in T : m >= y
  BY <1>4
<1>6. Max(T) \in T /\ \A y \in T : Max(T) >= y
  BY <1>5 DEF Max
<1>7. QED
  BY <1>6

\* Min is the least member of a set of naturals that has one.
LEMMA MinOf ==
  ASSUME NEW T \in SUBSET Nat, T # {}
  PROVE  Min(T) \in T /\ \A y \in T : Min(T) <= y
BY LeastOf DEF Min

-----------------------------------------------------------------------------

\* A bit position is a byte position and a position in that byte.
LEMMA BytePosition ==
  ASSUME NEW k \in Nat
  PROVE  k \div 8 \in Nat /\ k % 8 \in 0..7 /\ k = 8 * (k \div 8) + (k % 8)
OBVIOUS

\* u.lengths, entry by entry.
LEMMA Table64 ==
  ASSUME NEW z \in 0..64, NEW n \in 1..8
  PROVE  LENGTHS64[z + 1] \in 1..9 /\ (LENGTHS64[z + 1] <= n <=> 64 - z <= 7 * n)
<1>1. CASE z \in 0..7
  BY <1>1 DEF LENGTHS64
<1>2. CASE z \in 8..14
  BY <1>2 DEF LENGTHS64
<1>3. CASE z \in 15..21
  BY <1>3 DEF LENGTHS64
<1>4. CASE z \in 22..28
  BY <1>4 DEF LENGTHS64
<1>5. CASE z \in 29..35
  BY <1>5 DEF LENGTHS64
<1>6. CASE z \in 36..42
  BY <1>6 DEF LENGTHS64
<1>7. CASE z \in 43..49
  BY <1>7 DEF LENGTHS64
<1>8. CASE z \in 50..56
  BY <1>8 DEF LENGTHS64
<1>9. CASE z \in 57..64
  BY <1>9 DEF LENGTHS64
<1>10. QED
  BY <1>1, <1>2, <1>3, <1>4, <1>5, <1>6, <1>7, <1>8, <1>9

\* LENGTHS32, entry by entry.
LEMMA Table32 ==
  ASSUME NEW z \in 0..32, NEW n \in 1..4
  PROVE  LENGTHS32[z + 1] \in 1..5 /\ (LENGTHS32[z + 1] <= n <=> 32 - z <= 7 * n)
BY DEF LENGTHS32

\* The bits of the constant bytes.
LEMMA ByteBits ==
  /\ Zero \in BitByte /\ ByteOf(240) \in BitByte /\ ByteOf(255) \in BitByte
  /\ \A k \in 0..7 : Zero[k] = 0
  /\ \A k \in 0..7 : ByteOf(240)[k] = IF k < 4 THEN 0 ELSE 1
BY DEF Zero, ByteOf, Weight, BitByte, Bit

\* Sizes of the two types.
Sizes(u) ==
  /\ u.bytes \in 4..8
  /\ Width(u) = 8 * u.bytes /\ Width(u) \in 32..64
  /\ FullLen(u) = u.bytes + 1

\* Sizes holds of both types.
LEMMA TypeSizes ==
  ASSUME NEW u \in Type
  PROVE  Sizes(u)
BY DEF Type, Sizes, U64, U32, Width, FullLen

\* v has no bit at or above position m.
Below(v, m, W) == \A i \in m..W - 1 : v[i] = 0

\* The leading zeros of a word tell from which position on it has no bits.
LEMMA SignificantBits ==
  ASSUME NEW u \in Type, NEW v \in Word(u)
  PROVE  /\ LeadingZeros(u, v) \in 0..Width(u)
         /\ \A m \in 0..Width(u) - 1 : Below(v, m, Width(u)) <=> Width(u) - LeadingZeros(u, v) <= m
<1> DEFINE ones == {i \in DOMAIN v : v[i] = 1}
           W == Width(u)
<1>1. W \in 32..64
  BY TypeSizes DEF Sizes
<1>2. DOMAIN v = 0..W - 1 /\ \A i \in 0..W - 1 : v[i] \in {0, 1}
  BY DEF Word, Bit
<1> HIDE DEF W
<1>3. CASE ones = {}
  <2>1. LeadingZeros(u, v) = W
    BY <1>3 DEF LeadingZeros, W
  <2>2. \A i \in 0..W - 1 : v[i] = 0
    BY <1>2, <1>3
  <2>3. QED
    BY <1>1, <2>1, <2>2 DEF Below, W
<1>4. CASE ones # {}
  <2> DEFINE x == Max(ones)
  <2>1. ones \in SUBSET (0..W - 1) /\ W - 1 \in Nat
    BY <1>1, <1>2
  <2>2. x \in ones /\ \A y \in ones : y <= x
    BY <1>4, <2>1, MaxOf
  <2>3. LeadingZeros(u, v) = W - 1 - x
    BY <1>4 DEF LeadingZeros, W
  <2> HIDE DEF x
  <2>4. x \in 0..W - 1 /\ v[x] = 1
    BY <2>1, <2>2
  <2>5. \A i \in 0..W - 1 : i > x => v[i] = 0
    BY <1>2, <2>2, <2>4
  <2>6. W - LeadingZeros(u, v) = x + 1 /\ LeadingZeros(u, v) \in 0..W
    BY <1>1, <2>3, <2>4
  <2>7. ASSUME NEW m \in 0..W - 1
        PROVE  Below(v, m, W) <=> x + 1 <= m
    BY <1>1, <2>4, <2>5 DEF Below
  <2>8. QED
    BY <2>6, <2>7 DEF W
<1>5. QED
  BY <1>3, <1>4

\* The writer takes the shortest form: 7 bits of value in each byte.
LEMMA Shortest ==
  ASSUME NEW u \in Type, NEW v \in Word(u)
  PROVE  /\ EncodedLen(u, v) \in 1..FullLen(u)
         /\ \A n \in 1..u.bytes : EncodedLen(u, v) <= n <=> Below(v, 7 * n, Width(u))
<1> DEFINE z == LeadingZeros(u, v)
           W == Width(u)
<1>1. z \in 0..W /\ \A m \in 0..W - 1 : Below(v, m, W) <=> W - z <= m
  BY SignificantBits
<1> HIDE DEF z
<1>2. /\ EncodedLen(u, v) \in 1..FullLen(u)
      /\ \A n \in 1..u.bytes : EncodedLen(u, v) <= n <=> W - z <= 7 * n
  <2>1. CASE u = U64
    <3>1. W = 64 /\ u.bytes = 8 /\ u.lengths = LENGTHS64 /\ FullLen(u) = 9
      BY <2>1 DEF U64, Width, FullLen
    <3>2. EncodedLen(u, v) = LENGTHS64[z + 1] /\ z \in 0..64
      BY <1>1, <3>1 DEF EncodedLen, z
    <3>3. QED
      BY <3>1, <3>2, Table64
  <2>2. CASE u = U32
    <3>1. W = 32 /\ u.bytes = 4 /\ u.lengths = LENGTHS32 /\ FullLen(u) = 5
      BY <2>2 DEF U32, Width, FullLen
    <3>2. EncodedLen(u, v) = LENGTHS32[z + 1] /\ z \in 0..32
      BY <1>1, <3>1 DEF EncodedLen, z
    <3>3. QED
      BY <3>1, <3>2, Table32
  <2>3. QED
    BY <2>1, <2>2 DEF Type
<1>3. \A n \in 1..u.bytes : 7 * n \in 0..W - 1
  BY TypeSizes DEF Sizes
<1>4. QED
  BY <1>1, <1>2, <1>3

\* The length of an encoding is told by the lowest bit set in its first byte.
LEMMA FirstByte ==
  ASSUME NEW b \in BitByte
  PROVE  /\ DecodedLen(b) \in 1..9
         /\ \A k \in 0..7 : k < DecodedLen(b) - 1 => b[k] = 0
         /\ DecodedLen(b) < 9 => b[DecodedLen(b) - 1] = 1
<1> DEFINE ones == {i \in DOMAIN b : b[i] = 1}
<1>1. DOMAIN b = 0..7 /\ \A k \in 0..7 : b[k] \in {0, 1}
  BY DEF BitByte, Bit
<1>2. CASE ones = {}
  <2>1. DecodedLen(b) = 9
    BY <1>2 DEF DecodedLen, TrailingZeros
  <2>2. \A k \in 0..7 : b[k] = 0
    BY <1>1, <1>2
  <2>3. QED
    BY <2>1, <2>2
<1>3. CASE ones # {}
  <2>1. ones \in SUBSET Nat
    BY <1>1
  <2>2. Min(ones) \in ones /\ \A y \in ones : Min(ones) <= y
    BY <1>3, <2>1, MinOf
  <2>3. DecodedLen(b) = Min(ones) + 1
    BY <1>3 DEF DecodedLen, TrailingZeros
  <2>4. QED
    BY <1>1, <2>2, <2>3
<1>4. QED
  BY <1>2, <1>3

\* That length is determined by the bits.
LEMMA FirstByteIs ==
  ASSUME NEW b \in BitByte, NEW n \in 1..9,
         \A k \in 0..7 : k < n - 1 => b[k] = 0,
         n < 9 => b[n - 1] = 1
  PROVE  DecodedLen(b) = n
<1> DEFINE d == DecodedLen(b)
<1>1. /\ d \in 1..9
      /\ \A k \in 0..7 : k < d - 1 => b[k] = 0
      /\ d < 9 => b[d - 1] = 1
  BY FirstByte
<1> HIDE DEF d
<1>2. d = n
  BY <1>1
<1>3. QED
  BY <1>2 DEF d

\* to_le_bytes gives the bytes of the word, as many as its type has.
LEMMA LeBytesType ==
  ASSUME NEW u \in Type, NEW w \in Word(u)
  PROVE  /\ LeBytes(u, w) \in Seq(BitByte) /\ Len(LeBytes(u, w)) = u.bytes
         /\ \A j \in 1..u.bytes : /\ LeBytes(u, w)[j] \in BitByte
                                  /\ \A k \in 0..7 : LeBytes(u, w)[j][k] = w[8 * (j - 1) + k]
<1>1. u.bytes \in 4..8 /\ Width(u) = 8 * u.bytes
  BY TypeSizes DEF Sizes
<1> DEFINE n == u.bytes
<1>2. \A i \in 0..8 * n - 1 : w[i] \in Bit
  BY <1>1 DEF Word
<1> HIDE DEF n
<1>3. n \in 4..8
  BY <1>1 DEF n
<1>4. ASSUME NEW j \in 1..n, NEW k \in 0..7
      PROVE  w[8 * (j - 1) + k] \in Bit
  <2>1. 8 * (j - 1) + k \in 0..8 * n - 1
    BY <1>3
  <2>2. QED
    BY <1>2, <2>1
<1>5. \A j \in 1..n : [k \in 0..7 |-> w[8 * (j - 1) + k]] \in BitByte
  BY <1>4 DEF BitByte
<1>6. LeBytes(u, w) \in [1..n -> BitByte]
  BY <1>5 DEF LeBytes, n
<1>7. LeBytes(u, w) \in Seq(BitByte) /\ Len(LeBytes(u, w)) = n
  BY <1>3, <1>6
<1>8. \A j \in 1..n : \A k \in 0..7 : LeBytes(u, w)[j][k] = w[8 * (j - 1) + k]
  BY DEF LeBytes, n
<1>9. QED
  BY <1>6, <1>7, <1>8 DEF n

\* from_le_bytes of any bytes is a word, and undoes to_le_bytes.
LEMMA FromLeBytesType ==
  ASSUME NEW u \in Type, NEW s, \A j \in 1..u.bytes : s[j] \in BitByte
  PROVE  /\ FromLeBytes(u, s) \in Word(u)
         /\ \A i \in 0..Width(u) - 1 : FromLeBytes(u, s)[i] = s[i \div 8 + 1][i % 8]
<1>1. u.bytes \in 4..8 /\ Width(u) = 8 * u.bytes
  BY TypeSizes DEF Sizes
<1>2. \A i \in 0..Width(u) - 1 : i \div 8 + 1 \in 1..u.bytes /\ i % 8 \in 0..7
  BY <1>1
<1>3. \A i \in 0..Width(u) - 1 : s[i \div 8 + 1][i % 8] \in Bit
  BY <1>2 DEF BitByte
<1>4. QED
  BY <1>3 DEF FromLeBytes, Word

\* from_le_bytes undoes to_le_bytes, also when bytes follow.
LEMMA FromToLeBytes ==
  ASSUME NEW u \in Type, NEW w \in Word(u), NEW s,
         \A j \in 1..u.bytes : s[j] = LeBytes(u, w)[j]
  PROVE  FromLeBytes(u, s) = w
<1>1. u.bytes \in 4..8 /\ Width(u) = 8 * u.bytes
  BY TypeSizes DEF Sizes
<1>2. \A i \in 0..Width(u) - 1 : /\ i \div 8 + 1 \in 1..u.bytes /\ i % 8 \in 0..7
                                 /\ 8 * ((i \div 8 + 1) - 1) + (i % 8) = i
  BY <1>1
<1>3. ASSUME NEW i \in 0..Width(u) - 1
      PROVE  s[i \div 8 + 1][i % 8] = w[i]
  <2> DEFINE j == i \div 8 + 1
             k == i % 8
  <2>1. j \in 1..u.bytes /\ k \in 0..7 /\ 8 * (j - 1) + k = i
    BY <1>2
  <2> HIDE DEF j, k
  <2>2. s[j] = LeBytes(u, w)[j] /\ LeBytes(u, w)[j][k] = w[8 * (j - 1) + k]
    BY <2>1, LeBytesType
  <2>3. s[j][k] = w[i]
    BY <2>1, <2>2
  <2>4. QED
    BY <2>3 DEF j, k
<1>4. QED
  BY <1>3 DEF FromLeBytes, Word

\* The tagged word is a word of the same type: what is shifted out is lost.
LEMMA TaggedType ==
  ASSUME NEW u \in Type, NEW v \in Word(u), NEW len \in 1..u.bytes
  PROVE  /\ Tagged(u, v, len) \in Word(u)
         /\ \A i \in 0..Width(u) - 1 :
              Tagged(u, v, len)[i] = IF i < len - 1 THEN 0
                                     ELSE IF i = len - 1 THEN 1 ELSE v[i - len]
<1>1. u.bytes \in 4..8 /\ Width(u) = 8 * u.bytes
  BY TypeSizes DEF Sizes
<1> DEFINE W == Width(u)
           t == Tagged(u, v, len)
<1>2. \A i \in 0..W - 1 : t[i] = IF i < len - 1 THEN 0
                                 ELSE IF i = len - 1 THEN 1 ELSE v[i - len]
  BY DEF Tagged
<1>3. DOMAIN t = 0..W - 1 /\ t = [i \in 0..W - 1 |-> t[i]]
  BY DEF Tagged
<1>4. \A i \in 0..W - 1 : v[i] \in {0, 1}
  BY DEF Word, Bit
<1>5. W \in Nat /\ len \in Nat /\ len >= 1
  BY <1>1
<1> HIDE DEF W, t
<1>6. \A i \in 0..W - 1 : t[i] \in {0, 1}
  <2>1. \A i \in 0..W - 1 : i >= len => i - len \in 0..W - 1
    BY <1>5
  <2>2. QED
    BY <1>2, <1>4, <1>5, <2>1
<1>7. t \in [0..W - 1 -> {0, 1}]
  BY <1>3, <1>6
<1>8. QED
  BY <1>2, <1>7 DEF t, W, Word, Bit

\* The first byte of a tagged word tells the length.
LEMMA TaggedFirst ==
  ASSUME NEW u \in Type, NEW v \in Word(u), NEW len \in 1..u.bytes
  PROVE  DecodedLen(LeBytes(u, Tagged(u, v, len))[1]) = len
<1>1. u.bytes \in 4..8 /\ Width(u) = 8 * u.bytes
  BY TypeSizes DEF Sizes
<1> DEFINE b == LeBytes(u, Tagged(u, v, len))[1]
<1>2. b \in BitByte /\ \A k \in 0..7 : b[k] = Tagged(u, v, len)[k]
  <2>1. /\ 1 \in 1..u.bytes /\ \A k \in 0..7 : 8 * (1 - 1) + k = k
    BY <1>1
  <2>2. Tagged(u, v, len) \in Word(u)
    BY TaggedType
  <2>3. /\ b \in BitByte
        /\ \A k \in 0..7 : b[k] = Tagged(u, v, len)[8 * (1 - 1) + k]
    BY <2>1, <2>2, LeBytesType
  <2>4. QED
    BY <2>1, <2>3
<1>3. \A k \in 0..7 : /\ k < len - 1 => b[k] = 0
                      /\ k = len - 1 => b[k] = 1
  <2>1. \A k \in 0..7 : k \in 0..Width(u) - 1
    BY <1>1
  <2>2. \A k \in 0..7 : Tagged(u, v, len)[k] = IF k < len - 1 THEN 0
                                   ELSE IF k = len - 1 THEN 1 ELSE v[k - len]
    BY <2>1, TaggedType
  <2>3. len \in Int
    BY <1>1
  <2>4. QED
    BY <1>2, <2>2, <2>3
<1> HIDE DEF b
<1>4. len \in 1..9 /\ len - 1 \in 0..7
  BY <1>1
<1>5. DecodedLen(b) = len
  BY <1>2, <1>3, <1>4, FirstByteIs
<1>6. QED
  BY <1>5 DEF b

\* A value in its shortest form has a bit set among the 7 its last byte adds.
LEMMA LastByteCounts ==
  ASSUME NEW u \in Type, NEW v \in Word(u), EncodedLen(u, v) # 1
  PROVE  \E i \in 7 * (EncodedLen(u, v) - 1)..Width(u) - 1 :
            v[i] # 0 /\ (EncodedLen(u, v) <= u.bytes => i < 7 * EncodedLen(u, v))
<1> DEFINE len == EncodedLen(u, v)
<1>1. u.bytes \in 4..8 /\ Width(u) = 8 * u.bytes /\ FullLen(u) = u.bytes + 1
  BY TypeSizes DEF Sizes
<1>2. /\ len \in 1..FullLen(u)
      /\ \A n \in 1..u.bytes : len <= n <=> Below(v, 7 * n, Width(u))
  BY Shortest
<1> HIDE DEF len
<1>3. len - 1 \in 1..u.bytes
  BY <1>1, <1>2 DEF len
<1>4. ~Below(v, 7 * (len - 1), Width(u))
  BY <1>2, <1>3
<1>5. PICK i \in 7 * (len - 1)..Width(u) - 1 : v[i] # 0
  BY <1>4 DEF Below
<1>6. len <= u.bytes => i < 7 * len
  <2>1. SUFFICES ASSUME len <= u.bytes, ~(i < 7 * len) PROVE FALSE
    OBVIOUS
  <2>2. len \in 1..u.bytes
    BY <1>2, <1>3, <2>1
  <2>3. Below(v, 7 * len, Width(u))
    BY <1>2, <2>2
  <2>4. i \in 7 * len..Width(u) - 1
    BY <1>1, <1>5, <2>1, <2>2
  <2>5. QED
    BY <1>5, <2>3, <2>4 DEF Below
<1>7. QED
  BY <1>5, <1>6 DEF len

\* The value as a word of another type, of which it has at most 7 * len bits.
Resized(r, v, len) == [i \in 0..Width(r) - 1 |-> IF i < 7 * len THEN v[i] ELSE 0]

\* The first byte and the others are those of v in a form of len bytes.
ShortForm(u, v, len, first, others) ==
  /\ len = EncodedLen(u, v)
  /\ Len(others) \in Nat /\ Len(others) + 1 >= len
  /\ first = LeBytes(u, Tagged(u, v, len))[1]
  /\ \A j \in 2..len : others[j - 1] = LeBytes(u, Tagged(u, v, len))[j]

\* A reader of either type takes a short form apart as the writer put it
\* together, if the form is one of its own.
LEMMA DecodeShort ==
  ASSUME NEW u \in Type, NEW r \in Type, NEW v \in Word(u),
         NEW len \in 1..u.bytes, len <= r.bytes, NEW first, NEW others,
         ShortForm(u, v, len, first, others), NEW debug \in BOOLEAN
  PROVE  Decode(r, len, first, others, debug) = Decoded("Ok", Resized(r, v, len))
<1>1. /\ u.bytes \in 4..8 /\ Width(u) = 8 * u.bytes
      /\ r.bytes \in 4..8 /\ Width(r) = 8 * r.bytes /\ FullLen(r) = r.bytes + 1
  BY TypeSizes DEF Sizes
<1> DEFINE t == Tagged(u, v, len)
           W == Width(r)
           s == [j \in 1..r.bytes |->
                   IF j = 1 THEN first ELSE IF j <= len THEN others[j - 1] ELSE Zero]
           w == FromLeBytes(r, s)
           val == Untagged(r, len, first, others)
<1>2. t \in Word(u) /\ \A i \in 0..Width(u) - 1 :
        t[i] = IF i < len - 1 THEN 0 ELSE IF i = len - 1 THEN 1 ELSE v[i - len]
  BY TaggedType
<1>3. \A j \in 1..u.bytes : /\ LeBytes(u, t)[j] \in BitByte
                            /\ \A k \in 0..7 : LeBytes(u, t)[j][k] = t[8 * (j - 1) + k]
  BY <1>2, LeBytesType
<1>4. \A i \in 0..W - 1 : val[i] = IF i + len < W THEN w[i + len] ELSE 0
  BY DEF Untagged
<1>5. val = [i \in 0..W - 1 |-> val[i]]
  BY DEF Untagged
<1>6. \A j \in 1..r.bytes : s[j] = IF j <= len THEN LeBytes(u, t)[j] ELSE Zero
  BY <1>1 DEF ShortForm
<1> HIDE DEF t, W, s, val
<1>7. \A j \in 1..r.bytes : s[j] \in BitByte
  <2>1. \A j \in 1..r.bytes : j <= len => j \in 1..u.bytes
    BY <1>1
  <2>2. QED
    BY <1>3, <1>6, <2>1, ByteBits
<1>8. \A i \in 0..W - 1 : w[i] = s[i \div 8 + 1][i % 8]
  BY <1>7, FromLeBytesType DEF W
<1> HIDE DEF w
<1>9. ASSUME NEW i \in 0..W - 1
      PROVE  w[i] = IF i < 8 * len THEN t[i] ELSE 0
  <2> DEFINE j == i \div 8 + 1
             k == i % 8
  <2>1. /\ j \in 1..r.bytes /\ k \in 0..7 /\ 8 * (j - 1) + k = i
        /\ (j <= len <=> i < 8 * len)
    BY <1>1 DEF W
  <2>2. w[i] = s[j][k]
    BY <1>8
  <2> HIDE DEF j, k
  <2>3. CASE j <= len
    <3>1. j \in 1..u.bytes
      BY <1>1, <2>1, <2>3
    <3>2. w[i] = LeBytes(u, t)[j][k]
      BY <1>6, <2>1, <2>2, <2>3
    <3>3. w[i] = t[8 * (j - 1) + k]
      BY <1>3, <2>1, <3>1, <3>2
    <3>4. QED
      BY <2>1, <2>3, <3>3
  <2>4. CASE ~(j <= len)
    <3>1. w[i] = Zero[k]
      BY <1>6, <2>1, <2>2, <2>4
    <3>2. QED
      BY <2>1, <2>4, <3>1, ByteBits
  <2>5. QED
    BY <2>3, <2>4
<1>10. ASSUME NEW i \in 0..W - 1
       PROVE  val[i] = IF i < 7 * len THEN v[i] ELSE 0
  <2>1. /\ W = 8 * r.bytes /\ i \in Int /\ 0 <= i /\ len \in Int /\ 1 <= len
        /\ 8 * len <= W /\ 8 * len <= Width(u) /\ W \in Int /\ Width(u) \in Int
    BY <1>1 DEF W
  <2>2. CASE i < 7 * len
    <3>1. i + len < 8 * len
      BY <1>1, <2>1, <2>2
    <3>2. i + len \in 0..W - 1 /\ i + len < W /\ i + len \in 0..Width(u) - 1
      BY <2>1, <3>1
    <3>3. val[i] = w[i + len] /\ w[i + len] = t[i + len]
      BY <1>4, <1>9, <3>1, <3>2
    <3>4. t[i + len] = v[(i + len) - len]
      <4>1. ~(i + len < len - 1) /\ i + len # len - 1
        BY <2>1
      <4>2. QED
        BY <1>2, <3>2, <4>1
    <3>5. (i + len) - len = i
      BY <2>1
    <3>6. QED
      BY <2>2, <3>3, <3>4, <3>5
  <2>3. CASE ~(i < 7 * len)
    <3>1. i + len < W => i + len \in 0..W - 1 /\ ~(i + len < 8 * len)
      BY <1>1, <2>1, <2>3
    <3>2. QED
      BY <1>4, <1>9, <2>3, <3>1
  <2>4. QED
    BY <2>2, <2>3
<1>11. val = [i \in 0..W - 1 |-> IF i < 7 * len THEN v[i] ELSE 0]
  BY <1>5, <1>10
<1>12. ~Overlong(r, len, val)
  <2>1. SUFFICES ASSUME len # 1 PROVE \E i \in 7 * (len - 1)..W - 1 : val[i] # 0
    BY DEF Overlong, W
  <2>2. PICK i \in 7 * (len - 1)..Width(u) - 1 : v[i] # 0 /\ i < 7 * len
    BY <2>1, LastByteCounts DEF ShortForm
  <2>3. i \in 0..W - 1 /\ i \in 7 * (len - 1)..W - 1
    BY <1>1, <2>2 DEF W
  <2>4. QED
    BY <1>10, <2>2, <2>3
<1>13. len # FullLen(r) /\ ~(Len(others) + 1 < len)
  BY <1>1 DEF ShortForm
<1>14. Decode(r, len, first, others, debug) = Decoded("Ok", val)
  BY <1>12, <1>13 DEF Decode, val
<1>15. QED
  BY <1>11, <1>14 DEF W, Resized

\* The longest form holds the word itself.
LEMMA DecodeFull ==
  ASSUME NEW u \in Type, NEW v \in Word(u), EncodedLen(u, v) = FullLen(u),
         NEW first, NEW others, Len(others) \in Nat, Len(others) >= u.bytes,
         \A j \in 1..u.bytes : others[j] = LeBytes(u, v)[j],
         NEW debug \in BOOLEAN
  PROVE  Decode(u, FullLen(u), first, others, debug) = Decoded("Ok", v)
<1>1. u.bytes \in 4..8 /\ Width(u) = 8 * u.bytes /\ FullLen(u) = u.bytes + 1
  BY TypeSizes DEF Sizes
<1>2. FromLeBytes(u, others) = v
  BY FromToLeBytes
<1>3. ~Overlong(u, FullLen(u), v)
  BY <1>1, LastByteCounts DEF Overlong
<1>4. ~(Len(others) + 1 < FullLen(u))
  BY <1>1
<1>5. QED
  BY <1>2, <1>3, <1>4 DEF Decode

-----------------------------------------------------------------------------

\* s begins with an encoding of v.
Begins(s, u, v) ==
  /\ s \in Seq(BitByte)
  /\ Len(s) >= EncodedLen(u, v)
  /\ EncodedLen(u, v) = FullLen(u) =>
       /\ DecodedLen(s[1]) = FullLen(u)
       /\ \A j \in 1..u.bytes : s[j + 1] = LeBytes(u, v)[j]
  /\ EncodedLen(u, v) # FullLen(u) =>
       \A j \in 1..EncodedLen(u, v) : s[j] = LeBytes(u, Tagged(u, v, EncodedLen(u, v)))[j]

\* What is left of a byte string after its first byte.
LEMMA AfterFirst ==
  ASSUME NEW S, NEW s \in Seq(S), s # << >>
  PROVE  /\ SubSeq(s, 2, Len(s)) \in Seq(S)
         /\ Len(SubSeq(s, 2, Len(s))) = Len(s) - 1 /\ Len(s) - 1 \in Nat
         /\ \A i \in 1..Len(s) - 1 : SubSeq(s, 2, Len(s))[i] = s[i + 1]
         /\ s[1] \in S
<1>1. Len(s) \in Nat /\ Len(s) # 0 /\ \A i \in 1..Len(s) : s[i] \in S
  BY LenProperties, EmptySeq, ElementOfSeq
<1> DEFINE n == Len(s)
<1> HIDE DEF n
<1>2. n \in Nat /\ n >= 1 /\ \A i \in 1..n : s[i] \in S
  BY <1>1 DEF n
<1>3. \A i \in 2..n : s[i] \in S
  BY <1>2
<1>4. /\ SubSeq(s, 2, n) \in Seq(S)
      /\ Len(SubSeq(s, 2, n)) = IF 2 <= n THEN n - 2 + 1 ELSE 0
      /\ \A i \in 1..n - 2 + 1 : SubSeq(s, 2, n)[i] = s[2 + i - 1]
  BY <1>2, <1>3, SubSeqProperties
<1>5. /\ n - 1 \in Nat /\ (IF 2 <= n THEN n - 2 + 1 ELSE 0) = n - 1
      /\ \A i \in 1..n - 1 : i \in 1..n - 2 + 1 /\ 2 + i - 1 = i + 1
  BY <1>2
<1>6. s[1] \in S
  BY <1>2
<1>7. /\ SubSeq(s, 2, n) \in Seq(S) /\ Len(SubSeq(s, 2, n)) = n - 1
      /\ \A i \in 1..n - 1 : SubSeq(s, 2, n)[i] = s[i + 1]
  BY <1>4, <1>5
<1>8. QED
  BY <1>5, <1>6, <1>7 DEF n

\* An encoding tells its own length.
LEMMA BeginsFirst ==
  ASSUME NEW u \in Type, NEW v \in Word(u), NEW s, Begins(s, u, v)
  PROVE  s # << >> /\ DecodedLen(s[1]) = EncodedLen(u, v)
<1>1. /\ u.bytes \in 4..8 /\ FullLen(u) = u.bytes + 1
      /\ EncodedLen(u, v) \in 1..FullLen(u)
  BY TypeSizes, Shortest DEF Sizes
<1>2. Len(s) # 0
  BY <1>1 DEF Begins
<1>3. s # << >>
  BY <1>2, EmptySeq
<1>4. CASE EncodedLen(u, v) = FullLen(u)
  BY <1>3, <1>4 DEF Begins
<1>5. CASE EncodedLen(u, v) # FullLen(u)
  <2>1. EncodedLen(u, v) \in 1..u.bytes /\ 1 \in 1..EncodedLen(u, v)
    BY <1>1, <1>5
  <2>2. s[1] = LeBytes(u, Tagged(u, v, EncodedLen(u, v)))[1]
    BY <1>5, <2>1 DEF Begins
  <2>3. QED
    BY <1>3, <2>1, <2>2, TaggedFirst
<1>6. QED
  BY <1>4, <1>5

\* To a reader of the writer's type a short form holds the whole value.
LEMMA ResizedSame ==
  ASSUME NEW u \in Type, NEW v \in Word(u), EncodedLen(u, v) <= u.bytes
  PROVE  Resized(u, v, EncodedLen(u, v)) = v
<1> DEFINE len == EncodedLen(u, v)
           W == Width(u)
<1>1. u.bytes \in 4..8 /\ FullLen(u) = u.bytes + 1 /\ W \in Nat
  BY TypeSizes DEF Sizes
<1>2. len \in 1..u.bytes /\ Below(v, 7 * len, W)
  BY <1>1, Shortest
<1> HIDE DEF len, W
<1>3. \A i \in 0..W - 1 : ~(i < 7 * len) => v[i] = 0
  BY <1>1, <1>2 DEF Below
<1>4. v = [i \in 0..W - 1 |-> v[i]]
  BY DEF Word, W
<1>5. Resized(u, v, len) = v
  BY <1>3, <1>4 DEF Resized, W
<1>6. QED
  BY <1>5 DEF len

\* Decoding an encoding gives the value, to a reader of the writer's type.
LEMMA DecodeBegins ==
  ASSUME NEW u \in Type, NEW v \in Word(u), NEW s, Begins(s, u, v),
         NEW others \in Seq(BitByte), EncodedLen(u, v) <= Len(others) + 1,
         \A i \in 1..EncodedLen(u, v) - 1 : others[i] = s[i + 1],
         NEW debug \in BOOLEAN
  PROVE  Decode(u, EncodedLen(u, v), s[1], others, debug) = Decoded("Ok", v)
<1>1. /\ u.bytes \in 4..8 /\ FullLen(u) = u.bytes + 1
      /\ EncodedLen(u, v) \in 1..FullLen(u) /\ Len(others) \in Nat
  BY TypeSizes, Shortest, LenProperties DEF Sizes
<1>2. CASE EncodedLen(u, v) = FullLen(u)
  <2>1. \A j \in 1..u.bytes : others[j] = LeBytes(u, v)[j]
    BY <1>1, <1>2 DEF Begins
  <2>2. Len(others) >= u.bytes
    BY <1>1, <1>2
  <2>3. QED
    BY <1>1, <1>2, <2>1, <2>2, DecodeFull
<1>3. CASE EncodedLen(u, v) # FullLen(u)
  <2> DEFINE len == EncodedLen(u, v)
  <2>1. len \in 1..u.bytes /\ len <= u.bytes
    BY <1>1, <1>3
  <2>2. \A j \in 1..len : s[j] = LeBytes(u, Tagged(u, v, len))[j]
    BY <1>3 DEF Begins
  <2> HIDE DEF len
  <2>3. s[1] = LeBytes(u, Tagged(u, v, len))[1]
    BY <2>1, <2>2
  <2>4. ASSUME NEW j \in 2..len
        PROVE  others[j - 1] = LeBytes(u, Tagged(u, v, len))[j]
    <3>1. j - 1 \in 1..len - 1 /\ (j - 1) + 1 = j /\ j \in 1..len
      BY <1>1, <2>1
    <3>2. others[j - 1] = s[j]
      BY <3>1 DEF len
    <3>3. QED
      BY <2>2, <3>1, <3>2
  <2>5. Len(others) \in Nat /\ Len(others) + 1 >= len /\ len = EncodedLen(u, v)
    BY <1>1 DEF len
  <2>6. Decode(u, len, s[1], others, debug) = Decoded("Ok", Resized(u, v, len))
    <3>1. ShortForm(u, v, len, s[1], others)
      BY <2>3, <2>4, <2>5 DEF ShortForm
    <3>2. QED
      BY <2>1, <3>1, DecodeShort, Zenon
  <2>7. Resized(u, v, len) = v
    BY <2>1, ResizedSame DEF len
  <2>8. QED
    BY <2>6, <2>7 DEF len
<1>4. QED
  BY <1>2, <1>3

\* varu_from_slice reads the value from any slice that begins with an encoding.
LEMMA FromSliceBegins ==
  ASSUME NEW u \in Type, NEW v \in Word(u), NEW s, Begins(s, u, v), NEW debug \in BOOLEAN
  PROVE  FromSlice(u, s, debug) = Decoded("Ok", v)
<1> DEFINE others == SubSeq(s, 2, Len(s))
<1>1. s # << >> /\ DecodedLen(s[1]) = EncodedLen(u, v)
  BY BeginsFirst
<1>2. /\ others \in Seq(BitByte) /\ Len(others) = Len(s) - 1 /\ Len(s) - 1 \in Nat
      /\ \A i \in 1..Len(s) - 1 : others[i] = s[i + 1]
  BY <1>1, AfterFirst DEF Begins
<1>3. EncodedLen(u, v) \in 1..FullLen(u) /\ FullLen(u) \in Nat
  BY Shortest, TypeSizes DEF Sizes
<1>4. LenAccepted(u, EncodedLen(u, v))
  BY <1>3 DEF LenAccepted
<1>5. Len(s) \in Nat /\ Len(s) >= EncodedLen(u, v)
  BY LenProperties DEF Begins
<1> HIDE DEF others
<1>6. EncodedLen(u, v) <= Len(others) + 1
  BY <1>2, <1>3, <1>5
<1>7. \A i \in 1..EncodedLen(u, v) - 1 : others[i] = s[i + 1]
  BY <1>2, <1>3, <1>5
<1>8. Decode(u, EncodedLen(u, v), s[1], others, debug) = Decoded("Ok", v)
  BY <1>2, <1>6, <1>7, DecodeBegins
<1>9. QED
  BY <1>1, <1>4, <1>8 DEF FromSlice, others

\* A short form is read by a reader of the other width as well.
LEMMA FromSliceOther ==
  ASSUME NEW u \in Type, NEW r \in Type, NEW v \in Word(u), NEW s, Begins(s, u, v),
         EncodedLen(u, v) <= u.bytes, EncodedLen(u, v) <= r.bytes, NEW debug \in BOOLEAN
  PROVE  FromSlice(r, s, debug) = Decoded("Ok", Resized(r, v, EncodedLen(u, v)))
<1> DEFINE others == SubSeq(s, 2, Len(s))
           len == EncodedLen(u, v)
<1>1. s # << >> /\ DecodedLen(s[1]) = len
  BY BeginsFirst
<1>2. /\ others \in Seq(BitByte) /\ Len(others) = Len(s) - 1 /\ Len(s) - 1 \in Nat
      /\ \A i \in 1..Len(s) - 1 : others[i] = s[i + 1]
  BY <1>1, AfterFirst DEF Begins
<1>3. /\ len \in 1..FullLen(u) /\ FullLen(u) = u.bytes + 1 /\ u.bytes \in Nat
      /\ FullLen(r) = r.bytes + 1 /\ r.bytes \in Nat
  BY Shortest, TypeSizes DEF Sizes
<1>4. LenAccepted(r, len)
  BY <1>3 DEF LenAccepted
<1>5. Len(s) \in Nat /\ Len(s) >= len
  BY LenProperties DEF Begins
<1>6. len # FullLen(u) /\ len \in 1..u.bytes
  BY <1>3
<1>7. \A j \in 1..len : s[j] = LeBytes(u, Tagged(u, v, len))[j]
  BY <1>6 DEF Begins
<1> HIDE DEF others, len
<1>8. /\ 1 \in 1..len /\ Len(others) \in Nat /\ Len(others) + 1 >= len
      /\ \A j \in 2..len : j - 1 \in 1..Len(s) - 1 /\ (j - 1) + 1 = j /\ j \in 1..len
  BY <1>2, <1>3, <1>5
<1>9. s[1] = LeBytes(u, Tagged(u, v, len))[1]
  BY <1>7, <1>8
<1>10. \A j \in 2..len : others[j - 1] = LeBytes(u, Tagged(u, v, len))[j]
  BY <1>2, <1>7, <1>8
<1>11. ShortForm(u, v, len, s[1], others)
  BY <1>8, <1>9, <1>10 DEF ShortForm, len
<1>12. len <= r.bytes
  BY DEF len
<1>13. Decode(r, len, s[1], others, debug) = Decoded("Ok", Resized(r, v, len))
  <2> DEFINE first == s[1]
  <2>1. ShortForm(u, v, len, first, others)
    BY <1>11
  <2> HIDE DEF first
  <2>2. Decode(r, len, first, others, debug) = Decoded("Ok", Resized(r, v, len))
    BY <1>6, <1>12, <2>1, DecodeShort
  <2>3. QED
    BY <2>2 DEF first
<1>14. QED
  BY <1>1, <1>4, <1>13 DEF FromSlice, others, len

\* What a caller leaves in the first byte of the longest form of a u64.
LEMMA ToSliceBegins ==
  ASSUME NEW u \in Type, NEW v \in Word(u), NEW g \in Seq(BitByte),
         SliceFits(u, v, Len(g)),
         u = U64 /\ EncodedLen(u, v) = FullLen(u) => g[1] = Zero
  PROVE  Begins(ToSlice(u, v, g), u, v) /\ Len(ToSlice(u, v, g)) = Len(g)
<1>1. /\ u.bytes \in 4..8 /\ FullLen(u) = u.bytes + 1
      /\ EncodedLen(u, v) \in 1..FullLen(u) /\ Len(g) \in Nat
  BY TypeSizes, Shortest, LenProperties DEF Sizes
<1>2. CASE EncodedLen(u, v) = FullLen(u)
  <2> DEFINE first == IF u = U32 THEN ByteOf(240) ELSE g[1]
             s == ToSlice(u, v, g)
  <2>1. s = <<first>> \o LeBytes(u, v) /\ Len(g) = u.bytes + 1
    BY <1>1, <1>2 DEF ToSlice, SliceFits
  <2>2. first \in BitByte /\ DecodedLen(first) = FullLen(u)
    <3>1. CASE u = U64
      <4>1. first = Zero /\ FullLen(u) = 9
        BY <1>2, <3>1 DEF U64, U32, FullLen
      <4>2. DecodedLen(Zero) = 9
        BY ByteBits, FirstByteIs
      <4>3. QED
        BY <4>1, <4>2, ByteBits
    <3>2. CASE u = U32
      <4>1. first = ByteOf(240) /\ FullLen(u) = 5
        BY <3>2 DEF U32, FullLen
      <4>2. /\ \A k \in 0..7 : k < 5 - 1 => ByteOf(240)[k] = 0
            /\ 5 < 9 => ByteOf(240)[5 - 1] = 1 
            /\ 5 \in 1..9
        BY ByteBits
      <4>3. DecodedLen(ByteOf(240)) = 5
        BY <4>2, ByteBits, FirstByteIs
      <4>4. QED
        BY <4>1, <4>3, ByteBits
    <3>3. QED
      BY <3>1, <3>2 DEF Type
  <2> HIDE DEF first, s
  <2>3. LeBytes(u, v) \in Seq(BitByte) /\ Len(LeBytes(u, v)) = u.bytes
    BY LeBytesType
  <2>4. /\ s \in Seq(BitByte) /\ Len(s) = u.bytes + 1
        /\ s[1] = first /\ \A j \in 1..u.bytes : s[j + 1] = LeBytes(u, v)[j]
    <3>1. <<first>> \in Seq(BitByte) /\ Len(<<first>>) = 1 /\ <<first>>[1] = first
      BY <2>2
    <3> DEFINE f == <<first>>
               b == LeBytes(u, v)
    <3> HIDE DEF f, b
    <3>2. /\ f \o b \in Seq(BitByte) /\ Len(f \o b) = Len(f) + Len(b)
          /\ \A i \in 1..Len(f) + Len(b) : (f \o b)[i] = IF i <= Len(f) THEN f[i] ELSE b[i - Len(f)]
      BY <2>3, <3>1, ConcatProperties, Zenon DEF f, b
    <3>3. Len(f) = 1 /\ Len(b) = u.bytes /\ f[1] = first
      BY <2>3, <3>1 DEF f, b
    <3>4. /\ Len(f \o b) = u.bytes + 1 /\ (f \o b)[1] = f[1]
          /\ \A j \in 1..u.bytes : (f \o b)[j + 1] = b[j]
      BY <1>1, <3>2, <3>3
    <3>5. QED
      BY <2>1, <3>2, <3>3, <3>4 DEF f, b
  <2>5. Begins(s, u, v)
    BY <1>1, <1>2, <2>2, <2>4 DEF Begins
  <2>6. QED
    BY <2>1, <2>4, <2>5 DEF s
<1>3. CASE EncodedLen(u, v) # FullLen(u)
  <2> DEFINE len == EncodedLen(u, v)
             b == LeBytes(u, Tagged(u, v, len))
             r == SubSeq(g, u.bytes + 1, Len(g))
             n == Len(g)
  <2>1. len \in 1..u.bytes /\ n >= u.bytes /\ n \in Nat
    BY <1>1, <1>3 DEF SliceFits
  <2>2. ToSlice(u, v, g) = b \o r
    BY <1>3 DEF ToSlice
  <2>3. b \in Seq(BitByte) /\ Len(b) = u.bytes
    BY <2>1, TaggedType, LeBytesType
  <2>4. r \in Seq(BitByte) /\ Len(r) = n - u.bytes
    BY <1>1, <2>1, CutSeq
  <2> HIDE DEF b, r, n, len
  <2>5. /\ b \o r \in Seq(BitByte) /\ Len(b \o r) = Len(b) + Len(r)
        /\ \A i \in 1..Len(b) + Len(r) : (b \o r)[i] = IF i <= Len(b) THEN b[i] ELSE r[i - Len(b)]
    BY <2>3, <2>4, ConcatProperties, Zenon
  <2>6. Len(b \o r) = n /\ \A j \in 1..len : (b \o r)[j] = b[j]
    BY <1>1, <2>1, <2>3, <2>4, <2>5
  <2>7. n >= len
    BY <1>1, <2>1
  <2>8. Begins(b \o r, u, v)
    BY <1>3, <2>5, <2>6, <2>7 DEF Begins, len, b
  <2>9. QED
    BY <2>2, <2>6, <2>8 DEF n
<1>4. QED
  BY <1>2, <1>3

-----------------------------------------------------------------------------

(* varu_to_writer.                                                          *)

\* The two calls of write make up an encoding, the first is its first byte.
LEMMA EncodingBegins ==
  ASSUME NEW u \in Type, NEW v \in Word(u)
  PROVE  /\ Begins(Encoding(u, v), u, v)
         /\ Len(Encoding(u, v)) = EncodedLen(u, v)
         /\ Writes(u, v)[1] \in Seq(BitByte) /\ Writes(u, v)[2] \in Seq(BitByte)
         /\ Len(Writes(u, v)[1]) = 1
         /\ Writes(u, v)[1][1] = Encoding(u, v)[1]
<1> DEFINE g == [j \in 1..FullLen(u) |-> Zero]
           s == ToSlice(u, v, g)
           len == EncodedLen(u, v)
<1>1. /\ u.bytes \in 4..8 /\ FullLen(u) = u.bytes + 1
      /\ len \in 1..FullLen(u)
  BY TypeSizes, Shortest DEF Sizes
<1>2. g \in Seq(BitByte) /\ Len(g) = FullLen(u) /\ g[1] = Zero
  <2>1. g \in [1..FullLen(u) -> BitByte] /\ FullLen(u) \in Nat /\ 1 \in 1..FullLen(u)
    BY <1>1, ByteBits
  <2>2. QED
    BY <2>1
<1>3. SliceFits(u, v, Len(g))
  BY <1>1, <1>2 DEF SliceFits
<1>4. Begins(s, u, v) /\ Len(s) = FullLen(u)
  BY <1>2, <1>3, ToSliceBegins
<1>5. s \in Seq(BitByte)
  BY <1>4 DEF Begins
<1>6. /\ Writes(u, v) = << <<s[1]>>, SubSeq(s, 2, len) >>
      /\ Encoding(u, v) = <<s[1]>> \o SubSeq(s, 2, len)
  BY DEF Writes, Encoding
<1> HIDE DEF s, g, len
<1>7. \A i \in 1..FullLen(u) : s[i] \in BitByte
  BY <1>4, <1>5, ElementOfSeq
<1> DEFINE a == <<s[1]>>
           b == SubSeq(s, 2, len)
<1>8. a \in Seq(BitByte) /\ Len(a) = 1 /\ a[1] = s[1]
  BY <1>1, <1>7
<1>9. /\ b \in Seq(BitByte) /\ Len(b) = len - 1
      /\ \A i \in 1..len - 1 : b[i] = s[i + 1]
  <2>1. \A i \in 2..len : s[i] \in BitByte
    BY <1>1, <1>7
  <2>2. /\ b \in Seq(BitByte) /\ Len(b) = IF 2 <= len THEN len - 2 + 1 ELSE 0
        /\ \A i \in 1..len - 2 + 1 : b[i] = s[2 + i - 1]
    BY <1>1, <2>1, SubSeqProperties
  <2> HIDE DEF b
  <2>3. /\ (IF 2 <= len THEN len - 2 + 1 ELSE 0) = len - 1
        /\ \A i \in 1..len - 1 : i \in 1..len - 2 + 1 /\ 2 + i - 1 = i + 1
    BY <1>1
  <2>4. QED
    BY <2>2, <2>3
<1> HIDE DEF a, b
<1> DEFINE e == a \o b
<1>10. /\ e \in Seq(BitByte) /\ Len(e) = Len(a) + Len(b)
       /\ \A i \in 1..Len(a) + Len(b) : e[i] = IF i <= Len(a) THEN a[i] ELSE b[i - Len(a)]
  <2>1. a \in Seq(BitByte) /\ b \in Seq(BitByte)
    BY <1>8, <1>9
  <2>2. QED
    BY <2>1, ConcatProperties, Zenon
<1> HIDE DEF e
<1>11. Len(e) = len /\ \A i \in 1..len : e[i] = s[i]
  <2>1. Len(a) = 1 /\ Len(b) = len - 1 /\ len \in Int
    BY <1>1, <1>8, <1>9
  <2>2. Len(e) = len
    BY <1>10, <2>1
  <2>3. ASSUME NEW i \in 1..len PROVE e[i] = s[i]
    <3>1. i \in 1..Len(a) + Len(b)
      BY <2>1
    <3>2. e[i] = IF i <= 1 THEN a[i] ELSE b[i - 1]
      BY <1>10, <2>1, <3>1
    <3>3. CASE i <= 1
      BY <1>8, <3>2, <3>3
    <3>4. CASE ~(i <= 1)
      <4>1. i - 1 \in 1..len - 1 /\ (i - 1) + 1 = i
        BY <2>1, <3>4
      <4>2. QED
        BY <1>9, <3>2, <3>4, <4>1
    <3>5. QED
      BY <3>3, <3>4
  <2>4. QED
    BY <2>2, <2>3
<1>12. 1 \in 1..len /\ e[1] = s[1]
  BY <1>1, <1>11
<1>13. Begins(e, u, v)
  <2>1. Len(e) >= EncodedLen(u, v)
    BY <1>1, <1>11 DEF len
  <2>2. ASSUME EncodedLen(u, v) = FullLen(u)
        PROVE  /\ DecodedLen(e[1]) = FullLen(u)
               /\ \A j \in 1..u.bytes : e[j + 1] = LeBytes(u, v)[j]
    <3>1. \A j \in 1..u.bytes : j + 1 \in 1..len
      BY <1>1, <2>2 DEF len
    <3>2. QED
      BY <1>4, <1>11, <1>12, <2>2, <3>1 DEF Begins
  <2>3. ASSUME EncodedLen(u, v) # FullLen(u), NEW j \in 1..EncodedLen(u, v)
        PROVE  e[j] = LeBytes(u, Tagged(u, v, EncodedLen(u, v)))[j]
    BY <1>4, <1>11, <2>3 DEF Begins, len
  <2>4. QED
    BY <1>10, <2>1, <2>2, <2>3 DEF Begins
<1>14. Encoding(u, v) = e /\ Writes(u, v)[1] = a /\ Writes(u, v)[2] = b
  <2>1. Writes(u, v) = <<a, b>> /\ Encoding(u, v) = e
    BY <1>6 DEF a, b, e
  <2>2. QED
    BY <2>1
<1>15. QED
  BY <1>8, <1>9, <1>11, <1>12, <1>13, <1>14 DEF len

-----------------------------------------------------------------------------

(* Any input.                                                               *)

\* A reader looks at no byte behind the length it knows from the first.
LEMMA DecodeSame ==
  ASSUME NEW r \in Type, NEW len \in 1..FullLen(r), NEW first,
         NEW s, NEW t, Len(s) \in Nat, Len(t) \in Nat,
         len <= Len(s) + 1, len <= Len(t) + 1,
         \A i \in 1..len - 1 : s[i] = t[i], NEW debug \in BOOLEAN
  PROVE  Decode(r, len, first, s, debug) = Decode(r, len, first, t, debug)
<1>1. r.bytes \in 4..8 /\ FullLen(r) = r.bytes + 1 /\ Width(r) = 8 * r.bytes
  BY TypeSizes DEF Sizes
<1>2. ~(Len(s) + 1 < len) /\ ~(Len(t) + 1 < len)
  BY <1>1
<1>3. CASE len = FullLen(r)
  <2>1. \A i \in 0..Width(r) - 1 : i \div 8 + 1 \in 1..len - 1
    BY <1>1, <1>3
  <2>2. FromLeBytes(r, s) = FromLeBytes(r, t)
    BY <2>1 DEF FromLeBytes
  <2>3. QED
    BY <1>2, <1>3, <2>2 DEF Decode
<1>4. CASE len # FullLen(r)
  <2> DEFINE a(o) == [j \in 1..r.bytes |->
                        IF j = 1 THEN first ELSE IF j <= len THEN o[j - 1] ELSE Zero]
  <2>1. \A j \in 1..r.bytes : j # 1 /\ j <= len => j - 1 \in 1..len - 1
    BY <1>1
  <2>2. a(s) = a(t)
    BY <2>1
  <2>3. Untagged(r, len, first, s) = Untagged(r, len, first, t)
    BY <2>2 DEF Untagged
  <2>4. QED
    BY <1>2, <1>4, <2>3 DEF Decode
<1>5. QED
  BY <1>3, <1>4

\* What a reader without the debug check makes of the bytes, a word of its type.
Value0(r, len, first, others) ==
  IF len = FullLen(r) THEN FromLeBytes(r, others) ELSE Untagged(r, len, first, others)

\* That value, bit by bit, for a form shorter than the longest.
LEMMA ValueType ==
  ASSUME NEW r \in Type, NEW len \in 1..FullLen(r), NEW first \in BitByte,
         NEW others \in Seq(BitByte), len <= Len(others) + 1
  PROVE  /\ Value0(r, len, first, others) \in Word(r)
         /\ len < FullLen(r) =>
              \A i \in 0..Width(r) - 1 :
                Value0(r, len, first, others)[i] =
                  IF i + len < 8 * len
                  THEN (IF (i + len) \div 8 + 1 = 1 THEN first
                        ELSE others[(i + len) \div 8])[(i + len) % 8]
                  ELSE 0
<1>1. /\ r.bytes \in 4..8 /\ FullLen(r) = r.bytes + 1 /\ Width(r) = 8 * r.bytes
      /\ Len(others) \in Nat /\ \A i \in 1..Len(others) : others[i] \in BitByte
  BY TypeSizes, LenProperties, ElementOfSeq DEF Sizes
<1>2. CASE len = FullLen(r)
  <2>1. \A j \in 1..r.bytes : j \in 1..Len(others)
    BY <1>1, <1>2
  <2>2. FromLeBytes(r, others) \in Word(r)
    BY <1>1, <2>1, FromLeBytesType
  <2>3. QED
    BY <1>2, <2>2 DEF Value0
<1>3. CASE len # FullLen(r)
  <2> DEFINE W == Width(r)
             s == [j \in 1..r.bytes |->
                     IF j = 1 THEN first ELSE IF j <= len THEN others[j - 1] ELSE Zero]
             w == FromLeBytes(r, s)
             val == Untagged(r, len, first, others)
  <2>1. \A j \in 1..r.bytes : s[j] = IF j = 1 THEN first
                                     ELSE IF j <= len THEN others[j - 1] ELSE Zero
    OBVIOUS
  <2>2. val = [i \in 0..W - 1 |-> IF i + len < W THEN w[i + len] ELSE 0]
    BY DEF Untagged
  <2> HIDE DEF W, s, val
  <2>3. \A j \in 1..r.bytes : j # 1 /\ j <= len => j - 1 \in 1..Len(others)
    BY <1>1
  <2>4. \A j \in 1..r.bytes : s[j] \in BitByte
    BY <1>1, <2>1, <2>3, ByteBits
  <2>5. w \in Word(r) /\ \A i \in 0..W - 1 : w[i] = s[i \div 8 + 1][i % 8]
    BY <2>4, FromLeBytesType DEF W
  <2> HIDE DEF w
  <2>6. len \in 1..r.bytes /\ W \in Nat /\ W = 8 * r.bytes /\ 8 * len <= W
    BY <1>1, <1>3 DEF W
  <2>7. val \in Word(r)
    <3>1. \A i \in 0..W - 1 : i + len < W => i + len \in 0..W - 1
      BY <2>6
    <3>2. \A i \in 0..W - 1 : w[i] \in {0, 1}
      BY <2>5 DEF Word, Bit, W
    <3>3. \A i \in 0..W - 1 : (IF i + len < W THEN w[i + len] ELSE 0) \in {0, 1}
      BY <3>1, <3>2
    <3>4. QED
      BY <2>2, <3>3 DEF Word, Bit, W
  <2>8. ASSUME NEW i \in 0..W - 1
        PROVE  val[i] = IF i + len < 8 * len
                        THEN (IF (i + len) \div 8 + 1 = 1 THEN first
                              ELSE others[(i + len) \div 8])[(i + len) % 8]
                        ELSE 0
    <3> DEFINE k == i + len
               j == k \div 8 + 1
               m == k % 8
    <3>1. /\ k \in Nat /\ (k < W => j \in 1..r.bytes) /\ m \in 0..7
          /\ (k < 8 * len <=> j <= len) /\ (k < 8 * len => k < W)
          /\ j - 1 = k \div 8
      <4>1. k \in Nat /\ len \in Int /\ r.bytes \in Int /\ W = 8 * r.bytes /\ 8 * len <= W
        BY <1>1, <2>6
      <4>2. j = (k \div 8) + 1 /\ m = k % 8
        OBVIOUS
      <4> HIDE DEF k, j, m
      <4>3. k \div 8 \in Nat /\ m \in 0..7 /\ k = 8 * (k \div 8) + m
        BY <4>1, <4>2, BytePosition
      <4> DEFINE q == k \div 8
      <4>4. q \in Nat /\ k = 8 * q + m /\ j = q + 1
        BY <4>2, <4>3
      <4> HIDE DEF q
      <4>5. /\ (k < W => j \in 1..r.bytes)
            /\ (k < 8 * len <=> j <= len) /\ (k < 8 * len => k < W)
            /\ j - 1 = q
        BY <4>1, <4>3, <4>4
      <4>6. QED
        BY <4>1, <4>3, <4>5 DEF q
    <3>2. val[i] = IF k < W THEN w[k] ELSE 0
      BY <2>2
    <3> HIDE DEF k
    <3>3. ASSUME k < W PROVE w[k] = s[j][m]
      <4>1. k \in 0..W - 1
        BY <2>6, <3>1, <3>3
      <4>2. w[k] = s[k \div 8 + 1][k % 8]
        BY <2>5, <4>1
      <4>3. QED
        BY <4>2
    <3> HIDE DEF j, m
    <3>4. CASE k < 8 * len
      <4>1. val[i] = s[j][m] /\ j \in 1..r.bytes /\ j <= len
        BY <3>1, <3>2, <3>3, <3>4
      <4>2. s[j] = IF j = 1 THEN first ELSE others[j - 1]
        BY <2>1, <4>1
      <4>3. val[i] = (IF j = 1 THEN first ELSE others[j - 1])[m]
        BY <4>1, <4>2
      <4>4. QED
        BY <3>1, <3>4, <4>3 DEF k, j, m
    <3>5. CASE ~(k < 8 * len) /\ k < W
      <4>1. val[i] = s[j][m] /\ j \in 1..r.bytes /\ ~(j <= len) /\ j # 1
        BY <2>6, <3>1, <3>2, <3>3, <3>5
      <4>2. s[j] = Zero
        BY <2>1, <4>1
      <4>3. val[i] = 0
        BY <3>1, <4>1, <4>2, ByteBits
      <4>4. QED
        BY <3>5, <4>3 DEF k
    <3>6. CASE ~(k < W)
      <4>1. val[i] = 0 /\ ~(k < 8 * len)
        BY <3>1, <3>2, <3>6
      <4>2. QED
        BY <4>1 DEF k
    <3>7. QED
      BY <3>4, <3>5, <3>6
  <2>9. QED
    BY <1>3, <2>7, <2>8 DEF Value0, val, W
<1>4. QED
  BY <1>2, <1>3

\* What varu_from_slice returns: a word of the reader's type, from the bytes
\* that the first one announces, or one of two errors.
LEMMA FromSliceType ==
  ASSUME NEW r \in Type, NEW s \in Seq(BitByte), NEW debug \in BOOLEAN
  PROVE  LET res == FromSlice(r, s, debug)
             len == DecodedLen(s[1])
         IN /\ res.err \in {"PrematureEndOfInput", "InvalidVarintEncoding", "Ok"}
            /\ res.err = "Ok" =>
                 /\ s # << >> /\ len \in 1..FullLen(r) /\ len <= Len(s)
                 /\ res = Decoded("Ok", res.val)
                 /\ res.val = Value0(r, len, s[1], SubSeq(s, 2, Len(s)))
                 /\ res.val \in Word(r)
                 /\ ~(debug /\ Overlong(r, len, res.val))
<1> DEFINE res == FromSlice(r, s, debug)
           len == DecodedLen(s[1])
           others == SubSeq(s, 2, Len(s))
           val == Value0(r, len, s[1], others)
<1>1. Len(s) \in Nat /\ r.bytes \in 4..8 /\ FullLen(r) = r.bytes + 1
  BY LenProperties, TypeSizes DEF Sizes
<1>2. CASE s = << >>
  BY <1>2 DEF FromSlice, Failed, Decoded
<1>3. CASE s # << >> /\ ~LenAccepted(r, len)
  BY <1>3 DEF FromSlice, Failed, Decoded
<1>4. CASE s # << >> /\ LenAccepted(r, len)
  <2>1. /\ others \in Seq(BitByte) /\ Len(others) = Len(s) - 1 /\ Len(s) - 1 \in Nat
        /\ s[1] \in BitByte
    BY <1>4, AfterFirst
  <2>2. len \in 1..FullLen(r)
    BY <1>1, <1>4, <2>1, FirstByte DEF LenAccepted
  <2>3. res = Decode(r, len, s[1], others, debug)
    BY <1>4 DEF FromSlice
  <2>4. CASE Len(others) + 1 < len
    BY <2>3, <2>4 DEF Decode, Failed, Decoded
  <2>5. CASE ~(Len(others) + 1 < len)
    <3>1. len <= Len(s) /\ len <= Len(others) + 1
      BY <1>1, <2>1, <2>2, <2>5
    <3>2. val \in Word(r)
      BY <2>1, <2>2, <3>1, ValueType
    <3>3. res = IF debug /\ Overlong(r, len, val) THEN Failed("InvalidVarintEncoding")
                ELSE Decoded("Ok", val)
      BY <2>3, <2>5 DEF Decode, Value0
    <3> HIDE DEF res, len, others
    <3>4. CASE debug /\ Overlong(r, len, val)
      BY <3>3, <3>4 DEF Failed, Decoded, res
    <3>5. CASE ~(debug /\ Overlong(r, len, val))
      <4>1. res = Decoded("Ok", val)
        BY <3>3, <3>5
      <4>2. res.err = "Ok" /\ res.val = val
        BY <4>1 DEF Decoded
      <4>3. res = Decoded("Ok", res.val)
        BY <4>1, <4>2
      <4>4. QED
        BY <1>4, <2>2, <3>1, <3>2, <3>5, <4>2, <4>3 DEF res, len, others
    <3>6. QED
      BY <3>4, <3>5
  <2>6. QED
    BY <2>4, <2>5
<1>5. QED
  BY <1>2, <1>3, <1>4

\* With the debug check whatever a reader accepts begins with the encoding of
\* the value it returns, but for the first byte of u32's longest form.
LEMMA AcceptedBegins ==
  ASSUME NEW u \in Type, NEW s \in Seq(BitByte), NEW v, FromSlice(u, s, TRUE) = Decoded("Ok", v)
  PROVE  v \in Word(u) /\ Begins(s, u, v) /\ DecodedLen(s[1]) = EncodedLen(u, v)
<1> DEFINE len == DecodedLen(s[1])
           others == SubSeq(s, 2, Len(s))
           res == FromSlice(u, s, TRUE)
<1> DEFINE m == u.bytes
<1>1. u.bytes = m /\ m \in {4, 8} /\ FullLen(u) = m + 1 /\ Width(u) = 8 * m
  BY DEF Type, U64, U32, FullLen, Width
<1> HIDE DEF m
<1>2. res.err = "Ok" /\ res.val = v
  <2>1. res = [err |-> "Ok", val |-> v]
    BY DEF Decoded
  <2> HIDE DEF res
  <2>2. QED
    BY <2>1
<1>3. /\ s # << >> /\ len \in 1..m + 1 /\ len <= Len(s) /\ v \in Word(u)
      /\ v = Value0(u, len, s[1], others) /\ ~Overlong(u, len, v)
  BY <1>1, <1>2, FromSliceType
<1>4. /\ others \in Seq(BitByte) /\ Len(others) = Len(s) - 1 /\ Len(s) - 1 \in Nat
      /\ s[1] \in BitByte /\ Len(s) \in Nat
      /\ \A i \in 1..Len(s) - 1 : others[i] = s[i + 1]
  BY <1>3, AfterFirst, LenProperties
<1>5. /\ \A k \in 0..7 : k < len - 1 => s[1][k] = 0
      /\ len < 9 => s[1][len - 1] = 1
  BY <1>4, FirstByte
<1>6. len # 1 => ~Below(v, 7 * (len - 1), 8 * m)
  BY <1>1, <1>3 DEF Overlong, Below
<1>7. /\ EncodedLen(u, v) \in 1..m + 1
      /\ \A n \in 1..m : EncodedLen(u, v) <= n <=> Below(v, 7 * n, 8 * m)
  BY <1>1, <1>3, Shortest
<1>8. EncodedLen(u, v) >= len
  <2>1. CASE len = 1
    BY <1>7, <2>1
  <2>2. CASE len # 1
    <3>1. len - 1 \in 1..m
      BY <1>1, <1>3, <2>2
    <3>2. ~(EncodedLen(u, v) <= len - 1)
      BY <1>6, <1>7, <2>2, <3>1
    <3>3. QED
      BY <1>3, <1>7, <3>2
  <2>3. QED
    BY <2>1, <2>2
<1>9. CASE len = m + 1
  <2>1. EncodedLen(u, v) = m + 1
    BY <1>1, <1>7, <1>8, <1>9
  <2>2. v = FromLeBytes(u, others)
    BY <1>1, <1>3, <1>9 DEF Value0
  <2> HIDE DEF others, len
  <2>3. ASSUME NEW j \in 1..m
        PROVE  s[j + 1] = LeBytes(u, v)[j]
    <3>1. j \in 1..Len(s) - 1 /\ j \in 1..Len(others)
      BY <1>1, <1>3, <1>4, <1>9
    <3>2. others[j] \in BitByte /\ others[j] = s[j + 1]
      BY <1>4, <3>1, ElementOfSeq
    <3>3. \A k \in 0..7 : v[8 * (j - 1) + k] = others[j][k]
      <4>1. \A i \in 0..8 * m - 1 : v[i] = others[i \div 8 + 1][i % 8]
        BY <1>1, <2>2 DEF FromLeBytes
      <4>2. ASSUME NEW k \in 0..7
            PROVE  /\ 8 * (j - 1) + k \in 0..8 * m - 1
                   /\ (8 * (j - 1) + k) \div 8 + 1 = j /\ (8 * (j - 1) + k) % 8 = k
        BY <1>1
      <4>3. QED
        BY <4>1, <4>2
    <3>4. LeBytes(u, v)[j] = [k \in 0..7 |-> v[8 * (j - 1) + k]]
      BY <1>1 DEF LeBytes
    <3>5. others[j] = [k \in 0..7 |-> others[j][k]]
      BY <3>2 DEF BitByte
    <3>6. QED
      BY <3>2, <3>3, <3>4, <3>5
  <2>4. Begins(s, u, v)
    BY <1>1, <1>3, <1>9, <2>1, <2>3 DEF Begins, len
  <2>5. QED
    BY <1>3, <1>9, <2>1, <2>4 DEF len
<1>10. CASE len < m + 1
  <2> HIDE DEF others, len
  <2>1. /\ len \in 1..m /\ len < FullLen(u) /\ len <= Len(others) + 1
        /\ len \in 1..FullLen(u)
    BY <1>1, <1>3, <1>4, <1>10
  <2>2. ASSUME NEW i \in 0..8 * m - 1
        PROVE  v[i] = IF i + len < 8 * len
                      THEN (IF (i + len) \div 8 + 1 = 1 THEN s[1]
                            ELSE others[(i + len) \div 8])[(i + len) % 8]
                      ELSE 0
    <3> DEFINE first == s[1]
    <3>1. first \in BitByte /\ others \in Seq(BitByte) /\ v = Value0(u, len, first, others)
      BY <1>3, <1>4 DEF len, others
    <3> HIDE DEF first
    <3>2. \A k \in 0..Width(u) - 1 :
            Value0(u, len, first, others)[k] =
              IF k + len < 8 * len
              THEN (IF (k + len) \div 8 + 1 = 1 THEN first
                    ELSE others[(k + len) \div 8])[(k + len) % 8]
              ELSE 0
      BY <1>1, <2>1, <3>1, ValueType
    <3>3. i \in 0..Width(u) - 1
      BY <1>1
    <3>4. QED
      BY <3>1, <3>2, <3>3 DEF first
  <2>3. Below(v, 7 * len, 8 * m)
    <3>1. SUFFICES ASSUME NEW i \in 7 * len..8 * m - 1 PROVE v[i] = 0
      BY DEF Below
    <3>2. i \in 0..8 * m - 1 /\ ~(i + len < 8 * len)
      BY <2>1
    <3>3. QED
      BY <2>2, <3>2
  <2>4. EncodedLen(u, v) = len
    BY <1>7, <1>8, <2>1, <2>3
  <2>5. ASSUME NEW j \in 1..len
        PROVE  s[j] = LeBytes(u, Tagged(u, v, len))[j]
    <3> DEFINE t == Tagged(u, v, len)
    <3>1. ASSUME NEW k \in 0..7
          PROVE  t[8 * (j - 1) + k] = s[j][k]
      <4> DEFINE p == 8 * (j - 1) + k
      <4>1. /\ p \in 0..8 * m - 1 /\ p \div 8 + 1 = j /\ p % 8 = k /\ p < 8 * len
            /\ p \div 8 = j - 1 /\ (p <= 7 => j = 1 /\ p = k)
        BY <1>1, <2>1
      <4>2. t[p] = IF p < len - 1 THEN 0 ELSE IF p = len - 1 THEN 1 ELSE v[p - len]
        BY <1>1, <4>1 DEF Tagged
      <4> HIDE DEF p, t
      <4>3. CASE p < len - 1
        <5>1. j = 1 /\ p = k /\ k < len - 1
          BY <1>1, <2>1, <4>1, <4>3
        <5>2. QED
          BY <1>5, <4>2, <4>3, <5>1 DEF p, len
      <4>4. CASE p = len - 1
        <5>1. j = 1 /\ p = k /\ k = len - 1 /\ ~(p < len - 1)
          BY <1>1, <2>1, <4>1, <4>4
        <5>2. s[1][k] = 1
          BY <1>5, <1>10, <5>1
        <5>3. t[p] = 1
          BY <4>2, <4>4, <5>1
        <5>4. QED
          BY <5>1, <5>2, <5>3 DEF p
      <4>5. CASE ~(p < len - 1) /\ p # len - 1
        <5>1. p - len \in 0..8 * m - 1 /\ (p - len) + len = p
          BY <1>1, <2>1, <4>1, <4>5
        <5>2. v[p - len] = (IF j = 1 THEN s[1] ELSE others[j - 1])[k]
          BY <2>2, <4>1, <5>1
        <5>3. j # 1 => j - 1 \in 1..Len(s) - 1 /\ (j - 1) + 1 = j
          BY <1>3, <1>4, <2>1
        <5>4. (IF j = 1 THEN s[1] ELSE others[j - 1]) = s[j]
          BY <1>4, <5>3
        <5>5. QED
          BY <4>2, <4>5, <5>2, <5>4 DEF p
      <4>6. QED
        BY <4>3, <4>4, <4>5
    <3>2. LeBytes(u, t)[j] = [k \in 0..7 |-> t[8 * (j - 1) + k]]
      BY <1>1, <2>1 DEF LeBytes
    <3>3. s[j] \in BitByte
      <4>1. j \in 1..Len(s)
        BY <1>3, <1>4, <2>1
      <4>2. QED
        BY <4>1, ElementOfSeq
    <3>4. s[j] = [k \in 0..7 |-> s[j][k]]
      BY <3>3 DEF BitByte
    <3> HIDE DEF t
    <3>5. LeBytes(u, t)[j] = s[j]
      BY <3>1, <3>2, <3>4
    <3>6. QED
      BY <3>5 DEF t
  <2>6. Begins(s, u, v)
    BY <1>1, <1>3, <2>1, <2>4, <2>5 DEF Begins
  <2>7. QED
    BY <1>3, <2>4, <2>6 DEF len
<1>11. QED
  BY <1>1, <1>3, <1>9, <1>10

\* The first byte of u32's longest form is the one varu_to_slice sets.
LEMMA FirstOfFull ==
  ASSUME NEW v \in Word(U32), EncodedLen(U32, v) = FullLen(U32)
  PROVE  Encoding(U32, v)[1] = ByteOf(240)
<1> DEFINE g == [j \in 1..FullLen(U32) |-> Zero]
           s == ToSlice(U32, v, g)
<1>1. U32 \in Type
  BY DEF Type
<1>2. LeBytes(U32, v) \in Seq(BitByte) /\ ByteOf(240) \in BitByte
  BY <1>1, LeBytesType, ByteBits
<1>3. s = <<ByteOf(240)>> \o LeBytes(U32, v)
  BY DEF ToSlice
<1>4. <<ByteOf(240)>> \in Seq(BitByte) /\ Len(<<ByteOf(240)>>) = 1 /\ <<ByteOf(240)>>[1] = ByteOf(240)
  BY <1>2, Single
<1> HIDE DEF s
<1>5. s[1] = ByteOf(240)
  <2> DEFINE x == <<ByteOf(240)>>
             y == LeBytes(U32, v)
  <2>1. x \in Seq(BitByte) /\ y \in Seq(BitByte) /\ Len(x) = 1 /\ x[1] = ByteOf(240)
    BY <1>2, <1>4
  <2>2. s = x \o y
    BY <1>3
  <2> HIDE DEF x, y
  <2>3. Joined(x, y, BitByte)
    BY <2>1, Join
  <2>4. QED
    BY <2>1, <2>2, <2>3 DEF Joined
<1>6. Writes(U32, v)[1] = <<s[1]>>
  BY DEF Writes, s
<1>7. Writes(U32, v)[1][1] = Encoding(U32, v)[1]
  BY <1>1, EncodingBegins
<1>8. QED
  BY <1>5, <1>6, <1>7

\* There is one encoding of a word, but for that byte.
LEMMA BeginsSame ==
  ASSUME NEW u \in Type, NEW v \in Word(u), NEW s, Begins(s, u, v),
         u = U32 /\ EncodedLen(u, v) = FullLen(u) => s[1] = ByteOf(240)
  PROVE  SubSeq(s, 1, EncodedLen(u, v)) = Encoding(u, v)
<1> DEFINE len == EncodedLen(u, v)
           e == Encoding(u, v)
<1> DEFINE m == u.bytes
<1>1. u.bytes = m /\ m \in {4, 8} /\ FullLen(u) = m + 1 /\ (u # U32 => m = 8)
  <2>1. u.bytes \in {4, 8} /\ FullLen(u) = u.bytes + 1
    BY DEF Type, U64, U32, FullLen
  <2>2. U64.bytes = 8 /\ (u = U64 \/ u = U32)
    BY DEF Type, U64
  <2>3. QED
    BY <2>1, <2>2
<1> HIDE DEF m
<1>2. Begins(e, u, v) /\ Len(e) = len /\ len \in 1..m + 1
  BY <1>1, EncodingBegins, Shortest
<1>3. s \in Seq(BitByte) /\ e \in Seq(BitByte) /\ Len(s) >= len /\ Len(s) \in Nat
  BY <1>2, LenProperties DEF Begins
<1>4. \A i \in 1..len : s[i] \in BitByte /\ e[i] \in BitByte
  <2>1. \A i \in 1..len : i \in 1..Len(s) /\ i \in 1..Len(e)
    BY <1>2, <1>3
  <2>2. QED
    BY <1>3, <2>1, ElementOfSeq
<1>5. ASSUME NEW i \in 1..len
      PROVE  s[i] = e[i]
  <2>1. CASE len # m + 1
    BY <1>1, <1>2, <2>1 DEF Begins
  <2>2. CASE len = m + 1 /\ i # 1
    <3>1. i - 1 \in 1..m /\ (i - 1) + 1 = i
      BY <1>1, <1>2, <2>2
    <3>2. s[(i - 1) + 1] = LeBytes(u, v)[i - 1] /\ e[(i - 1) + 1] = LeBytes(u, v)[i - 1]
      BY <1>1, <1>2, <2>2, <3>1 DEF Begins
    <3>3. QED
      BY <3>1, <3>2
  <2>3. CASE len = m + 1 /\ i = 1 /\ u = U32
    <3>1. s[1] = ByteOf(240) /\ e[1] = ByteOf(240)
      BY <1>1, <2>3, FirstOfFull
    <3>2. QED
      BY <2>3, <3>1
  <2>4. CASE len = m + 1 /\ i = 1 /\ u # U32
    <3>1. DecodedLen(s[1]) = 9 /\ DecodedLen(e[1]) = 9
      BY <1>1, <1>2, <2>4 DEF Begins
    <3>2. s[1] \in BitByte /\ e[1] \in BitByte
      BY <1>4, <2>4
    <3>3. \A k \in 0..7 : s[1][k] = 0 /\ e[1][k] = 0
      BY <3>1, <3>2, FirstByte
    <3>4. s[1] = [k \in 0..7 |-> s[1][k]] /\ e[1] = [k \in 0..7 |-> e[1][k]]
      BY <3>2 DEF BitByte
    <3>5. s[1] = e[1]
      BY <3>3, <3>4
    <3>6. QED
      BY <2>4, <3>5
  <2>5. QED
    BY <2>1, <2>2, <2>3, <2>4
<1> HIDE DEF len, e
<1>6. /\ SubSeq(s, 1, len) \in Seq(BitByte) /\ Len(SubSeq(s, 1, len)) = len
      /\ \A i \in 1..len : SubSeq(s, 1, len)[i] = s[i]
  <2>1. /\ SubSeq(s, 1, len) \in Seq(BitByte)
        /\ Len(SubSeq(s, 1, len)) = IF 1 <= len THEN len - 1 + 1 ELSE 0
        /\ \A i \in 1..len - 1 + 1 : SubSeq(s, 1, len)[i] = s[1 + i - 1]
    BY <1>2, <1>4, SubSeqProperties
  <2>2. (IF 1 <= len THEN len - 1 + 1 ELSE 0) = len /\ len - 1 + 1 = len
    BY <1>2
  <2>3. \A i \in 1..len : 1 + i - 1 = i
    OBVIOUS
  <2>4. QED
    BY <2>1, <2>2, <2>3
<1>7. SubSeq(s, 1, len) = e
  BY <1>2, <1>3, <1>5, <1>6, SeqEqual
<1>8. QED
  BY <1>7 DEF len, e

=============================================================================
