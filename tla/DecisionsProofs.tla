--------------------------- MODULE DecisionsProofs ---------------------------
(***************************************************************************)
(* Proofs about Decisions, for any Creators, files, Odoos, views, forms    *)
(* and answers of Claude: what the signup offers stands, the busier of two *)
(* equal Creators is not picked, imports end, and what the panel shows     *)
(* stands.  The operators compute over sequences: what they do for every   *)
(* length is proved by induction over the set of the lengths for which it  *)
(* holds (Induct).                                                         *)
(***************************************************************************)
EXTENDS Decisions, WellFoundedInduction, FiniteSetTheorems, TLAPS

-----------------------------------------------------------------------------
(* Induction over numbers, in a form the provers can use. *)

\* A nonempty set of numbers has a least one.
LEMMA LeastOne ==
  ASSUME NEW T \in SUBSET Nat, T # {}
  PROVE  \E n \in T : \A m \in T : n <= m
<1> DEFINE R == {ss \in Nat \X Nat : ss[1] < ss[2]}
<1>1. \A x, y \in Nat : <<x, y>> \in R <=> x < y
  OBVIOUS
<1>2. IsWellFoundedOn(R, Nat)
  BY NatLessThanWellFounded DEF OpToRel
<1> HIDE DEF R
<1>3. PICK x \in T : \A y \in T : ~(<<y, x>> \in R)
  BY <1>2, WFMin
<1>4. ASSUME NEW y \in T PROVE x <= y
  <2>1. x \in Nat /\ y \in Nat
    OBVIOUS
  <2>2. ~(<<y, x>> \in R)
    BY <1>3
  <2>3. ~(y < x)
    BY <1>1, <2>1, <2>2
  <2> QED
    BY <2>1, <2>3
<1> QED
  BY <1>3, <1>4

\* A set that has zero and with each number the next one has all of them.
LEMMA Induct ==
  ASSUME NEW S, 0 \in S, \A n \in Nat : n \in S => n + 1 \in S
  PROVE  Nat \subseteq S
<1> SUFFICES ASSUME ~(Nat \subseteq S) PROVE FALSE
  OBVIOUS
<1>1. PICK n \in Nat \ S : \A m \in Nat \ S : n <= m
  BY LeastOne
<1>2. n # 0 /\ n - 1 \in Nat /\ n - 1 \in S
  BY <1>1
<1> QED
  BY <1>1, <1>2

\* A recursion over the first N numbers, whose step is a function, has a solution.
Unfolds(f, V, base, N, step) ==
  f \in [0 .. N -> V] /\ f[0] = base /\ \A n \in 1 .. N : f[n] = step[<<n, f[n - 1]>>]

LEMMA Recursion ==
  ASSUME NEW V, NEW base \in V, NEW N \in Nat, NEW step \in [(1 .. N) \X V -> V]
  PROVE  \E f : Unfolds(f, V, base, N, step)
<1> DEFINE Solves(f, n) == f[0] = base /\ \A m \in 1 .. n : f[m] = step[<<m, f[m - 1]>>]
           S == {n \in Nat : n <= N => \E f \in [0 .. n -> V] : Solves(f, n)}
<1>1. 0 \in S
  <2> DEFINE f == [m \in 0 .. 0 |-> base]
  <2>1. f \in [0 .. 0 -> V] /\ Solves(f, 0)
    OBVIOUS
  <2> QED
    BY <2>1
<1>2. ASSUME NEW n \in Nat, n \in S PROVE n + 1 \in S
  <2> SUFFICES ASSUME n + 1 <= N PROVE \E f \in [0 .. n + 1 -> V] : Solves(f, n + 1)
    OBVIOUS
  <2>1. PICK f \in [0 .. n -> V] : Solves(f, n)
    BY <1>2
  <2> DEFINE g == [m \in 0 .. n + 1 |-> IF m <= n THEN f[m] ELSE step[<<n + 1, f[n]>>]]
  <2>2. g \in [0 .. n + 1 -> V]
    OBVIOUS
  <2>3. g[n + 1] = step[<<n + 1, f[n]>>] /\ \A m \in 0 .. n : g[m] = f[m]
    OBVIOUS
  <2> HIDE DEF g
  <2>4. \A m \in 1 .. n + 1 : g[m] = step[<<m, g[m - 1]>>]
    <3> TAKE m \in 1 .. n + 1
    <3>1. CASE m \in 1 .. n
      <4>1. g[m] = f[m] /\ g[m - 1] = f[m - 1]
        BY <2>3, <3>1
      <4> QED
        BY <2>1, <3>1, <4>1
    <3>2. CASE m = n + 1
      BY <2>3, <3>2
    <3> QED
      BY <3>1, <3>2
  <2>5. g[0] = base
    BY <2>1, <2>3
  <2> QED
    BY <2>2, <2>4, <2>5
<1> HIDE DEF S
<1>3. N \in S
  BY <1>1, <1>2, Induct
<1> QED
  BY <1>3 DEF S, Unfolds

-----------------------------------------------------------------------------
(* Lists: what is kept of one, once, joined, inserted into and cut. *)

LEMMA ToSetIs ==
  ASSUME NEW T, NEW s \in Seq(T)
  PROVE  /\ DOMAIN s = 1 .. Len(s) /\ Len(s) \in Nat
         /\ ToSet(s) \subseteq T
         /\ \A i \in 1 .. Len(s) : s[i] \in ToSet(s)
         /\ \A x \in ToSet(s) : \E i \in 1 .. Len(s) : x = s[i]
  BY DEF ToSet

\* A list and one more.
LEMMA OneMore ==
  ASSUME NEW T, NEW s \in Seq(T), NEW x \in T
  PROVE  /\ s \o <<x>> \in Seq(T)
         /\ ToSet(s \o <<x>>) = ToSet(s) \cup {x}
         /\ Len(s \o <<x>>) = Len(s) + 1 /\ (s \o <<x>>)[Len(s) + 1] = x
         /\ \A i \in 1 .. Len(s) : (s \o <<x>>)[i] = s[i]
         /\ IsInjective(s) /\ x \notin ToSet(s) => IsInjective(s \o <<x>>)
<1> DEFINE t == s \o <<x>>
           n == Len(s)
<1>1. /\ n \in Nat /\ DOMAIN s = 1 .. n /\ DOMAIN t = 1 .. n + 1 /\ t \in Seq(T) /\ Len(t) = n + 1
      /\ t[n + 1] = x /\ \A i \in 1 .. n : t[i] = s[i]
  OBVIOUS
<1> HIDE DEF t, n
<1>2. \A i \in 1 .. n + 1 : i \in 1 .. n \/ i = n + 1
  BY <1>1
<1>3. n + 1 \in 1 .. n + 1 /\ \A i \in 1 .. n : i \in 1 .. n + 1
  BY <1>1
<1>4. ToSet(t) = ToSet(s) \cup {x}
  BY <1>1, <1>2, <1>3 DEF ToSet
<1>5. ASSUME IsInjective(s), x \notin ToSet(s) PROVE IsInjective(t)
  <2>1. \A i \in 1 .. n : s[i] # x
    BY <1>1, <1>5 DEF ToSet
  <2> QED
    BY <1>1, <1>2, <1>5, <2>1 DEF IsInjective
<1> QED
  BY <1>1, <1>4, <1>5 DEF t, n

KeptUpTo(s, I) ==
  CHOOSE kept : kept = [n \in 0 .. Len(s) |-> IF n = 0 THEN <<>> ELSE kept[n - 1] \o When(n \in I, <<s[n]>>)]

LEMMA KeptIs == ASSUME NEW s, NEW I PROVE Kept(s, I) = KeptUpTo(s, I)[Len(s)]
  BY DEF Kept, KeptUpTo

\* KeptUpTo is what its recursion says.
LEMMA KeptStep ==
  ASSUME NEW T, NEW s \in Seq(T), NEW I
  PROVE  /\ KeptUpTo(s, I)[0] = <<>>
         /\ \A n \in 1 .. Len(s) :
              KeptUpTo(s, I)[n] = IF n \in I THEN KeptUpTo(s, I)[n - 1] \o <<s[n]>> ELSE KeptUpTo(s, I)[n - 1] \o <<>>
<1> DEFINE N == Len(s)
           V == Seq(T)
           More(n, t) == t \o When(n \in I, <<s[n]>>)
           step == [p \in (1 .. N) \X V |-> More(p[1], p[2])]
           Is(f) == f = [n \in 0 .. N |-> IF n = 0 THEN <<>> ELSE More(n, f[n - 1])]
<1>1. N \in Nat /\ <<>> \in V
  OBVIOUS
<1>2. ASSUME NEW n \in 1 .. N, NEW t \in V PROVE More(n, t) \in V
  BY <1>2 DEF When
<1>3. step \in [(1 .. N) \X V -> V] /\ \A n \in 1 .. N, t \in V : step[<<n, t>>] = More(n, t)
  <2> HIDE DEF More, V
  <2> QED
    BY <1>2
<1> HIDE DEF N, V, More, step
<1>4. PICK f : Unfolds(f, V, <<>>, N, step)
  BY <1>1, <1>3, Recursion
<1>5. \A n \in 1 .. N : f[n] = More(n, f[n - 1])
  <2> TAKE n \in 1 .. N
  <2>1. n - 1 \in 0 .. N /\ f[n - 1] \in V
    BY <1>1, <1>4 DEF Unfolds
  <2> QED
    BY <1>3, <1>4, <2>1 DEF Unfolds
<1>6. \A n \in 0 .. N : f[n] = IF n = 0 THEN <<>> ELSE More(n, f[n - 1])
  BY <1>1, <1>4, <1>5 DEF Unfolds
<1>7. f = [n \in 0 .. N |-> f[n]]
  BY <1>4 DEF Unfolds
<1>8. Is(f)
  BY <1>6, <1>7
<1>9. KeptUpTo(s, I) = CHOOSE g : Is(g)
  BY DEF KeptUpTo, N, More
<1>10. Is(KeptUpTo(s, I))
  <2> HIDE DEF Is
  <2> QED
    BY <1>8, <1>9
<1>11. \A n \in 1 .. N : KeptUpTo(s, I)[n] = More(n, KeptUpTo(s, I)[n - 1])
  BY <1>1, <1>10
<1>12. KeptUpTo(s, I)[0] = <<>>
  BY <1>1, <1>10
<1> QED
  BY <1>11, <1>12 DEF N, More, When

\* Kept keeps the elements at I and no others, in their order.
LEMMA KeptFacts ==
  ASSUME NEW T, NEW s \in Seq(T), NEW I
  PROVE  /\ Kept(s, I) \in Seq(T)
         /\ ToSet(Kept(s, I)) = {s[i] : i \in I \cap (1 .. Len(s))}
         /\ (\A i, j \in I \cap (1 .. Len(s)) : s[i] = s[j] => i = j) => IsInjective(Kept(s, I))
         /\ 1 .. Len(s) \subseteq I => Kept(s, I) = s
<1> DEFINE N == Len(s)
           out == KeptUpTo(s, I)
           Once == \A i, j \in I \cap (1 .. N) : s[i] = s[j] => i = j
           There(n) == {s[i] : i \in I \cap (1 .. n)}
           Fine(n) == /\ out[n] \in Seq(T)
                      /\ ToSet(out[n]) = There(n)
                      /\ Once => IsInjective(out[n])
                      /\ 1 .. N \subseteq I => Len(out[n]) = n /\ \A i \in 1 .. n : out[n][i] = s[i]
           S == {n \in Nat : n <= N => Fine(n)}
<1>1. N \in Nat /\ DOMAIN s = 1 .. N /\ \A n \in 1 .. N : s[n] \in T
  OBVIOUS
<1>2. out[0] = <<>> /\ \A n \in 1 .. N : out[n] = IF n \in I THEN out[n - 1] \o <<s[n]>> ELSE out[n - 1] \o <<>>
  BY KeptStep
<1> HIDE DEF N, out
<1>3. 0 \in S
  <2>1. ToSet(<<>>) = {} /\ IsInjective(<<>>)
    BY DEF ToSet, IsInjective
  <2>2. There(0) = {}
    OBVIOUS
  <2>3. <<>> \in Seq(T) /\ Len(<<>>) = 0
    OBVIOUS
  <2>4. Fine(0)
    BY <1>2, <2>1, <2>2, <2>3
  <2> HIDE DEF Fine
  <2> QED
    BY <2>4
<1>4. ASSUME NEW n \in Nat, n \in S PROVE n + 1 \in S
  <2> SUFFICES ASSUME n + 1 <= N PROVE Fine(n + 1)
    OBVIOUS
  <2>1. Fine(n) /\ n + 1 \in 1 .. N
    BY <1>1, <1>4
  <2>2. out[n + 1] = IF n + 1 \in I THEN out[n] \o <<s[n + 1]>> ELSE out[n] \o <<>>
    BY <1>1, <1>2, <2>1
  <2>3. CASE n + 1 \in I
    <3> DEFINE x == s[n + 1]
               t == out[n]
    <3>1. x \in T /\ t \in Seq(T) /\ out[n + 1] = t \o <<x>>
      BY <1>1, <2>1, <2>2, <2>3
    <3>2. There(n + 1) = There(n) \cup {x}
      <4>1. \A i : i \in 1 .. n + 1 <=> i \in 1 .. n \/ i = n + 1
        OBVIOUS
      <4> QED
        BY <2>3, <4>1
    <3>3. Once => x \notin There(n)
      <4>1. \A i \in 1 .. n : i \in 1 .. N /\ i # n + 1
        BY <1>1, <2>1
      <4> QED
        BY <2>1, <2>3, <4>1
    <3>4. /\ Once => IsInjective(t)
          /\ ToSet(t) = There(n)
          /\ 1 .. N \subseteq I => Len(t) = n /\ \A i \in 1 .. n : t[i] = s[i]
      BY <2>1
    <3> HIDE DEF x, t, Once, There
    <3>5. /\ ToSet(out[n + 1]) = There(n + 1)
          /\ Once => IsInjective(out[n + 1])
          /\ out[n + 1] \in Seq(T)
      <4> DEFINE u == t \o <<x>>
      <4>1. u \in Seq(T) /\ ToSet(u) = ToSet(t) \cup {x} /\ (IsInjective(t) /\ x \notin ToSet(t) => IsInjective(u))
        BY <3>1, OneMore
      <4> HIDE DEF u
      <4>2. ToSet(u) = There(n + 1) /\ (Once => IsInjective(u))
        BY <3>2, <3>3, <3>4, <4>1
      <4> QED
        BY <3>1, <4>1, <4>2 DEF u
    <3>6. ASSUME 1 .. N \subseteq I PROVE Len(out[n + 1]) = n + 1 /\ \A i \in 1 .. n + 1 : out[n + 1][i] = s[i]
      <4>1. Len(t) = n /\ \A i \in 1 .. n : t[i] = s[i]
        BY <3>4, <3>6
      <4>2. Len(t \o <<x>>) = n + 1 /\ (t \o <<x>>)[n + 1] = x /\ \A i \in 1 .. n : (t \o <<x>>)[i] = t[i]
        BY <3>1, <4>1, OneMore
      <4>3. \A i \in 1 .. n + 1 : i \in 1 .. n \/ i = n + 1
        OBVIOUS
      <4> QED
        BY <3>1, <4>1, <4>2, <4>3 DEF x
    <3> QED
      BY <3>5, <3>6
  <2>4. CASE n + 1 \notin I
    <3>1. out[n + 1] = out[n]
      BY <2>1, <2>2, <2>4
    <3>2. There(n + 1) = There(n)
      <4>1. \A i : i \in 1 .. n + 1 <=> i \in 1 .. n \/ i = n + 1
        OBVIOUS
      <4> QED
        BY <2>4, <4>1
    <3>3. ~(1 .. N \subseteq I)
      BY <2>1, <2>4
    <3> HIDE DEF Once, There
    <3> QED
      BY <2>1, <3>1, <3>2, <3>3
  <2> QED
    BY <2>3, <2>4
<1> HIDE DEF S
<1>5. N \in S
  BY <1>1, <1>3, <1>4, Induct
<1>6. Fine(N)
  BY <1>1, <1>5 DEF S
<1>7. Kept(s, I) = out[N]
  BY KeptIs DEF out, N
<1>8. 1 .. N \subseteq I => out[N] = s
  <2> SUFFICES ASSUME 1 .. N \subseteq I PROVE out[N] = s
    OBVIOUS
  <2>1. out[N] \in Seq(T) /\ Len(out[N]) = Len(s) /\ \A i \in 1 .. Len(s) : out[N][i] = s[i]
    BY <1>6 DEF N
  <2> QED
    BY <2>1
<1> QED
  BY <1>6, <1>7, <1>8 DEF N

\* Only keeps what S has; Distinct, everything, once.
LEMMA OnlyFacts ==
  ASSUME NEW T, NEW s \in Seq(T), NEW S
  PROVE  /\ Only(s, S) \in Seq(T)
         /\ ToSet(Only(s, S)) = ToSet(s) \cap S
         /\ IsInjective(s) => IsInjective(Only(s, S))
         /\ ToSet(s) \subseteq S => Only(s, S) = s
<1> DEFINE I == {i \in DOMAIN s : s[i] \in S}
<1>1. Only(s, S) = Kept(s, I) /\ DOMAIN s = 1 .. Len(s)
  BY DEF Only
<1>2. {s[i] : i \in I \cap (1 .. Len(s))} = ToSet(s) \cap S
  BY <1>1 DEF ToSet
<1>3. IsInjective(s) => \A i, j \in I \cap (1 .. Len(s)) : s[i] = s[j] => i = j
  BY <1>1 DEF IsInjective
<1>4. ToSet(s) \subseteq S => 1 .. Len(s) \subseteq I
  BY <1>1 DEF ToSet
<1> HIDE DEF I
<1> QED
  BY <1>1, <1>2, <1>3, <1>4, KeptFacts

LEMMA DistinctFacts ==
  ASSUME NEW T, NEW s \in Seq(T)
  PROVE  /\ Distinct(s) \in Seq(T)
         /\ ToSet(Distinct(s)) = ToSet(s)
         /\ IsInjective(Distinct(s))
         /\ IsInjective(s) => Distinct(s) = s
<1> DEFINE N == Len(s)
           I == {i \in DOMAIN s : \A j \in 1 .. i - 1 : s[j] # s[i]}
<1>1. Distinct(s) = Kept(s, I) /\ DOMAIN s = 1 .. N /\ N \in Nat
  BY DEF Distinct
<1> HIDE DEF N
<1>2. \A i \in I \cap (1 .. N) : i \in 1 .. N /\ \A j \in 1 .. i - 1 : s[j] # s[i]
  OBVIOUS
<1>3. \A i, j \in I \cap (1 .. N) : s[i] = s[j] => i = j
  <2> SUFFICES ASSUME NEW i \in I \cap (1 .. N), NEW j \in I \cap (1 .. N), s[i] = s[j], i < j PROVE FALSE
    <3>1. \A i \in I \cap (1 .. N) : i \in Nat
      BY <1>1
    <3> QED
      BY <3>1
  <2>1. i \in 1 .. j - 1
    BY <1>1, <1>2
  <2> QED
    BY <1>2, <2>1
<1>4. ASSUME NEW i \in 1 .. N PROVE \E j \in I \cap (1 .. N) : s[j] = s[i]
  <2> DEFINE A == {j \in 1 .. N : s[j] = s[i]}
  <2>1. A \in SUBSET Nat /\ A # {} /\ \A j \in A : j \in 1 .. N /\ s[j] = s[i]
    BY <1>1
  <2>2. \A j \in 1 .. N : s[j] = s[i] => j \in A
    OBVIOUS
  <2> HIDE DEF A
  <2>3. PICK j \in A : \A l \in A : j <= l
    BY <2>1, LeastOne
  <2>4. \A l \in 1 .. j - 1 : s[l] # s[j]
    <3> SUFFICES ASSUME NEW l \in 1 .. j - 1, s[l] = s[j] PROVE FALSE
      OBVIOUS
    <3>1. l \in 1 .. N /\ j \in 1 .. N
      BY <1>1, <2>1
    <3>2. l \in A
      BY <2>1, <2>2, <3>1
    <3> QED
      BY <2>3, <3>1, <3>2
  <2> QED
    BY <1>1, <2>1, <2>3, <2>4
<1>5. {s[i] : i \in I \cap (1 .. N)} = ToSet(s)
  BY <1>1, <1>4 DEF ToSet
<1>6. IsInjective(s) => 1 .. N \subseteq I
  <2> SUFFICES ASSUME IsInjective(s), NEW i \in 1 .. N, NEW j \in 1 .. i - 1, s[j] = s[i] PROVE FALSE
    BY <1>1
  <2>1. j \in 1 .. N /\ j # i
    BY <1>1
  <2> QED
    BY <1>1, <2>1 DEF IsInjective
<1> HIDE DEF I
<1>7. /\ Kept(s, I) \in Seq(T)
      /\ ToSet(Kept(s, I)) = {s[i] : i \in I \cap (1 .. N)}
      /\ (\A i, j \in I \cap (1 .. N) : s[i] = s[j] => i = j) => IsInjective(Kept(s, I))
      /\ 1 .. N \subseteq I => Kept(s, I) = s
  BY KeptFacts DEF N
<1> QED
  BY <1>1, <1>3, <1>5, <1>6, <1>7

\* An insertion adds one and moves the others.
LEMMA InsertFacts ==
  ASSUME NEW T, NEW s \in Seq(T), NEW x \in T, NEW p \in 1 .. Len(s) + 1
  PROVE  /\ InsertAt(s, p, x) \in Seq(T)
         /\ ToSet(InsertAt(s, p, x)) = ToSet(s) \cup {x}
         /\ IsInjective(s) /\ x \notin ToSet(s) => IsInjective(InsertAt(s, p, x))
<1> DEFINE n == Len(s)
           t == InsertAt(s, p, x)
           before == SubSeq(s, 1, p - 1)
           after == SubSeq(s, p, n)
<1>1. n \in Nat /\ DOMAIN s = 1 .. n /\ p \in 1 .. n + 1
  OBVIOUS
<1>2. /\ before \in Seq(T) /\ Len(before) = p - 1 /\ \A i \in 1 .. p - 1 : before[i] = s[i]
  OBVIOUS
<1>3. /\ after \in Seq(T) /\ Len(after) = n + 1 - p /\ \A i \in 1 .. n + 1 - p : after[i] = s[i + p - 1]
  OBVIOUS
<1>4. t = before \o <<x>> \o after
  BY DEF InsertAt
<1> HIDE DEF before, after, n, t
<1>5. /\ before \o <<x>> \in Seq(T) /\ Len(before \o <<x>>) = p /\ (before \o <<x>>)[p] = x
      /\ \A i \in 1 .. p - 1 : (before \o <<x>>)[i] = before[i]
  BY <1>1, <1>2
<1> DEFINE b == before \o <<x>>
<1>6. /\ t \in Seq(T) /\ Len(t) = n + 1
      /\ \A i \in 1 .. p : t[i] = b[i]
      /\ \A i \in p + 1 .. n + 1 : t[i] = after[i - p]
  <2> HIDE DEF b
  <2>1. t = b \o after
    BY <1>4 DEF b
  <2>2. b \in Seq(T) /\ Len(b) = p
    BY <1>5 DEF b
  <2> QED
    <3>1. Len(b \o after) = Len(b) + Len(after) /\ b \o after \in Seq(T)
      BY <1>3, <2>2
    <3>2. \A i \in 1 .. Len(b) + Len(after) :
            (b \o after)[i] = IF i <= Len(b) THEN b[i] ELSE after[i - Len(b)]
      BY <1>3, <2>2
    <3>3. Len(b) = p /\ Len(b) + Len(after) = n + 1
      BY <1>1, <1>3, <2>2
    <3> HIDE DEF t
    <3>4. t \in Seq(T) /\ Len(t) = n + 1 /\ \A i \in 1 .. n + 1 : t[i] = IF i <= p THEN b[i] ELSE after[i - p]
      BY <2>1, <3>1, <3>2, <3>3
    <3> QED
      BY <1>1, <3>4
<1>7. /\ DOMAIN t = 1 .. n + 1 /\ t[p] = x
      /\ \A i \in 1 .. p - 1 : t[i] = s[i]
      /\ \A i \in p + 1 .. n + 1 : t[i] = s[i - 1]
  BY <1>1, <1>2, <1>3, <1>5, <1>6
<1> HIDE DEF b
<1>8. ToSet(t) = ToSet(s) \cup {x}
  <2>1. ASSUME NEW i \in 1 .. n + 1 PROVE t[i] \in ToSet(s) \cup {x}
    <3>1. (i \in 1 .. p - 1 /\ i \in 1 .. n) \/ i = p \/ (i \in p + 1 .. n + 1 /\ i - 1 \in 1 .. n)
      BY <1>1
    <3> QED
      BY <1>1, <1>7, <3>1 DEF ToSet
  <2>2. ASSUME NEW i \in 1 .. n PROVE \E j \in 1 .. n + 1 : s[i] = t[j]
    <3>1. CASE i < p
      <4>1. i \in 1 .. p - 1 /\ i \in 1 .. n + 1
        BY <1>1, <3>1
      <4> QED
        BY <1>7, <4>1
    <3>2. CASE ~(i < p)
      <4>1. i + 1 \in p + 1 .. n + 1 /\ i + 1 \in 1 .. n + 1 /\ (i + 1) - 1 = i
        BY <1>1, <3>2
      <4> QED
        BY <1>7, <4>1
    <3> QED
      BY <3>1, <3>2
  <2>3. \E j \in 1 .. n + 1 : x = t[j]
    BY <1>1, <1>7
  <2> QED
    BY <1>1, <1>7, <2>1, <2>2, <2>3 DEF ToSet
<1>9. ASSUME IsInjective(s), x \notin ToSet(s) PROVE IsInjective(t)
  <2>1. \A i \in 1 .. n : s[i] # x
    BY <1>1, <1>9 DEF ToSet
  <2>2. \A i, j \in 1 .. n : s[i] = s[j] => i = j
    BY <1>1, <1>9 DEF IsInjective
  <2> SUFFICES ASSUME NEW i \in 1 .. n + 1, NEW j \in 1 .. n + 1, t[i] = t[j], i < j PROVE FALSE
    <3>1. \A i \in 1 .. n + 1 : i \in Int
      OBVIOUS
    <3> QED
      BY <1>7, <3>1 DEF IsInjective
  <2>3. CASE j < p
    BY <1>1, <1>7, <2>2, <2>3
  <2>4. CASE j = p
    <3>1. i \in 1 .. p - 1 /\ i \in 1 .. n
      BY <1>1, <2>4
    <3> QED
      BY <1>7, <2>1, <2>4, <3>1
  <2>5. CASE j > p
    <3>1. j \in p + 1 .. n + 1 /\ j - 1 \in 1 .. n
      BY <1>1, <2>5
    <3>2. CASE i < p
      <4>1. i \in 1 .. p - 1 /\ i \in 1 .. n /\ i # j - 1
        BY <1>1, <2>5, <3>2
      <4> QED
        BY <1>7, <2>2, <3>1, <4>1
    <3>3. CASE i = p
      BY <1>7, <2>1, <3>1, <3>3
    <3>4. CASE i > p
      <4>1. i \in p + 1 .. n + 1 /\ i - 1 \in 1 .. n /\ i - 1 # j - 1
        BY <1>1, <3>4
      <4> QED
        BY <1>7, <2>2, <3>1, <4>1
    <3> QED
      BY <1>1, <3>2, <3>3, <3>4
  <2> QED
    BY <1>1, <2>3, <2>4, <2>5
<1> QED
  BY <1>6, <1>8, <1>9 DEF t

LEMMA Concatenated ==
  ASSUME NEW T, NEW s \in Seq(T), NEW t \in Seq(T)
  PROVE  /\ s \o t \in Seq(T) /\ Len(s \o t) = Len(s) + Len(t)
         /\ \A i \in 1 .. Len(s) + Len(t) : (s \o t)[i] = IF i <= Len(s) THEN s[i] ELSE t[i - Len(s)]
  OBVIOUS

\* What a concatenation has.
LEMMA Joined ==
  ASSUME NEW T, NEW s \in Seq(T), NEW t \in Seq(T)
  PROVE  /\ s \o t \in Seq(T)
         /\ ToSet(s \o t) = ToSet(s) \cup ToSet(t)
<1> DEFINE u == s \o t
           n == Len(s)
           m == Len(t)
<1>1. /\ n \in Nat /\ m \in Nat /\ DOMAIN s = 1 .. n /\ DOMAIN t = 1 .. m
      /\ u \in Seq(T) /\ DOMAIN u = 1 .. n + m
      /\ \A i \in 1 .. n + m : u[i] = IF i <= n THEN s[i] ELSE t[i - n]
  OBVIOUS
<1> HIDE DEF u, n, m
<1>2. \A i \in 1 .. n : i \in 1 .. n + m /\ u[i] = s[i]
  BY <1>1
<1>3. \A i \in 1 .. m : i + n \in 1 .. n + m /\ u[i + n] = t[i]
  BY <1>1
<1>4. \A i \in 1 .. n + m : (i \in 1 .. n /\ u[i] = s[i]) \/ (i - n \in 1 .. m /\ u[i] = t[i - n])
  BY <1>1
<1>5. ToSet(u) = ToSet(s) \cup ToSet(t)
  <2>1. ToSet(u) \subseteq ToSet(s) \cup ToSet(t)
    BY <1>1, <1>4 DEF ToSet
  <2>2. ToSet(s) \subseteq ToSet(u)
    BY <1>1, <1>2 DEF ToSet
  <2>3. ASSUME NEW x \in ToSet(t) PROVE x \in ToSet(u)
    <3>1. PICK i \in 1 .. m : x = t[i]
      BY <1>1 DEF ToSet
    <3>2. i + n \in 1 .. n + m /\ u[i + n] = x
      BY <1>3, <3>1
    <3> QED
      BY <1>1, <3>2 DEF ToSet
  <2> QED
    BY <2>1, <2>2, <2>3
<1> QED
  BY <1>1, <1>5 DEF u

LEMMA JoinedTwice ==
  ASSUME NEW T, NEW s \in Seq(T), NEW t \in Seq(T), NEW r \in Seq(T)
  PROVE  /\ s \o t \o r \in Seq(T)
         /\ ToSet(s) \subseteq ToSet(s \o t \o r)
         /\ ToSet(r) \subseteq ToSet(s \o t \o r)
<1> DEFINE u == s \o t
<1>1. u \in Seq(T) /\ ToSet(s) \subseteq ToSet(u)
  BY Joined
<1> HIDE DEF u
<1>2. u \o r \in Seq(T) /\ ToSet(u \o r) = ToSet(u) \cup ToSet(r)
  BY <1>1, Joined
<1>3. u \o r \in Seq(T) /\ ToSet(s) \subseteq ToSet(u \o r) /\ ToSet(r) \subseteq ToSet(u \o r)
  BY <1>1, <1>2
<1> QED
  BY <1>3 DEF u

LEMMA OnlyOne ==
  ASSUME NEW T, NEW x \in T, NEW condition
  PROVE  When(condition, <<x>>) \in Seq(T) /\ <<x>> \in Seq(T) /\ x \in ToSet(<<x>>)
<1>1. <<x>> \in Seq(T) /\ <<>> \in Seq(T) /\ DOMAIN <<x>> = {1} /\ <<x>>[1] = x
  OBVIOUS
<1> QED
  BY <1>1 DEF When, ToSet

\* A list whose elements are in U is one of U's.
LEMMA Narrowed ==
  ASSUME NEW T, NEW U, NEW s \in Seq(T), ToSet(s) \subseteq U
  PROVE  s \in Seq(U)
  BY ToSetIs

-----------------------------------------------------------------------------
(* The signup. *)

\* What the rules and Claude may rank.
Named == KnownModules \ {"creators"}

\* Needs that packages can be built of, with all that a is sure to get.
Fine(needs, a) == needs \in Seq(Named) /\ IsInjective(needs) /\ Pinned(a) \subseteq ToSet(needs)

Sane(a) == a.sectors \in Seq(STRING) /\ a.modules \in Seq(Asked)

LEMMA AreaKnown == ASSUME NEW a, NEW m \in Asked PROVE Area(a, m) \in Named
  BY DEF Area, Asked, Named, KnownModules, OpsAreas, GrowthAreas

\* What SuggestModules wishes is known, once, with all that is sure.
LEMMA SuggestFacts ==
  ASSUME NEW a, Sane(a), NEW plan
  PROVE  /\ SuggestModules(a, plan) \in Seq(KnownModules)
         /\ IsInjective(SuggestModules(a, plan))
         /\ Pinned(a) \subseteq ToSet(SuggestModules(a, plan))
<1> DEFINE T == KnownModules
           sectors == ToSet(a.sectors)
           own == Only(a.sectors, DOMAIN SectorModule)
           L1 == <<"analitica">>
           L2 == When("datos_dispersos" \in a.painPoints \/ a.management = "varias", <<"unificacion">>)
           L3 == When(a.management \in {"papel", "excel", "nada"}, <<"erp">>)
           L4 == <<Area(a, "sitio_web")>>
           L5 == When("ninguna" \in a.socialNetworks, <<"redes_creacion">>)
           L6 == When("ninguna" \notin a.socialNetworks /\ a.socialNetworks # {}, <<"redes">>)
           L7 == When(a.messagingApps \cap {"whatsapp", "whatsapp_business"} # {}, <<"whatsapp">>)
           L8 == When("restaurantes" \in sectors, <<"vencimientos">>)
           L9 == When({"comercio", "restaurantes", "manufactura"} \cap sectors # {}, <<"inventario">>)
           L10 == When(a.unsoldHandling \in {"se_pierde", "bodega"}, <<"mermas">>)
           L11 == [i \in DOMAIN own |-> SectorModule[own[i]]]
           L12 == [i \in DOMAIN a.modules |-> Area(a, a.modules[i])]
           L13 == When(plan = "todo", <<"creators">>)
           wished == L1 \o L2 \o L3 \o L4 \o L5 \o L6 \o L7 \o L8 \o L9 \o L10 \o L11 \o L12 \o L13
<1>1. SuggestModules(a, plan) = Only(Distinct(wished), T)
  BY DEF SuggestModules
<1>2. L1 \in Seq(T) /\ "analitica" \in ToSet(L1)
  BY OnlyOne DEF KnownModules
<1>3. Area(a, "sitio_web") \in T
  BY AreaKnown DEF Asked, Named
<1>4. /\ L2 \in Seq(T) /\ L3 \in Seq(T) /\ L4 \in Seq(T) /\ L5 \in Seq(T) /\ L6 \in Seq(T) /\ L7 \in Seq(T)
      /\ L8 \in Seq(T) /\ L9 \in Seq(T) /\ L10 \in Seq(T) /\ L13 \in Seq(T)
  <2>1. {"unificacion", "erp", "redes_creacion", "redes", "whatsapp", "vencimientos", "inventario", "mermas", "creators"} \subseteq T
    BY DEF KnownModules, OpsAreas
  <2> HIDE DEF T
  <2>2. L2 \in Seq(T) /\ L3 \in Seq(T)
    BY <2>1, OnlyOne
  <2>3. L4 \in Seq(T)
    BY <1>3, OnlyOne
  <2>4. L5 \in Seq(T) /\ L6 \in Seq(T)
    BY <2>1, OnlyOne
  <2>5. L7 \in Seq(T) /\ L8 \in Seq(T)
    BY <2>1, OnlyOne
  <2>6. L9 \in Seq(T) /\ L10 \in Seq(T)
    BY <2>1, OnlyOne
  <2>7. L13 \in Seq(T)
    BY <2>1, OnlyOne
  <2> QED
    BY <2>2, <2>3, <2>4, <2>5, <2>6, <2>7
<1>5. L11 \in Seq(T)
  <2>1. own \in Seq(STRING) /\ ToSet(own) \subseteq DOMAIN SectorModule
    BY OnlyFacts DEF Sane
  <2>2. \A x \in DOMAIN SectorModule : SectorModule[x] \in T
    BY DEF SectorModule, KnownModules, OpsAreas
  <2> HIDE DEF own, T
  <2>3. DOMAIN own = 1 .. Len(own) /\ Len(own) \in Nat /\ \A i \in 1 .. Len(own) : own[i] \in ToSet(own)
    BY <2>1, ToSetIs
  <2>4. \A i \in 1 .. Len(own) : SectorModule[own[i]] \in T
    BY <2>1, <2>2, <2>3
  <2> QED
    BY <2>3, <2>4
<1>6. L12 \in Seq(T) /\ \A m \in ToSet(a.modules) : Area(a, m) \in ToSet(L12)
  <2>1. DOMAIN a.modules = 1 .. Len(a.modules) /\ Len(a.modules) \in Nat
        /\ \A i \in 1 .. Len(a.modules) : a.modules[i] \in Asked
    BY DEF Sane
  <2>2. \A i \in 1 .. Len(a.modules) : Area(a, a.modules[i]) \in T
    BY <2>1, AreaKnown DEF Named
  <2> HIDE DEF T
  <2> QED
    BY <2>1, <2>2 DEF ToSet
<1> HIDE DEF L1, L2, L3, L4, L5, L6, L7, L8, L9, L10, L11, L12, L13, T
<1> DEFINE P10 == L1 \o L2 \o L3 \o L4 \o L5 \o L6 \o L7 \o L8 \o L9 \o L10
           P12 == P10 \o L11 \o L12
<1>7. P10 \in Seq(T) /\ ToSet(L1) \subseteq ToSet(P10)
  <2> DEFINE P2 == L1 \o L2
             P4 == P2 \o L3 \o L4
             P6 == P4 \o L5 \o L6
             P8 == P6 \o L7 \o L8
  <2>1. P2 \in Seq(T) /\ ToSet(L1) \subseteq ToSet(P2)
    BY <1>2, <1>4, Joined
  <2> HIDE DEF P2
  <2>2. P4 \in Seq(T) /\ ToSet(P2) \subseteq ToSet(P4)
    BY <1>4, <2>1, JoinedTwice
  <2> HIDE DEF P4
  <2>3. P6 \in Seq(T) /\ ToSet(P4) \subseteq ToSet(P6)
    BY <1>4, <2>2, JoinedTwice
  <2> HIDE DEF P6
  <2>4. P8 \in Seq(T) /\ ToSet(P6) \subseteq ToSet(P8)
    BY <1>4, <2>3, JoinedTwice
  <2> HIDE DEF P8
  <2>5. P8 \o L9 \o L10 \in Seq(T) /\ ToSet(P8) \subseteq ToSet(P8 \o L9 \o L10)
    BY <1>4, <2>4, JoinedTwice
  <2>6. P10 = P8 \o L9 \o L10
    BY Zenon DEF P8, P6, P4, P2
  <2> HIDE DEF P10
  <2> QED
    BY <2>1, <2>2, <2>3, <2>4, <2>5, <2>6
<1> HIDE DEF P10
<1>8. P12 \in Seq(T) /\ ToSet(P10) \subseteq ToSet(P12) /\ ToSet(L12) \subseteq ToSet(P12)
  BY <1>5, <1>6, <1>7, JoinedTwice
<1> HIDE DEF P12
<1>9. wished = P12 \o L13
  BY Zenon DEF P12, P10
<1> HIDE DEF wished
<1>10. wished \in Seq(T) /\ ToSet(P12) \subseteq ToSet(wished)
  BY <1>4, <1>8, <1>9, Joined
<1>11. Pinned(a) \subseteq ToSet(wished)
  BY <1>2, <1>6, <1>7, <1>8, <1>10 DEF Pinned
<1>12. Distinct(wished) \in Seq(T) /\ ToSet(Distinct(wished)) = ToSet(wished) /\ IsInjective(Distinct(wished))
  BY <1>10, DistinctFacts
<1>13. ToSet(wished) \subseteq T
  BY <1>10, ToSetIs
<1>14. Only(Distinct(wished), T) = Distinct(wished)
  BY <1>12, <1>13, OnlyFacts
<1> QED
  BY <1>1, <1>11, <1>12, <1>14 DEF T

LEMMA PinnedNamed == ASSUME NEW a, Sane(a) PROVE Pinned(a) \subseteq Named
<1>1. \A m \in ToSet(a.modules) : m \in Asked
  BY ToSetIs DEF Sane
<1>2. "analitica" \in Named
  BY DEF Named, KnownModules
<1> QED
  BY <1>1, <1>2, AreaKnown DEF Pinned

LEMMA RulesFine == ASSUME NEW a, Sane(a) PROVE Fine(RuleNeeds(a), a)
<1> DEFINE s == SuggestModules(a, "todo")
<1>1. s \in Seq(KnownModules) /\ IsInjective(s) /\ Pinned(a) \subseteq ToSet(s)
  BY SuggestFacts
<1>2. RuleNeeds(a) = Only(s, Named)
  BY DEF RuleNeeds, Named
<1> HIDE DEF s
<1>3. /\ Only(s, Named) \in Seq(KnownModules) /\ ToSet(Only(s, Named)) = ToSet(s) \cap Named
      /\ IsInjective(Only(s, Named))
  BY <1>1, OnlyFacts
<1>4. Only(s, Named) \in Seq(Named)
  BY <1>3, Narrowed
<1> QED
  BY <1>1, <1>2, <1>3, <1>4, PinnedNamed DEF Fine

\* What the type of the business adds is not there yet.
LEMMA TypeFine ==
  ASSUME NEW needs, NEW a, Fine(needs, a), NEW type
  PROVE  Fine(WithType(needs, type), a)
<1>1. CASE type \notin DOMAIN Profiles
  BY <1>1 DEF WithType
<1>2. CASE type \in DOMAIN Profiles
  <2> DEFINE p == Profiles[type]
             more == Only(p, ToSet(p) \ ToSet(needs))
  <2>1. WithType(needs, type) = needs \o more
    BY <1>2 DEF WithType
  <2>2. p \in Seq(Named) /\ IsInjective(p)
    <3> DEFINE services    == <<"clientes", "agenda", "finanzas", "whatsapp", "sitio_web", "tracking">>
               restaurants == <<"ventas", "inventario", "vencimientos", "mermas", "compras", "clientes", "sitio_web">>
               shops       == <<"ventas", "inventario", "compras", "clientes", "logistica", "sitio_web">>
    <3>1. p \in {services, restaurants, shops}
      BY <1>2 DEF Profiles
    <3>2. services \in Seq(Named) /\ IsInjective(services)
      BY DEF IsInjective, Named, KnownModules, OpsAreas, GrowthAreas
    <3>3. restaurants \in Seq(Named) /\ IsInjective(restaurants)
      BY DEF IsInjective, Named, KnownModules, OpsAreas, GrowthAreas
    <3>4. shops \in Seq(Named) /\ IsInjective(shops)
      BY DEF IsInjective, Named, KnownModules, OpsAreas, GrowthAreas
    <3> HIDE DEF p, services, restaurants, shops
    <3> QED
      BY <3>1, <3>2, <3>3, <3>4
  <2> HIDE DEF p
  <2>3. more \in Seq(Named) /\ IsInjective(more) /\ ToSet(more) = ToSet(p) \cap (ToSet(p) \ ToSet(needs))
    BY <2>2, OnlyFacts
  <2> HIDE DEF more
  <2>4. needs \in Seq(Named) /\ IsInjective(needs) /\ Pinned(a) \subseteq ToSet(needs)
    BY DEF Fine
  <2>5. needs \o more \in Seq(Named) /\ ToSet(needs) \subseteq ToSet(needs \o more)
    BY <2>3, <2>4, Joined
  <2>6. IsInjective(needs \o more)
    <3> DEFINE u == needs \o more
               n == Len(needs)
               m == Len(more)
    <3>1. /\ n \in Nat /\ m \in Nat /\ DOMAIN needs = 1 .. n /\ DOMAIN more = 1 .. m /\ DOMAIN u = 1 .. n + m
          /\ \A i \in 1 .. n + m : u[i] = IF i <= n THEN needs[i] ELSE more[i - n]
      BY <2>3, <2>4
    <3> HIDE DEF u, n, m
    <3>2. \A i \in 1 .. n, j \in 1 .. m : needs[i] # more[j]
      BY <2>3, <3>1 DEF ToSet
    <3>3. \A i, j \in 1 .. n : needs[i] = needs[j] => i = j
      BY <2>4, <3>1 DEF IsInjective
    <3>4. \A i, j \in 1 .. m : more[i] = more[j] => i = j
      BY <2>3, <3>1 DEF IsInjective
    <3>5. ASSUME NEW i \in 1 .. n + m, NEW j \in 1 .. n + m, u[i] = u[j] PROVE i = j
      <4>1. CASE i <= n /\ j <= n
        BY <3>1, <3>3, <3>5, <4>1
      <4>2. CASE i <= n /\ ~(j <= n)
        <5>1. i \in 1 .. n /\ j - n \in 1 .. m
          BY <3>1, <4>2
        <5> QED
          BY <3>1, <3>2, <3>5, <4>2, <5>1
      <4>3. CASE ~(i <= n) /\ j <= n
        <5>1. j \in 1 .. n /\ i - n \in 1 .. m
          BY <3>1, <4>3
        <5> QED
          BY <3>1, <3>2, <3>5, <4>3, <5>1
      <4>4. CASE ~(i <= n) /\ ~(j <= n)
        <5>1. j - n \in 1 .. m /\ i - n \in 1 .. m /\ u[i] = more[i - n] /\ u[j] = more[j - n]
          BY <3>1, <4>4
        <5>2. i - n = j - n
          BY <3>4, <3>5, <5>1
        <5> QED
          BY <3>1, <5>2
      <4> QED
        BY <4>1, <4>2, <4>3, <4>4
    <3>6. IsInjective(u)
      BY <3>1, <3>5 DEF IsInjective
    <3> QED
      BY <3>6 DEF u
  <2> QED
    BY <2>1, <2>4, <2>5, <2>6 DEF Fine
<1> QED
  BY <1>1, <1>2
LEMMA RankedFine ==
  ASSUME NEW ms \in Seq([key : STRING, reason : BOOLEAN])
  PROVE  Ranked(ms) \in Seq(Named)
<1> DEFINE s == [i \in DOMAIN ms |-> ms[i].key]
           I == {i \in DOMAIN ms : /\ ms[i].key \in KnownModules \ {"creators"}
                                   /\ \A j \in 1 .. i - 1 : ms[j].key = ms[i].key => ~ms[j].reason}
<1>1. s \in Seq(STRING) /\ DOMAIN s = DOMAIN ms
  <2> DEFINE Rank == [key : STRING, reason : BOOLEAN]
  <2>1. Len(ms) \in Nat /\ DOMAIN ms = 1 .. Len(ms) /\ \A i \in DOMAIN ms : ms[i] \in Rank
    <3> HIDE DEF Rank
    <3>1. ms \in Seq(Rank)
      BY DEF Rank
    <3> QED
      BY <3>1
  <2>2. \A x \in Rank : x.key \in STRING
    OBVIOUS
  <2> HIDE DEF Rank
  <2>3. \A i \in DOMAIN ms : ms[i].key \in STRING
    BY <2>1, <2>2
  <2> QED
    BY <2>1, <2>3
<1>2. Ranked(ms) = Kept(s, I)
  BY DEF Ranked
<1>3. \A i \in I : s[i] \in Named
  BY DEF Named
<1> HIDE DEF s, I
<1>4. Kept(s, I) \in Seq(STRING) /\ ToSet(Kept(s, I)) = {s[i] : i \in I \cap (1 .. Len(s))}
  BY <1>1, KeptFacts
<1>5. ToSet(Kept(s, I)) \subseteq Named
  BY <1>3, <1>4
<1> QED
  BY <1>2, <1>4, <1>5, Narrowed

\* Blend's parts: the sum of a module's points, where the next module goes, what
\* stays, and the first n of those sorted.
SumOf(rules, claude, k) == PointsOf(Points(rules, claude), k) + PointsOf(Points(claude, rules), k)

Place(rules, claude, s, k) ==
  1 + Cardinality({i \in DOMAIN s : SumOf(rules, claude, s[i]) >= SumOf(rules, claude, k)})

Staying(rules, claude, pinned) ==
  LET order == Distinct(rules \o claude)
  IN  Only(order, {k \in ToSet(order) : Stays(k, rules, claude, pinned)})

SortedUpTo(rules, claude, kept) ==
  CHOOSE sorted : sorted = [n \in 0 .. Len(kept) |->
    IF n = 0 THEN <<>> ELSE InsertAt(sorted[n - 1], Place(rules, claude, sorted[n - 1], kept[n]), kept[n])]

LEMMA BlendIs ==
  ASSUME NEW rules, NEW claude, NEW pinned
  PROVE  Blend(rules, claude, pinned) =
           SortedUpTo(rules, claude, Staying(rules, claude, pinned))[Len(Staying(rules, claude, pinned))]
  BY DEF Blend, SortedUpTo, Staying, Place, SumOf

LEMMA PlaceFits ==
  ASSUME NEW rules, NEW claude, NEW T, NEW s \in Seq(T), NEW k
  PROVE  Place(rules, claude, s, k) \in 1 .. Len(s) + 1
<1> DEFINE D == {i \in DOMAIN s : SumOf(rules, claude, s[i]) >= SumOf(rules, claude, k)}
           n == Len(s)
           places == 1 .. n
<1>1. n \in Nat /\ DOMAIN s = 1 .. n /\ D \in SUBSET places
  OBVIOUS
<1> HIDE DEF D, n
<1>2. IsFiniteSet(places) /\ Cardinality(places) = n
  BY <1>1, FS_Interval
<1> HIDE DEF places
<1>3. IsFiniteSet(D) /\ Cardinality(D) <= n
  BY <1>1, <1>2, FS_Subset
<1>4. Cardinality(D) \in Nat
  BY <1>3, FS_CardinalityType
<1>5. 1 + Cardinality(D) \in 1 .. n + 1
  BY <1>1, <1>3, <1>4
<1> QED
  BY <1>5 DEF Place, D, n

\* SortedUpTo is what its recursion says.
LEMMA SortedStep ==
  ASSUME NEW rules, NEW claude, NEW T, NEW kept \in Seq(T)
  PROVE  LET sorted == SortedUpTo(rules, claude, kept) IN
         /\ sorted[0] = <<>>
         /\ \A n \in 1 .. Len(kept) :
              sorted[n] = InsertAt(sorted[n - 1], Place(rules, claude, sorted[n - 1], kept[n]), kept[n])
<1> DEFINE N == Len(kept)
           V == Seq(T)
           More(n, t) == InsertAt(t, Place(rules, claude, t, kept[n]), kept[n])
           step == [p \in (1 .. N) \X V |-> More(p[1], p[2])]
           Is(f) == f = [n \in 0 .. N |-> IF n = 0 THEN <<>> ELSE More(n, f[n - 1])]
           sorted == SortedUpTo(rules, claude, kept)
<1>1. N \in Nat /\ <<>> \in V
  OBVIOUS
<1>2. ASSUME NEW n \in 1 .. N, NEW t \in V PROVE More(n, t) \in V
  <2>1. kept[n] \in T /\ Place(rules, claude, t, kept[n]) \in 1 .. Len(t) + 1
    BY PlaceFits
  <2> QED
    BY <2>1, InsertFacts
<1>3. step \in [(1 .. N) \X V -> V] /\ \A n \in 1 .. N, t \in V : step[<<n, t>>] = More(n, t)
  <2> HIDE DEF More, V
  <2> QED
    BY <1>2
<1>4. sorted = CHOOSE g : Is(g)
  BY DEF SortedUpTo
<1> HIDE DEF N, V, More, step, sorted
<1>5. PICK f : Unfolds(f, V, <<>>, N, step)
  BY <1>1, <1>3, Recursion
<1>6. \A n \in 1 .. N : f[n] = More(n, f[n - 1])
  <2> TAKE n \in 1 .. N
  <2>1. n - 1 \in 0 .. N /\ f[n - 1] \in V
    BY <1>1, <1>5 DEF Unfolds
  <2> QED
    BY <1>3, <1>5, <2>1 DEF Unfolds
<1>7. \A n \in 0 .. N : f[n] = IF n = 0 THEN <<>> ELSE More(n, f[n - 1])
  BY <1>1, <1>5, <1>6 DEF Unfolds
<1>8. f = [n \in 0 .. N |-> f[n]]
  BY <1>5 DEF Unfolds
<1>9. Is(f)
  BY <1>7, <1>8
<1>10. Is(sorted)
  <2> HIDE DEF Is
  <2> QED
    BY <1>4, <1>9
<1>11. \A n \in 1 .. N : sorted[n] = More(n, sorted[n - 1])
  BY <1>1, <1>10
<1>12. sorted[0] = <<>>
  BY <1>1, <1>10
<1> QED
  BY <1>11, <1>12 DEF N, More, sorted

\* Sorted, a list without repetitions has the elements it had.
LEMMA SortedFacts ==
  ASSUME NEW rules, NEW claude, NEW T, NEW kept \in Seq(T), IsInjective(kept)
  PROVE  LET sorted == SortedUpTo(rules, claude, kept)[Len(kept)] IN
         sorted \in Seq(T) /\ IsInjective(sorted) /\ ToSet(sorted) = ToSet(kept)
<1> DEFINE N == Len(kept)
           out == SortedUpTo(rules, claude, kept)
           There(n) == {kept[i] : i \in 1 .. n}
           Sorts(n) == out[n] \in Seq(T) /\ IsInjective(out[n]) /\ ToSet(out[n]) = There(n)
           S == {n \in Nat : n <= N => Sorts(n)}
<1>1. N \in Nat /\ DOMAIN kept = 1 .. N /\ \A n \in 1 .. N : kept[n] \in T
  OBVIOUS
<1>2. out[0] = <<>> /\ \A n \in 1 .. N : out[n] = InsertAt(out[n - 1], Place(rules, claude, out[n - 1], kept[n]), kept[n])
  BY SortedStep
<1> HIDE DEF N, out
<1>3. 0 \in S
  <2>1. ToSet(<<>>) = {} /\ IsInjective(<<>>) /\ <<>> \in Seq(T)
    BY DEF ToSet, IsInjective
  <2>2. There(0) = {}
    OBVIOUS
  <2> QED
    BY <1>2, <2>1, <2>2
<1>4. ASSUME NEW n \in Nat, n \in S PROVE n + 1 \in S
  <2> SUFFICES ASSUME n + 1 <= N PROVE Sorts(n + 1)
    OBVIOUS
  <2> DEFINE x == kept[n + 1]
             t == out[n]
             spot == Place(rules, claude, t, x)
  <2>1. t \in Seq(T) /\ IsInjective(t) /\ ToSet(t) = There(n) /\ n + 1 \in 1 .. N
    BY <1>1, <1>4
  <2>2. x \in T /\ out[n + 1] = InsertAt(t, spot, x)
    BY <1>1, <1>2, <2>1
  <2>3. spot \in 1 .. Len(t) + 1
    BY <2>1, PlaceFits
  <2>4. There(n + 1) = There(n) \cup {x}
    <3>1. \A i : i \in 1 .. n + 1 <=> i \in 1 .. n \/ i = n + 1
      OBVIOUS
    <3> QED
      BY <3>1
  <2>5. x \notin There(n)
    <3>1. \A i \in 1 .. n : i \in 1 .. N /\ i # n + 1
      BY <1>1, <2>1
    <3> QED
      BY <1>1, <2>1, <3>1 DEF IsInjective
  <2> HIDE DEF x, t, spot, There
  <2>6. /\ InsertAt(t, spot, x) \in Seq(T) /\ IsInjective(InsertAt(t, spot, x))
        /\ ToSet(InsertAt(t, spot, x)) = ToSet(t) \cup {x}
    BY <2>1, <2>2, <2>3, <2>5, InsertFacts
  <2> QED
    BY <2>1, <2>2, <2>4, <2>6
<1> HIDE DEF S
<1>5. N \in S
  BY <1>1, <1>3, <1>4, Induct
<1>6. Sorts(N)
  BY <1>1, <1>5 DEF S
<1>7. There(N) = ToSet(kept)
  BY <1>1 DEF ToSet
<1> QED
  BY <1>6, <1>7 DEF N, out

\* Whatever Claude ranks, the blend has what the business is sure to get.
LEMMA BlendFine ==
  ASSUME NEW rules, NEW a, Fine(rules, a), NEW claude \in Seq(Named)
  PROVE  Fine(Blend(rules, claude, Pinned(a)), a)
<1> DEFINE P == Pinned(a)
           joined == rules \o claude
           order == Distinct(joined)
           K == {k \in ToSet(order) : Stays(k, rules, claude, P)}
           kept == Only(order, K)
<1>1. rules \in Seq(Named) /\ P \subseteq ToSet(rules)
  BY DEF Fine
<1>2. joined \in Seq(Named) /\ ToSet(rules) \subseteq ToSet(joined)
  BY <1>1, Joined
<1> HIDE DEF P, joined
<1>3. order \in Seq(Named) /\ IsInjective(order) /\ ToSet(order) = ToSet(joined)
  BY <1>2, DistinctFacts
<1>4. P \subseteq K
  BY <1>1, <1>2, <1>3 DEF Stays
<1> HIDE DEF order, K
<1>5. kept \in Seq(Named) /\ IsInjective(kept) /\ ToSet(kept) = ToSet(order) \cap K
  BY <1>3, OnlyFacts
<1>6. P \subseteq ToSet(kept)
  BY <1>1, <1>2, <1>3, <1>4, <1>5
<1>7. Staying(rules, claude, P) = kept
  BY DEF Staying, kept, K, order, joined
<1> HIDE DEF kept
<1> DEFINE sorted == SortedUpTo(rules, claude, kept)[Len(kept)]
<1>8. sorted \in Seq(Named) /\ IsInjective(sorted) /\ ToSet(sorted) = ToSet(kept)
  BY <1>5, SortedFacts
<1>9. Blend(rules, claude, P) = sorted
  BY <1>7, BlendIs
<1> HIDE DEF sorted
<1> QED
  BY <1>6, <1>8, <1>9 DEF Fine, P
\* The first n of a list, and the rest.
LEMMA PrefixFacts ==
  ASSUME NEW T, NEW s \in Seq(T), NEW n \in 0 .. Len(s)
  PROVE  /\ SubSeq(s, 1, n) \in Seq(T) /\ Len(SubSeq(s, 1, n)) = n
         /\ ToSet(SubSeq(s, 1, n)) = {s[i] : i \in 1 .. n}
         /\ IsInjective(s) => IsInjective(SubSeq(s, 1, n))
         /\ SubSeq(s, 1, n) \o SubSeq(s, n + 1, Len(s)) = s
<1> DEFINE N == Len(s)
           t == SubSeq(s, 1, n)
           r == SubSeq(s, n + 1, N)
<1>1. N \in Nat /\ n \in Nat /\ n <= N /\ DOMAIN s = 1 .. N
  OBVIOUS
<1>2. t \in Seq(T) /\ Len(t) = n /\ DOMAIN t = 1 .. n /\ \A i \in 1 .. n : t[i] = s[i]
  OBVIOUS
<1>3. r \in Seq(T) /\ Len(r) = N - n /\ \A i \in 1 .. N - n : r[i] = s[i + n]
  OBVIOUS
<1>4. t \o r = s
  <2> HIDE DEF t, r, N
  <2> DEFINE u == t \o r
  <2>1. /\ u \in Seq(T) /\ Len(u) = Len(t) + Len(r)
        /\ \A i \in 1 .. Len(t) + Len(r) : u[i] = IF i <= Len(t) THEN t[i] ELSE r[i - Len(t)]
    <3>1. t \in Seq(T) /\ r \in Seq(T)
      BY <1>2, <1>3
    <3> QED
      BY ONLY <3>1, Concatenated
  <2> HIDE DEF u
  <2>2. Len(u) = N
    BY <1>1, <1>2, <1>3, <2>1
  <2>3. ASSUME NEW i \in 1 .. N PROVE u[i] = s[i]
    <3>1. CASE i <= n
      BY <1>1, <1>2, <1>3, <2>1, <3>1
    <3>2. CASE ~(i <= n)
      <4>1. i - n \in 1 .. N - n /\ (i - n) + n = i
        BY <1>1, <3>2
      <4>2. u[i] = r[i - n]
        BY <1>1, <1>2, <1>3, <2>1, <3>2
      <4>3. r[i - n] = s[(i - n) + n]
        BY <1>3, <4>1
      <4> QED
        BY <4>1, <4>2, <4>3
    <3> QED
      BY <3>1, <3>2
  <2>4. u = s
    BY <2>1, <2>2, <2>3 DEF N
  <2> QED
    BY <2>4 DEF u
<1> HIDE DEF t, r, N
<1>5. ToSet(t) = {s[i] : i \in 1 .. n}
  BY <1>2 DEF ToSet
<1>6. IsInjective(s) => IsInjective(t)
  BY <1>1, <1>2 DEF IsInjective
<1> QED
  BY <1>2, <1>4, <1>5, <1>6 DEF t, r, N

Fits(plan, needs) == IF Limit(plan) < 0 \/ Len(needs) < Limit(plan) THEN Len(needs) ELSE Limit(plan)

LEMMA Limits ==
  /\ PlanKeys[1] = "despegue" /\ PlanKeys[2] = "en_orbita" /\ PlanKeys[3] = "galactico"
  /\ Limit(PlanKeys[1]) = 3 /\ Limit(PlanKeys[2]) = 6 /\ Limit(PlanKeys[3]) = -1
  /\ DOMAIN PlanKeys = 1 .. 3 /\ ToSet(PlanKeys) = {"despegue", "en_orbita", "galactico"}
<1>1. PlanKeys[1] = "despegue" /\ PlanKeys[2] = "en_orbita" /\ PlanKeys[3] = "galactico" /\ DOMAIN PlanKeys = 1 .. 3
  BY DEF PlanKeys
<1>2. ToSet(PlanKeys) = {"despegue", "en_orbita", "galactico"}
  <2>1. \A i : i \in 1 .. 3 <=> i = 1 \/ i = 2 \/ i = 3
    OBVIOUS
  <2> QED
    BY <1>1, <2>1 DEF ToSet
<1>3. Limit("despegue") = 3 /\ Limit("en_orbita") = 6 /\ Limit("galactico") = -1
  BY DEF Limit
<1> QED
  BY <1>1, <1>2, <1>3

\* Register takes a package whole.
LEMMA PackageFacts ==
  ASSUME NEW needs \in Seq(Named), IsInjective(needs), NEW i \in 1 .. 3
  PROVE  LET p == Package(PlanKeys[i], needs)
             n == Fits(PlanKeys[i], needs)
         IN  /\ n \in 0 .. Len(needs) /\ ToSet(p.modules) = {needs[k] : k \in 1 .. n}
             /\ Accepted(p.plan, p.modules) /\ Taken(p.modules) = p.modules
             /\ p.modules \o p.missing = needs
<1> DEFINE plan == PlanKeys[i]
           n == Fits(plan, needs)
           N == Len(needs)
           t == SubSeq(needs, 1, n)
           r == SubSeq(needs, n + 1, N)
           p == Package(plan, needs)
<1>1. N \in Nat /\ plan \in ToSet(PlanKeys) /\ Limit(plan) \in {3, 6, -1}
  BY Limits
<1>2. n \in 0 .. N /\ (Limit(plan) >= 0 => n <= Limit(plan))
  <2> HIDE DEF plan
  <2> QED
    BY <1>1 DEF Fits
<1>3. p.plan = plan /\ p.modules = t /\ p.missing = r
  BY DEF Package, Fits
<1> HIDE DEF p, plan, n, N
<1>4. /\ t \in Seq(Named) /\ Len(t) = n /\ ToSet(t) = {needs[k] : k \in 1 .. n} /\ IsInjective(t)
      /\ t \o r = needs
  BY <1>2, PrefixFacts DEF N
<1> HIDE DEF t, r
<1>5. Taken(t) = t
  <2>1. ToSet(t) \subseteq Named
    BY <1>4, ToSetIs
  <2>2. Only(t, Named) = t
    BY <1>4, <2>1, OnlyFacts
  <2>3. Distinct(t) = t
    BY <1>4, DistinctFacts
  <2>4. Taken(t) = Distinct(Only(t, Named))
    BY DEF Taken, Named
  <2> QED
    BY <2>2, <2>3, <2>4
<1>6. Accepted(plan, t)
  BY <1>1, <1>2, <1>4, <1>5 DEF Accepted
<1>7. n \in 0 .. N /\ ToSet(p.modules) = {needs[k] : k \in 1 .. n} /\ Accepted(p.plan, p.modules)
      /\ Taken(p.modules) = p.modules /\ p.modules \o p.missing = needs
  BY <1>2, <1>3, <1>4, <1>5, <1>6
<1> QED
  BY <1>7 DEF p, plan, n, N

\* What OffersStand says of an offer o made to a.
Stand(o, a) ==
  LET p == o.packages IN
  /\ \A i \in DOMAIN p : /\ Accepted(p[i].plan, p[i].modules) /\ Taken(p[i].modules) = p[i].modules
                         /\ p[i].modules \o p[i].missing = o.needs
                         /\ \A j \in i .. Len(p) : Nested(p[i], p[j])
  /\ p # <<>> => Pinned(a) \subseteq ToSet(p[3].modules)

\* Packages of fine needs stand.
LEMMA BuildStands ==
  ASSUME NEW a, NEW needs, Fine(needs, a), NEW bestFit
  PROVE  Stand(Build(needs, bestFit), a)
<1> DEFINE b == Build(needs, bestFit)
           p == b.packages
           n(i) == Fits(PlanKeys[i], needs)
<1>1. needs \in Seq(Named) /\ IsInjective(needs) /\ Pinned(a) \subseteq ToSet(needs)
  BY DEF Fine
<1>2. p = [i \in 1 .. 3 |-> Package(PlanKeys[i], needs)] /\ b.needs = needs
  BY Limits DEF Build
<1> HIDE DEF b
<1>3. DOMAIN p = 1 .. 3 /\ \A i \in 1 .. 3 : p[i] = Package(PlanKeys[i], needs)
  <2> HIDE DEF p
  <2> QED
    BY <1>2
<1>4. Len(p) = 3
  <2> HIDE DEF p
  <2> QED
    BY <1>3
<1> HIDE DEF p, n
<1>5. ASSUME NEW i \in 1 .. 3
      PROVE  /\ n(i) \in 0 .. Len(needs) /\ ToSet(p[i].modules) = {needs[k] : k \in 1 .. n(i)}
             /\ Accepted(p[i].plan, p[i].modules) /\ Taken(p[i].modules) = p[i].modules
             /\ p[i].modules \o p[i].missing = needs
  BY <1>1, <1>3, PackageFacts DEF n
<1>6. \A i \in 1 .. 3 : \A j \in i .. 3 : n(i) <= n(j)
  <2>1. Len(needs) \in Nat
    BY <1>1
  <2>2. n(1) <= n(2) /\ n(2) <= n(3) /\ n(1) \in Nat /\ n(2) \in Nat /\ n(3) \in Nat
    BY <2>1, Limits DEF n, Fits
  <2>3. \A i \in 1 .. 3 : \A j \in i .. 3 : i = j \/ (i = 1 /\ j = 2) \/ (i = 1 /\ j = 3) \/ (i = 2 /\ j = 3)
    OBVIOUS
  <2>4. n(1) <= n(1) /\ n(2) <= n(2) /\ n(3) <= n(3) /\ n(1) <= n(3)
    BY <2>2
  <2>5. \A i \in 1 .. 3 : i = 1 \/ i = 2 \/ i = 3
    OBVIOUS
  <2> QED
    BY <2>2, <2>3, <2>4, <2>5
<1>7. ASSUME NEW i \in 1 .. 3, NEW j \in i .. 3 PROVE Nested(p[i], p[j])
  <2>1. j \in 1 .. 3
    OBVIOUS
  <2>2. n(i) <= n(j) /\ n(i) \in Nat /\ n(j) \in Nat
    BY <1>5, <1>6, <2>1
  <2>3. 1 .. n(i) \subseteq 1 .. n(j)
    BY <2>2
  <2>4. {needs[k] : k \in 1 .. n(i)} \subseteq {needs[k] : k \in 1 .. n(j)}
    BY <2>3
  <2> QED
    BY <1>5, <2>1, <2>4 DEF Nested
<1>8. Pinned(a) \subseteq ToSet(p[3].modules)
  <2>1. n(3) = Len(needs)
    BY Limits DEF n, Fits
  <2>2. ToSet(needs) = {needs[k] : k \in 1 .. Len(needs)}
    BY <1>1 DEF ToSet
  <2>3. 3 \in 1 .. 3
    OBVIOUS
  <2>4. ToSet(p[3].modules) = {needs[k] : k \in 1 .. n(3)}
    BY <1>5, <2>3
  <2> QED
    BY <1>1, <2>1, <2>2, <2>4
<1>9. Stand(b, a)
  BY <1>2, <1>3, <1>4, <1>5, <1>7, <1>8 DEF Stand, p
<1> QED
  BY <1>9 DEF b

\* By the rules or blended, the needs are fine.
LEMMA SuggestStands ==
  ASSUME NEW a, Sane(a), NEW description, NEW claude, claude.modules \in Seq([key : STRING, reason : BOOLEAN])
  PROVE  Stand(Suggest(a, description, claude), a)
<1> DEFINE rules == RuleNeeds(a)
           ranked == Ranked(claude.modules)
           type == Classify(a.sectors, description)
           blend == Blend(rules, ranked, Pinned(a))
           alone == Build(WithType(rules, type), ByRecommendation[Recommend(a)])
           blended == Build(WithType(blend, type), BlendPlan(ByRecommendation[Recommend(a)], claude.plan))
<1>1. Fine(rules, a) /\ ranked \in Seq(Named)
  BY RulesFine, RankedFine
<1>2. Suggest(a, description, claude) \in {alone, blended}
  BY DEF Suggest, Analyze
<1> HIDE DEF rules, ranked, type
<1>3. Fine(blend, a)
  BY <1>1, BlendFine
<1> HIDE DEF blend
<1>4. Stand(alone, a) /\ Stand(blended, a)
  BY <1>1, <1>3, TypeFine, BuildStands
<1> HIDE DEF alone, blended
<1> QED
  BY <1>2, <1>4

-----------------------------------------------------------------------------

FormInv == DOMAIN form = DOMAIN Answers /\ \A q \in DOMAIN Answers : form[q] \in Answers[q]

SignupInv == FormInv /\ Stand(offer, Sanitize(form))

LEMMA KeepFacts ==
  ASSUME NEW s \in Seq(STRING), NEW allowed
  PROVE  Keep(s, allowed) \in Seq(STRING) /\ Keep(s, allowed) \in Seq(allowed)
<1> DEFINE t == Only(s, allowed)
<1>1. t \in Seq(STRING) /\ ToSet(t) = ToSet(s) \cap allowed
  BY OnlyFacts
<1> HIDE DEF t
<1>2. Distinct(t) \in Seq(STRING) /\ ToSet(Distinct(t)) = ToSet(t)
  BY <1>1, DistinctFacts
<1>3. Distinct(t) \in Seq(allowed)
  BY <1>1, <1>2, Narrowed
<1> QED
  BY <1>2, <1>3 DEF Keep, t

LEMMA SaneForm == ASSUME FormInv PROVE Sane(Sanitize(form))
<1>1. form.sectors \in Seq(STRING) /\ form.modules \in Seq(STRING)
  BY DEF FormInv, Answers
<1>2. Keep(form.sectors, Sectors) \in Seq(STRING) /\ Keep(form.modules, Asked) \in Seq(Asked)
  BY <1>1, KeepFacts
<1>3. Sanitize(form).sectors = Keep(form.sectors, Sectors) /\ Sanitize(form).modules = Keep(form.modules, Asked)
  BY DEF Sanitize
<1> QED
  BY <1>2, <1>3 DEF Sane

LEMMA NoOfferStands == ASSUME NEW a PROVE Stand(NoOffer, a)
<1>1. NoOffer.packages = <<>> /\ DOMAIN <<>> = {}
  BY DEF NoOffer
<1> QED
  BY <1>1 DEF Stand

LEMMA SignupStarts == ASSUME SignupInit PROVE SignupInv
  BY FormAssumption, NoOfferStands DEF SignupInit, SignupInv, FormInv

LEMMA FillForm == ASSUME FormInv, NEW q \in DOMAIN Answers, NEW v \in Answers[q], form' = [form EXCEPT ![q] = v]
                  PROVE  FormInv'
  BY DEF FormInv

\* The form keeps its shape and an offer its standing.
LEMMA SignupSteps == ASSUME SignupInv, SignupNext PROVE SignupInv'
<1>1. FormInv
  BY DEF SignupInv
<1>2. ASSUME NEW q \in DOMAIN Options, NEW v \in Options[q], Fill(q, v) PROVE SignupInv'
  <2>1. q \in DOMAIN Answers /\ v \in Answers[q]
    BY <1>2, FormAssumption
  <2>2. form' = [form EXCEPT ![q] = v] /\ offer' = NoOffer
    BY <1>2 DEF Fill
  <2>3. FormInv'
    BY <1>1, <2>1, <2>2, FillForm
  <2> QED
    BY <2>2, <2>3, NoOfferStands DEF SignupInv
<1>3. ASSUME NEW m \in Areas, AskFor(m) PROVE SignupInv'
  <2>1. m \in STRING /\ form.modules \in Seq(STRING)
    BY <1>1, FormAssumption DEF FormInv, Answers
  <2>2. Append(form.modules, m) \in Answers["modules"]
    BY <2>1 DEF Answers
  <2>3. form' = [form EXCEPT !["modules"] = Append(form.modules, m)] /\ offer' = NoOffer
    BY <1>3 DEF AskFor
  <2>4. "modules" \in DOMAIN Answers
    BY DEF Answers
  <2>5. FormInv'
    BY <1>1, <2>2, <2>3, <2>4, FillForm
  <2> QED
    BY <2>3, <2>5, NoOfferStands DEF SignupInv
<1>4. ASSUME NEW c \in ClaudeAnswers, Ask(c) PROVE SignupInv'
  <2>1. form' = form /\ offer' = Suggest(Sanitize(form), form.description, c)
    BY <1>4 DEF Ask
  <2>2. FormInv'
    BY <1>1, <2>1 DEF FormInv
  <2>3. Stand(Suggest(Sanitize(form), form.description, c), Sanitize(form))
    BY <1>1, SaneForm, SuggestStands, ClaudeAssumption
  <2> QED
    BY <2>1, <2>2, <2>3 DEF SignupInv
<1> QED
  BY <1>2, <1>3, <1>4 DEF SignupNext

LEMMA SignupKept == SignupInv /\ [Next]_vars => SignupInv'
<1> SUFFICES ASSUME SignupInv, [Next]_vars PROVE SignupInv'
  OBVIOUS
<1>1. CASE SignupNext
  BY <1>1, SignupSteps
<1>2. CASE UNCHANGED signupVars
  BY <1>2 DEF signupVars, SignupInv, FormInv
<1> QED
  BY <1>1, <1>2 DEF Next, vars, signupVars

\* Of every form and whatever Claude answers, Register takes each package whole,
\* the larger plans hold the smaller, and the largest has all that was asked for.
THEOREM Offers_Stand == Spec => []OffersStand
<1>1. Init => SignupInv
  BY SignupStarts DEF Init
<1>2. SignupInv /\ [Next]_vars => SignupInv'
  BY SignupKept
<1>3. SignupInv => OffersStand
  BY DEF SignupInv, Stand, OffersStand
<1> QED
  BY <1>1, <1>2, <1>3, PTL DEF Spec

-----------------------------------------------------------------------------
(* One more area asked for. *)

\* What is kept of a list and one more.
LEMMA KeptAppend ==
  ASSUME NEW T, NEW s \in Seq(T), NEW x \in T, NEW I, NEW J, \A i \in 1 .. Len(s) : i \in I <=> i \in J
  PROVE  Kept(Append(s, x), I) = IF Len(s) + 1 \in I THEN Append(Kept(s, J), x) ELSE Kept(s, J)
<1> DEFINE N == Len(s)
           t == Append(s, x)
           out == KeptUpTo(s, J)
           all == KeptUpTo(t, I)
           S == {n \in Nat : n <= N => out[n] \in Seq(T) /\ all[n] = out[n]}
<1>1. /\ N \in Nat /\ t \in Seq(T) /\ Len(t) = N + 1 /\ t[N + 1] = x
      /\ \A n \in 1 .. N : t[n] = s[n] /\ s[n] \in T
  OBVIOUS
<1>2. out[0] = <<>> /\ \A n \in 1 .. N : out[n] = IF n \in J THEN out[n - 1] \o <<s[n]>> ELSE out[n - 1] \o <<>>
  BY KeptStep
<1> HIDE DEF t
<1>3. all[0] = <<>> /\ \A n \in 1 .. N + 1 : all[n] = IF n \in I THEN all[n - 1] \o <<t[n]>> ELSE all[n - 1] \o <<>>
  BY <1>1, KeptStep
<1>4. Kept(s, J) = out[N] /\ Kept(t, I) = all[N + 1]
  BY <1>1, KeptIs
<1>5. \A i \in 1 .. N : i \in I <=> i \in J
  OBVIOUS
<1> HIDE DEF N, out, all
<1>6. 0 \in S
  <2>1. <<>> \in Seq(T)
    OBVIOUS
  <2> QED
    BY <1>2, <1>3, <2>1
<1>7. ASSUME NEW n \in Nat, n \in S PROVE n + 1 \in S
  <2> SUFFICES ASSUME n + 1 <= N PROVE out[n + 1] \in Seq(T) /\ all[n + 1] = out[n + 1]
    OBVIOUS
  <2>1. n + 1 \in 1 .. N /\ n + 1 \in 1 .. N + 1 /\ (n + 1) - 1 = n
    BY <1>1
  <2>2. out[n] \in Seq(T) /\ all[n] = out[n]
    BY <1>1, <1>7
  <2>3. out[n + 1] = IF n + 1 \in J THEN out[n] \o <<s[n + 1]>> ELSE out[n] \o <<>>
    BY <1>2, <2>1
  <2>4. all[n + 1] = IF n + 1 \in I THEN all[n] \o <<t[n + 1]>> ELSE all[n] \o <<>>
    BY <1>3, <2>1
  <2>5. all[n + 1] = out[n + 1]
    BY <1>1, <1>5, <2>1, <2>2, <2>3, <2>4
  <2>6. s[n + 1] \in T
    BY <1>1, <2>1
  <2>7. out[n] \o <<s[n + 1]>> \in Seq(T) /\ out[n] \o <<>> \in Seq(T)
    BY <2>2, <2>6
  <2> QED
    BY <2>3, <2>5, <2>7
<1> HIDE DEF S
<1>8. N \in S
  BY <1>1, <1>6, <1>7, Induct
<1>9. out[N] \in Seq(T) /\ all[N] = out[N]
  BY <1>1, <1>8 DEF S
<1>10. all[N + 1] = IF N + 1 \in I THEN out[N] \o <<x>> ELSE out[N] \o <<>>
  BY <1>1, <1>3, <1>9
<1>11. out[N] \o <<x>> = Append(out[N], x) /\ out[N] \o <<>> = out[N]
  BY <1>9
<1> QED
  BY <1>4, <1>10, <1>11 DEF N, t

LEMMA OnlyAppend ==
  ASSUME NEW T, NEW s \in Seq(T), NEW x \in T, NEW S
  PROVE  Only(Append(s, x), S) = IF x \in S THEN Append(Only(s, S), x) ELSE Only(s, S)
<1> DEFINE t == Append(s, x)
           I == {i \in DOMAIN t : t[i] \in S}
           J == {i \in DOMAIN s : s[i] \in S}
           N == Len(s)
<1>1. N \in Nat /\ DOMAIN s = 1 .. N /\ DOMAIN t = 1 .. N + 1 /\ t[N + 1] = x /\ \A i \in 1 .. N : t[i] = s[i]
  OBVIOUS
<1> HIDE DEF t, N
<1>2. \A i \in 1 .. N : i \in 1 .. N + 1
  BY <1>1
<1>3. N + 1 \in 1 .. N + 1
  BY <1>1
<1>4. (\A i \in 1 .. N : i \in I <=> i \in J) /\ (N + 1 \in I <=> x \in S)
  BY <1>1, <1>2, <1>3
<1>5. Only(t, S) = Kept(t, I) /\ Only(s, S) = Kept(s, J)
  BY DEF Only
<1> HIDE DEF I, J
<1>6. Kept(t, I) = IF N + 1 \in I THEN Append(Kept(s, J), x) ELSE Kept(s, J)
  BY <1>4, KeptAppend DEF t, N
<1> QED
  BY <1>4, <1>5, <1>6 DEF t

LEMMA DistinctAppend ==
  ASSUME NEW T, NEW s \in Seq(T), NEW x \in T
  PROVE  Distinct(Append(s, x)) = IF x \in ToSet(s) THEN Distinct(s) ELSE Append(Distinct(s), x)
<1> DEFINE t == Append(s, x)
           I == {i \in DOMAIN t : \A j \in 1 .. i - 1 : t[j] # t[i]}
           J == {i \in DOMAIN s : \A j \in 1 .. i - 1 : s[j] # s[i]}
           N == Len(s)
<1>1. N \in Nat /\ DOMAIN s = 1 .. N /\ DOMAIN t = 1 .. N + 1 /\ t[N + 1] = x /\ \A i \in 1 .. N : t[i] = s[i]
  OBVIOUS
<1>2. ToSet(s) = {s[i] : i \in 1 .. N}
  BY <1>1 DEF ToSet
<1>3. Distinct(t) = Kept(t, I) /\ Distinct(s) = Kept(s, J)
  BY DEF Distinct
<1> HIDE DEF t, N
<1>4. ASSUME NEW i \in 1 .. N PROVE i \in I <=> i \in J
  <2>1. i \in 1 .. N + 1 /\ \A j \in 1 .. i - 1 : j \in 1 .. N
    BY <1>1
  <2>2. t[i] = s[i] /\ \A j \in 1 .. i - 1 : t[j] = s[j]
    BY <1>1, <2>1
  <2> QED
    BY <1>1, <2>1, <2>2
<1>5. N + 1 \in I <=> x \notin ToSet(s)
  <2>1. N + 1 \in 1 .. N + 1 /\ (N + 1) - 1 = N
    BY <1>1
  <2>2. N + 1 \in I <=> \A j \in 1 .. N : s[j] # x
    BY <1>1, <2>1
  <2> QED
    BY <1>2, <2>2
<1> HIDE DEF I, J
<1>6. Kept(t, I) = IF N + 1 \in I THEN Append(Kept(s, J), x) ELSE Kept(s, J)
  BY <1>4, KeptAppend DEF t, N
<1> QED
  BY <1>3, <1>5, <1>6 DEF t

\* An area asked for is dropped, or comes last.
LEMMA KeepAppend ==
  ASSUME NEW s \in Seq(STRING), NEW x \in STRING, NEW allowed
  PROVE  \/ Keep(Append(s, x), allowed) = Keep(s, allowed)
         \/ x \in allowed /\ Keep(Append(s, x), allowed) = Append(Keep(s, allowed), x)
<1> DEFINE kept == Only(s, allowed)
<1>1. kept \in Seq(STRING)
  BY OnlyFacts
<1>2. Only(Append(s, x), allowed) = IF x \in allowed THEN Append(kept, x) ELSE kept
  BY OnlyAppend
<1> HIDE DEF kept
<1>3. Distinct(Append(kept, x)) = IF x \in ToSet(kept) THEN Distinct(kept) ELSE Append(Distinct(kept), x)
  BY <1>1, DistinctAppend
<1> QED
  BY <1>2, <1>3 DEF Keep, kept

\* CountIn of a list and one more.
LEMMA CountAppend ==
  ASSUME NEW T, NEW s \in Seq(T), NEW x \in T, NEW S
  PROVE  /\ CountIn(s, S) \in Nat
         /\ CountIn(Append(s, x), S) = IF x \in S THEN CountIn(s, S) + 1 ELSE CountIn(s, S)
<1> DEFINE N == Len(s)
           t == Append(s, x)
           A == {i \in DOMAIN s : s[i] \in S}
           B == {i \in DOMAIN t : t[i] \in S}
           places == 1 .. N
<1>1. N \in Nat /\ DOMAIN s = places /\ DOMAIN t = 1 .. N + 1 /\ t[N + 1] = x /\ \A i \in 1 .. N : t[i] = s[i]
  OBVIOUS
<1>2. IsFiniteSet(places)
  BY <1>1, FS_Interval
<1>3. IsFiniteSet(A)
  <2>1. A \in SUBSET places
    BY <1>1
  <2> HIDE DEF A, places
  <2> QED
    BY <1>2, <2>1, FS_Subset
<1>4. Cardinality(A) \in Nat
  <2> HIDE DEF A
  <2> QED
    BY <1>3, FS_CardinalityType
<1>5. N + 1 \notin A
  BY <1>1
<1>6. B = IF x \in S THEN A \cup {N + 1} ELSE A
  <2> HIDE DEF t, N
  <2>1. \A i : i \in 1 .. N + 1 <=> i \in 1 .. N \/ i = N + 1
    BY <1>1
  <2> QED
    BY <1>1, <2>1
<1>7. CountIn(s, S) = Cardinality(A) /\ CountIn(t, S) = Cardinality(B)
  BY DEF CountIn
<1> HIDE DEF A, B, t, N
<1>8. Cardinality(A \cup {N + 1}) = Cardinality(A) + 1
  BY <1>3, <1>5, FS_AddElement
<1> QED
  BY <1>4, <1>6, <1>7, <1>8 DEF t

LEMMA GoalsCount == ASSUME NEW S PROVE /\ Cardinality(S \cap GrowthGoals) \in Nat
                                       /\ Cardinality(S \cap OrderGoals) \in Nat
<1>1. IsFiniteSet(GrowthGoals) /\ IsFiniteSet(OrderGoals)
  <2>1. \A x : IsFiniteSet({x})
    BY FS_Singleton
  <2>2. GrowthGoals = {"mas_clientes"} \cup ({"vender_mas"} \cup ({"mas_vistas"} \cup {"mas_seguidores"}))
    BY DEF GrowthGoals
  <2>3. OrderGoals = {"organizarse"} \cup ({"automatizar"} \cup ({"digitalizarse"} \cup ({"decidir_mejor"} \cup {"reducir_perdidas"})))
    BY DEF OrderGoals
  <2>4. IsFiniteSet({"mas_vistas"} \cup {"mas_seguidores"})
    BY <2>1, FS_Union
  <2>5. IsFiniteSet({"vender_mas"} \cup ({"mas_vistas"} \cup {"mas_seguidores"}))
    BY <2>1, <2>4, FS_Union
  <2>6. IsFiniteSet(GrowthGoals)
    BY <2>1, <2>2, <2>5, FS_Union
  <2>7. IsFiniteSet({"decidir_mejor"} \cup {"reducir_perdidas"})
    BY <2>1, FS_Union
  <2>8. IsFiniteSet({"digitalizarse"} \cup ({"decidir_mejor"} \cup {"reducir_perdidas"}))
    BY <2>1, <2>7, FS_Union
  <2>9. IsFiniteSet({"automatizar"} \cup ({"digitalizarse"} \cup ({"decidir_mejor"} \cup {"reducir_perdidas"})))
    BY <2>1, <2>8, FS_Union
  <2>10. IsFiniteSet(OrderGoals)
    BY <2>1, <2>3, <2>9, FS_Union
  <2> QED
    BY <2>6, <2>10
<1>2. IsFiniteSet(S \cap GrowthGoals) /\ IsFiniteSet(S \cap OrderGoals)
  <2>1. S \cap GrowthGoals \in SUBSET GrowthGoals /\ S \cap OrderGoals \in SUBSET OrderGoals
    OBVIOUS
  <2> QED
    BY <1>1, <2>1, FS_Subset
<1> QED
  BY <1>2, FS_CardinalityType

\* The signals of a survey are integers.
Measured(s) ==
  /\ s.base = 30 /\ s.small \in Int /\ s.satisfied \in Int /\ s.unhappy \in Int /\ s.narrow \in Int
  /\ s.scattered \in Int /\ s.control \in Int /\ s.multiSector \in Int /\ s.noPresence \in Int
  /\ s.onlineSales \in Int /\ s.multiChannel \in Int /\ s.messaging \in Int
  /\ s.bigCompany \in Int /\ s.noSystem \in Int
  /\ s.breadth \in Int /\ s.opsAreas \in Int /\ s.growthAreas \in Int
  /\ s.growthGoals \in Int /\ s.orderGoals \in Int

LEMMA YesIs == ASSUME NEW p PROVE Yes(p) \in Int /\ (Yes(p) = 0 \/ Yes(p) = 30)
  BY DEF Yes

LEMMA SignalsAre ==
  ASSUME NEW a, a.modules \in Seq(Asked)
  PROVE  Measured(Signals(a))
<1>1. Len(a.modules) \in Nat
  OBVIOUS
<1>2. "finanzas" \in Asked
  BY DEF Asked
<1>3. CountIn(a.modules, OpsAreas) \in Nat /\ CountIn(a.modules, GrowthAreas) \in Nat
  BY <1>2, CountAppend
<1>4. Cardinality(a.expectations \cap GrowthGoals) \in Nat /\ Cardinality(a.expectations \cap OrderGoals) \in Nat
  BY GoalsCount
<1> DEFINE s == Signals(a)
<1>5. /\ s.base = 30 /\ s.small \in Int /\ s.satisfied \in Int /\ s.unhappy \in Int /\ s.narrow \in Int
  BY YesIs DEF Signals
<1>6. s.scattered \in Int /\ s.control \in Int /\ s.multiSector \in Int /\ s.noPresence \in Int
  BY YesIs DEF Signals
<1>7. s.onlineSales \in Int /\ s.multiChannel \in Int /\ s.messaging \in Int
  BY YesIs DEF Signals
<1>8. s.bigCompany \in Int /\ s.noSystem \in Int
  BY YesIs DEF Signals
<1>9. s.breadth \in Int /\ s.opsAreas \in Int /\ s.growthAreas \in Int
  <2>1. /\ s.breadth = 5 * Len(a.modules) /\ s.opsAreas = 10 * CountIn(a.modules, OpsAreas)
        /\ s.growthAreas = 15 * CountIn(a.modules, GrowthAreas)
    BY DEF Signals
  <2> QED
    BY <1>1, <1>3, <2>1
<1>10. s.growthGoals \in Int /\ s.orderGoals \in Int
  <2>1. /\ s.growthGoals = 15 * Cardinality(a.expectations \cap GrowthGoals)
        /\ s.orderGoals = 15 * Cardinality(a.expectations \cap OrderGoals)
    BY DEF Signals
  <2> QED
    BY <1>4, <2>1
<1> HIDE DEF s
<1> QED
  BY <1>5, <1>6, <1>7, <1>8, <1>9, <1>10 DEF Measured, s

\* What one more area m changes in the signals s.
More(s, t, m) ==
  /\ t.base = s.base /\ t.small = s.small /\ t.satisfied = s.satisfied /\ t.unhappy = s.unhappy
  /\ t.scattered = s.scattered /\ t.control = s.control /\ t.multiSector = s.multiSector
  /\ t.noPresence = s.noPresence /\ t.onlineSales = s.onlineSales /\ t.multiChannel = s.multiChannel
  /\ t.messaging = s.messaging /\ t.bigCompany = s.bigCompany /\ t.noSystem = s.noSystem
  /\ t.growthGoals = s.growthGoals /\ t.orderGoals = s.orderGoals
  /\ t.narrow <= s.narrow /\ t.breadth = s.breadth + 5
  /\ IF m \in OpsAreas THEN t.opsAreas = s.opsAreas + 10 /\ t.growthAreas = s.growthAreas
                        ELSE t.opsAreas = s.opsAreas /\ t.growthAreas = s.growthAreas + 15

SameBut(a, b) ==
  /\ b.sectors = a.sectors /\ b.companySize = a.companySize /\ b.salesMethods = a.salesMethods
  /\ b.controls = a.controls /\ b.unsoldHandling = a.unsoldHandling /\ b.hasWebsite = a.hasWebsite
  /\ b.socialNetworks = a.socialNetworks /\ b.messagingApps = a.messagingApps /\ b.management = a.management
  /\ b.satisfaction = a.satisfaction /\ b.painPoints = a.painPoints /\ b.expectations = a.expectations

\* A business that asks for one more area, the rest as it was.
LEMMA AskingSignals ==
  ASSUME NEW a, a.modules \in Seq(Asked), NEW m \in Asked, NEW b, SameBut(a, b), b.modules = Append(a.modules, m)
  PROVE  More(Signals(a), Signals(b), m)
<1>1. Len(a.modules) \in Nat /\ Len(b.modules) = Len(a.modules) + 1
  OBVIOUS
<1>2. m \in OpsAreas <=> m \notin GrowthAreas
  BY DEF Asked, OpsAreas, GrowthAreas
<1>3. /\ CountIn(a.modules, OpsAreas) \in Nat
      /\ CountIn(b.modules, OpsAreas) = IF m \in OpsAreas THEN CountIn(a.modules, OpsAreas) + 1 ELSE CountIn(a.modules, OpsAreas)
  BY CountAppend
<1>4. /\ CountIn(a.modules, GrowthAreas) \in Nat
      /\ CountIn(b.modules, GrowthAreas) = IF m \in GrowthAreas THEN CountIn(a.modules, GrowthAreas) + 1
                                           ELSE CountIn(a.modules, GrowthAreas)
  BY CountAppend
<1> DEFINE s == Signals(a)
           t == Signals(b)
<1>5. t.base = s.base /\ t.small = s.small /\ t.satisfied = s.satisfied /\ t.unhappy = s.unhappy
  BY DEF Signals, SameBut
<1>6. t.scattered = s.scattered /\ t.control = s.control /\ t.multiSector = s.multiSector
  BY DEF Signals, SameBut
<1>7. t.noPresence = s.noPresence /\ t.onlineSales = s.onlineSales /\ t.multiChannel = s.multiChannel
  BY DEF Signals, SameBut
<1>8. t.messaging = s.messaging /\ t.bigCompany = s.bigCompany /\ t.noSystem = s.noSystem
  BY DEF Signals, SameBut
<1>9. t.growthGoals = s.growthGoals /\ t.orderGoals = s.orderGoals
  BY DEF Signals, SameBut
<1>10. t.narrow <= s.narrow
  <2>1. s.narrow = Yes(Len(a.modules) <= 2) /\ t.narrow = Yes(Len(b.modules) <= 2)
    BY DEF Signals
  <2> QED
    BY <1>1, <2>1 DEF Yes
<1>11. t.breadth = s.breadth + 5
  <2>1. s.breadth = 5 * Len(a.modules) /\ t.breadth = 5 * Len(b.modules)
    BY DEF Signals
  <2> QED
    BY <1>1, <2>1
<1>12. IF m \in OpsAreas THEN t.opsAreas = s.opsAreas + 10 /\ t.growthAreas = s.growthAreas
                         ELSE t.opsAreas = s.opsAreas /\ t.growthAreas = s.growthAreas + 15
  <2>1. /\ s.opsAreas = 10 * CountIn(a.modules, OpsAreas) /\ t.opsAreas = 10 * CountIn(b.modules, OpsAreas)
        /\ s.growthAreas = 15 * CountIn(a.modules, GrowthAreas) /\ t.growthAreas = 15 * CountIn(b.modules, GrowthAreas)
    BY DEF Signals
  <2> QED
    BY <1>2, <1>3, <1>4, <2>1
<1> HIDE DEF s, t
<1>13. More(s, t, m)
  BY <1>5, <1>6, <1>7, <1>8, <1>9, <1>10, <1>11, <1>12 DEF More
<1> QED
  BY <1>13 DEF s, t

\* The weights of the three plans, of each signal they count.
OfBasico(base, small, satisfied, narrow, breadth, scattered, noSystem, bigCompany) ==
  6 * base + 10 * small + 14 * satisfied + 16 * narrow - 15 * breadth - 6 * scattered - 4 * noSystem - 10 * bigCompany

OfCrecer(base, growthGoals, growthAreas, noPresence, onlineSales, messaging, opsAreas, satisfied, multiChannel) ==
  8 * base + 14 * growthGoals + 11 * growthAreas + 12 * noPresence + 7 * onlineSales + 4 * messaging
  - 3 * opsAreas + 3 * satisfied + 5 * multiChannel

OfTodo(base, opsAreas, orderGoals, noSystem, scattered, control, bigCompany, multiSector, breadth, unhappy) ==
  5 * base + 12 * opsAreas + 12 * orderGoals + 11 * noSystem + 12 * scattered + 10 * control + 10 * bigCompany
  + 7 * multiSector + 16 * breadth + 6 * unhappy

LEMMA BasicoFalls ==
  ASSUME NEW a \in Int, NEW b \in Int, NEW c \in Int, NEW n \in Int, NEW d \in Int, NEW e \in Int, NEW f \in Int,
         NEW g \in Int, NEW k \in Int, k <= n
  PROVE  /\ OfBasico(a, b, c, n, d, e, f, g) \in Int /\ OfBasico(a, b, c, k, d + 5, e, f, g) \in Int
         /\ OfBasico(a, b, c, k, d + 5, e, f, g) + 75 <= OfBasico(a, b, c, n, d, e, f, g)
  BY DEF OfBasico

LEMMA CrecerMoves ==
  ASSUME NEW a \in Int, NEW b \in Int, NEW c \in Int, NEW d \in Int, NEW e \in Int, NEW f \in Int, NEW g \in Int,
         NEW h \in Int, NEW i \in Int
  PROVE  /\ OfCrecer(a, b, c, d, e, f, g, h, i) \in Int
         /\ OfCrecer(a, b, c + 15, d, e, f, g, h, i) \in Int
         /\ OfCrecer(a, b, c, d, e, f, g + 10, h, i) \in Int
         /\ OfCrecer(a, b, c, d, e, f, g, h, i) - 30 <= OfCrecer(a, b, c + 15, d, e, f, g, h, i)
         /\ OfCrecer(a, b, c, d, e, f, g, h, i) - 30 <= OfCrecer(a, b, c, d, e, f, g + 10, h, i)
         /\ OfCrecer(a, b, c, d, e, f, g + 10, h, i) <= OfCrecer(a, b, c, d, e, f, g, h, i)
  BY DEF OfCrecer

LEMMA TodoRises ==
  ASSUME NEW a \in Int, NEW b \in Int, NEW c \in Int, NEW d \in Int, NEW e \in Int, NEW f \in Int, NEW g \in Int,
         NEW h \in Int, NEW i \in Int, NEW j \in Int, NEW k \in Int, b <= k
  PROVE  /\ OfTodo(a, b, c, d, e, f, g, h, i, j) \in Int /\ OfTodo(a, k, c, d, e, f, g, h, i + 5, j) \in Int
         /\ OfTodo(a, b, c, d, e, f, g, h, i, j) <= OfTodo(a, k, c, d, e, f, g, h, i + 5, j)
  BY DEF OfTodo

\* The scores of the three plans, before and after.
LEMMA AskingScores ==
  ASSUME NEW a, a.modules \in Seq(Asked), NEW m \in Asked, NEW b, SameBut(a, b), b.modules = Append(a.modules, m)
  PROVE  /\ \A plan \in Plans : PlanScore(a, plan) \in Int /\ PlanScore(b, plan) \in Int
         /\ PlanScore(b, "basico") + 25 <= PlanScore(a, "basico")
         /\ PlanScore(a, "todo") <= PlanScore(b, "todo")
         /\ PlanScore(a, "crecer") - 10 <= PlanScore(b, "crecer")
         /\ m \in OpsAreas => PlanScore(b, "crecer") <= PlanScore(a, "crecer")
<1> DEFINE s == Signals(a)
           t == Signals(b)
           w == Weighted(s)
           v == Weighted(t)
<1>1. b.modules \in Seq(Asked)
  OBVIOUS
<1>2. Measured(s) /\ Measured(t) /\ More(s, t, m)
  BY <1>1, SignalsAre, AskingSignals
<1>3. /\ \A plan \in Plans : PlanScore(a, plan) = (w[plan] + 1) \div 3 /\ PlanScore(b, plan) = (v[plan] + 1) \div 3
      /\ "basico" \in Plans /\ "crecer" \in Plans /\ "todo" \in Plans
      /\ \A plan \in Plans : plan = "basico" \/ plan = "crecer" \/ plan = "todo"
  BY DEF PlanScore, Plans
<1> HIDE DEF s, t
<1>4. w["basico"] \in Int /\ v["basico"] \in Int /\ v["basico"] + 75 <= w["basico"]
  <2>1. w["basico"] = OfBasico(s.base, s.small, s.satisfied, s.narrow, s.breadth, s.scattered, s.noSystem, s.bigCompany)
    BY DEF Weighted, OfBasico
  <2>2. v["basico"] = OfBasico(t.base, t.small, t.satisfied, t.narrow, t.breadth, t.scattered, t.noSystem, t.bigCompany)
    BY DEF Weighted, OfBasico
  <2> HIDE DEF w, v
  <2>3. v["basico"] = OfBasico(s.base, s.small, s.satisfied, t.narrow, s.breadth + 5, s.scattered, s.noSystem, s.bigCompany)
    BY <1>2, <2>2, Zenon DEF More
  <2>4. /\ s.base \in Int /\ s.small \in Int /\ s.satisfied \in Int /\ s.narrow \in Int /\ s.breadth \in Int
        /\ s.scattered \in Int /\ s.noSystem \in Int /\ s.bigCompany \in Int
        /\ t.narrow \in Int /\ t.narrow <= s.narrow
    BY <1>2 DEF Measured, More
  <2>5. /\ OfBasico(s.base, s.small, s.satisfied, s.narrow, s.breadth, s.scattered, s.noSystem, s.bigCompany) \in Int
        /\ OfBasico(s.base, s.small, s.satisfied, t.narrow, s.breadth + 5, s.scattered, s.noSystem, s.bigCompany) \in Int
        /\ OfBasico(s.base, s.small, s.satisfied, t.narrow, s.breadth + 5, s.scattered, s.noSystem, s.bigCompany) + 75
             <= OfBasico(s.base, s.small, s.satisfied, s.narrow, s.breadth, s.scattered, s.noSystem, s.bigCompany)
    BY ONLY <2>4, BasicoFalls
  <2> QED
    BY <2>1, <2>3, <2>5
<1>5. /\ w["crecer"] \in Int /\ v["crecer"] \in Int /\ w["crecer"] - 30 <= v["crecer"]
      /\ m \in OpsAreas => v["crecer"] <= w["crecer"]
  <2>1. w["crecer"] = OfCrecer(s.base, s.growthGoals, s.growthAreas, s.noPresence, s.onlineSales, s.messaging,
                             s.opsAreas, s.satisfied, s.multiChannel)
    BY DEF Weighted, OfCrecer
  <2>2. v["crecer"] = OfCrecer(t.base, t.growthGoals, t.growthAreas, t.noPresence, t.onlineSales, t.messaging,
                             t.opsAreas, t.satisfied, t.multiChannel)
    BY DEF Weighted, OfCrecer
  <2> HIDE DEF w, v
  <2>3. v["crecer"] = OfCrecer(s.base, s.growthGoals, t.growthAreas, s.noPresence, s.onlineSales, s.messaging,
                             t.opsAreas, s.satisfied, s.multiChannel)
    BY <1>2, <2>2, Zenon DEF More
  <2>4. /\ s.base \in Int /\ s.growthGoals \in Int /\ s.growthAreas \in Int /\ s.noPresence \in Int
        /\ s.onlineSales \in Int /\ s.messaging \in Int /\ s.opsAreas \in Int /\ s.satisfied \in Int
        /\ s.multiChannel \in Int
    BY <1>2 DEF Measured
  <2> DEFINE before == OfCrecer(s.base, s.growthGoals, s.growthAreas, s.noPresence, s.onlineSales, s.messaging,
                    s.opsAreas, s.satisfied, s.multiChannel)
             asksOps == OfCrecer(s.base, s.growthGoals, s.growthAreas, s.noPresence, s.onlineSales, s.messaging,
                    s.opsAreas + 10, s.satisfied, s.multiChannel)
             asksGrowth == OfCrecer(s.base, s.growthGoals, s.growthAreas + 15, s.noPresence, s.onlineSales, s.messaging,
                    s.opsAreas, s.satisfied, s.multiChannel)
  <2>5. /\ before \in Int /\ asksOps \in Int /\ asksGrowth \in Int
        /\ before - 30 <= asksGrowth /\ before - 30 <= asksOps /\ asksOps <= before
    <3>1. before \in Int /\ asksGrowth \in Int /\ asksOps \in Int
      BY ONLY <2>4, CrecerMoves, Zenon
    <3>2. before - 30 <= asksGrowth
      BY ONLY <2>4, CrecerMoves, Zenon
    <3>3. before - 30 <= asksOps /\ asksOps <= before
      BY ONLY <2>4, CrecerMoves, Zenon
    <3> QED
      BY ONLY <3>1, <3>2, <3>3
  <2>6. w["crecer"] = before
    BY <2>1
  <2>7. CASE m \in OpsAreas
    <3>1. v["crecer"] = asksOps
      BY <1>2, <2>3, <2>7, Zenon DEF More
    <3> HIDE DEF before, asksOps, asksGrowth
    <3> QED
      BY <2>5, <2>6, <2>7, <3>1
  <2>8. CASE m \notin OpsAreas
    <3>1. v["crecer"] = asksGrowth
      BY <1>2, <2>3, <2>8, Zenon DEF More
    <3> HIDE DEF before, asksOps, asksGrowth
    <3> QED
      BY <2>5, <2>6, <2>8, <3>1
  <2> QED
    BY <2>7, <2>8
<1>6. w["todo"] \in Int /\ v["todo"] \in Int /\ w["todo"] <= v["todo"]
  <2>1. w["todo"] = OfTodo(s.base, s.opsAreas, s.orderGoals, s.noSystem, s.scattered, s.control, s.bigCompany,
                            s.multiSector, s.breadth, s.unhappy)
    BY DEF Weighted, OfTodo
  <2>2. v["todo"] = OfTodo(t.base, t.opsAreas, t.orderGoals, t.noSystem, t.scattered, t.control, t.bigCompany,
                            t.multiSector, t.breadth, t.unhappy)
    BY DEF Weighted, OfTodo
  <2> HIDE DEF w, v
  <2>3. v["todo"] = OfTodo(s.base, t.opsAreas, s.orderGoals, s.noSystem, s.scattered, s.control, s.bigCompany,
                            s.multiSector, s.breadth + 5, s.unhappy)
    BY <1>2, <2>2, Zenon DEF More
  <2>4. /\ s.base \in Int /\ s.opsAreas \in Int /\ s.orderGoals \in Int /\ s.noSystem \in Int /\ s.scattered \in Int
        /\ s.control \in Int /\ s.bigCompany \in Int /\ s.multiSector \in Int /\ s.breadth \in Int
        /\ s.unhappy \in Int
    BY <1>2 DEF Measured
  <2>5. t.opsAreas \in Int /\ s.opsAreas <= t.opsAreas
    <3>1. s.opsAreas \in Int /\ (t.opsAreas = s.opsAreas + 10 \/ t.opsAreas = s.opsAreas)
      BY <1>2 DEF Measured, More
    <3> QED
      BY <3>1
  <2> DEFINE before == OfTodo(s.base, s.opsAreas, s.orderGoals, s.noSystem, s.scattered, s.control, s.bigCompany,
                                s.multiSector, s.breadth, s.unhappy)
             after  == OfTodo(s.base, t.opsAreas, s.orderGoals, s.noSystem, s.scattered, s.control, s.bigCompany,
                                s.multiSector, s.breadth + 5, s.unhappy)
  <2>6. before \in Int /\ after \in Int /\ before <= after
    BY ONLY <2>4, <2>5, TodoRises
  <2>7. w["todo"] = before /\ v["todo"] = after
    BY <2>1, <2>3
  <2> HIDE DEF before, after
  <2> QED
    BY <2>6, <2>7
<1> HIDE DEF w, v
<1>7. \A x \in Int : (x + 1) \div 3 \in Int
  OBVIOUS
<1>8. \A x, y \in Int : /\ y + 75 <= x => (y + 1) \div 3 + 25 <= (x + 1) \div 3
                        /\ x - 30 <= y => (x + 1) \div 3 - 10 <= (y + 1) \div 3
                        /\ x <= y => (x + 1) \div 3 <= (y + 1) \div 3
  OBVIOUS
<1> QED
  BY <1>3, <1>4, <1>5, <1>6, <1>7, <1>8

\* Who asks for one more area is never sent back to the smallest plan, and an
\* area of the operation never costs the plan that has them all.
THEOREM Asking_Widens == Spec => AskingMoreWidens
<1>1. ASSUME FormInv, NEW m \in Areas, AskFor(m)
      PROVE  /\ Recommended(form) # "basico" => Recommended(form') # "basico"
             /\ Recommended(form) = "todo" /\ m \in OpsAreas => Recommended(form') = "todo"
  <2> DEFINE a == Sanitize(form)
             b == Sanitize(form')
  <2>1. form.modules \in Seq(STRING) /\ m \in STRING
    BY <1>1, FormAssumption DEF FormInv, Answers
  <2>2. form' = [form EXCEPT !.modules = Append(form.modules, m)] /\ "modules" \in DOMAIN form
    BY <1>1 DEF AskFor, FormInv, Answers
  <2>3. /\ form'.modules = Append(form.modules, m)
        /\ \A q \in DOMAIN form : q # "modules" => form'[q] = form[q]
    BY <2>2
  <2>4. SameBut(a, b)
    <3>1. DOMAIN form = DOMAIN Answers
      BY <1>1 DEF FormInv
    <3>2. /\ form'.sectors = form.sectors /\ form'.companySize = form.companySize
          /\ form'.salesMethods = form.salesMethods /\ form'.controls = form.controls
          /\ form'.unsoldHandling = form.unsoldHandling /\ form'.hasWebsite = form.hasWebsite
      BY <2>3, <3>1 DEF Answers
    <3>3. /\ form'.socialNetworks = form.socialNetworks /\ form'.messagingApps = form.messagingApps
          /\ form'.management = form.management /\ form'.satisfaction = form.satisfaction
          /\ form'.painPoints = form.painPoints /\ form'.expectations = form.expectations
      BY <2>3, <3>1 DEF Answers
    <3> QED
      BY <3>2, <3>3 DEF SameBut, Sanitize
  <2>5. a.modules = Keep(form.modules, Asked) /\ b.modules = Keep(Append(form.modules, m), Asked)
    BY <2>3 DEF Sanitize
  <2>6. a.modules \in Seq(Asked)
    BY <2>1, <2>5, KeepFacts
  <2>7. Recommended(form) = Recommend(a) /\ Recommended(form') = Recommend(b)
    BY DEF Recommended
  <2>8. CASE b.modules = a.modules
    <3>1. b = a
      <4>1. a = [sectors |-> a.sectors, companySize |-> a.companySize, salesMethods |-> a.salesMethods,
                 controls |-> a.controls, unsoldHandling |-> a.unsoldHandling, hasWebsite |-> a.hasWebsite,
                 socialNetworks |-> a.socialNetworks, messagingApps |-> a.messagingApps,
                 management |-> a.management, satisfaction |-> a.satisfaction, painPoints |-> a.painPoints,
                 modules |-> a.modules, expectations |-> a.expectations]
        BY DEF Sanitize
      <4>2. b = [sectors |-> b.sectors, companySize |-> b.companySize, salesMethods |-> b.salesMethods,
                 controls |-> b.controls, unsoldHandling |-> b.unsoldHandling, hasWebsite |-> b.hasWebsite,
                 socialNetworks |-> b.socialNetworks, messagingApps |-> b.messagingApps,
                 management |-> b.management, satisfaction |-> b.satisfaction, painPoints |-> b.painPoints,
                 modules |-> b.modules, expectations |-> b.expectations]
        BY DEF Sanitize
      <4> HIDE DEF a, b
      <4> QED
        BY <2>4, <2>8, <4>1, <4>2, Zenon DEF SameBut
    <3> HIDE DEF a, b
    <3> QED
      BY <2>7, <3>1
  <2>9. CASE m \in Asked /\ b.modules = Append(a.modules, m)
    <3> HIDE DEF a, b
    <3>1. /\ \A plan \in Plans : PlanScore(a, plan) \in Int /\ PlanScore(b, plan) \in Int
          /\ PlanScore(b, "basico") + 25 <= PlanScore(a, "basico")
          /\ PlanScore(a, "todo") <= PlanScore(b, "todo")
          /\ PlanScore(a, "crecer") - 10 <= PlanScore(b, "crecer")
          /\ m \in OpsAreas => PlanScore(b, "crecer") <= PlanScore(a, "crecer")
      BY <2>4, <2>6, <2>9, AskingScores
    <3>2. "basico" \in Plans /\ "crecer" \in Plans /\ "todo" \in Plans
      BY DEF Plans
    <3> QED
      BY <2>7, <3>1, <3>2 DEF Recommend
  <2>10. b.modules = a.modules \/ (m \in Asked /\ b.modules = Append(a.modules, m))
    BY <2>1, <2>5, KeepAppend
  <2> QED
    BY <2>8, <2>9, <2>10
<1>2. Init => SignupInv
  BY SignupStarts DEF Init
<1>3. SignupInv /\ [Next]_vars => SignupInv'
  BY SignupKept
<1>4. SignupInv /\ [Next]_vars =>
        [\A m \in Areas : AskFor(m) =>
           /\ Recommended(form) # "basico" => Recommended(form') # "basico"
           /\ Recommended(form) = "todo" /\ m \in OpsAreas => Recommended(form') = "todo"]_signupVars
  <2> SUFFICES ASSUME SignupInv
               PROVE  \A m \in Areas : AskFor(m) =>
                        /\ Recommended(form) # "basico" => Recommended(form') # "basico"
                        /\ Recommended(form) = "todo" /\ m \in OpsAreas => Recommended(form') = "todo"
    OBVIOUS
  <2> QED
    BY <1>1 DEF SignupInv
<1> QED
  BY <1>2, <1>3, <1>4, PTL DEF Spec, AskingMoreWidens

-----------------------------------------------------------------------------
(* Matching. *)

\* What Candidates reads, without the bounds of the model.
Rows == [Creators -> [skills : Abilities \cup {{}}, available : Nat, open : Nat, delivered : Nat, onTime : Nat,
                      knows : BOOLEAN]]

RowsRead == creator \in Rows

LEMMA RowsInit == Init => RowsRead
<1> SUFFICES ASSUME Init PROVE creator \in Rows
  BY DEF RowsRead
<1> USE MatchingAssumption
<1>1. CASE NobodyPicks
  BY <1>1 DEF NobodyPicks, Rows
<1>2. CASE MatchingInit
  <2>1. creator \in [Creators -> Row]
    BY <1>2 DEF MatchingInit
  <2>2. ASSUME NEW r \in Row
        PROVE  r \in [skills : Abilities \cup {{}}, available : Nat, open : Nat, delivered : Nat, onTime : Nat,
                      knows : BOOLEAN]
    <3>1. /\ r.skills \in Abilities /\ r.knows \in BOOLEAN /\ r.available \in Availabilities
          /\ r.open \in 0 .. MaxOpen /\ r.delivered \in 0 .. MaxDelivered /\ r.onTime \in 0 .. MaxDelivered
      BY DEF Row
    <3>2. r.available \in Nat /\ r.open \in Nat /\ r.delivered \in Nat /\ r.onTime \in Nat
      <4>1. \A a \in Availabilities : a \in Nat
        OBVIOUS
      <4>2. r.available \in Nat
        BY <3>1, <4>1, Zenon
      <4> QED
        BY <3>1, <4>2
    <3>3. r = [skills |-> r.skills, available |-> r.available, open |-> r.open, delivered |-> r.delivered,
               onTime |-> r.onTime, knows |-> r.knows]
      BY DEF Row
    <3> QED
      BY <3>1, <3>2, <3>3
  <2>3. \A c \in Creators : creator[c] \in
          [skills : Abilities \cup {{}}, available : Nat, open : Nat, delivered : Nat, onTime : Nat, knows : BOOLEAN]
    BY <2>1, <2>2
  <2> QED
    BY <2>1, <2>3, Zenon DEF Rows
<1> QED
  BY <1>1, <1>2 DEF Init

LEMMA RowsNext == RowsRead /\ [Next]_vars => RowsRead'
<1> SUFFICES ASSUME creator \in Rows, [Next]_vars PROVE creator' \in Rows
  BY DEF RowsRead
<1> USE MatchingAssumption
<1>1. CASE UNCHANGED creator
  BY <1>1
<1>2. CASE MatchingNext
  <2>1. CASE Lose
    BY <2>1 DEF Lose
  <2>2. ASSUME NEW c \in Creators, NEW skill \in Work, Assign(c, skill) PROVE creator' \in Rows
    BY <2>2 DEF Assign
  <2>3. ASSUME NEW c \in Creators, NEW intime \in 0 .. 1, Deliver(c, intime) PROVE creator' \in Rows
    BY <2>3 DEF Deliver, Rows
  <2>4. ASSUME NEW c \in Creators, NEW a \in Availabilities, Show(c, a) PROVE creator' \in Rows
    <3>1. a \in Nat
      OBVIOUS
    <3> QED
      BY <2>4, <3>1 DEF Show, Rows
  <2>5. ASSUME NEW c \in Creators, File(c) PROVE creator' \in Rows
    <3> DEFINE R == [creator EXCEPT ![c].open = @ + 1]
    <3>1. R \in Rows
      BY DEF Rows
    <3>2. creator' = [R EXCEPT ![c].knows = TRUE]
      BY <2>5 DEF File
    <3> HIDE DEF R
    <3> QED
      BY <3>1, <3>2 DEF Rows
  <2>6. ASSUME NEW c \in Creators, Take(c) PROVE creator' \in Rows
    BY <2>6 DEF Take, Rows
  <2> QED
    BY <1>2, <2>1, <2>2, <2>3, <2>4, <2>5, <2>6 DEF MatchingNext
<1> QED
  BY <1>1, <1>2 DEF Next, vars, matchingVars

\* Whole quotients keep the order of fractions.
LEMMA FloorMonotone ==
  ASSUME NEW a \in Int, NEW b \in Nat, NEW x \in Int, NEW y \in Nat, b > 0, y > 0, a * y <= x * b
  PROVE  a \div b <= x \div y
<1> DEFINE q == a \div b
           r == x \div y
<1>1. q \in Int /\ q * b <= a
  OBVIOUS
<1>2. r \in Int /\ x < (r + 1) * y
  OBVIOUS
<1> HIDE DEF q, r
<1> SUFFICES ASSUME r + 1 <= q PROVE FALSE
  BY <1>1, <1>2 DEF q, r
<1>3. (q * b) * y <= a * y
  BY <1>1
<1>4. x * b < ((r + 1) * y) * b
  BY <1>2
<1>5. (r + 1) * (b * y) <= q * (b * y)
  BY <1>1, <1>2
<1> QED
  BY <1>1, <1>2, <1>3, <1>4, <1>5

\* math.Round of n / d.
Rounded(n, d) == IF n >= 0 THEN (2 * n + d) \div (2 * d) ELSE -((d - 2 * n) \div (2 * d))

\* The greater fraction is never rounded below the smaller one.
LEMMA RoundMonotone ==
  ASSUME NEW n \in Int, NEW d \in Nat, NEW m \in Int, NEW e \in Nat, d > 0, e > 0, n * e <= m * d
  PROVE  Rounded(n, d) <= Rounded(m, e)
<1>1. CASE n >= 0
  <2>1. m * d >= 0
    BY <1>1
  <2>2. m >= 0
    BY <2>1
  <2>3. (2 * n + d) * (2 * e) <= (2 * m + e) * (2 * d)
    OBVIOUS
  <2>4. (2 * n + d) \div (2 * d) <= (2 * m + e) \div (2 * e)
    BY <2>3, FloorMonotone
  <2> QED
    BY <1>1, <2>2, <2>4 DEF Rounded
<1>2. CASE n < 0 /\ m >= 0
  <2>1. (d - 2 * n) \div (2 * d) >= 0
    BY <1>2
  <2>2. (2 * m + e) \div (2 * e) >= 0
    BY <1>2
  <2> QED
    BY <1>2, <2>1, <2>2 DEF Rounded
<1>3. CASE n < 0 /\ m < 0
  <2>1. (e - 2 * m) * (2 * d) <= (d - 2 * n) * (2 * e)
    OBVIOUS
  <2>2. (e - 2 * m) \div (2 * e) <= (d - 2 * n) \div (2 * d)
    BY <2>1, FloorMonotone
  <2> QED
    BY <1>3, <2>2 DEF Rounded
<1> QED
  BY <1>1, <1>2, <1>3

LEMMA ScoreIsRounded ==
  ASSUME creator \in Rows, NEW c \in Creators, NEW skill \in Work
  PROVE  /\ Skill(c, skill) \in Nat /\ Load(c) \in Nat /\ Exact(c, skill) \in Int
         /\ Score(c, skill) = Rounded(Exact(c, skill), 4 * (creator[c].delivered + 2))
<1>1. creator[c] \in [skills : Abilities \cup {{}}, available : Nat, open : Nat, delivered : Nat, onTime : Nat,
                      knows : BOOLEAN]
  BY DEF Rows
<1>2. Skill(c, skill) \in Nat
  BY DEF Skill
<1>3. Load(c) \in Nat
  BY <1>1 DEF Load
<1>4. Exact(c, skill) \in Int
  <2> DEFINE knows == IF creator[c].knows THEN 400 ELSE 0
  <2>1. knows \in Nat
    OBVIOUS
  <2> HIDE DEF knows
  <2>2. Exact(c, skill) = (creator[c].delivered + 2)
          * (120 * Skill(c, skill) + 60 * creator[c].available - 75 * Load(c) + knows) + 400 * (creator[c].onTime + 1)
    BY Zenon DEF Exact, knows
  <2> QED
    BY <1>1, <1>2, <1>3, <2>1, <2>2
<1>5. Score(c, skill) = Rounded(Exact(c, skill), 4 * (creator[c].delivered + 2))
  BY Zenon DEF Score, Rounded
<1> QED
  BY <1>2, <1>3, <1>4, <1>5

LEMMA FractionsCompare ==
  ASSUME NEW x \in Nat, NEW y \in Nat, NEW a \in Int, NEW b \in Int, NEW t \in Nat, NEW u \in Nat,
         x > 0, y > 0, a <= b, t * y <= u * x
  PROVE  (x * a + 400 * t) * (4 * y) <= (y * b + 400 * u) * (4 * x)
<1>1. x * y \in Nat
  OBVIOUS
<1>2. (x * y) * a <= (x * y) * b
  BY <1>1
<1>3. (x * a + 400 * t) * (4 * y) = 4 * ((x * y) * a) + 1600 * (t * y)
  OBVIOUS
<1>4. (y * b + 400 * u) * (4 * x) = 4 * ((x * y) * b) + 1600 * (u * x)
  OBVIOUS
<1> QED
  BY <1>2, <1>3, <1>4

\* Who is as good for the work scores at least as much, when a lower load makes
\* up for what the other one knows.
LEMMA AsGoodScores ==
  ASSUME creator \in Rows, NEW c \in Creators, NEW d \in Creators, NEW skill \in Work, AsGood(d, c, skill),
         75 * Load(d) + (IF creator[c].knows THEN 400 ELSE 0) <= 75 * Load(c) + (IF creator[d].knows THEN 400 ELSE 0)
  PROVE  Score(c, skill) <= Score(d, skill)
<1> DEFINE Knows(x) == IF creator[x].knows THEN 400 ELSE 0
           D(x) == creator[x].delivered + 2
           T(x) == creator[x].onTime + 1
           A(x) == 120 * Skill(x, skill) + 60 * creator[x].available - 75 * Load(x) + Knows(x)
<1>1. \A x \in {c, d} : D(x) \in Nat /\ D(x) > 0 /\ T(x) \in Nat /\ creator[x].available \in Nat
  BY DEF Rows
<1>2. \A x \in {c, d} : Skill(x, skill) \in Nat /\ Load(x) \in Nat
  BY ScoreIsRounded
<1>3. \A x \in {c, d} : Knows(x) \in Nat
  OBVIOUS
<1>4. 75 * Load(d) + Knows(c) <= 75 * Load(c) + Knows(d)
  OBVIOUS
<1>5. \A x \in {c, d} : Exact(x, skill) = D(x) * A(x) + 400 * T(x)
  BY Zenon DEF Exact
<1>6. Skill(d, skill) >= Skill(c, skill) /\ creator[d].available >= creator[c].available /\ T(d) * D(c) >= T(c) * D(d)
  BY Zenon DEF AsGood
<1>7. \A x \in {c, d} : Score(x, skill) = Rounded(Exact(x, skill), 4 * D(x)) /\ Exact(x, skill) \in Int
  BY ScoreIsRounded
<1> HIDE DEF Knows, D, T
<1>8. \A x \in {c, d} : A(x) \in Int
  BY <1>1, <1>2, <1>3
<1>9. A(c) <= A(d)
  BY <1>1, <1>2, <1>3, <1>4, <1>6
<1> HIDE DEF A
<1>10. (D(c) * A(c) + 400 * T(c)) * (4 * D(d)) <= (D(d) * A(d) + 400 * T(d)) * (4 * D(c))
  <2>1. D(c) \in Nat /\ D(d) \in Nat /\ D(c) > 0 /\ D(d) > 0 /\ T(c) \in Nat /\ T(d) \in Nat
    BY <1>1
  <2>2. A(c) \in Int /\ A(d) \in Int
    BY <1>8
  <2> QED
    BY <1>6, <1>9, <2>1, <2>2, FractionsCompare
<1>11. Exact(c, skill) * (4 * D(d)) <= Exact(d, skill) * (4 * D(c))
  BY <1>5, <1>10
<1> QED
  BY <1>1, <1>7, <1>11, RoundMonotone

\* Of Creators as good for the work the busier one is not picked: a task's load
\* counts up to the fourth, and from there on the tie-break tells.
THEOREM Pick_SparesTheBusier == Spec => PickSparesTheBusier
<1>1. RowsRead /\ [Next]_vars =>
        [\A c, d \in Creators, skill \in Work :
           Assign(c, skill) /\ AsGood(d, c, skill) =>
             /\ (creator[c].knows => creator[d].knows) => creator[c].open <= creator[d].open
             /\ creator[d].open <= 1 => creator[c].open <= creator[d].open + 2]_matchingVars
  <2> SUFFICES ASSUME creator \in Rows, NEW c \in Creators, NEW d \in Creators, NEW skill \in Work,
                      Assign(c, skill), AsGood(d, c, skill)
               PROVE  /\ (creator[c].knows => creator[d].knows) => creator[c].open <= creator[d].open
                      /\ creator[d].open <= 1 => creator[c].open <= creator[d].open + 2
    BY DEF RowsRead
  <2>1. \A x \in {c, d} : creator[x].open \in Nat /\ creator[x].knows \in BOOLEAN /\ Score(x, skill) \in Int
    BY ScoreIsRounded DEF Rows, Rounded
  <2>2. ~Better(d, c, skill)
    BY DEF Assign, Pick
  <2>3. ASSUME creator[d].open < creator[c].open, Score(c, skill) <= Score(d, skill) PROVE FALSE
    BY <2>1, <2>2, <2>3 DEF Better
  <2>4. ASSUME creator[c].knows => creator[d].knows, creator[d].open < creator[c].open PROVE FALSE
    <3>1. 75 * Load(d) <= 75 * Load(c)
      BY <2>1, <2>4 DEF Load
    <3>2. Score(c, skill) <= Score(d, skill)
      BY <2>1, <2>4, <3>1, AsGoodScores, ScoreIsRounded
    <3> QED
      BY <2>3, <2>4, <3>2
  <2>5. ASSUME creator[d].open <= 1, creator[c].open > creator[d].open + 2 PROVE FALSE
    <3>1. 75 * Load(d) + 400 <= 75 * Load(c)
      BY <2>1, <2>5 DEF Load
    <3>2. Score(c, skill) <= Score(d, skill)
      BY <2>1, <2>5, <3>1, AsGoodScores, ScoreIsRounded
    <3> QED
      BY <2>1, <2>3, <2>5, <3>2
  <2> QED
    BY <2>1, <2>4, <2>5
<1> QED
  BY <1>1, RowsInit, RowsNext, PTL DEF Spec, PickSparesTheBusier

-----------------------------------------------------------------------------
(* Import: what Transform leaves of a file. *)

Kinds == {"products", "customers"}

\* The part of an id that the searches of a kind tell apart.
IdOf(k, id) == IF k = "customers" THEN Lower[id] ELSE id

\* One row added to what is left of the ones before it.
Put(out, k, row) ==
  LET at_(r) == {i \in DOMAIN out : Key(out[i]) = Key(r)}
  IN  IF ~Good(row) THEN out
      ELSE IF at_(Clean(k, row)) = {} THEN Append(out, Clean(k, row))
      ELSE [i \in DOMAIN out |-> IF i \in at_(Clean(k, row)) THEN Clean(k, row) ELSE out[i]]

LeftAfter(k, rows) ==
  CHOOSE out : out = [n \in 0 .. Len(rows) |-> IF n = 0 THEN <<>> ELSE Put(out[n - 1], k, rows[n])]

LEMMA TransformIsPut ==
  ASSUME NEW k, NEW rows PROVE Transform(k, rows) = LeftAfter(k, rows)[Len(rows)]
  BY DEF Transform, LeftAfter, Put

LEMMA CleanFacts ==
  ASSUME NEW k \in Kinds, NEW r \in FileRow
  PROVE  /\ Clean(k, r) \in ErpObject /\ Clean(k, r).name = r.name
         /\ Clean(k, r).id = NoText <=> r.id = NoText
         /\ Lower[Clean(k, r).id] = Lower[r.id] /\ IdOf(k, Clean(k, r).id) = Clean(k, r).id
<1>1. r.name \in Texts /\ r.id \in Texts
  BY DEF FileRow
<1>2. /\ Lower[r.id] \in Texts /\ Lower[Lower[r.id]] = Lower[r.id] /\ (Lower[r.id] = NoText <=> r.id = NoText)
  BY <1>1, ImportAssumption
<1> QED
  BY <1>1, <1>2 DEF Clean, IdOf, Kinds, ErpObject

\* Transform's keys are equal exactly for rows that are to be one object.
LEMMA KeysAreSame ==
  ASSUME NEW k \in Kinds, NEW r \in FileRow, NEW s \in FileRow
  PROVE  Key(Clean(k, r)) = Key(Clean(k, s)) <=> Same(r, s)
<1>1. /\ Clean(k, r).name = r.name /\ (Clean(k, r).id = NoText <=> r.id = NoText) /\ Lower[Clean(k, r).id] = Lower[r.id]
      /\ Clean(k, s).name = s.name /\ (Clean(k, s).id = NoText <=> s.id = NoText) /\ Lower[Clean(k, s).id] = Lower[s.id]
  BY CleanFacts
<1>2. /\ Lower[r.id] = NoText <=> r.id = NoText
      /\ Lower[s.id] = NoText <=> s.id = NoText
  BY ImportAssumption DEF FileRow
<1> QED
  BY <1>1, <1>2 DEF Key, Same

\* What holds of the rows left: cleaned ids, and no key twice.
Left(k, out) ==
  /\ out \in Seq(ErpObject)
  /\ \A i \in DOMAIN out : IdOf(k, out[i].id) = out[i].id
  /\ \A i, j \in DOMAIN out : Key(out[i]) = Key(out[j]) => i = j

LEMMA PutKeeps ==
  ASSUME NEW k \in Kinds, NEW row \in FileRow, NEW out, Left(k, out)
  PROVE  /\ Left(k, Put(out, k, row))
         /\ ~Good(row) => Put(out, k, row) = out
         /\ Good(row) => /\ \E i \in DOMAIN Put(out, k, row) : Put(out, k, row)[i] = Clean(k, row)
                         /\ \A i \in DOMAIN out : Key(out[i]) # Key(Clean(k, row)) =>
                              \E j \in DOMAIN Put(out, k, row) : Put(out, k, row)[j] = out[i]
<1> DEFINE r == Clean(k, row)
           same == {i \in DOMAIN out : Key(out[i]) = Key(r)}
           P == Put(out, k, row)
<1>1. r \in ErpObject /\ IdOf(k, r.id) = r.id
  BY CleanFacts
<1>2. out \in Seq(ErpObject) /\ DOMAIN out = 1 .. Len(out) /\ Len(out) \in Nat
  BY DEF Left
<1>3. CASE ~Good(row)
  BY <1>3 DEF Put
<1>4. CASE Good(row) /\ same = {}
  <2>1. P = Append(out, r)
    BY <1>4 DEF Put
  <2> HIDE DEF P
  <2>2. P \in Seq(ErpObject) /\ DOMAIN P = 1 .. Len(out) + 1 /\ P[Len(out) + 1] = r
        /\ \A i \in DOMAIN out : P[i] = out[i]
    BY <1>1, <1>2, <2>1
  <2>3. \A i \in DOMAIN out : Key(out[i]) # Key(r)
    BY <1>4
  <2> HIDE DEF r
  <2>4. \A i, j \in DOMAIN P : Key(P[i]) = Key(P[j]) => i = j
    BY <1>2, <2>2, <2>3 DEF Left
  <2>5. \A i \in DOMAIN P : IdOf(k, P[i].id) = P[i].id
    BY <1>1, <1>2, <2>2 DEF Left
  <2>6. Left(k, P)
    BY <2>2, <2>4, <2>5 DEF Left
  <2> QED
    BY <1>2, <1>4, <2>2, <2>6 DEF P, r
<1>5. CASE Good(row) /\ same # {}
  <2>1. P = [i \in DOMAIN out |-> IF i \in same THEN r ELSE out[i]]
    BY <1>5 DEF Put
  <2>2. PICK s \in same : TRUE
    BY <1>5
  <2>3. \A i \in DOMAIN out : (i \in same <=> i = s) /\ (i \in same <=> Key(out[i]) = Key(r))
    BY <2>2 DEF Left
  <2> HIDE DEF P, r, same
  <2>4. DOMAIN P = DOMAIN out /\ P \in Seq(ErpObject) /\ P[s] = r /\ s \in DOMAIN out
        /\ \A i \in DOMAIN out : i # s => P[i] = out[i]
    BY <1>1, <1>2, <2>1, <2>2, <2>3 DEF same
  <2>5. \A i, j \in DOMAIN P : Key(P[i]) = Key(P[j]) => i = j
    BY <2>3, <2>4 DEF Left
  <2>6. \A i \in DOMAIN P : IdOf(k, P[i].id) = P[i].id
    BY <1>1, <2>4 DEF Left
  <2>7. Left(k, P)
    BY <2>4, <2>5, <2>6 DEF Left
  <2>8. \A i \in DOMAIN out : Key(out[i]) # Key(r) => P[i] = out[i]
    BY <2>3, <2>4
  <2> QED
    BY <1>5, <2>4, <2>7, <2>8 DEF P, r
<1> QED
  BY <1>3, <1>4, <1>5

LEMMA PutType ==
  ASSUME NEW k \in Kinds, NEW row \in FileRow, NEW out \in Seq(ErpObject)
  PROVE  Put(out, k, row) \in Seq(ErpObject)
<1> DEFINE r == Clean(k, row)
           same == {i \in DOMAIN out : Key(out[i]) = Key(r)}
<1>1. r \in ErpObject
  BY CleanFacts
<1>2. DOMAIN out = 1 .. Len(out) /\ Len(out) \in Nat
  OBVIOUS
<1>3. Put(out, k, row) = IF ~Good(row) THEN out ELSE IF same = {} THEN Append(out, r)
                         ELSE [i \in DOMAIN out |-> IF i \in same THEN r ELSE out[i]]
  BY DEF Put
<1> HIDE DEF r, same
<1>4. [i \in DOMAIN out |-> IF i \in same THEN r ELSE out[i]] \in Seq(ErpObject)
  BY <1>1, <1>2
<1> QED
  BY <1>1, <1>3, <1>4

\* LeftAfter is what its recursion says.
LEMMA LeftAfterStep ==
  ASSUME NEW k \in Kinds, NEW rows \in Seq(FileRow)
  PROVE  /\ LeftAfter(k, rows)[0] = <<>>
         /\ \A n \in 1 .. Len(rows) : LeftAfter(k, rows)[n] = Put(LeftAfter(k, rows)[n - 1], k, rows[n])
<1> DEFINE V == Seq(ErpObject)
           N == Len(rows)
           step == [p \in (1 .. N) \X V |-> Put(p[2], k, rows[p[1]])]
           Is(out) == out = [n \in 0 .. N |-> IF n = 0 THEN <<>> ELSE Put(out[n - 1], k, rows[n])]
<1>1. N \in Nat /\ <<>> \in V /\ \A n \in 1 .. N : rows[n] \in FileRow
  OBVIOUS
<1>2. step \in [(1 .. N) \X V -> V]
  BY <1>1, PutType
<1>3. \A n \in 1 .. N, out \in V : step[<<n, out>>] = Put(out, k, rows[n])
  OBVIOUS
<1> HIDE DEF V, N, step
<1>4. PICK f : Unfolds(f, V, <<>>, N, step)
  BY <1>1, <1>2, Recursion
<1>5. \A n \in 1 .. N : f[n] = Put(f[n - 1], k, rows[n])
  <2> TAKE n \in 1 .. N
  <2>1. f[n - 1] \in V
    BY <1>1, <1>4 DEF Unfolds
  <2> QED
    BY <1>3, <1>4, <2>1 DEF Unfolds
<1>6. \A n \in 0 .. N : f[n] = IF n = 0 THEN <<>> ELSE Put(f[n - 1], k, rows[n])
  BY <1>1, <1>4, <1>5 DEF Unfolds
<1>7. Is(f)
  <2>1. f \in [0 .. N -> V]
    BY <1>4 DEF Unfolds
  <2> QED
    BY <1>6, <2>1
<1>8. LeftAfter(k, rows) = CHOOSE out : Is(out)
  BY DEF LeftAfter, N
<1>9. Is(LeftAfter(k, rows))
  BY <1>7, <1>8
<1> QED
  BY <1>1, <1>9 DEF N

\* Transform leaves one record for every key, and every good row that no later
\* one repeats.
LEMMA TransformLeaves ==
  ASSUME NEW k \in Kinds, NEW rows \in Seq(FileRow)
  PROVE  /\ Left(k, Transform(k, rows))
         /\ \A m \in DOMAIN rows :
              Good(rows[m]) /\ (\A l \in m + 1 .. Len(rows) : Good(rows[l]) => ~Same(rows[m], rows[l])) =>
                \E i \in DOMAIN Transform(k, rows) : Transform(k, rows)[i] = Clean(k, rows[m])
<1> DEFINE N == Len(rows)
           out == LeftAfter(k, rows)
           Final(m, n) == Good(rows[m]) /\ \A l \in m + 1 .. n : Good(rows[l]) => ~Same(rows[m], rows[l])
           Has(n, m) == \E i \in DOMAIN out[n] : out[n][i] = Clean(k, rows[m])
           S == {n \in Nat : n <= N => Left(k, out[n]) /\ \A m \in 1 .. n : Final(m, n) => Has(n, m)}
<1>1. N \in Nat /\ DOMAIN rows = 1 .. N /\ \A n \in 1 .. N : rows[n] \in FileRow
  OBVIOUS
<1>2. out[0] = <<>> /\ \A n \in 1 .. N : out[n] = Put(out[n - 1], k, rows[n])
  BY LeftAfterStep
<1> HIDE DEF N, out
<1>3. 0 \in S
  <2>1. Left(k, <<>>)
    BY DEF Left
  <2> QED
    BY <1>2, <2>1
<1>4. ASSUME NEW n \in Nat, n \in S PROVE n + 1 \in S
  <2> SUFFICES ASSUME n + 1 <= N
               PROVE  Left(k, out[n + 1]) /\ \A m \in 1 .. n + 1 : Final(m, n + 1) => Has(n + 1, m)
    OBVIOUS
  <2> DEFINE row == rows[n + 1]
  <2>1. row \in FileRow /\ out[n + 1] = Put(out[n], k, row)
    BY <1>1, <1>2
  <2>2. Left(k, out[n]) /\ \A m \in 1 .. n : Final(m, n) => Has(n, m)
    BY <1>1, <1>4
  <2> HIDE DEF row
  <2>3. /\ Left(k, out[n + 1])
        /\ ~Good(row) => out[n + 1] = out[n]
        /\ Good(row) => /\ \E i \in DOMAIN out[n + 1] : out[n + 1][i] = Clean(k, row)
                        /\ \A i \in DOMAIN out[n] : Key(out[n][i]) # Key(Clean(k, row)) =>
                             \E j \in DOMAIN out[n + 1] : out[n + 1][j] = out[n][i]
    BY <2>1, <2>2, PutKeeps
  <2>4. ASSUME NEW m \in 1 .. n + 1, Final(m, n + 1) PROVE Has(n + 1, m)
    <3>1. CASE m = n + 1
      BY <2>3, <2>4, <3>1 DEF row
    <3>2. CASE m \in 1 .. n
      <4>1. Final(m, n) /\ (Good(row) => ~Same(rows[m], row))
        BY <2>4, <3>2 DEF row
      <4>2. PICK i \in DOMAIN out[n] : out[n][i] = Clean(k, rows[m])
        BY <2>2, <3>2, <4>1
      <4>3. rows[m] \in FileRow
        BY <1>1, <3>2
      <4>4. Good(row) => Key(out[n][i]) # Key(Clean(k, row))
        BY <2>1, <4>1, <4>2, <4>3, KeysAreSame
      <4> QED
        BY <2>3, <4>2, <4>4
    <3> QED
      BY <3>1, <3>2
  <2> QED
    BY <2>3, <2>4
<1> HIDE DEF S
<1>5. N \in S
  BY <1>1, <1>3, <1>4, Induct
<1>6. Left(k, out[N]) /\ \A m \in 1 .. N : Final(m, N) => Has(N, m)
  BY <1>1, <1>5 DEF S
<1> QED
  BY <1>1, <1>6, TransformIsPut DEF N, out
-----------------------------------------------------------------------------
(* Import: what Load keeps. *)

ImportTypes ==
  /\ kind \in Kinds /\ file \in Seq(FileRow) /\ erp \in Seq(ErpObject)
  /\ at \in Nat /\ at <= Len(Records) /\ clean \in BOOLEAN /\ full \in 0 .. 2

\* The searches of a record with an id find at most one object.
OneEach ==
  \A i, j \in DOMAIN erp : erp[i].id # NoText /\ IdOf(kind, erp[i].id) = IdOf(kind, erp[j].id) => i = j

Stored(r) == \E i \in DOMAIN erp : erp[i].name = r.name /\ erp[i].id = r.id

\* An object has the name and no record that would find it by its id has another.
Safe(r) ==
  \E i \in DOMAIN erp :
    /\ erp[i].name = r.name
    /\ \A j \in DOMAIN Records : Records[j].id # NoText /\ IdOf(kind, erp[i].id) = Records[j].id => Records[j].name = r.name

\* The records before the one Load is at, of an import in which none failed.
Past(j) == clean /\ j < at

StoredOnce == \A j \in DOMAIN Records : Records[j].id # NoText /\ (full >= 1 \/ Past(j)) => Stored(Records[j])

SafeTwice == \A j \in DOMAIN Records : Records[j].id = NoText /\ (full = 2 \/ (full = 1 /\ Past(j))) => Safe(Records[j])

ImportInv == ImportTypes /\ OneEach /\ StoredOnce /\ SafeTwice

LEMMA RecordsLeft ==
  ASSUME kind \in Kinds, file \in Seq(FileRow)
  PROVE  /\ Left(kind, Records) /\ DOMAIN Records = 1 .. Len(Records) /\ Len(Records) \in Nat
         /\ \A j \in DOMAIN Records : Records[j] \in ErpObject /\ IdOf(kind, Records[j].id) = Records[j].id
         /\ \A i, j \in DOMAIN Records : Records[i].id # NoText /\ Records[i].id = Records[j].id => i = j
<1>1. Left(kind, Records)
  BY TransformLeaves DEF Records
<1>2. \A i, j \in DOMAIN Records : Records[i].id # NoText /\ Records[i].id = Records[j].id => i = j
  BY <1>1 DEF Left, Key
<1> QED
  BY <1>1, <1>2 DEF Left

\* The searches of both kinds, as one.
LEMMA FoundBy ==
  ASSUME kind \in Kinds, NEW r, IdOf(kind, r.id) = r.id, NEW i \in DOMAIN erp
  PROVE  i \in Found(r) <=> IF r.id # NoText THEN IdOf(kind, erp[i].id) = r.id ELSE erp[i].name = r.name
  BY DEF Found, IsProduct, IsCustomer, IdOf, Kinds

LEMMA EmptyId ==
  ASSUME NEW k \in Kinds, NEW o \in ErpObject
  PROVE  IdOf(k, o.id) = NoText <=> o.id = NoText
<1>1. o.id \in Texts
  BY DEF ErpObject
<1> QED
  BY <1>1, ImportAssumption DEF IdOf

LEMMA NextOf ==
  ASSUME NEW a \in Nat, NEW n \in Nat, a <= n
  PROVE  (a + 1) % (n + 1) = IF a = n THEN 0 ELSE a + 1
<1>1. CASE a = n
  <2>1. (n + 1) % (n + 1) = 0
    OBVIOUS
  <2> QED
    BY <1>1, <2>1
<1>2. CASE a < n
  OBVIOUS
<1> QED
  BY <1>1, <1>2

\* What Update and Create have to see to.
LEMMA LoadKeeps ==
  ASSUME ImportInv, NEW q \in DOMAIN Records, q = at, NEW ok \in BOOLEAN, Advance(ok), Records' = Records,
         erp' \in Seq(ErpObject), OneEach',
         \A j \in DOMAIN Records : Records[j].id # NoText /\ Stored(Records[j]) => Stored(Records[j])',
         \A j \in DOMAIN Records : Records[j].id = NoText /\ Safe(Records[j]) => Safe(Records[j])',
         Records[q].id # NoText => Stored(Records[q])',
         full >= 1 /\ Records[q].id = NoText => Safe(Records[q])'
  PROVE  ImportInv'
<1> DEFINE R == Records
           L == Len(R)
<1> USE DEF ImportInv, ImportTypes
<1>1. R' = R /\ DOMAIN R = 1 .. L /\ L \in Nat /\ at \in 1 .. L
  BY RecordsLeft
<1>2. at' = IF at = L THEN 0 ELSE at + 1
  <2>1. at' = (at + 1) % (L + 1)
    BY DEF Advance
  <2> HIDE DEF R, L
  <2>2. at \in Nat /\ at <= L
    BY <1>1
  <2> QED
    BY <1>1, <2>1, <2>2, NextOf
<1>3. /\ clean' = (clean /\ ok) /\ full' = IF at' = 0 /\ clean' /\ full < 2 THEN full + 1 ELSE full
      /\ kind' = kind /\ file' = file
  BY DEF Advance
<1> HIDE DEF R, L
<1>4. ImportTypes'
  <2>1. at' \in Nat /\ at' <= L
    BY <1>1, <1>2
  <2>2. clean' \in BOOLEAN
    BY <1>3
  <2>3. full' \in 0 .. 2
    BY <1>3
  <2> QED
    BY <1>1, <1>3, <2>1, <2>2, <2>3 DEF R, L
<1>5. ASSUME NEW j \in 1 .. L, full' >= 1 \/ Past(j)' PROVE full >= 1 \/ (clean /\ j <= at)
  BY <1>1, <1>2, <1>3, <1>5 DEF Past
<1>6. ASSUME NEW j \in 1 .. L, full' = 2 \/ (full' = 1 /\ Past(j)') PROVE full = 2 \/ (full = 1 /\ clean /\ j <= at)
  BY <1>1, <1>2, <1>3, <1>6 DEF Past
<1>7. StoredOnce'
  <2> SUFFICES ASSUME NEW j \in 1 .. L, R[j].id # NoText, full' >= 1 \/ Past(j)' PROVE Stored(R[j])'
    BY <1>1 DEF StoredOnce, R
  <2>1. CASE j = q
    BY <2>1 DEF R
  <2>2. CASE j # q
    <3>1. Stored(R[j])
      BY <1>1, <1>5, <2>2 DEF StoredOnce, Past, R
    <3> QED
      BY <1>1, <3>1 DEF R
  <2> QED
    BY <2>1, <2>2
<1>8. SafeTwice'
  <2> SUFFICES ASSUME NEW j \in 1 .. L, R[j].id = NoText, full' = 2 \/ (full' = 1 /\ Past(j)') PROVE Safe(R[j])'
    BY <1>1 DEF SafeTwice, R
  <2>1. full = 2 \/ (full = 1 /\ clean /\ j <= at)
    BY <1>6
  <2>2. CASE j = q
    BY <2>1, <2>2 DEF R
  <2>3. CASE j # q
    <3>1. Safe(R[j])
      BY <1>1, <2>1, <2>3 DEF SafeTwice, Past, R
    <3> QED
      BY <1>1, <3>1 DEF R
  <2> QED
    BY <2>2, <2>3
<1> QED
  BY <1>4, <1>7, <1>8

\* A record written over what it found leaves every name with the ids that find it.
LEMMA WriteKeeps ==
  ASSUME ImportInv, Records' = Records, kind' = kind, NEW q \in DOMAIN Records, NEW o \in Found(Records[q]),
         erp' = [erp EXCEPT ![o] = Written(Records[q], @)]
  PROVE  /\ erp' \in Seq(ErpObject) /\ OneEach'
         /\ \A j \in DOMAIN Records : Records[j].id # NoText /\ Stored(Records[j]) => Stored(Records[j])'
         /\ \A j \in DOMAIN Records : Records[j].id = NoText /\ Safe(Records[j]) => Safe(Records[j])'
         /\ Records[q].id # NoText => Stored(Records[q])'
         /\ full >= 1 /\ Records[q].id = NoText => Safe(Records[q])'
<1> DEFINE R == Records
           w == Written(R[q], erp[o])
<1> USE DEF ImportInv, ImportTypes
<1>1. /\ \A j \in DOMAIN R : R[j] \in ErpObject /\ IdOf(kind, R[j].id) = R[j].id
      /\ \A i, j \in DOMAIN R : R[i].id # NoText /\ R[i].id = R[j].id => i = j
      /\ R' = R
  BY RecordsLeft
<1>2. o \in DOMAIN erp /\ erp[o] \in ErpObject
  BY DEF Found
<1>3. IF R[q].id # NoText THEN IdOf(kind, erp[o].id) = R[q].id ELSE erp[o].name = R[q].name
  BY <1>1, <1>2, FoundBy
<1>4. w.name = R[q].name /\ (R[q].id = NoText => w.id = erp[o].id) /\ (R[q].id # NoText => w.id = R[q].id)
  BY DEF Written
<1>5. w \in ErpObject
  BY <1>1, <1>2 DEF Written, ErpObject
<1>6. erp' = [erp EXCEPT ![o] = w]
  OBVIOUS
<1> HIDE DEF R, w
<1>7. /\ erp' \in Seq(ErpObject) /\ DOMAIN erp' = DOMAIN erp /\ erp'[o] = w
      /\ \A i \in DOMAIN erp : i # o => erp'[i] = erp[i]
  BY <1>2, <1>5, <1>6
\* An object keeps the part of its id that is searched for.
<1>8. IdOf(kind, w.id) = IdOf(kind, erp[o].id) /\ (w.id = NoText <=> erp[o].id = NoText)
  <2>1. IdOf(kind, w.id) = IdOf(kind, erp[o].id)
    <3>1. CASE R[q].id = NoText
      BY <1>4, <3>1
    <3>2. CASE R[q].id # NoText
      <4>1. w.id = R[q].id /\ IdOf(kind, erp[o].id) = R[q].id
        BY <1>3, <1>4, <3>2
      <4>2. IdOf(kind, R[q].id) = R[q].id
        BY <1>1, <3>2 DEF R
      <4> QED
        BY <4>1, <4>2
    <3> QED
      BY <3>1, <3>2
  <2> QED
    BY <1>2, <1>5, <2>1, EmptyId
<1>9. \A i \in DOMAIN erp : IdOf(kind, erp'[i].id) = IdOf(kind, erp[i].id) /\ (erp'[i].id = NoText <=> erp[i].id = NoText)
  BY <1>7, <1>8
<1>10. OneEach'
  BY <1>7, <1>9 DEF OneEach
<1>11. ASSUME NEW j \in DOMAIN R, R[j].id # NoText, Stored(R[j]) PROVE Stored(R[j])'
  <2>1. PICK i \in DOMAIN erp : erp[i].name = R[j].name /\ erp[i].id = R[j].id
    BY <1>11 DEF Stored
  <2>2. erp'[i].name = R[j].name /\ erp'[i].id = R[j].id
    <3>1. CASE i # o
      BY <1>7, <2>1, <3>1
    <3>2. CASE i = o /\ R[q].id = NoText
      BY <1>3, <1>4, <1>7, <2>1, <3>2
    <3>3. CASE i = o /\ R[q].id # NoText
      <4>1. R[q].id = R[j].id
        BY <1>1, <1>3, <2>1, <3>3
      <4>2. q = j
        BY <1>1, <3>3, <4>1 DEF R
      <4> QED
        BY <1>4, <1>7, <3>3, <4>2
    <3> QED
      BY <3>1, <3>2, <3>3
  <2> QED
    BY <1>1, <1>7, <2>2 DEF Stored
<1>12. ASSUME NEW j \in DOMAIN R, Safe(R[j]) PROVE Safe(R[j])'
  <2>1. PICK i \in DOMAIN erp : /\ erp[i].name = R[j].name
                                /\ \A l \in DOMAIN R : R[l].id # NoText /\ IdOf(kind, erp[i].id) = R[l].id => R[l].name = R[j].name
    BY <1>12 DEF Safe, R
  <2>2. erp'[i].name = R[j].name
    <3>1. CASE i # o
      BY <1>7, <2>1, <3>1
    <3>2. CASE i = o
      BY <1>3, <1>4, <1>7, <2>1, <3>2 DEF R
    <3> QED
      BY <3>1, <3>2
  <2>3. \A l \in DOMAIN R : R[l].id # NoText /\ IdOf(kind, erp'[i].id) = R[l].id => R[l].name = R[j].name
    BY <1>9, <2>1
  <2> QED
    BY <1>1, <1>7, <2>2, <2>3 DEF Safe, R
<1>13. R[q].id # NoText => Stored(R[q])'
  BY <1>1, <1>2, <1>4, <1>7 DEF Stored
<1>14. ASSUME full >= 1, R[q].id = NoText PROVE Safe(R[q])'
  <2>1. ASSUME NEW l \in DOMAIN R, R[l].id # NoText, IdOf(kind, erp'[o].id) = R[l].id PROVE R[l].name = R[q].name
    <3>1. PICK i \in DOMAIN erp : erp[i].name = R[l].name /\ erp[i].id = R[l].id
      BY <1>14, <2>1 DEF StoredOnce, Stored, R
    <3>2. IdOf(kind, erp[o].id) = R[l].id /\ IdOf(kind, erp[i].id) = R[l].id
      BY <1>1, <1>2, <1>9, <2>1, <3>1
    <3>3. i = o
      BY <1>2, <2>1, <3>1, <3>2 DEF OneEach
    <3> QED
      BY <1>3, <1>14, <3>1, <3>3
  <2> QED
    BY <1>1, <1>2, <1>4, <1>7, <2>1 DEF Safe, R
<1> QED
  BY <1>7, <1>10, <1>11, <1>12, <1>13, <1>14 DEF R

\* So does a record that was created because nothing was found.
LEMMA CreateKeeps ==
  ASSUME ImportInv, Records' = Records, kind' = kind, NEW q \in DOMAIN Records, Found(Records[q]) = {},
         erp' = Append(erp, Records[q])
  PROVE  /\ erp' \in Seq(ErpObject) /\ OneEach'
         /\ \A j \in DOMAIN Records : Records[j].id # NoText /\ Stored(Records[j]) => Stored(Records[j])'
         /\ \A j \in DOMAIN Records : Records[j].id = NoText /\ Safe(Records[j]) => Safe(Records[j])'
         /\ Records[q].id # NoText => Stored(Records[q])'
         /\ full >= 1 /\ Records[q].id = NoText => Safe(Records[q])'
<1> DEFINE R == Records
           n == Len(erp) + 1
<1> USE DEF ImportInv, ImportTypes
<1>1. /\ \A j \in DOMAIN R : R[j] \in ErpObject /\ IdOf(kind, R[j].id) = R[j].id
      /\ R' = R
  BY RecordsLeft
<1>2. \A i \in DOMAIN erp : R[q].id # NoText => IdOf(kind, erp[i].id) # R[q].id
  BY <1>1, FoundBy
<1> HIDE DEF R
<1>3. /\ erp' \in Seq(ErpObject) /\ DOMAIN erp = 1 .. Len(erp) /\ Len(erp) \in Nat
      /\ DOMAIN erp' = 1 .. n /\ erp'[n] = R[q] /\ \A i \in DOMAIN erp : erp'[i] = erp[i]
  BY <1>1 DEF R
<1> HIDE DEF n
<1>4. \A i \in DOMAIN erp' : i \in DOMAIN erp \/ i = n
  BY <1>3 DEF n
<1>5. n \in DOMAIN erp' /\ \A i \in DOMAIN erp : i \in DOMAIN erp'
  BY <1>3 DEF n
<1>6. OneEach'
  <2> SUFFICES ASSUME NEW i \in DOMAIN erp', NEW j \in DOMAIN erp', erp'[i].id # NoText,
                      IdOf(kind, erp'[i].id) = IdOf(kind, erp'[j].id)
               PROVE  i = j
    BY DEF OneEach
  <2>1. CASE i \in DOMAIN erp /\ j \in DOMAIN erp
    BY <1>3, <2>1 DEF OneEach
  <2>2. CASE i \in DOMAIN erp /\ j = n
    <3>1. IdOf(kind, erp[i].id) = R[q].id /\ erp[i] \in ErpObject /\ erp[i].id # NoText
      BY <1>1, <1>3, <2>2 DEF R
    <3>2. R[q].id # NoText
      BY <3>1, EmptyId
    <3> QED
      BY <1>2, <2>2, <3>1, <3>2
  <2>3. CASE i = n /\ j \in DOMAIN erp
    BY <1>1, <1>2, <1>3, <2>3 DEF R
  <2> QED
    BY <1>4, <2>1, <2>2, <2>3
<1>7. ASSUME NEW j \in DOMAIN R, Stored(R[j]) PROVE Stored(R[j])'
  BY <1>1, <1>3, <1>5, <1>7 DEF Stored
<1>8. ASSUME NEW j \in DOMAIN R, Safe(R[j]) PROVE Safe(R[j])'
  <2>1. PICK i \in DOMAIN erp : /\ erp[i].name = R[j].name
                                /\ \A l \in DOMAIN R : R[l].id # NoText /\ IdOf(kind, erp[i].id) = R[l].id => R[l].name = R[j].name
    BY <1>8 DEF Safe, R
  <2>2. erp'[i] = erp[i] /\ i \in DOMAIN erp'
    BY <1>3, <1>5
  <2> QED
    BY <1>1, <2>1, <2>2 DEF Safe, R
<1>9. Stored(R[q])'
  BY <1>1, <1>3, <1>5 DEF Stored
<1>10. ASSUME R[q].id = NoText PROVE Safe(R[q])'
  <2>1. IdOf(kind, R[q].id) = NoText
    BY <1>1, <1>10 DEF R
  <2> QED
    BY <1>1, <1>3, <1>5, <2>1 DEF Safe, R
<1> QED
  BY <1>3, <1>6, <1>7, <1>8, <1>9, <1>10 DEF R

LEMMA ImportBegins == Init => ImportInv
<1> SUFFICES ASSUME Init PROVE ImportInv
  OBVIOUS
<1> USE ImportAssumption
<1>1. kind \in Kinds /\ file \in Seq(FileRow) /\ erp \in Seq(ErpObject) /\ at = 0 /\ clean = TRUE /\ full = 0
  <2>1. CASE NothingImported
    BY <2>1 DEF NothingImported, Kinds
  <2>2. CASE ImportInit
    <3>1. kind \in Kinds /\ at = 0 /\ clean = TRUE /\ full = 0 /\ file \in Files /\ erp \in Holdings
      BY <2>2 DEF ImportInit, Kinds
    <3> QED
      BY <3>1
  <2> QED
    BY <2>1, <2>2 DEF Init
<1>2. Len(Records) \in Nat /\ DOMAIN Records = 1 .. Len(Records)
  BY <1>1, RecordsLeft
<1>3. ImportTypes
  BY <1>1, <1>2 DEF ImportTypes
<1>4. OneEach
  <2>1. CASE erp = <<>>
    BY <2>1 DEF OneEach
  <2>2. CASE erp \in Holdings
    <3>1. ASSUME NEW i \in DOMAIN erp, NEW j \in DOMAIN erp, erp[i].id # NoText,
                 IdOf(kind, erp[i].id) = IdOf(kind, erp[j].id)
          PROVE  i = j
      <4>1. Lower[erp[i].id] = Lower[erp[j].id]
        BY <3>1 DEF IdOf
      <4> QED
        BY <2>2, <3>1, <4>1, OneObjectPerId
    <3> QED
      BY <3>1 DEF OneEach
  <2> QED
    BY <2>1, <2>2 DEF Init, NothingImported, ImportInit
<1>5. StoredOnce /\ SafeTwice
  BY <1>1, <1>2 DEF StoredOnce, SafeTwice, Past
<1> QED
  BY <1>3, <1>4, <1>5 DEF ImportInv

\* Nothing is created once every record was imported twice.
LEMMA CreatesNothing ==
  ASSUME ImportInv, full = 2, NEW q \in DOMAIN Records
  PROVE  Found(Records[q]) # {}
<1> USE DEF ImportInv, ImportTypes
<1>1. IdOf(kind, Records[q].id) = Records[q].id
  BY RecordsLeft
<1>2. CASE Records[q].id # NoText
  <2>1. PICK i \in DOMAIN erp : erp[i].id = Records[q].id
    BY <1>2 DEF StoredOnce, Stored
  <2>2. i \in Found(Records[q])
    BY <1>1, <1>2, <2>1, FoundBy
  <2> QED
    BY <2>2
<1>3. CASE Records[q].id = NoText
  <2>1. PICK i \in DOMAIN erp : erp[i].name = Records[q].name
    BY <1>3 DEF SafeTwice, Safe
  <2>2. i \in Found(Records[q])
    BY <1>1, <1>3, <2>1, FoundBy
  <2> QED
    BY <2>2
<1> QED
  BY <1>2, <1>3

LEMMA RecordsStay == ASSUME kind' = kind, file' = file PROVE Records' = Records
  BY DEF Records

LEMMA ImportKeeps == ImportInv /\ [Next]_vars => ImportInv'
<1> SUFFICES ASSUME ImportInv, [Next]_vars PROVE ImportInv'
  OBVIOUS
<1>1. CASE UNCHANGED importVars
  <2>1. /\ kind' = kind /\ file' = file /\ erp' = erp /\ at' = at /\ clean' = clean /\ full' = full
    BY <1>1 DEF importVars
  <2>2. Records' = Records
    BY <2>1, RecordsStay
  <2> QED
    BY <2>1, <2>2 DEF ImportInv, ImportTypes, OneEach, StoredOnce, SafeTwice, Stored, Safe, Past
<1>2. CASE ImportNext
  <2>1. kind' = kind /\ file' = file
    BY <1>2 DEF ImportNext, Begin, Skip, Stop, Update, Create, Advance
  <2>2. Records' = Records /\ DOMAIN Records = 1 .. Len(Records) /\ Len(Records) \in Nat
    BY <2>1, RecordsStay, RecordsLeft DEF ImportInv, ImportTypes
\* A step that loads nothing.
  <2>3. ASSUME erp' = erp, full' = full, at' \in Nat, at' <= Len(Records), clean' \in BOOLEAN, ~clean' \/ at' <= 1
        PROVE  ImportInv'
    <3>1. \A j \in DOMAIN Records : ~Past(j)'
      BY <2>2, <2>3 DEF Past
    <3>2. ImportTypes' /\ OneEach'
      BY <2>1, <2>2, <2>3 DEF ImportInv, ImportTypes, OneEach
    <3>3. (\A j : Stored(Records[j]) => Stored(Records[j])') /\ (\A j : Safe(Records[j]) => Safe(Records[j])')
      BY <2>1, <2>2, <2>3 DEF Stored, Safe
    <3> QED
      BY <2>2, <2>3, <3>1, <3>2, <3>3 DEF ImportInv, StoredOnce, SafeTwice
  <2>4. CASE Begin
    <3>1. Len(Records) >= 1
      BY <2>2, <2>4, RecordsLeft DEF Begin, ImportInv, ImportTypes, Left
    <3> QED
      BY <2>2, <2>3, <2>4, <3>1 DEF Begin
  <2>5. CASE Stop
    <3>1. at' = 0 /\ clean' = FALSE /\ erp' = erp /\ full' = full
      BY <2>5 DEF Stop
    <3>2. at' \in Nat /\ at' <= Len(Records)
      <4>1. \A n \in Nat : 0 <= n
        OBVIOUS
      <4> QED
        BY <2>2, <3>1, <4>1
    <3> QED
      BY <2>3, <3>1, <3>2
  <2>6. CASE Skip
    <3>1. at' = (at + 1) % (Len(Records) + 1) /\ clean' = FALSE /\ full' = full /\ erp' = erp
      BY <2>6 DEF Skip, Advance
    <3>2. at' \in Nat /\ at' <= Len(Records)
      <4>1. at \in Nat /\ at <= Len(Records)
        BY DEF ImportInv, ImportTypes
      <4> QED
        BY <2>2, <3>1, <4>1, NextOf
    <3> QED
      BY <2>3, <3>1, <3>2
  <2>7. ASSUME NEW ok \in BOOLEAN, Update(ok) PROVE ImportInv'
    <3>1. PICK q \in DOMAIN Records : q = at
      BY <2>2, <2>7 DEF Update, ImportInv, ImportTypes
    <3>2. PICK o \in Found(Records[q]) : erp' = [erp EXCEPT ![o] = Written(Records[q], @)]
      BY <2>7, <3>1 DEF Update
    <3> QED
      BY <2>1, <2>2, <2>7, <3>1, <3>2, WriteKeeps, LoadKeeps DEF Update
  <2>8. ASSUME NEW ok \in BOOLEAN, Create(ok) PROVE ImportInv'
    <3>1. PICK q \in DOMAIN Records : q = at
      BY <2>2, <2>8 DEF Create, ImportInv, ImportTypes
    <3> QED
      BY <2>1, <2>2, <2>8, <3>1, CreateKeeps, LoadKeeps DEF Create
  <2> QED
    BY <1>2, <2>4, <2>5, <2>6, <2>7, <2>8 DEF ImportNext
<1> QED
  BY <1>1, <1>2 DEF Next, vars, importVars

\* After two imports without failures every good row that no later one repeats
\* is in the ERP under its name, and another import creates nothing.
THEOREM Import_Stands == Spec => ImportStands
<1> DEFINE There == full = 2 /\ at = 0 => AllThere
<1>1. ImportInv => There
  <2> SUFFICES ASSUME ImportInv, full = 2, NEW n \in DOMAIN file, Good(file[n]),
                      \A m \in n + 1 .. Len(file) : Good(file[m]) => ~Same(file[n], file[m])
               PROVE  \E i \in DOMAIN erp :
                        erp[i].name = file[n].name /\ (file[n].id # NoText => erp[i].id = Clean(kind, file[n]).id)
    BY DEF AllThere
  <2> USE DEF ImportInv, ImportTypes
  <2>1. PICK j \in DOMAIN Records : Records[j] = Clean(kind, file[n])
    BY TransformLeaves DEF Records
  <2>2. file[n] \in FileRow
    OBVIOUS
  <2>3. Records[j].name = file[n].name /\ (Records[j].id = NoText <=> file[n].id = NoText)
    BY <2>1, <2>2, CleanFacts
  <2>4. CASE Records[j].id # NoText
    <3>1. Stored(Records[j])
      BY <2>4 DEF StoredOnce
    <3> QED
      BY <2>1, <2>3, <3>1 DEF Stored
  <2>5. CASE Records[j].id = NoText
    <3>1. Safe(Records[j])
      BY <2>5 DEF SafeTwice
    <3> QED
      BY <2>3, <2>5, <3>1 DEF Safe
  <2> QED
    BY <2>4, <2>5
<1>2. ImportInv /\ [Next]_vars => [full = 2 => Len(erp') = Len(erp)]_importVars
  <2> SUFFICES ASSUME ImportInv, ImportNext, full = 2 PROVE Len(erp') = Len(erp)
    BY DEF Next, vars
  <2>1. CASE erp' = erp
    BY <2>1
  <2>2. ASSUME NEW ok \in BOOLEAN, Update(ok) PROVE Len(erp') = Len(erp)
    BY <2>2 DEF Update, ImportInv, ImportTypes
  <2>3. ASSUME NEW ok \in BOOLEAN, Create(ok) PROVE FALSE
    <3>1. at \in DOMAIN Records
      BY <2>3, RecordsLeft DEF Create, ImportInv, ImportTypes
    <3> QED
      BY <2>3, <3>1, CreatesNothing DEF Create
  <2> QED
    BY <2>1, <2>2, <2>3 DEF ImportNext, Begin, Skip, Stop
<1> HIDE DEF There
<1>3. Spec => []There
  BY <1>1, ImportBegins, ImportKeeps, PTL DEF Spec
<1>4. Spec => [][full = 2 => Len(erp') = Len(erp)]_importVars
  BY <1>2, ImportBegins, ImportKeeps, PTL DEF Spec
<1> QED
  BY <1>3, <1>4 DEF ImportStands, There

-----------------------------------------------------------------------------
(* The panel: the titles of lists of proposals. *)

IsList(s) == \E S : s \in Seq(S)

\* What a proposal is about begins with one of these words.
Words(s, W) == \A i \in DOMAIN s : Subject(s[i].title)[1] \in W

NoSetup(s) == \A i \in DOMAIN s : ~IsSetup(s[i])

OnceEach(s) == \A i, j \in DOMAIN s : Subject(s[i].title) = Subject(s[j].title) => i = j

\* A list of advices about different things, of which W has the first words.
Advices(s, W) == IsList(s) /\ Words(s, W) /\ NoSetup(s) /\ OnceEach(s)

LEMMA ListFacts ==
  ASSUME NEW s, IsList(s)
  PROVE  Len(s) \in Nat /\ DOMAIN s = 1 .. Len(s) /\ (Len(s) = 0 => s = <<>>)
<1>1. PICK S : s \in Seq(S)
  BY DEF IsList
<1> QED
  BY <1>1

LEMMA ConcatFacts ==
  ASSUME NEW s, NEW t, IsList(s), IsList(t)
  PROVE  /\ IsList(s \o t)
         /\ \A i \in DOMAIN (s \o t) : IF i <= Len(s) THEN i \in DOMAIN s /\ (s \o t)[i] = s[i]
                                       ELSE i - Len(s) \in DOMAIN t /\ (s \o t)[i] = t[i - Len(s)]
         /\ DOMAIN (s \o t) = 1 .. Len(s) + Len(t)
<1>1. PICK S : s \in Seq(S)
  BY DEF IsList
<1>2. PICK T : t \in Seq(T)
  BY DEF IsList
<1> DEFINE U == S \cup T
<1>3. s \in Seq(U) /\ t \in Seq(U)
  BY <1>1, <1>2
<1> HIDE DEF U
<1>4. s \o t \in Seq(U)
  BY <1>3
<1>5. DOMAIN (s \o t) = 1 .. Len(s) + Len(t) /\ Len(s) \in Nat /\ Len(t) \in Nat
  BY <1>3
<1>6. DOMAIN s = 1 .. Len(s) /\ DOMAIN t = 1 .. Len(t)
  BY <1>3
<1>7. \A i \in 1 .. Len(s) + Len(t) : (s \o t)[i] = IF i <= Len(s) THEN s[i] ELSE t[i - Len(s)]
  BY <1>3
<1>8. ASSUME NEW i \in DOMAIN (s \o t)
      PROVE  IF i <= Len(s) THEN i \in DOMAIN s /\ (s \o t)[i] = s[i]
             ELSE i - Len(s) \in DOMAIN t /\ (s \o t)[i] = t[i - Len(s)]
  BY <1>5, <1>6, <1>7
<1> QED
  BY <1>4, <1>5, <1>8 DEF IsList

LEMMA ConcatOnce ==
  ASSUME NEW s, NEW t, IsList(s), IsList(t), OnceEach(s), OnceEach(t),
         \A i \in DOMAIN s, j \in DOMAIN t : Subject(s[i].title) # Subject(t[j].title)
  PROVE  OnceEach(s \o t)
<1> DEFINE c == s \o t
           n == Len(s)
<1>1. \A i \in DOMAIN c : IF i <= n THEN i \in DOMAIN s /\ c[i] = s[i] ELSE i - n \in DOMAIN t /\ c[i] = t[i - n]
  BY ConcatFacts
<1>2. \A i \in DOMAIN c : i \in Nat /\ n \in Nat
  BY ConcatFacts, ListFacts
<1> HIDE DEF c, n
<1> SUFFICES ASSUME NEW i \in DOMAIN c, NEW j \in DOMAIN c, Subject(c[i].title) = Subject(c[j].title) PROVE i = j
  BY DEF OnceEach, c
<1>3. CASE i <= n /\ j <= n
  BY <1>1, <1>3 DEF OnceEach
<1>4. CASE i <= n /\ ~(j <= n)
  BY <1>1, <1>4
<1>5. CASE ~(i <= n) /\ j <= n
  BY <1>1, <1>5
<1>6. CASE ~(i <= n) /\ ~(j <= n)
  <2>1. i - n = j - n
    BY <1>1, <1>6 DEF OnceEach
  <2> QED
    BY <1>2, <2>1
<1> QED
  BY <1>3, <1>4, <1>5, <1>6

LEMMA ConcatNoSetup ==
  ASSUME NEW s, NEW t, IsList(s), IsList(t), NoSetup(s), NoSetup(t)
  PROVE  NoSetup(s \o t)
  BY ConcatFacts DEF NoSetup

LEMMA ConcatWords ==
  ASSUME NEW s, NEW t, NEW V, NEW W, IsList(s), IsList(t), Words(s, V), Words(t, W)
  PROVE  Words(s \o t, V \cup W)
<1> SUFFICES ASSUME NEW i \in DOMAIN (s \o t)
             PROVE  Subject((s \o t)[i].title)[1] \in V \cup W
  BY DEF Words
<1>1. CASE i <= Len(s)
  <2>1. i \in DOMAIN s /\ (s \o t)[i] = s[i]
    BY <1>1, ConcatFacts
  <2> QED
    BY <2>1 DEF Words
<1>2. CASE ~(i <= Len(s))
  <2>1. i - Len(s) \in DOMAIN t /\ (s \o t)[i] = t[i - Len(s)]
    BY <1>2, ConcatFacts
  <2> QED
    BY <2>1 DEF Words
<1> QED
  BY <1>1, <1>2

LEMMA ConcatAdvices ==
  ASSUME NEW s, NEW t, NEW V, NEW W, Advices(s, V), Advices(t, W), V \cap W = {}
  PROVE  Advices(s \o t, V \cup W)
<1> USE DEF Advices
<1>1. \A i \in DOMAIN s, j \in DOMAIN t : Subject(s[i].title) # Subject(t[j].title)
  BY DEF Words
<1>2. OnceEach(s \o t)
  BY <1>1, ConcatOnce
<1>3. IsList(s \o t) /\ NoSetup(s \o t)
  BY ConcatFacts, ConcatNoSetup
<1>4. Words(s \o t, V \cup W)
  BY ConcatWords
<1> QED
  BY <1>2, <1>3, <1>4

\* A list of at most one advice.
LEMMA AtMostOne ==
  ASSUME NEW L, NEW p, L = <<p>> \/ L = <<>>, ~IsSetup(p), NEW w, Subject(p.title)[1] = w
  PROVE  Advices(L, {w})
<1>1. CASE L = <<p>>
  <2>1. L \in Seq({p}) /\ DOMAIN L = {1} /\ L[1] = p
    BY <1>1
  <2>2. IsList(L)
    BY <2>1 DEF IsList
  <2> QED
    BY <2>1, <2>2 DEF Advices, Words, NoSetup, OnceEach
<1>2. CASE L = <<>>
  <2>1. L \in Seq({p}) /\ DOMAIN L = {}
    BY <1>2
  <2>2. IsList(L)
    BY <2>1 DEF IsList
  <2> QED
    BY <2>1, <2>2 DEF Advices, Words, NoSetup, OnceEach
<1> QED
  BY <1>1, <1>2

LEMMA EmptyAdvices == ASSUME NEW W PROVE Advices(<<>>, W)
<1>1. <<>> \in Seq({})
  OBVIOUS
<1> QED
  BY <1>1 DEF Advices, IsList, Words, NoSetup, OnceEach

LEMMA FirstAdvices ==
  ASSUME NEW s, NEW W, Advices(s, W)
  PROVE  Advices(FirstOf(s), W)
<1>1. Len(s) \in Nat /\ DOMAIN s = 1 .. Len(s) /\ (Len(s) = 0 => s = <<>>)
  BY ListFacts DEF Advices
<1>2. CASE s = <<>>
  <2>1. FirstOf(s) = <<>>
    BY <1>2 DEF FirstOf
  <2> QED
    BY <2>1, EmptyAdvices
<1>3. CASE s # <<>>
  <2>1. PICK S : s \in Seq(S)
    BY DEF Advices, IsList
  <2>2. FirstOf(s) = SubSeq(s, 1, 1) /\ Len(s) >= 1
    BY <1>1, <1>3 DEF FirstOf
  <2>3. SubSeq(s, 1, 1) \in Seq(S) /\ DOMAIN SubSeq(s, 1, 1) = {1} /\ SubSeq(s, 1, 1)[1] = s[1] /\ 1 \in DOMAIN s
    BY <2>1, <2>2
  <2> QED
    BY <2>2, <2>3 DEF Advices, IsList, Words, NoSetup, OnceEach
<1> QED
  BY <1>2, <1>3

\* The advices of the rules begin with a word of their section.
LEMMA AdviceOf ==
  ASSUME NEW w, NEW action, action.type # "erp_install", w \notin {"google_a", "mejora"}
  PROVE  ~IsSetup(Advice(<<w>>, action)) /\ Subject(Advice(<<w>>, action).title)[1] = w
  BY DEF Advice, IsSetup, Subject

LEMMA Actions ==
  Unassigned.type # "erp_install" /\ \A skill : Creator(skill).type # "erp_install"
  BY DEF Unassigned, Creator

LEMMA OneAdvice ==
  ASSUME NEW L, NEW w, NEW action, L = <<Advice(<<w>>, action)>> \/ L = <<>>,
         action.type # "erp_install", w \notin {"google_a", "mejora"}
  PROVE  Advices(L, {w})
  BY AdviceOf, AtMostOne

LEMMA WebAdvices ==
  ASSUME NEW w
  PROVE  Advices(Web(w).proposals, {"averigua", "escribe", "arriba", "asistentes"})
<1> DEFINE a == When(Fell(w.week, w.before, 20), <<Advice(<<"averigua">>, Unassigned)>>)
           b == When(w.total > 0 /\ 5 * w.organic < w.total, <<Advice(<<"escribe">>, Creator("contenido"))>>)
           c == When(w.scroll \in 1..49, <<Advice(<<"arriba">>, Creator("web"))>>)
           d == When(w.crawls > 0 /\ w.referred = 0, <<Advice(<<"asistentes">>, Creator("contenido"))>>)
<1>1. /\ a = <<Advice(<<"averigua">>, Unassigned)>> \/ a = <<>>
      /\ b = <<Advice(<<"escribe">>, Creator("contenido"))>> \/ b = <<>>
      /\ c = <<Advice(<<"arriba">>, Creator("web"))>> \/ c = <<>>
      /\ d = <<Advice(<<"asistentes">>, Creator("contenido"))>> \/ d = <<>>
  BY DEF When
<1>2. CASE w.daily = 0
  BY <1>2, EmptyAdvices DEF Web, NoAnalysis
<1>3. CASE w.daily # 0
  <2>1. Web(w).proposals = a \o b \o c \o d
    BY <1>3 DEF Web
  <2> HIDE DEF a, b, c, d
  <2>2. Advices(a, {"averigua"})
    BY <1>1, OneAdvice, Actions
  <2>3. Advices(b, {"escribe"})
    BY <1>1, OneAdvice, Actions
  <2>4. Advices(c, {"arriba"})
    BY <1>1, OneAdvice, Actions
  <2>5. Advices(d, {"asistentes"})
    BY <1>1, OneAdvice, Actions
  <2>6. Advices(a \o b, {"averigua", "escribe"})
    <3>1. Advices(a \o b, {"averigua"} \cup {"escribe"})
      BY <2>2, <2>3, ConcatAdvices
    <3> QED
      BY <3>1
  <2>7. Advices(a \o b \o c, {"averigua", "escribe", "arriba"})
    BY <2>4, <2>6, ConcatAdvices
  <2>8. Advices(a \o b \o c \o d, {"averigua", "escribe", "arriba", "asistentes"})
    BY <2>5, <2>7, ConcatAdvices
  <2> QED
    BY <2>1, <2>8
<1> QED
  BY <1>2, <1>3

LEMMA InventoryAdvices ==
  ASSUME NEW products
  PROVE  Advices(Inventory(products).proposals, {"reabastece", "pide", "mueve"})
<1> DEFINE out   == {p \in products : p.qty <= 0 /\ p.sold > 0}
           short == {p \in products : ShortOf(p, 7)}
           dead  == {p \in products : p.sold = 0 /\ p.qty * p.cost > 0}
           a == When(out # {}, <<Advice(<<"reabastece">>, Unassigned)>>)
           b == When(short # {}, <<Advice(<<"pide">>, Unassigned)>>)
           c == When(dead # {}, <<Advice(<<"mueve">>, Unassigned)>>)
<1>1. /\ a = <<Advice(<<"reabastece">>, Unassigned)>> \/ a = <<>>
      /\ b = <<Advice(<<"pide">>, Unassigned)>> \/ b = <<>>
      /\ c = <<Advice(<<"mueve">>, Unassigned)>> \/ c = <<>>
  BY DEF When
<1>2. CASE products = {}
  BY <1>2, EmptyAdvices DEF Inventory, NoAnalysis
<1>3. CASE products # {}
  <2>1. Inventory(products).proposals = a \o b \o c
    BY <1>3 DEF Inventory
  <2> HIDE DEF a, b, c
  <2>2. Advices(a, {"reabastece"})
    BY <1>1, OneAdvice, Actions
  <2>3. Advices(b, {"pide"})
    BY <1>1, OneAdvice, Actions
  <2>4. Advices(c, {"mueve"})
    BY <1>1, OneAdvice, Actions
  <2>5. Advices(a \o b, {"reabastece"} \cup {"pide"})
    BY <2>2, <2>3, ConcatAdvices
  <2>6. Advices(a \o b \o c, {"reabastece", "pide", "mueve"})
    <3>1. Advices(a \o b \o c, ({"reabastece"} \cup {"pide"}) \cup {"mueve"})
      BY <2>4, <2>5, ConcatAdvices
    <3> QED
      BY <3>1
  <2> QED
    BY <2>1, <2>6
<1> QED
  BY <1>2, <1>3

\* A section without its app asks for the app, alone.
Asks(a, v) ==
  \/ a = NoAnalysis
  \/ \E title, app : /\ a.data = FALSE /\ a.proposals = <<Advice(<<title>>, Install(app))>>
                     /\ v.erp = "up" => app \notin v.apps

LEMMA CustomersAdvices ==
  ASSUME NEW v, NEW c
  PROVE  Asks(Customers(v, c), v) \/ Advices(Customers(v, c).proposals, {"escribele"})
<1>1. CASE ~HasModel(v, "point_of_sale") /\ ~HasModel(v, "sale")
  BY <1>1 DEF Asks, Customers, MissingModule, HasModel
<1>2. CASE (HasModel(v, "point_of_sale") \/ HasModel(v, "sale")) /\ c.orders = 0
  BY <1>2 DEF Asks, Customers
<1>3. CASE (HasModel(v, "point_of_sale") \/ HasModel(v, "sale")) /\ c.orders # 0
  <2> DEFINE a == When(c.lost > 0, <<Advice(<<"escribele">>, Unassigned)>>)
  <2>1. Customers(v, c).proposals = a
    BY <1>3 DEF Customers
  <2>2. a = <<Advice(<<"escribele">>, Unassigned)>> \/ a = <<>>
    BY DEF When
  <2> HIDE DEF a
  <2>3. Advices(a, {"escribele"})
    BY <2>2, OneAdvice, Actions
  <2> QED
    BY <2>1, <2>3
<1> QED
  BY <1>1, <1>2, <1>3

LEMMA LeadsAdvices ==
  ASSUME NEW v, NEW l
  PROVE  Asks(Leads(v, l), v) \/ Advices(Leads(v, l).proposals, {"seguimiento"})
<1>1. CASE ~HasModel(v, "crm")
  BY <1>1 DEF Asks, Leads, MissingModule, HasModel
<1>2. CASE HasModel(v, "crm") /\ l.open = 0
  BY <1>2 DEF Asks, Leads
<1>3. CASE HasModel(v, "crm") /\ l.open # 0
  <2> DEFINE a == When(l.stale > 0, <<Advice(<<"seguimiento">>, Unassigned)>>)
  <2>1. Leads(v, l).proposals = a
    BY <1>3 DEF Leads
  <2>2. a = <<Advice(<<"seguimiento">>, Unassigned)>> \/ a = <<>>
    BY DEF When
  <2> HIDE DEF a
  <2>3. Advices(a, {"seguimiento"})
    BY <2>2, OneAdvice, Actions
  <2> QED
    BY <2>1, <2>3
<1> QED
  BY <1>1, <1>2, <1>3

LEMMA BranchesAdvices == ASSUME NEW tills, NEW W PROVE Advices(Branches(tills).proposals, W)
<1>1. Branches(tills).proposals = <<>>
  BY DEF Branches, NoAnalysis
<1> QED
  BY <1>1, EmptyAdvices

\* The words of a section that Inicio reads.
WordsOf(section) ==
  CASE section = "web"        -> {"averigua", "escribe", "arriba", "asistentes"}
    [] section = "inventario" -> {"reabastece", "pide", "mueve"}
    [] section = "clientes"   -> {"escribele"}
    [] section = "prospectos" -> {"seguimiento"}
    [] OTHER                  -> {}

LEMMA PartAdvices ==
  ASSUME NEW section, NEW v
  PROVE  Asks(Part(section, v), v) \/ Advices(Part(section, v).proposals, WordsOf(section))
<1>1. CASE section = "web" /\ v.tracked
  BY <1>1, WebAdvices DEF Part, WordsOf
<1>2. CASE section = "inventario"
  BY <1>2, InventoryAdvices DEF Part, WordsOf
<1>3. CASE section = "sucursales"
  BY <1>3, BranchesAdvices DEF Part, WordsOf
<1>4. CASE section = "clientes" /\ v.erp # "none"
  BY <1>4, CustomersAdvices DEF Part, WordsOf
<1>5. CASE section = "prospectos" /\ v.erp # "none"
  BY <1>5, LeadsAdvices DEF Part, WordsOf
<1>6. CASE ~(section = "web" /\ v.tracked) /\ section # "inventario" /\ section # "sucursales"
           /\ ~(section = "clientes" /\ v.erp # "none") /\ ~(section = "prospectos" /\ v.erp # "none")
  <2>1. Part(section, v) = NoAnalysis
    BY <1>6 DEF Part
  <2> QED
    BY <2>1 DEF Asks
<1> QED
  BY <1>1, <1>2, <1>3, <1>4, <1>5, <1>6

DeepWords == {"recupera", "titulos", "page", "celular", "no_encuentra"}

\* What advice p is about was seen, or is not what an effect is about.
Known(p, seen) ==
  \/ Subject(p.title)[1] \in {"recupera", "titulos"}
  \/ \E x : Subject(p.title) = <<"page", x>> /\ <<"landing", x>> \in seen
  \/ Subject(p.title) = <<"celular">> /\ <<"device", "mobile">> \in seen
  \/ Subject(p.title) = <<"no_encuentra">> /\ <<"source", "organic_search">> \in seen

\* What the analyses of the visits have found so far.
SoFar(a) ==
  /\ a = [seen |-> a.seen, props |-> a.props, findings |-> a.findings, proposals |-> a.proposals]
  /\ Advices(a.proposals, DeepWords)
  /\ \A i \in DOMAIN a.proposals : Known(a.proposals[i], a.seen)

LEMMA KnownMore ==
  ASSUME NEW p, NEW seen, NEW more, Known(p, seen), seen \subseteq more
  PROVE  Known(p, more)
  BY DEF Known

\* The advice an effect turns into is about its key.
LEMMA EffectIsNew ==
  ASSUME NEW term, NEW worst, NEW organic, NEW p, EffectAdvice(term, worst, organic) = <<p>>
  PROVE  /\ ~IsSetup(p) /\ Subject(p.title)[1] \in DeepWords
         /\ Known(p, {<<term, worst>>})
         /\ \A q, seen : Known(q, seen) /\ <<term, worst>> \notin seen => Subject(q.title) # Subject(p.title)
<1> DEFINE S == Subject(p.title)
<1>1. \/ S = <<"page", worst>> /\ term = "landing"
      \/ S = <<"celular">> /\ term = "device" /\ worst = "mobile"
      \/ S = <<"no_encuentra">> /\ term = "source" /\ worst = "organic_search"
  <2>1. CASE term = "landing" /\ organic
    <3>1. p.title = <<"google_a", worst>>
      BY <2>1 DEF EffectAdvice, Advice
    <3> QED
      BY <2>1, <3>1 DEF Subject
  <2>2. CASE term = "landing" /\ ~organic
    <3>1. p.title = <<"mejora", worst>>
      BY <2>2 DEF EffectAdvice, Advice
    <3> QED
      BY <2>2, <3>1 DEF Subject
  <2>3. CASE term = "device" /\ worst = "mobile"
    <3>1. p.title = <<"celular">>
      BY <2>3 DEF EffectAdvice, Advice
    <3> QED
      BY <2>3, <3>1 DEF Subject
  <2>4. CASE term = "source" /\ worst = "organic_search"
    <3>1. p.title = <<"no_encuentra">>
      BY <2>4 DEF EffectAdvice, Advice
    <3> QED
      BY <2>4, <3>1 DEF Subject
  <2>5. CASE term # "landing" /\ ~(term = "device" /\ worst = "mobile") /\ ~(term = "source" /\ worst = "organic_search")
    BY <2>5 DEF EffectAdvice
  <2> QED
    BY <2>1, <2>2, <2>3, <2>4, <2>5
<1>2. ~IsSetup(p)
  <2>1. p.action = Creator("web")
    BY DEF EffectAdvice, Advice
  <2> QED
    BY <2>1, Actions DEF IsSetup
<1>3. S[1] \in DeepWords
  BY <1>1 DEF DeepWords
<1>4. Known(p, {<<term, worst>>})
  BY <1>1 DEF Known
<1>5. ASSUME NEW q, NEW seen, Known(q, seen), <<term, worst>> \notin seen PROVE Subject(q.title) # S
  <2> DEFINE Q == Subject(q.title)
  <2>1. \/ Q[1] \in {"recupera", "titulos"}
        \/ \E x : Q = <<"page", x>> /\ <<"landing", x>> \in seen
        \/ Q = <<"celular">> /\ <<"device", "mobile">> \in seen
        \/ Q = <<"no_encuentra">> /\ <<"source", "organic_search">> \in seen
    BY <1>5 DEF Known
  <2> HIDE DEF Q, S
  <2> SUFFICES ASSUME Q = S PROVE FALSE
    BY DEF Q
  <2>2. CASE S = <<"page", worst>> /\ term = "landing"
    BY <1>5, <2>1, <2>2
  <2>3. CASE S = <<"celular">> /\ term = "device" /\ worst = "mobile"
    <3>1. S[1] = "celular"
      BY <2>3
    <3>2. \A x : <<"page", x>>[1] # "celular" /\ <<"no_encuentra">>[1] # "celular"
      OBVIOUS
    <3> QED
      BY <1>5, <2>1, <2>3, <3>1, <3>2
  <2>4. CASE S = <<"no_encuentra">> /\ term = "source" /\ worst = "organic_search"
    <3>1. S[1] = "no_encuentra"
      BY <2>4
    <3>2. \A x : <<"page", x>>[1] # "no_encuentra" /\ <<"celular">>[1] # "no_encuentra"
      OBVIOUS
    <3> QED
      BY <1>5, <2>1, <2>4, <3>1, <3>2
  <2> QED
    BY <1>1, <2>2, <2>3, <2>4
<1> QED
  BY <1>2, <1>3, <1>4, <1>5

LEMMA EffectKeeps ==
  ASSUME NEW a, NEW e, NEW plain, NEW organic, NEW maxProps, SoFar(a)
  PROVE  SoFar(Effect(a, e, plain, organic, maxProps))
<1> DEFINE key == <<e.term, Strongest(e, plain).worst>>
           L == EffectAdvice(e.term, Strongest(e, plain).worst, organic)
           f == Append(a.findings, [kind |-> "comentario", sev |-> IF e.eta >= 40 THEN "alerta" ELSE "info"])
           told == [a EXCEPT !.findings = f]
           b == [told EXCEPT !.seen = a.seen \cup {key}, !.proposals = a.proposals \o L, !.props = a.props + Len(L)]
           R == Effect(a, e, plain, organic, maxProps)
<1>1. a = [seen |-> a.seen, props |-> a.props, findings |-> a.findings, proposals |-> a.proposals]
  BY DEF SoFar
<1>2. \/ R = a
      \/ R = told
      \/ key \notin a.seen /\ R = [told EXCEPT !.seen = told.seen \cup {key}, !.proposals = told.proposals \o L, !.props = told.props + Len(L)]
  BY DEF Effect
<1> HIDE DEF f
<1>3. told = [seen |-> a.seen, props |-> a.props, findings |-> f, proposals |-> a.proposals]
  BY <1>1
<1> HIDE DEF R, key, L, told
<1>4. CASE R = told
  <2>1. SoFar(told)
    BY <1>3 DEF SoFar
  <2> QED
    BY <1>4, <2>1 DEF R
<1>5. CASE key \notin a.seen /\ R = [told EXCEPT !.seen = told.seen \cup {key}, !.proposals = told.proposals \o L, !.props = told.props + Len(L)]
  <2> DEFINE ps == a.proposals \o L
             seen == a.seen \cup {key}
  <2>1. R = [seen |-> seen, props |-> a.props + Len(L), findings |-> f, proposals |-> ps]
    BY <1>3, <1>5
  <2>2. L = <<>> \/ \E p : L = <<p>>
    BY DEF L, EffectAdvice
  <2>3. Advices(a.proposals, DeepWords) /\ \A i \in DOMAIN a.proposals : Known(a.proposals[i], a.seen)
    BY DEF SoFar
  <2>4. Advices(L, DeepWords) /\ \A j \in DOMAIN L :
          /\ Known(L[j], {key})
          /\ \A i \in DOMAIN a.proposals : Subject(a.proposals[i].title) # Subject(L[j].title)
    <3>1. CASE L = <<>>
      BY <3>1, EmptyAdvices
    <3>2. ASSUME NEW p, L = <<p>>
          PROVE  Advices(L, DeepWords) /\ \A j \in DOMAIN L :
                   /\ Known(L[j], {key})
                   /\ \A i \in DOMAIN a.proposals : Subject(a.proposals[i].title) # Subject(L[j].title)
      <4>1. /\ ~IsSetup(p) /\ Subject(p.title)[1] \in DeepWords /\ Known(p, {key})
            /\ \A q, s : Known(q, s) /\ key \notin s => Subject(q.title) # Subject(p.title)
        BY <3>2, EffectIsNew DEF L, key
      <4>2. Advices(L, {Subject(p.title)[1]})
        BY <3>2, <4>1, AtMostOne
      <4>3. DOMAIN L = {1} /\ L[1] = p
        BY <3>2
      <4>4. Advices(L, DeepWords)
        BY <4>1, <4>2 DEF Advices, Words
      <4>5. \A i \in DOMAIN a.proposals : Subject(a.proposals[i].title) # Subject(p.title)
        BY <1>5, <2>3, <4>1
      <4> QED
        BY <4>1, <4>3, <4>4, <4>5
    <3> QED
      BY <2>2, <3>1, <3>2
  <2>5. IsList(a.proposals) /\ IsList(L)
    BY <2>3, <2>4 DEF Advices
  <2>6. \A i \in DOMAIN ps : IF i <= Len(a.proposals) THEN i \in DOMAIN a.proposals /\ ps[i] = a.proposals[i]
                             ELSE i - Len(a.proposals) \in DOMAIN L /\ ps[i] = L[i - Len(a.proposals)]
    BY <2>5, ConcatFacts
  <2>7. OnceEach(ps) /\ NoSetup(ps) /\ IsList(ps)
    BY <2>3, <2>4, <2>5, ConcatOnce, ConcatNoSetup, ConcatFacts DEF Advices
  <2>8. Words(ps, DeepWords)
    BY <2>3, <2>4, <2>6 DEF Advices, Words
  <2>9. \A i \in DOMAIN ps : Known(ps[i], seen)
    <3>1. \A i \in DOMAIN a.proposals : Known(a.proposals[i], seen)
      BY <2>3, KnownMore
    <3>2. \A j \in DOMAIN L : Known(L[j], seen)
      BY <2>4, KnownMore
    <3> QED
      BY <2>6, <3>1, <3>2
  <2> HIDE DEF ps, seen
  <2>10. SoFar(R)
    BY <2>1, <2>7, <2>8, <2>9 DEF SoFar, Advices
  <2> QED
    BY <2>10 DEF R
<1> QED
  BY <1>2, <1>4, <1>5 DEF R

LEMMA OtherFields ==
  ASSUME NEW a, SoFar(a), NEW x
  PROVE  SoFar([a EXCEPT !.findings = x]) /\ SoFar([a EXCEPT !.props = x])
<1>1. a = [seen |-> a.seen, props |-> a.props, findings |-> a.findings, proposals |-> a.proposals]
  BY DEF SoFar
<1>2. [a EXCEPT !.findings = x] = [seen |-> a.seen, props |-> a.props, findings |-> x, proposals |-> a.proposals]
  BY <1>1
<1>3. [a EXCEPT !.props = x] = [seen |-> a.seen, props |-> x, findings |-> a.findings, proposals |-> a.proposals]
  BY <1>1
<1>4. SoFar([seen |-> a.seen, props |-> a.props, findings |-> x, proposals |-> a.proposals])
  BY DEF SoFar
<1>5. SoFar([seen |-> a.seen, props |-> x, findings |-> a.findings, proposals |-> a.proposals])
  BY DEF SoFar
<1> QED
  BY <1>2, <1>3, <1>4, <1>5

\* What is found after each effect of a model, and after each model.
AfterEffects(a, m, organic, maxProps) ==
  CHOOSE f : f = [n \in 0 .. Len(m.effects) |->
    IF n = 0 THEN a ELSE Effect(f[n - 1], ByEta(m.effects)[n], m.transform = "none", organic, maxProps)]

AfterModels(a, models, organic, maxProps) ==
  CHOOSE f : f = [n \in 0 .. Len(models) |->
    IF n = 0 THEN [a EXCEPT !.props = 0] ELSE AnovaModel(f[n - 1], models[n], organic, maxProps)]

LEMMA AnovaModelIs ==
  ASSUME NEW a, NEW m, NEW organic, NEW maxProps
  PROVE  AnovaModel(a, m, organic, maxProps) =
           LET last == AfterEffects(a, m, organic, maxProps)[Len(m.effects)]
           IN  [last EXCEPT !.findings = last.findings \o CellAlerts(m)]
  BY DEF AnovaModel, AfterEffects

LEMMA AnovaFindingsIs ==
  ASSUME NEW a, NEW models, NEW organic, NEW maxProps
  PROVE  AnovaFindings(a, models, organic, maxProps) = AfterModels(a, models, organic, maxProps)[Len(models)]
  BY DEF AnovaFindings, AfterModels

LEMMA ModelKeeps ==
  ASSUME NEW a, NEW m, NEW organic, NEW maxProps, SoFar(a), Len(m.effects) \in Nat
  PROVE  SoFar(AnovaModel(a, m, organic, maxProps))
<1> DEFINE N == Len(m.effects)
           Step(n, x) == Effect(x, ByEta(m.effects)[n], m.transform = "none", organic, maxProps)
           Upto(f, k) == f = [n \in 0 .. k |-> IF n = 0 THEN a ELSE Step(n, f[n - 1])]
           S == {k \in Nat : \E f : Upto(f, k)}
           out == AfterEffects(a, m, organic, maxProps)
           T == {k \in Nat : k <= N => SoFar(out[k])}
<1>1. \A n, x : SoFar(x) => SoFar(Step(n, x))
  BY EffectKeeps
<1>2. out = CHOOSE f : Upto(f, N)
  BY DEF AfterEffects
<1> HIDE DEF Step, out
<1>3. 0 \in S
  <2>1. Upto([n \in 0 .. 0 |-> a], 0)
    OBVIOUS
  <2> QED
    BY <2>1
<1>4. ASSUME NEW k \in Nat, k \in S PROVE k + 1 \in S
  <2>1. PICK f : Upto(f, k)
    BY <1>4
  <2> DEFINE g == [n \in 0 .. k + 1 |-> IF n <= k THEN f[n] ELSE Step(k + 1, f[k])]
  <2>2. DOMAIN g = 0 .. k + 1 /\ g[k + 1] = Step(k + 1, f[k]) /\ \A n \in 0 .. k : g[n] = f[n]
    OBVIOUS
  <2>3. f[0] = a /\ \A n \in 1 .. k : f[n] = Step(n, f[n - 1])
    BY <2>1
  <2>4. g = [n \in 0 .. k + 1 |-> g[n]]
    OBVIOUS
  <2> HIDE DEF g
  <2>5. \A n \in 1 .. k + 1 : g[n] = Step(n, g[n - 1])
    <3> TAKE n \in 1 .. k + 1
    <3>1. CASE n \in 1 .. k
      <4>1. g[n] = f[n] /\ g[n - 1] = f[n - 1]
        BY <2>2, <3>1
      <4> QED
        BY <2>3, <3>1, <4>1
    <3>2. CASE n = k + 1
      BY <2>2, <3>2
    <3> QED
      BY <3>1, <3>2
  <2>6. \A n \in 0 .. k + 1 : g[n] = IF n = 0 THEN a ELSE Step(n, g[n - 1])
    BY <2>2, <2>3, <2>5
  <2>7. Upto(g, k + 1)
    BY <2>4, <2>6
  <2> QED
    BY <2>7
<1> HIDE DEF S
<1>5. N \in S
  BY <1>3, <1>4, Induct
<1>6. Upto(out, N)
  BY <1>2, <1>5 DEF S
<1>7. out[0] = a /\ \A n \in 1 .. N : out[n] = Step(n, out[n - 1])
  <2>1. N \in Nat
    OBVIOUS
  <2> HIDE DEF N
  <2>2. out[0] = a
    BY <1>6, <2>1
  <2>3. ASSUME NEW n \in 1 .. N PROVE out[n] = Step(n, out[n - 1])
    BY <1>6, <2>1
  <2> QED
    BY <2>2, <2>3
<1>8. 0 \in T
  BY <1>7
<1>9. ASSUME NEW k \in Nat, k \in T PROVE k + 1 \in T
  BY <1>1, <1>7, <1>9
<1> HIDE DEF T
<1>10. N \in T
  BY <1>8, <1>9, Induct
<1>11. SoFar(out[N])
  BY <1>10 DEF T
<1> QED
  BY <1>11, AnovaModelIs, OtherFields DEF out

LEMMA ModelsKeep ==
  ASSUME NEW a, NEW models, NEW organic, NEW maxProps, SoFar(a), Len(models) \in Nat,
         \A n \in 1 .. Len(models) : Len(models[n].effects) \in Nat
  PROVE  SoFar(AnovaFindings(a, models, organic, maxProps))
<1> DEFINE N == Len(models)
           base == [a EXCEPT !.props = 0]
           Step(n, x) == AnovaModel(x, models[n], organic, maxProps)
           Upto(f, k) == f = [n \in 0 .. k |-> IF n = 0 THEN base ELSE Step(n, f[n - 1])]
           S == {k \in Nat : \E f : Upto(f, k)}
           out == AfterModels(a, models, organic, maxProps)
           T == {k \in Nat : k <= N => SoFar(out[k])}
<1>1. \A n \in 1 .. N : \A x : SoFar(x) => SoFar(Step(n, x))
  BY ModelKeeps
<1>2. out = CHOOSE f : Upto(f, N)
  BY DEF AfterModels
<1>b. SoFar(base)
  BY OtherFields
<1> HIDE DEF Step, out, base
<1>3. 0 \in S
  <2>1. Upto([n \in 0 .. 0 |-> base], 0)
    OBVIOUS
  <2> QED
    BY <2>1
<1>4. ASSUME NEW k \in Nat, k \in S PROVE k + 1 \in S
  <2>1. PICK f : Upto(f, k)
    BY <1>4
  <2> DEFINE g == [n \in 0 .. k + 1 |-> IF n <= k THEN f[n] ELSE Step(k + 1, f[k])]
  <2>2. DOMAIN g = 0 .. k + 1 /\ g[k + 1] = Step(k + 1, f[k]) /\ \A n \in 0 .. k : g[n] = f[n]
    OBVIOUS
  <2>3. f[0] = base /\ \A n \in 1 .. k : f[n] = Step(n, f[n - 1])
    BY <2>1
  <2>4. g = [n \in 0 .. k + 1 |-> g[n]]
    OBVIOUS
  <2> HIDE DEF g
  <2>5. \A n \in 1 .. k + 1 : g[n] = Step(n, g[n - 1])
    <3> TAKE n \in 1 .. k + 1
    <3>1. CASE n \in 1 .. k
      <4>1. g[n] = f[n] /\ g[n - 1] = f[n - 1]
        BY <2>2, <3>1
      <4> QED
        BY <2>3, <3>1, <4>1
    <3>2. CASE n = k + 1
      BY <2>2, <3>2
    <3> QED
      BY <3>1, <3>2
  <2>6. \A n \in 0 .. k + 1 : g[n] = IF n = 0 THEN base ELSE Step(n, g[n - 1])
    BY <2>2, <2>3, <2>5
  <2>7. Upto(g, k + 1)
    BY <2>4, <2>6
  <2> QED
    BY <2>7
<1> HIDE DEF S
<1>5. N \in S
  BY <1>3, <1>4, Induct
<1>6. Upto(out, N)
  BY <1>2, <1>5 DEF S
<1>7. out[0] = base /\ \A n \in 1 .. N : out[n] = Step(n, out[n - 1])
  <2>1. N \in Nat
    OBVIOUS
  <2> HIDE DEF N
  <2>2. out[0] = base
    BY <1>6, <2>1
  <2>3. ASSUME NEW n \in 1 .. N PROVE out[n] = Step(n, out[n - 1])
    BY <1>6, <2>1
  <2> QED
    BY <2>2, <2>3
<1>8. 0 \in T
  BY <1>b, <1>7
<1>9. ASSUME NEW k \in Nat, k \in T PROVE k + 1 \in T
  BY <1>1, <1>7, <1>9
<1> HIDE DEF T
<1>10. N \in T
  BY <1>8, <1>9, Induct
<1>11. SoFar(out[N])
  BY <1>10 DEF T
<1> QED
  BY <1>11, AnovaFindingsIs DEF out

LEMMA RanksAdvices ==
  ASSUME NEW r, NEW available
  PROVE  Advices(SeoRanks(r, available).proposals, {"recupera", "titulos"})
<1> DEFINE down == Falling(r.trends)
           a == When(down # <<>>, <<Advice(<<"recupera", down[1].keyword>>, Creator("web"))>>)
           b == When(TitleHelps(r.title) /\ r.missing > 0, <<Advice(<<"titulos">>, Creator("web"))>>)
           p == Advice(<<"recupera", down[1].keyword>>, Creator("web"))
<1>1. a = <<p>> \/ a = <<>>
  BY DEF When
<1>2. b = <<Advice(<<"titulos">>, Creator("web"))>> \/ b = <<>>
  BY DEF When
<1>3. SeoRanks(r, available).proposals = <<>> \/ SeoRanks(r, available).proposals = a \o b
  BY DEF SeoRanks
<1> HIDE DEF a, b
<1>4. Advices(a, {"recupera"})
  <2>1. ~IsSetup(p)
    BY Actions DEF IsSetup, Advice
  <2>2. Subject(p.title)[1] = "recupera"
    BY DEF Subject, Advice
  <2> HIDE DEF p
  <2> QED
    BY <1>1, <2>1, <2>2, AtMostOne
<1>5. Advices(b, {"titulos"})
  BY <1>2, OneAdvice, Actions
<1>6. Advices(a \o b, {"recupera", "titulos"})
  <2>1. Advices(a \o b, {"recupera"} \cup {"titulos"})
    BY <1>4, <1>5, ConcatAdvices
  <2> QED
    BY <2>1
<1> QED
  BY <1>3, <1>6, EmptyAdvices

\* The site's statistics, as the assumption on Views has them.
InLists(s) ==
  \A analysis \in {s.organic, s.all} :
    /\ Len(analysis.models) \in Nat
    /\ \A n \in 1 .. Len(analysis.models) : Len(analysis.models[n].effects) \in Nat

LEMMA DeepAdvices ==
  ASSUME NEW s, InLists(s)
  PROVE  Advices(WebDeep(s).proposals, DeepWords)
<1> DEFINE ranks == SeoRanks(s.ranks, s.available)
           start == [seen |-> {}, props |-> 0, findings |-> ranks.findings, proposals |-> ranks.proposals]
           org   == IF s.organic.ok THEN AnovaFindings(start, s.organic.models, TRUE, 1) ELSE start
           all   == IF s.all.ok THEN AnovaFindings(org, s.all.models, FALSE, 2) ELSE org
<1>1. SoFar(start)
  <2>1. Advices(ranks.proposals, {"recupera", "titulos"})
    BY RanksAdvices
  <2> HIDE DEF ranks
  <2>2. Advices(ranks.proposals, DeepWords)
    BY <2>1 DEF Advices, Words, DeepWords
  <2>3. \A i \in DOMAIN ranks.proposals : Known(ranks.proposals[i], {})
    BY <2>1 DEF Advices, Words, Known
  <2> QED
    BY <2>2, <2>3 DEF SoFar
<1> HIDE DEF start
<1>2. /\ Len(s.organic.models) \in Nat /\ \A n \in 1 .. Len(s.organic.models) : Len(s.organic.models[n].effects) \in Nat
      /\ Len(s.all.models) \in Nat /\ \A n \in 1 .. Len(s.all.models) : Len(s.all.models[n].effects) \in Nat
  BY DEF InLists
<1>3. SoFar(org)
  <2>1. SoFar(AnovaFindings(start, s.organic.models, TRUE, 1))
    BY <1>1, <1>2, ModelsKeep
  <2> QED
    BY <1>1, <2>1
<1> HIDE DEF org
<1>4. SoFar(all)
  <2>1. SoFar(AnovaFindings(org, s.all.models, FALSE, 2))
    BY <1>2, <1>3, ModelsKeep
  <2> QED
    BY <1>3, <2>1
<1>5. WebDeep(s).proposals = (IF s.available THEN all ELSE start).proposals
  BY DEF WebDeep, start, org
<1> HIDE DEF all
<1> QED
  BY <1>1, <1>4, <1>5 DEF SoFar

LEMMA SectionAdvices ==
  ASSUME NEW v, InLists(v.stats)
  PROVE  WebSection(v) = NoAnalysis \/ \E W : Advices(WebSection(v).proposals, W)
<1> DEFINE V == {"averigua", "escribe", "arriba", "asistentes"}
           w == Web(v.web).proposals
           d == WebDeep(v.stats).proposals
<1>1. Advices(w, V) /\ Advices(d, DeepWords)
  BY WebAdvices, DeepAdvices
<1>2. V \cap DeepWords = {}
  BY DEF DeepWords
<1>3. v.tracked => WebSection(v).proposals = w \o d
  BY DEF WebSection
<1>4. ~v.tracked => WebSection(v) = NoAnalysis
  BY DEF WebSection
<1> HIDE DEF V, w, d
<1>5. Advices(w \o d, V \cup DeepWords)
  BY <1>1, <1>2, ConcatAdvices
<1> QED
  BY <1>3, <1>4, <1>5

LEMMA ToldAdvices ==
  ASSUME NEW section, NEW v
  PROVE  Advices(Told(Part(section, v)).proposals, WordsOf(section))
<1> DEFINE p == Part(section, v)
<1>1. Asks(p, v) \/ Advices(p.proposals, WordsOf(section))
  BY PartAdvices
<1> HIDE DEF p
<1>2. CASE ~p.data
  <2>1. Told(p).proposals = <<>>
    BY <1>2 DEF Told, NoAnalysis
  <2> QED
    BY <2>1, EmptyAdvices DEF p
<1>3. CASE p.data
  <2>1. Told(p).proposals = FirstOf(p.proposals)
    BY <1>3 DEF Told
  <2>2. ~Asks(p, v)
    BY <1>3 DEF Asks, NoAnalysis
  <2>3. Advices(FirstOf(p.proposals), WordsOf(section))
    BY <1>1, <2>2, FirstAdvices
  <2> QED
    BY <2>1, <2>3 DEF p
<1> QED
  BY <1>2, <1>3

LEMMA InicioAdvices ==
  ASSUME NEW business, NEW v
  PROVE  \E W : Advices(Inicio(business, v).proposals, W)
<1> DEFINE H == HeadlineParts(business)
           P(i) == Told(Part(H[i], v)).proposals
           Of(i) == WordsOf(H[i])
<1>1. Advices(P(1), Of(1)) /\ Advices(P(2), Of(2)) /\ Advices(P(3), Of(3))
  BY ToldAdvices
<1>2. Of(1) \cap Of(2) = {} /\ (Of(1) \cup Of(2)) \cap Of(3) = {}
  <2>1. \/ H[1] = "prospectos" /\ H[2] = "clientes" /\ H[3] = "web"
        \/ H[1] = "inventario" /\ H[2] = "clientes" /\ H[3] = "web"
        \/ H[1] = "web" /\ H[2] = "clientes" /\ H[3] = "inventario"
    BY DEF HeadlineParts
  <2> HIDE DEF H
  <2> QED
    BY <2>1 DEF WordsOf
<1>3. Inicio(business, v).proposals = P(1) \o P(2) \o P(3)
  <2> DEFINE part == [i \in 1 .. 3 |-> Told(Part(H[i], v))]
             data == \E i \in 1 .. 3 : part[i].data
             findings == part[1].findings \o part[2].findings \o part[3].findings
             props == part[1].proposals \o part[2].proposals \o part[3].proposals
  <2>1. Inicio(business, v) = [data |-> data, findings |-> findings, proposals |-> props]
    BY Zenon DEF Inicio
  <2>2. part[1].proposals = P(1) /\ part[2].proposals = P(2) /\ part[3].proposals = P(3)
    OBVIOUS
  <2>3. Inicio(business, v).proposals = props
    <3> HIDE DEF data, findings, props
    <3> QED
      BY <2>1
  <2> HIDE DEF part, P
  <2> QED
    BY <2>2, <2>3
<1> HIDE DEF P, Of
<1>4. Advices(P(1) \o P(2), Of(1) \cup Of(2))
  BY <1>1, <1>2, ConcatAdvices
<1>5. Advices(P(1) \o P(2) \o P(3), (Of(1) \cup Of(2)) \cup Of(3))
  BY <1>1, <1>2, <1>4, ConcatAdvices
<1> QED
  BY <1>3, <1>5

LEMMA AnalysisAdvices ==
  ASSUME NEW section, NEW business, NEW v, InLists(v.stats)
  PROVE  LET a == Analysis(section, business, v)
         IN  Asks(a, v) \/ \E W : Advices(a.proposals, W)
<1>1. CASE section \in {"inicio", "resumen"}
  BY <1>1, InicioAdvices DEF Analysis
<1>2. CASE section = "web"
  BY <1>2, SectionAdvices DEF Analysis, Asks
<1>3. CASE section \notin {"inicio", "resumen", "web"}
  BY <1>3, PartAdvices DEF Analysis
<1> QED
  BY <1>1, <1>2, <1>3

\* What is shown: the rules' proposals, or Claude's, who takes their actions.
LEMMA RulesStand ==
  ASSUME NEW a, NEW v, Asks(a, v) \/ \E W : Advices(a.proposals, W)
  PROVE  LET p == a.proposals IN
         /\ \A i, j \in DOMAIN p : Subject(p[i].title) = Subject(p[j].title) => i = j
         /\ \A i \in DOMAIN p :
              IsSetup(p[i]) => /\ \A j \in DOMAIN p : IsSetup(p[j])
                               /\ v.erp = "up" => p[i].action.what \notin v.apps
<1>1. CASE a = NoAnalysis
  <2>1. a.proposals = <<>>
    BY <1>1 DEF NoAnalysis
  <2> QED
    BY <2>1
<1>2. ASSUME NEW title, NEW app, a.proposals = <<Advice(<<title>>, Install(app))>>, v.erp = "up" => app \notin v.apps
      PROVE  LET p == a.proposals IN
             /\ \A i, j \in DOMAIN p : Subject(p[i].title) = Subject(p[j].title) => i = j
             /\ \A i \in DOMAIN p :
                  IsSetup(p[i]) => /\ \A j \in DOMAIN p : IsSetup(p[j])
                                   /\ v.erp = "up" => p[i].action.what \notin v.apps
  <2> DEFINE p == a.proposals
  <2>1. DOMAIN p = {1} /\ p[1] = Advice(<<title>>, Install(app))
    BY <1>2
  <2>2. p[1].action.what = app
    BY <2>1 DEF Advice, Install
  <2> HIDE DEF p
  <2>3. \A i \in DOMAIN p : i = 1
    BY <2>1
  <2> QED
    BY <1>2, <2>2, <2>3 DEF p
<1>3. ASSUME NEW W, Advices(a.proposals, W)
      PROVE  LET p == a.proposals IN
             /\ \A i, j \in DOMAIN p : Subject(p[i].title) = Subject(p[j].title) => i = j
             /\ \A i \in DOMAIN p : ~IsSetup(p[i])
  BY <1>3 DEF Advices, OnceEach, NoSetup
<1> QED
  BY <1>1, <1>2, <1>3 DEF Asks

LEMMA ClaudeStands ==
  ASSUME NEW a, NEW v, NEW reply, Asks(a, v) \/ \E W : Advices(a.proposals, W)
  PROVE  \/ Worded(a, reply) = a.proposals
         \/ reply # Silent /\ NoSetup(Worded(a, reply))
<1> DEFINE t == Translated(a.proposals, reply)
<1>1. Worded(a, reply) = IF a.data /\ reply.summary # NoText /\ t # <<>> THEN t ELSE a.proposals
  BY DEF Worded
<1>2. CASE ~(a.data /\ reply.summary # NoText /\ t # <<>>)
  BY <1>1, <1>2
<1>3. CASE a.data /\ reply.summary # NoText /\ t # <<>>
  <2>1. reply # Silent
    BY <1>3 DEF Silent
  <2>2. PICK W : Advices(a.proposals, W)
    BY <1>3 DEF Asks, NoAnalysis
  <2>3. Len(a.proposals) \in Nat /\ DOMAIN a.proposals = 1 .. Len(a.proposals)
    BY <2>2, ListFacts DEF Advices
  <2> DEFINE worded == SelectSeq(reply.suggestions, LAMBDA x : x.title # <<>>)
             action(i) == IF worded[i].base \in 0..(Len(a.proposals) - 1)
                          THEN a.proposals[worded[i].base + 1].action ELSE Unassigned
  <2>4. t = [i \in DOMAIN worded |-> Advice(worded[i].title, action(i))]
    BY DEF Translated
  <2>5. ASSUME NEW i PROVE action(i).type # "erp_install"
    <3>1. CASE worded[i].base \in 0..(Len(a.proposals) - 1)
      <4>1. worded[i].base + 1 \in DOMAIN a.proposals
        BY <2>3, <3>1
      <4> QED
        BY <2>2, <3>1, <4>1 DEF Advices, NoSetup, IsSetup
    <3>2. CASE worded[i].base \notin 0..(Len(a.proposals) - 1)
      BY <3>2, Actions
    <3> QED
      BY <3>1, <3>2
  <2> HIDE DEF action, worded, t
  <2>6. NoSetup(t)
    BY <2>4, <2>5 DEF NoSetup, IsSetup, Advice
  <2> QED
    BY <1>1, <1>3, <2>1, <2>6
<1> QED
  BY <1>2, <1>3

PanelInv == PanelStands /\ (topic = "panel" => view \in Views)

LEMMA PanelBegins == Init => PanelInv
<1> SUFFICES ASSUME Init PROVE PanelInv
  OBVIOUS
<1>1. shown = NotShown /\ (topic = "panel" => view \in Views)
  BY DEF Init, NothingShown, PanelInit
<1>2. shown.by = "nobody" /\ shown.proposals = <<>>
  BY <1>1 DEF NotShown
<1> QED
  BY <1>1, <1>2 DEF PanelInv, PanelStands

LEMMA PanelKeeps == PanelInv /\ [Next]_vars => PanelInv'
<1> SUFFICES ASSUME PanelInv, [Next]_vars PROVE PanelInv'
  OBVIOUS
<1>1. CASE UNCHANGED panelVars /\ topic' = topic
  BY <1>1 DEF PanelInv, PanelStands, panelVars
<1>2. ASSUME topic = "panel", topic' = topic, NEW s \in Sections, NEW b \in Business, NEW reply \in Replies, Run(s, b, reply)
      PROVE  PanelInv'
  <2> DEFINE a == Analysis(s, b, view)
  <2>1. view \in Views /\ view' = view
    BY <1>2 DEF PanelInv, Run
  <2>2. InLists(view.stats)
    BY <2>1, ViewsAssumption DEF InLists
  <2>3. Asks(a, view) \/ \E W : Advices(a.proposals, W)
    BY <2>2, AnalysisAdvices
  <2>4. shown' = [by |-> IF reply = Silent THEN "rules" ELSE "claude", proposals |-> Worded(a, reply)]
    BY <1>2 DEF Run, RunSection
  <2> HIDE DEF a
  <2>5. shown'.proposals = Worded(a, reply) /\ (shown'.by = "rules" => reply = Silent)
    BY <2>4
  <2>6. CASE Worded(a, reply) = a.proposals
    BY <2>1, <2>3, <2>5, <2>6, RulesStand DEF PanelStands, PanelInv
  <2>7. CASE reply # Silent /\ NoSetup(Worded(a, reply))
    BY <1>2, <2>1, <2>5, <2>7 DEF PanelStands, PanelInv, NoSetup
  <2> QED
    BY <2>3, <2>6, <2>7, ClaudeStands
<1> QED
  BY <1>1, <1>2 DEF Next, vars, panelVars, PanelNext

\* The rules never advise twice on one subject, and an app is proposed alone
\* and only when the ERP, if it answers, lacks it, whatever Claude says.
THEOREM Panel_Stands == Spec => []PanelStands
<1>1. PanelInv => PanelStands
  BY DEF PanelInv
<1> QED
  BY <1>1, PanelBegins, PanelKeeps, PTL DEF Spec

\* What an analysis proposes, worded by Claude or not, is either apps to
\* install or advices: the hypothesis of ProposalsProofs' Setup_NeverWaits.
THEOREM Analyses_SetupsAlone ==
  ASSUME NEW section, NEW business, NEW v, InLists(v.stats), NEW reply
  PROVE  LET p == RunSection(section, business, v, reply)
         IN  \A i, j \in DOMAIN p : IsSetup(p[i]) => IsSetup(p[j])
<1> DEFINE a == Analysis(section, business, v)
<1>1. Asks(a, v) \/ \E W : Advices(a.proposals, W)
  BY AnalysisAdvices
<1>2. RunSection(section, business, v, reply) = Worded(a, reply)
  BY DEF RunSection
<1> HIDE DEF a
<1>3. Worded(a, reply) = a.proposals \/ NoSetup(Worded(a, reply))
  BY <1>1, ClaudeStands
<1> QED
  BY <1>1, <1>2, <1>3, RulesStand DEF NoSetup

=============================================================================
