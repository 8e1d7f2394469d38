--------------------------- MODULE StartupProofs ---------------------------
(***************************************************************************)
(* Lemmas about the startup message: what its loops compute, for messages  *)
(* and names of every length.                                              *)
(*                                                                         *)
(* The loops are recursive functions.  A set of numbers that is not empty  *)
(* has a least member, hence induction can be stated for sets instead of   *)
(* predicates, and with it that the equations of a recursive function have *)
(* a solution.                                                             *)
(***************************************************************************)
EXTENDS Startup, SequenceTheorems, WellFoundedInduction, TLAPS

-----------------------------------------------------------------------------
(* Induction.                                                              *)

\* Some member of a set of numbers is the least.
LEMMA Least ==
    ASSUME NEW T \in SUBSET Nat, T # {}
    PROVE  \E m \in T : \A k \in T : m =< k
<1>1. PICK m \in T : \A k \in T : ~(<<k, m>> \in OpToRel(<, Nat))
  BY NatLessThanWellFounded, WFMin
<1>2. \A k \in T : k < m => <<k, m>> \in OpToRel(<, Nat)
  BY DEF OpToRel
<1>3. \A k \in T : ~(k < m)
  BY <1>1, <1>2, Zenon
<1>4. m \in Nat /\ \A k \in T : k \in Nat
  OBVIOUS
<1> QED BY <1>3, <1>4

\* What holds of zero and passes from each number to the next holds up to N.
LEMMA InductionUpTo ==
    ASSUME NEW N \in Nat, NEW T, 0 \in T, \A k \in 0 .. N - 1 : k \in T => k + 1 \in T
    PROVE  0 .. N \subseteq T
<1> DEFINE Missing == {k \in 0 .. N : k \notin T}
<1>1. SUFFICES ASSUME Missing # {} PROVE FALSE
  OBVIOUS
<1>2. Missing \in SUBSET Nat
  OBVIOUS
<1>3. PICK m \in Missing : \A k \in Missing : m =< k
  BY <1>1, <1>2, Least
<1>4. m \in 0 .. N /\ m # 0
  BY <1>3
<1>5. m - 1 \in 0 .. N - 1 /\ m - 1 + 1 = m /\ ~(m =< m - 1)
  BY <1>4
<1>6. m - 1 \in T
  BY <1>3, <1>5
<1> QED BY <1>3, <1>5, <1>6

\* The least member of a set of numbers.
LEMMA MinOf ==
    ASSUME NEW T \in SUBSET Nat, T # {}
    PROVE  Min(T) \in T /\ \A k \in T : Min(T) =< k
BY Least DEF Min

\* The greatest, if they are bounded.
LEMMA MaxOf ==
    ASSUME NEW N \in Nat, NEW T \in SUBSET (0 .. N), T # {}
    PROVE  Max(T) \in T /\ \A k \in T : k =< Max(T)
<1> DEFINE Below == {N - k : k \in T}
<1>1. Below \in SUBSET Nat /\ Below # {}
  <2>1. ASSUME NEW k \in T PROVE N - k \in Nat
    <3>1. k \in 0 .. N
      OBVIOUS
    <3> QED BY <3>1
  <2> QED BY <2>1
<1>2. PICK d \in Below : \A e \in Below : d =< e
  BY <1>1, Least
<1>3. PICK m \in T : d = N - m
  BY <1>2
<1>4. ASSUME NEW k \in T PROVE m >= k
  <2>1. N - m =< N - k
    BY <1>2, <1>3
  <2>2. m \in 0 .. N /\ k \in 0 .. N
    OBVIOUS
  <2> QED BY <2>1, <2>2
<1>5. Max(T) \in T /\ \A k \in T : Max(T) >= k
  BY <1>4 DEF Max
<1>6. \A k \in T : k \in 0 .. N
  OBVIOUS
<1> QED BY <1>5, <1>6

\* A loop of N turns from a, the n-th of which maps x to step[n][x].
Run(f, N, S, a, step) ==
    f \in [0 .. N -> S] /\ f[0] = a /\ \A n \in 1 .. N : f[n] = step[n][f[n - 1]]

\* Such a loop has a run.
LEMMA Recursion ==
    ASSUME NEW N \in Nat, NEW S, NEW a \in S, NEW step \in [1 .. N -> [S -> S]]
    PROVE  \E f : Run(f, N, S, a, step)
<1> DEFINE Upto(m, f) == Run(f, m, S, a, step)
           T == {m \in 0 .. N : \E f : Upto(m, f)}
<1>1. 0 \in T
  <2>1. Upto(0, [n \in 0 .. 0 |-> a])
    BY DEF Run
  <2>2. 0 \in 0 .. N
    OBVIOUS
  <2> HIDE DEF Upto
  <2> QED BY <2>1, <2>2
<1>2. ASSUME NEW m \in 0 .. N - 1, m \in T PROVE m + 1 \in T
  <2>1. PICK f : Upto(m, f)
    BY <1>2
  <2> DEFINE g == [n \in 0 .. m + 1 |-> IF n =< m THEN f[n] ELSE step[n][f[n - 1]]]
  <2>2. g \in [0 .. m + 1 -> S] /\ g[0] = a
    BY <2>1 DEF Run
  <2>3. ASSUME NEW n \in 1 .. m + 1 PROVE g[n] = step[n][g[n - 1]]
    BY <2>1 DEF Run
  <2>4. Upto(m + 1, g)
    BY <2>2, <2>3 DEF Run
  <2>5. m + 1 \in 0 .. N
    OBVIOUS
  <2> HIDE DEF Upto
  <2> QED BY <2>4, <2>5
<1> HIDE DEF T
<1>3. N \in T
  <2>1. 0 .. N \subseteq T
    BY <1>1, <1>2, InductionUpTo
  <2> QED BY <2>1
<1>4. PICK f : Upto(N, f)
  BY <1>3 DEF T
<1> QED BY <1>4

-----------------------------------------------------------------------------
(* Sums.                                                                   *)

\* The sums are numbers, each the one before it and the next element.
LEMMA SumsAre ==
    ASSUME NEW s \in Seq(Nat)
    PROVE  /\ Sums(s) \in [0 .. Len(s) -> Nat]
           /\ Sums(s)[0] = 0
           /\ \A k \in 1 .. Len(s) : Sums(s)[k] = Sums(s)[k - 1] + s[k]
<1> DEFINE N == Len(s)
           E(f) == [k \in 0 .. N |-> IF k = 0 THEN 0 ELSE f[k - 1] + s[k]]
           step == [k \in 1 .. N |-> [n \in Nat |-> n + s[k]]]
<1>1. N \in Nat /\ 0 \in Nat /\ \A k \in 1 .. N : s[k] \in Nat
  OBVIOUS
<1>2. Sums(s) = CHOOSE f : f = E(f)
  BY DEF Sums
<1> HIDE DEF N
<1>3. step \in [1 .. N -> [Nat -> Nat]]
  BY <1>1
<1>4. \A k \in 1 .. N, n \in Nat : step[k][n] = n + s[k]
  OBVIOUS
<1> HIDE DEF step
<1>5. PICK f : Run(f, N, Nat, 0, step)
  BY <1>1, <1>3, Recursion
<1>6. ASSUME NEW k \in 0 .. N PROVE f[k] = E(f)[k]
  <2>1. CASE k = 0
    BY <2>1, <1>5 DEF Run
  <2>2. CASE k # 0
    <3>1. k \in 1 .. N /\ k - 1 \in 0 .. N
      BY <2>2, <1>1
    <3>2. f[k - 1] \in Nat
      BY <3>1, <1>5 DEF Run
    <3>3. f[k] = f[k - 1] + s[k]
      BY <3>1, <3>2, <1>4, <1>5 DEF Run
    <3> QED BY <2>2, <3>3
  <2> QED BY <2>1, <2>2
<1>7. f = E(f)
  <2>1. f = [k \in 0 .. N |-> f[k]]
    BY <1>5 DEF Run
  <2> QED BY <2>1, <1>6
<1>8. Sums(s) = E(Sums(s))
  <2> HIDE DEF E
  <2> QED BY <1>2, <1>7
<1>9. /\ Sums(s) = [k \in 0 .. N |-> Sums(s)[k]]
      /\ Sums(s)[0] = 0
      /\ \A k \in 1 .. N : Sums(s)[k] = Sums(s)[k - 1] + s[k]
  <2>1. PICK g : g = Sums(s) /\ g = E(g)
    BY <1>8
  <2>2. g = [k \in 0 .. N |-> g[k]] /\ g[0] = 0
    BY <1>1, <2>1
  <2>3. ASSUME NEW k \in 1 .. N PROVE g[k] = g[k - 1] + s[k]
    <3>1. k \in 0 .. N /\ k # 0
      BY <1>1
    <3> QED BY <2>1, <3>1
  <2> QED BY <2>1, <2>2, <2>3
<1>10. \A k \in 0 .. N : Sums(s)[k] \in Nat
  <2> DEFINE T == {k \in 0 .. N : Sums(s)[k] \in Nat}
  <2>1. 0 \in T
    BY <1>1, <1>9
  <2>2. ASSUME NEW k \in 0 .. N - 1, k \in T PROVE k + 1 \in T
    <3>1. PICK j \in 1 .. N : j = k + 1 /\ j - 1 = k /\ j \in 0 .. N
      BY <1>1
    <3>2. Sums(s)[j] = Sums(s)[k] + s[j]
      BY <3>1, <1>9
    <3>3. Sums(s)[k] \in Nat /\ s[j] \in Nat
      BY <1>1, <2>2, <3>1
    <3>4. Sums(s)[j] \in Nat
      BY <3>2, <3>3
    <3> QED BY <3>1, <3>4
  <2> HIDE DEF T
  <2>3. 0 .. N \subseteq T
    BY <1>1, <2>1, <2>2, InductionUpTo
  <2> QED BY <2>3 DEF T
<1> QED BY <1>9, <1>10 DEF N

\* A sum is a number.
LEMMA SumsTyped ==
    ASSUME NEW s \in Seq(Nat), NEW k \in 0 .. Len(s)
    PROVE  Sums(s)[k] \in Nat
BY SumsAre

\* The sum after one more element.
LEMMA SumsNext ==
    ASSUME NEW s \in Seq(Nat), NEW k \in 0 .. Len(s) - 1
    PROVE  /\ Sums(s)[k] \in Nat /\ s[k + 1] \in Nat
           /\ Sums(s)[k + 1] = Sums(s)[k] + s[k + 1]
<1>1. PICK j \in 1 .. Len(s) : j = k + 1 /\ j - 1 = k
  OBVIOUS
<1>2. Sums(s)[j] = Sums(s)[k] + s[j] /\ s[j] \in Nat
  BY <1>1, SumsAre
<1>3. k \in 0 .. Len(s)
  OBVIOUS
<1> QED BY <1>1, <1>2, <1>3, SumsAre

\* The sums never decrease.
LEMMA SumsGrow ==
    ASSUME NEW s \in Seq(Nat), NEW n \in 0 .. Len(s), NEW m \in 0 .. n
    PROVE  Sums(s)[m] =< Sums(s)[n]
<1> DEFINE T == {k \in 0 .. Len(s) : m =< k => Sums(s)[m] =< Sums(s)[k]}
<1>1. Len(s) \in Nat /\ \A k \in 0 .. Len(s) : Sums(s)[k] \in Nat
  BY SumsTyped
<1>2. 0 \in T
  BY <1>1
<1>3. ASSUME NEW k \in 0 .. Len(s) - 1, k \in T PROVE k + 1 \in T
  <2>1. k \in 0 .. Len(s) /\ k + 1 \in 0 .. Len(s) /\ m \in 0 .. Len(s)
    BY <1>1
  <2>2. Sums(s)[k] \in Nat /\ Sums(s)[m] \in Nat /\ s[k + 1] \in Nat /\ Sums(s)[k + 1] = Sums(s)[k] + s[k + 1]
    BY <1>1, <2>1, SumsNext
  <2>3. CASE m =< k
    <3>1. Sums(s)[m] =< Sums(s)[k]
      BY <1>3, <2>3
    <3>2. Sums(s)[m] =< Sums(s)[k + 1]
      BY <2>2, <3>1
    <3> QED BY <2>1, <3>2
  <2>4. CASE m = k + 1
    BY <2>1, <2>2, <2>4
  <2>5. CASE m > k + 1
    BY <2>1, <2>5
  <2> QED BY <2>3, <2>4, <2>5
<1> HIDE DEF T
<1>4. n \in T
  <2>1. 0 .. Len(s) \subseteq T
    BY <1>1, <1>2, <1>3, InductionUpTo
  <2> QED BY <2>1
<1> QED BY <1>4 DEF T

\* Element by element no more than two others: so the sums.
LEMMA SumsBounded ==
    ASSUME NEW s \in Seq(Nat), NEW t \in Seq(Nat), NEW u \in Seq(Nat),
           NEW n \in Nat, n =< Len(s), n =< Len(t), n =< Len(u),
           \A k \in 1 .. n : s[k] =< t[k] + u[k]
    PROVE  Sums(s)[n] =< Sums(t)[n] + Sums(u)[n]
<1> DEFINE T == {k \in 0 .. n : Sums(s)[k] =< Sums(t)[k] + Sums(u)[k]}
<1>1. 0 \in T
  <2>1. Sums(s)[0] = 0 /\ Sums(t)[0] = 0 /\ Sums(u)[0] = 0
    BY SumsAre
  <2> QED BY <2>1
<1>2. ASSUME NEW k \in 0 .. n - 1, k \in T PROVE k + 1 \in T
  <2>1. k \in 0 .. Len(s) - 1 /\ k \in 0 .. Len(t) - 1 /\ k \in 0 .. Len(u) - 1
    OBVIOUS
  <2>2. /\ Sums(s)[k] \in Nat /\ s[k + 1] \in Nat /\ Sums(s)[k + 1] = Sums(s)[k] + s[k + 1]
        /\ Sums(t)[k] \in Nat /\ t[k + 1] \in Nat /\ Sums(t)[k + 1] = Sums(t)[k] + t[k + 1]
        /\ Sums(u)[k] \in Nat /\ u[k + 1] \in Nat /\ Sums(u)[k + 1] = Sums(u)[k] + u[k + 1]
    BY <2>1, SumsNext
  <2>3. Sums(s)[k] =< Sums(t)[k] + Sums(u)[k]
    BY <1>2
  <2>4. k + 1 \in 1 .. n /\ k + 1 \in 0 .. n
    OBVIOUS
  <2>5. s[k + 1] =< t[k + 1] + u[k + 1]
    BY <2>4
  <2>6. Sums(s)[k + 1] =< Sums(t)[k + 1] + Sums(u)[k + 1]
    <3>1. PICK a \in Nat, b \in Nat : a = Sums(s)[k] /\ b = s[k + 1]
      BY <2>2
    <3>2. PICK c \in Nat, d \in Nat : c = Sums(t)[k] /\ d = t[k + 1]
      BY <2>2
    <3>3. PICK e \in Nat, f \in Nat : e = Sums(u)[k] /\ f = u[k + 1]
      BY <2>2
    <3>4. a =< c + e /\ b =< d + f
      BY <2>3, <2>5, <3>1, <3>2, <3>3
    <3>5. a + b =< (c + d) + (e + f)
      BY <3>4
    <3> QED BY <2>2, <3>1, <3>2, <3>3, <3>5
  <2> QED BY <2>4, <2>6
<1> HIDE DEF T
<1>3. n \in T
  <2>1. 0 .. n \subseteq T
    BY <1>1, <1>2, InductionUpTo
  <2> QED BY <2>1
<1> QED BY <1>3 DEF T

\* Sums of the same elements are the same.
LEMMA SumsAgree ==
    ASSUME NEW s \in Seq(Nat), NEW t \in Seq(Nat), NEW n \in Nat, n =< Len(s), n =< Len(t),
           \A k \in 1 .. n : s[k] = t[k]
    PROVE  Sums(s)[n] = Sums(t)[n]
<1> DEFINE T == {k \in 0 .. n : Sums(s)[k] = Sums(t)[k]}
<1>1. 0 \in T
  BY SumsAre
<1>2. ASSUME NEW k \in 0 .. n - 1, k \in T PROVE k + 1 \in T
  <2>1. k \in 0 .. Len(s) - 1 /\ k \in 0 .. Len(t) - 1
    OBVIOUS
  <2>2. /\ Sums(s)[k + 1] = Sums(s)[k] + s[k + 1]
        /\ Sums(t)[k + 1] = Sums(t)[k] + t[k + 1]
    BY <2>1, SumsNext
  <2>3. Sums(s)[k] = Sums(t)[k]
    BY <1>2
  <2>4. k + 1 \in 1 .. n /\ k + 1 \in 0 .. n
    OBVIOUS
  <2>5. s[k + 1] = t[k + 1]
    BY <2>4
  <2> QED BY <2>2, <2>3, <2>4, <2>5
<1> HIDE DEF T
<1>3. n \in T
  <2>1. 0 .. n \subseteq T
    BY <1>1, <1>2, InductionUpTo
  <2> QED BY <2>1
<1> QED BY <1>3 DEF T

\* Behind a first sequence the sums go on from its total.
LEMMA SumsConcat ==
    ASSUME NEW s \in Seq(Nat), NEW t \in Seq(Nat), NEW n \in 0 .. Len(t)
    PROVE  Sums(s \o t)[Len(s) + n] = Total(s) + Sums(t)[n]
<1> DEFINE c == s \o t
           m == Len(s)
           T == {k \in 0 .. Len(t) : Sums(c)[m + k] = Sums(s)[m] + Sums(t)[k]}
<1>1. /\ c \in Seq(Nat) /\ m \in Nat /\ Len(t) \in Nat /\ Len(c) = m + Len(t)
      /\ \A k \in 1 .. m : c[k] = s[k]
      /\ \A k \in 1 .. Len(t) : c[m + k] = t[k]
  OBVIOUS
<1> HIDE DEF c
<1>2. 0 \in T
  <2>1. Sums(c)[m] = Sums(s)[m]
    <3>1. m =< Len(c)
      BY <1>1
    <3>2. m \in Nat /\ m =< Len(s) /\ \A k \in 1 .. m : c[k] = s[k]
      BY <1>1
    <3> HIDE DEF m
    <3> QED BY <1>1, <3>1, <3>2, SumsAgree
  <2>2. Sums(s)[m] \in Nat /\ Sums(t)[0] = 0
    <3>1. m \in 0 .. Len(s)
      BY <1>1
    <3>2. Sums(s)[m] \in Nat
      BY <3>1, SumsTyped
    <3> QED BY <3>2, SumsAre
  <2> HIDE DEF m
  <2>3. m + 0 = m /\ 0 \in 0 .. Len(t)
    BY <1>1
  <2> QED BY <2>1, <2>2, <2>3
<1>3. ASSUME NEW k \in 0 .. Len(t) - 1, k \in T PROVE k + 1 \in T
  <2> HIDE DEF m
  <2>1. m + k \in 0 .. Len(c) - 1 /\ k + 1 \in 1 .. Len(t) /\ k + 1 \in 0 .. Len(t) /\ m + k + 1 = m + (k + 1)
    BY <1>1
  <2>2. /\ Sums(t)[k] \in Nat /\ t[k + 1] \in Nat /\ Sums(t)[k + 1] = Sums(t)[k] + t[k + 1]
    BY SumsNext
  <2>3. Sums(c)[m + k + 1] = Sums(c)[m + k] + c[m + k + 1]
    BY <1>1, <2>1, SumsNext
  <2>4. c[m + k + 1] = t[k + 1]
    BY <1>1, <2>1
  <2>5. Sums(c)[m + k] = Sums(s)[m] + Sums(t)[k]
    BY <1>3
  <2>6. Sums(s)[m] \in Nat
    <3>1. m \in 0 .. Len(s)
      BY <1>1 DEF m
    <3> QED BY <3>1, SumsTyped
  <2>7. Sums(c)[m + k + 1] = Sums(s)[m] + Sums(t)[k + 1]
    BY <2>2, <2>3, <2>4, <2>5, <2>6
  <2> QED BY <2>1, <2>7
<1> HIDE DEF T
<1>4. n \in T
  <2>1. 0 .. Len(t) \subseteq T
    BY <1>1, <1>2, <1>3, InductionUpTo
  <2> QED BY <2>1
<1> QED BY <1>4 DEF T, Total, c

\* Ones add up to their number.
LEMMA SumsOfOnes ==
    ASSUME NEW s \in Seq(Nat), \A k \in 1 .. Len(s) : s[k] = 1, NEW n \in 0 .. Len(s)
    PROVE  Sums(s)[n] = n
<1> DEFINE T == {k \in 0 .. Len(s) : Sums(s)[k] = k}
<1>1. 0 \in T /\ Len(s) \in Nat
  BY SumsAre
<1>2. ASSUME NEW k \in 0 .. Len(s) - 1, k \in T PROVE k + 1 \in T
  <2>1. k + 1 \in 1 .. Len(s) /\ k + 1 \in 0 .. Len(s)
    BY <1>1
  <2>2. Sums(s)[k + 1] = Sums(s)[k] + s[k + 1]
    BY SumsNext
  <2>3. s[k + 1] = 1 /\ Sums(s)[k] = k
    BY <1>2, <2>1
  <2> QED BY <2>1, <2>2, <2>3
<1> HIDE DEF T
<1>3. n \in T
  <2>1. 0 .. Len(s) \subseteq T
    BY <1>1, <1>2, InductionUpTo
  <2> QED BY <2>1
<1> QED BY <1>3 DEF T

-----------------------------------------------------------------------------
(* Characters and words.                                                   *)

Word == Seq(Chars)

\* What PostgreSQL keeps of an application_name.
StoredChars == Printable \cup {"\\x"}

\* What a character costs, and what pg_clean_ascii makes of it.
LEMMA CharCosts ==
    ASSUME NEW c \in Chars
    PROVE  /\ Utf8Len(c) \in Nat /\ StoredLen(c) \in Nat
           /\ c \in Printable => Utf8Len(c) = 1 /\ StoredLen(c) = 1
           /\ PgEscape(c) \in Seq(StoredChars) /\ Len(PgEscape(c)) = StoredLen(c)
           /\ c \in Printable => PgEscape(c) = <<c>>
<1>1. Utf8Len(c) \in Nat /\ (c \in Printable => Utf8Len(c) = 1)
  BY DEF Utf8Len, Chars, Printable
<1>2. CASE c \in Printable
  <2>1. c \in StoredChars
    BY <1>2 DEF StoredChars
  <2> QED BY <1>1, <1>2, <2>1 DEF StoredLen, PgEscape
<1>3. CASE c \notin Printable
  <2>1. PICK n \in Nat : n = 4 * Utf8Len(c)
    BY <1>1
  <2>2. StoredLen(c) = n /\ PgEscape(c) = [k \in 1 .. n |-> "\\x"]
    BY <1>3, <2>1 DEF StoredLen, PgEscape
  <2>3. PICK esc \in StoredChars : esc = "\\x"
    BY DEF StoredChars
  <2>4. [k \in 1 .. n |-> esc] \in Seq(StoredChars) /\ Len([k \in 1 .. n |-> esc]) = n
    OBVIOUS
  <2> QED BY <1>1, <1>3, <2>2, <2>3, <2>4
<1> QED BY <1>2, <1>3

\* from_utf8_lossy keeps the number of characters, and every valid one.
LEMMA LossyWord ==
    ASSUME NEW w \in Word
    PROVE  /\ Lossy(w) \in Word /\ Len(Lossy(w)) = Len(w)
           /\ \A k \in 1 .. Len(w) : Lossy(w)[k] = IF w[k] = "invalid" THEN "replacement" ELSE w[k]
           /\ Lossy(w) = <<>> <=> w = <<>>
<1>1. Len(w) \in Nat /\ DOMAIN w = 1 .. Len(w) /\ \A k \in 1 .. Len(w) : w[k] \in Chars
  BY DEF Word
<1>2. "replacement" \in Chars
  BY DEF Chars
<1>3. \A k \in 1 .. Len(w) : (IF w[k] = "invalid" THEN "replacement" ELSE w[k]) \in Chars
  BY <1>1, <1>2
<1>4. Lossy(w) = [k \in 1 .. Len(w) |-> IF w[k] = "invalid" THEN "replacement" ELSE w[k]]
  BY <1>1 DEF Lossy
<1>5. Lossy(w) \in Word /\ Len(Lossy(w)) = Len(w)
  BY <1>1, <1>3, <1>4 DEF Word
<1>6. Lossy(w) = <<>> <=> w = <<>>
  BY <1>1, <1>5, EmptySeq DEF Word
<1> QED BY <1>4, <1>5, <1>6

\* What PostgreSQL stores for the characters of a word, one number each.
Costs(w) == [k \in DOMAIN w |-> StoredLen(w[k])]

\* They are numbers, as many as the word has characters.
LEMMA CostsTyped ==
    ASSUME NEW w \in Word
    PROVE  /\ Costs(w) \in Seq(Nat) /\ Len(Costs(w)) = Len(w) /\ StoredLens(w) = Sums(Costs(w))
           /\ \A k \in 1 .. Len(w) : Costs(w)[k] = StoredLen(w[k])
<1>1. Len(w) \in Nat /\ DOMAIN w = 1 .. Len(w) /\ \A k \in 1 .. Len(w) : w[k] \in Chars
  BY DEF Word
<1>2. \A k \in 1 .. Len(w) : StoredLen(w[k]) \in Nat
  BY <1>1, CharCosts
<1>3. Costs(w) = [k \in 1 .. Len(w) |-> StoredLen(w[k])]
  BY <1>1 DEF Costs
<1>4. Costs(w) \in Seq(Nat) /\ Len(Costs(w)) = Len(w)
  BY <1>1, <1>2, <1>3
<1> QED BY <1>3, <1>4, Zenon DEF StoredLens, Costs

(***************************************************************************)
(* truncate_to_stored_budget keeps the longest beginning that PostgreSQL   *)
(* stores within the budget.                                               *)
(***************************************************************************)
LEMMA TruncatesToLongest ==
    ASSUME NEW w \in Word, NEW budget \in Nat
    PROVE  \E n \in 0 .. Len(w) :
              /\ TruncateToStoredBudget(w, budget) = SubSeq(w, 1, n)
              /\ StoredLens(w)[n] =< budget
              /\ \A m \in 0 .. Len(w) : StoredLens(w)[m] =< budget => m =< n
<1> DEFINE over == {k \in DOMAIN w : StoredLens(w)[k] > budget}
           sum == StoredLens(w)
<1>1. Len(w) \in Nat /\ DOMAIN w = 1 .. Len(w)
  BY DEF Word
<1>2. /\ \A k \in 0 .. Len(w) : sum[k] \in Nat
      /\ \A k \in 0 .. Len(w), m \in 0 .. Len(w) : m =< k => sum[m] =< sum[k]
      /\ sum[0] = 0
  <2>1. Costs(w) \in Seq(Nat) /\ Len(Costs(w)) = Len(w) /\ sum = Sums(Costs(w))
    BY CostsTyped
  <2>2. ASSUME NEW k \in 0 .. Len(w), NEW m \in 0 .. Len(w), m =< k PROVE m \in 0 .. k
    BY <2>2, <1>1
  <2> HIDE DEF sum
  <2>3. \A k \in 0 .. Len(w), m \in 0 .. Len(w) : m =< k => sum[m] =< sum[k]
    BY <2>1, <2>2, SumsGrow
  <2>4. \A k \in 0 .. Len(w) : sum[k] \in Nat
    BY <2>1, SumsTyped
  <2>5. sum[0] = 0
    BY <2>1, SumsAre
  <2> QED BY <2>3, <2>4, <2>5
<1>3. CASE over = {}
  <2>1. TruncateToStoredBudget(w, budget) = w
    BY <1>3 DEF TruncateToStoredBudget
  <2>2. w = SubSeq(w, 1, Len(w))
    BY DEF Word
  <2> HIDE DEF sum
  <2>3. sum[Len(w)] =< budget
    <3>1. CASE Len(w) = 0
      BY <3>1, <1>2
    <3>2. CASE Len(w) # 0
      <4>1. Len(w) \in DOMAIN w /\ sum[Len(w)] \in Nat /\ Len(w) \notin over
        BY <1>1, <1>2, <1>3, <3>2
      <4> QED BY <4>1 DEF sum
    <3> QED BY <3>1, <3>2
  <2>4. Len(w) \in 0 .. Len(w) /\ \A m \in 0 .. Len(w) : m =< Len(w)
    BY <1>1
  <2> QED BY <2>1, <2>2, <2>3, <2>4, Zenon DEF sum
<1>4. CASE over # {}
  <2>1. over \in SUBSET Nat
    BY <1>1
  <2>2. Min(over) \in over /\ \A k \in over : Min(over) =< k
    BY <1>4, <2>1, MinOf
  <2>3. TruncateToStoredBudget(w, budget) = SubSeq(w, 1, Min(over) - 1)
    BY <1>4 DEF TruncateToStoredBudget
  <2>4. PICK j \in 1 .. Len(w) : j = Min(over) /\ sum[j] > budget
    BY <1>1, <2>2
  <2>5. j - 1 \in 0 .. Len(w) /\ (j = 1 \/ j - 1 \in DOMAIN w) /\ ~(j =< j - 1)
    BY <1>1
  <2>6. sum[j - 1] =< budget
    <3>1. CASE j = 1
      BY <3>1, <1>2
    <3>2. CASE j - 1 \in DOMAIN w
      <4>1. j - 1 \notin over /\ sum[j - 1] \in Nat
        BY <1>2, <2>2, <2>4, <2>5
      <4> QED BY <3>2, <4>1
    <3> QED BY <2>5, <3>1, <3>2
  <2> HIDE DEF sum
  <2>7. ASSUME NEW m \in 0 .. Len(w), sum[m] =< budget PROVE m =< j - 1
    <3>1. SUFFICES ASSUME j =< m PROVE FALSE
      BY <1>1
    <3>2. sum[j] =< sum[m] /\ sum[j] \in Nat /\ sum[m] \in Nat
      BY <1>1, <1>2, <3>1
    <3> QED BY <2>4, <2>7, <3>2
  <2>8. TruncateToStoredBudget(w, budget) = SubSeq(w, 1, j - 1)
    BY <2>3, <2>4
  <2> QED BY <2>5, <2>6, <2>7, <2>8, Zenon DEF sum
<1> QED BY <1>3, <1>4

\* The loop of pg_clean_ascii: its values are words as long as the costs add up to.
LEMMA CleanIs ==
    ASSUME NEW w \in Word
    PROVE  /\ \A k \in 0 .. Len(w) : /\ PgClean(w)[k] \in Seq(StoredChars)
                                     /\ Len(PgClean(w)[k]) = StoredLens(w)[k]
           /\ PgClean(w)[0] = <<>>
           /\ \A k \in 1 .. Len(w) : PgClean(w)[k] = PgClean(w)[k - 1] \o PgEscape(w[k])
<1> DEFINE N == Len(w)
           E(f) == [k \in 0 .. N |-> IF k = 0 THEN <<>> ELSE f[k - 1] \o PgEscape(w[k])]
           S == Seq(StoredChars)
           step == [k \in 1 .. N |-> [x \in S |-> x \o PgEscape(w[k])]]
<1>1. N \in Nat /\ \A k \in 1 .. N : w[k] \in Chars
  BY DEF Word
<1>2. \A k \in 1 .. N : PgEscape(w[k]) \in Seq(StoredChars) /\ Len(PgEscape(w[k])) = StoredLen(w[k])
  BY <1>1, CharCosts
<1>3. PgClean(w) = CHOOSE f : f = E(f)
  BY DEF PgClean
<1>4. N = Len(w)
  OBVIOUS
<1> HIDE DEF N
<1>5. \A k \in 1 .. N, x \in S : x \o PgEscape(w[k]) \in S
  BY <1>2
<1>6. <<>> \in S
  OBVIOUS
<1>7. S = Seq(StoredChars)
  OBVIOUS
<1> HIDE DEF S
<1>8. step \in [1 .. N -> [S -> S]]
  BY <1>5
<1>9. \A k \in 1 .. N, x \in S : step[k][x] = x \o PgEscape(w[k])
  OBVIOUS
<1> HIDE DEF step
<1>10. PICK f : Run(f, N, S, <<>>, step)
  BY <1>1, <1>6, <1>8, Recursion
<1>11. ASSUME NEW k \in 0 .. N PROVE f[k] = E(f)[k]
  <2>1. CASE k = 0
    BY <2>1, <1>10 DEF Run
  <2>2. CASE k # 0
    <3>1. k \in 1 .. N /\ k - 1 \in 0 .. N
      BY <2>2, <1>1
    <3>2. f[k - 1] \in S
      BY <3>1, <1>10 DEF Run
    <3>3. f[k] = f[k - 1] \o PgEscape(w[k])
      BY <3>1, <3>2, <1>9, <1>10 DEF Run
    <3> QED BY <2>2, <3>3
  <2> QED BY <2>1, <2>2
<1>12. f = E(f)
  <2>1. f = [k \in 0 .. N |-> f[k]]
    BY <1>10 DEF Run
  <2> QED BY <2>1, <1>11
<1>13. PgClean(w) = E(PgClean(w))
  <2> HIDE DEF E
  <2> QED BY <1>3, <1>12
<1>14. /\ PgClean(w)[0] = <<>>
       /\ \A k \in 1 .. N : PgClean(w)[k] = PgClean(w)[k - 1] \o PgEscape(w[k])
  <2>1. PICK g : g = PgClean(w) /\ g = E(g)
    BY <1>13
  <2>2. g[0] = <<>>
    BY <1>1, <2>1
  <2>3. ASSUME NEW k \in 1 .. N PROVE g[k] = g[k - 1] \o PgEscape(w[k])
    <3>1. k \in 0 .. N /\ k # 0
      BY <1>1
    <3> QED BY <2>1, <3>1
  <2> QED BY <2>1, <2>2, <2>3
<1> DEFINE Good(k) == PgClean(w)[k] \in Seq(StoredChars) /\ Len(PgClean(w)[k]) = StoredLens(w)[k]
           T == {k \in 0 .. N : Good(k)}
<1>15. 0 \in T
  <2>1. StoredLens(w)[0] = 0
    BY CostsTyped, SumsAre
  <2>2. Good(0)
    BY <1>14, <2>1
  <2> HIDE DEF Good
  <2> QED BY <1>1, <2>2
<1>16. ASSUME NEW k \in 0 .. N - 1, k \in T PROVE k + 1 \in T
  <2>1. PICK j \in 1 .. N : j = k + 1 /\ j - 1 = k /\ j \in 0 .. N
    BY <1>1
  <2>2. PICK e \in Seq(StoredChars) : e = PgEscape(w[j]) /\ Len(e) = StoredLen(w[j])
    BY <1>2
  <2>3. PICK c \in Seq(StoredChars) : c = PgClean(w)[k] /\ Len(c) = StoredLens(w)[k]
    BY <1>16
  <2>4. PgClean(w)[j] = c \o e
    BY <1>14, <2>1, <2>2, <2>3
  <2>5. c \o e \in Seq(StoredChars) /\ Len(c \o e) = Len(c) + Len(e)
    OBVIOUS
  <2>6. StoredLens(w)[j] = StoredLens(w)[k] + StoredLen(w[j])
    <3>1. /\ Costs(w) \in Seq(Nat) /\ Len(Costs(w)) = N /\ StoredLens(w) = Sums(Costs(w))
          /\ Costs(w)[j] = StoredLen(w[j])
      BY <1>4, CostsTyped
    <3> QED BY <2>1, <3>1, SumsNext
  <2>7. Good(j)
    BY <2>2, <2>3, <2>4, <2>5, <2>6
  <2> HIDE DEF Good
  <2> QED BY <2>1, <2>7
<1> HIDE DEF T
<1>17. 0 .. N \subseteq T
  BY <1>1, <1>15, <1>16, InductionUpTo
<1>18. \A k \in 0 .. N : Good(k)
  BY <1>17 DEF T
<1> QED BY <1>4, <1>14, <1>18

\* Sequences written out, with the facts the provers do not find by themselves.
LEMMA OneElement ==
    ASSUME NEW S, NEW e \in S
    PROVE  <<e>> \in Seq(S) /\ Len(<<e>>) = 1 /\ <<e>>[1] = e
OBVIOUS

\* Of two elements.
LEMMA TwoElements ==
    ASSUME NEW S, NEW a \in S, NEW b \in S
    PROVE  /\ <<a, b>> \in Seq(S) /\ Len(<<a, b>>) = 2 /\ SubSeq(<<a, b>>, 1, 2) = <<a, b>>
           /\ <<a, b>>[1] = a /\ <<a, b>>[2] = b
<1>1. <<a, b>> \in Seq(S) /\ Len(<<a, b>>) = 2 /\ <<a, b>>[1] = a /\ <<a, b>>[2] = b
  OBVIOUS
<1> QED BY <1>1, SubSeqFull

\* The first two elements of a longer sequence.
LEMMA FirstTwo ==
    ASSUME NEW S, NEW s \in Seq(S), Len(s) >= 2
    PROVE  SubSeq(s, 1, 2) = <<s[1], s[2]>>
<1>1. PICK a \in S, b \in S : a = s[1] /\ b = s[2]
  OBVIOUS
<1>2. PICK p \in Seq(S) : p = <<a, b>>
  BY TwoElements
<1>3. Len(p) = 2 /\ p[1] = s[1] /\ p[2] = s[2]
  BY <1>1, <1>2, TwoElements
<1>4. PICK q : q = SubSeq(s, 1, 2)
  OBVIOUS
<1>5. q \in Seq(S) /\ Len(q) = 2 /\ \A k \in 1 .. 2 : q[k] = s[k]
  BY <1>4
<1>6. \A k \in 1 .. 2 : p[k] = q[k]
  BY <1>3, <1>5
<1>7. p = q
  BY <1>3, <1>5, <1>6, SeqEqual
<1> QED BY <1>1, <1>2, <1>4, <1>7

\* Of three elements.
LEMMA ThreeElements ==
    ASSUME NEW S, NEW a \in S, NEW b \in S, NEW c \in S
    PROVE  /\ <<a, b, c>> \in Seq(S) /\ Len(<<a, b, c>>) = 3
           /\ <<a, b, c>>[1] = a /\ <<a, b, c>>[2] = b /\ <<a, b, c>>[3] = c
OBVIOUS

\* A sequence over a set is one over a larger set.
LEMMA SeqOfMore ==
    ASSUME NEW S, NEW R, S \subseteq R, NEW s \in Seq(S)
    PROVE  s \in Seq(R)
OBVIOUS

\* Concatenation is associative.
LEMMA ConcatThree ==
    ASSUME NEW S, NEW c \in Seq(S), NEW u \in Seq(S), NEW t \in Seq(S)
    PROVE  c \o (u \o t) = (c \o u) \o t
BY ConcatAssociative

\* Also for a last element.
LEMMA ConcatOne ==
    ASSUME NEW S, NEW c \in Seq(S), NEW u \in Seq(S), NEW e \in S
    PROVE  (c \o u) \o <<e>> = c \o (u \o <<e>>)
<1>1. <<e>> \in Seq(S)
  OBVIOUS
<1> QED BY <1>1, ConcatAssociative

\* Printable characters at the end cost one each and are stored as they are.
LEMMA PrintableTail ==
    ASSUME NEW x \in Word, NEW y \in Seq(Printable)
    PROVE  /\ x \o y \in Word
           /\ StoredLens(x \o y)[Len(x \o y)] = StoredLens(x)[Len(x)] + Len(y)
           /\ \E c \in Seq(StoredChars) : PgClean(x \o y)[Len(x \o y)] = c \o y
<1> DEFINE w == x \o y
           n == Len(x)
<1>1. n \in Nat /\ Len(y) \in Nat /\ y \in Word
  BY DEF Word, Chars
<1>2. /\ w \in Word /\ Len(w) = n + Len(y)
      /\ \A k \in 1 .. Len(y) : w[n + k] = y[k]
      /\ \A k \in 1 .. n : w[k] = x[k]
  BY <1>1 DEF Word
<1> HIDE DEF w, n
<1>3. \A k \in 1 .. Len(y) : y[k] \in Printable /\ y[k] \in Chars
  BY DEF Chars
<1>4. StoredLens(w)[n + Len(y)] = StoredLens(x)[n] + Len(y)
  <2>1. /\ Costs(x) \in Seq(Nat) /\ Len(Costs(x)) = n /\ StoredLens(x) = Sums(Costs(x))
        /\ Costs(y) \in Seq(Nat) /\ Len(Costs(y)) = Len(y)
        /\ \A k \in 1 .. Len(y) : Costs(y)[k] = StoredLen(y[k])
        /\ Costs(w) \in Seq(Nat) /\ Len(Costs(w)) = Len(w) /\ StoredLens(w) = Sums(Costs(w))
        /\ \A k \in 1 .. Len(w) : Costs(w)[k] = StoredLen(w[k])
        /\ \A k \in 1 .. n : Costs(x)[k] = StoredLen(x[k])
    BY <1>1, <1>2, CostsTyped DEF n
  <2>2. PICK p \in Seq(Nat), q \in Seq(Nat) : p = Costs(x) /\ q = Costs(y)
    BY <2>1
  <2>3. Len(p) = n /\ Len(q) = Len(y)
    BY <2>1, <2>2
  <2>4. Costs(w) = p \o q
    <3>1. p \o q \in Seq(Nat) /\ Len(p \o q) = n + Len(y)
      <4>1. p \o q \in Seq(Nat) /\ Len(p \o q) = Len(p) + Len(q)
        BY ConcatProperties
      <4> QED BY <2>3, <4>1
    <3>2. ASSUME NEW k \in 1 .. n PROVE Costs(w)[k] = (p \o q)[k]
      <4>1. (p \o q)[k] = p[k]
        BY <2>3
      <4>2. k \in 1 .. Len(w)
        BY <1>1, <1>2
      <4> QED BY <1>2, <2>1, <2>2, <4>1, <4>2
    <3>3. ASSUME NEW j \in 1 .. Len(y) PROVE Costs(w)[n + j] = (p \o q)[n + j]
      <4>1. (p \o q)[n + j] = q[j]
        BY <2>3
      <4>2. n + j \in 1 .. Len(w)
        BY <1>1, <1>2
      <4> QED BY <1>2, <2>1, <2>2, <4>1, <4>2
    <3>4. ASSUME NEW k \in 1 .. n + Len(y) PROVE k \in 1 .. n \/ \E j \in 1 .. Len(y) : k = n + j
      <4>1. CASE k =< n
        BY <1>1, <4>1
      <4>2. CASE k > n
        <5>1. k - n \in 1 .. Len(y) /\ k = n + (k - n)
          BY <1>1, <4>2
        <5> QED BY <5>1
      <4> QED BY <1>1, <4>1, <4>2
    <3>5. \A k \in 1 .. n + Len(y) : Costs(w)[k] = (p \o q)[k]
      BY <3>2, <3>3, <3>4
    <3> QED BY <1>2, <2>1, <3>1, <3>5, SeqEqual
  <2>5. Len(y) \in 0 .. Len(q)
    BY <1>1, <2>3
  <2>6. Sums(Costs(w))[n + Len(y)] = Total(p) + Sums(q)[Len(y)]
    <3>1. Sums(p \o q)[Len(p) + Len(y)] = Total(p) + Sums(q)[Len(y)]
      <4>1. PICK m \in 0 .. Len(q) : m = Len(y)
        BY <2>5
      <4>2. Sums(p \o q)[Len(p) + m] = Total(p) + Sums(q)[m]
        BY SumsConcat
      <4> QED BY <4>1, <4>2
    <3> QED BY <2>3, <2>4, <3>1
  <2>7. Sums(q)[Len(y)] = Len(y)
    <3>1. \A k \in 1 .. Len(q) : q[k] = 1
      BY <1>3, <2>1, <2>2, <2>3, CharCosts
    <3> QED BY <2>5, <3>1, SumsOfOnes
  <2> QED BY <2>1, <2>2, <2>3, <2>6, <2>7 DEF Total
<1>5. PICK c : c = PgClean(w)[n]
  OBVIOUS
<1>6. c \in Seq(StoredChars)
  <2>1. n \in 0 .. Len(w)
    BY <1>1, <1>2
  <2> QED BY <1>2, <1>5, <2>1, CleanIs
<1> DEFINE T == {k \in 0 .. Len(y) : PgClean(w)[n + k] = c \o SubSeq(y, 1, k)}
<1>7. 0 \in T
  <2>1. SubSeq(y, 1, 0) = <<>> /\ n + 0 = n /\ c \o <<>> = c /\ 0 \in 0 .. Len(y)
    BY <1>1, <1>6, ConcatEmptySeq
  <2>2. PgClean(w)[n + 0] = c \o SubSeq(y, 1, 0)
    BY <1>5, <2>1, Zenon
  <2> QED BY <2>1, <2>2
<1>8. ASSUME NEW k \in 0 .. Len(y) - 1, k \in T PROVE k + 1 \in T
  <2>1. PICK j \in 1 .. Len(y) : j = k + 1 /\ j \in 0 .. Len(y) /\ k \in 0 .. Len(y)
    BY <1>1
  <2>2. PICK i \in 1 .. Len(w) : i = n + j /\ i - 1 = n + k
    BY <1>1, <1>2, <2>1
  <2>3. PgClean(w)[i] = PgClean(w)[n + k] \o PgEscape(w[i])
    BY <1>2, <2>2, CleanIs
  <2>4. PgEscape(w[i]) = <<y[j]>> /\ y[j] \in StoredChars
    BY <1>2, <1>3, <2>1, <2>2, CharCosts DEF StoredChars
  <2>5. PgClean(w)[n + k] = c \o SubSeq(y, 1, k)
    BY <1>8
  <2>6. SubSeq(y, 1, j) = SubSeq(y, 1, k) \o <<y[j]>> /\ SubSeq(y, 1, k) \in Seq(StoredChars)
    BY <1>1, <2>1 DEF StoredChars
  <2>7. (c \o SubSeq(y, 1, k)) \o <<y[j]>> = c \o (SubSeq(y, 1, k) \o <<y[j]>>)
    <3>1. PICK u \in Seq(StoredChars) : u = SubSeq(y, 1, k)
      BY <2>6
    <3>2. PICK e \in StoredChars : e = y[j]
      BY <2>4
    <3>3. (c \o u) \o <<e>> = c \o (u \o <<e>>)
      BY <1>6, ConcatOne
    <3> QED BY <3>1, <3>2, <3>3
  <2>8. PgClean(w)[n + j] = c \o SubSeq(y, 1, j)
    BY <2>2, <2>3, <2>4, <2>5, <2>6, <2>7
  <2> QED BY <2>1, <2>8
<1> HIDE DEF T
<1>9. Len(y) \in T
  <2>1. 0 .. Len(y) \subseteq T
    BY <1>1, <1>7, <1>8, InductionUpTo
  <2> QED BY <1>1, <2>1
<1>10. PgClean(w)[n + Len(y)] = c \o y
  <2>1. SubSeq(y, 1, Len(y)) = y
    OBVIOUS
  <2> QED BY <1>9, <2>1 DEF T
<1> QED BY <1>2, <1>4, <1>6, <1>10 DEF w, n

\* So an end that is printable survives if there is room for the whole.
LEMMA TailStored ==
    ASSUME NEW x \in Word, NEW y \in Seq(Printable),
           StoredLens(x)[Len(x)] + Len(y) =< NameLimit
    PROVE  \E c \in Seq(StoredChars) : PgStored(x \o y) = c \o y
<1> DEFINE w == x \o y
           clean == PgClean(w)[Len(w)]
<1>1. w \in Word /\ Len(w) \in Nat /\ StoredLens(w)[Len(w)] =< NameLimit
  BY PrintableTail DEF Word
<1>2. PICK c \in Seq(StoredChars) : clean = c \o y
  BY PrintableTail
<1>3. clean \in Seq(StoredChars) /\ Len(clean) = StoredLens(w)[Len(w)]
  <2>1. Len(w) \in 0 .. Len(w)
    BY <1>1
  <2> HIDE DEF w
  <2> QED BY <1>1, <2>1, CleanIs
<1> HIDE DEF clean
<1>4. Len(clean) \in Nat /\ NameLimit \in Nat /\ Len(clean) =< NameLimit
  BY <1>1, <1>3, NameLimitAssumption
<1>5. (IF Len(clean) < NameLimit THEN Len(clean) ELSE NameLimit) = Len(clean)
  BY <1>4
<1>6. SubSeq(clean, 1, Len(clean)) = clean
  BY <1>3
<1>7. PgStored(w) = clean
  BY <1>5, <1>6 DEF PgStored, clean
<1> QED BY <1>2, <1>7

\* A concatenation ends with its second part.
LEMMA ConcatSuffix ==
    ASSUME NEW S, NEW c \in Seq(S), NEW y \in Seq(S)
    PROVE  IsSuffix(y, c \o y)
<1>1. PICK t \in Seq(S) : t = c \o y
  BY ConcatProperties
<1>2. /\ Len(c) \in Nat /\ Len(y) \in Nat /\ Len(t) = Len(c) + Len(y)
      /\ \A k \in 1 .. Len(y) : t[Len(c) + k] = y[k]
  BY <1>1
<1>3. PICK m \in Nat, n \in Nat : m = Len(y) /\ n = Len(t) /\ n = Len(c) + m
  BY <1>2
<1>4. /\ Reverse(y) = [k \in 1 .. m |-> y[(m - k) + 1]]
      /\ Reverse(t) = [k \in 1 .. n |-> t[(n - k) + 1]]
  BY <1>3 DEF Reverse
<1>5. ASSUME NEW k \in 1 .. m PROVE Reverse(y)[k] = Reverse(t)[k]
  <2>1. PICK l \in Nat : l = Len(c)
    BY <1>2
  <2>2. n = l + m
    BY <1>3, <2>1
  <2>3. PICK j \in 1 .. m : j = (m - k) + 1 /\ l + j = (n - k) + 1 /\ k \in 1 .. n
    BY <2>2
  <2>4. t[l + j] = y[j]
    BY <1>2, <1>3, <2>1
  <2> QED BY <1>4, <2>3, <2>4
<1>6. Len(Reverse(y)) = m /\ Len(Reverse(t)) = n
  BY <1>4
<1>7. /\ SubSeq(Reverse(y), 1, m) = [k \in 1 .. m |-> Reverse(y)[k]]
      /\ SubSeq(Reverse(t), 1, m) = [k \in 1 .. m |-> Reverse(t)[k]]
  <2>1. Reverse(y) \in Seq(S) /\ Reverse(t) \in Seq(S)
    <3>1. ASSUME NEW k \in 1 .. m PROVE y[(m - k) + 1] \in S
      <4>1. (m - k) + 1 \in 1 .. m
        OBVIOUS
      <4> QED BY <1>3, <4>1
    <3>2. ASSUME NEW k \in 1 .. n PROVE t[(n - k) + 1] \in S
      <4>1. (n - k) + 1 \in 1 .. n
        OBVIOUS
      <4>2. n = Len(t)
        BY <1>3
      <4> QED BY <4>1, <4>2
    <3> QED BY <1>4, <3>1, <3>2
  <2>2. m =< n
    BY <1>2, <1>3
  <2> QED BY <2>1, <2>2, <1>6
<1>8. SubSeq(Reverse(y), 1, m) = SubSeq(Reverse(t), 1, m) /\ m =< n
  BY <1>2, <1>3, <1>5, <1>7
<1> QED BY <1>1, <1>6, <1>8 DEF IsSuffix, IsPrefix

\* Three elements in front of a sequence, and the first two taken off again.
InFront(S, a, b, c, t) ==
    /\ <<a, b, c>> \o t \in Seq(S) /\ Len(<<a, b, c>> \o t) = Len(t) + 3
    /\ SubSeq(<<a, b, c>> \o t, 1, 2) = <<a, b>>
    /\ SubSeq(<<a, b, c>> \o t, 3, Len(t) + 3) = <<c>> \o t

\* Three elements in front of a sequence: its length, its beginning and its rest.
LEMMA ThreeInFront ==
    ASSUME NEW S, NEW a \in S, NEW b \in S, NEW c \in S, NEW t \in Seq(S)
    PROVE  InFront(S, a, b, c, t)
<1>1. PICK p \in Seq(S) : p = <<a, b, c>> /\ Len(p) = 3 /\ p[1] = a /\ p[2] = b /\ p[3] = c
  <2>1. /\ <<a, b, c>> \in Seq(S) /\ Len(<<a, b, c>>) = 3
        /\ <<a, b, c>>[1] = a /\ <<a, b, c>>[2] = b /\ <<a, b, c>>[3] = c
    BY ThreeElements
  <2> QED BY <2>1, Zenon
<1>2. PICK s \in Seq(S) : s = p \o t
  BY ConcatProperties
<1>3. Len(s) = Len(t) + 3 /\ Len(t) \in Nat
  BY <1>1, <1>2, ConcatProperties
<1>4. \A k \in 1 .. Len(t) + 3 : s[k] = IF k =< 3 THEN p[k] ELSE t[k - 3]
  <2>1. \A k \in 1 .. Len(p) + Len(t) : (p \o t)[k] = IF k =< Len(p) THEN p[k] ELSE t[k - Len(p)]
    BY ConcatProperties
  <2>2. Len(p) + Len(t) = Len(t) + 3 /\ Len(p) = 3
    BY <1>1, <1>3
  <2> QED BY <1>2, <2>1, <2>2
<1>5. s[1] = a /\ s[2] = b /\ s[3] = c
  BY <1>1, <1>3, <1>4
<1>6. SubSeq(s, 1, 2) = <<a, b>>
  BY <1>3, <1>5, FirstTwo
<1>7. PICK q \in Seq(S) : q = <<c>> /\ Len(q) = 1 /\ q[1] = c
  BY OneElement
<1>8. PICK u \in Seq(S) : u = q \o t
  BY ConcatProperties
<1>9. Len(u) = Len(t) + 1 /\ \A k \in 1 .. Len(t) + 1 : u[k] = IF k =< 1 THEN c ELSE t[k - 1]
  <2>1. Len(u) = Len(q) + Len(t) /\ \A k \in 1 .. Len(q) + Len(t) : u[k] = IF k =< Len(q) THEN q[k] ELSE t[k - Len(q)]
    BY <1>8, ConcatProperties
  <2>2. Len(q) + Len(t) = Len(t) + 1 /\ Len(q) = 1
    BY <1>3, <1>7
  <2>3. ASSUME NEW k \in 1 .. Len(t) + 1 PROVE u[k] = IF k =< 1 THEN c ELSE t[k - 1]
    <3>1. u[k] = IF k =< 1 THEN q[k] ELSE t[k - 1]
      BY <2>1, <2>2
    <3> QED BY <3>1, <1>3, <1>7
  <2> QED BY <2>1, <2>2, <2>3
<1>10. PICK v \in Seq(S) : v = SubSeq(s, 3, Len(s)) /\ Len(v) = Len(t) + 1 /\ \A k \in 1 .. Len(t) + 1 : v[k] = s[k + 2]
  <2>1. PICK n \in Nat : n = Len(s) /\ n = Len(t) + 3
    BY <1>3
  <2>2. PICK v : v = SubSeq(s, 3, n)
    OBVIOUS
  <2>3. v \in Seq(S) /\ Len(v) = n - 2 /\ \A k \in 1 .. n - 2 : v[k] = s[k + 2]
    <3>1. n >= 3 /\ \A k \in 3 .. n : s[k] \in S
      BY <1>3, <2>1
    <3>2. /\ SubSeq(s, 3, n) \in Seq(S) /\ Len(SubSeq(s, 3, n)) = IF 3 =< n THEN n - 3 + 1 ELSE 0
          /\ \A i \in 1 .. n - 3 + 1 : SubSeq(s, 3, n)[i] = s[3 + i - 1]
      BY <3>1, SubSeqProperties
    <3>3. n - 3 + 1 = n - 2 /\ \A i \in 1 .. n - 2 : 3 + i - 1 = i + 2
      OBVIOUS
    <3> QED BY <2>2, <3>1, <3>2, <3>3
  <2>4. n - 2 = Len(t) + 1
    BY <1>3, <2>1
  <2> QED BY <2>1, <2>2, <2>3, <2>4
<1>11. ASSUME NEW k \in 1 .. Len(t) + 1 PROVE v[k] = u[k]
  <2>1. PICK j \in 1 .. Len(t) + 3 : j = k + 2 /\ j - 3 = k - 1 /\ (j =< 3 <=> k =< 1) /\ (k =< 1 => j = 3)
    BY <1>3
  <2>2. v[k] = IF k =< 1 THEN p[j] ELSE t[k - 1]
    BY <1>4, <1>10, <2>1
  <2> QED BY <1>1, <1>9, <2>1, <2>2
<1>12. v = u
  BY <1>9, <1>10, <1>11, SeqEqual
<1>13. <<a, b, c>> \o t = s
  BY <1>1, <1>2
<1>14. SubSeq(s, 3, Len(t) + 3) = <<c>> \o t
  BY <1>3, <1>7, <1>8, <1>10, <1>12
<1> QED BY <1>2, <1>3, <1>6, <1>13, <1>14, Zenon DEF InFront

\* The suffix, and what is left of it without its separator.
LEMMA SuffixIs ==
    ASSUME NEW text \in Seq(Printable)
    PROVE  /\ Suffix(text) \in Seq(Printable) /\ Len(Suffix(text)) = Len(text) + 3
           /\ TrimStart(Suffix(text)) = <<" ">> \o text
<1>1. " " \in Printable /\ "-" \in Printable
  BY DEF Printable
<1>2. PICK a \in Printable, b \in Printable : a = " " /\ b = "-"
  BY <1>1
<1>3. Suffix(text) = <<a, b, a>> \o text
  BY <1>2, Zenon DEF Suffix
<1>4. PICK s : s = Suffix(text)
  OBVIOUS
<1>5. /\ s \in Seq(Printable) /\ Len(s) = Len(text) + 3
      /\ SubSeq(s, 1, 2) = <<a, b>>
      /\ SubSeq(s, 3, Len(s)) = <<a>> \o text
  <2>1. InFront(Printable, a, b, a, text)
    BY ThreeInFront
  <2> QED BY <1>3, <1>4, <2>1, Zenon DEF InFront
<1>6. IsPrefix(<<a, b>>, s)
  <2>1. Len(<<a, b>>) = 2 /\ SubSeq(<<a, b>>, 1, 2) = <<a, b>>
    BY TwoElements
  <2>2. 2 =< Len(s)
    BY <1>5
  <2> QED BY <1>5, <2>1, <2>2 DEF IsPrefix
<1>7. TrimStart(s) = <<a>> \o text
  BY <1>2, <1>5, <1>6, Zenon DEF TrimStart
<1> QED BY <1>2, <1>4, <1>5, <1>7

(***************************************************************************)
(* format_application_name: the longest beginning of the name that leaves  *)
(* room for the suffix, then the suffix.                                   *)
(***************************************************************************)
LEMMA Formatted ==
    ASSUME NEW w \in Word, NEW text \in Seq(Printable), Len(Suffix(text)) < NameLimit
    PROVE  /\ Suffix(text) \in Seq(Printable) /\ Len(Suffix(text)) = Len(text) + 3
           /\ \E n \in 0 .. Len(w) :
                 /\ FormatApplicationName(w, text) = SubSeq(w, 1, n) \o Suffix(text)
                 /\ StoredLens(w)[n] + Len(Suffix(text)) =< NameLimit
                 /\ \A m \in 0 .. Len(w) : StoredLens(w)[m] + Len(Suffix(text)) =< NameLimit => m =< n
<1>1. Suffix(text) \in Seq(Printable) /\ Len(Suffix(text)) = Len(text) + 3
  BY SuffixIs
<1>2. PICK l \in Nat, b \in Nat : l = Len(Suffix(text)) /\ b = NameLimit - l
  BY <1>1, NameLimitAssumption
<1>3. FormatApplicationName(w, text) = TruncateToStoredBudget(w, b) \o Suffix(text)
  BY <1>2, NameLimitAssumption DEF FormatApplicationName
<1>4. PICK n \in 0 .. Len(w) :
         /\ TruncateToStoredBudget(w, b) = SubSeq(w, 1, n)
         /\ StoredLens(w)[n] =< b
         /\ \A m \in 0 .. Len(w) : StoredLens(w)[m] =< b => m =< n
  BY TruncatesToLongest
<1>5. ASSUME NEW m \in 0 .. Len(w)
      PROVE  StoredLens(w)[m] =< b <=> StoredLens(w)[m] + Len(Suffix(text)) =< NameLimit
  <2>1. PICK x \in Nat : x = StoredLens(w)[m]
    BY CostsTyped, SumsTyped
  <2>2. x =< b <=> x + l =< NameLimit
    BY <1>2, NameLimitAssumption
  <2> QED BY <1>2, <2>1, <2>2
<1> QED BY <1>1, <1>3, <1>4, <1>5

\* A beginning costs what it costs in the whole word.
LEMMA PrefixCost ==
    ASSUME NEW w \in Word, NEW n \in 0 .. Len(w)
    PROVE  /\ SubSeq(w, 1, n) \in Word /\ Len(SubSeq(w, 1, n)) = n
           /\ StoredLens(SubSeq(w, 1, n))[n] = StoredLens(w)[n]
<1>1. PICK v : v = SubSeq(w, 1, n)
  OBVIOUS
<1>2. v \in Word /\ Len(v) = n /\ \A k \in 1 .. n : v[k] = w[k]
  BY <1>1 DEF Word
<1>3. /\ Costs(w) \in Seq(Nat) /\ Len(Costs(w)) = Len(w) /\ StoredLens(w) = Sums(Costs(w))
      /\ \A k \in 1 .. Len(w) : Costs(w)[k] = StoredLen(w[k])
      /\ Costs(v) \in Seq(Nat) /\ Len(Costs(v)) = n /\ StoredLens(v) = Sums(Costs(v))
      /\ \A k \in 1 .. n : Costs(v)[k] = StoredLen(v[k])
  BY <1>2, CostsTyped
<1>4. n \in Nat /\ n =< Len(w) /\ \A k \in 1 .. n : k \in 1 .. Len(w)
  BY DEF Word
<1>5. \A k \in 1 .. n : Costs(v)[k] = Costs(w)[k]
  BY <1>2, <1>3, <1>4
<1>6. Sums(Costs(v))[n] = Sums(Costs(w))[n]
  <2>1. PICK p \in Seq(Nat), q \in Seq(Nat) : p = Costs(v) /\ q = Costs(w)
    BY <1>3
  <2>2. n =< Len(p) /\ n =< Len(q) /\ \A k \in 1 .. n : p[k] = q[k]
    BY <1>3, <1>4, <1>5, <2>1
  <2>3. Sums(p)[n] = Sums(q)[n]
    BY <1>4, <2>2, SumsAgree
  <2> QED BY <2>1, <2>3
<1> QED BY <1>1, <1>2, <1>3, <1>6

\* The formatted name is a word, and what PostgreSQL stores of it ends with the address.
LEMMA FormattedStored ==
    ASSUME NEW w \in Word, NEW text \in Seq(Printable), Len(Suffix(text)) < NameLimit
    PROVE  /\ FormatApplicationName(w, text) \in Word
           /\ IsSuffix(text, PgStored(FormatApplicationName(w, text)))
<1>1. Suffix(text) \in Seq(Printable)
  BY Formatted
<1>2. PICK n \in 0 .. Len(w) :
         /\ FormatApplicationName(w, text) = SubSeq(w, 1, n) \o Suffix(text)
         /\ StoredLens(w)[n] + Len(Suffix(text)) =< NameLimit
  BY Formatted
<1>3. PICK x \in Word : x = SubSeq(w, 1, n) /\ StoredLens(x)[Len(x)] + Len(Suffix(text)) =< NameLimit
  BY <1>2, PrefixCost
<1>4. PICK c \in Seq(StoredChars) : PgStored(x \o Suffix(text)) = c \o Suffix(text)
  BY <1>1, <1>3, TailStored
<1>5. PICK u \in Seq(StoredChars), t \in Seq(StoredChars) : u = <<" ", "-", " ">> /\ t = text
  <2>1. PICK a \in StoredChars, b \in StoredChars : a = " " /\ b = "-"
    BY DEF StoredChars, Printable
  <2>2. <<a, b, a>> \in Seq(StoredChars)
    BY ThreeElements
  <2>3. text \in Seq(StoredChars)
    BY SeqOfMore DEF StoredChars
  <2> QED BY <2>1, <2>2, <2>3
<1>6. c \o Suffix(text) = (c \o u) \o t /\ IsSuffix(t, (c \o u) \o t)
  <2>1. Suffix(text) = u \o t
    BY <1>5 DEF Suffix
  <2>2. c \o (u \o t) = (c \o u) \o t
    BY ConcatThree
  <2>3. c \o u \in Seq(StoredChars)
    BY ConcatProperties
  <2> QED BY <2>1, <2>2, <2>3, ConcatSuffix
<1>7. x \o Suffix(text) \in Word
  BY <1>1, <1>3, PrintableTail
<1> QED BY <1>2, <1>3, <1>4, <1>5, <1>6, <1>7

\* Without a name a blank and the address are left, which PostgreSQL stores.
LEMMA TrimmedStored ==
    ASSUME NEW text \in Seq(Printable), Len(Suffix(text)) < NameLimit
    PROVE  LET v == TrimStart(FormatApplicationName(<<>>, text))
           IN  v = <<" ">> \o text /\ v \in Word /\ IsSuffix(text, PgStored(v))
<1>1. <<>> \in Word /\ Len(<<>>) = 0
  BY DEF Word
<1>2. Len(text) \in Nat /\ Suffix(text) \in Seq(Printable) /\ Len(Suffix(text)) = Len(text) + 3
  BY <1>1, Formatted
<1>3. FormatApplicationName(<<>>, text) = Suffix(text)
  <2>1. PICK n \in 0 .. 0 : FormatApplicationName(<<>>, text) = SubSeq(<<>>, 1, n) \o Suffix(text)
    BY <1>1, Formatted
  <2>2. SubSeq(<<>>, 1, n) = <<>>
    OBVIOUS
  <2> QED BY <1>2, <2>1, <2>2
<1>4. PICK v : v = TrimStart(FormatApplicationName(<<>>, text)) /\ v = <<" ">> \o text
  BY <1>3, SuffixIs
<1>5. v \in Word /\ IsSuffix(text, PgStored(v))
  <2>1. PICK e \in Chars : e = " " /\ e \in Printable
    BY DEF Chars, Printable
  <2>2. PICK x \in Word : x = <<" ">> /\ Len(x) = 1 /\ x[1] \in Printable /\ x[1] \in Chars
    BY <2>1, OneElement DEF Word
  <2>0. StoredLens(x)[Len(x)] = 1
    <3>1. PICK p \in Seq(Nat) : p = Costs(x)
      BY CostsTyped
    <3>2. Len(p) = 1 /\ StoredLens(x) = Sums(p) /\ p[1] = StoredLen(x[1])
      <4>1. Len(Costs(x)) = Len(x) /\ StoredLens(x) = Sums(Costs(x)) /\ \A k \in 1 .. Len(x) : Costs(x)[k] = StoredLen(x[k])
        BY CostsTyped
      <4>2. 1 \in 1 .. Len(x)
        <5>1. Len(x) = 1
          BY <2>2, Zenon
        <5> QED BY <5>1
      <4> QED BY <2>2, <3>1, <4>1, <4>2
    <3>3. p[1] = 1
      BY <2>2, <3>2, CharCosts
    <3>4. \A k \in 1 .. Len(p) : p[k] = 1
      BY <3>2, <3>3
    <3>5. Sums(p)[1] = 1
      <4>1. PICK one \in 0 .. Len(p) : one = 1
        BY <3>2
      <4>2. Sums(p)[one] = one
        BY <3>4, SumsOfOnes
      <4> QED BY <4>1, <4>2
    <3> QED BY <2>2, <3>2, <3>5
  <2>3. 1 + Len(text) =< NameLimit
    BY <1>2, NameLimitAssumption
  <2>4. PICK c \in Seq(StoredChars) : PgStored(x \o text) = c \o text
    BY <2>0, <2>3, TailStored
  <2>5. text \in Seq(StoredChars)
    BY DEF StoredChars
  <2>6. IsSuffix(text, c \o text)
    BY <2>5, ConcatSuffix
  <2>7. x \o text \in Word
    BY PrintableTail
  <2> QED BY <1>4, <2>2, <2>4, <2>6, <2>7
<1> QED BY <1>4, <1>5

-----------------------------------------------------------------------------
(* Pairs.                                                                  *)

Pair == [key : Word, val : Word]

\* A section of n named pairs and its terminator.
Terminated(words, n) ==
    /\ Len(words) = 2 * n + 2
    /\ \A k \in 1 .. n : words[2 * k - 1] # <<>>
    /\ words[2 * n + 1] = <<>> /\ words[2 * n + 2] = <<>>

\* PostgreSQL's pairs of some n pairs of words.
IsPgPairs(words, n) ==
    /\ PgPairs(words) \in Seq(Pair) /\ Len(PgPairs(words)) = n
    /\ \A k \in 1 .. n : PgPairs(words)[k] = [key |-> words[2 * k - 1], val |-> words[2 * k]]

\* The word between two NULs that follow each other.
LEMMA EmptyWord == <<>> \in Word
BY DEF Word

\* Halves of even and odd numbers.
LEMMA Halves ==
    ASSUME NEW n \in Nat
    PROVE  /\ (2 * n + 2) \div 2 = n + 1 /\ (2 * n + 1) \div 2 = n /\ (2 * n) \div 2 = n
           /\ n \div 2 \in Nat /\ 2 * (n \div 2) =< n
           /\ n = 2 * (n \div 2) \/ n = 2 * (n \div 2) + 1
OBVIOUS

\* The first n pairs of words make a sequence of pairs.
LEMMA PairUp ==
    ASSUME NEW words \in Seq(Word), NEW n \in Nat, 2 * n =< Len(words)
    PROVE  LET ps == [k \in 1 .. n |-> [key |-> words[2 * k - 1], val |-> words[2 * k]]]
           IN  ps \in Seq(Pair) /\ Len(ps) = n
<1>1. ASSUME NEW k \in 1 .. n PROVE [key |-> words[2 * k - 1], val |-> words[2 * k]] \in Pair
  <2>1. 2 * k - 1 \in 1 .. Len(words) /\ 2 * k \in 1 .. Len(words)
    OBVIOUS
  <2>2. words[2 * k - 1] \in Word /\ words[2 * k] \in Word
    BY <2>1
  <2> QED BY <2>2 DEF Pair
<1> QED BY <1>1

\* ProcessStartupPacket reads pairs up to the first empty name.
LEMMA PgPairsOf ==
    ASSUME NEW words \in Seq(Word)
    PROVE  \E n \in Nat :
              /\ IsPgPairs(words, n) /\ 2 * n =< Len(words)
              /\ \A k \in 1 .. n : words[2 * k - 1] # <<>>
              /\ n + 1 \in 1 .. Len(words) \div 2 => words[2 * n + 1] = <<>>
<1> DEFINE half == Len(words) \div 2
           stops == {k \in 1 .. half : words[2 * k - 1] = <<>>}
           n == IF stops = {} THEN half ELSE Min(stops) - 1
<1>1. half \in Nat /\ 2 * half =< Len(words) /\ Len(words) \in Nat
  BY Halves
<1> HIDE DEF half
<1>2. /\ n \in 0 .. half
      /\ \A k \in 1 .. n : words[2 * k - 1] # <<>>
      /\ n + 1 \in 1 .. half => words[2 * n + 1] = <<>>
  <2>1. CASE stops = {}
    <3>1. n = half
      BY <2>1
    <3>2. ASSUME NEW k \in 1 .. half PROVE words[2 * k - 1] # <<>>
      BY <2>1
    <3>3. n + 1 \notin 1 .. half
      BY <1>1, <3>1
    <3> HIDE DEF n
    <3> QED BY <1>1, <3>1, <3>2, <3>3
  <2>2. CASE stops # {}
    <3>1. stops \in SUBSET Nat
      BY <1>1
    <3>2. PICK j \in stops : j = Min(stops) /\ \A k \in stops : j =< k
      BY <2>2, <3>1, MinOf
    <3>3. n = j - 1 /\ j \in 1 .. half /\ words[2 * j - 1] = <<>>
      BY <2>2, <3>2
    <3>4. ASSUME NEW k \in 1 .. j - 1 PROVE words[2 * k - 1] # <<>>
      <4>1. k \in 1 .. half /\ ~(j =< k)
        BY <1>1, <3>3
      <4>2. k \notin stops
        BY <3>2, <4>1
      <4> QED BY <4>1, <4>2
    <3> HIDE DEF n, stops
    <3>5. n + 1 = j /\ 2 * n + 1 = 2 * j - 1 /\ n \in 0 .. half
      BY <1>1, <3>3
    <3> QED BY <3>3, <3>4, <3>5
  <2> QED BY <2>1, <2>2
<1>3. PgPairs(words) = [k \in 1 .. n |-> [key |-> words[2 * k - 1], val |-> words[2 * k]]]
  BY Zenon DEF PgPairs, half
<1> HIDE DEF n
<1>4. n \in Nat /\ 2 * n =< Len(words)
  BY <1>1, <1>2
<1>5. IsPgPairs(words, n)
  <2>1. PgPairs(words) \in Seq(Pair) /\ Len(PgPairs(words)) = n
    BY <1>3, <1>4, PairUp
  <2>2. \A k \in 1 .. n : PgPairs(words)[k] = [key |-> words[2 * k - 1], val |-> words[2 * k]]
    BY <1>3
  <2> QED BY <2>1, <2>2 DEF IsPgPairs
<1> QED BY <1>2, <1>4, <1>5 DEF half

\* PostgreSQL reads a terminated section to its end.
LEMMA TerminatedOK ==
    ASSUME NEW words \in Seq(Word), NEW n \in Nat, Terminated(words, n)
    PROVE  IsPgPairs(words, n) /\ PgLayoutOK(words)
<1>1. PICK m \in Nat :
         /\ IsPgPairs(words, m) /\ 2 * m =< Len(words)
         /\ \A k \in 1 .. m : words[2 * k - 1] # <<>>
         /\ m + 1 \in 1 .. Len(words) \div 2 => words[2 * m + 1] = <<>>
  BY PgPairsOf
<1>2. /\ Len(words) = 2 * n + 2 /\ Len(words) \div 2 = n + 1
      /\ \A k \in 1 .. n : words[2 * k - 1] # <<>>
      /\ words[2 * n + 1] = <<>> /\ words[2 * n + 2] = <<>>
  BY Halves DEF Terminated
<1>3. ~(m < n)
  <2>1. SUFFICES ASSUME m < n PROVE FALSE
    OBVIOUS
  <2>2. PICK j \in 1 .. n : j = m + 1 /\ 2 * j - 1 = 2 * m + 1 /\ j \in 1 .. n + 1
    BY <2>1
  <2>3. words[2 * m + 1] = <<>>
    BY <1>1, <1>2, <2>2
  <2>4. words[2 * j - 1] # <<>>
    BY <1>2
  <2> QED BY <2>2, <2>3, <2>4
<1>4. ~(m > n)
  <2>1. SUFFICES ASSUME m > n PROVE FALSE
    OBVIOUS
  <2>2. PICK j \in 1 .. m : j = n + 1 /\ 2 * j - 1 = 2 * n + 1
    BY <2>1
  <2>3. words[2 * j - 1] # <<>>
    BY <1>1
  <2> QED BY <1>2, <2>2, <2>3
<1>5. m = n
  BY <1>3, <1>4
<1>6. PgLayoutOK(words)
  <2>1. Len(PgPairs(words)) = n
    BY <1>1, <1>5 DEF IsPgPairs
  <2>2. PICK e \in Word : e = <<>>
    BY EmptyWord
  <2>3. PICK s : s = SubSeq(words, 2 * n + 1, 2 * n + 2)
    OBVIOUS
  <2>4. s \in Seq(Word) /\ Len(s) = 2 /\ \A k \in 1 .. 2 : s[k] = words[2 * n + k]
    <3>1. \A k \in 2 * n + 1 .. 2 * n + 2 : k \in 1 .. Len(words)
      BY <1>2
    <3> QED BY <2>3, <3>1, <1>2
  <2>5. s[1] = e /\ s[2] = e
    BY <1>2, <2>2, <2>4
  <2>6. PICK t \in Seq(Word) : t = <<e, e>> /\ Len(t) = 2 /\ t[1] = e /\ t[2] = e
    BY TwoElements
  <2>7. \A k \in 1 .. 2 : s[k] = t[k]
    BY <2>5, <2>6
  <2>8. s = t
    BY <2>4, <2>6, <2>7, SeqEqual
  <2> QED BY <1>2, <2>1, <2>2, <2>3, <2>6, <2>8 DEF PgLayoutOK
<1> QED BY <1>1, <1>5, <1>6

\* And what it takes is terminated.
LEMMA LayoutTerminated ==
    ASSUME NEW words \in Seq(Word), PgLayoutOK(words)
    PROVE  \E n \in Nat : Terminated(words, n) /\ IsPgPairs(words, n)
<1>1. PICK n \in Nat :
         /\ IsPgPairs(words, n) /\ 2 * n =< Len(words)
         /\ \A k \in 1 .. n : words[2 * k - 1] # <<>>
  BY PgPairsOf
<1>2. PICK l \in Nat : l = Len(words)
  OBVIOUS
<1>3. SubSeq(words, 2 * n + 1, l) = << <<>>, <<>> >>
  BY <1>1, <1>2 DEF PgLayoutOK, IsPgPairs
<1>4. PICK e \in Word : e = <<>>
  BY EmptyWord
<1>5. PICK t \in Seq(Word) : t = <<e, e>> /\ Len(t) = 2 /\ t[1] = e /\ t[2] = e
  BY TwoElements
<1>6. PICK s : s = SubSeq(words, 2 * n + 1, l) /\ s = t
  BY <1>3, <1>4, <1>5
<1>7. Len(s) = l - 2 * n /\ \A k \in 1 .. l - 2 * n : s[k] = words[2 * n + k]
  <2>1. \A k \in 2 * n + 1 .. l : words[k] \in Word
    BY <1>2
  <2>2. 2 * n =< l
    BY <1>1, <1>2
  <2> QED BY <1>2, <1>6, <2>1, <2>2, SubSeqProperties
<1>8. l = 2 * n + 2
  <2>1. l - 2 * n = 2
    BY <1>5, <1>6, <1>7, Zenon
  <2> QED BY <2>1
<1>9. words[2 * n + 1] = e /\ words[2 * n + 2] = e
  BY <1>5, <1>6, <1>7, <1>8
<1> QED BY <1>1, <1>2, <1>4, <1>8, <1>9 DEF Terminated

\* What is paired up of a message.
LEMMA PairsTyped ==
    ASSUME NEW words \in Seq(Word) \ {<<>>}
    PROVE  Pairs(words) \in Seq(Pair) /\ Len(Pairs(words)) \in Nat
<1>1. Parts(words) \in Seq(Word)
  <2>1. Len(words) \in Nat /\ words \in Seq(Word)
    OBVIOUS
  <2>2. SubSeq(words, 1, Len(words) - 1) \in Seq(Word)
    BY <2>1, SubSeqProperties
  <2> QED BY <2>2 DEF Parts, Front
<1>2. PICK parts \in Seq(Word) : parts = Parts(words)
  BY <1>1
<1>3. PICK n \in Nat : n = Len(parts) \div 2 /\ 2 * n =< Len(parts)
  BY Halves
<1>4. Pairs(words) = [i \in 1 .. n |-> [key |-> parts[2 * i - 1], val |-> parts[2 * i]]]
  BY <1>2, <1>3 DEF Pairs
<1> QED BY <1>3, <1>4, PairUp

\* A terminated section is paired as PostgreSQL pairs it, and no key is empty.
LEMMA TerminatedPairs ==
    ASSUME NEW words \in Seq(Word), NEW n \in Nat, Terminated(words, n)
    PROVE  /\ Pairs(words) = PgPairs(words) /\ Len(Pairs(words)) = n
           /\ \A k \in 1 .. n : ~Skipped(Pairs(words)[k])
<1>1. /\ Len(words) = 2 * n + 2
      /\ \A k \in 1 .. n : words[2 * k - 1] # <<>>
      /\ words[2 * n + 1] = <<>> /\ words[2 * n + 2] = <<>>
  BY DEF Terminated
<1>2. PICK l \in Nat : l = 2 * n + 1 /\ l + 1 = Len(words) /\ l =< Len(words)
  BY <1>1
<1>3. Parts(words) = SubSeq(words, 1, l)
  <2>1. Len(words) > 1 /\ Len(words) - 1 = l /\ words[Len(words)] = <<>>
    BY <1>1, <1>2
  <2> QED BY <2>1, Zenon DEF Parts, Front, Last
<1>4. PICK parts : parts = Parts(words)
  OBVIOUS
<1>5. parts \in Seq(Word) /\ Len(parts) = l /\ \A k \in 1 .. l : parts[k] = words[k]
  BY <1>2, <1>3, <1>4
<1>6. Len(parts) \div 2 = n
  BY <1>2, <1>5, Halves
<1>7. Pairs(words) = [k \in 1 .. n |-> [key |-> parts[2 * k - 1], val |-> parts[2 * k]]]
  BY <1>4, <1>6 DEF Pairs
<1>8. 2 * n =< Len(parts)
  BY <1>2, <1>5
<1>9. Pairs(words) \in Seq(Pair) /\ Len(Pairs(words)) = n
  BY <1>5, <1>7, <1>8, PairUp
<1>10. IsPgPairs(words, n)
  BY TerminatedOK
<1>11. ASSUME NEW k \in 1 .. n
       PROVE  /\ Pairs(words)[k] = [key |-> words[2 * k - 1], val |-> words[2 * k]]
              /\ ~Skipped(Pairs(words)[k])
  <2>1. 2 * k - 1 \in 1 .. l /\ 2 * k \in 1 .. l
    BY <1>2
  <2>2. parts[2 * k - 1] = words[2 * k - 1] /\ parts[2 * k] = words[2 * k]
    BY <1>5, <2>1
  <2>3. Pairs(words)[k] = [key |-> words[2 * k - 1], val |-> words[2 * k]]
    BY <1>7, <2>2
  <2> QED BY <1>1, <2>3 DEF Skipped
<1>12. Pairs(words) = PgPairs(words)
  <2>1. PgPairs(words) \in Seq(Pair) /\ Len(PgPairs(words)) = n
    BY <1>10 DEF IsPgPairs
  <2>2. \A k \in 1 .. n : Pairs(words)[k] = PgPairs(words)[k]
    BY <1>10, <1>11 DEF IsPgPairs
  <2> QED BY <1>9, <2>1, <2>2, SeqEqual
<1> QED BY <1>9, <1>11, <1>12

-----------------------------------------------------------------------------
(* The last value of a parameter.                                          *)

\* q is the last pair with this key, or there is none.
IsLast(pairs, key, q) ==
    /\ q \in 1 .. Len(pairs) /\ Lossy(pairs[q].key) = key
    /\ \A r \in 1 .. Len(pairs) : Lossy(pairs[r].key) = key => r =< q
None(pairs, key) == \A r \in 1 .. Len(pairs) : Lossy(pairs[r].key) # key

\* The value that extract_user_db's assignments leave is the last pair's.
LEMMA LastValueOf ==
    ASSUME NEW pairs \in Seq(Pair), NEW key, NEW q, IsLast(pairs, key, q)
    PROVE  LastValue(pairs, key) = pairs[q].val
<1> DEFINE found == {k \in DOMAIN pairs : Lossy(pairs[k].key) = key}
<1>1. DOMAIN pairs = 1 .. Len(pairs) /\ Len(pairs) \in Nat
  OBVIOUS
<1>2. q \in found /\ q \in Nat /\ \A r \in found : r =< q /\ r \in Nat
  BY <1>1 DEF IsLast
<1>3. found # {} /\ found \in SUBSET (0 .. Len(pairs))
  BY <1>1, <1>2
<1>4. Max(found) \in found /\ \A r \in found : r =< Max(found)
  BY <1>1, <1>3, MaxOf
<1>5. Max(found) = q
  <2> HIDE DEF found
  <2>1. PICK m : m = Max(found)
    OBVIOUS
  <2>2. m \in Nat /\ q \in Nat /\ m =< q /\ q =< m
    BY <1>2, <1>4, <2>1
  <2> QED BY <2>1, <2>2
<1> QED BY <1>3, <1>5, Zenon DEF LastValue

\* Without such a pair it stays empty.
LEMMA NoValue ==
    ASSUME NEW pairs \in Seq(Pair), NEW key, None(pairs, key)
    PROVE  LastValue(pairs, key) = <<>>
<1>1. {k \in DOMAIN pairs : Lossy(pairs[k].key) = key} = {}
  BY DEF None
<1> QED BY <1>1, Zenon DEF LastValue

\* There is a last such pair, or none.
LEMMA LastOrNone ==
    ASSUME NEW pairs \in Seq(Pair), NEW key
    PROVE  None(pairs, key) \/ \E q : IsLast(pairs, key, q)
<1> DEFINE found == {k \in 1 .. Len(pairs) : Lossy(pairs[k].key) = key}
<1>1. SUFFICES ASSUME ~None(pairs, key) PROVE \E q : IsLast(pairs, key, q)
  OBVIOUS
<1>2. found # {} /\ found \in SUBSET (0 .. Len(pairs)) /\ Len(pairs) \in Nat
  BY <1>1 DEF None
<1>3. Max(found) \in found /\ \A r \in found : r =< Max(found)
  BY <1>2, MaxOf
<1>4. IsLast(pairs, key, Max(found))
  BY <1>3 DEF IsLast
<1> QED BY <1>4

(***************************************************************************)
(* A sequence of pairs that holds, at places g in their order, every pair  *)
(* of another with this key, has its last value where the other has.       *)
(***************************************************************************)
Follows(Q, P, g, m, key) ==
    /\ m =< Len(Q) /\ g \in [1 .. m -> 1 .. Len(P)]
    /\ \A j \in 1 .. m : Q[j].key = P[g[j]].key
    /\ \A i \in 1 .. m, j \in 1 .. m : i < j => g[i] < g[j]
    /\ \A q \in 1 .. Len(P) : Lossy(P[q].key) = key => \E j \in 1 .. m : g[j] = q
    /\ \A j \in m + 1 .. Len(Q) : Lossy(Q[j].key) # key

\* The last pair of the one is the last pair of the other.
LEMMA LastFollows ==
    ASSUME NEW P \in Seq(Pair), NEW Q \in Seq(Pair), NEW m \in Nat, NEW g, NEW key,
           Follows(Q, P, g, m, key)
    PROVE  \/ None(P, key) /\ None(Q, key)
           \/ \E j \in 1 .. m : IsLast(P, key, g[j]) /\ IsLast(Q, key, j)
<1>1. /\ m =< Len(Q) /\ g \in [1 .. m -> 1 .. Len(P)] /\ Len(Q) \in Nat /\ Len(P) \in Nat
      /\ \A j \in 1 .. m : Q[j].key = P[g[j]].key
      /\ \A i \in 1 .. m, j \in 1 .. m : i < j => g[i] < g[j]
      /\ \A q \in 1 .. Len(P) : Lossy(P[q].key) = key => \E j \in 1 .. m : g[j] = q
      /\ \A j \in m + 1 .. Len(Q) : Lossy(Q[j].key) # key
  BY DEF Follows
<1>2. ASSUME NEW r \in 1 .. Len(Q), Lossy(Q[r].key) = key
      PROVE  r \in 1 .. m /\ g[r] \in 1 .. Len(P) /\ Lossy(P[g[r]].key) = key
  <2>1. r \in 1 .. m
    BY <1>1, <1>2
  <2> QED BY <1>1, <1>2, <2>1
<1>3. CASE None(P, key)
  BY <1>2, <1>3 DEF None
<1>4. CASE \E q : IsLast(P, key, q)
  <2>1. PICK q : IsLast(P, key, q)
    BY <1>4
  <2>2. q \in 1 .. Len(P) /\ Lossy(P[q].key) = key
    BY <2>1 DEF IsLast
  <2>3. PICK j \in 1 .. m : g[j] = q
    BY <1>1, <2>2
  <2>4. j \in 1 .. Len(Q) /\ Lossy(Q[j].key) = key
    BY <1>1, <2>2, <2>3
  <2>5. ASSUME NEW r \in 1 .. Len(Q), Lossy(Q[r].key) = key PROVE r =< j
    <3>1. r \in 1 .. m /\ g[r] \in 1 .. Len(P) /\ Lossy(P[g[r]].key) = key
      BY <1>2, <2>5
    <3>2. g[r] =< q
      BY <2>1, <3>1 DEF IsLast
    <3>3. ~(j < r)
      <4>1. SUFFICES ASSUME j < r PROVE FALSE
        OBVIOUS
      <4>2. PICK a \in Nat : a = g[r]
        BY <3>1
      <4>3. q < a /\ a =< q /\ q \in Nat
        BY <1>1, <2>2, <2>3, <3>1, <3>2, <4>1, <4>2
      <4> QED BY <4>3
    <3> QED BY <3>3
  <2> QED BY <2>1, <2>3, <2>4, <2>5 DEF IsLast
<1> QED BY <1>3, <1>4, LastOrNone

-----------------------------------------------------------------------------
(* The loop over the pairs.                                                *)

\* t is new with the words a and b behind it.
Adds(t, new, a, b) ==
    /\ Len(t) = Len(new) + 2
    /\ \A k \in 1 .. Len(new) : t[k] = new[k]
    /\ t[Len(new) + 1] = a
    /\ t[Len(new) + 2] = b

\* Appending two words.
LEMMA TwoMore ==
    ASSUME NEW S, NEW s \in Seq(S), NEW a \in S, NEW b \in S
    PROVE  s \o <<a, b>> \in Seq(S) /\ Adds(s \o <<a, b>>, s, a, b)
<1>1. <<a, b>> \in Seq(S) /\ Len(<<a, b>>) = 2 /\ <<a, b>>[1] = a /\ <<a, b>>[2] = b
  BY TwoElements
<1>2. PICK t \in Seq(S) : t = <<a, b>>
  BY <1>1, Zenon
<1>3. Len(t) = 2 /\ t[1] = a /\ t[2] = b
  BY <1>1, <1>2, Zenon
<1>4. PICK n \in Nat : n = Len(s)
  OBVIOUS
<1>5. PICK r \in Seq(S) : r = s \o t
  BY ConcatProperties
<1>6. Len(r) = n + Len(t) /\ \A k \in 1 .. n + Len(t) : r[k] = IF k =< n THEN s[k] ELSE t[k - n]
  BY <1>4, <1>5, ConcatProperties
<1>7. /\ n + Len(t) = n + 2 /\ n + 1 - n = 1 /\ n + 2 - n = 2
      /\ n + 1 \in 1 .. n + 2 /\ n + 2 \in 1 .. n + 2 /\ ~(n + 1 =< n) /\ ~(n + 2 =< n)
      /\ \A k \in 1 .. n : k \in 1 .. n + 2 /\ k =< n
  BY <1>3
<1>8. \A k \in 1 .. n + 2 : r[k] = IF k =< n THEN s[k] ELSE t[k - n]
  BY <1>6, <1>7
<1>9. Len(r) = n + 2 /\ r[n + 1] = a /\ r[n + 2] = b /\ \A k \in 1 .. n : r[k] = s[k]
  BY <1>3, <1>6, <1>7, <1>8
<1>10. Adds(r, s, a, b)
  BY <1>4, <1>9 DEF Adds
<1> QED BY <1>2, <1>5, <1>10

\* The hypothesis on an address: a header's field that parses.
Fitting(text) == text \in Seq(Printable) /\ Len(Suffix(text)) < NameLimit

\* A pair as it is passed on.
LEMMA RewrittenTyped ==
    ASSUME NEW p \in Pair, NEW text, Fitting(text)
    PROVE  p.key \in Word /\ p.val \in Word /\ RewrittenValue(p, text) \in Word
<1>1. p.key \in Word /\ p.val \in Word
  BY DEF Pair
<1>2. Lossy(p.val) \in Word
  BY <1>1, LossyWord
<1>3. FormatApplicationName(Lossy(p.val), text) \in Word
  BY <1>2, FormattedStored DEF Fitting
<1> QED BY <1>1, <1>3 DEF RewrittenValue

\* One turn of the loop.
Turn(new, p, text) == IF Skipped(p) THEN new ELSE new \o <<p.key, RewrittenValue(p, text)>>

\* A turn appends the key and the value, or nothing if the key is empty.
LEMMA TurnTyped ==
    ASSUME NEW p \in Pair, NEW text, Fitting(text), NEW new \in Seq(Word)
    PROVE  /\ Turn(new, p, text) \in Seq(Word)
           /\ Skipped(p) => Turn(new, p, text) = new
           /\ ~Skipped(p) => Adds(Turn(new, p, text), new, p.key, RewrittenValue(p, text))
<1>1. PICK a \in Word, b \in Word : a = p.key /\ b = RewrittenValue(p, text)
  BY RewrittenTyped
<1>2. new \o <<a, b>> \in Seq(Word) /\ Adds(new \o <<a, b>>, new, a, b)
  BY TwoMore
<1>3. Turn(new, p, text) = IF Skipped(p) THEN new ELSE new \o <<a, b>>
  BY <1>1, Zenon DEF Turn
<1>4. CASE Skipped(p)
  BY <1>3, <1>4
<1>5. CASE ~Skipped(p)
  <2>1. Turn(new, p, text) = new \o <<a, b>>
    BY <1>3, <1>5
  <2> QED BY <1>1, <1>2, <1>5, <2>1, Zenon
<1> QED BY <1>4, <1>5

\* The loop's values.
LEMMA PayloadIs ==
    ASSUME NEW pairs \in Seq(Pair), NEW text, Fitting(text)
    PROVE  /\ \A k \in 0 .. Len(pairs) : NewPayload(pairs, text)[k] \in Seq(Word)
           /\ NewPayload(pairs, text)[0] = <<>>
           /\ \A k \in 1 .. Len(pairs) :
                 NewPayload(pairs, text)[k] = Turn(NewPayload(pairs, text)[k - 1], pairs[k], text)
<1> DEFINE N == Len(pairs)
           E(f) == [k \in 0 .. N |-> IF k = 0 THEN <<>> ELSE Turn(f[k - 1], pairs[k], text)]
           S == Seq(Word)
           step == [k \in 1 .. N |-> [x \in S |-> Turn(x, pairs[k], text)]]
<1>1. N \in Nat /\ \A k \in 1 .. N : pairs[k] \in Pair
  OBVIOUS
<1>2. NewPayload(pairs, text) = CHOOSE f : f = E(f)
  BY DEF NewPayload, Turn
<1>3. N = Len(pairs)
  OBVIOUS
<1> HIDE DEF N
<1>4. \A k \in 1 .. N, x \in S : Turn(x, pairs[k], text) \in S
  BY <1>1, TurnTyped
<1>5. <<>> \in S
  OBVIOUS
<1>6. S = Seq(Word)
  OBVIOUS
<1> HIDE DEF S
<1>7. step \in [1 .. N -> [S -> S]]
  BY <1>4
<1>8. \A k \in 1 .. N, x \in S : step[k][x] = Turn(x, pairs[k], text)
  OBVIOUS
<1> HIDE DEF step
<1>9. PICK f : Run(f, N, S, <<>>, step)
  BY <1>1, <1>5, <1>7, Recursion
<1>10. ASSUME NEW k \in 0 .. N PROVE f[k] = E(f)[k]
  <2>1. CASE k = 0
    BY <2>1, <1>9 DEF Run
  <2>2. CASE k # 0
    <3>1. k \in 1 .. N /\ k - 1 \in 0 .. N
      BY <2>2, <1>1
    <3>2. f[k - 1] \in S
      BY <3>1, <1>9 DEF Run
    <3>3. f[k] = Turn(f[k - 1], pairs[k], text)
      BY <3>1, <3>2, <1>8, <1>9 DEF Run
    <3> QED BY <2>2, <3>3
  <2> QED BY <2>1, <2>2
<1>11. f = E(f)
  <2>1. f = [k \in 0 .. N |-> f[k]]
    BY <1>9 DEF Run
  <2> QED BY <2>1, <1>10
<1>12. PICK g : g = NewPayload(pairs, text) /\ g = E(g)
  <2> HIDE DEF E
  <2> QED BY <1>2, <1>11
<1>13. g[0] = <<>>
  BY <1>1, <1>12
<1>14. ASSUME NEW k \in 1 .. N PROVE g[k] = Turn(g[k - 1], pairs[k], text)
  <2>1. k \in 0 .. N /\ k # 0
    BY <1>1
  <2> QED BY <1>12, <2>1
<1> DEFINE T == {k \in 0 .. N : g[k] \in S}
<1>15. 0 \in T
  BY <1>1, <1>5, <1>13
<1>16. ASSUME NEW k \in 0 .. N - 1, k \in T PROVE k + 1 \in T
  <2>1. PICK j \in 1 .. N : j = k + 1 /\ j - 1 = k /\ j \in 0 .. N
    BY <1>1
  <2>2. g[j] = Turn(g[k], pairs[j], text) /\ g[k] \in S
    BY <1>14, <1>16, <2>1
  <2> QED BY <1>4, <2>1, <2>2
<1> HIDE DEF T
<1>17. 0 .. N \subseteq T
  BY <1>1, <1>15, <1>16, InductionUpTo
<1>18. \A k \in 0 .. N : g[k] \in S
  BY <1>17 DEF T
<1> QED BY <1>3, <1>6, <1>12, <1>13, <1>14, <1>18

(***************************************************************************)
(* After k turns new_payload holds, in their order, the m pairs of the     *)
(* first k whose key is not empty; all of them if none is.                 *)
(***************************************************************************)
Enumerates(new, pairs, text, k, m, g) ==
    /\ m \in Nat /\ m =< k /\ g \in [1 .. m -> 1 .. k]
    /\ Len(new) = 2 * m
    /\ \A j \in 1 .. m :
          /\ ~Skipped(pairs[g[j]])
          /\ new[2 * j - 1] = pairs[g[j]].key
          /\ new[2 * j] = RewrittenValue(pairs[g[j]], text)
    /\ \A i \in 1 .. m, j \in 1 .. m : i < j => g[i] < g[j]
    /\ \A q \in 1 .. k : ~Skipped(pairs[q]) => \E j \in 1 .. m : g[j] = q
    /\ (\A q \in 1 .. k : ~Skipped(pairs[q])) => m = k /\ \A j \in 1 .. m : g[j] = j

\* One turn keeps the enumeration, with the pair it passes on at its end.
LEMMA EnumerateOne ==
    ASSUME NEW pairs \in Seq(Pair), NEW text, Fitting(text), NEW k \in 0 .. Len(pairs) - 1,
           NEW new \in Seq(Word), NEW m, NEW g, Enumerates(new, pairs, text, k, m, g)
    PROVE  \E n, h : Enumerates(Turn(new, pairs[k + 1], text), pairs, text, k + 1, n, h)
<1>1. PICK p \in Pair : p = pairs[k + 1]
  <2>1. k + 1 \in 1 .. Len(pairs)
    OBVIOUS
  <2> QED BY <2>1
<1>2. /\ m \in Nat /\ m =< k /\ g \in [1 .. m -> 1 .. k]
      /\ Len(new) = 2 * m
      /\ \A j \in 1 .. m :
            /\ ~Skipped(pairs[g[j]])
            /\ new[2 * j - 1] = pairs[g[j]].key
            /\ new[2 * j] = RewrittenValue(pairs[g[j]], text)
      /\ \A i \in 1 .. m, j \in 1 .. m : i < j => g[i] < g[j]
      /\ \A q \in 1 .. k : ~Skipped(pairs[q]) => \E j \in 1 .. m : g[j] = q
      /\ (\A q \in 1 .. k : ~Skipped(pairs[q])) => m = k /\ \A j \in 1 .. m : g[j] = j
  BY DEF Enumerates
<1>3. k \in Nat /\ \A q \in 1 .. k + 1 : q = k + 1 \/ q \in 1 .. k
  OBVIOUS
<1>4. CASE Skipped(p)
  <2>1. Turn(new, p, text) = new
    BY <1>4, TurnTyped
  <2>2. g \in [1 .. m -> 1 .. k + 1] /\ m =< k + 1
    BY <1>2, <1>3
  <2>3. \A q \in 1 .. k + 1 : ~Skipped(pairs[q]) => \E j \in 1 .. m : g[j] = q
    BY <1>1, <1>2, <1>3, <1>4
  <2>4. k + 1 \in 1 .. k + 1 /\ Skipped(pairs[k + 1])
    BY <1>1, <1>3, <1>4
  <2>5. Enumerates(new, pairs, text, k + 1, m, g)
    BY <1>2, <2>2, <2>3, <2>4, Zenon DEF Enumerates
  <2> QED BY <1>1, <2>1, <2>5
<1>5. CASE ~Skipped(p)
  <2>1. PICK t \in Seq(Word) : t = Turn(new, p, text)
    BY TurnTyped
  <2>2. /\ Len(t) = 2 * m + 2
        /\ \A j \in 1 .. 2 * m : t[j] = new[j]
        /\ t[2 * m + 1] = p.key /\ t[2 * m + 2] = RewrittenValue(p, text)
    <3>1. Adds(t, new, p.key, RewrittenValue(p, text))
      BY <1>5, <2>1, TurnTyped
    <3> QED BY <1>2, <3>1, Zenon DEF Adds
  <2>3. PICK h : h = [j \in 1 .. m + 1 |-> IF j =< m THEN g[j] ELSE k + 1]
    OBVIOUS
  <2>4. /\ h \in [1 .. m + 1 -> 1 .. k + 1]
        /\ \A j \in 1 .. m : h[j] = g[j] /\ g[j] \in 1 .. k
        /\ h[m + 1] = k + 1
    <3>1. PICK n \in Nat : n = m
      BY <1>2
    <3>2. ASSUME NEW j \in 1 .. n + 1
          PROVE  /\ h[j] = IF j =< n THEN g[j] ELSE k + 1
                 /\ h[j] \in 1 .. k + 1
                 /\ j =< n => j \in 1 .. n /\ g[j] \in 1 .. k
      <4>1. h[j] = IF j =< n THEN g[j] ELSE k + 1
        BY <2>3, <3>1
      <4>2. CASE j =< n
        <5>1. j \in 1 .. n
          BY <4>2
        <5>2. PICK a \in 1 .. k : a = g[j]
          BY <1>2, <3>1, <5>1
        <5>3. a \in 1 .. k + 1
          BY <1>3
        <5> QED BY <4>1, <4>2, <5>1, <5>2, <5>3
      <4>3. CASE ~(j =< n)
        <5>1. k + 1 \in 1 .. k + 1
          BY <1>3
        <5> QED BY <4>1, <4>3, <5>1
      <4> QED BY <4>2, <4>3
    <3>3. h \in [1 .. n + 1 -> 1 .. k + 1]
      BY <2>3, <3>1, <3>2
    <3>4. ASSUME NEW j \in 1 .. n PROVE h[j] = g[j] /\ g[j] \in 1 .. k
      <4>1. j \in 1 .. n + 1 /\ j =< n
        OBVIOUS
      <4> QED BY <3>2, <4>1
    <3>5. h[n + 1] = k + 1
      <4>1. n + 1 \in 1 .. n + 1 /\ ~(n + 1 =< n)
        OBVIOUS
      <4> QED BY <3>2, <4>1
    <3> QED BY <3>1, <3>3, <3>4, <3>5
  <2>5. \A j \in 1 .. m + 1 : j = m + 1 \/ j \in 1 .. m
    BY <1>2
  <2>6. ASSUME NEW j \in 1 .. m + 1
        PROVE  /\ ~Skipped(pairs[h[j]])
               /\ t[2 * j - 1] = pairs[h[j]].key
               /\ t[2 * j] = RewrittenValue(pairs[h[j]], text)
    <3>1. CASE j \in 1 .. m
      <4>1. 2 * j - 1 \in 1 .. 2 * m /\ 2 * j \in 1 .. 2 * m
        BY <1>2, <3>1
      <4>2. t[2 * j - 1] = new[2 * j - 1] /\ t[2 * j] = new[2 * j]
        BY <2>2, <4>1
      <4> QED BY <1>2, <2>4, <3>1, <4>2
    <3>2. CASE j = m + 1
      <4>1. 2 * j - 1 = 2 * m + 1 /\ 2 * j = 2 * m + 2 /\ h[j] = k + 1
        BY <1>2, <2>4, <3>2
      <4> QED BY <1>1, <1>5, <2>2, <4>1
    <3> QED BY <2>5, <3>1, <3>2
  <2>7. ASSUME NEW i \in 1 .. m + 1, NEW j \in 1 .. m + 1, i < j PROVE h[i] < h[j]
    <3>1. i \in 1 .. m
      BY <1>2, <2>7
    <3>2. CASE j \in 1 .. m
      BY <1>2, <2>4, <2>7, <3>1, <3>2
    <3>3. CASE j = m + 1
      <4>1. PICK a \in 1 .. k : a = h[i]
        BY <2>4, <3>1
      <4>2. a < k + 1
        BY <1>3
      <4> QED BY <2>4, <3>3, <4>1, <4>2
    <3> QED BY <2>5, <3>2, <3>3
  <2>8. ASSUME NEW q \in 1 .. k + 1, ~Skipped(pairs[q]) PROVE \E j \in 1 .. m + 1 : h[j] = q
    <3>1. m + 1 \in 1 .. m + 1 /\ \A j \in 1 .. m : j \in 1 .. m + 1
      BY <1>2
    <3>2. CASE q = k + 1
      BY <2>4, <3>1, <3>2
    <3>3. CASE q \in 1 .. k
      <4>1. PICK j \in 1 .. m : g[j] = q
        BY <1>2, <2>8, <3>3
      <4> QED BY <2>4, <3>1, <4>1
    <3> QED BY <1>3, <3>2, <3>3
  <2>9. ASSUME \A q \in 1 .. k + 1 : ~Skipped(pairs[q])
        PROVE  m + 1 = k + 1 /\ \A j \in 1 .. m + 1 : h[j] = j
    <3>1. \A q \in 1 .. k : q \in 1 .. k + 1
      BY <1>3
    <3>2. m = k /\ \A j \in 1 .. m : g[j] = j
      BY <1>2, <2>9, <3>1
    <3> QED BY <2>4, <2>5, <3>2
  <2>10. m + 1 \in Nat /\ m + 1 =< k + 1 /\ Len(t) = 2 * (m + 1)
    BY <1>2, <1>3, <2>2
  <2>11. Enumerates(t, pairs, text, k + 1, m + 1, h)
    BY <2>4, <2>6, <2>7, <2>8, <2>9, <2>10 DEF Enumerates
  <2> QED BY <1>1, <2>1, <2>11
<1> QED BY <1>4, <1>5

\* Hence so does the loop.
LEMMA PayloadEnumerates ==
    ASSUME NEW pairs \in Seq(Pair), NEW text, Fitting(text)
    PROVE  \E m, g : Enumerates(NewPayload(pairs, text)[Len(pairs)], pairs, text, Len(pairs), m, g)
<1> DEFINE N == Len(pairs)
           new == NewPayload(pairs, text)
           T == {k \in 0 .. N : \E m, g : Enumerates(new[k], pairs, text, k, m, g)}
<1>1. /\ N \in Nat
      /\ \A k \in 0 .. N : new[k] \in Seq(Word)
      /\ new[0] = <<>>
      /\ \A k \in 1 .. N : new[k] = Turn(new[k - 1], pairs[k], text)
  BY PayloadIs
<1> HIDE DEF new
<1>2. 0 \in T
  <2>1. PICK e : e = new[0] /\ Len(e) = 0
    BY <1>1
  <2>2. PICK g : g = [j \in 1 .. 0 |-> 0]
    OBVIOUS
  <2>3. g \in [1 .. 0 -> 1 .. 0]
    BY <2>2
  <2>4. Enumerates(e, pairs, text, 0, 0, g)
    BY <2>1, <2>3 DEF Enumerates
  <2> QED BY <1>1, <2>1, <2>4
<1>3. ASSUME NEW k \in 0 .. N - 1, k \in T PROVE k + 1 \in T
  <2>1. PICK m, g : Enumerates(new[k], pairs, text, k, m, g)
    BY <1>3
  <2>2. PICK j \in 1 .. N : j = k + 1 /\ j - 1 = k /\ j \in 0 .. N /\ k \in 0 .. N
    BY <1>1
  <2>3. new[j] = Turn(new[k], pairs[j], text) /\ new[k] \in Seq(Word)
    BY <1>1, <2>2
  <2>4. \E n, h : Enumerates(Turn(new[k], pairs[k + 1], text), pairs, text, k + 1, n, h)
    BY <2>1, <2>3, EnumerateOne
  <2>5. \E n, h : Enumerates(new[j], pairs, text, j, n, h)
    BY <2>2, <2>3, <2>4
  <2> QED BY <2>2, <2>5
<1> HIDE DEF T
<1>4. N \in T
  <2>1. 0 .. N \subseteq T
    BY <1>1, <1>2, <1>3, InductionUpTo
  <2> QED BY <1>1, <2>1
<1> QED BY <1>4 DEF T, new

-----------------------------------------------------------------------------
(* The names that matter.                                                  *)

\* The names of the three parameters are words, not empty and distinct.
LEMMA Names ==
    /\ ApplicationName \in Word /\ Len(ApplicationName) = 1
    /\ ApplicationName # <<>> /\ User # <<>> /\ Database # <<>>
    /\ User # ApplicationName /\ Database # ApplicationName
<1>1. "n" \in Chars
  BY DEF Chars, Printable
<1>2. ApplicationName \in Word /\ Len(ApplicationName) = 1
  BY <1>1, OneElement DEF Word, ApplicationName
<1> QED BY <1>2 DEF ApplicationName, User, Database

\* No name is compared equal to an empty key, and application_name only to itself.
LEMMA Compared ==
    ASSUME NEW w \in Word
    PROVE  /\ Lossy(w) # <<>> => w # <<>>
           /\ Lossy(w) = ApplicationName <=> w = ApplicationName
<1>1. /\ Lossy(w) \in Word /\ Len(Lossy(w)) = Len(w)
      /\ \A k \in 1 .. Len(w) : Lossy(w)[k] = IF w[k] = "invalid" THEN "replacement" ELSE w[k]
      /\ Lossy(w) = <<>> <=> w = <<>>
  BY LossyWord
<1>2. ApplicationName[1] = "n" /\ ApplicationName \in Word /\ Len(ApplicationName) = 1
  BY Names DEF ApplicationName
<1>3. ASSUME Lossy(w) = ApplicationName PROVE w = ApplicationName
  <2>1. Len(w) = 1 /\ 1 \in 1 .. Len(w)
    <3>1. Len(w) = 1
      BY <1>1, <1>2, <1>3, Zenon
    <3> QED BY <3>1
  <2>2. w[1] = "n"
    BY <1>1, <1>2, <1>3, <2>1
  <2>3. \A k \in 1 .. Len(w) : w[k] = ApplicationName[k]
    BY <1>2, <2>1, <2>2
  <2> QED BY <1>2, <2>1, <2>3, SeqEqual DEF Word
<1>4. ASSUME w = ApplicationName PROVE Lossy(w) = ApplicationName
  <2>1. Len(w) = 1 /\ 1 \in 1 .. Len(w) /\ w[1] = "n"
    BY <1>2, <1>4
  <2>2. Lossy(w)[1] = "n"
    BY <1>1, <2>1
  <2>3. \A k \in 1 .. Len(w) : Lossy(w)[k] = ApplicationName[k]
    BY <1>2, <2>1, <2>2
  <2> QED BY <1>1, <1>2, <2>1, <2>3, SeqEqual DEF Word
<1> QED BY <1>1, <1>3, <1>4

-----------------------------------------------------------------------------
(* The rewritten message.                                                  *)

\* out begins with the words of new.
Begins(out, new) == \A k \in 1 .. Len(new) : out[k] = new[k]

(***************************************************************************)
(* out is a section of n pairs: the m of them that g enumerates, their     *)
(* values rewritten, and application_name behind them if it was not there. *)
(***************************************************************************)
Rewrites(out, pairs, text, m, g, n) ==
    /\ n \in Nat /\ out \in Seq(Word) /\ Terminated(out, n)
    /\ \E new : Enumerates(new, pairs, text, Len(pairs), m, g) /\ Begins(out, new)
    /\ FoundAppName(pairs) => n = m
    /\ ~FoundAppName(pairs) =>
          /\ n = m + 1 /\ out[2 * m + 1] = ApplicationName
          /\ out[2 * m + 2] = TrimStart(FormatApplicationName(<<>>, text))

\* Two empty words behind named pairs terminate them.
LEMMA Terminates ==
    ASSUME NEW s \in Seq(Word), NEW n \in Nat, Len(s) = 2 * n,
           \A k \in 1 .. n : s[2 * k - 1] # <<>>
    PROVE  s \o << <<>>, <<>> >> \in Seq(Word) /\ Terminated(s \o << <<>>, <<>> >>, n)
           /\ Begins(s \o << <<>>, <<>> >>, s)
<1>1. PICK e \in Word : e = <<>>
  BY EmptyWord
<1>2. s \o <<e, e>> \in Seq(Word) /\ Adds(s \o <<e, e>>, s, e, e)
  BY TwoMore
<1>3. PICK t \in Seq(Word) : t = s \o <<e, e>> /\ Adds(t, s, e, e)
  BY <1>2, Zenon
<1>4. /\ Len(t) = 2 * n + 2 /\ t[2 * n + 1] = e /\ t[2 * n + 2] = e
      /\ \A k \in 1 .. 2 * n : t[k] = s[k]
  BY <1>3, Zenon DEF Adds
<1>5. ASSUME NEW k \in 1 .. n PROVE t[2 * k - 1] # <<>>
  <2>1. 2 * k - 1 \in 1 .. 2 * n
    OBVIOUS
  <2> QED BY <1>4, <2>1
<1>6. Terminated(t, n)
  BY <1>1, <1>4, <1>5, Zenon DEF Terminated
<1>7. Begins(t, s)
  BY <1>4, Zenon DEF Begins
<1> QED BY <1>1, <1>3, <1>6, <1>7, Zenon

(***************************************************************************)
(* inject_ip_startup, for every message and every address.                 *)
(***************************************************************************)
LEMMA InjectRewrites ==
    ASSUME NEW words \in Seq(Word) \ {<<>>}, NEW text, Fitting(text)
    PROVE  \E m, g, n : Rewrites(InjectIpStartup(words, text), Pairs(words), text, m, g, n)
<1>1. PICK pairs \in Seq(Pair) : pairs = Pairs(words)
  BY PairsTyped
<1>2. PICK new \in Seq(Word) : new = NewPayload(pairs, text)[Len(pairs)]
  <2>1. Len(pairs) \in 0 .. Len(pairs)
    OBVIOUS
  <2> QED BY <2>1, PayloadIs
<1>3. PICK m, g : Enumerates(new, pairs, text, Len(pairs), m, g)
  BY <1>2, PayloadEnumerates
<1>4. m \in Nat /\ Len(new) = 2 * m
  BY <1>3, Zenon DEF Enumerates
<1>5. ASSUME NEW k \in 1 .. m PROVE new[2 * k - 1] # <<>>
  BY <1>3 DEF Enumerates, Skipped
<1>6. PICK v \in Word : v = TrimStart(FormatApplicationName(<<>>, text))
  BY TrimmedStored DEF Fitting
<1>7. PICK app \in Word : app = ApplicationName /\ app # <<>>
  BY Names
<1>8. InjectIpStartup(words, text) =
        new \o (IF FoundAppName(pairs) THEN <<>> ELSE <<app, v>>) \o << <<>>, <<>> >>
  BY <1>1, <1>2, <1>6, <1>7, Zenon DEF InjectIpStartup
<1>9. CASE FoundAppName(pairs)
  <2>1. new \o <<>> = new
    OBVIOUS
  <2>2. InjectIpStartup(words, text) = new \o << <<>>, <<>> >>
    BY <1>8, <1>9, <2>1, Zenon
  <2>3. PICK out \in Seq(Word) : /\ out = InjectIpStartup(words, text)
                                 /\ Terminated(out, m) /\ Begins(out, new)
    BY <1>4, <1>5, <2>2, Terminates
  <2>4. Rewrites(out, pairs, text, m, g, m)
    BY <1>3, <1>4, <1>9, <2>3, Zenon DEF Rewrites
  <2> QED BY <1>1, <2>3, <2>4, Zenon
<1>10. CASE ~FoundAppName(pairs)
  <2>1. new \o <<app, v>> \in Seq(Word) /\ Adds(new \o <<app, v>>, new, app, v)
    BY TwoMore
  <2>2. PICK t \in Seq(Word) : t = new \o <<app, v>> /\ Adds(t, new, app, v)
    BY <2>1, Zenon
  <2>3. /\ Len(t) = 2 * m + 2 /\ t[2 * m + 1] = app /\ t[2 * m + 2] = v
        /\ \A k \in 1 .. 2 * m : t[k] = new[k]
    BY <1>4, <2>2, Zenon DEF Adds
  <2>4. PICK n \in Nat : n = m + 1 /\ 2 * n = 2 * m + 2 /\ Len(t) = 2 * n
    BY <1>4, <2>3
  <2>5. ASSUME NEW k \in 1 .. n PROVE t[2 * k - 1] # <<>>
    <3>1. CASE k = n
      <4>1. 2 * k - 1 = 2 * m + 1
        BY <1>4, <2>4, <3>1
      <4> QED BY <1>7, <2>3, <4>1
    <3>2. CASE k # n
      <4>1. k \in 1 .. m /\ 2 * k - 1 \in 1 .. 2 * m
        BY <1>4, <2>4, <3>2
      <4> QED BY <1>5, <2>3, <4>1
    <3> QED BY <3>1, <3>2
  <2>6. InjectIpStartup(words, text) = t \o << <<>>, <<>> >>
    BY <1>8, <1>10, <2>2, Zenon
  <2>7. PICK out \in Seq(Word) : /\ out = InjectIpStartup(words, text)
                                 /\ Terminated(out, n) /\ Begins(out, t)
    BY <2>4, <2>5, <2>6, Terminates
  <2>8. Begins(out, new)
    <3>1. ASSUME NEW k \in 1 .. 2 * m PROVE out[k] = new[k]
      <4>1. k \in 1 .. Len(t)
        BY <1>4, <2>3
      <4> QED BY <2>3, <2>7, <4>1 DEF Begins
    <3> QED BY <1>4, <3>1 DEF Begins
  <2>9. out[2 * m + 1] = app /\ out[2 * m + 2] = v
    <3>1. 2 * m + 1 \in 1 .. Len(t) /\ 2 * m + 2 \in 1 .. Len(t)
      BY <1>4, <2>3
    <3> QED BY <2>3, <2>7, <3>1 DEF Begins
  <2>10. Rewrites(out, pairs, text, m, g, n)
    BY <1>3, <1>6, <1>7, <1>10, <2>4, <2>7, <2>8, <2>9, Zenon DEF Rewrites
  <2> QED BY <1>1, <2>7, <2>10, Zenon
<1> QED BY <1>9, <1>10

(***************************************************************************)
(* Q, the pairs PostgreSQL reads of the result.                            *)
(***************************************************************************)
Reads(Q, pairs, text, m, g, n) ==
    /\ Q \in Seq(Pair) /\ Len(Q) = n /\ m \in Nat /\ n \in Nat /\ m =< n
    /\ g \in [1 .. m -> 1 .. Len(pairs)]
    /\ \A j \in 1 .. m :
          Q[j].key = pairs[g[j]].key /\ Q[j].val = RewrittenValue(pairs[g[j]], text)
    /\ \A i \in 1 .. m, j \in 1 .. m : i < j => g[i] < g[j]
    /\ \A q \in 1 .. Len(pairs) : ~Skipped(pairs[q]) => \E j \in 1 .. m : g[j] = q
    /\ (\A q \in 1 .. Len(pairs) : ~Skipped(pairs[q])) =>
          m = Len(pairs) /\ \A j \in 1 .. m : g[j] = j
    /\ FoundAppName(pairs) => n = m
    /\ ~FoundAppName(pairs) =>
          /\ n = m + 1 /\ Q[n].key = ApplicationName
          /\ Q[n].val = TrimStart(FormatApplicationName(<<>>, text))

\* PostgreSQL reads the rewritten message to its end, as these pairs.
LEMMA RewrittenRead ==
    ASSUME NEW out, NEW pairs \in Seq(Pair), NEW text, NEW m, NEW g, NEW n,
           Rewrites(out, pairs, text, m, g, n)
    PROVE  PgLayoutOK(out) /\ Reads(PgPairs(out), pairs, text, m, g, n)
<1>1. n \in Nat /\ out \in Seq(Word) /\ Terminated(out, n)
  BY Zenon DEF Rewrites
<1>2. PICK new : Enumerates(new, pairs, text, Len(pairs), m, g) /\ Begins(out, new)
  BY Zenon DEF Rewrites
<1>3. /\ FoundAppName(pairs) => n = m
      /\ ~FoundAppName(pairs) =>
            /\ n = m + 1 /\ out[2 * m + 1] = ApplicationName
            /\ out[2 * m + 2] = TrimStart(FormatApplicationName(<<>>, text))
  BY Zenon DEF Rewrites
<1>4. /\ m \in Nat /\ g \in [1 .. m -> 1 .. Len(pairs)]
      /\ Len(new) = 2 * m
      /\ \A j \in 1 .. m :
            /\ new[2 * j - 1] = pairs[g[j]].key
            /\ new[2 * j] = RewrittenValue(pairs[g[j]], text)
      /\ \A i \in 1 .. m, j \in 1 .. m : i < j => g[i] < g[j]
      /\ \A q \in 1 .. Len(pairs) : ~Skipped(pairs[q]) => \E j \in 1 .. m : g[j] = q
      /\ (\A q \in 1 .. Len(pairs) : ~Skipped(pairs[q])) =>
            m = Len(pairs) /\ \A j \in 1 .. m : g[j] = j
  BY <1>2, Zenon DEF Enumerates
<1>5. PgLayoutOK(out) /\ IsPgPairs(out, n)
  BY <1>1, TerminatedOK
<1>6. PICK Q \in Seq(Pair) : /\ Q = PgPairs(out) /\ Len(Q) = n
                             /\ \A k \in 1 .. n : Q[k] = [key |-> out[2 * k - 1], val |-> out[2 * k]]
  BY <1>5, Zenon DEF IsPgPairs
<1>7. ASSUME NEW k \in 1 .. n PROVE Q[k].key = out[2 * k - 1] /\ Q[k].val = out[2 * k]
  BY <1>6
<1>8. m =< n
  BY <1>1, <1>3, <1>4
<1>9. ASSUME NEW j \in 1 .. m
      PROVE  Q[j].key = pairs[g[j]].key /\ Q[j].val = RewrittenValue(pairs[g[j]], text)
  <2>1. j \in 1 .. n /\ 2 * j - 1 \in 1 .. 2 * m /\ 2 * j \in 1 .. 2 * m
    BY <1>1, <1>4, <1>8
  <2>2. out[2 * j - 1] = new[2 * j - 1] /\ out[2 * j] = new[2 * j]
    BY <1>2, <1>4, <2>1 DEF Begins
  <2> QED BY <1>4, <1>7, <2>1, <2>2
<1>10. ASSUME ~FoundAppName(pairs)
       PROVE  /\ n = m + 1 /\ Q[n].key = ApplicationName
              /\ Q[n].val = TrimStart(FormatApplicationName(<<>>, text))
  <2>1. n = m + 1 /\ n \in 1 .. n /\ 2 * n - 1 = 2 * m + 1 /\ 2 * n = 2 * m + 2
    BY <1>1, <1>3, <1>4, <1>10
  <2> QED BY <1>3, <1>7, <1>10, <2>1
<1>11. Reads(Q, pairs, text, m, g, n)
  BY <1>1, <1>3, <1>4, <1>6, <1>8, <1>9, <1>10, Zenon DEF Reads
<1> QED BY <1>5, <1>6, <1>11, Zenon

\* They hold every pair of a name that is not added, in its order.
LEMMA ReadFollows ==
    ASSUME NEW Q, NEW pairs \in Seq(Pair), NEW text, NEW m, NEW g, NEW n,
           Reads(Q, pairs, text, m, g, n), NEW key, key # <<>>,
           key # ApplicationName \/ FoundAppName(pairs)
    PROVE  Follows(Q, pairs, g, m, key)
<1>1. /\ Q \in Seq(Pair) /\ Len(Q) = n /\ m \in Nat /\ n \in Nat /\ m =< n
      /\ g \in [1 .. m -> 1 .. Len(pairs)]
      /\ \A j \in 1 .. m : Q[j].key = pairs[g[j]].key
      /\ \A i \in 1 .. m, j \in 1 .. m : i < j => g[i] < g[j]
      /\ \A q \in 1 .. Len(pairs) : ~Skipped(pairs[q]) => \E j \in 1 .. m : g[j] = q
      /\ FoundAppName(pairs) => n = m
      /\ ~FoundAppName(pairs) => n = m + 1 /\ Q[n].key = ApplicationName
  BY Zenon DEF Reads
<1>2. ASSUME NEW q \in 1 .. Len(pairs), Lossy(pairs[q].key) = key
      PROVE  \E j \in 1 .. m : g[j] = q
  <2>1. pairs[q] \in Pair
    OBVIOUS
  <2>2. pairs[q].key \in Word
    BY <2>1 DEF Pair
  <2>3. pairs[q].key # <<>>
    BY <1>2, <2>2, Compared
  <2> QED BY <1>1, <2>3 DEF Skipped
<1>3. ASSUME NEW j \in m + 1 .. n PROVE Lossy(Q[j].key) # key
  <2>1. ~FoundAppName(pairs) /\ j = n
    BY <1>1, <1>3
  <2>2. Lossy(Q[j].key) = ApplicationName
    BY <1>1, <2>1, Compared, Names
  <2> QED BY <2>1, <2>2
<1> QED BY <1>1, <1>2, <1>3, Zenon DEF Follows

\* Every other parameter has the value it had.
LEMMA OtherValueKept ==
    ASSUME NEW Q, NEW pairs \in Seq(Pair), NEW text, NEW m, NEW g, NEW n,
           Reads(Q, pairs, text, m, g, n), NEW key, key # <<>>, key # ApplicationName
    PROVE  LastValue(Q, key) = LastValue(pairs, key)
<1>1. Q \in Seq(Pair) /\ m \in Nat /\ g \in [1 .. m -> 1 .. Len(pairs)]
      /\ \A j \in 1 .. m : Q[j].val = RewrittenValue(pairs[g[j]], text)
  BY Zenon DEF Reads
<1>2. Follows(Q, pairs, g, m, key)
  BY ReadFollows
<1>3. CASE None(pairs, key) /\ None(Q, key)
  BY <1>1, <1>3, NoValue
<1>4. CASE \E j \in 1 .. m : IsLast(pairs, key, g[j]) /\ IsLast(Q, key, j)
  <2>1. PICK j \in 1 .. m : IsLast(pairs, key, g[j]) /\ IsLast(Q, key, j)
    BY <1>4
  <2>2. LastValue(pairs, key) = pairs[g[j]].val /\ LastValue(Q, key) = Q[j].val
    BY <1>1, <2>1, LastValueOf
  <2>3. ~NamesApplication(pairs[g[j]])
    BY <2>1 DEF NamesApplication, IsLast
  <2>4. Q[j].val = pairs[g[j]].val
    BY <1>1, <2>3 DEF RewrittenValue
  <2> QED BY <2>2, <2>4
<1> QED BY <1>1, <1>2, <1>3, <1>4, LastFollows

\* application_name is the client's, formatted, or the one that was added.
LEMMA NameRewritten ==
    ASSUME NEW Q, NEW pairs \in Seq(Pair), NEW text, NEW m, NEW g, NEW n,
           Reads(Q, pairs, text, m, g, n)
    PROVE  /\ FoundAppName(pairs) =>
                 LastValue(Q, ApplicationName) =
                    FormatApplicationName(Lossy(LastValue(pairs, ApplicationName)), text)
           /\ ~FoundAppName(pairs) =>
                 LastValue(Q, ApplicationName) = TrimStart(FormatApplicationName(<<>>, text))
<1>1. Q \in Seq(Pair) /\ m \in Nat /\ g \in [1 .. m -> 1 .. Len(pairs)]
      /\ \A j \in 1 .. m : Q[j].val = RewrittenValue(pairs[g[j]], text)
  BY Zenon DEF Reads
<1>2. ASSUME FoundAppName(pairs)
      PROVE  LastValue(Q, ApplicationName) =
                FormatApplicationName(Lossy(LastValue(pairs, ApplicationName)), text)
  <2>1. Follows(Q, pairs, g, m, ApplicationName)
    BY <1>2, ReadFollows, Names
  <2>2. ~None(pairs, ApplicationName)
    <3>1. DOMAIN pairs = 1 .. Len(pairs)
      OBVIOUS
    <3> QED BY <1>2, <3>1, Zenon DEF FoundAppName, NamesApplication, None
  <2>3. PICK j \in 1 .. m : IsLast(pairs, ApplicationName, g[j]) /\ IsLast(Q, ApplicationName, j)
    BY <1>1, <2>1, <2>2, LastFollows
  <2>4. /\ LastValue(pairs, ApplicationName) = pairs[g[j]].val
        /\ LastValue(Q, ApplicationName) = Q[j].val
    BY <1>1, <2>3, LastValueOf
  <2>5. NamesApplication(pairs[g[j]])
    BY <2>3 DEF NamesApplication, IsLast
  <2>6. Q[j].val = FormatApplicationName(Lossy(pairs[g[j]].val), text)
    BY <1>1, <2>5 DEF RewrittenValue
  <2> QED BY <2>4, <2>6
<1>3. ASSUME ~FoundAppName(pairs)
      PROVE  LastValue(Q, ApplicationName) = TrimStart(FormatApplicationName(<<>>, text))
  <2>1. /\ n \in Nat /\ n = m + 1 /\ Len(Q) = n /\ Q[n].key = ApplicationName
        /\ Q[n].val = TrimStart(FormatApplicationName(<<>>, text))
    BY <1>3, Zenon DEF Reads
  <2>2. n \in 1 .. Len(Q) /\ \A r \in 1 .. Len(Q) : r =< n
    BY <1>1, <2>1
  <2>3. Lossy(Q[n].key) = ApplicationName
    BY <2>1, Compared, Names
  <2>4. IsLast(Q, ApplicationName, n)
    BY <2>2, <2>3 DEF IsLast
  <2> QED BY <1>1, <2>1, <2>4, LastValueOf
<1> QED BY <1>2, <1>3

\* The last value of a parameter is a word.
LEMMA LastValueTyped ==
    ASSUME NEW pairs \in Seq(Pair), NEW key
    PROVE  LastValue(pairs, key) \in Word
<1>1. CASE None(pairs, key)
  BY <1>1, NoValue, EmptyWord
<1>2. CASE \E q : IsLast(pairs, key, q)
  <2>1. PICK q : IsLast(pairs, key, q)
    BY <1>2
  <2>2. q \in 1 .. Len(pairs)
    BY <2>1 DEF IsLast
  <2>3. pairs[q] \in Pair
    BY <2>2
  <2>4. pairs[q].val \in Word
    BY <2>3 DEF Pair
  <2> QED BY <2>1, <2>4, LastValueOf
<1> QED BY <1>1, <1>2, LastOrNone

-----------------------------------------------------------------------------
(* What inject_ip_startup promises.                                        *)

(***************************************************************************)
(* PostgreSQL takes the result, and from it the names extract_user_db      *)
(* takes from the client's message, before it cuts them.                   *)
(***************************************************************************)
LEMMA SameIdentity ==
    ASSUME NEW words \in Seq(Word) \ {<<>>}, NEW text, Fitting(text),
           NEW out, out = InjectIpStartup(words, text)
    PROVE  /\ PgLayoutOK(out)
           /\ \E u \in Word : PgUser(out) = PgCut(u) /\ ExtractUser(words) = Lossy(u)
           /\ \E d \in Word : PgDb(out) = PgCut(d) /\ ExtractDb(words) = Lossy(d)
<1>1. PICK pairs \in Seq(Pair) : pairs = Pairs(words)
  BY PairsTyped
<1>2. PICK m, g, n : Rewrites(out, pairs, text, m, g, n)
  BY <1>1, InjectRewrites
<1>3. PgLayoutOK(out) /\ Reads(PgPairs(out), pairs, text, m, g, n)
  BY <1>2, RewrittenRead
<1>4. PICK u \in Word, d \in Word : u = LastValue(pairs, User) /\ d = LastValue(pairs, Database)
  BY LastValueTyped
<1>5. LastValue(PgPairs(out), User) = u /\ LastValue(PgPairs(out), Database) = d
  BY <1>3, <1>4, OtherValueKept, Names
<1>6. PICK e \in Word : e = IF d = <<>> THEN u ELSE d
  OBVIOUS
<1>7. PgUser(out) = PgCut(u) /\ PgDb(out) = PgCut(e)
  BY <1>5, <1>6, Zenon DEF PgUser, PgDb, OrElse
<1>8. ExtractUser(words) = Lossy(u)
  BY <1>1, <1>4, Zenon DEF ExtractUser
<1>9. ExtractDb(words) = IF Lossy(d) = <<>> THEN Lossy(u) ELSE Lossy(d)
  BY <1>1, <1>4, <1>8, Zenon DEF ExtractDb, OrElse
<1>10. Lossy(d) = <<>> <=> d = <<>>
  BY LossyWord
<1>11. ExtractDb(words) = Lossy(e)
  BY <1>6, <1>9, <1>10, Zenon
<1> QED BY <1>3, <1>7, <1>8, <1>11, Zenon

(***************************************************************************)
(* What PostgreSQL stores as application_name ends with the address.       *)
(***************************************************************************)
LEMMA AddressKept ==
    ASSUME NEW words \in Seq(Word) \ {<<>>}, NEW text, Fitting(text),
           NEW out, out = InjectIpStartup(words, text)
    PROVE  IsSuffix(text, PgApplicationName(out))
<1>1. PICK pairs \in Seq(Pair) : pairs = Pairs(words)
  BY PairsTyped
<1>2. PICK m, g, n : Rewrites(out, pairs, text, m, g, n)
  BY <1>1, InjectRewrites
<1>3. Reads(PgPairs(out), pairs, text, m, g, n)
  BY <1>2, RewrittenRead
<1>4. PICK w \in Word : w = Lossy(LastValue(pairs, ApplicationName))
  BY LastValueTyped, LossyWord
<1>5. CASE FoundAppName(pairs)
  <2>1. LastValue(PgPairs(out), ApplicationName) = FormatApplicationName(w, text)
    BY <1>3, <1>4, <1>5, NameRewritten
  <2>2. IsSuffix(text, PgStored(FormatApplicationName(w, text)))
    BY FormattedStored DEF Fitting
  <2> QED BY <2>1, <2>2, Zenon DEF PgApplicationName
<1>6. CASE ~FoundAppName(pairs)
  <2>1. LastValue(PgPairs(out), ApplicationName) = TrimStart(FormatApplicationName(<<>>, text))
    BY <1>3, <1>6, NameRewritten
  <2>2. IsSuffix(text, PgStored(TrimStart(FormatApplicationName(<<>>, text))))
    BY TrimmedStored DEF Fitting
  <2> QED BY <2>1, <2>2, Zenon DEF PgApplicationName
<1> QED BY <1>5, <1>6

\* value is the longest beginning of name with room for the suffix, and the suffix.
KeepsLongest(value, name, text) ==
    LET Fits(n) == Len(PgClean(name)[n]) + Len(Suffix(text)) =< NameLimit
        n == Max({n \in 0 .. Len(name) : Fits(n)})
    IN  value = SubSeq(name, 1, n) \o Suffix(text)

(***************************************************************************)
(* A client's own application_name keeps the longest beginning for which   *)
(* PostgreSQL has room beside the suffix.                                  *)
(***************************************************************************)
LEMMA NameKept ==
    ASSUME NEW words \in Seq(Word) \ {<<>>}, NEW text, Fitting(text), NEW out,
           out = InjectIpStartup(words, text), FoundAppName(Pairs(words)),
           NEW name, name = Lossy(LastValue(Pairs(words), ApplicationName))
    PROVE  KeepsLongest(LastValue(PgPairs(out), ApplicationName), name, text)
<1> DEFINE Fits(k) == Len(PgClean(name)[k]) + Len(Suffix(text)) =< NameLimit
           fitting == {k \in 0 .. Len(name) : Fits(k)}
<1>1. PICK pairs \in Seq(Pair) : pairs = Pairs(words)
  BY PairsTyped
<1>2. PICK m, g, n : Rewrites(out, pairs, text, m, g, n)
  BY <1>1, InjectRewrites
<1>3. Reads(PgPairs(out), pairs, text, m, g, n)
  BY <1>2, RewrittenRead
<1>4. name \in Word
  BY <1>1, LastValueTyped, LossyWord
<1>5. LastValue(PgPairs(out), ApplicationName) = FormatApplicationName(name, text)
  BY <1>1, <1>3, NameRewritten
<1>6. PICK l \in 0 .. Len(name) :
         /\ FormatApplicationName(name, text) = SubSeq(name, 1, l) \o Suffix(text)
         /\ StoredLens(name)[l] + Len(Suffix(text)) =< NameLimit
         /\ \A k \in 0 .. Len(name) : StoredLens(name)[k] + Len(Suffix(text)) =< NameLimit => k =< l
  BY <1>4, Formatted DEF Fitting
<1>7. \A k \in 0 .. Len(name) : Len(PgClean(name)[k]) = StoredLens(name)[k]
  BY <1>4, CleanIs
<1>8. l \in fitting /\ \A k \in fitting : k =< l
  BY <1>6, <1>7
<1>9. Len(name) \in Nat /\ fitting \in SUBSET (0 .. Len(name)) /\ fitting # {}
  <2>1. Len(name) \in Nat
    BY <1>4 DEF Word
  <2>2. fitting \in SUBSET (0 .. Len(name))
    BY Zenon
  <2>3. fitting # {}
    BY <1>8, Zenon
  <2> QED BY <2>1, <2>2, <2>3
<1> HIDE DEF fitting
<1>10. Max(fitting) \in fitting /\ \A k \in fitting : k =< Max(fitting)
  BY <1>9, MaxOf
<1>11. Max(fitting) = l
  <2>1. PICK x \in 0 .. Len(name) : x = Max(fitting)
    BY <1>9, <1>10
  <2>2. x =< l /\ l =< x
    BY <1>8, <1>10, <2>1
  <2> QED BY <2>1, <2>2
<1> QED BY <1>5, <1>6, <1>11, Zenon DEF fitting, KeepsLongest

(***************************************************************************)
(* Of a message that PostgreSQL takes, every pair is passed on in its      *)
(* place, unchanged but for application_name, and at most that is added.   *)
(***************************************************************************)
LEMMA OthersKept ==
    ASSUME NEW words \in Seq(Word) \ {<<>>}, NEW text, Fitting(text), NEW out,
           out = InjectIpStartup(words, text), PgLayoutOK(words)
    PROVE  LET before == PgPairs(words)
               after == PgPairs(out)
               Named(p) == p.key = ApplicationName
           IN  /\ Len(before) =< Len(after)
               /\ \A k \in DOMAIN before :
                     after[k].key = before[k].key /\ (~Named(before[k]) => after[k] = before[k])
               /\ \A k \in Len(before) + 1 .. Len(after) : Named(after[k])
<1>1. PICK l \in Nat : Terminated(words, l)
  BY LayoutTerminated
<1>2. PICK P \in Seq(Pair) : P = Pairs(words) /\ P = PgPairs(words)
  BY <1>1, PairsTyped, TerminatedPairs
<1>3. Len(P) = l /\ \A k \in 1 .. l : ~Skipped(P[k])
  BY <1>1, <1>2, TerminatedPairs
<1>4. PICK m, g, n : Rewrites(out, P, text, m, g, n)
  BY <1>2, InjectRewrites
<1>5. PICK Q : Q = PgPairs(out) /\ Reads(Q, P, text, m, g, n)
  BY <1>4, RewrittenRead
<1>6. /\ Q \in Seq(Pair) /\ Len(Q) = n /\ m \in Nat /\ n \in Nat /\ m =< n
      /\ \A j \in 1 .. m : Q[j].key = P[g[j]].key /\ Q[j].val = RewrittenValue(P[g[j]], text)
      /\ (\A q \in 1 .. Len(P) : ~Skipped(P[q])) => m = Len(P) /\ \A j \in 1 .. m : g[j] = j
      /\ FoundAppName(P) => n = m
      /\ ~FoundAppName(P) => n = m + 1 /\ Q[n].key = ApplicationName
  BY <1>5, Zenon DEF Reads
<1>7. m = l /\ \A j \in 1 .. l : g[j] = j
  BY <1>3, <1>6, Zenon
<1>8. ASSUME NEW k \in 1 .. l
      PROVE  Q[k].key = P[k].key /\ (P[k].key # ApplicationName => Q[k] = P[k])
  <2>1. Q[k].key = P[k].key /\ Q[k].val = RewrittenValue(P[k], text)
    BY <1>6, <1>7
  <2>2. k \in 1 .. Len(Q) /\ k \in 1 .. Len(P)
    BY <1>3, <1>6, <1>7
  <2>3. PICK p \in Pair, q \in Pair : p = P[k] /\ q = Q[k]
    BY <1>6, <2>2
  <2>4. ASSUME p.key # ApplicationName PROVE q = p
    <3>1. p.key \in Word
      BY DEF Pair
    <3>2. ~NamesApplication(p)
      BY <2>4, <3>1, Compared DEF NamesApplication
    <3>3. q.key = p.key /\ q.val = p.val
      BY <2>1, <2>3, <3>2 DEF RewrittenValue
    <3> QED BY <3>3 DEF Pair
  <2> QED BY <2>1, <2>3, <2>4
<1>9. ASSUME NEW k \in l + 1 .. n PROVE Q[k].key = ApplicationName
  <2>1. ~FoundAppName(P) /\ k = n
    BY <1>6, <1>7, <1>9
  <2> QED BY <1>6, <2>1
<1>10. DOMAIN P = 1 .. l
  BY <1>3
<1> QED BY <1>2, <1>3, <1>5, <1>6, <1>7, <1>8, <1>9, <1>10

-----------------------------------------------------------------------------
(* The length of the result.                                               *)

\* Zeros add nothing.
LEMMA SumsOfZeros ==
    ASSUME NEW s \in Seq(Nat), \A k \in 1 .. Len(s) : s[k] = 0, NEW n \in 0 .. Len(s)
    PROVE  Sums(s)[n] = 0
<1> DEFINE T == {k \in 0 .. Len(s) : Sums(s)[k] = 0}
<1>1. 0 \in T /\ Len(s) \in Nat
  BY SumsAre
<1>2. ASSUME NEW k \in 0 .. Len(s) - 1, k \in T PROVE k + 1 \in T
  <2>1. k + 1 \in 1 .. Len(s) /\ k + 1 \in 0 .. Len(s)
    BY <1>1
  <2>2. Sums(s)[k + 1] = Sums(s)[k] + s[k + 1]
    BY SumsNext
  <2>3. s[k + 1] = 0 /\ Sums(s)[k] = 0
    BY <1>2, <2>1
  <2> QED BY <2>1, <2>2, <2>3
<1> HIDE DEF T
<1>3. n \in T
  <2>1. 0 .. Len(s) \subseteq T
    BY <1>1, <1>2, InductionUpTo
  <2> QED BY <2>1
<1> QED BY <1>3 DEF T

\* Two elements further.
LEMMA SumsNextTwo ==
    ASSUME NEW s \in Seq(Nat), NEW k \in Nat, k + 2 =< Len(s)
    PROVE  /\ Sums(s)[k] \in Nat /\ s[k + 1] \in Nat /\ s[k + 2] \in Nat
           /\ Sums(s)[k + 2] = Sums(s)[k] + s[k + 1] + s[k + 2]
<1>1. Len(s) \in Nat
  OBVIOUS
<1>2. k \in 0 .. Len(s) - 1 /\ k + 1 \in 0 .. Len(s) - 1 /\ k + 1 + 1 = k + 2
  BY <1>1
<1>3. Sums(s)[k] \in Nat /\ s[k + 1] \in Nat /\ Sums(s)[k + 1] = Sums(s)[k] + s[k + 1]
  BY <1>2, SumsNext
<1>4. PICK j \in 0 .. Len(s) - 1 : j = k + 1 /\ j + 1 = k + 2
  BY <1>2
<1>5. s[j + 1] \in Nat /\ Sums(s)[j + 1] = Sums(s)[j] + s[j + 1]
  BY SumsNext
<1> QED BY <1>3, <1>4, <1>5

\* Two elements a turn, the first the same and the second larger by no more than u's.
LEMMA SumsInPairs ==
    ASSUME NEW s \in Seq(Nat), NEW t \in Seq(Nat), NEW u \in Seq(Nat), NEW n \in Nat,
           2 * n =< Len(s), 2 * n =< Len(t), n =< Len(u),
           \A k \in 1 .. n : s[2 * k - 1] = t[2 * k - 1] /\ s[2 * k] =< t[2 * k] + u[k]
    PROVE  Sums(s)[2 * n] =< Sums(t)[2 * n] + Sums(u)[n]
<1> DEFINE T == {k \in 0 .. n : Sums(s)[2 * k] =< Sums(t)[2 * k] + Sums(u)[k]}
<1>1. 0 \in T
  <2>1. Sums(s)[0] = 0 /\ Sums(t)[0] = 0 /\ Sums(u)[0] = 0
    BY SumsAre
  <2> QED BY <2>1
<1>2. ASSUME NEW k \in 0 .. n - 1, k \in T PROVE k + 1 \in T
  <2>1. PICK a \in Nat, j \in 1 .. n : /\ a = 2 * k /\ j = k + 1
                                       /\ 2 * j - 1 = a + 1 /\ 2 * j = a + 2
                                       /\ a + 2 =< Len(s) /\ a + 2 =< Len(t)
    OBVIOUS
  <2>2. k \in 0 .. Len(u) - 1
    OBVIOUS
  <2>3. /\ Sums(s)[a] \in Nat /\ s[a + 1] \in Nat /\ s[a + 2] \in Nat
        /\ Sums(s)[a + 2] = Sums(s)[a] + s[a + 1] + s[a + 2]
        /\ Sums(t)[a] \in Nat /\ t[a + 1] \in Nat /\ t[a + 2] \in Nat
        /\ Sums(t)[a + 2] = Sums(t)[a] + t[a + 1] + t[a + 2]
    BY <2>1, SumsNextTwo
  <2>4. Sums(u)[k] \in Nat /\ u[k + 1] \in Nat /\ Sums(u)[k + 1] = Sums(u)[k] + u[k + 1]
    BY <2>2, SumsNext
  <2>5. Sums(s)[a] =< Sums(t)[a] + Sums(u)[k]
    BY <1>2, <2>1
  <2>6. s[a + 1] = t[a + 1] /\ s[a + 2] =< t[a + 2] + u[k + 1]
    BY <2>1
  <2>7. Sums(s)[a + 2] =< Sums(t)[a + 2] + Sums(u)[k + 1]
    <3>1. PICK x \in Nat, y \in Nat, z \in Nat : x = Sums(s)[a] /\ y = Sums(t)[a] /\ z = Sums(u)[k]
      BY <2>3, <2>4
    <3>2. PICK b \in Nat, c \in Nat, d \in Nat, e \in Nat :
             b = t[a + 1] /\ c = s[a + 2] /\ d = t[a + 2] /\ e = u[k + 1]
      BY <2>3, <2>4
    <3>3. x =< y + z /\ c =< d + e
      BY <2>5, <2>6, <3>1, <3>2
    <3>4. x + b + c =< (y + b + d) + (z + e)
      BY <3>3
    <3>5. Sums(s)[a + 2] = x + b + c /\ Sums(t)[a + 2] = y + b + d /\ Sums(u)[k + 1] = z + e
      BY <2>3, <2>4, <2>6, <3>1, <3>2
    <3> QED BY <3>4, <3>5
  <2>8. 2 * (k + 1) = a + 2 /\ k + 1 \in 0 .. n
    BY <2>1
  <2> QED BY <2>7, <2>8
<1> HIDE DEF T
<1>3. n \in T
  <2>1. 0 .. n \subseteq T
    BY <1>1, <1>2, InductionUpTo
  <2> QED BY <2>1
<1> QED BY <1>3 DEF T

\* The bytes of a word's characters, one number each.
CharBytes(w) == [k \in DOMAIN w |-> Utf8Len(w[k])]

\* They are numbers, and add up to the bytes of the word.
LEMMA CharBytesTyped ==
    ASSUME NEW w \in Word
    PROVE  /\ CharBytes(w) \in Seq(Nat) /\ Len(CharBytes(w)) = Len(w)
           /\ \A k \in 1 .. Len(w) : CharBytes(w)[k] = Utf8Len(w[k])
           /\ WordBytes(w) = Sums(CharBytes(w))[Len(w)] /\ WordBytes(w) \in Nat
<1>1. Len(w) \in Nat /\ DOMAIN w = 1 .. Len(w) /\ \A k \in 1 .. Len(w) : w[k] \in Chars
  BY DEF Word
<1>2. \A k \in 1 .. Len(w) : Utf8Len(w[k]) \in Nat
  BY <1>1, CharCosts
<1>3. CharBytes(w) = [k \in 1 .. Len(w) |-> Utf8Len(w[k])]
  BY <1>1 DEF CharBytes
<1>4. CharBytes(w) \in Seq(Nat) /\ Len(CharBytes(w)) = Len(w)
  BY <1>1, <1>2, <1>3
<1>5. WordBytes(w) = Sums(CharBytes(w))[Len(w)]
  BY <1>4, Zenon DEF WordBytes, Total, CharBytes
<1>6. WordBytes(w) \in Nat
  <2>1. PICK s \in Seq(Nat) : s = CharBytes(w) /\ Len(s) \in 0 .. Len(s) /\ Len(s) = Len(w)
    BY <1>1, <1>4
  <2>2. Sums(s)[Len(s)] \in Nat
    BY <2>1, SumsTyped
  <2> QED BY <1>5, <2>1, <2>2
<1> QED BY <1>3, <1>4, <1>5, <1>6

\* A printable character is one byte.
LEMMA PrintableBytes ==
    ASSUME NEW w \in Seq(Printable)
    PROVE  w \in Word /\ WordBytes(w) = Len(w)
<1>1. w \in Word
  BY SeqOfMore DEF Word, Chars
<1>2. PICK s \in Seq(Nat) : /\ s = CharBytes(w) /\ Len(s) = Len(w)
                            /\ \A k \in 1 .. Len(w) : s[k] = Utf8Len(w[k])
                            /\ WordBytes(w) = Sums(s)[Len(w)]
  BY <1>1, CharBytesTyped
<1>3. \A k \in 1 .. Len(w) : w[k] \in Printable /\ w[k] \in Chars
  BY DEF Chars
<1>4. \A k \in 1 .. Len(w) : s[k] = 1
  BY <1>2, <1>3, CharCosts
<1>5. Len(s) \in 0 .. Len(s)
  OBVIOUS
<1>6. Sums(s)[Len(s)] = Len(s)
  BY <1>2, <1>4, <1>5, SumsOfOnes
<1> QED BY <1>1, <1>2, <1>6

\* What replacing the bytes of a word that are not UTF-8 adds to it.
Excess(w) == [k \in DOMAIN w |-> IF w[k] = "invalid" THEN 2 ELSE 0]
Replaced(w) == Total(Excess(w))

\* from_utf8_lossy lengthens a word by no more than that.
LEMMA LossyBytes ==
    ASSUME NEW w \in Word
    PROVE  /\ Replaced(w) \in Nat
           /\ WordBytes(Lossy(w)) =< WordBytes(w) + Replaced(w)
<1>1. /\ Lossy(w) \in Word /\ Len(Lossy(w)) = Len(w)
      /\ \A k \in 1 .. Len(w) : Lossy(w)[k] = IF w[k] = "invalid" THEN "replacement" ELSE w[k]
  BY LossyWord
<1>2. PICK v \in Word : v = Lossy(w) /\ Len(v) = Len(w)
  BY <1>1
<1>3. PICK n \in Nat : n = Len(w) /\ DOMAIN w = 1 .. n /\ \A k \in 1 .. n : w[k] \in Chars
  BY DEF Word
<1>4. PICK s \in Seq(Nat) : /\ Len(s) = n /\ \A k \in 1 .. n : s[k] = Utf8Len(v[k])
                            /\ WordBytes(v) = Sums(s)[n]
  BY <1>2, <1>3, CharBytesTyped
<1>5. PICK t \in Seq(Nat) : /\ Len(t) = n /\ \A k \in 1 .. n : t[k] = Utf8Len(w[k])
                            /\ WordBytes(w) = Sums(t)[n]
  BY <1>3, CharBytesTyped
<1>6. PICK u \in Seq(Nat) : /\ Len(u) = n /\ \A k \in 1 .. n : u[k] = IF w[k] = "invalid" THEN 2 ELSE 0
                            /\ Replaced(w) = Sums(u)[n]
  <2>1. PICK u : u = [k \in 1 .. n |-> IF w[k] = "invalid" THEN 2 ELSE 0]
    OBVIOUS
  <2>2. u \in Seq(Nat) /\ Len(u) = n /\ \A k \in 1 .. n : u[k] = IF w[k] = "invalid" THEN 2 ELSE 0
    BY <2>1
  <2>3. Excess(w) = u
    BY <1>3, <2>1, Zenon DEF Excess
  <2>4. Replaced(w) = Sums(u)[n]
    BY <2>2, <2>3, Zenon DEF Replaced, Total
  <2> QED BY <2>2, <2>4
<1>7. ASSUME NEW k \in 1 .. n PROVE s[k] =< t[k] + u[k]
  <2>1. PICK c \in Chars : c = w[k]
    BY <1>3
  <2>2. v[k] = IF c = "invalid" THEN "replacement" ELSE c
    BY <1>1, <1>2, <1>3, <2>1
  <2>3. Utf8Len(IF c = "invalid" THEN "replacement" ELSE c)
            =< Utf8Len(c) + (IF c = "invalid" THEN 2 ELSE 0)
    <3>1. CASE c = "invalid"
      <4>1. Utf8Len("invalid") = 1 /\ Utf8Len("replacement") = 3
        BY DEF Utf8Len
      <4> QED BY <3>1, <4>1
    <3>2. CASE c # "invalid"
      <4>1. Utf8Len(c) \in Nat
        BY CharCosts
      <4> QED BY <3>2, <4>1
    <3> QED BY <3>1, <3>2
  <2> QED BY <1>4, <1>5, <1>6, <2>1, <2>2, <2>3
<1>8. n =< Len(s) /\ n =< Len(t) /\ n =< Len(u)
  BY <1>4, <1>5, <1>6
<1>9. Sums(s)[n] =< Sums(t)[n] + Sums(u)[n]
  BY <1>7, <1>8, SumsBounded
<1>10. Sums(u)[n] \in Nat
  <2>1. n \in 0 .. Len(u)
    BY <1>6
  <2> QED BY <2>1, SumsTyped
<1> QED BY <1>2, <1>4, <1>5, <1>6, <1>9, <1>10

\* Nor does it shorten one.
LEMMA LossyLonger ==
    ASSUME NEW w \in Word
    PROVE  WordBytes(w) \in Nat /\ WordBytes(Lossy(w)) \in Nat /\ WordBytes(w) =< WordBytes(Lossy(w))
<1>1. /\ Lossy(w) \in Word /\ Len(Lossy(w)) = Len(w)
      /\ \A k \in 1 .. Len(w) : Lossy(w)[k] = IF w[k] = "invalid" THEN "replacement" ELSE w[k]
  BY LossyWord
<1>2. PICK v \in Word : v = Lossy(w) /\ Len(v) = Len(w)
  BY <1>1
<1>3. PICK n \in Nat : n = Len(w) /\ \A k \in 1 .. n : w[k] \in Chars
  BY DEF Word
<1>4. PICK s \in Seq(Nat) : /\ Len(s) = n /\ \A k \in 1 .. n : s[k] = Utf8Len(v[k])
                            /\ WordBytes(v) = Sums(s)[n] /\ WordBytes(v) \in Nat
  BY <1>2, <1>3, CharBytesTyped
<1>5. PICK t \in Seq(Nat) : /\ Len(t) = n /\ \A k \in 1 .. n : t[k] = Utf8Len(w[k])
                            /\ WordBytes(w) = Sums(t)[n] /\ WordBytes(w) \in Nat
  BY <1>3, CharBytesTyped
<1>6. ASSUME NEW k \in 1 .. n PROVE t[k] =< s[k]
  <2>1. PICK c \in Chars : c = w[k]
    BY <1>3
  <2>2. v[k] = IF c = "invalid" THEN "replacement" ELSE c
    BY <1>1, <1>2, <1>3, <2>1
  <2>3. Utf8Len(c) =< Utf8Len(IF c = "invalid" THEN "replacement" ELSE c)
    <3>1. CASE c = "invalid"
      <4>1. Utf8Len("invalid") = 1 /\ Utf8Len("replacement") = 3
        BY DEF Utf8Len
      <4> QED BY <3>1, <4>1
    <3>2. CASE c # "invalid"
      <4>1. Utf8Len(c) \in Nat
        BY CharCosts
      <4> QED BY <3>2, <4>1
    <3> QED BY <3>1, <3>2
  <2> QED BY <1>4, <1>5, <2>1, <2>2, <2>3
<1>7. PICK z \in Seq(Nat) : Len(z) = n /\ \A k \in 1 .. n : z[k] = 0
  <2>1. PICK z : z = [k \in 1 .. n |-> 0]
    OBVIOUS
  <2>2. z \in Seq(Nat) /\ Len(z) = n /\ \A k \in 1 .. n : z[k] = 0
    BY <2>1
  <2> QED BY <2>2
<1>8. \A k \in 1 .. n : t[k] =< s[k] + z[k]
  BY <1>4, <1>6, <1>7
<1>9. n =< Len(s) /\ n =< Len(t) /\ n =< Len(z)
  BY <1>4, <1>5, <1>7
<1>10. Sums(t)[n] =< Sums(s)[n] + Sums(z)[n]
  BY <1>8, <1>9, SumsBounded
<1>11. Sums(z)[n] = 0
  <2>1. n \in 0 .. Len(z) /\ \A k \in 1 .. Len(z) : z[k] = 0
    BY <1>7
  <2> QED BY <2>1, SumsOfZeros
<1> QED BY <1>2, <1>4, <1>5, <1>10, <1>11

\* Ones behind a sum add their number to it.
LEMMA OnesBehind ==
    ASSUME NEW s \in Seq(Nat), NEW n \in 0 .. Len(s), NEW r \in Nat, n + r =< Len(s),
           \A k \in n + 1 .. Len(s) : s[k] = 1
    PROVE  Sums(s)[n + r] = Sums(s)[n] + r
<1> DEFINE T == {k \in 0 .. r : Sums(s)[n + k] = Sums(s)[n] + k}
<1>1. Len(s) \in Nat /\ n \in Nat /\ Sums(s)[n] \in Nat
  BY SumsTyped
<1>2. 0 \in T
  BY <1>1
<1>3. ASSUME NEW k \in 0 .. r - 1, k \in T PROVE k + 1 \in T
  <2>1. n + k \in 0 .. Len(s) - 1 /\ (n + k) + 1 \in n + 1 .. Len(s)
    BY <1>1
  <2>2. Sums(s)[(n + k) + 1] = Sums(s)[n + k] + s[(n + k) + 1]
    BY <2>1, SumsNext
  <2>3. Sums(s)[n + k] = Sums(s)[n] + k /\ s[(n + k) + 1] = 1
    BY <1>3, <2>1
  <2>4. (n + k) + 1 = n + (k + 1) /\ k + 1 \in 0 .. r
    BY <1>1
  <2>5. Sums(s)[n + (k + 1)] = Sums(s)[n] + (k + 1)
    <3>1. Sums(s)[n + (k + 1)] = Sums(s)[n + k] + 1
      BY <2>2, <2>3, <2>4
    <3>2. PICK a \in Nat : a = Sums(s)[n]
      BY <1>1
    <3>3. (a + k) + 1 = a + (k + 1)
      OBVIOUS
    <3> QED
      BY <2>3, <3>1, <3>2, <3>3, Zenon
  <2> QED
    BY <2>4, <2>5
<1>4. T \in SUBSET Nat
  OBVIOUS
<1> HIDE DEF T
<1>5. \A k \in 0 .. r : k \in T
  BY <1>2, <1>3, <1>4, InductionUpTo
<1> QED
  BY <1>5 DEF T

\* PostgreSQL's cut leaves a name within the limit as it is, and of a longer
\* one exactly that many bytes, whole characters of it as they were.
LEMMA CutKeeps ==
    ASSUME NEW w \in Word
    PROVE  \/ PgCut(w) = w
           \/ /\ WordBytes(Lossy(w)) > NameLimit /\ WordBytes(PgCut(w)) = NameLimit
              /\ \A k \in DOMAIN PgCut(w) : PgCut(w)[k] # "invalid" => PgCut(w)[k] = Lossy(w)[k]
<1>1. CASE WordBytes(w) =< NameLimit
  BY <1>1 DEF PgCut
<1>2. CASE ~(WordBytes(w) =< NameLimit)
  <2>1. WordBytes(Lossy(w)) > NameLimit
    <3>1. WordBytes(Lossy(w)) \in Nat /\ WordBytes(w) \in Nat
      BY LossyWord, CharBytesTyped
    <3> QED
      BY <1>2, <3>1, LossyLonger, NameLimitAssumption
  <2>2. PICK s \in Seq(Nat) : /\ s = CharBytes(w) /\ Len(s) = Len(w)
                              /\ \A k \in 1 .. Len(w) : s[k] = Utf8Len(w[k])
    BY CharBytesTyped
  <2> DEFINE T == {k \in 0 .. Len(w) : Sums(s)[k] =< NameLimit}
             n == Max(T)
             cut == [k \in 1 .. n + (NameLimit - Sums(s)[n]) |-> IF k =< n THEN w[k] ELSE "invalid"]
  <2>3. PgCut(w) = cut
    BY <1>2, <2>2, Zenon DEF PgCut, CharBytes
  <2>4. Len(w) \in Nat /\ \A k \in 1 .. Len(w) : w[k] \in Chars
    BY DEF Word
  <2>5. n \in T
    <3>1. Sums(s)[0] = 0
      BY SumsAre
    <3>2. T \in SUBSET (0 .. Len(w)) /\ 0 \in T
      BY <2>4, <3>1, NameLimitAssumption
    <3> HIDE DEF T
    <3> QED BY <2>4, <3>2, MaxOf
  <2>6. n \in 0 .. Len(w) /\ Sums(s)[n] =< NameLimit
    BY <2>5
  <2> HIDE DEF n
  <2>7. PICK r \in Nat : r = NameLimit - Sums(s)[n]
    BY <2>2, <2>6, SumsTyped, NameLimitAssumption
  <2>8. /\ cut \in Word /\ Len(cut) = n + r /\ DOMAIN cut = 1 .. n + r
        /\ \A k \in 1 .. n + r : cut[k] = IF k =< n THEN w[k] ELSE "invalid"
    <3>1. PICK top \in Nat : top = n + r
      BY <2>6
    <3>2. cut = [k \in 1 .. top |-> IF k =< n THEN w[k] ELSE "invalid"]
      BY <2>7, <3>1
    <3>3. ASSUME NEW k \in 1 .. top PROVE (IF k =< n THEN w[k] ELSE "invalid") \in Chars
      BY <2>4, <2>6 DEF Chars
    <3> HIDE DEF cut
    <3> QED
      BY <3>1, <3>2, <3>3 DEF Word
  <2> HIDE DEF cut
  <2>9. WordBytes(cut) = NameLimit
    <3>1. PICK c \in Seq(Nat) : /\ Len(c) = n + r /\ \A k \in 1 .. n + r : c[k] = Utf8Len(cut[k])
                                /\ WordBytes(cut) = Sums(c)[n + r]
      BY <2>8, CharBytesTyped
    <3>2. ASSUME NEW k \in 1 .. n PROVE c[k] = s[k]
      <4>1. k \in 1 .. n + r /\ k \in 1 .. Len(w) /\ k =< n
        BY <2>4, <2>6, <2>7
      <4>2. cut[k] = w[k]
        BY <2>8, <4>1
      <4> QED
        BY <2>2, <3>1, <4>1, <4>2
    <3>3. Sums(c)[n] = Sums(s)[n]
      <4>1. n \in Nat /\ n =< Len(c) /\ n =< Len(s)
        BY <2>2, <2>4, <2>6, <2>7, <3>1
      <4> QED
        BY <3>2, <4>1, SumsAgree
    <3>4. ASSUME NEW k \in n + 1 .. Len(c) PROVE c[k] = 1
      <4>1. k \in 1 .. n + r /\ ~(k =< n)
        BY <2>6, <3>1
      <4>2. cut[k] = "invalid"
        BY <2>8, <4>1
      <4> QED
        BY <3>1, <4>1, <4>2 DEF Utf8Len
    <3>5. Sums(c)[n + r] = Sums(c)[n] + r
      <4>1. n \in 0 .. Len(c) /\ n + r =< Len(c)
        BY <2>6, <3>1
      <4> QED
        BY <3>4, <4>1, OnesBehind
    <3>6. Sums(s)[n] \in Nat
      BY <2>2, <2>6, SumsTyped
    <3> QED
      BY <2>7, <3>1, <3>3, <3>5, <3>6, NameLimitAssumption
  <2>10. ASSUME NEW k \in DOMAIN cut, cut[k] # "invalid" PROVE cut[k] = Lossy(w)[k]
    <3>1. k \in 1 .. n + r /\ k =< n /\ cut[k] = w[k]
      BY <2>8, <2>10
    <3>2. k \in 1 .. Len(w)
      BY <2>4, <2>6, <3>1
    <3> QED BY <2>10, <3>1, <3>2, LossyWord
  <2> QED BY <2>1, <2>3, <2>9, <2>10
<1> QED BY <1>1, <1>2

\* A beginning of a word and a printable end.
LEMMA BytesOfBoth ==
    ASSUME NEW v \in Word, NEW n \in 0 .. Len(v), NEW y \in Seq(Printable)
    PROVE  /\ SubSeq(v, 1, n) \o y \in Word
           /\ WordBytes(SubSeq(v, 1, n) \o y) =< WordBytes(v) + Len(y)
<1>1. PICK x : x = SubSeq(v, 1, n)
  OBVIOUS
<1>2. x \in Word /\ Len(x) = n /\ \A k \in 1 .. n : x[k] = v[k]
  BY <1>1 DEF Word
<1>3. y \in Word /\ WordBytes(y) = Len(y)
  BY PrintableBytes
<1>4. PICK z : z = x \o y
  OBVIOUS
<1>5. PICK l \in Nat : l = Len(y)
  OBVIOUS
<1>6. /\ z \in Word /\ Len(z) = n + l /\ n + l \in Nat
      /\ \A k \in 1 .. n + l : z[k] = IF k =< n THEN x[k] ELSE y[k - n]
  <2>1. x \in Seq(Chars) /\ y \in Seq(Chars)
    BY <1>2, <1>3 DEF Word
  <2>2. /\ z \in Seq(Chars) /\ Len(z) = Len(x) + Len(y)
        /\ \A k \in 1 .. Len(x) + Len(y) : z[k] = IF k =< Len(x) THEN x[k] ELSE y[k - Len(x)]
    BY <1>4, <2>1, ConcatProperties
  <2>3. n + l \in Nat /\ Len(x) = n /\ Len(y) = l
    BY <1>2, <1>5
  <2> QED BY <2>2, <2>3, Zenon DEF Word
<1>7. PICK a \in Seq(Nat) : /\ Len(a) = n /\ \A k \in 1 .. n : a[k] = Utf8Len(x[k])
  BY <1>2, CharBytesTyped
<1>8. PICK b \in Seq(Nat) : /\ Len(b) = l /\ \A k \in 1 .. l : b[k] = Utf8Len(y[k])
                            /\ WordBytes(y) = Sums(b)[l]
  BY <1>3, <1>5, CharBytesTyped
<1>9. PICK c \in Seq(Nat) : /\ Len(c) = n + l /\ \A k \in 1 .. n + l : c[k] = Utf8Len(z[k])
                            /\ WordBytes(z) = Sums(c)[n + l]
  BY <1>6, CharBytesTyped
<1>10. PICK d \in Seq(Nat) : /\ Len(d) = Len(v) /\ \A k \in 1 .. Len(v) : d[k] = Utf8Len(v[k])
                             /\ WordBytes(v) = Sums(d)[Len(v)]
  BY CharBytesTyped
<1>11. PICK e \in Seq(Nat) : /\ e = a \o b /\ Len(e) = n + l
                             /\ \A k \in 1 .. n + l : e[k] = IF k =< n THEN a[k] ELSE b[k - n]
  <2>1. PICK e \in Seq(Nat) : e = a \o b
    BY ConcatProperties
  <2>2. /\ Len(e) = Len(a) + Len(b)
        /\ \A k \in 1 .. Len(a) + Len(b) : e[k] = IF k =< Len(a) THEN a[k] ELSE b[k - Len(a)]
    BY <2>1, ConcatProperties
  <2> QED BY <1>7, <1>8, <2>1, <2>2, Zenon
<1>12. ASSUME NEW k \in 1 .. n + l PROVE c[k] = e[k]
  <2>1. CASE k =< n
    <3>1. k \in 1 .. n
      BY <2>1
    <3> QED BY <1>6, <1>7, <1>9, <1>11, <2>1, <3>1
  <2>2. CASE ~(k =< n)
    <3>1. k - n \in 1 .. l
      BY <2>2
    <3> QED BY <1>6, <1>8, <1>9, <1>11, <2>2, <3>1
  <2> QED BY <2>1, <2>2
<1>13. Sums(c)[n + l] = Sums(e)[n + l]
  <2>1. PICK N \in Nat : N = n + l
    BY <1>6
  <2>2. N =< Len(c) /\ N =< Len(e) /\ \A k \in 1 .. N : c[k] = e[k]
    BY <1>9, <1>11, <1>12, <2>1
  <2>3. Sums(c)[N] = Sums(e)[N]
    BY <2>2, SumsAgree
  <2> QED BY <2>1, <2>3
<1>14. Sums(e)[n + l] = Sums(a)[n] + Sums(b)[l]
  <2>1. l \in 0 .. Len(b)
    BY <1>8
  <2>2. Sums(a \o b)[Len(a) + l] = Total(a) + Sums(b)[l]
    BY <2>1, SumsConcat
  <2> QED BY <1>7, <1>11, <2>2 DEF Total
<1>15. Sums(a)[n] = Sums(d)[n]
  <2>1. n \in Nat /\ n =< Len(a) /\ n =< Len(d) /\ Len(v) \in Nat /\ \A k \in 1 .. n : k \in 1 .. Len(v)
    BY <1>7, <1>10 DEF Word
  <2>2. \A k \in 1 .. n : a[k] = d[k]
    BY <1>2, <1>7, <1>10, <2>1
  <2> QED BY <2>1, <2>2, SumsAgree
<1>16. Sums(d)[n] =< Sums(d)[Len(v)] /\ Sums(d)[n] \in Nat /\ Sums(d)[Len(v)] \in Nat
  <2>1. PICK L \in 0 .. Len(d) : L = Len(v) /\ n \in 0 .. L /\ n \in 0 .. Len(d)
    BY <1>10
  <2> QED BY <2>1, SumsGrow, SumsTyped
<1>17. WordBytes(z) = Sums(d)[n] + l
  BY <1>3, <1>5, <1>8, <1>9, <1>13, <1>14, <1>15
<1>18. WordBytes(z) =< WordBytes(v) + l
  BY <1>10, <1>16, <1>17
<1> QED BY <1>1, <1>4, <1>5, <1>6, <1>18

\* What a pair's value gains when it is passed on.
Grows(p, text) == IF NamesApplication(p) THEN Len(Suffix(text)) + Replaced(p.val) ELSE 0

\* And by no more than that.
LEMMA ValueGrows ==
    ASSUME NEW p \in Pair, NEW text, Fitting(text)
    PROVE  /\ Grows(p, text) \in Nat
           /\ WordBytes(RewrittenValue(p, text)) =< WordBytes(p.val) + Grows(p, text)
<1>1. PICK w \in Word : w = p.val
  BY DEF Pair
<1>2. PICK a \in Nat, b \in Nat : a = WordBytes(w) /\ b = Replaced(w)
  BY CharBytesTyped, LossyBytes
<1>3. PICK v \in Word : v = Lossy(w)
  BY LossyWord
<1>4. PICK c \in Nat : c = WordBytes(v) /\ c =< a + b
  BY <1>2, <1>3, CharBytesTyped, LossyBytes
<1>5. PICK y \in Seq(Printable) : y = Suffix(text)
  BY SuffixIs DEF Fitting
<1>6. PICK l \in Nat : l = Len(y)
  OBVIOUS
<1>7. PICK n \in 0 .. Len(v) : FormatApplicationName(v, text) = SubSeq(v, 1, n) \o y
  BY <1>5, Formatted DEF Fitting
<1>8. /\ SubSeq(v, 1, n) \o y \in Word
      /\ WordBytes(SubSeq(v, 1, n) \o y) =< WordBytes(v) + Len(y)
  BY BytesOfBoth
<1>9. PICK d \in Nat : d = WordBytes(SubSeq(v, 1, n) \o y) /\ d =< c + l
  BY <1>4, <1>6, <1>8, CharBytesTyped
<1>10. CASE NamesApplication(p)
  <2>1. Grows(p, text) = l + b
    BY <1>1, <1>2, <1>5, <1>6, <1>10 DEF Grows
  <2>2. WordBytes(RewrittenValue(p, text)) = d
    BY <1>1, <1>3, <1>7, <1>9, <1>10, Zenon DEF RewrittenValue
  <2>3. d =< a + (l + b)
    BY <1>4, <1>9
  <2> QED BY <1>1, <1>2, <2>1, <2>2, <2>3
<1>11. CASE ~NamesApplication(p)
  <2>1. Grows(p, text) = 0 /\ WordBytes(RewrittenValue(p, text)) = a
    BY <1>1, <1>2, <1>11 DEF Grows, RewrittenValue
  <2> QED BY <1>1, <1>2, <2>1
<1> QED BY <1>10, <1>11

\* The bytes of the words of a section, one number each.
WordLens(words) == [k \in DOMAIN words |-> WordBytes(words[k])]

\* They are numbers, and with the NULs add up to the bytes of the section.
LEMMA SectionBytes ==
    ASSUME NEW words \in Seq(Word)
    PROVE  /\ WordLens(words) \in Seq(Nat) /\ Len(WordLens(words)) = Len(words)
           /\ \A k \in 1 .. Len(words) : WordLens(words)[k] = WordBytes(words[k])
           /\ Bytes(words) = Len(words) - 1 + Sums(WordLens(words))[Len(words)]
<1>1. Len(words) \in Nat /\ DOMAIN words = 1 .. Len(words) /\ \A k \in 1 .. Len(words) : words[k] \in Word
  OBVIOUS
<1>2. \A k \in 1 .. Len(words) : WordBytes(words[k]) \in Nat
  BY <1>1, CharBytesTyped
<1>3. WordLens(words) = [k \in 1 .. Len(words) |-> WordBytes(words[k])]
  BY <1>1 DEF WordLens
<1>4. WordLens(words) \in Seq(Nat) /\ Len(WordLens(words)) = Len(words)
  BY <1>1, <1>2, <1>3
<1>5. Bytes(words) = Len(words) - 1 + Sums(WordLens(words))[Len(words)]
  BY <1>4, Zenon DEF Bytes, Total, WordLens
<1> QED BY <1>3, <1>4, <1>5

\* The terminator of a section takes a byte for each NUL.
LEMMA TerminatedBytes ==
    ASSUME NEW words \in Seq(Word), NEW n \in Nat, Terminated(words, n)
    PROVE  /\ Sums(WordLens(words))[2 * n] \in Nat
           /\ Bytes(words) = 2 * n + 1 + Sums(WordLens(words))[2 * n]
<1>1. PICK s \in Seq(Nat) : /\ s = WordLens(words) /\ Len(s) = Len(words)
                            /\ \A k \in 1 .. Len(words) : s[k] = WordBytes(words[k])
                            /\ Bytes(words) = Len(words) - 1 + Sums(s)[Len(words)]
  BY SectionBytes
<1>2. PICK a \in Nat : a = 2 * n /\ a + 2 = 2 * n + 2
  OBVIOUS
<1>3. Len(words) = a + 2 /\ words[a + 1] = <<>> /\ words[a + 2] = <<>>
  BY <1>2, Zenon DEF Terminated
<1>4. WordBytes(<<>>) = 0
  <2>1. <<>> \in Seq(Printable) /\ Len(<<>>) = 0
    OBVIOUS
  <2> QED BY <2>1, PrintableBytes
<1>5. s[a + 1] = 0 /\ s[a + 2] = 0
  <2>1. a + 1 \in 1 .. Len(words) /\ a + 2 \in 1 .. Len(words)
    BY <1>3
  <2> QED BY <1>1, <1>3, <1>4, <2>1
<1>6. Sums(s)[a] \in Nat /\ Sums(s)[a + 2] = Sums(s)[a] + s[a + 1] + s[a + 2]
  <2>1. a + 2 =< Len(s)
    BY <1>1, <1>3
  <2> QED BY <2>1, SumsNextTwo
<1>7. Bytes(words) = a + 2 - 1 + Sums(s)[a + 2]
  BY <1>1, <1>3
<1>8. PICK x \in Nat : x = Sums(s)[a] /\ Sums(s)[a + 2] = x
  BY <1>5, <1>6
<1>9. Bytes(words) = a + 1 + x
  BY <1>7, <1>8
<1> QED BY <1>1, <1>2, <1>8, <1>9

\* The parameter that is added: its name, a blank and the address.
LEMMA AddedBytes ==
    ASSUME NEW text, Fitting(text)
    PROVE  /\ WordBytes(ApplicationName) = Len(ApplicationName) /\ Len(text) \in Nat
           /\ WordBytes(TrimStart(FormatApplicationName(<<>>, text))) = Len(text) + 1
<1>1. text \in Seq(Printable)
  BY DEF Fitting
<1>2. ApplicationName \in Seq(Printable)
  <2>1. "n" \in Printable
    BY DEF Printable
  <2> QED BY <2>1, OneElement DEF ApplicationName
<1>3. PICK e \in Printable : e = " "
  BY DEF Printable
<1>4. PICK x \in Seq(Printable) : x = <<e>> /\ Len(x) = 1
  BY OneElement
<1>5. PICK v : v = x \o text
  OBVIOUS
<1>6. v \in Seq(Printable) /\ Len(v) = Len(x) + Len(text)
  BY <1>1, <1>5, ConcatProperties
<1>7. PICK l \in Nat : l = Len(text) /\ Len(v) = l + 1
  BY <1>1, <1>4, <1>6
<1>8. WordBytes(v) = l + 1
  BY <1>6, <1>7, PrintableBytes
<1>9. TrimStart(FormatApplicationName(<<>>, text)) = v
  BY <1>3, <1>4, <1>5, TrimmedStored, Zenon DEF Fitting
<1> QED BY <1>2, <1>7, <1>8, <1>9, PrintableBytes

(***************************************************************************)
(* The result is longer than a message that PostgreSQL takes by what the   *)
(* values of application_name gain, or by the parameter added.             *)
(***************************************************************************)
LEMMA GrowthIsBounded ==
    ASSUME NEW words \in Seq(Word) \ {<<>>}, NEW text, Fitting(text), NEW out,
           out = InjectIpStartup(words, text), PgLayoutOK(words),
           NEW P, P = Pairs(words)
    PROVE  Bytes(out) =< Bytes(words) +
              (IF FoundAppName(P) THEN Total([k \in DOMAIN P |-> Grows(P[k], text)])
               ELSE Len(ApplicationName) + Len(text) + 3)
<1>1. PICK l \in Nat : Terminated(words, l) /\ IsPgPairs(words, l)
  BY LayoutTerminated
<1>2. P \in Seq(Pair) /\ P = PgPairs(words) /\ Len(P) = l /\ \A k \in 1 .. l : ~Skipped(P[k])
  BY <1>1, PairsTyped, TerminatedPairs
<1>3. \A k \in 1 .. l : P[k] = [key |-> words[2 * k - 1], val |-> words[2 * k]]
  BY <1>1, <1>2, Zenon DEF IsPgPairs
<1>4. PICK m, g, n : Rewrites(out, P, text, m, g, n)
  BY <1>2, InjectRewrites
<1>5. n \in Nat /\ out \in Seq(Word) /\ Terminated(out, n)
  BY <1>4, Zenon DEF Rewrites
<1>6. PICK Q \in Seq(Pair) : /\ Q = PgPairs(out) /\ Len(Q) = n
                             /\ \A k \in 1 .. n : Q[k] = [key |-> out[2 * k - 1], val |-> out[2 * k]]
  BY <1>5, TerminatedOK DEF IsPgPairs
<1>7. /\ m \in Nat /\ m =< n
      /\ \A j \in 1 .. m : Q[j].key = P[g[j]].key /\ Q[j].val = RewrittenValue(P[g[j]], text)
      /\ (\A q \in 1 .. Len(P) : ~Skipped(P[q])) => m = Len(P) /\ \A j \in 1 .. m : g[j] = j
      /\ FoundAppName(P) => n = m
      /\ ~FoundAppName(P) =>
            /\ n = m + 1 /\ Q[n].key = ApplicationName
            /\ Q[n].val = TrimStart(FormatApplicationName(<<>>, text))
  <2>1. Reads(Q, P, text, m, g, n)
    BY <1>2, <1>4, <1>6, RewrittenRead
  <2> QED BY <2>1, Zenon DEF Reads
<1>8. m = l /\ \A j \in 1 .. l : g[j] = j
  BY <1>2, <1>7, Zenon
<1>9. Len(words) = 2 * l + 2 /\ Len(out) = 2 * n + 2
  BY <1>1, <1>5, Zenon DEF Terminated
<1>10. ASSUME NEW k \in 1 .. l
       PROVE  /\ P[k] \in Pair /\ k \in 1 .. n
              /\ 2 * k - 1 \in 1 .. Len(words) /\ 2 * k \in 1 .. Len(words)
              /\ 2 * k - 1 \in 1 .. Len(out) /\ 2 * k \in 1 .. Len(out)
              /\ words[2 * k - 1] = P[k].key /\ words[2 * k] = P[k].val
              /\ out[2 * k - 1] = P[k].key /\ out[2 * k] = RewrittenValue(P[k], text)
  <2>1. /\ k \in 1 .. n
        /\ 2 * k - 1 \in 1 .. Len(words) /\ 2 * k \in 1 .. Len(words)
        /\ 2 * k - 1 \in 1 .. Len(out) /\ 2 * k \in 1 .. Len(out)
    BY <1>5, <1>7, <1>8, <1>9
  <2>2. words[2 * k - 1] = P[k].key /\ words[2 * k] = P[k].val
    <3>1. PICK a, b : a = words[2 * k - 1] /\ b = words[2 * k]
      OBVIOUS
    <3>2. P[k] = [key |-> a, val |-> b]
      BY <1>3, <3>1, Zenon
    <3>3. PICK p : p = P[k] /\ p = [key |-> a, val |-> b]
      BY <3>2, Zenon
    <3>4. p.key = a /\ p.val = b
      BY <3>3
    <3> QED BY <3>1, <3>3, <3>4, Zenon
  <2>3. Q[k].key = out[2 * k - 1] /\ Q[k].val = out[2 * k]
    BY <1>6, <2>1
  <2>4. Q[k].key = P[k].key /\ Q[k].val = RewrittenValue(P[k], text)
    BY <1>7, <1>8
  <2>5. P[k] \in Pair
    BY <1>2
  <2> QED BY <2>1, <2>2, <2>3, <2>4, <2>5, Zenon
<1>11. PICK u \in Seq(Nat) : /\ u = [k \in DOMAIN P |-> Grows(P[k], text)] /\ Len(u) = l
                             /\ \A k \in 1 .. l : u[k] = Grows(P[k], text)
  <2>1. DOMAIN P = 1 .. l
    BY <1>2
  <2>2. \A k \in 1 .. l : Grows(P[k], text) \in Nat
    BY <1>10, ValueGrows
  <2>3. PICK u : u = [k \in 1 .. l |-> Grows(P[k], text)]
    OBVIOUS
  <2>4. u \in Seq(Nat) /\ Len(u) = l /\ \A k \in 1 .. l : u[k] = Grows(P[k], text)
    BY <2>2, <2>3
  <2> QED BY <2>1, <2>3, <2>4, Zenon
<1>12. PICK s \in Seq(Nat) : /\ s = WordLens(out) /\ Len(s) = Len(out)
                             /\ \A k \in 1 .. Len(out) : s[k] = WordBytes(out[k])
  BY <1>5, SectionBytes
<1>13. PICK t \in Seq(Nat) : /\ t = WordLens(words) /\ Len(t) = Len(words)
                             /\ \A k \in 1 .. Len(words) : t[k] = WordBytes(words[k])
  BY SectionBytes
<1>14. Sums(s)[2 * l] =< Sums(t)[2 * l] + Sums(u)[l]
  <2>1. ASSUME NEW k \in 1 .. l PROVE s[2 * k - 1] = t[2 * k - 1] /\ s[2 * k] =< t[2 * k] + u[k]
    <3>1. PICK i \in 1 .. Len(words), j \in 1 .. Len(words) :
             /\ i = 2 * k - 1 /\ j = 2 * k /\ i \in 1 .. Len(out) /\ j \in 1 .. Len(out)
      BY <1>10
    <3>2. /\ s[i] = WordBytes(out[i]) /\ s[j] = WordBytes(out[j])
          /\ t[i] = WordBytes(words[i]) /\ t[j] = WordBytes(words[j])
      BY <1>12, <1>13, <3>1, Zenon
    <3>3. /\ words[i] = P[k].key /\ words[j] = P[k].val
          /\ out[i] = P[k].key /\ out[j] = RewrittenValue(P[k], text)
      BY <1>10, <3>1, Zenon
    <3>4. s[2 * k - 1] = t[2 * k - 1]
      BY <3>1, <3>2, <3>3, Zenon
    <3>5. /\ s[2 * k] = WordBytes(RewrittenValue(P[k], text)) /\ t[2 * k] = WordBytes(P[k].val)
          /\ u[k] = Grows(P[k], text)
      BY <1>11, <3>1, <3>2, <3>3, Zenon
    <3>6. WordBytes(RewrittenValue(P[k], text)) =< WordBytes(P[k].val) + Grows(P[k], text)
      BY <1>10, ValueGrows
    <3> QED BY <3>4, <3>5, <3>6
  <2>2. 2 * l =< Len(s) /\ 2 * l =< Len(t) /\ l =< Len(u)
    BY <1>5, <1>7, <1>8, <1>9, <1>11, <1>12, <1>13
  <2> QED BY <2>1, <2>2, SumsInPairs
<1>15. PICK x \in Nat : x = Sums(t)[2 * l] /\ Bytes(words) = 2 * l + 1 + x
  BY <1>1, <1>13, TerminatedBytes
<1>16. Sums(s)[2 * n] \in Nat /\ Bytes(out) = 2 * n + 1 + Sums(s)[2 * n]
  BY <1>5, <1>12, TerminatedBytes
<1>17. CASE FoundAppName(P)
  <2>1. n = l
    BY <1>7, <1>8, <1>17
  <2>2. PICK z \in Nat : z = Sums(u)[l]
    <3>1. l \in 0 .. Len(u)
      BY <1>11
    <3> QED BY <3>1, SumsTyped
  <2>3. PICK y \in Nat : y = Sums(s)[2 * l] /\ Bytes(out) = 2 * l + 1 + y
    BY <1>16, <2>1
  <2>4. y =< x + z
    BY <1>14, <1>15, <2>2, <2>3
  <2>5. Bytes(out) =< Bytes(words) + z
    <3>1. 2 * l + 1 + y =< 2 * l + 1 + x + z
      BY <2>4
    <3> QED BY <1>15, <2>3, <3>1, Zenon
  <2>6. Total([k \in DOMAIN P |-> Grows(P[k], text)]) = z
    BY <1>11, <2>2, Zenon DEF Total
  <2> QED BY <1>17, <2>5, <2>6, Zenon
<1>18. CASE ~FoundAppName(P)
  <2>1. Sums(u)[l] = 0
    <3>1. ASSUME NEW k \in 1 .. Len(u) PROVE u[k] = 0
      <4>1. k \in 1 .. l /\ k \in DOMAIN P
        BY <1>2, <1>11
      <4>2. ~NamesApplication(P[k])
        BY <1>2, <1>18, <4>1, Zenon DEF FoundAppName
      <4> QED BY <1>11, <4>1, <4>2 DEF Grows
    <3>2. l \in 0 .. Len(u)
      BY <1>11
    <3> QED BY <3>1, <3>2, SumsOfZeros
  <2>2. PICK a \in Nat : a = 2 * l /\ 2 * n = a + 2 /\ 2 * n - 1 = a + 1 /\ n \in 1 .. n /\ n = l + 1
    BY <1>7, <1>8, <1>18
  <2>3. out[a + 1] = ApplicationName /\ out[a + 2] = TrimStart(FormatApplicationName(<<>>, text))
    <3>1. Q[n].key = out[2 * n - 1] /\ Q[n].val = out[2 * n]
      BY <1>6, <2>2
    <3> QED BY <1>7, <1>18, <2>2, <3>1, Zenon
  <2>4. PICK c \in Nat, d \in Nat : c = Len(ApplicationName) /\ d = Len(text)
    BY Names, AddedBytes
  <2>5. s[a + 1] = c /\ s[a + 2] = d + 1
    <3>1. a + 1 \in 1 .. Len(out) /\ a + 2 \in 1 .. Len(out)
      BY <1>9, <2>2
    <3>2. s[a + 1] = WordBytes(out[a + 1]) /\ s[a + 2] = WordBytes(out[a + 2])
      BY <1>12, <3>1
    <3> QED BY <2>3, <2>4, <3>2, AddedBytes
  <2>6. Sums(s)[a] \in Nat /\ Sums(s)[a + 2] = Sums(s)[a] + s[a + 1] + s[a + 2]
    <3>1. a + 2 =< Len(s)
      BY <1>9, <1>12, <2>2
    <3> QED BY <3>1, SumsNextTwo
  <2>7. PICK y \in Nat : y = Sums(s)[a]
    BY <2>6
  <2>8. y =< x
    BY <1>14, <1>15, <2>1, <2>2, <2>7
  <2>9. Sums(s)[2 * n] = y + c + (d + 1)
    BY <2>2, <2>5, <2>6, <2>7
  <2>10. Bytes(out) = a + 2 + 1 + (y + c + (d + 1)) /\ Bytes(words) = a + 1 + x
    BY <1>15, <1>16, <2>2, <2>9
  <2>11. Bytes(out) =< Bytes(words) + (c + d + 3)
    BY <2>8, <2>10
  <2> QED BY <1>18, <2>4, <2>11, Zenon
<1> QED BY <1>17, <1>18
=============================================================================
