-------------------------- MODULE InstallArgsProofs --------------------------
(***************************************************************************)
(* Theorems about InstallArgs, for every command line, every profile file  *)
(* and every list of modules.                                              *)
(***************************************************************************)
EXTENDS InstallArgs, SequenceTheorems, NaturalsInduction, WellFoundedInduction, TLAPS

(***************************************************************************)
(* Induction over an initial segment of the numbers, for the set of those  *)
(* that satisfy what is proved.                                            *)
(***************************************************************************)
\* A set of numbers that is not empty has a least one.
LEMMA LeastElement ==
  ASSUME NEW T \in SUBSET Nat, T # {}
  PROVE  \E x \in T : \A y \in T : x <= y
<1>1. \E x \in T : \A y \in T : ~(<<y, x>> \in OpToRel(<, Nat))
  BY NatLessThanWellFounded, WFMin, Zenon
<1>2. PICK x \in T : \A y \in T : ~(<<y, x>> \in OpToRel(<, Nat))
  BY <1>1
<1>3. \A y \in T : ~(y < x)
  BY <1>2 DEF OpToRel
<1> QED
  BY <1>3

\* Induction up to n, for a set of the numbers that satisfy what is proved.
LEMMA UpTo ==
  ASSUME NEW n \in Nat, NEW Good \in SUBSET (0..n), 0 \in Good,
         \A i \in Good : i < n => i + 1 \in Good
  PROVE  Good = 0..n
<1> SUFFICES ASSUME NEW j \in 0..n, j \notin Good PROVE FALSE
  OBVIOUS
<1> DEFINE T == {i \in 0..n : i \notin Good}
<1>1. T \in SUBSET Nat /\ T # {}
  OBVIOUS
<1>2. PICK x \in T : \A y \in T : x <= y
  <2> HIDE DEF T
  <2> QED BY <1>1, LeastElement
<1>3. x - 1 \in 0..n /\ x - 1 \notin T
  BY <1>2
<1> QED
  BY <1>2, <1>3

-----------------------------------------------------------------------------
(***************************************************************************)
(* Keep, the loops that build REQUESTED and SELECTED.                      *)
(***************************************************************************)
\* The recursion that Keep unfolds has a solution.
LEMMA KeptExists ==
  ASSUME NEW S, NEW s, Len(s) \in Nat
  PROVE  \E f : f = [i \in 0..Len(s) |->
                 IF i = 0 THEN << >>
                 ELSE IF s[i] \in S THEN Append(f[i - 1], s[i]) ELSE f[i - 1]]
<1> DEFINE Body(f, i) == IF i = 0 THEN << >>
                         ELSE IF s[i] \in S THEN Append(f[i - 1], s[i]) ELSE f[i - 1]
           Fun(n) == \E f : f = [i \in 0..n |-> Body(f, i)]
           Good == {n \in 0..Len(s) : Fun(n)}
<1>1. 0 \in Good
  <2> DEFINE g == [i \in 0..0 |-> << >>]
  <2>1. \A i \in 0..0 : g[i] = Body(g, i)
    OBVIOUS
  <2>2. g = [i \in 0..0 |-> g[i]]
    OBVIOUS
  <2>3. Fun(0)
    <3> HIDE DEF Body, g
    <3> QED BY <2>1, <2>2
  <2> HIDE DEF Fun
  <2> QED BY <2>3
<1>2. ASSUME NEW n \in Good, n < Len(s) PROVE n + 1 \in Good
  <2>1. PICK f : f = [i \in 0..n |-> Body(f, i)]
    OBVIOUS
  <2> DEFINE g == [i \in 0..(n + 1) |-> IF i = n + 1 THEN Body(f, i) ELSE f[i]]
  <2>2. \A i \in 0..n : g[i] = f[i]
    BY <1>2
  <2>3. \A i \in 0..(n + 1) : Body(g, i) = Body(f, i)
    <3> SUFFICES ASSUME NEW i \in 0..(n + 1) PROVE Body(g, i) = Body(f, i)
      OBVIOUS
    <3>1. i # 0 => i - 1 \in 0..n
      OBVIOUS
    <3>2. i # 0 => g[i - 1] = f[i - 1]
      BY <2>2, <3>1
    <3> HIDE DEF g
    <3> QED BY <3>2
  <2>4. \A i \in 0..n : f[i] = Body(f, i)
    <3> HIDE DEF Body
    <3> QED BY <2>1
  <2>5. g = [i \in 0..(n + 1) |-> Body(g, i)]
    <3>1. \A i \in 0..(n + 1) : g[i] = Body(f, i)
      <4> HIDE DEF Body
      <4> QED BY <2>4
    <3>2. \A i \in 0..(n + 1) : g[i] = Body(g, i)
      <4> HIDE DEF Body, g
      <4> QED BY <2>3, <3>1
    <3>3. g = [i \in 0..(n + 1) |-> g[i]]
      OBVIOUS
    <3> HIDE DEF Body, g
    <3> QED BY <3>2, <3>3
  <2>6. Fun(n + 1)
    <3> HIDE DEF Body, g
    <3> QED BY <2>5
  <2> HIDE DEF Fun
  <2> QED BY <1>2, <2>6
<1>3. Good = 0..Len(s)
  <2>1. Good \in SUBSET (0..Len(s)) /\ \A i \in Good : i < Len(s) => i + 1 \in Good
    BY <1>2
  <2> HIDE DEF Good
  <2> QED BY <1>1, <2>1, UpTo
<1> QED
  BY <1>3

\* Keep by its recursion: F[i] are the elements kept of the first i.
LEMMA KeepIs ==
  ASSUME NEW S, NEW s, Len(s) \in Nat
  PROVE  \E F : /\ Keep(s, S) = F[Len(s)]
                /\ F[0] = << >>
                /\ \A i \in 1..Len(s) :
                     F[i] = IF s[i] \in S THEN Append(F[i - 1], s[i]) ELSE F[i - 1]
<1> DEFINE Body(f, i) == IF i = 0 THEN << >>
                         ELSE IF s[i] \in S THEN Append(f[i - 1], s[i]) ELSE f[i - 1]
           Fun(f) == [i \in 0..Len(s) |-> Body(f, i)]
           F == CHOOSE f : f = Fun(f)
<1>1. \E f : f = Fun(f)
  BY KeptExists
<1>2. F = Fun(F)
  <2> HIDE DEF Fun
  <2> QED BY <1>1
<1>3. Keep(s, S) = F[Len(s)]
  BY DEF Keep
<1> HIDE DEF F
<1>4. \A i \in 0..Len(s) : F[i] = Body(F, i)
  <2> HIDE DEF Body
  <2> QED BY <1>2
<1>5. F[0] = << >>
  BY <1>4
<1>6. \A i \in 1..Len(s) :
        F[i] = IF s[i] \in S THEN Append(F[i - 1], s[i]) ELSE F[i - 1]
  BY <1>4
<1> QED
  BY <1>3, <1>5, <1>6

\* g is what a loop that keeps the elements of S has kept of the first n of s.
KeptOf(s, S, n, g) ==
  /\ \A k \in 1..Len(g) : \E c \in 1..n : s[c] = g[k] /\ s[c] \in S
  /\ \A c \in 1..n : s[c] \in S => \E k \in 1..Len(g) : g[k] = s[c]
  /\ \A j, k \in 1..Len(g) : j < k => \E c, d \in 1..n : c < d /\ s[c] = g[j] /\ s[d] = g[k]

\* One turn of the loop.
LEMMA KeptOfStep ==
  ASSUME NEW T, NEW S, NEW s \in Seq(T), NEW n \in Nat, n < Len(s),
         NEW g \in Seq(T), KeptOf(s, S, n, g),
         NEW h, h = IF s[n + 1] \in S THEN Append(g, s[n + 1]) ELSE g
  PROVE  h \in Seq(T) /\ KeptOf(s, S, n + 1, h)
<1>1. n + 1 \in 1..Len(s) /\ \A c \in 1..n : c \in 1..(n + 1) /\ c < n + 1
  OBVIOUS
<1>a. \A k \in 1..Len(g) : \E c \in 1..n : s[c] = g[k] /\ s[c] \in S
  BY Zenon DEF KeptOf
<1>b. \A c \in 1..n : s[c] \in S => \E k \in 1..Len(g) : g[k] = s[c]
  BY Zenon DEF KeptOf
<1>c. \A j, k \in 1..Len(g) : j < k => \E c, d \in 1..n : c < d /\ s[c] = g[j] /\ s[d] = g[k]
  BY Zenon DEF KeptOf
<1>2. PICK x \in T : x = s[n + 1]
  BY <1>1
<1>3. CASE x \notin S
  <2>1. h = g
    BY <1>2, <1>3
  <2>2. \A c \in 1..(n + 1) : s[c] \in S => c \in 1..n
    BY <1>2, <1>3
  <2>3. \A k \in 1..Len(g) : \E c \in 1..(n + 1) : s[c] = g[k] /\ s[c] \in S
    BY <1>1, <1>a, Zenon
  <2>4. \A c \in 1..(n + 1) : s[c] \in S => \E k \in 1..Len(g) : g[k] = s[c]
    BY <1>b, <2>2, Zenon
  <2>5. \A j, k \in 1..Len(g) : j < k =>
          \E c, d \in 1..(n + 1) : c < d /\ s[c] = g[j] /\ s[d] = g[k]
    <3>1. ASSUME NEW j \in 1..Len(g), NEW k \in 1..Len(g), j < k
          PROVE  \E c, d \in 1..(n + 1) : c < d /\ s[c] = g[j] /\ s[d] = g[k]
      <4>1. PICK c \in 1..n, d \in 1..n : c < d /\ s[c] = g[j] /\ s[d] = g[k]
        BY <1>c, <3>1, Zenon
      <4> QED BY <1>1, <4>1
    <3> QED BY <3>1
  <2>6. KeptOf(s, S, n + 1, g)
    BY <2>3, <2>4, <2>5, Zenon DEF KeptOf
  <2> QED BY <2>1, <2>6
<1>4. CASE x \in S
  <2>0. PICK m \in Nat : m = Len(g)
    OBVIOUS
  <2>1. /\ h \in Seq(T) /\ Len(h) = m + 1 /\ h[m + 1] = x
        /\ \A k \in 1..m : h[k] = g[k]
    BY <1>2, <1>4, <2>0, AppendProperties
  <2>2. \A k \in 1..(m + 1) : k = m + 1 \/ k \in 1..m
    OBVIOUS
  <2>3. \A c \in 1..(n + 1) : c = n + 1 \/ c \in 1..n
    OBVIOUS
  <2>4. m + 1 \in 1..(m + 1) /\ n + 1 \in 1..(n + 1) /\ \A k \in 1..m : k \in 1..(m + 1)
    OBVIOUS
  <2>5. \A k \in 1..(m + 1) : \E c \in 1..(n + 1) : s[c] = h[k] /\ s[c] \in S
    <3>1. ASSUME NEW k \in 1..m PROVE \E c \in 1..(n + 1) : s[c] = h[k] /\ s[c] \in S
      <4>1. PICK c \in 1..n : s[c] = g[k] /\ s[c] \in S
        BY <1>a, <2>0, <3>1, Zenon
      <4>2. c \in 1..(n + 1) /\ h[k] = g[k]
        BY <1>1, <2>1, <3>1
      <4> QED BY <4>1, <4>2
    <3>2. s[n + 1] = h[m + 1] /\ s[n + 1] \in S
      BY <1>2, <1>4, <2>1
    <3> QED BY <2>2, <2>4, <3>1, <3>2, Zenon
  <2>6. \A c \in 1..(n + 1) : s[c] \in S => \E k \in 1..(m + 1) : h[k] = s[c]
    BY <1>2, <1>b, <2>0, <2>1, <2>3, <2>4, Zenon
  <2>7. ASSUME NEW j \in 1..(m + 1), NEW k \in 1..(m + 1), j < k
        PROVE  \E c, d \in 1..(n + 1) : c < d /\ s[c] = h[j] /\ s[d] = h[k]
    <3>1. j \in 1..m
      BY <2>7
    <3>2. CASE k \in 1..m
      <4>1. PICK c \in 1..n, d \in 1..n : c < d /\ s[c] = g[j] /\ s[d] = g[k]
        BY <1>c, <2>0, <2>7, <3>1, <3>2, Zenon
      <4> QED BY <1>1, <2>1, <3>1, <3>2, <4>1
    <3>3. CASE k = m + 1
      <4>1. PICK c \in 1..n : s[c] = g[j]
        BY <1>a, <2>0, <3>1, Zenon
      <4> QED BY <1>1, <1>2, <2>1, <2>4, <3>1, <3>3, <4>1
    <3> QED BY <2>2, <3>2, <3>3
  <2>8. KeptOf(s, S, n + 1, h)
    <3>1. Len(h) = m + 1
      BY <2>1
    <3>2. \A k \in 1..Len(h) : \E c \in 1..(n + 1) : s[c] = h[k] /\ s[c] \in S
      BY <2>5, <3>1
    <3>3. \A c \in 1..(n + 1) : s[c] \in S => \E k \in 1..Len(h) : h[k] = s[c]
      BY <2>6, <3>1
    <3>4. \A j, k \in 1..Len(h) : j < k =>
            \E c, d \in 1..(n + 1) : c < d /\ s[c] = h[j] /\ s[d] = h[k]
      <4> SUFFICES ASSUME NEW j \in 1..Len(h), NEW k \in 1..Len(h), j < k
                   PROVE  \E c, d \in 1..(n + 1) : c < d /\ s[c] = h[j] /\ s[d] = h[k]
        BY Zenon
      <4>1. j \in 1..(m + 1) /\ k \in 1..(m + 1)
        BY <3>1
      <4> QED BY <2>7, <4>1, Zenon
    <3> QED BY <3>2, <3>3, <3>4, Zenon DEF KeptOf
  <2> QED BY <2>1, <2>8
<1> QED
  BY <1>3, <1>4

\* The whole loop.
LEMMA KeepKept ==
  ASSUME NEW T, NEW S, NEW s \in Seq(T)
  PROVE  Keep(s, S) \in Seq(T) /\ KeptOf(s, S, Len(s), Keep(s, S))
<1>0. PICK n \in Nat : n = Len(s)
  OBVIOUS
<1>1. PICK F : /\ Keep(s, S) = F[n] /\ F[0] = << >>
               /\ \A i \in 1..n :
                    F[i] = IF s[i] \in S THEN Append(F[i - 1], s[i]) ELSE F[i - 1]
  BY <1>0, KeepIs
<1> DEFINE Good == {i \in 0..n : F[i] \in Seq(T) /\ KeptOf(s, S, i, F[i])}
<1>2. 0 \in Good
  <2>1. << >> \in Seq(T) /\ Len(<< >>) = 0
    OBVIOUS
  <2>2. F[0] \in Seq(T) /\ Len(F[0]) = 0
    BY <1>1, <2>1
  <2>3. KeptOf(s, S, 0, F[0])
    BY <2>2 DEF KeptOf
  <2> QED BY <2>2, <2>3
<1>3. ASSUME NEW i \in Good, i < n PROVE i + 1 \in Good
  <2>1. i \in Nat /\ i + 1 \in 1..n /\ (i + 1) - 1 = i /\ i + 1 \in 0..n
    BY <1>3
  <2>2. F[i + 1] = IF s[i + 1] \in S THEN Append(F[i], s[i + 1]) ELSE F[i]
    BY <1>1, <2>1
  <2>3. PICK g \in Seq(T) : g = F[i] /\ KeptOf(s, S, i, g)
    BY <1>3
  <2>4. PICK h : h = F[i + 1]
    OBVIOUS
  <2>5. h = IF s[i + 1] \in S THEN Append(g, s[i + 1]) ELSE g
    BY <2>2, <2>3, <2>4
  <2>6. h \in Seq(T) /\ KeptOf(s, S, i + 1, h)
    BY <1>0, <1>3, <2>1, <2>3, <2>5, KeptOfStep
  <2> QED BY <2>1, <2>4, <2>6
<1>4. n \in Good
  <2>1. Good \in SUBSET (0..n) /\ \A i \in Good : i < n => i + 1 \in Good
    BY <1>3
  <2>2. n \in 0..n
    OBVIOUS
  <2> HIDE DEF Good
  <2> QED BY <1>2, <2>1, <2>2, UpTo
<1> QED
  BY <1>0, <1>1, <1>4

\* A loop keeps exactly the elements of the set, each pair in its order, and
\* repeats nothing that was not repeated.
LEMMA KeepSelects ==
  ASSUME NEW T, NEW S, NEW s \in Seq(T)
  PROVE  /\ Keep(s, S) \in Seq(T)
         /\ ToSet(Keep(s, S)) = ToSet(s) \cap S
         /\ \A j, k \in 1..Len(Keep(s, S)) : j < k =>
              \E c, d \in 1..Len(s) : c < d /\ s[c] = Keep(s, S)[j] /\ s[d] = Keep(s, S)[k]
         /\ IsInjective(s) => IsInjective(Keep(s, S))
<1>0. PICK g \in Seq(T) : g = Keep(s, S) /\ KeptOf(s, S, Len(s), g)
  BY KeepKept
<1>1. DOMAIN g = 1..Len(g) /\ DOMAIN s = 1..Len(s) /\ Len(g) \in Nat /\ Len(s) \in Nat
  OBVIOUS
<1>2. ToSet(g) = ToSet(s) \cap S
  <2>1. ASSUME NEW k \in DOMAIN g PROVE g[k] \in ToSet(s) \cap S
    <3>1. PICK c \in 1..Len(s) : s[c] = g[k] /\ s[c] \in S
      BY <1>0, <1>1, <2>1, Zenon DEF KeptOf
    <3> QED BY <1>1, <3>1 DEF ToSet
  <2>2. ASSUME NEW c \in DOMAIN s, s[c] \in S PROVE s[c] \in ToSet(g)
    <3>1. PICK k \in 1..Len(g) : g[k] = s[c]
      BY <1>0, <1>1, <2>2, Zenon DEF KeptOf
    <3> QED BY <1>1, <3>1 DEF ToSet
  <2>3. ToSet(g) \subseteq ToSet(s) \cap S
    BY <2>1, Zenon DEF ToSet
  <2>4. ToSet(s) \cap S \subseteq ToSet(g)
    BY <2>2, Zenon DEF ToSet
  <2> QED BY <2>3, <2>4
<1>3. \A j, k \in 1..Len(g) : j < k =>
        \E c, d \in 1..Len(s) : c < d /\ s[c] = g[j] /\ s[d] = g[k]
  BY <1>0, Zenon DEF KeptOf
<1>4. ASSUME IsInjective(s), NEW j \in 1..Len(g), NEW k \in 1..Len(g), g[j] = g[k], j < k
      PROVE  FALSE
  <2>1. PICK c \in 1..Len(s), d \in 1..Len(s) : c < d /\ s[c] = g[j] /\ s[d] = g[k]
    BY <1>3, <1>4
  <2>2. c = d
    BY <1>1, <1>4, <2>1 DEF IsInjective
  <2> QED BY <1>1, <2>1, <2>2
<1>5. IsInjective(s) => IsInjective(g)
  <2>1. \A j, k \in 1..Len(g) : j = k \/ j < k \/ k < j
    OBVIOUS
  <2> QED BY <1>1, <1>4, <2>1 DEF IsInjective
<1> QED
  BY <1>0, <1>2, <1>3, <1>5


-----------------------------------------------------------------------------
(***************************************************************************)
(* The parser.  What is left of the command line is its end, after the     *)
(* first k words, and the variables tell what those k words said.          *)
(***************************************************************************)
EndOf(line, k, rest) ==
  /\ Len(rest) = Len(line) - k
  /\ \A i \in 1..Len(rest) : rest[i] = line[k + i]

DryRunSeen(line, k, dry) ==
  \A i \in 1..k : line[i].opt = "--dry-run" =>
                    dry \/ (i > 1 /\ line[i - 1].opt = "--profile")

NamedIn(line, k, name) ==
  \E i \in 1..k : /\ line[i].val = name
                  /\ line[i].opt = "--profile=" \/ (i > 1 /\ line[i - 1].opt = "--profile")

Parsed(k) ==
  /\ EndOf(argv, k, args)
  /\ DryRunSeen(argv, k, dryRun)
  /\ profile # "" => NamedIn(argv, k, profile)

Resolved ==
  /\ args = << >>
  /\ ProfileValid
  /\ selected = Select(Requested(profile))
  /\ outcome = "run" => ~dryRun

ParseInv ==
  /\ argv \in Seq(Words) /\ args \in Seq(Words)
  /\ \E k \in 0..Len(argv) : Parsed(k)
  /\ outcome \in {"run", "dry"} => Resolved

\* A word taken from the front.
LEMMA TakeOne ==
  ASSUME NEW line \in Seq(Words), NEW rest \in Seq(Words), NEW k \in 0..Len(line),
         EndOf(line, k, rest), rest # << >>
  PROVE  /\ k + 1 \in 1..Len(line) /\ k + 1 \in 0..Len(line)
         /\ Head(rest) = line[k + 1]
         /\ Tail(rest) \in Seq(Words) /\ EndOf(line, k + 1, Tail(rest))
<1>0. PICK n \in Nat, m \in Nat : n = Len(line) /\ m = Len(rest) /\ k \in 0..n
  OBVIOUS
<1>1. m = n - k /\ m # 0 /\ \A i \in 1..m : rest[i] = line[k + i]
  BY <1>0 DEF EndOf
<1>2. /\ Head(rest) = rest[1] /\ Tail(rest) \in Seq(Words)
      /\ Len(Tail(rest)) = m - 1 /\ \A i \in 1..(m - 1) : Tail(rest)[i] = rest[i + 1]
  <2>1. Head(rest) = rest[1]
    OBVIOUS
  <2>2. /\ Tail(rest) \in Seq(Words) /\ Len(Tail(rest)) = Len(rest) - 1
        /\ \A i \in 1..Len(Tail(rest)) : Tail(rest)[i] = rest[i + 1]
    BY HeadTailProperties
  <2> QED BY <1>0, <2>1, <2>2
<1>3. 1 \in 1..m /\ k + 1 \in 1..n /\ k + 1 \in 0..n /\ m - 1 = n - (k + 1)
  BY <1>0, <1>1
<1>4. ASSUME NEW i \in 1..(m - 1) PROVE Tail(rest)[i] = line[(k + 1) + i]
  <2>1. i + 1 \in 1..m /\ k + (i + 1) = (k + 1) + i
    BY <1>0, <1>4
  <2> QED BY <1>1, <1>2, <2>1
<1>5. EndOf(line, k + 1, Tail(rest))
  <2>1. Len(Tail(rest)) = m - 1 /\ Len(Tail(rest)) = Len(line) - (k + 1)
    BY <1>0, <1>2, <1>3
  <2>2. \A i \in 1..Len(Tail(rest)) : Tail(rest)[i] = line[(k + 1) + i]
    BY <1>4, <2>1
  <2> QED BY <2>1, <2>2, Zenon DEF EndOf
<1> QED
  BY <1>0, <1>1, <1>2, <1>3, <1>5

\* The word after --profile goes with it.
LEMMA TakeTwo ==
  ASSUME NEW line \in Seq(Words), NEW rest \in Seq(Words), NEW k \in 0..Len(line),
         EndOf(line, k, rest), Len(rest) >= 2
  PROVE  /\ k + 2 \in 1..Len(line) /\ k + 2 \in 0..Len(line)
         /\ rest[2] = line[k + 2]
         /\ SubSeq(rest, 3, Len(rest)) \in Seq(Words)
         /\ EndOf(line, k + 2, SubSeq(rest, 3, Len(rest)))
<1>0. PICK n \in Nat, m \in Nat : n = Len(line) /\ m = Len(rest) /\ k \in 0..n
  OBVIOUS
<1>1. m = n - k /\ m >= 2 /\ \A i \in 1..m : rest[i] = line[k + i]
  BY <1>0 DEF EndOf
<1>2. PICK tl : tl = SubSeq(rest, 3, m)
  OBVIOUS
<1>3. \A i \in 3..m : rest[i] \in Words
  BY <1>0
<1>4. /\ tl \in Seq(Words) /\ Len(tl) = IF 3 <= m THEN m - 3 + 1 ELSE 0
      /\ \A i \in 1..(m - 3 + 1) : tl[i] = rest[3 + i - 1]
  BY <1>0, <1>2, <1>3, SubSeqProperties
<1>5. Len(tl) = m - 2 /\ k + 2 \in 1..n /\ k + 2 \in 0..n /\ 2 \in 1..m /\ m - 2 = n - (k + 2)
  BY <1>0, <1>1, <1>4
<1>6. ASSUME NEW i \in 1..(m - 2) PROVE tl[i] = line[(k + 2) + i]
  <2>1. i \in 1..(m - 3 + 1) /\ 3 + i - 1 = i + 2 /\ i + 2 \in 1..m /\ k + (i + 2) = (k + 2) + i
    BY <1>0, <1>6
  <2>2. tl[i] = rest[i + 2]
    BY <1>4, <2>1
  <2> QED BY <1>1, <2>1, <2>2
<1>7. EndOf(line, k + 2, tl)
  <2>1. Len(tl) = m - 2 /\ Len(tl) = Len(line) - (k + 2)
    BY <1>0, <1>5
  <2>2. \A i \in 1..Len(tl) : tl[i] = line[(k + 2) + i]
    BY <1>6, <2>1
  <2> QED BY <2>1, <2>2, Zenon DEF EndOf
<1>8. rest[2] = line[k + 2]
  BY <1>1, <1>5
<1> QED
  BY <1>0, <1>2, <1>4, <1>5, <1>7, <1>8

\* A word that is no --dry-run adds nothing to what was seen of them, and
\* neither does a name after --profile.
LEMMA SeenMore ==
  ASSUME NEW line, NEW k \in Nat, NEW dry, DryRunSeen(line, k, dry)
  PROVE  /\ line[k + 1].opt # "--dry-run" => DryRunSeen(line, k + 1, dry)
         /\ line[k + 1].opt = "--profile" => DryRunSeen(line, k + 2, dry)
         /\ DryRunSeen(line, k + 1, TRUE)
<1>0. \A i \in 1..k : line[i].opt = "--dry-run" =>
                        dry \/ (i > 1 /\ line[i - 1].opt = "--profile")
  BY DEF DryRunSeen
<1>1. \A i \in 1..(k + 1) : i \in 1..k \/ i = k + 1
  OBVIOUS
<1>2. \A i \in 1..(k + 2) : i \in 1..k \/ i = k + 1 \/ (i = k + 2 /\ i > 1 /\ i - 1 = k + 1)
  OBVIOUS
<1>3. ASSUME line[k + 1].opt # "--dry-run" PROVE DryRunSeen(line, k + 1, dry)
  BY <1>0, <1>1, <1>3, Zenon DEF DryRunSeen
<1>4. ASSUME line[k + 1].opt = "--profile" PROVE DryRunSeen(line, k + 2, dry)
  <2>1. line[k + 1].opt # "--dry-run"
    BY <1>4
  <2> SUFFICES ASSUME NEW i \in 1..(k + 2), line[i].opt = "--dry-run"
               PROVE  dry \/ (i > 1 /\ line[i - 1].opt = "--profile")
    BY DEF DryRunSeen
  <2> QED BY <1>0, <1>2, <1>4, <2>1
<1>5. DryRunSeen(line, k + 1, TRUE)
  BY DEF DryRunSeen
<1> QED
  BY <1>3, <1>4, <1>5

\* A name that was given stays given.
LEMMA NamedMore ==
  ASSUME NEW line, NEW k \in Nat, NEW name, NamedIn(line, k, name)
  PROVE  NamedIn(line, k + 1, name)
<1>1. \A i \in 1..k : i \in 1..(k + 1)
  OBVIOUS
<1> QED
  BY <1>1, Zenon DEF NamedIn

-----------------------------------------------------------------------------
\* Nothing is parsed yet.
LEMMA ParseInit == Init => ParseInv
<1> SUFFICES ASSUME Init PROVE ParseInv
  OBVIOUS
<1>1. PICK n \in 0..MaxArgs : argv \in [1..n -> Words]
  BY DEF Init
<1>2. n \in Nat
  <2>1. MaxArgs \in Nat
    BY ArgsAssumption, Zenon
  <2> QED BY <1>1, <2>1
<1>3. argv \in Seq(Words) /\ args = argv /\ Len(argv) \in Nat
  <2>1. args = argv
    BY DEF Init
  <2>2. argv \in Seq(Words)
    BY <1>1, <1>2
  <2> QED BY <2>1, <2>2
<1>4. Parsed(0)
  <2>1. EndOf(argv, 0, args)
    BY <1>3 DEF EndOf
  <2>2. DryRunSeen(argv, 0, dryRun)
    BY DEF DryRunSeen
  <2>3. profile = ""
    BY DEF Init
  <2> QED BY <2>1, <2>2, <2>3 DEF Parsed
<1>5. outcome = "parsing"
  BY DEF Init
<1> QED
  BY <1>3, <1>4, <1>5 DEF ParseInv

\* With a word left, it names the profile; without one, nothing is taken.
LEMMA ParseProfileInv == ParseInv /\ ParseProfile => ParseInv'
<1> SUFFICES ASSUME ParseInv, ParseProfile PROVE ParseInv'
  OBVIOUS
<1>1. PICK line \in Seq(Words), rest \in Seq(Words) : line = argv /\ rest = args
  BY DEF ParseInv
<1>2. PICK k \in 0..Len(line) : /\ EndOf(line, k, rest) /\ DryRunSeen(line, k, dryRun)
                                /\ profile # "" => NamedIn(line, k, profile)
  BY <1>1 DEF ParseInv, Parsed
<1>3. /\ rest # << >> /\ Head(rest).opt = "--profile" /\ outcome' = "parsing"
      /\ argv' = line /\ dryRun' = dryRun
  BY <1>1 DEF ParseProfile, IsNext
<1>4. /\ k \in Nat /\ line[k + 1].opt = "--profile"
  <2>1. Head(rest) = line[k + 1]
    BY <1>2, <1>3, TakeOne, Zenon
  <2> QED BY <1>3, <2>1
<1>5. CASE Len(rest) >= 2
  <2>1. profile' = rest[2].val /\ args' = SubSeq(rest, 3, Len(rest))
    BY <1>1, <1>5 DEF ParseProfile
  <2>2. /\ k + 2 \in 0..Len(line) /\ rest[2] = line[k + 2]
        /\ args' \in Seq(Words) /\ EndOf(line, k + 2, args')
    <3>1. /\ k + 2 \in 0..Len(line) /\ rest[2] = line[k + 2]
          /\ SubSeq(rest, 3, Len(rest)) \in Seq(Words)
          /\ EndOf(line, k + 2, SubSeq(rest, 3, Len(rest)))
      <4>1. Len(rest) >= 2 /\ EndOf(line, k, rest)
        BY <1>2, <1>5
      <4> QED BY <4>1, TakeTwo, SMTT(30)
    <3> QED BY <2>1, <3>1
  <2>3. DryRunSeen(line, k + 2, dryRun)
    BY <1>2, <1>4, SeenMore
  <2>4. NamedIn(line, k + 2, profile')
    <3>1. k + 2 \in 1..(k + 2) /\ k + 2 > 1 /\ (k + 2) - 1 = k + 1
      BY <1>4
    <3> QED BY <1>4, <2>1, <2>2, <3>1 DEF NamedIn
  <2>5. Parsed(k + 2)'
    BY <1>3, <2>2, <2>3, <2>4 DEF Parsed
  <2> QED BY <1>3, <2>2, <2>5 DEF ParseInv
<1>6. CASE ~(Len(rest) >= 2)
  <2>1. profile' = "" /\ args' = rest
    BY <1>1, <1>6 DEF ParseProfile
  <2>2. Parsed(k)'
    BY <1>2, <1>3, <2>1 DEF Parsed
  <2> QED BY <1>3, <2>1, <2>2 DEF ParseInv
<1> QED
  BY <1>5, <1>6

\* The word itself names the profile.
LEMMA ParseProfileEqInv == ParseInv /\ ParseProfileEq => ParseInv'
<1> SUFFICES ASSUME ParseInv, ParseProfileEq PROVE ParseInv'
  OBVIOUS
<1>1. PICK line \in Seq(Words), rest \in Seq(Words) : line = argv /\ rest = args
  BY DEF ParseInv
<1>2. PICK k \in 0..Len(line) : /\ EndOf(line, k, rest) /\ DryRunSeen(line, k, dryRun)
                                /\ profile # "" => NamedIn(line, k, profile)
  BY <1>1 DEF ParseInv, Parsed
<1>3. /\ rest # << >> /\ Head(rest).opt = "--profile=" /\ outcome' = "parsing"
      /\ argv' = line /\ dryRun' = dryRun /\ profile' = Head(rest).val /\ args' = Tail(rest)
  BY <1>1 DEF ParseProfileEq, IsNext
<1>4. /\ k + 1 \in 0..Len(line) /\ k \in Nat /\ Head(rest) = line[k + 1]
      /\ args' \in Seq(Words) /\ EndOf(line, k + 1, args')
  <2>1. k \in Nat
    OBVIOUS
  <2> QED BY <1>2, <1>3, <2>1, TakeOne, Zenon
<1>5. line[k + 1].opt # "--dry-run"
  BY <1>3, <1>4
<1>6. DryRunSeen(line, k + 1, dryRun)
  BY <1>2, <1>4, <1>5, SeenMore
<1>7. NamedIn(line, k + 1, profile')
  <2>1. k + 1 \in 1..(k + 1)
    BY <1>4
  <2> QED BY <1>3, <1>4, <2>1 DEF NamedIn
<1>8. Parsed(k + 1)'
  BY <1>3, <1>4, <1>6, <1>7 DEF Parsed
<1> QED
  BY <1>3, <1>4, <1>8 DEF ParseInv

\* From here on the run is dry.
LEMMA ParseDryRunInv == ParseInv /\ ParseDryRun => ParseInv'
<1> SUFFICES ASSUME ParseInv, ParseDryRun PROVE ParseInv'
  OBVIOUS
<1>1. PICK line \in Seq(Words), rest \in Seq(Words) : line = argv /\ rest = args
  BY DEF ParseInv
<1>2. PICK k \in 0..Len(line) : /\ EndOf(line, k, rest) /\ DryRunSeen(line, k, dryRun)
                                /\ profile # "" => NamedIn(line, k, profile)
  BY <1>1 DEF ParseInv, Parsed
<1>3. /\ rest # << >> /\ outcome' = "parsing" /\ argv' = line
      /\ dryRun' = TRUE /\ profile' = profile /\ args' = Tail(rest)
  BY <1>1 DEF ParseDryRun, IsNext
<1>4. /\ k + 1 \in 0..Len(line) /\ k \in Nat
      /\ args' \in Seq(Words) /\ EndOf(line, k + 1, args')
  <2>1. k \in Nat
    OBVIOUS
  <2> QED BY <1>2, <1>3, <2>1, TakeOne, Zenon
<1>5. DryRunSeen(line, k + 1, TRUE)
  BY <1>2, <1>4, SeenMore
<1>6. profile # "" => NamedIn(line, k + 1, profile)
  BY <1>2, <1>4, NamedMore
<1>7. Parsed(k + 1)'
  BY <1>3, <1>4, <1>5, <1>6 DEF Parsed
<1> QED
  BY <1>3, <1>4, <1>7 DEF ParseInv

\* The steps that take no word: the parser stops, or the profile is judged.
LEMMA ProfileInv ==
  ParseInv /\ (ParseStops \/ ProfileRejected \/ ProfileResolved \/ UNCHANGED vars) => ParseInv'
<1> SUFFICES ASSUME ParseInv, ParseStops \/ ProfileRejected \/ ProfileResolved \/ UNCHANGED vars
             PROVE  ParseInv'
  OBVIOUS
<1>1. UNCHANGED <<argv, args, profile, dryRun>>
  BY DEF ParseStops, ProfileRejected, ProfileResolved, vars
<1>2. argv' \in Seq(Words) /\ args' \in Seq(Words)
  BY <1>1 DEF ParseInv
<1>3. \E k \in 0..Len(argv') : Parsed(k)'
  BY <1>1 DEF ParseInv, Parsed
<1>4. ProfileValid' = ProfileValid
  BY <1>1 DEF ProfileValid
<1>5. (outcome \in {"run", "dry"} => Resolved)'
  <2>1. CASE ParseStops
    BY <2>1 DEF ParseStops
  <2>2. CASE ProfileRejected
    BY <2>2 DEF ProfileRejected
  <2>3. CASE ProfileResolved
    <3>1. args' = << >> /\ ProfileValid'
      BY <1>1, <1>4, <2>3 DEF ProfileResolved
    <3>2. selected' = Select(Requested(profile'))
      BY <1>1, <2>3 DEF ProfileResolved
    <3>3. outcome' = "run" => ~dryRun'
      BY <1>1, <2>3 DEF ProfileResolved
    <3> QED BY <3>1, <3>2, <3>3 DEF Resolved
  <2>4. CASE UNCHANGED vars
    <3>1. outcome' = outcome /\ selected' = selected
      BY <2>4 DEF vars
    <3> QED BY <1>1, <1>4, <3>1 DEF ParseInv, Resolved
  <2> QED BY <2>1, <2>2, <2>3, <2>4
<1> QED
  BY <1>2, <1>3, <1>5 DEF ParseInv

\* At every moment the variables tell what the words taken so far said, and what
\* is selected comes from a valid profile (install.sh 37-79).
THEOREM ParseInvariant == Spec => []ParseInv
<1>1. ParseInv /\ [Next]_vars => ParseInv'
  BY ParseProfileInv, ParseProfileEqInv, ParseDryRunInv, ProfileInv, Zenon DEF Next
<1> QED
  BY <1>1, ParseInit, PTL DEF Spec

-----------------------------------------------------------------------------
(***************************************************************************)
(* The results.                                                            *)
(***************************************************************************)
\* Once the whole line is parsed, the invariant speaks of all its words.
LEMMA WholeLine ==
  ASSUME ParseInv, args = << >>
  PROVE  Parsed(Len(argv))
<1>1. PICK k \in 0..Len(argv) : Parsed(k)
  BY DEF ParseInv
<1>2. Len(argv) \in Nat /\ Len(args) = 0
  BY DEF ParseInv
<1>3. k = Len(argv)
  <2>1. Len(args) = Len(argv) - k
    BY <1>1 DEF Parsed, EndOf
  <2> QED BY <1>2, <2>1
<1> QED
  BY <1>1, <1>3

\* For every command line, profile file and list of modules: what gets past the
\* parser is a profile the command line named, and exactly its modules, each
\* once and in the order of the list (install.sh 47-79).
THEOREM SelectionIsCanonical == Spec => []SelectionCanonical
<1>1. ParseInv => SelectionCanonical
  <2> SUFFICES ASSUME ParseInv, outcome \in {"run", "dry"}
               PROVE  /\ NamedIn(argv, Len(argv), profile)
                      /\ ToSet(selected) = ToSet(ProfileFiles[profile]) \ {""}
                      /\ IsInjective(selected)
                      /\ \A i, j \in 1..Len(selected) : i < j =>
                           \E a, b \in 1..Len(CANONICAL_MODULES) :
                             /\ a < b
                             /\ CANONICAL_MODULES[a] = selected[i]
                             /\ CANONICAL_MODULES[b] = selected[j]
    BY Zenon DEF SelectionCanonical, NamedIn
  <2>1. args = << >> /\ ProfileValid /\ selected = Select(Requested(profile))
    BY DEF ParseInv, Resolved
  <2>2. profile \in DOMAIN ProfileFiles /\ profile # ""
    BY <2>1, ArgsAssumption DEF ProfileValid
  <2>3. NamedIn(argv, Len(argv), profile)
    BY <2>1, <2>2, WholeLine DEF Parsed
  <2>4. PICK file \in Seq(STRING) : file = ProfileFiles[profile]
    BY <2>2, ArgsAssumption
  <2>5. PICK asked \in Seq(STRING) : /\ asked = Requested(profile)
                                     /\ ToSet(asked) = ToSet(file) \cap (ToSet(file) \ {""})
    <3>1. Requested(profile) = Keep(file, ToSet(file) \ {""})
      BY <2>4 DEF Requested
    <3>2. /\ Keep(file, ToSet(file) \ {""}) \in Seq(STRING)
          /\ ToSet(Keep(file, ToSet(file) \ {""})) = ToSet(file) \cap (ToSet(file) \ {""})
      BY KeepSelects, Zenon
    <3> QED BY <3>1, <3>2
  <2>6. PICK mods \in Seq(STRING) : mods = CANONICAL_MODULES /\ IsInjective(mods)
    BY ArgsAssumption
  <2>7. /\ selected \in Seq(STRING)
        /\ ToSet(selected) = ToSet(mods) \cap ToSet(asked)
        /\ \A i, j \in 1..Len(selected) : i < j =>
             \E a, b \in 1..Len(mods) : a < b /\ mods[a] = selected[i] /\ mods[b] = selected[j]
        /\ IsInjective(selected)
    <3>1. selected = Keep(mods, ToSet(asked))
      BY <2>1, <2>5, <2>6 DEF Select
    <3> DEFINE kept == Keep(mods, ToSet(asked))
    <3>2. /\ kept \in Seq(STRING)
          /\ ToSet(kept) = ToSet(mods) \cap ToSet(asked)
          /\ \A i, j \in 1..Len(kept) : i < j =>
               \E a, b \in 1..Len(mods) : a < b /\ mods[a] = kept[i] /\ mods[b] = kept[j]
          /\ IsInjective(mods) => IsInjective(kept)
      BY KeepSelects
    <3> HIDE DEF kept
    <3> QED BY <2>6, <3>1, <3>2 DEF kept
  <2>8. ToSet(asked) \subseteq ToSet(mods)
    BY <2>1, <2>5, <2>6 DEF ProfileValid, IsCanonical
  <2>9. ToSet(selected) = ToSet(file) \ {""}
    BY <2>5, <2>7, <2>8
  <2>10. \A i, j \in 1..Len(selected) : i < j =>
           \E a, b \in 1..Len(CANONICAL_MODULES) :
             /\ a < b
             /\ CANONICAL_MODULES[a] = selected[i]
             /\ CANONICAL_MODULES[b] = selected[j]
    <3>1. mods = CANONICAL_MODULES
      BY <2>6
    <3>2. \A i, j \in 1..Len(selected) : i < j =>
            \E a, b \in 1..Len(mods) : a < b /\ mods[a] = selected[i] /\ mods[b] = selected[j]
      BY <2>7
    <3> HIDE <2>6, <2>7
    <3> QED BY <3>1, <3>2
  <2>11. ToSet(selected) = ToSet(ProfileFiles[profile]) \ {""} /\ IsInjective(selected)
    BY <2>4, <2>7, <2>9
  <2> QED BY <2>3, <2>10, <2>11, Zenon
<1> QED
  BY <1>1, ParseInvariant, PTL

\* For every command line: one that holds --dry-run, other than as the name of a
\* profile, never reaches the module loop (install.sh 74-79).
THEOREM DryRunInstallsNothing == Spec => []DryRunHarmless
<1>1. ParseInv => DryRunHarmless
  <2> SUFFICES ASSUME ParseInv, outcome = "run",
                      NEW i \in 1..Len(argv), argv[i].opt = "--dry-run"
               PROVE  i > 1 /\ argv[i - 1].opt = "--profile"
    BY DEF DryRunHarmless
  <2>1. args = << >> /\ ~dryRun
    BY DEF ParseInv, Resolved
  <2>2. DryRunSeen(argv, Len(argv), dryRun)
    BY <2>1, WholeLine DEF Parsed
  <2> QED BY <2>1, <2>2 DEF DryRunSeen
<1> QED
  BY <1>1, ParseInvariant, PTL
=============================================================================
