--------------------------- MODULE Compiler_proofs ---------------------------
(***************************************************************************)
(* Proofs about Compiler: Kahn's algorithm sorts, flattening replaces every *)
(* module instance, and what validation accepts compiles into a process    *)
(* that the runtimes can execute, for every definition.  Induction is over *)
(* a set of natural numbers, which the provers can instantiate where they  *)
(* cannot a predicate.                                                     *)
(***************************************************************************)
EXTENDS Compiler, WellFoundedInduction, SequenceTheorems, FiniteSetTheorems, TLAPS

-----------------------------------------------------------------------------
(* Induction.                                                              *)

\* A set of natural numbers that is not empty has a least element.
LEMMA LeastElement ==
    ASSUME NEW S \in SUBSET Nat, S # {}
    PROVE  \E m \in S : \A k \in S : m <= k
  <1> DEFINE R == {ss \in Nat \X Nat : ss[1] < ss[2]}
  <1>1. IsWellFoundedOn(R, Nat)
    BY NatLessThanWellFounded DEF OpToRel
  <1>2. PICK m \in S : \A k \in S : ~ (<<k, m>> \in R)
    BY <1>1, WFMin
  <1>3. \A j, k \in Nat : <<j, k>> \in R <=> j < k
    OBVIOUS
  <1> HIDE DEF R
  <1>4. ASSUME NEW k \in S PROVE m <= k
    <2>1. k \in Nat /\ m \in Nat
      BY <1>2
    <2>2. ~ (k < m)
      BY <1>2, <1>3, <2>1
    <2> QED  BY <2>1, <2>2
  <1> QED  BY <1>2, <1>4

\* A set that has 0 and with every number the next one has all of them.
LEMMA Induction ==
    ASSUME NEW S, 0 \in S, \A n \in Nat : n \in S => n + 1 \in S
    PROVE  \A n \in Nat : n \in S
  <1> DEFINE Out == {n \in Nat : n \notin S}
  <1>1. SUFFICES ASSUME Out # {} PROVE FALSE
    OBVIOUS
  <1>2. PICK m \in Out : \A k \in Out : m <= k
    BY <1>1, LeastElement
  <1>3. m \in Nat /\ m # 0 /\ m - 1 \in Nat /\ (m - 1) + 1 = m
    BY <1>2
  <1>4. m - 1 \notin Out
    BY <1>2, <1>3
  <1> QED  BY <1>2, <1>3, <1>4

-----------------------------------------------------------------------------
(* Sequences and what is in them.                                          *)

LEMMA FunctionSequence ==
    ASSUME NEW T, NEW n \in Nat, NEW s \in [1..n -> T]
    PROVE  s \in Seq(T) /\ Len(s) = n /\ DOMAIN s = 1..n
  OBVIOUS

LEMMA AppendRange ==
    ASSUME NEW T, NEW s \in Seq(T), NEW x \in T
    PROVE  Range(Append(s, x)) = Range(s) \cup {x}
  <1> PICK t : t = Append(s, x)
    OBVIOUS
  <1>1. /\ DOMAIN t = 1..(Len(s) + 1) /\ DOMAIN s = 1..Len(s) /\ Len(s) \in Nat
        /\ t[Len(s) + 1] = x /\ \A i \in 1..Len(s) : t[i] = s[i]
    OBVIOUS
  <1>2. \A i \in 1..(Len(s) + 1) : i \in 1..Len(s) \/ i = Len(s) + 1
    BY <1>1
  <1>3. Len(s) + 1 \in DOMAIN t /\ \A i \in DOMAIN s : i \in DOMAIN t
    BY <1>1
  <1> QED  BY <1>1, <1>2, <1>3 DEF Range

LEMMA ConcatRange ==
    ASSUME NEW T, NEW a \in Seq(T), NEW b \in Seq(T)
    PROVE  Range(a \o b) = Range(a) \cup Range(b)
  <1> PICK t : t = a \o b
    OBVIOUS
  <1>1. /\ DOMAIN t = 1..(Len(a) + Len(b)) /\ DOMAIN a = 1..Len(a)
        /\ DOMAIN b = 1..Len(b) /\ Len(a) \in Nat /\ Len(b) \in Nat
        /\ \A i \in 1..Len(a) : t[i] = a[i]
        /\ \A i \in 1..Len(b) : t[Len(a) + i] = b[i]
    OBVIOUS
  <1>2. ASSUME NEW i \in DOMAIN t PROVE t[i] \in Range(a) \cup Range(b)
    <2>1. CASE i <= Len(a)
      <3>1. i \in DOMAIN a /\ t[i] = a[i]
        BY <1>1, <2>1
      <3> QED  BY <3>1 DEF Range
    <2>2. CASE i > Len(a)
      <3>1. i - Len(a) \in 1..Len(b) /\ i = Len(a) + (i - Len(a))
        BY <1>1, <2>2
      <3>2. i - Len(a) \in DOMAIN b /\ t[i] = b[i - Len(a)]
        BY <1>1, <3>1
      <3> QED  BY <3>2 DEF Range
    <2> QED  BY <1>1, <2>1, <2>2
  <1>3. ASSUME NEW i \in DOMAIN a PROVE a[i] \in Range(t)
    <2>1. i \in DOMAIN t /\ t[i] = a[i]
      BY <1>1
    <2> QED  BY <2>1 DEF Range
  <1>4. ASSUME NEW i \in DOMAIN b PROVE b[i] \in Range(t)
    <2>1. Len(a) + i \in DOMAIN t /\ t[Len(a) + i] = b[i]
      BY <1>1
    <2> QED  BY <2>1 DEF Range
  <1>5. Range(t) \subseteq Range(a) \cup Range(b)
    BY <1>2 DEF Range
  <1>6. Range(a) \subseteq Range(t) /\ Range(b) \subseteq Range(t)
    BY <1>3, <1>4 DEF Range
  <1> QED  BY <1>5, <1>6

\* No element comes twice.
Distinct(s) == \A i, j \in DOMAIN s : s[i] = s[j] => i = j

LEMMA AppendDistinct ==
    ASSUME NEW T, NEW s \in Seq(T), NEW x \in T, Distinct(s), x \notin Range(s)
    PROVE  Distinct(Append(s, x))
  <1> PICK t : t = Append(s, x)
    OBVIOUS
  <1>1. /\ DOMAIN t = 1..(Len(s) + 1) /\ DOMAIN s = 1..Len(s) /\ Len(s) \in Nat
        /\ t[Len(s) + 1] = x /\ \A i \in 1..Len(s) : t[i] = s[i]
    OBVIOUS
  <1>2. \A i \in 1..Len(s) : t[i] # x
    BY <1>1 DEF Range
  <1>3. \A i \in DOMAIN t : i \in 1..Len(s) \/ i = Len(s) + 1
    BY <1>1
  <1> QED  BY <1>1, <1>2, <1>3 DEF Distinct

LEMMA ConcatDistinct ==
    ASSUME NEW T, NEW a \in Seq(T), NEW b \in Seq(T),
           Distinct(a), Distinct(b), Range(a) \cap Range(b) = {}
    PROVE  Distinct(a \o b)
  <1> PICK t : t = a \o b
    OBVIOUS
  <1>1. /\ DOMAIN t = 1..(Len(a) + Len(b)) /\ DOMAIN a = 1..Len(a)
        /\ DOMAIN b = 1..Len(b) /\ Len(a) \in Nat /\ Len(b) \in Nat
        /\ \A i \in 1..Len(a) : t[i] = a[i]
        /\ \A i \in 1..Len(b) : t[Len(a) + i] = b[i]
    OBVIOUS
  <1>2. \A i \in DOMAIN t :
           \/ i \in 1..Len(a)
           \/ i - Len(a) \in 1..Len(b) /\ i = Len(a) + (i - Len(a)) /\ t[i] = b[i - Len(a)]
    <2>1. \A i \in DOMAIN t : i \in 1..Len(a) \/
             (i - Len(a) \in 1..Len(b) /\ i = Len(a) + (i - Len(a)))
      BY <1>1
    <2>2. \A i \in DOMAIN t : (i - Len(a) \in 1..Len(b) /\ i = Len(a) + (i - Len(a)))
                             => t[i] = b[i - Len(a)]
      BY <1>1
    <2> QED  BY <2>1, <2>2
  <1>3. \A i \in 1..Len(a), j \in 1..Len(b) : a[i] # b[j]
    BY <1>1 DEF Range
  <1>4. ASSUME NEW i \in DOMAIN t, NEW j \in DOMAIN t, t[i] = t[j]
        PROVE  i = j
    <2>1. CASE i \in 1..Len(a) /\ j \in 1..Len(a)
      BY <1>1, <1>4, <2>1 DEF Distinct
    <2>2. CASE i \in 1..Len(a) /\ j - Len(a) \in 1..Len(b) /\ t[j] = b[j - Len(a)]
      BY <1>1, <1>3, <1>4, <2>2
    <2>3. CASE j \in 1..Len(a) /\ i - Len(a) \in 1..Len(b) /\ t[i] = b[i - Len(a)]
      BY <1>1, <1>3, <1>4, <2>3
    <2>4. CASE /\ i - Len(a) \in 1..Len(b) /\ t[i] = b[i - Len(a)] /\ i = Len(a) + (i - Len(a))
               /\ j - Len(a) \in 1..Len(b) /\ t[j] = b[j - Len(a)] /\ j = Len(a) + (j - Len(a))
      <3>1. i - Len(a) = j - Len(a)
        BY <1>1, <1>4, <2>4 DEF Distinct
      <3> QED  BY <2>4, <3>1
    <2> QED  BY <1>2, <2>1, <2>2, <2>3, <2>4
  <1> QED  BY <1>4 DEF Distinct

-----------------------------------------------------------------------------
(* Select.                                                                 *)

\* What f has at i is what Select takes of the first i elements, for i up to n.
Takes(f, s, S, n) ==
    f = [i \in 0..n |-> IF i = 0 THEN << >>
                        ELSE IF s[i] \in S THEN Append(f[i - 1], s[i]) ELSE f[i - 1]]

\* The recursion in Select defines a function.
LEMMA SelectDefined ==
    ASSUME NEW s, NEW S, NEW n \in Nat
    PROVE  \E f : Takes(f, s, S, n)
  <1> DEFINE Good == {k \in Nat : \E f : Takes(f, s, S, k)}
  <1>1. 0 \in Good
    <2> DEFINE f == [i \in 0..0 |-> << >>]
    <2>1. Takes(f, s, S, 0)
      BY DEF Takes
    <2> QED  BY <2>1
  <1>2. ASSUME NEW k \in Nat, k \in Good PROVE k + 1 \in Good
    <2>1. PICK f : Takes(f, s, S, k)
      BY <1>2
    <2> DEFINE g == [i \in 0..(k + 1) |->
                       IF i = k + 1
                       THEN IF s[k + 1] \in S THEN Append(f[k], s[k + 1]) ELSE f[k]
                       ELSE f[i]]
    <2>2. \A i \in 0..k : g[i] = f[i]
      OBVIOUS
    <2>3. ASSUME NEW i \in 0..(k + 1)
          PROVE  g[i] = IF i = 0 THEN << >>
                        ELSE IF s[i] \in S THEN Append(g[i - 1], s[i]) ELSE g[i - 1]
      <3>1. CASE i = k + 1
        <4>1. g[i - 1] = f[k] /\ i # 0
          BY <2>2, <3>1
        <4>2. g[i] = IF s[k + 1] \in S THEN Append(f[k], s[k + 1]) ELSE f[k]
          BY <3>1
        <4> QED  BY <3>1, <4>1, <4>2
      <3>2. CASE i = 0
        BY <2>1, <2>2, <3>2 DEF Takes
      <3>3. CASE i \in 1..k
        <4>1. g[i - 1] = f[i - 1] /\ g[i] = f[i] /\ i # 0 /\ i \in 0..k
          BY <2>2, <3>3
        <4>2. f[i] = IF s[i] \in S THEN Append(f[i - 1], s[i]) ELSE f[i - 1]
          BY <2>1, <4>1 DEF Takes
        <4> QED  BY <4>1, <4>2
      <3> QED  BY <3>1, <3>2, <3>3
    <2>4. Takes(g, s, S, k + 1)
      BY <2>3, Zenon DEF Takes
    <2> HIDE DEF g
    <2> QED  BY <2>4
  <1> HIDE DEF Good
  <1>3. n \in Good
    BY <1>1, <1>2, Induction
  <1> QED  BY <1>3 DEF Good

\* Select goes through the sequence.
LEMMA SelectSteps ==
    ASSUME NEW T, NEW s \in Seq(T), NEW S
    PROVE  \E f : /\ f[0] = << >> /\ Select(s, S) = f[Len(s)]
                  /\ \A k \in Nat : k + 1 <= Len(s) =>
                        /\ s[k + 1] \in S => f[k + 1] = Append(f[k], s[k + 1])
                        /\ s[k + 1] \notin S => f[k + 1] = f[k]
  <1> DEFINE f == CHOOSE f : Takes(f, s, S, Len(s))
  <1>1. \E g : Takes(g, s, S, Len(s))
    <2>1. Len(s) \in Nat
      OBVIOUS
    <2> QED  BY <2>1, SelectDefined
  <1>2. Takes(f, s, S, Len(s))
    BY <1>1
  <1>3. Select(s, S) = f[Len(s)]
    BY DEF Select, Takes
  <1> HIDE DEF f
  <1>4. f[0] = << >>
    BY <1>2 DEF Takes
  <1>5. ASSUME NEW k \in Nat, k + 1 <= Len(s)
        PROVE  f[k + 1] = IF s[k + 1] \in S THEN Append(f[k], s[k + 1]) ELSE f[k]
    <2>1. k + 1 \in 0..Len(s) /\ k + 1 # 0 /\ (k + 1) - 1 = k
      BY <1>5
    <2> QED  BY <1>2, <2>1 DEF Takes
  <1> QED  BY <1>3, <1>4, <1>5

\* Select keeps the elements that are in S, and nothing else.
LEMMA SelectRange ==
    ASSUME NEW T, NEW s \in Seq(T), NEW S
    PROVE  /\ Select(s, S) \in Seq(T)
           /\ Range(Select(s, S)) = Range(s) \cap S
  <1>1. PICK f : /\ f[0] = << >> /\ Select(s, S) = f[Len(s)]
                 /\ \A k \in Nat : k + 1 <= Len(s) =>
                       /\ s[k + 1] \in S => f[k + 1] = Append(f[k], s[k + 1])
                       /\ s[k + 1] \notin S => f[k + 1] = f[k]
    BY SelectSteps
  <1> DEFINE Good == {k \in Nat : k <= Len(s) => /\ f[k] \in Seq(T)
                                               /\ Range(f[k]) = {s[i] : i \in 1..k} \cap S}
  <1>4. 0 \in Good
    <2>1. Range(f[0]) = {} /\ f[0] \in Seq(T)
      BY <1>1 DEF Range
    <2>2. {s[i] : i \in 1..0} = {}
      OBVIOUS
    <2> QED  BY <2>1, <2>2
  <1>5. ASSUME NEW k \in Nat, k \in Good PROVE k + 1 \in Good
    <2> SUFFICES ASSUME k + 1 <= Len(s)
                 PROVE  /\ f[k + 1] \in Seq(T)
                        /\ Range(f[k + 1]) = {s[i] : i \in 1..(k + 1)} \cap S
      OBVIOUS
    <2>1. f[k] \in Seq(T) /\ Range(f[k]) = {s[i] : i \in 1..k} \cap S
      BY <1>5
    <2>2. /\ s[k + 1] \in S => f[k + 1] = Append(f[k], s[k + 1])
          /\ s[k + 1] \notin S => f[k + 1] = f[k]
      BY <1>1
    <2>3. s[k + 1] \in T
      OBVIOUS
    <2>4. {s[i] : i \in 1..(k + 1)} = {s[i] : i \in 1..k} \cup {s[k + 1]}
      OBVIOUS
    <2>5. CASE s[k + 1] \in S
      <3>1. f[k + 1] = Append(f[k], s[k + 1])
        BY <2>2, <2>5
      <3>2. Range(Append(f[k], s[k + 1])) = Range(f[k]) \cup {s[k + 1]}
        BY <2>1, <2>3, AppendRange
      <3>3. Append(f[k], s[k + 1]) \in Seq(T)
        BY <2>1, <2>3
      <3> QED  BY <2>1, <2>4, <2>5, <3>1, <3>2, <3>3, Zenon
    <2>6. CASE s[k + 1] \notin S
      BY <2>1, <2>2, <2>4, <2>6
    <2> QED  BY <2>5, <2>6
  <1> HIDE DEF Good
  <1>6. Len(s) \in Good
    BY <1>4, <1>5, Induction
  <1>7. Range(s) = {s[i] : i \in 1..Len(s)}
    BY DEF Range
  <1> QED  BY <1>1, <1>6, <1>7 DEF Good

\* It takes every element once.
LEMMA SelectDistinct ==
    ASSUME NEW T, NEW s \in Seq(T), NEW S, Distinct(s)
    PROVE  Distinct(Select(s, S))
  <1>1. PICK f : /\ f[0] = << >> /\ Select(s, S) = f[Len(s)]
                 /\ \A k \in Nat : k + 1 <= Len(s) =>
                       /\ s[k + 1] \in S => f[k + 1] = Append(f[k], s[k + 1])
                       /\ s[k + 1] \notin S => f[k + 1] = f[k]
    BY SelectSteps
  <1> DEFINE Good == {k \in Nat : k <= Len(s) =>
                         /\ f[k] \in Seq(T) /\ Distinct(f[k])
                         /\ \A x \in Range(f[k]) : \E i \in 1..k : x = s[i]}
  <1>2. 0 \in Good
    <2>1. f[0] \in Seq(T) /\ DOMAIN f[0] = {}
      BY <1>1
    <2>2. Distinct(f[0]) /\ Range(f[0]) = {}
      BY <2>1 DEF Range, Distinct
    <2> QED  BY <2>1, <2>2
  <1>3. ASSUME NEW k \in Nat, k \in Good PROVE k + 1 \in Good
    <2> SUFFICES ASSUME k + 1 <= Len(s)
                 PROVE  /\ f[k + 1] \in Seq(T) /\ Distinct(f[k + 1])
                        /\ \A x \in Range(f[k + 1]) : \E i \in 1..(k + 1) : x = s[i]
      OBVIOUS
    <2>1. /\ f[k] \in Seq(T) /\ Distinct(f[k])
          /\ \A x \in Range(f[k]) : \E i \in 1..k : x = s[i]
      BY <1>3
    <2>2. \A i \in 1..k : i \in 1..(k + 1) /\ i \in DOMAIN s /\ i # k + 1
      OBVIOUS
    <2>3. k + 1 \in DOMAIN s /\ k + 1 \in 1..(k + 1) /\ s[k + 1] \in T
      OBVIOUS
    <2>4. s[k + 1] \notin Range(f[k])
      BY <2>1, <2>2, <2>3 DEF Distinct
    <2>5. CASE s[k + 1] \in S
      <3>1. f[k + 1] = Append(f[k], s[k + 1])
        BY <1>1, <2>5
      <3>2. Range(f[k + 1]) = Range(f[k]) \cup {s[k + 1]} /\ Distinct(f[k + 1])
        BY <2>1, <2>3, <2>4, <3>1, AppendRange, AppendDistinct
      <3> QED  BY <2>1, <2>2, <2>3, <3>1, <3>2
    <2>6. CASE s[k + 1] \notin S
      <3>1. f[k + 1] = f[k]
        BY <1>1, <2>6
      <3> QED  BY <2>1, <2>2, <3>1
    <2> QED  BY <2>5, <2>6
  <1> HIDE DEF Good
  <1>4. Len(s) \in Good
    BY <1>2, <1>3, Induction
  <1> QED  BY <1>1, <1>4 DEF Good

-----------------------------------------------------------------------------
(* FlattenSeq.                                                             *)

\* The recursion in FlattenSeq defines a function.
LEMMA FlattenDefined ==
    ASSUME NEW s, NEW n \in Nat
    PROVE  \E f : f = [i \in 1..n |-> IF i = 1 THEN s[i] ELSE f[i - 1] \o s[i]]
  <1> DEFINE Eq(f, k) == f = [i \in 1..k |-> IF i = 1 THEN s[i] ELSE f[i - 1] \o s[i]]
             Good == {k \in Nat : \E f : Eq(f, k)}
  <1>1. 0 \in Good
    <2> DEFINE f == [i \in 1..0 |-> << >>]
    <2>1. Eq(f, 0)
      OBVIOUS
    <2> QED  BY <2>1
  <1>2. ASSUME NEW k \in Nat, k \in Good PROVE k + 1 \in Good
    <2>1. PICK f : Eq(f, k)
      BY <1>2
    <2> DEFINE g == [i \in 1..(k + 1) |->
                       IF i = k + 1 THEN IF i = 1 THEN s[i] ELSE f[k] \o s[i] ELSE f[i]]
    <2>2. \A i \in 1..k : g[i] = f[i]
      OBVIOUS
    <2>3. ASSUME NEW i \in 1..(k + 1)
          PROVE  g[i] = IF i = 1 THEN s[i] ELSE g[i - 1] \o s[i]
      <3>1. CASE i = k + 1 /\ i # 1
        <4>1. g[i - 1] = f[k]
          BY <2>2, <3>1
        <4>2. g[i] = f[k] \o s[i]
          BY <3>1
        <4> QED  BY <3>1, <4>1, <4>2
      <3>2. CASE i = k + 1 /\ i = 1
        <4>1. g[i] = s[i]
          BY <3>2
        <4> QED  BY <3>2, <4>1
      <3>3. CASE i \in 1..k
        <4>1. g[i] = f[i] /\ (i # 1 => g[i - 1] = f[i - 1])
          BY <2>2, <3>3
        <4>2. f[i] = IF i = 1 THEN s[i] ELSE f[i - 1] \o s[i]
          BY <2>1, <3>3
        <4> QED  BY <4>1, <4>2
      <3> QED  BY <3>1, <3>2, <3>3
    <2>4. Eq(g, k + 1)
      BY <2>3, Zenon
    <2> HIDE DEF Eq, g
    <2> QED  BY <2>4
  <1> HIDE DEF Good
  <1>3. n \in Good
    BY <1>1, <1>2, Induction
  <1> QED  BY <1>3 DEF Good

\* FlattenSeq goes through the parts.
LEMMA FlattenSteps ==
    ASSUME NEW T, NEW s \in Seq(Seq(T)), s # << >>
    PROVE  \E f : /\ f[1] = s[1] /\ FlattenSeq(s) = f[Len(s)]
                  /\ \A k \in Nat \ {0} : k + 1 <= Len(s) => f[k + 1] = f[k] \o s[k + 1]
  <1> DEFINE f == CHOOSE f : f = [i \in 1..Len(s) |-> IF i = 1 THEN s[i] ELSE f[i - 1] \o s[i]]
  <1>0. Len(s) \in Nat /\ Len(s) # 0
    OBVIOUS
  <1>1. \E g : g = [i \in 1..Len(s) |-> IF i = 1 THEN s[i] ELSE g[i - 1] \o s[i]]
    BY <1>0, FlattenDefined, Zenon
  <1>2. f = [i \in 1..Len(s) |-> IF i = 1 THEN s[i] ELSE f[i - 1] \o s[i]]
    BY <1>1, Zenon
  <1>3. FlattenSeq(s) = f[Len(s)]
    <2>1. FlattenSeq(s) = IF Len(s) = 0 THEN s ELSE f[Len(s)]
      BY DEF FlattenSeq
    <2> QED  BY <1>0, <2>1
  <1> HIDE DEF f
  <1>4. f[1] = s[1]
    <2>1. 1 \in 1..Len(s)
      BY <1>0
    <2> QED  BY <1>2, <2>1
  <1>5. ASSUME NEW k \in Nat \ {0}, k + 1 <= Len(s) PROVE f[k + 1] = f[k] \o s[k + 1]
    <2>1. k + 1 \in 1..Len(s) /\ k + 1 # 1 /\ (k + 1) - 1 = k
      BY <1>5
    <2> QED  BY <1>2, <2>1
  <1> QED  BY <1>3, <1>4, <1>5

\* What is concatenated is what the parts have.
LEMMA FlattenRange ==
    ASSUME NEW T, NEW s \in Seq(Seq(T))
    PROVE  /\ FlattenSeq(s) \in Seq(T)
           /\ Range(FlattenSeq(s)) = UNION {Range(s[i]) : i \in 1..Len(s)}
  <1>1. CASE s = << >>
    <2>1. FlattenSeq(s) = << >>
      BY <1>1 DEF FlattenSeq
    <2>2. Range(<< >>) = {} /\ << >> \in Seq(T)
      BY DEF Range
    <2>3. 1..Len(s) = {}
      BY <1>1
    <2>4. UNION {Range(s[i]) : i \in 1..Len(s)} = {}
      BY <2>3
    <2> QED  BY <2>1, <2>2, <2>4
  <1>2. CASE s # << >>
    <2>1. PICK f : /\ f[1] = s[1] /\ FlattenSeq(s) = f[Len(s)]
                   /\ \A k \in Nat \ {0} : k + 1 <= Len(s) => f[k + 1] = f[k] \o s[k + 1]
      BY <1>2, FlattenSteps
    <2> DEFINE Good == {k \in Nat : k + 1 <= Len(s) =>
                           /\ f[k + 1] \in Seq(T)
                           /\ Range(f[k + 1]) = UNION {Range(s[i]) : i \in 1..(k + 1)}}
    <2>2. 0 \in Good
      <3>1. 1 \in 1..Len(s) /\ s[1] \in Seq(T) /\ 1..(0 + 1) = {1} /\ 0 + 1 = 1
        BY <1>2
      <3>2. UNION {Range(s[i]) : i \in {1}} = Range(s[1])
        OBVIOUS
      <3> QED  BY <2>1, <3>1, <3>2
    <2>3. ASSUME NEW k \in Nat, k \in Good PROVE k + 1 \in Good
      <3> SUFFICES ASSUME (k + 1) + 1 <= Len(s)
                   PROVE  /\ f[(k + 1) + 1] \in Seq(T)
                          /\ Range(f[(k + 1) + 1])
                                = UNION {Range(s[i]) : i \in 1..((k + 1) + 1)}
        OBVIOUS
      <3>0. PICK j \in Nat : j = k + 1
        OBVIOUS
      <3>1. f[j] \in Seq(T) /\ Range(f[j]) = UNION {Range(s[i]) : i \in 1..j}
        BY <2>3, <3>0
      <3>a. j \in Nat \ {0} /\ j + 1 <= Len(s)
        BY <3>0
      <3>2. f[j + 1] = f[j] \o s[j + 1]
        BY <2>1, <3>a
      <3>3. s[j + 1] \in Seq(T)
        BY <3>0
      <3>4. 1..(j + 1) = (1..j) \cup {j + 1}
        OBVIOUS
      <3>5. UNION {Range(s[i]) : i \in 1..(j + 1)}
               = (UNION {Range(s[i]) : i \in 1..j}) \cup Range(s[j + 1])
        BY <3>4, Zenon
      <3>6. Range(f[j] \o s[j + 1]) = Range(f[j]) \cup Range(s[j + 1])
        BY <3>1, <3>3, ConcatRange
      <3>7. f[j] \o s[j + 1] \in Seq(T)
        BY <3>1, <3>3
      <3> HIDE DEF Good
      <3>8. /\ f[j + 1] \in Seq(T)
            /\ Range(f[j + 1]) = UNION {Range(s[i]) : i \in 1..(j + 1)}
        BY <3>1, <3>2, <3>5, <3>6, <3>7, Zenon
      <3> QED  BY <3>0, <3>8, Zenon
    <2> HIDE DEF Good
    <2>4. Len(s) - 1 \in Nat /\ (Len(s) - 1) + 1 = Len(s)
      BY <1>2
    <2>5. Len(s) - 1 \in Good
      BY <2>2, <2>3, <2>4, Induction
    <2> QED  BY <2>1, <2>4, <2>5 DEF Good
  <1> QED  BY <1>1, <1>2

\* Nothing comes twice when nothing does in a part and the parts have nothing in common.
LEMMA FlattenDistinct ==
    ASSUME NEW T, NEW s \in Seq(Seq(T)), \A i \in DOMAIN s : Distinct(s[i]),
           \A i, j \in DOMAIN s : i # j => Range(s[i]) \cap Range(s[j]) = {}
    PROVE  Distinct(FlattenSeq(s))
  <1>1. CASE s = << >>
    <2>1. FlattenSeq(s) = s
      BY <1>1 DEF FlattenSeq
    <2> QED  BY <1>1, <2>1 DEF Distinct
  <1>2. CASE s # << >>
    <2>1. PICK f : /\ f[1] = s[1] /\ FlattenSeq(s) = f[Len(s)]
                   /\ \A k \in Nat \ {0} : k + 1 <= Len(s) => f[k + 1] = f[k] \o s[k + 1]
      BY <1>2, FlattenSteps
    <2> DEFINE Good == {k \in Nat : k + 1 <= Len(s) =>
                           /\ f[k + 1] \in Seq(T) /\ Distinct(f[k + 1])
                           /\ \A x \in Range(f[k + 1]) : \E i \in 1..(k + 1) : x \in Range(s[i])}
    <2>2. 0 \in Good
      <3>1. 1 \in DOMAIN s /\ s[1] \in Seq(T) /\ 1 \in 1..(0 + 1) /\ 0 + 1 = 1
        BY <1>2
      <3> QED  BY <2>1, <3>1
    <2>3. ASSUME NEW k \in Nat, k \in Good PROVE k + 1 \in Good
      <3> SUFFICES ASSUME (k + 1) + 1 <= Len(s)
                   PROVE  /\ f[(k + 1) + 1] \in Seq(T) /\ Distinct(f[(k + 1) + 1])
                          /\ \A x \in Range(f[(k + 1) + 1]) :
                                \E i \in 1..((k + 1) + 1) : x \in Range(s[i])
        OBVIOUS
      <3>0. PICK j \in Nat : j = k + 1
        OBVIOUS
      <3>1. /\ f[j] \in Seq(T) /\ Distinct(f[j])
            /\ \A x \in Range(f[j]) : \E i \in 1..j : x \in Range(s[i])
        BY <2>3, <3>0
      <3>a. j \in Nat \ {0} /\ j + 1 <= Len(s)
        BY <3>0
      <3>2. f[j + 1] = f[j] \o s[j + 1]
        BY <2>1, <3>a
      <3>3. s[j + 1] \in Seq(T) /\ j + 1 \in DOMAIN s /\ Distinct(s[j + 1])
        BY <3>0
      <3>4. \A i \in 1..j : i \in DOMAIN s /\ i # j + 1 /\ i \in 1..(j + 1)
        BY <3>0
      <3>5. Range(f[j]) \cap Range(s[j + 1]) = {}
        BY <3>1, <3>3, <3>4
      <3> HIDE DEF Good
      <3>6. Distinct(f[j] \o s[j + 1]) /\ Range(f[j] \o s[j + 1]) = Range(f[j]) \cup Range(s[j + 1])
        BY <3>1, <3>3, <3>5, ConcatDistinct, ConcatRange
      <3>7. f[j] \o s[j + 1] \in Seq(T)
        BY <3>1, <3>3
      <3>8. j + 1 \in 1..(j + 1)
        OBVIOUS
      <3>9. \A x \in Range(f[j + 1]) : \E i \in 1..(j + 1) : x \in Range(s[i])
        BY <3>1, <3>2, <3>4, <3>6, <3>8
      <3> QED  BY <3>0, <3>2, <3>6, <3>7, <3>9
    <2> HIDE DEF Good
    <2>4. Len(s) - 1 \in Nat /\ (Len(s) - 1) + 1 = Len(s)
      BY <1>2
    <2>5. Len(s) - 1 \in Good
      BY <2>2, <2>3, <2>4, Induction
    <2> QED  BY <2>1, <2>4, <2>5 DEF Good
  <1> QED  BY <1>1, <1>2

-----------------------------------------------------------------------------
(* Kahn's algorithm.                                                       *)

\* A graph whose nodes are listed once and whose edges lead from node to node.
Arrows(g) == {<<e.source, e.target>> : e \in Range(g.edges)}
IsGraph(g) ==
    /\ g.nodes \in Seq(Range(g.nodes)) /\ Distinct(g.nodes)
    /\ g.edges \in Seq(Range(g.edges))
    /\ \A e \in Range(g.edges) : e.source \in Range(g.nodes) /\ e.target \in Range(g.nodes)

\* Every edge into node v comes from D.
Behind(g, v, D) == \A e \in Range(g.edges) : e.target = v => e.source \in D

\* Where every set of vertices has one without successors in it, it has one without
\* predecessors: of a smallest set that has none, the one without successors can be left
\* out.
LEMMA AcyclicSource ==
    ASSUME NEW V, NEW R, Acyclic(V, R), IsFiniteSet(V), NEW S \in SUBSET V, S # {}
    PROVE  \E u \in S : \A v \in S : <<v, u>> \notin R
  <1> SUFFICES ASSUME \A u \in S : \E v \in S : <<v, u>> \in R PROVE FALSE
    OBVIOUS
  <1> DEFINE Closed(X) == X # {} /\ \A u \in X : \E v \in X : <<v, u>> \in R
             Sizes == {Cardinality(X) : X \in {Y \in SUBSET S : Closed(Y)}}
  <1>1. \A X \in SUBSET S : IsFiniteSet(X) /\ Cardinality(X) \in Nat
    BY FS_Subset, FS_CardinalityType
  <1>2. Sizes \in SUBSET Nat /\ Sizes # {}
    BY <1>1
  <1>3. PICK m \in Sizes : \A k \in Sizes : m <= k
    BY <1>2, LeastElement
  <1>4. PICK X \in SUBSET S : Closed(X) /\ m = Cardinality(X)
    BY <1>3
  <1>5. PICK x \in X : \A v \in X : <<x, v>> \notin R
    BY <1>4 DEF Acyclic
  <1>6. Closed(X \ {x})
    <2>1. ASSUME NEW u \in X PROVE \E v \in X \ {x} : <<v, u>> \in R
      <3>1. PICK v \in X : <<v, u>> \in R
        BY <1>4
      <3>2. v # x
        BY <1>5, <3>1
      <3> QED  BY <3>1, <3>2
    <2>2. X \ {x} # {}
      BY <1>5, <2>1
    <2> QED  BY <2>1, <2>2
  <1>7. X \ {x} \in SUBSET S /\ Cardinality(X \ {x}) \in Sizes
    BY <1>6
  <1>8. Cardinality(X \ {x}) = Cardinality(X) - 1
    BY <1>1, <1>5, FS_RemoveElement
  <1>9. m \in Nat
    BY <1>2, <1>3
  <1>10. m <= m - 1
    BY <1>3, <1>4, <1>7, <1>8
  <1> QED  BY <1>9, <1>10

LEMMA RootNodes ==
    ASSUME NEW g, IsGraph(g)
    PROVE  /\ Roots(g) \in Seq(Range(g.nodes)) /\ Distinct(Roots(g))
           /\ Range(Roots(g)) = {v \in Range(g.nodes) : Behind(g, v, {})}
  <1> DEFINE S == {n \in Range(g.nodes) : \A e \in Range(g.edges) : e.target # n}
  <1>1. Roots(g) = Select(g.nodes, S)
    BY DEF Roots
  <1>2. S = {v \in Range(g.nodes) : Behind(g, v, {})}
    BY DEF Behind
  <1> HIDE DEF S
  <1>3. g.nodes \in Seq(Range(g.nodes)) /\ Distinct(g.nodes)
    BY DEF IsGraph
  <1>4. /\ Select(g.nodes, S) \in Seq(Range(g.nodes)) /\ Distinct(Select(g.nodes, S))
        /\ Range(Select(g.nodes, S)) = Range(g.nodes) \cap S
    BY <1>3, SelectRange, SelectDistinct
  <1> QED  BY <1>1, <1>2, <1>4

\* Of the positions of a sequence where something holds there is a last one.
LEMMA LastPosition ==
    ASSUME NEW n \in Nat, NEW P \in SUBSET (1..n), P # {}
    PROVE  \E i \in P : \A j \in P : j <= i
  <1> DEFINE Back == {n - i : i \in P}
  <1>1. Back \in SUBSET Nat /\ Back # {}
    OBVIOUS
  <1>2. PICK m \in Back : \A k \in Back : m <= k
    BY <1>1, LeastElement
  <1>3. PICK i \in P : m = n - i
    BY <1>2
  <1>4. \A j \in P : n - i <= n - j
    BY <1>2, <1>3
  <1> QED  BY <1>4

\* What node u frees: its successors behind what is done, each of them once.
LEMMA FreedNodes ==
    ASSUME NEW g, NEW done, NEW u, IsGraph(g)
    PROVE  /\ Freed(g, done, u) \in Seq(Range(g.nodes)) /\ Distinct(Freed(g, done, u))
           /\ Range(Freed(g, done, u)) =
                 {v \in Range(g.nodes) : /\ <<u, v>> \in Arrows(g)
                                         /\ Behind(g, v, Range(done) \cup {u})}
  <1> DEFINE E == Range(g.edges)
             D == Range(done) \cup {u}
  <1>1. PICK out : out = Select(g.edges, {e \in E : e.source = u})
    OBVIOUS
  <1>2. out \in Seq(E) /\ Range(out) = {e \in E : e.source = u}
    <2>1. g.edges \in Seq(E)
      BY DEF IsGraph
    <2> QED  BY <1>1, <2>1, SelectRange
  <1>3. DOMAIN out = 1..Len(out) /\ Len(out) \in Nat
    BY <1>2
  <1>4. PICK L : L = {i \in DOMAIN out :
                    /\ \A j \in (i + 1)..Len(out) : out[j].target # out[i].target
                    /\ \A e \in E : e.target = out[i].target => e.source \in D}
    OBVIOUS
  <1>5. PICK ids : ids = [i \in DOMAIN out |-> i]
    OBVIOUS
  <1>6. ids \in Seq(DOMAIN out) /\ Distinct(ids) /\ Range(ids) = DOMAIN out
    BY <1>3, <1>5 DEF Distinct, Range
  <1>7. PICK last : last = Select(ids, L)
    OBVIOUS
  <1>8. last \in Seq(DOMAIN out) /\ Distinct(last) /\ Range(last) = L
    <2>1. L \subseteq DOMAIN out
      BY <1>4
    <2>2. Select(ids, L) \in Seq(DOMAIN out) /\ Range(Select(ids, L)) = Range(ids) \cap L
      BY <1>6, SelectRange
    <2>3. Distinct(Select(ids, L))
      BY <1>6, SelectDistinct
    <2> QED  BY <1>6, <1>7, <2>1, <2>2, <2>3
  <1>9. PICK freed : freed = [i \in DOMAIN last |-> out[last[i]].target]
    OBVIOUS
  <1>10. Freed(g, done, u) = freed
    BY <1>1, <1>4, <1>5, <1>7, <1>9 DEF Freed
  <1>11. \A i \in DOMAIN last : last[i] \in L /\ last[i] \in DOMAIN out
    BY <1>4, <1>8 DEF Range
  <1>12. \A i \in DOMAIN out : out[i] \in E /\ out[i].source = u /\ out[i].target \in Range(g.nodes)
    BY <1>2 DEF Range, IsGraph
  <1>13. freed \in Seq(Range(g.nodes)) /\ DOMAIN freed = DOMAIN last
    <2>1. \A i \in DOMAIN last : out[last[i]].target \in Range(g.nodes)
      BY <1>11, <1>12
    <2>2. DOMAIN last = 1..Len(last) /\ Len(last) \in Nat
      BY <1>8
    <2> QED  BY <1>9, <2>1, <2>2
  <1>14. Distinct(freed)
    <2> SUFFICES ASSUME NEW i \in DOMAIN last, NEW j \in DOMAIN last, freed[i] = freed[j]
                 PROVE  i = j
      BY <1>13 DEF Distinct
    <2>1. out[last[i]].target = out[last[j]].target
      BY <1>9
    <2>2. /\ \A k \in (last[i] + 1)..Len(out) : out[k].target # out[last[i]].target
          /\ \A k \in (last[j] + 1)..Len(out) : out[k].target # out[last[j]].target
      BY <1>4, <1>11
    <2>3. last[i] \in 1..Len(out) /\ last[j] \in 1..Len(out)
      BY <1>3, <1>11
    <2>4. ~ (last[i] < last[j]) /\ ~ (last[j] < last[i])
      BY <1>3, <2>1, <2>2, <2>3
    <2>5. last[i] = last[j]
      BY <1>3, <2>3, <2>4
    <2> QED  BY <1>8, <2>5 DEF Distinct
  <1>15. ASSUME NEW v \in Range(freed)
         PROVE  v \in Range(g.nodes) /\ <<u, v>> \in Arrows(g) /\ Behind(g, v, D)
    <2>1. PICK i \in DOMAIN last : v = out[last[i]].target
      BY <1>9 DEF Range
    <2>2. Behind(g, v, D)
      BY <1>4, <1>11, <2>1 DEF Behind
    <2>3. out[last[i]] \in E /\ out[last[i]].source = u /\ v \in Range(g.nodes)
      BY <1>11, <1>12, <2>1
    <2> QED  BY <2>1, <2>2, <2>3 DEF Arrows
  <1>16. ASSUME NEW v, <<u, v>> \in Arrows(g), Behind(g, v, D)
         PROVE  v \in Range(freed)
    <2>1. PICK e \in E : e.source = u /\ e.target = v
      BY <1>16 DEF Arrows
    <2> DEFINE P == {i \in DOMAIN out : out[i].target = v}
    <2>2. P # {}
      <3>1. e \in Range(out)
        BY <1>2, <2>1
      <3> QED  BY <2>1, <3>1 DEF Range
    <2>3. P \in SUBSET (1..Len(out))
      BY <1>3
    <2>4. PICK i \in P : \A j \in P : j <= i
      BY <1>3, <2>2, <2>3, LastPosition
    <2>5. i \in DOMAIN out /\ out[i].target = v
      OBVIOUS
    <2>6. \A j \in (i + 1)..Len(out) : out[j].target # out[i].target
      <3> SUFFICES ASSUME NEW j \in (i + 1)..Len(out), out[j].target = v PROVE FALSE
        BY <2>5
      <3>1. j \in DOMAIN out /\ ~ (j <= i)
        BY <1>3, <2>5
      <3> QED  BY <2>4, <3>1
    <2>7. i \in L
      BY <1>4, <1>16, <2>5, <2>6 DEF Behind
    <2>8. PICK k \in DOMAIN last : last[k] = i
      BY <1>8, <2>7 DEF Range
    <2>9. freed[k] = v
      BY <1>9, <2>5, <2>8
    <2> QED  BY <1>13, <2>8, <2>9 DEF Range
  <1> QED  BY <1>10, <1>13, <1>14, <1>15, <1>16

\* After k turns: the queue and the order have the nodes whose sources are in the order,
\* each of them once, and the nodes of the order come after their sources.
Sorting(g, queue, order, k) ==
    /\ queue \in Seq(Range(g.nodes)) /\ order \in Seq(Range(g.nodes))
    /\ Distinct(queue) /\ Distinct(order) /\ Range(queue) \cap Range(order) = {}
    /\ \A v \in Range(g.nodes) :
          v \in Range(order) \cup Range(queue) <=> Behind(g, v, Range(order))
    /\ \A j \in DOMAIN order : Behind(g, order[j], {order[i] : i \in 1..(j - 1)})
    /\ queue # << >> => Len(order) = k

LEMMA AdvanceStep ==
    ASSUME NEW g, IsGraph(g), NEW s, NEW k \in Nat, Sorting(g, s.queue, s.order, k)
    PROVE  Sorting(g, Advance(g, s).queue, Advance(g, s).order, k + 1)
  <1>1. CASE s.queue = << >>
    BY <1>1 DEF Advance, Sorting
  <1>2. CASE s.queue # << >>
    <2> DEFINE N == Range(g.nodes)
    <2>0. s.queue \in Seq(N) /\ s.order \in Seq(N)
      BY DEF Sorting
    <2>1. PICK u : u = Head(s.queue)
      OBVIOUS
    <2>2. PICK rest : rest = Tail(s.queue)
      OBVIOUS
    <2>3. /\ u \in N /\ u = s.queue[1] /\ rest \in Seq(N) /\ 1 \in DOMAIN s.queue
          /\ \A i \in DOMAIN rest : i + 1 \in DOMAIN s.queue /\ rest[i] = s.queue[i + 1] /\ i # 0
          /\ \A i \in DOMAIN s.queue : i = 1 \/ (i - 1 \in DOMAIN rest /\ rest[i - 1] = s.queue[i])
      <3>1. PICK q \in Seq(N) : q = s.queue /\ q # << >>
        BY <1>2, <2>0
      <3>2. /\ Len(q) \in Nat /\ Len(q) # 0 /\ DOMAIN q = 1..Len(q) /\ 1 \in DOMAIN q
            /\ u = q[1] /\ u \in N
        BY <2>1, <3>1
      <3>3. rest = Tail(q)
        BY <2>2, <3>1
      <3>4. rest \in Seq(N) /\ Len(rest) = Len(q) - 1 /\ DOMAIN rest = 1..(Len(q) - 1)
        <4>1. Tail(q) \in Seq(N)
          BY <3>1, HeadTailProperties
        <4>2. Len(Tail(q)) = Len(q) - 1
          BY <3>1
        <4> QED  BY <3>2, <3>3, <4>1, <4>2
      <3>5. \A i \in 1..(Len(q) - 1) : rest[i] = q[i + 1]
        BY <3>1, <3>2, <3>3
      <3>6. \A i \in DOMAIN rest : i + 1 \in DOMAIN q /\ i \in 1..(Len(q) - 1) /\ i # 0
        BY <3>2, <3>4
      <3>7. \A i \in DOMAIN q : i = 1 \/ (i - 1 \in 1..(Len(q) - 1) /\ (i - 1) + 1 = i)
        BY <3>2
      <3>8. \A i \in DOMAIN q : i = 1 \/ (i - 1 \in DOMAIN rest /\ rest[i - 1] = q[i])
        <4> SUFFICES ASSUME NEW i \in DOMAIN q, i # 1
                     PROVE  i - 1 \in DOMAIN rest /\ rest[i - 1] = q[i]
          OBVIOUS
        <4>1. i - 1 \in 1..(Len(q) - 1) /\ (i - 1) + 1 = i
          BY <3>7
        <4> QED  BY <3>4, <3>5, <4>1
      <3> QED  BY <3>1, <3>2, <3>4, <3>5, <3>6, <3>8
    <2>4. Distinct(rest) /\ u \notin Range(rest) /\ Range(s.queue) = {u} \cup Range(rest)
      <3>1. \A i, j \in DOMAIN rest : rest[i] = rest[j] => i = j
        <4> SUFFICES ASSUME NEW i \in DOMAIN rest, NEW j \in DOMAIN rest, rest[i] = rest[j]
                     PROVE  i = j
          OBVIOUS
        <4>1. i + 1 = j + 1
          BY <2>3 DEF Sorting, Distinct
        <4>2. i \in Nat /\ j \in Nat
          BY <2>3
        <4> QED  BY <4>1, <4>2
      <3>2. u \notin Range(rest)
        <4> SUFFICES ASSUME NEW i \in DOMAIN rest, rest[i] = u PROVE FALSE
          BY DEF Range
        <4>1. i + 1 = 1
          BY <2>3 DEF Sorting, Distinct
        <4>2. i \in Nat
          BY <2>3
        <4> QED  BY <2>3, <4>1, <4>2
      <3>3. Range(s.queue) \subseteq {u} \cup Range(rest)
        BY <2>3 DEF Range
      <3>4. {u} \cup Range(rest) \subseteq Range(s.queue)
        BY <2>3 DEF Range
      <3> QED  BY <3>1, <3>2, <3>3, <3>4 DEF Distinct
    <2>5. PICK freed : freed = Freed(g, s.order, u)
      OBVIOUS
    <2>6. /\ freed \in Seq(N) /\ Distinct(freed)
          /\ Range(freed) = {v \in N : <<u, v>> \in Arrows(g) /\ Behind(g, v, Range(s.order) \cup {u})}
      <3>1. PICK done : done = s.order
        OBVIOUS
      <3>2. /\ Freed(g, done, u) \in Seq(N) /\ Distinct(Freed(g, done, u))
            /\ Range(Freed(g, done, u)) =
                  {v \in N : <<u, v>> \in Arrows(g) /\ Behind(g, v, Range(done) \cup {u})}
        BY FreedNodes
      <3> QED  BY <2>5, <3>1, <3>2
    <2>7. PICK order : order = Append(s.order, u)
      OBVIOUS
    <2>8. u \notin Range(s.order)
      BY <2>4 DEF Sorting
    <2>9. order \in Seq(N) /\ Range(order) = Range(s.order) \cup {u} /\ Distinct(order)
      <3>1. s.order \in Seq(N) /\ Distinct(s.order) /\ u \in N
        BY <2>3 DEF Sorting
      <3> QED  BY <2>7, <2>8, <3>1, AppendRange, AppendDistinct
    <2>10. Behind(g, u, Range(s.order))
      BY <2>3, <2>4 DEF Sorting
    <2>11. \A v \in Range(freed) : v \notin Range(s.order) \cup Range(s.queue)
      <3> SUFFICES ASSUME NEW v \in Range(freed), v \in Range(s.order) \cup Range(s.queue)
                   PROVE  FALSE
        OBVIOUS
      <3>1. v \in N /\ <<u, v>> \in Arrows(g)
        BY <2>6
      <3>2. Behind(g, v, Range(s.order))
        BY <3>1 DEF Sorting
      <3> QED  BY <2>8, <3>1, <3>2 DEF Arrows, Behind
    <2>12. PICK queue : queue = rest \o freed
      OBVIOUS
    <2>13. /\ queue \in Seq(N) /\ Range(queue) = Range(rest) \cup Range(freed) /\ Distinct(queue)
      <3>1. Range(rest) \cap Range(freed) = {}
        BY <2>4, <2>11
      <3>2. rest \in Seq(N) /\ freed \in Seq(N) /\ Distinct(rest) /\ Distinct(freed)
        BY <2>3, <2>4, <2>6
      <3>3. rest \o freed \in Seq(N)
        BY <3>2
      <3>4. Range(rest \o freed) = Range(rest) \cup Range(freed)
        BY <3>2, ConcatRange
      <3>5. Distinct(rest \o freed)
        BY <3>1, <3>2, ConcatDistinct
      <3> QED  BY <2>12, <3>3, <3>4, <3>5
    <2>14. Range(queue) \cap Range(order) = {}
      <3>1. Range(rest) \cap Range(s.order) = {}
        BY <2>4 DEF Sorting
      <3> QED  BY <2>4, <2>9, <2>11, <2>13, <3>1
    <2>15. ASSUME NEW v \in N
           PROVE  v \in Range(order) \cup Range(queue) <=> Behind(g, v, Range(order))
      <3>1. v \in Range(s.order) \cup Range(s.queue) <=> Behind(g, v, Range(s.order))
        BY DEF Sorting
      <3>2. Behind(g, v, Range(s.order)) => Behind(g, v, Range(order))
        BY <2>9 DEF Behind
      <3>3. v \in Range(freed) => Behind(g, v, Range(order))
        BY <2>6, <2>9
      <3>4. ASSUME Behind(g, v, Range(order)), v \notin Range(freed)
            PROVE  Behind(g, v, Range(s.order))
        <4>1. <<u, v>> \notin Arrows(g)
          BY <2>6, <2>9, <3>4
        <4> QED  BY <2>9, <3>4, <4>1 DEF Behind, Arrows
      <3> QED  BY <2>4, <2>9, <2>13, <3>1, <3>2, <3>3, <3>4
    <2>16. /\ DOMAIN order = 1..(Len(s.order) + 1) /\ DOMAIN s.order = 1..Len(s.order)
           /\ Len(s.order) \in Nat /\ Len(order) = Len(s.order) + 1
           /\ order[Len(s.order) + 1] = u /\ \A i \in 1..Len(s.order) : order[i] = s.order[i]
      BY <2>0, <2>3, <2>7
    <2>17. ASSUME NEW j \in DOMAIN order
           PROVE  Behind(g, order[j], {order[i] : i \in 1..(j - 1)})
      <3>1. CASE j \in 1..Len(s.order)
        <4>1. order[j] = s.order[j] /\ \A i \in 1..(j - 1) : order[i] = s.order[i]
          BY <2>16, <3>1
        <4>2. Behind(g, s.order[j], {s.order[i] : i \in 1..(j - 1)})
          BY <2>16, <3>1 DEF Sorting
        <4>3. {s.order[i] : i \in 1..(j - 1)} = {order[i] : i \in 1..(j - 1)}
          BY <4>1
        <4> QED  BY <4>1, <4>2, <4>3
      <3>2. CASE j = Len(s.order) + 1
        <4>1. order[j] = u /\ j - 1 = Len(s.order)
          BY <2>16, <3>2
        <4>2. \A i \in 1..(j - 1) : order[i] = s.order[i]
          BY <2>16, <4>1
        <4>3. Range(s.order) = {s.order[i] : i \in 1..(j - 1)}
          BY <2>16, <4>1 DEF Range
        <4>4. Range(s.order) = {order[i] : i \in 1..(j - 1)}
          BY <4>2, <4>3
        <4> QED  BY <2>10, <4>1, <4>4
      <3> QED  BY <2>16, <3>1, <3>2
    <2>18. Len(order) = k + 1
      BY <1>2, <2>16 DEF Sorting
    <2>19. Advance(g, s) = [queue |-> queue, order |-> order]
      BY <1>2, <2>1, <2>2, <2>5, <2>7, <2>12 DEF Advance
    <2>20. PICK t : t = Advance(g, s)
      OBVIOUS
    <2>21. t.queue = queue /\ t.order = order
      BY <2>19, <2>20
    <2>22. \A j \in DOMAIN order : Behind(g, order[j], {order[i] : i \in 1..(j - 1)})
      BY <2>17
    <2>23. \A v \in Range(g.nodes) :
              v \in Range(order) \cup Range(queue) <=> Behind(g, v, Range(order))
      BY <2>15
    <2>24. Sorting(g, queue, order, k + 1)
      BY <2>9, <2>13, <2>14, <2>18, <2>22, <2>23 DEF Sorting
    <2> QED  BY <2>20, <2>21, <2>24
  <1> QED  BY <1>1, <1>2

\* When nothing more can happen every node is in the order.
LEMMA SortingEnds ==
    ASSUME NEW g, IsGraph(g), Acyclic(Range(g.nodes), Arrows(g)),
           NEW s, Sorting(g, s.queue, s.order, Len(g.nodes))
    PROVE  Range(s.order) = Range(g.nodes)
  <1> DEFINE N == Range(g.nodes)
  <1>1. g.nodes \in Seq(N) /\ Len(g.nodes) \in Nat /\ DOMAIN g.nodes = 1..Len(g.nodes)
    BY DEF IsGraph
  <1>2. Range(s.order) \subseteq N
    BY DEF Sorting, Range
  <1>3. IsFiniteSet(N) /\ Cardinality(N) = Len(g.nodes)
    <2>1. g.nodes \in Bijection(1..Len(g.nodes), N)
      <3>1. g.nodes \in [1..Len(g.nodes) -> N]
        BY <1>1
      <3> QED  BY <1>1, <3>1 DEF Bijection, Injection, Surjection, IsInjective, Distinct, IsGraph, Range
    <2>2. ExistsBijection(1..Len(g.nodes), N)
      BY <2>1 DEF ExistsBijection
    <2> QED  BY <1>1, <2>2, FS_NatBijection, FS_CountingElements
  <1>4. CASE s.queue = << >>
    <2> SUFFICES ASSUME N \ Range(s.order) # {} PROVE FALSE
      BY <1>2
    <2>1. Range(s.queue) = {}
      BY <1>4 DEF Range
    <2>2. PICK v \in N \ Range(s.order) : \A w \in N \ Range(s.order) : <<w, v>> \notin Arrows(g)
      BY <1>3, AcyclicSource
    <2>3. ~ Behind(g, v, Range(s.order))
      BY <2>1 DEF Sorting
    <2>4. PICK e \in Range(g.edges) : e.target = v /\ e.source \notin Range(s.order)
      BY <2>3 DEF Behind
    <2>5. e.source \in N \ Range(s.order) /\ <<e.source, v>> \in Arrows(g)
      BY <2>4 DEF IsGraph, Arrows
    <2> QED  BY <2>2, <2>5
  <1>5. CASE s.queue # << >>
    <2>1. /\ s.order \in Seq(N) /\ Distinct(s.order) /\ Len(s.order) = Len(g.nodes)
          /\ DOMAIN s.order = 1..Len(g.nodes)
      BY <1>5 DEF Sorting
    <2>2. s.order \in Bijection(1..Len(g.nodes), Range(s.order))
      <3>1. s.order \in [1..Len(g.nodes) -> Range(s.order)]
        BY <2>1 DEF Range
      <3> QED  BY <2>1, <3>1 DEF Bijection, Injection, Surjection, IsInjective, Distinct, Range
    <2>3. ExistsBijection(1..Len(g.nodes), Range(s.order))
      BY <2>2 DEF ExistsBijection
    <2>4. Cardinality(Range(s.order)) = Len(g.nodes)
      <3>1. IsFiniteSet(Range(s.order))
        BY <1>2, <1>3, FS_Subset
      <3> QED  BY <1>1, <2>3, <3>1, FS_CountingElements
    <2> QED  BY <1>2, <1>3, <2>4, FS_Subset
  <1> QED  BY <1>4, <1>5

\* The recursion in TopologicalSort defines a function.
Turns(f, g, n) ==
    f = [k \in 0..n |-> IF k = 0 THEN [queue |-> Roots(g), order |-> << >>]
                        ELSE Advance(g, f[k - 1])]
LEMMA TurnsDefined ==
    ASSUME NEW g, NEW n \in Nat
    PROVE  \E f : Turns(f, g, n)
  <1> DEFINE Start == [queue |-> Roots(g), order |-> << >>]
             Good == {k \in Nat : \E f : Turns(f, g, k)}
  <1>1. 0 \in Good
    <2> DEFINE f == [i \in 0..0 |-> Start]
    <2>1. Turns(f, g, 0)
      BY DEF Turns
    <2> QED  BY <2>1
  <1>2. ASSUME NEW k \in Nat, k \in Good PROVE k + 1 \in Good
    <2>1. PICK f : Turns(f, g, k)
      BY <1>2
    <2> DEFINE h == [i \in 0..(k + 1) |-> IF i = k + 1 THEN Advance(g, f[k]) ELSE f[i]]
    <2>2. \A i \in 0..k : h[i] = f[i]
      OBVIOUS
    <2>3. ASSUME NEW i \in 0..(k + 1)
          PROVE  h[i] = IF i = 0 THEN Start ELSE Advance(g, h[i - 1])
      <3>1. CASE i = k + 1
        <4>1. h[i - 1] = f[k] /\ i # 0
          BY <2>2, <3>1
        <4>2. h[i] = Advance(g, f[k])
          BY <3>1
        <4> QED  BY <4>1, <4>2
      <3>2. CASE i = 0
        BY <2>1, <2>2, <3>2 DEF Turns
      <3>3. CASE i \in 1..k
        <4>1. h[i - 1] = f[i - 1] /\ h[i] = f[i] /\ i # 0 /\ i \in 0..k
          BY <2>2, <3>3
        <4>2. f[i] = Advance(g, f[i - 1])
          BY <2>1, <4>1 DEF Turns
        <4> QED  BY <4>1, <4>2
      <3> QED  BY <3>1, <3>2, <3>3
    <2>4. Turns(h, g, k + 1)
      BY <2>3, Zenon DEF Turns
    <2> HIDE DEF h
    <2> QED  BY <2>4
  <1> HIDE DEF Good
  <1>3. n \in Good
    BY <1>1, <1>2, Induction
  <1> QED  BY <1>3 DEF Good

\* The order of an acyclic graph has every node once, after the sources of its edges.
THEOREM SortCorrect ==
    ASSUME NEW g, IsGraph(g), Acyclic(Range(g.nodes), Arrows(g))
    PROVE  LET order == TopologicalSort(g) IN
           /\ order \in Seq(Range(g.nodes)) /\ Distinct(order) /\ Range(order) = Range(g.nodes)
           /\ \A e \in Range(g.edges) :
                 \E i, j \in DOMAIN order : i < j /\ order[i] = e.source /\ order[j] = e.target
  <1> DEFINE n == Len(g.nodes)
             f == CHOOSE f : Turns(f, g, n)
  <1>1. n \in Nat
    BY DEF IsGraph
  <1>2. TopologicalSort(g) = f[n].order
    BY DEF TopologicalSort, Turns
  <1>3. Turns(f, g, n)
    <2>1. \E h : Turns(h, g, n)
      BY <1>1, TurnsDefined
    <2> QED  BY <2>1
  <1> HIDE DEF f, n
  <1> DEFINE Good == {k \in Nat : k <= n => Sorting(g, f[k].queue, f[k].order, k)}
  <1>4. 0 \in Good
    <2>1. PICK s : s = f[0]
      OBVIOUS
    <2>2. s.queue = Roots(g) /\ s.order = << >>
      BY <1>1, <1>3, <2>1 DEF Turns
    <2>3. /\ s.order \in Seq(Range(g.nodes)) /\ Range(s.order) = {} /\ DOMAIN s.order = {}
          /\ Len(s.order) = 0
      BY <2>2 DEF Range
    <2>4. Sorting(g, s.queue, s.order, 0)
      BY <2>2, <2>3, RootNodes DEF Sorting, Distinct
    <2> QED  BY <2>1, <2>4
  <1>5. ASSUME NEW k \in Nat, k \in Good PROVE k + 1 \in Good
    <2> SUFFICES ASSUME k + 1 <= n PROVE Sorting(g, f[k + 1].queue, f[k + 1].order, k + 1)
      OBVIOUS
    <2>1. Sorting(g, f[k].queue, f[k].order, k)
      BY <1>1, <1>5
    <2>2. f[k + 1] = Advance(g, f[k])
      <3>1. k + 1 \in 0..n /\ k + 1 # 0 /\ (k + 1) - 1 = k
        BY <1>1
      <3> QED  BY <1>3, <3>1 DEF Turns
    <2> QED  BY <2>1, <2>2, AdvanceStep
  <1>6. Sorting(g, f[n].queue, f[n].order, n)
    <2> HIDE DEF Good
    <2>1. n \in Good
      BY <1>1, <1>4, <1>5, Induction
    <2> QED  BY <1>1, <2>1 DEF Good
  <1>7. PICK order : order = f[n].order
    OBVIOUS
  <1>8. /\ order \in Seq(Range(g.nodes)) /\ Distinct(order)
        /\ \A j \in DOMAIN order : Behind(g, order[j], {order[i] : i \in 1..(j - 1)})
    BY <1>6, <1>7 DEF Sorting
  <1>9. Range(order) = Range(g.nodes)
    BY <1>6, <1>7, SortingEnds DEF n
  <1>10. ASSUME NEW e \in Range(g.edges)
         PROVE  \E i, j \in DOMAIN order : i < j /\ order[i] = e.source /\ order[j] = e.target
    <2>1. PICK j \in DOMAIN order : order[j] = e.target
      BY <1>9 DEF IsGraph, Range
    <2>2. e.source \in {order[i] : i \in 1..(j - 1)}
      BY <1>8, <2>1 DEF Behind
    <2>3. PICK i \in 1..(j - 1) : order[i] = e.source
      BY <2>2
    <2>4. i \in DOMAIN order /\ i < j
      BY <1>8
    <2> QED  BY <2>1, <2>3, <2>4
  <1> QED  BY <1>2, <1>7, <1>8, <1>9, <1>10

-----------------------------------------------------------------------------
(* Flattening: the nodes.                                                  *)

\* No node of the process is an instance of a module.
Plain(d) == \A n \in DOMAIN d.inst : ~ IsModule(d, d.inst[n].type)
Nodes(d) == {<<n>> : n \in DOMAIN d.inst}

\* The names of flat nodes.
Path == Seq(Name \cup Marks)

\* What is appended to a path can be taken off again.
LEMMA Child ==
    ASSUME NEW p \in Path, NEW x \in Name \cup Marks
    PROVE  /\ Append(p, x) \in Path /\ Len(p) \in Nat /\ Len(Append(p, x)) = Len(p) + 1
           /\ Front(Append(p, x)) = p /\ Last(Append(p, x)) = x
  <1>1. PICK q : q = Append(p, x)
    OBVIOUS
  <1>2. q \in Path /\ Len(p) \in Nat /\ Len(q) = Len(p) + 1 /\ q[Len(q)] = x
    BY <1>1 DEF Path
  <1>3. SubSeq(q, 1, Len(q) - 1) = p
    <2>1. Len(q) - 1 = Len(p)
      BY <1>2
    <2>2. SubSeq(q, 1, Len(p)) = p
      BY <1>1, <1>2 DEF Path
    <2> QED  BY <2>1, <2>2
  <1> QED  BY <1>1, <1>2, <1>3 DEF Front, Last

LEMMA Single ==
    ASSUME NEW S, NEW q \in Seq(S), Len(q) = 1
    PROVE  q = <<q[1]>> /\ q[1] \in S
  <1>1. 1 \in 1..Len(q)
    OBVIOUS
  <1>2. q[1] \in S
    BY <1>1, ElementOfSeq
  <1>3. <<q[1]>> \in Seq(S) /\ Len(<<q[1]>>) = 1 /\ <<q[1]>>[1] = q[1]
    BY <1>2
  <1>4. ASSUME NEW i \in 1..Len(q) PROVE q[i] = <<q[1]>>[i]
    <2>1. i = 1
      BY <1>4
    <2> QED  BY <2>1, <1>3
  <1> QED  BY <1>2, <1>3, <1>4, SeqEqual

LEMMA Marked ==
    ASSUME AlphabetAssumption, NEW p \in Path
    PROVE  /\ Entrance(p) \in Path /\ Exit(p) \in Path /\ Entrance(p) # Exit(p)
           /\ Len(p) \in Nat /\ Len(Entrance(p)) = Len(p) + 1 /\ Len(Exit(p)) = Len(p) + 1
           /\ Front(Entrance(p)) = p /\ Front(Exit(p)) = p
           /\ Last(Entrance(p)) = "____in__" /\ Last(Exit(p)) = "____out__"
           /\ \A n \in Name : /\ Entrance(p) # Append(p, n) /\ Exit(p) # Append(p, n)
                              /\ n \notin Marks /\ n # Input
           /\ Last(Entrance(p)) \in Marks /\ Last(Exit(p)) \in Marks
  <1>1. "____in__" \in Marks /\ "____out__" \in Marks /\ "____in__" # "____out__"
    BY DEF Marks
  <1>2. \A n \in Name : n \notin Marks /\ n # Input
    BY DEF AlphabetAssumption
  <1>3. /\ Entrance(p) \in Path /\ Len(p) \in Nat /\ Len(Entrance(p)) = Len(p) + 1
        /\ Front(Entrance(p)) = p /\ Last(Entrance(p)) = "____in__"
    BY <1>1, Child DEF Entrance
  <1>4. /\ Exit(p) \in Path /\ Len(Exit(p)) = Len(p) + 1
        /\ Front(Exit(p)) = p /\ Last(Exit(p)) = "____out__"
    BY <1>1, Child DEF Exit
  <1>5. \A n \in Name : Last(Append(p, n)) = n
    BY Child
  <1> QED  BY <1>1, <1>2, <1>3, <1>4, <1>5

\* In order are all names of a set of them, once.
LEMMA InOrderNames ==
    ASSUME AlphabetAssumption, NEW S \in SUBSET Name
    PROVE  InOrder(S) \in Seq(Name) /\ Range(InOrder(S)) = S /\ Distinct(InOrder(S))
  <1>1. Alphabet \in Seq(Name) /\ Distinct(Alphabet) /\ Range(Alphabet) = Name
    BY DEF AlphabetAssumption, Distinct, Name
  <1>2. Select(Alphabet, S) \in Seq(Name) /\ Range(Select(Alphabet, S)) = Range(Alphabet) \cap S
    BY <1>1, SelectRange
  <1>3. Distinct(Select(Alphabet, S))
    BY <1>1, SelectDistinct
  <1> QED  BY <1>1, <1>2, <1>3 DEF InOrder

LEMMA TopNodes ==
    ASSUME NEW d, WellFormed(d), AlphabetAssumption
    PROVE  /\ Top(d).nodes \in Seq(Path) /\ Distinct(Top(d).nodes)
           /\ Range(Top(d).nodes) = Nodes(d) /\ DOMAIN Top(d).inst = Nodes(d)
           /\ \A n \in DOMAIN d.inst : Top(d).inst[<<n>>] = d.inst[n]
  <1>0. PICK names : names = InOrder(DOMAIN d.inst)
    OBVIOUS
  <1> DEFINE nodes == [i \in DOMAIN names |-> <<names[i]>>]
  <1>1. names \in Seq(Name) /\ Range(names) = DOMAIN d.inst /\ Distinct(names)
    BY <1>0, InOrderNames DEF WellFormed, HasGraph
  <1>2. \A n \in Name : <<n>> \in Path
    BY DEF Path
  <1>3. nodes \in Seq(Path)
    BY <1>1, <1>2 DEF Range
  <1>4. Range(nodes) = Nodes(d)
    <2>1. DOMAIN nodes = DOMAIN names
      OBVIOUS
    <2> QED  BY <1>1, <2>1 DEF Range, Nodes
  <1>5. Distinct(nodes)
    <2>1. \A m, n : <<m>> = <<n>> => m = n
      OBVIOUS
    <2> QED  BY <1>1, <2>1 DEF Distinct
  <1>6. Top(d).nodes = nodes /\ Top(d).inst = [p \in Nodes(d) |-> d.inst[p[1]]]
    BY <1>0 DEF Top, Nodes
  <1>7. \A n \in DOMAIN d.inst : <<n>> \in Nodes(d) /\ <<n>>[1] = n
    BY DEF Nodes
  <1> HIDE DEF nodes
  <1> QED  BY <1>3, <1>4, <1>5, <1>6, <1>7

\* The nodes that take the place of an instance, and of a graph after a round.
Contents(d, g, p) ==
    {Entrance(p), Exit(p)} \cup {Append(p, n) : n \in DOMAIN ModuleAt(d, g, p).inst}
NodesAfter(d, g) ==
    (Range(g.nodes) \ Instances(d, g)) \cup UNION {Contents(d, g, p) : p \in Instances(d, g)}

\* An instance is one of a module of the process.
LEMMA InstanceModule ==
    ASSUME NEW d, WellFormed(d), NEW g, NEW p \in Instances(d, g)
    PROVE  /\ p \in Range(g.nodes) /\ Last(p) \notin Marks
           /\ g.inst[p].type \in DOMAIN d.modules
           /\ ModuleAt(d, g, p) = d.modules[g.inst[p].type]
           /\ HasGraph(ModuleAt(d, g, p)) /\ DOMAIN ModuleAt(d, g, p).inst \subseteq Name
           /\ ModuleAt(d, g, p).outputs \in Seq(Range(ModuleAt(d, g, p).outputs))
  <1>1. p \in Range(g.nodes) /\ Last(p) \notin Marks /\ g.inst[p].type \in DOMAIN d.modules
    BY DEF Instances, IsInstance, IsModule, Nested
  <1>2. ModuleAt(d, g, p) = d.modules[g.inst[p].type]
    BY DEF ModuleAt
  <1> QED  BY <1>1, <1>2 DEF WellFormed, HasGraph

LEMMA PartsNodes ==
    ASSUME NEW d, WellFormed(d), AlphabetAssumption, NEW g, NEW p \in Path
    PROVE  /\ Parts(d, g, p) \in Seq(Path) /\ Distinct(Parts(d, g, p))
           /\ Range(Parts(d, g, p)) = IF p \in Instances(d, g) THEN Contents(d, g, p) ELSE {p}
  <1>1. CASE p \notin Instances(d, g)
    <2>1. PICK s : s = <<p>>
      OBVIOUS
    <2>2. s \in Seq(Path) /\ DOMAIN s = {1} /\ s[1] = p
      BY <2>1
    <2>3. Distinct(s) /\ Range(s) = {p}
      BY <2>2 DEF Distinct, Range
    <2> QED  BY <1>1, <2>1, <2>2, <2>3 DEF Parts
  <1>2. CASE p \in Instances(d, g)
    <2>1. PICK names : names = InOrder(DOMAIN ModuleAt(d, g, p).inst)
      OBVIOUS
    <2>2. names \in Seq(Name) /\ Range(names) = DOMAIN ModuleAt(d, g, p).inst /\ Distinct(names)
      BY <1>2, <2>1, InstanceModule, InOrderNames
    <2>3. PICK inside : inside = [i \in DOMAIN names |-> Append(p, names[i])]
      OBVIOUS
    <2>4. \A i \in DOMAIN names : names[i] \in Name /\ names[i] \in Name \cup Marks
      BY <2>2
    <2>5. DOMAIN names = 1..Len(names) /\ Len(names) \in Nat
      BY <2>2
    <2>6. \A i \in DOMAIN names : inside[i] = Append(p, names[i])
      BY <2>3
    <2>7. \A i \in DOMAIN names : inside[i] \in Path /\ Last(inside[i]) = names[i]
      BY <2>4, <2>6, Child
    <2>8. DOMAIN inside = DOMAIN names
      BY <2>3
    <2>9. inside \in Seq(Path)
      <3>1. inside = [i \in 1..Len(names) |-> inside[i]]
        BY <2>3, <2>5
      <3> QED  BY <2>5, <2>7, <3>1
    <2>10. Distinct(inside)
      BY <2>2, <2>7, <2>8 DEF Distinct
    <2>11. Range(inside) = {Append(p, n) : n \in DOMAIN ModuleAt(d, g, p).inst}
      <3>1. Range(inside) = {Append(p, names[i]) : i \in DOMAIN names}
        BY <2>6, <2>8 DEF Range
      <3>2. Range(names) = {names[i] : i \in DOMAIN names}
        BY DEF Range
      <3>3. {Append(p, names[i]) : i \in DOMAIN names} = {Append(p, n) : n \in {names[i] : i \in DOMAIN names}}
        BY Zenon
      <3> QED  BY <2>2, <3>1, <3>2, <3>3
    <2>12. PICK ends : ends = <<Entrance(p), Exit(p)>>
      OBVIOUS
    <2>13. ends \in Seq(Path) /\ Range(ends) = {Entrance(p), Exit(p)} /\ Distinct(ends)
      <3>1. Entrance(p) \in Path /\ Exit(p) \in Path /\ Entrance(p) # Exit(p)
        BY Marked
      <3>2. DOMAIN ends = {1, 2} /\ ends[1] = Entrance(p) /\ ends[2] = Exit(p) /\ ends \in Seq(Path)
        BY <2>12, <3>1
      <3> QED  BY <3>1, <3>2 DEF Range, Distinct
    <2>14. Range(ends) \cap Range(inside) = {}
      <3>1. \A i \in DOMAIN inside : inside[i] # Entrance(p) /\ inside[i] # Exit(p)
        BY <2>4, <2>6, <2>8, Marked
      <3> QED  BY <2>13, <3>1 DEF Range
    <2>15. Parts(d, g, p) = ends \o inside
      BY <1>2, <2>1, <2>3, <2>12 DEF Parts
    <2>16. ends \o inside \in Seq(Path)
      BY <2>9, <2>13
    <2>17. Range(ends \o inside) = Range(ends) \cup Range(inside)
      BY <2>9, <2>13, ConcatRange
    <2>18. Distinct(ends \o inside)
      BY <2>9, <2>10, <2>13, <2>14, ConcatDistinct
    <2>19. Range(ends) \cup Range(inside) = Contents(d, g, p)
      BY <2>11, <2>13 DEF Contents
    <2> QED  BY <1>2, <2>15, <2>16, <2>17, <2>18, <2>19, Zenon
  <1> QED  BY <1>1, <1>2

\* A round replaces the instances by their contents and leaves the other nodes.
LEMMA ExpandNodes ==
    ASSUME NEW d, WellFormed(d), AlphabetAssumption, NEW g, g.nodes \in Seq(Path)
    PROVE  /\ Expand(d, g).nodes \in Seq(Path)
           /\ Range(Expand(d, g).nodes) = NodesAfter(d, g)
           /\ DOMAIN Expand(d, g).inst = NodesAfter(d, g)
           /\ \A q \in NodesAfter(d, g) :
                 /\ q \in DOMAIN g.inst => Expand(d, g).inst[q] = g.inst[q]
                 /\ q \notin DOMAIN g.inst => Expand(d, g).inst[q] = Made(d, g, q)
  <1>1. PICK parts : parts = [i \in DOMAIN g.nodes |-> Parts(d, g, g.nodes[i])]
    OBVIOUS
  <1>2. Expand(d, g).nodes = FlattenSeq(parts)
    BY <1>1 DEF Expand
  <1>3. DOMAIN g.nodes = 1..Len(g.nodes) /\ Len(g.nodes) \in Nat /\ \A i \in DOMAIN g.nodes : g.nodes[i] \in Path
    OBVIOUS
  <1>4. \A i \in DOMAIN g.nodes : parts[i] = Parts(d, g, g.nodes[i]) /\ parts[i] \in Seq(Path)
    BY <1>1, <1>3, PartsNodes
  <1>5. parts \in Seq(Seq(Path)) /\ Len(parts) = Len(g.nodes)
    <2>1. parts \in [1..Len(g.nodes) -> Seq(Path)]
      BY <1>1, <1>3, <1>4
    <2> QED  BY <1>3, <2>1, FunctionSequence
  <1>6. /\ FlattenSeq(parts) \in Seq(Path)
        /\ Range(FlattenSeq(parts)) = UNION {Range(parts[i]) : i \in 1..Len(parts)}
    BY <1>5, FlattenRange
  <1>7. ASSUME NEW q \in UNION {Range(parts[i]) : i \in 1..Len(parts)}
        PROVE  q \in NodesAfter(d, g)
    <2>1. PICK i \in DOMAIN g.nodes : q \in Range(parts[i])
      BY <1>3, <1>5
    <2>2. PICK p \in Path : p = g.nodes[i]
      BY <1>3
    <2>3. p \in Range(g.nodes) /\ q \in Range(Parts(d, g, p))
      BY <1>4, <2>1, <2>2 DEF Range
    <2>4. Range(Parts(d, g, p)) = IF p \in Instances(d, g) THEN Contents(d, g, p) ELSE {p}
      BY PartsNodes
    <2> QED  BY <2>3, <2>4 DEF NodesAfter
  <1>8. ASSUME NEW q \in NodesAfter(d, g)
        PROVE  q \in UNION {Range(parts[i]) : i \in 1..Len(parts)}
    <2>1. PICK p \in Range(g.nodes) :
             q \in IF p \in Instances(d, g) THEN Contents(d, g, p) ELSE {p}
      BY DEF NodesAfter, Instances
    <2>2. PICK i \in DOMAIN g.nodes : p = g.nodes[i]
      BY DEF Range
    <2>3. p \in Path
      BY <1>3, <2>2
    <2>4. Range(Parts(d, g, p)) = IF p \in Instances(d, g) THEN Contents(d, g, p) ELSE {p}
      BY <2>3, PartsNodes
    <2>5. q \in Range(parts[i])
      BY <1>4, <2>1, <2>2, <2>4
    <2> QED  BY <1>3, <1>5, <2>5
  <1>9. Range(Expand(d, g).nodes) = NodesAfter(d, g)
    BY <1>2, <1>6, <1>7, <1>8
  <1>10. Expand(d, g).inst = [q \in Range(Expand(d, g).nodes) |->
                                 IF q \in DOMAIN g.inst THEN g.inst[q] ELSE Made(d, g, q)]
    BY DEF Expand
  <1> QED  BY <1>2, <1>6, <1>9, <1>10

\* A round gives no node twice where the instances are the longest nodes.
LEMMA ExpandDistinct ==
    ASSUME NEW d, WellFormed(d), AlphabetAssumption, NEW g, g.nodes \in Seq(Path),
           Distinct(g.nodes),
           \A p \in Instances(d, g), q \in Range(g.nodes) : Len(q) # Len(p) + 1
    PROVE  Distinct(Expand(d, g).nodes)
  <1>1. PICK parts : parts = [i \in DOMAIN g.nodes |-> Parts(d, g, g.nodes[i])]
    OBVIOUS
  <1>2. Expand(d, g).nodes = FlattenSeq(parts)
    BY <1>1 DEF Expand
  <1>3. DOMAIN g.nodes = 1..Len(g.nodes) /\ Len(g.nodes) \in Nat /\ \A i \in DOMAIN g.nodes : g.nodes[i] \in Path
    OBVIOUS
  <1>4. \A i \in DOMAIN g.nodes :
           /\ parts[i] = Parts(d, g, g.nodes[i]) /\ parts[i] \in Seq(Path) /\ Distinct(parts[i])
           /\ Range(parts[i]) = IF g.nodes[i] \in Instances(d, g) THEN Contents(d, g, g.nodes[i])
                                ELSE {g.nodes[i]}
    BY <1>1, <1>3, PartsNodes
  <1>5. parts \in Seq(Seq(Path)) /\ DOMAIN parts = DOMAIN g.nodes
    <2>1. parts \in [1..Len(g.nodes) -> Seq(Path)]
      BY <1>1, <1>3, <1>4
    <2> QED  BY <1>3, <2>1, FunctionSequence
  <1>6. ASSUME NEW p \in Instances(d, g), p \in Path, NEW q \in Contents(d, g, p)
        PROVE  Front(q) = p /\ Len(q) = Len(p) + 1
    <2>1. CASE q \in {Entrance(p), Exit(p)}
      BY <1>6, <2>1, Marked
    <2>2. CASE q \notin {Entrance(p), Exit(p)}
      <3>1. PICK n \in DOMAIN ModuleAt(d, g, p).inst : q = Append(p, n)
        BY <1>6, <2>2 DEF Contents
      <3>2. n \in Name \cup Marks
        BY InstanceModule
      <3> QED  BY <1>6, <3>1, <3>2, Child
    <2> QED  BY <2>1, <2>2
  <1>7. ASSUME NEW i \in DOMAIN g.nodes, NEW j \in DOMAIN g.nodes, NEW q,
               q \in Range(parts[i]), q \in Range(parts[j])
        PROVE  i = j
    <2>0. PICK p, r : p = g.nodes[i] /\ r = g.nodes[j]
      OBVIOUS
    <2>a. p \in Path /\ r \in Path /\ p \in Range(g.nodes) /\ r \in Range(g.nodes)
      BY <1>3, <2>0 DEF Range
    <2>b. /\ q \in IF p \in Instances(d, g) THEN Contents(d, g, p) ELSE {p}
          /\ q \in IF r \in Instances(d, g) THEN Contents(d, g, r) ELSE {r}
      BY <1>4, <1>7, <2>0
    <2>1. CASE p \in Instances(d, g) /\ r \in Instances(d, g)
      BY <1>6, <2>a, <2>b, <2>1, <2>0 DEF Distinct
    <2>2. CASE p \in Instances(d, g) /\ r \notin Instances(d, g)
      BY <1>6, <2>a, <2>b, <2>2
    <2>3. CASE p \notin Instances(d, g) /\ r \in Instances(d, g)
      BY <1>6, <2>a, <2>b, <2>3
    <2>4. CASE p \notin Instances(d, g) /\ r \notin Instances(d, g)
      BY <2>b, <2>4, <2>0 DEF Distinct
    <2> QED  BY <2>1, <2>2, <2>3, <2>4
  <1>8. Distinct(FlattenSeq(parts))
    <2>1. \A i \in DOMAIN parts : Distinct(parts[i])
      BY <1>4, <1>5
    <2>2. \A i, j \in DOMAIN parts : i # j => Range(parts[i]) \cap Range(parts[j]) = {}
      BY <1>5, <1>7
    <2> QED  BY <1>5, <2>1, <2>2, FlattenDistinct
  <1> QED  BY <1>2, <1>8

-----------------------------------------------------------------------------
(* Flattening: the edges.                                                  *)

HasEnds(e) == {"source", "target", "uses"} \subseteq DOMAIN e

\* A sequence over what is in it.
LEMMA OwnRange ==
    ASSUME NEW T, NEW s \in Seq(T)
    PROVE  s \in Seq(Range(s)) /\ \A U : Range(s) \subseteq U => s \in Seq(U)
  <1>1. DOMAIN s = 1..Len(s) /\ Len(s) \in Nat /\ s = [i \in 1..Len(s) |-> s[i]]
    OBVIOUS
  <1>2. \A i \in 1..Len(s) : s[i] \in Range(s)
    BY <1>1 DEF Range
  <1>3. ASSUME NEW U, Range(s) \subseteq U PROVE s \in Seq(U)
    <2>1. s \in [1..Len(s) -> U]
      BY <1>1, <1>2, <1>3
    <2> QED  BY <1>1, <2>1, FunctionSequence
  <1> QED  BY <1>3

\* An edge inside of an instance at p of module m: one of the module's, or from one of
\* its outputs to the exit.
Into(d, m, p, n) ==
    IF Nested(d, m.inst[n].type) THEN Entrance(Append(p, n)) ELSE Append(p, n)
Innard(d, m, p, x) ==
    \/ \E e \in Range(m.edges) : /\ x.source = Local(d, m, p, e.source)
                                 /\ x.target = Into(d, m, p, e.target)
                                 /\ x.uses = {Local(d, m, p, n) : n \in e.uses}
    \/ \E i \in DOMAIN m.outputs : /\ x.source = Local(d, m, p, m.outputs[i])
                                   /\ x.target = Exit(p)
                                   /\ x.uses = {Local(d, m, p, m.outputs[i])}

LEMMA InnerEdges ==
    ASSUME NEW d, NEW m, NEW p, HasGraph(m), m.outputs \in Seq(Range(m.outputs))
    PROVE  /\ Inner(d, m, p) \in Seq(Range(Inner(d, m, p)))
           /\ \A x \in Range(Inner(d, m, p)) : HasEnds(x) /\ Innard(d, m, p, x)
  <1> DEFINE Kept(e) == [e EXCEPT !.source = Local(d, m, p, @),
                                  !.uses = {Local(d, m, p, n) : n \in @},
                                  !.target = Into(d, m, p, @)]
             Sent(i) == [source |-> Local(d, m, p, m.outputs[i]), target |-> Exit(p),
                         when |-> "", fields |-> {}, uses |-> {Local(d, m, p, m.outputs[i])},
                         settings |-> ""]
  <1>1. PICK a : a = [i \in DOMAIN m.edges |-> Kept(m.edges[i])]
    OBVIOUS
  <1>2. PICK b : b = [i \in DOMAIN m.outputs |-> Sent(i)]
    OBVIOUS
  <1>3. Inner(d, m, p) = a \o b
    BY <1>1, <1>2 DEF Inner, Into
  <1>4. ASSUME NEW e, HasEnds(e)
        PROVE  /\ HasEnds(Kept(e))
               /\ Kept(e).source = Local(d, m, p, e.source)
               /\ Kept(e).target = Into(d, m, p, e.target)
               /\ Kept(e).uses = {Local(d, m, p, n) : n \in e.uses}
    BY <1>4 DEF HasEnds
  <1>5. ASSUME NEW i
        PROVE  /\ HasEnds(Sent(i))
               /\ Sent(i).source = Local(d, m, p, m.outputs[i]) /\ Sent(i).target = Exit(p)
               /\ Sent(i).uses = {Local(d, m, p, m.outputs[i])}
    BY DEF HasEnds
  <1> HIDE DEF Kept, Sent
  <1>6. DOMAIN m.edges = 1..Len(m.edges) /\ Len(m.edges) \in Nat
    BY DEF HasGraph
  <1>7. DOMAIN m.outputs = 1..Len(m.outputs) /\ Len(m.outputs) \in Nat
    OBVIOUS
  <1>8. PICK T : T = Range(a) \cup Range(b)
    OBVIOUS
  <1>9. a \in Seq(T)
    <2>1. DOMAIN a = 1..Len(m.edges) /\ a \in [1..Len(m.edges) -> T]
      BY <1>1, <1>6, <1>8 DEF Range
    <2> QED  BY <1>6, <2>1, FunctionSequence
  <1>10. b \in Seq(T)
    <2>1. DOMAIN b = 1..Len(m.outputs) /\ b \in [1..Len(m.outputs) -> T]
      BY <1>2, <1>7, <1>8 DEF Range
    <2> QED  BY <1>7, <2>1, FunctionSequence
  <1>11. a \o b \in Seq(T) /\ Range(a \o b) = T
    BY <1>8, <1>9, <1>10, ConcatRange
  <1>12. ASSUME NEW x \in Range(a) PROVE HasEnds(x) /\ Innard(d, m, p, x)
    <2>1. PICK i \in DOMAIN m.edges : x = Kept(m.edges[i])
      BY <1>1 DEF Range
    <2>2. PICK e : e = m.edges[i]
      OBVIOUS
    <2>3. e \in Range(m.edges) /\ HasEnds(e)
      BY <2>2 DEF HasGraph, HasEnds, Range
    <2>4. x = Kept(e)
      BY <2>1, <2>2
    <2>5. /\ HasEnds(x) /\ x.source = Local(d, m, p, e.source)
          /\ x.target = Into(d, m, p, e.target) /\ x.uses = {Local(d, m, p, n) : n \in e.uses}
      BY <1>4, <2>3, <2>4
    <2> QED  BY <2>3, <2>5 DEF Innard
  <1>13. ASSUME NEW x \in Range(b) PROVE HasEnds(x) /\ Innard(d, m, p, x)
    <2>1. PICK i \in DOMAIN m.outputs : x = Sent(i)
      BY <1>2 DEF Range
    <2>2. /\ HasEnds(x) /\ x.source = Local(d, m, p, m.outputs[i]) /\ x.target = Exit(p)
          /\ x.uses = {Local(d, m, p, m.outputs[i])}
      BY <1>5, <2>1
    <2> QED  BY <2>2 DEF Innard
  <1> QED  BY <1>3, <1>8, <1>11, <1>12, <1>13

LEMMA OuterEnds ==
    ASSUME NEW I, NEW e, HasEnds(e)
    PROVE  /\ HasEnds(Outer(I, e))
           /\ Outer(I, e).source = Outlet(I, e.source)
           /\ Outer(I, e).target = IF e.target \in I THEN Entrance(e.target) ELSE e.target
           /\ Outer(I, e).uses = Reads(I, e)
  BY DEF HasEnds, Outer

\* The edges that a round makes: inside of the instances, and from those of the graph.
EdgeAfter(d, g, x) ==
    \/ \E p \in Instances(d, g) : HasEnds(x) /\ Innard(d, ModuleAt(d, g, p), p, x)
    \/ \E e \in Range(g.edges) : x = Outer(Instances(d, g), e)

LEMMA ExpandEdges ==
    ASSUME NEW d, WellFormed(d), NEW g, g.nodes \in Seq(Path),
           g.edges \in Seq(Range(g.edges))
    PROVE  /\ Expand(d, g).edges \in Seq(Range(Expand(d, g).edges))
           /\ \A x \in Range(Expand(d, g).edges) : EdgeAfter(d, g, x)
  <1>1. PICK I : I = Instances(d, g)
    OBVIOUS
  <1> DEFINE Part(p) == IF p \in I THEN Inner(d, ModuleAt(d, g, p), p) ELSE << >>
  <1>2. PICK parts : parts = [i \in DOMAIN g.nodes |-> Part(g.nodes[i])]
    OBVIOUS
  <1>3. PICK outer : outer = [i \in DOMAIN g.edges |-> Outer(I, g.edges[i])]
    OBVIOUS
  <1>4. Expand(d, g).edges = FlattenSeq(parts) \o outer
    BY <1>1, <1>2, <1>3 DEF Expand
  <1>5. PICK T : T = (UNION {Range(Part(p)) : p \in Range(g.nodes)}) \cup Range(outer)
    OBVIOUS
  <1>6. ASSUME NEW p \in Range(g.nodes)
        PROVE  /\ Part(p) \in Seq(T)
               /\ p \notin I => Range(Part(p)) = {}
               /\ p \in I => \A y \in Range(Part(p)) :
                                HasEnds(y) /\ Innard(d, ModuleAt(d, g, p), p, y)
    <2>1. CASE p \in I
      <3>1. PICK m : m = ModuleAt(d, g, p)
        OBVIOUS
      <3>2. HasGraph(m) /\ m.outputs \in Seq(Range(m.outputs))
        BY <1>1, <2>1, <3>1, InstanceModule
      <3>3. /\ Inner(d, m, p) \in Seq(Range(Inner(d, m, p)))
            /\ \A y \in Range(Inner(d, m, p)) : HasEnds(y) /\ Innard(d, m, p, y)
        BY <3>2, InnerEdges
      <3>4. Part(p) = Inner(d, m, p)
        BY <2>1, <3>1
      <3>5. Range(Part(p)) \subseteq T
        BY <1>5
      <3> HIDE DEF Part
      <3>6. Part(p) \in Seq(T)
        BY <3>3, <3>4, <3>5, OwnRange
      <3> QED  BY <2>1, <3>1, <3>3, <3>4, <3>6
    <2>2. CASE p \notin I
      <3>1. Part(p) = << >>
        BY <2>2
      <3>2. << >> \in Seq(T) /\ Range(<< >>) = {}
        BY DEF Range
      <3> QED  BY <2>2, <3>1, <3>2
    <2> QED  BY <2>1, <2>2
  <1> HIDE DEF Part
  <1>7. DOMAIN g.nodes = 1..Len(g.nodes) /\ Len(g.nodes) \in Nat
    OBVIOUS
  <1>8. \A i \in DOMAIN g.nodes : g.nodes[i] \in Range(g.nodes) /\ parts[i] = Part(g.nodes[i])
    BY <1>2 DEF Range
  <1>9. parts \in Seq(Seq(T)) /\ Len(parts) = Len(g.nodes)
    <2>1. parts \in [1..Len(g.nodes) -> Seq(T)]
      BY <1>2, <1>6, <1>7, <1>8
    <2> QED  BY <1>7, <2>1, FunctionSequence
  <1>10. /\ FlattenSeq(parts) \in Seq(T)
         /\ Range(FlattenSeq(parts)) = UNION {Range(parts[i]) : i \in 1..Len(parts)}
    BY <1>9, FlattenRange
  <1>11. outer \in Seq(T)
    <2>1. DOMAIN g.edges = 1..Len(g.edges) /\ Len(g.edges) \in Nat
      OBVIOUS
    <2>2. outer \in [1..Len(g.edges) -> T]
      BY <1>3, <1>5, <2>1 DEF Range
    <2> QED  BY <2>1, <2>2, FunctionSequence
  <1>12. /\ Expand(d, g).edges \in Seq(Range(Expand(d, g).edges))
         /\ Range(Expand(d, g).edges) = Range(FlattenSeq(parts)) \cup Range(outer)
    <2>1. Range(FlattenSeq(parts) \o outer) = Range(FlattenSeq(parts)) \cup Range(outer)
      BY <1>10, <1>11, ConcatRange
    <2>2. FlattenSeq(parts) \o outer \in Seq(T)
      BY <1>10, <1>11
    <2>3. Expand(d, g).edges \in Seq(T)
      BY <1>4, <2>2
    <2>4. Expand(d, g).edges \in Seq(Range(Expand(d, g).edges))
      BY <2>3, OwnRange
    <2> QED  BY <1>4, <2>1, <2>4
  <1>13. ASSUME NEW x \in Range(outer)
         PROVE  \E e \in Range(g.edges) : x = Outer(I, e)
    <2>1. PICK i \in DOMAIN g.edges : x = Outer(I, g.edges[i])
      BY <1>3 DEF Range
    <2> QED  BY <2>1 DEF Range
  <1>14. ASSUME NEW x \in Range(FlattenSeq(parts))
         PROVE  \E p \in I : HasEnds(x) /\ Innard(d, ModuleAt(d, g, p), p, x)
    <2>1. PICK i \in DOMAIN g.nodes : x \in Range(parts[i])
      BY <1>7, <1>9, <1>10
    <2>2. PICK p \in Range(g.nodes) : x \in Range(Part(p))
      BY <1>8, <2>1
    <2>3. p \in I /\ HasEnds(x) /\ Innard(d, ModuleAt(d, g, p), p, x)
      BY <1>6, <2>2
    <2> QED  BY <2>3
  <1> QED  BY <1>1, <1>12, <1>13, <1>14 DEF EdgeAfter

-----------------------------------------------------------------------------
(* Flattening: a round.                                                    *)

\* The graph after k rounds: the instances that are left are its longest nodes.
Shaped(d, g, k) ==
    /\ g.nodes \in Seq(Path) /\ Distinct(g.nodes) /\ DOMAIN g.inst = Range(g.nodes)
    /\ g.edges \in Seq(Range(g.edges)) /\ \A e \in Range(g.edges) : HasEnds(e)
    /\ \A q \in Range(g.nodes) : Len(q) \in 1..(k + 1)
    /\ \A p \in Instances(d, g) : Len(p) = k + 1

\* The nodes of the graph h that a round makes of g, and their instances.
Round(d, g, h) ==
    /\ Range(h.nodes) = NodesAfter(d, g)
    /\ \A q \in Range(g.nodes) : q \in Path
    /\ \A q \in Range(g.nodes) \ Instances(d, g) : h.inst[q] = g.inst[q]
    /\ \A p \in Instances(d, g) :
          /\ Entrance(p) \notin Range(g.nodes) /\ Exit(p) \notin Range(g.nodes)
          /\ h.inst[Entrance(p)] = Pass(g.inst[p].type, "in")
          /\ h.inst[Exit(p)] = Pass(g.inst[p].type, "out")
          /\ \A n \in DOMAIN ModuleAt(d, g, p).inst :
                /\ Append(p, n) \notin Range(g.nodes)
                /\ h.inst[Append(p, n)] = ModuleAt(d, g, p).inst[n]
    /\ \A q \in Instances(d, h) :
          \E p \in Instances(d, g) : \E n \in DOMAIN ModuleAt(d, g, p).inst : q = Append(p, n)
    /\ \A p \in Instances(d, g) : \A n \in DOMAIN ModuleAt(d, g, p).inst :
          Append(p, n) \in Instances(d, h) <=> Nested(d, ModuleAt(d, g, p).inst[n].type)

LEMMA RoundNodes ==
    ASSUME NEW d, WellFormed(d), AlphabetAssumption, NEW k \in Nat, NEW g, Shaped(d, g, k)
    PROVE  Round(d, g, Expand(d, g))
  <1>1. PICK h : h = Expand(d, g)
    OBVIOUS
  <1>2. PICK N : N = Range(g.nodes)
    OBVIOUS
  <1>3. PICK I : I = Instances(d, g)
    OBVIOUS
  <1>4. \A q \in N : q \in Path /\ Len(q) \in 1..(k + 1)
    BY <1>2 DEF Shaped, Range
  <1>5. \A p \in I : p \in N /\ p \in Path /\ Len(p) = k + 1
    BY <1>2, <1>3, <1>4 DEF Shaped, Instances
  <1>6. /\ Range(h.nodes) = NodesAfter(d, g) /\ DOMAIN h.inst = NodesAfter(d, g)
        /\ \A q \in NodesAfter(d, g) :
              /\ q \in N => h.inst[q] = g.inst[q]
              /\ q \notin N => h.inst[q] = Made(d, g, q)
    <2>1. g.nodes \in Seq(Path) /\ DOMAIN g.inst = N
      BY <1>2 DEF Shaped
    <2> QED  BY <1>1, <2>1, ExpandNodes
  <1>7. ASSUME NEW p \in I
        PROVE  /\ Entrance(p) \notin N /\ Exit(p) \notin N
               /\ h.inst[Entrance(p)] = Pass(g.inst[p].type, "in")
               /\ h.inst[Exit(p)] = Pass(g.inst[p].type, "out")
               /\ \A n \in DOMAIN ModuleAt(d, g, p).inst :
                     /\ Append(p, n) \notin N
                     /\ Append(p, n) \in NodesAfter(d, g)
                     /\ h.inst[Append(p, n)] = ModuleAt(d, g, p).inst[n]
                     /\ Len(Append(p, n)) # 1 /\ Last(Append(p, n)) = n /\ n \notin Marks
    <2>1. /\ Contents(d, g, p) \subseteq NodesAfter(d, g)
          /\ Entrance(p) \in Contents(d, g, p) /\ Exit(p) \in Contents(d, g, p)
          /\ \A n \in DOMAIN ModuleAt(d, g, p).inst : Append(p, n) \in Contents(d, g, p)
      BY <1>3 DEF NodesAfter, Contents
    <2>2. p \in Path /\ Len(p) = k + 1
      BY <1>5
    <2>3. /\ Entrance(p) # Exit(p) /\ Len(Entrance(p)) = k + 2 /\ Len(Exit(p)) = k + 2
          /\ Front(Entrance(p)) = p /\ Front(Exit(p)) = p
      BY <2>2, Marked
    <2>4. ASSUME NEW n \in DOMAIN ModuleAt(d, g, p).inst
          PROVE  /\ n \notin Marks /\ Append(p, n) # Entrance(p) /\ Append(p, n) # Exit(p)
                 /\ Front(Append(p, n)) = p /\ Last(Append(p, n)) = n /\ Len(Append(p, n)) = k + 2
      <3>1. n \in Name
        BY <1>3, InstanceModule
      <3>2. n \notin Marks /\ Append(p, n) # Entrance(p) /\ Append(p, n) # Exit(p)
        BY <2>2, <3>1, Marked
      <3>3. /\ Front(Append(p, n)) = p /\ Last(Append(p, n)) = n
            /\ Len(Append(p, n)) = Len(p) + 1
        <4>1. n \in Name \cup Marks
          BY <3>1
        <4> QED  BY <2>2, <4>1, Child
      <3> QED  BY <2>2, <3>2, <3>3
    <2>5. \A q : Len(q) = k + 2 => q \notin N /\ Len(q) # 1
      BY <1>4
    <2>6. h.inst[Entrance(p)] = Pass(g.inst[p].type, "in")
      <3>1. Made(d, g, Entrance(p)) = Pass(g.inst[p].type, "in")
        BY <2>3 DEF Made
      <3> QED  BY <1>6, <2>1, <2>3, <2>5, <3>1
    <2>7. h.inst[Exit(p)] = Pass(g.inst[p].type, "out")
      <3>1. Made(d, g, Exit(p)) = Pass(g.inst[p].type, "out")
        BY <2>3 DEF Made
      <3> QED  BY <1>6, <2>1, <2>3, <2>5, <3>1
    <2>8. ASSUME NEW n \in DOMAIN ModuleAt(d, g, p).inst
          PROVE  h.inst[Append(p, n)] = ModuleAt(d, g, p).inst[n]
      <3>1. Made(d, g, Append(p, n)) = ModuleAt(d, g, p).inst[n]
        BY <2>4 DEF Made
      <3> QED  BY <1>6, <2>1, <2>4, <2>5, <3>1
    <2> QED  BY <2>1, <2>3, <2>4, <2>5, <2>6, <2>7, <2>8
  <1>8. ASSUME NEW q \in N \ I PROVE h.inst[q] = g.inst[q] /\ q \notin Instances(d, h)
    <2>1. q \in NodesAfter(d, g)
      BY <1>2, <1>3 DEF NodesAfter
    <2>2. h.inst[q] = g.inst[q]
      BY <1>6, <2>1
    <2>3. ~ IsInstance(d, g, q)
      BY <1>2, <1>3 DEF Instances
    <2>4. ~ IsInstance(d, h, q)
      BY <2>2, <2>3 DEF IsInstance
    <2> QED  BY <2>2, <2>4 DEF Instances
  <1>9. ASSUME NEW q \in Instances(d, h)
        PROVE  \E p \in I : \E n \in DOMAIN ModuleAt(d, g, p).inst : q = Append(p, n)
    <2>1. q \in NodesAfter(d, g) /\ Last(q) \notin Marks
      BY <1>6 DEF Instances, IsInstance
    <2>2. PICK p \in I : q \in Contents(d, g, p)
      BY <1>2, <1>3, <1>8, <2>1 DEF NodesAfter
    <2>3. q # Entrance(p) /\ q # Exit(p)
      BY <1>5, <2>1, Marked
    <2> QED  BY <2>2, <2>3 DEF Contents
  <1>10. ASSUME NEW p \in I, NEW n \in DOMAIN ModuleAt(d, g, p).inst
         PROVE  Append(p, n) \in Instances(d, h) <=> Nested(d, ModuleAt(d, g, p).inst[n].type)
    <2>1. PICK q : q = Append(p, n)
      OBVIOUS
    <2>2. /\ q \in Range(h.nodes) /\ Last(q) \notin Marks /\ Len(q) # 1
          /\ h.inst[q] = ModuleAt(d, g, p).inst[n]
      BY <1>6, <1>7, <2>1
    <2> QED  BY <2>1, <2>2 DEF Instances, IsInstance
  <1> QED  BY <1>1, <1>2, <1>3, <1>4, <1>6, <1>7, <1>8, <1>9, <1>10 DEF Round

LEMMA ShapedRound ==
    ASSUME NEW d, WellFormed(d), AlphabetAssumption, NEW k \in Nat, NEW g, Shaped(d, g, k)
    PROVE  Shaped(d, Expand(d, g), k + 1)
  <1>1. PICK h : h = Expand(d, g)
    OBVIOUS
  <1>2. Round(d, g, h)
    BY <1>1, RoundNodes
  <1>3. /\ g.nodes \in Seq(Path) /\ Distinct(g.nodes) /\ g.edges \in Seq(Range(g.edges))
        /\ \A q \in Range(g.nodes) : Len(q) \in 1..(k + 1)
        /\ \A p \in Instances(d, g) : Len(p) = k + 1
        /\ \A e \in Range(g.edges) : HasEnds(e)
    BY DEF Shaped
  <1>4. h.nodes \in Seq(Path) /\ DOMAIN h.inst = Range(h.nodes)
    BY <1>1, <1>3, ExpandNodes
  <1>5. Distinct(h.nodes)
    <2>1. \A p \in Instances(d, g), q \in Range(g.nodes) : Len(q) # Len(p) + 1
      BY <1>3
    <2> QED  BY <1>1, <1>3, <2>1, ExpandDistinct
  <1>6. h.edges \in Seq(Range(h.edges)) /\ \A x \in Range(h.edges) : HasEnds(x)
    <2>1. /\ h.edges \in Seq(Range(h.edges))
          /\ \A x \in Range(h.edges) : EdgeAfter(d, g, x)
      BY <1>1, <1>3, ExpandEdges
    <2> QED  BY <1>3, <2>1, OuterEnds DEF EdgeAfter
  <1>7. ASSUME NEW p \in Instances(d, g), NEW q \in Contents(d, g, p)
        PROVE  Len(q) = k + 2
    <2>1. p \in Path /\ Len(p) = k + 1
      BY <1>2, <1>3 DEF Round, Instances
    <2>2. CASE q \in {Entrance(p), Exit(p)}
      BY <2>1, <2>2, Marked
    <2>3. CASE q \notin {Entrance(p), Exit(p)}
      <3>1. PICK n \in DOMAIN ModuleAt(d, g, p).inst : q = Append(p, n)
        BY <2>3 DEF Contents
      <3>2. n \in Name \cup Marks
        BY InstanceModule
      <3> QED  BY <2>1, <3>1, <3>2, Child
    <2> QED  BY <2>2, <2>3
  <1>8. ASSUME NEW q \in Range(h.nodes) PROVE Len(q) \in 1..((k + 1) + 1)
    BY <1>2, <1>3, <1>7 DEF Round, NodesAfter
  <1>9. ASSUME NEW q \in Instances(d, h) PROVE Len(q) = (k + 1) + 1
    <2>1. PICK p \in Instances(d, g) : \E n \in DOMAIN ModuleAt(d, g, p).inst : q = Append(p, n)
      BY <1>2 DEF Round
    <2>2. q \in Contents(d, g, p)
      BY <2>1 DEF Contents
    <2> QED  BY <1>7, <2>2
  <1> QED  BY <1>1, <1>4, <1>5, <1>6, <1>8, <1>9 DEF Shaped

\* What validation says of the inside of a module.
ValidInside(d, m) ==
    /\ \A e \in Range(m.edges) : /\ e.source \in DOMAIN m.inst \cup {Input}
                                 /\ e.target \in DOMAIN m.inst
                                 /\ e.uses \subseteq DOMAIN m.inst \cup {Input}
    /\ \A i \in DOMAIN m.outputs : m.outputs[i] \in DOMAIN m.inst \cup {Input}
    /\ Acyclic(DOMAIN m.inst, {<<e.source, e.target>> : e \in Range(m.edges)})
    /\ \A n \in DOMAIN m.inst : IsHuman(d, m.inst[n].type) =>
          "timeout" \in DOMAIN m.inst[n].config /\ m.inst[n].onTimeout

LEMMA ValidInstance ==
    ASSUME NEW d, WellFormed(d), AlphabetAssumption, ValidModules(d), NEW g, NEW p \in Instances(d, g)
    PROVE  ValidInside(d, ModuleAt(d, g, p))
  <1>1. PICK k \in DOMAIN d.modules : ModuleAt(d, g, p) = d.modules[k]
    BY InstanceModule
  <1>2. PICK m : m = d.modules[k]
    OBVIOUS
  <1>3. ValidGraph(d, m, Input) /\ \A i \in DOMAIN m.outputs : m.outputs[i] \in DOMAIN m.inst \cup {Input}
    BY <1>2 DEF ValidModules
  <1>4. Input \notin DOMAIN m.inst
    BY <1>2 DEF WellFormed, HasGraph, AlphabetAssumption
  <1>5. \A e \in Range(m.edges) : /\ e.source \in DOMAIN m.inst \cup {Input}
                                  /\ e.target \in DOMAIN m.inst
    BY <1>3 DEF ValidGraph
  <1>6. \A e \in Range(m.edges) : e.uses \subseteq DOMAIN m.inst \cup {Input}
    BY <1>3 DEF ValidGraph
  <1>7. Acyclic(DOMAIN m.inst, {<<e.source, e.target>> : e \in Range(m.edges)})
    BY <1>3 DEF ValidGraph
  <1>8. \A n \in DOMAIN m.inst \ {Input} : IsHuman(d, m.inst[n].type) =>
           "timeout" \in DOMAIN m.inst[n].config /\ m.inst[n].onTimeout
    BY <1>3 DEF ValidGraph
  <1> QED  BY <1>1, <1>2, <1>3, <1>4, <1>5, <1>6, <1>7, <1>8 DEF ValidInside

\* Where edges may come from and lead to: to a node, or around an instance that the next
\* round replaces.
Outs(d, g) == Range(g.nodes) \cup {Exit(p) : p \in Instances(d, g)}
Ins(d, g) == Range(g.nodes) \cup {Entrance(p) : p \in Instances(d, g)}

\* No edge leads to the trigger, only edges of the process lead to an instance, and what a
\* mapping reads is there or was not renamed.
Linked(d, g) ==
    \A e \in Range(g.edges) :
        /\ e.source \in Outs(d, g) /\ e.target \in Ins(d, g)
        /\ e.target # <<d.trigger>> /\ e.target # Entrance(<<d.trigger>>)
        /\ e.target \in Instances(d, g) => Len(e.target) = 1
        /\ \A q \in e.uses : q \in Outs(d, g) \/ Unrenamed(Range(g.nodes), e.target, q)

LEMMA RoundLocal ==
    ASSUME NEW d, WellFormed(d), NEW g, NEW h, Round(d, g, h), NEW p \in Instances(d, g),
           NEW n \in DOMAIN ModuleAt(d, g, p).inst \cup {Input}, AlphabetAssumption
    PROVE  /\ Local(d, ModuleAt(d, g, p), p, n) \in Outs(d, h)
           /\ n # Input => Into(d, ModuleAt(d, g, p), p, n) \in Ins(d, h)
           /\ Exit(p) \in Range(h.nodes)
  <1>1. PICK m : m = ModuleAt(d, g, p)
    OBVIOUS
  <1>2. /\ Entrance(p) \in Range(h.nodes) /\ Exit(p) \in Range(h.nodes)
        /\ \A x \in DOMAIN m.inst : Append(p, x) \in Range(h.nodes)
    BY <1>1 DEF Round, NodesAfter, Contents
  <1>3. \A x \in DOMAIN m.inst : Append(p, x) \in Instances(d, h) <=> Nested(d, m.inst[x].type)
    BY <1>1 DEF Round
  <1>4. CASE n = Input
    BY <1>1, <1>2, <1>4 DEF Local, Outs
  <1>5. CASE n # Input
    <2>1. n \in DOMAIN m.inst
      BY <1>1, <1>5
    <2>2. CASE Nested(d, m.inst[n].type)
      <3>1. Local(d, m, p, n) = Exit(Append(p, n)) /\ Into(d, m, p, n) = Entrance(Append(p, n))
        BY <1>5, <2>2 DEF Local, Into
      <3> QED  BY <1>1, <1>2, <1>3, <2>1, <2>2, <3>1 DEF Outs, Ins
    <2>3. CASE ~ Nested(d, m.inst[n].type)
      <3>1. Local(d, m, p, n) = Append(p, n) /\ Into(d, m, p, n) = Append(p, n)
        BY <1>5, <2>3 DEF Local, Into
      <3> QED  BY <1>1, <1>2, <2>1, <3>1 DEF Outs, Ins
    <2> QED  BY <2>2, <2>3
  <1> QED  BY <1>4, <1>5

LEMMA RoundOutlet ==
    ASSUME NEW d, NEW g, NEW h, Round(d, g, h), NEW q \in Outs(d, g)
    PROVE  Outlet(Instances(d, g), q) \in Range(h.nodes)
  <1>1. \A p \in Instances(d, g) : Exit(p) \in Range(h.nodes) /\ Exit(p) \notin Instances(d, g)
    BY DEF Round, NodesAfter, Contents, Instances
  <1>2. \A p \in Range(g.nodes) \ Instances(d, g) : p \in Range(h.nodes)
    BY DEF Round, NodesAfter
  <1> QED  BY <1>1, <1>2 DEF Outs, Outlet

LEMMA RoundInlet ==
    ASSUME NEW d, NEW g, NEW h, Round(d, g, h), NEW q \in Ins(d, g)
    PROVE  (IF q \in Instances(d, g) THEN Entrance(q) ELSE q) \in Range(h.nodes)
  <1>1. \A p \in Instances(d, g) : Entrance(p) \in Range(h.nodes) /\ Entrance(p) \notin Instances(d, g)
    BY DEF Round, NodesAfter, Contents, Instances
  <1>2. \A p \in Range(g.nodes) \ Instances(d, g) : p \in Range(h.nodes)
    BY DEF Round, NodesAfter
  <1> QED  BY <1>1, <1>2 DEF Ins

LEMMA RoundEdges ==
    ASSUME NEW d, WellFormed(d), NEW k \in Nat, NEW g, Shaped(d, g, k),
           NEW x \in Range(Expand(d, g).edges)
    PROVE  \/ \E p \in Instances(d, g) : Innard(d, ModuleAt(d, g, p), p, x)
           \/ \E e \in Range(g.edges) :
                 /\ x.source = Outlet(Instances(d, g), e.source)
                 /\ x.target = IF e.target \in Instances(d, g) THEN Entrance(e.target) ELSE e.target
                 /\ x.uses = Reads(Instances(d, g), e)
  <1>1. /\ g.nodes \in Seq(Path) /\ g.edges \in Seq(Range(g.edges))
        /\ \A e \in Range(g.edges) : HasEnds(e)
    BY DEF Shaped
  <1>2. EdgeAfter(d, g, x)
    BY <1>1, ExpandEdges
  <1>3. CASE \E p \in Instances(d, g) : HasEnds(x) /\ Innard(d, ModuleAt(d, g, p), p, x)
    BY <1>3
  <1>4. CASE \E e \in Range(g.edges) : x = Outer(Instances(d, g), e)
    BY <1>1, <1>4, OuterEnds
  <1> QED  BY <1>2, <1>3, <1>4 DEF EdgeAfter

LEMMA LinkedRound ==
    ASSUME NEW d, WellFormed(d), AlphabetAssumption, ValidModules(d), d.trigger \in DOMAIN d.inst,
           NEW k \in Nat, NEW g, Shaped(d, g, k), Linked(d, g)
    PROVE  Linked(d, Expand(d, g))
  <1>1. PICK h : h = Expand(d, g)
    OBVIOUS
  <1>2. Round(d, g, h)
    BY <1>1, RoundNodes
  <1>3. PICK t : t = <<d.trigger>>
    OBVIOUS
  <1>4. t \in Path /\ Len(t) = 1
    BY <1>3 DEF WellFormed, HasGraph, Path
  <1>5. \A p \in Instances(d, g) : p \in Path /\ Len(p) = k + 1
    BY <1>2 DEF Shaped, Instances, Round
  <1>6. Range(h.nodes) \subseteq Outs(d, h) /\ Range(h.nodes) \subseteq Ins(d, h)
    BY DEF Outs, Ins
  <1>9. Shaped(d, h, k + 1)
    BY <1>1, ShapedRound
  <1> SUFFICES ASSUME NEW x \in Range(h.edges)
               PROVE  /\ x.source \in Outs(d, h) /\ x.target \in Ins(d, h)
                      /\ x.target # t /\ x.target # Entrance(t)
                      /\ x.target \in Instances(d, h) => Len(x.target) = 1
                      /\ \A q \in x.uses :
                            q \in Outs(d, h) \/ Unrenamed(Range(h.nodes), x.target, q)
    BY <1>1, <1>3 DEF Linked
  <1>7. ASSUME NEW p \in Instances(d, g), Innard(d, ModuleAt(d, g, p), p, x)
        PROVE  /\ x.source \in Outs(d, h) /\ x.target \in Ins(d, h)
               /\ x.target # t /\ x.target # Entrance(t)
               /\ x.target \notin Instances(d, h) /\ x.uses \subseteq Outs(d, h)
    <2>1. PICK m : m = ModuleAt(d, g, p)
      OBVIOUS
    <2>2. ValidInside(d, m) /\ DOMAIN m.inst \subseteq Name
      BY <2>1, ValidInstance, InstanceModule
    <2>3. /\ \A n \in DOMAIN m.inst \cup {Input} : Local(d, m, p, n) \in Outs(d, h)
          /\ \A n \in DOMAIN m.inst : n # Input => Into(d, m, p, n) \in Ins(d, h)
          /\ Exit(p) \in Range(h.nodes)
      BY <1>2, <2>1, RoundLocal
    <2>4. p \in Path /\ Len(p) = k + 1
      BY <1>5
    <2>5. Exit(p) # t /\ Exit(p) # Entrance(t)
      <3>1. Len(Exit(p)) = k + 2 /\ Last(Exit(p)) = "____out__" /\ Last(Entrance(t)) = "____in__"
        BY <1>4, <2>4, Marked
      <3>2. k + 2 # 1
        OBVIOUS
      <3>3. Len(Exit(p)) # Len(t) /\ Last(Exit(p)) # Last(Entrance(t))
        BY <1>4, <3>1, <3>2
      <3> QED  BY <3>3, Zenon
    <2>6. ASSUME NEW n \in DOMAIN m.inst
          PROVE  n # Input /\ Into(d, m, p, n) # t /\ Into(d, m, p, n) # Entrance(t)
      <3>1. n \in Name /\ n \in Name \cup Marks
        BY <2>2
      <3>2. Append(p, n) \in Path /\ Len(Append(p, n)) = k + 2 /\ Last(Append(p, n)) = n
        BY <2>4, <3>1, Child
      <3>3. n \notin Marks /\ n # Input
        BY <2>4, <3>1, Marked
      <3>4. /\ Len(Entrance(Append(p, n))) = k + 3 /\ Len(Entrance(t)) = 2
            /\ Last(Entrance(t)) \in Marks
        <4>1. Len(Entrance(Append(p, n))) = Len(Append(p, n)) + 1
          BY <3>2, Marked
        <4>2. Len(Entrance(t)) = Len(t) + 1 /\ Last(Entrance(t)) \in Marks
          BY <1>4, Marked
        <4> QED  BY <1>4, <3>2, <4>1, <4>2
      <3>5. k + 2 # 1 /\ k + 3 # 1 /\ k + 3 # 2
        OBVIOUS
      <3>6. /\ Len(Append(p, n)) # Len(t) /\ Len(Entrance(Append(p, n))) # Len(t)
            /\ Len(Entrance(Append(p, n))) # Len(Entrance(t))
            /\ Last(Append(p, n)) # Last(Entrance(t))
        BY <1>4, <3>2, <3>3, <3>4, <3>5
      <3>7. /\ Append(p, n) # t /\ Entrance(Append(p, n)) # t
            /\ Entrance(Append(p, n)) # Entrance(t) /\ Append(p, n) # Entrance(t)
        BY <3>6, Zenon
      <3> QED  BY <3>3, <3>7, Zenon DEF Into
    <2>9. ASSUME NEW n \in DOMAIN m.inst
          PROVE  Into(d, m, p, n) \notin Instances(d, h)
      <3>1. CASE Nested(d, m.inst[n].type)
        <4>1. n \in Name \cup Marks
          BY <2>2
        <4>2. Append(p, n) \in Path
          BY <2>4, <4>1, Child
        <4> QED  BY <3>1, <4>2, Marked DEF Into, Instances, IsInstance
      <3>2. CASE ~ Nested(d, m.inst[n].type)
        BY <1>2, <2>1, <3>2 DEF Into, Round
      <3> QED  BY <3>1, <3>2
    <2>7. CASE \E e \in Range(m.edges) : /\ x.source = Local(d, m, p, e.source)
                                         /\ x.target = Into(d, m, p, e.target)
                                         /\ x.uses = {Local(d, m, p, n) : n \in e.uses}
      <3>1. PICK e \in Range(m.edges) : /\ x.source = Local(d, m, p, e.source)
                                        /\ x.target = Into(d, m, p, e.target)
                                        /\ x.uses = {Local(d, m, p, n) : n \in e.uses}
        BY <2>7
      <3>2. /\ e.source \in DOMAIN m.inst \cup {Input} /\ e.target \in DOMAIN m.inst
            /\ e.uses \subseteq DOMAIN m.inst \cup {Input}
        BY <2>2 DEF ValidInside
      <3>3. x.target \notin Instances(d, h)
        BY <2>9, <3>1, <3>2
      <3> QED  BY <2>3, <2>6, <3>1, <3>2, <3>3
    <2>8. CASE \E i \in DOMAIN m.outputs : /\ x.source = Local(d, m, p, m.outputs[i])
                                           /\ x.target = Exit(p)
                                           /\ x.uses = {Local(d, m, p, m.outputs[i])}
      <3>1. Exit(p) \notin Instances(d, h)
        BY <2>4, Marked DEF Instances, IsInstance
      <3> QED  BY <1>6, <2>2, <2>3, <2>5, <2>8, <3>1 DEF ValidInside
    <2> QED  BY <1>7, <2>1, <2>7, <2>8 DEF Innard
  <1>8. ASSUME NEW e \in Range(g.edges),
               x.source = Outlet(Instances(d, g), e.source),
               x.target = IF e.target \in Instances(d, g) THEN Entrance(e.target) ELSE e.target,
               x.uses = Reads(Instances(d, g), e)
        PROVE  /\ x.source \in Outs(d, h) /\ x.target \in Ins(d, h)
               /\ x.target # t /\ x.target # Entrance(t)
               /\ x.target \notin Instances(d, h)
               /\ \A q \in x.uses : q \in Range(h.nodes) \/ Unrenamed(Range(h.nodes), x.target, q)
    <2>1. /\ e.source \in Outs(d, g) /\ e.target \in Ins(d, g)
          /\ e.target # t /\ e.target # Entrance(t)
          /\ e.target \in Instances(d, g) => Len(e.target) = 1
          /\ \A q \in e.uses : q \in Outs(d, g) \/ Unrenamed(Range(g.nodes), e.target, q)
      BY <1>3 DEF Linked
    <2>2. x.source \in Range(h.nodes) /\ x.target \in Range(h.nodes)
      BY <1>2, <1>8, <2>1, RoundOutlet, RoundInlet
    <2>3. CASE e.target \in Instances(d, g)
      <3>1. PICK p \in Instances(d, g) : p = e.target
        BY <2>3
      <3>2. x.target = Entrance(p) /\ p \in Path /\ Len(p) = k + 1
        BY <1>5, <1>8, <3>1
      <3>3. /\ Last(x.target) = "____in__" /\ Len(x.target) = k + 2
            /\ Front(Entrance(p)) = p /\ Front(Entrance(t)) = t
        BY <1>4, <3>2, Marked
      <3>4. x.target # t /\ x.target # Entrance(t)
        <4>1. p # t /\ k + 2 # 1
          BY <2>1, <3>1
        <4> QED  BY <1>4, <3>2, <3>3, <4>1
      <3>5. /\ Len(p) = 1 /\ k = 0 /\ Len(x.target) = 2
            /\ x.target \notin Instances(d, h)
        BY <2>1, <3>1, <3>2, <3>3 DEF Instances, IsInstance, Marks
      <3>6. ASSUME NEW q \in x.uses
            PROVE  q \in Range(h.nodes) \/ Unrenamed(Range(h.nodes), x.target, q)
        <4>1. q \in e.uses
          BY <1>8, <2>3, <3>6 DEF Reads
        <4>2. q \in Outs(d, g)
          BY <2>1, <3>1, <3>5, <4>1 DEF Unrenamed
        <4>3. CASE q \in Instances(d, g)
          <5>1. Entrance(q) \in Range(h.nodes)
            BY <1>2, <4>3 DEF Round, NodesAfter, Contents
          <5>2. q \in Path /\ Len(q) = 1 /\ Last(q) \notin Marks
            BY <1>5, <3>5, <4>3 DEF Instances, IsInstance
          <5>3. q = <<q[1]>> /\ q[1] \in Name
            <6>1. q = <<q[1]>> /\ q[1] \in Name \cup Marks
              BY <5>2, Single DEF Path
            <6>2. Last(q) = q[1]
              BY <5>2 DEF Last
            <6> QED  BY <5>2, <6>1, <6>2
          <5> QED  BY <3>3, <3>5, <5>1, <5>3 DEF Unrenamed
        <4>4. CASE q \notin Instances(d, g)
          BY <1>2, <4>2, <4>4, RoundOutlet DEF Outlet
        <4> QED  BY <4>3, <4>4
      <3> QED  BY <1>6, <2>2, <3>4, <3>5, <3>6
    <2>4. CASE e.target \notin Instances(d, g)
      <3>1. x.target = e.target /\ x.uses = {Outlet(Instances(d, g), q) : q \in e.uses}
        BY <1>8, <2>4 DEF Reads
      <3>2. ASSUME NEW q \in x.uses
            PROVE  q \in Range(h.nodes) \/ Unrenamed(Range(h.nodes), x.target, q)
        <4>1. PICK r \in e.uses : q = Outlet(Instances(d, g), r)
          BY <3>1, <3>2
        <4>2. CASE r \in Outs(d, g)
          BY <1>2, <4>1, <4>2, RoundOutlet
        <4>3. CASE Unrenamed(Range(g.nodes), e.target, r)
          <5>1. Entrance(r) \in Range(g.nodes) /\ r \notin Instances(d, g)
            BY <1>2, <4>3 DEF Unrenamed, Round
          <5>2. q = r /\ Entrance(r) \notin Instances(d, g)
            <6>1. r \in Path
              <7>1. PICK n \in Name : r = <<n>>
                BY <4>3 DEF Unrenamed
              <7> QED  BY <7>1 DEF Path
            <6>2. Last(Entrance(r)) \in Marks
              BY <6>1, Marked
            <6> QED  BY <4>1, <5>1, <6>2 DEF Outlet, Instances, IsInstance
          <5>3. Entrance(r) \in Range(h.nodes)
            BY <1>2, <5>1, <5>2 DEF Round, NodesAfter
          <5> QED  BY <3>1, <4>3, <5>2, <5>3 DEF Unrenamed
        <4> QED  BY <2>1, <4>2, <4>3
      <3>3. x.target \notin Instances(d, h)
        <4>1. CASE e.target \in Range(g.nodes)
          <5>1. Len(e.target) \in 1..(k + 1) /\ \A q \in Instances(d, h) : Len(q) = k + 2
            BY <1>9, <4>1 DEF Shaped
          <5> QED  BY <3>1, <5>1
        <4>2. CASE e.target \notin Range(g.nodes)
          <5>1. PICK p \in Instances(d, g) : e.target = Entrance(p)
            BY <2>1, <4>2 DEF Ins
          <5> QED  BY <1>5, <3>1, <5>1, Marked DEF Instances, IsInstance
        <4> QED  BY <4>1, <4>2
      <3> QED  BY <1>6, <2>1, <2>2, <3>1, <3>2, <3>3
    <2> QED  BY <2>3, <2>4
  <1> QED  BY <1>1, <1>6, <1>7, <1>8, RoundEdges

-----------------------------------------------------------------------------
(* Flattening: no cycles.                                                  *)

\* The node an end of an edge belongs to, among the nodes of N, and the edges between
\* these nodes.
Home(N, q) == IF q \in N THEN q ELSE Front(q)
Lines(g) ==
    {<<Home(Range(g.nodes), e.source), Home(Range(g.nodes), e.target)>> : e \in Range(g.edges)}

LEMMA InstanceHome ==
    ASSUME NEW d, WellFormed(d), AlphabetAssumption, NEW k \in Nat, NEW g, Shaped(d, g, k),
           NEW p \in Instances(d, g)
    PROVE  /\ Home(Range(g.nodes), p) = p /\ Home(Range(g.nodes), Entrance(p)) = p
           /\ Home(Range(g.nodes), Exit(p)) = p
  <1>1. Round(d, g, Expand(d, g))
    BY RoundNodes
  <1>2. /\ p \in Range(g.nodes) /\ p \in Path
        /\ Entrance(p) \notin Range(g.nodes) /\ Exit(p) \notin Range(g.nodes)
    BY <1>1 DEF Round, Instances
  <1>3. Front(Entrance(p)) = p /\ Front(Exit(p)) = p
    BY <1>2, Marked
  <1> QED  BY <1>2, <1>3 DEF Home

\* An edge inside of the instance p, from its entrance or a node to a node or its exit.
Side(p, n) == IF n = Input THEN Entrance(p) ELSE Append(p, n)
InnerLine(m, p, u, v) ==
    \E n \in DOMAIN m.inst \cup {Input} :
        /\ u = Side(p, n)
        /\ \/ v = Exit(p)
           \/ \E e \in Range(m.edges) :
                 e.source = n /\ e.target \in DOMAIN m.inst /\ v = Append(p, e.target)

\* After a round an edge is inside of an instance, or was there before between the nodes
\* that its ends have come from.
LEMMA RoundLines ==
    ASSUME NEW d, WellFormed(d), AlphabetAssumption, ValidModules(d),
           NEW k \in Nat, NEW g, Shaped(d, g, k), Linked(d, g),
           NEW h, h = Expand(d, g), NEW u, NEW v, <<u, v>> \in Lines(h)
    PROVE  \/ \E p \in Instances(d, g) : InnerLine(ModuleAt(d, g, p), p, u, v)
           \/ <<Home(Range(g.nodes), u), Home(Range(g.nodes), v)>> \in Lines(g)
  <1>1. Round(d, g, h) /\ Shaped(d, h, k + 1)
    BY RoundNodes, ShapedRound
  <1>2. PICK x \in Range(h.edges) : u = Home(Range(h.nodes), x.source) /\ v = Home(Range(h.nodes), x.target)
    BY DEF Lines
  <1>3. PICK I : I = Instances(d, g)
    OBVIOUS
  <1>4. PICK N, M : N = Range(g.nodes) /\ M = Range(h.nodes)
    OBVIOUS
  <1>5. CASE \E p \in I : Innard(d, ModuleAt(d, g, p), p, x)
    <2>1. PICK p \in I : Innard(d, ModuleAt(d, g, p), p, x)
      BY <1>5
    <2>2. PICK m : m = ModuleAt(d, g, p)
      OBVIOUS
    <2>3. ValidInside(d, m) /\ DOMAIN m.inst \subseteq Name
      BY <1>3, <2>2, ValidInstance, InstanceModule
    <2>4. /\ Entrance(p) \in M /\ Exit(p) \in M
          /\ \A n \in DOMAIN m.inst : Append(p, n) \in M
      BY <1>1, <1>3, <1>4, <2>2 DEF Round, NodesAfter, Contents
    <2>5. ASSUME NEW n \in DOMAIN m.inst \cup {Input}
          PROVE  /\ Home(M, Local(d, m, p, n)) = Side(p, n)
                 /\ n # Input => Home(M, Into(d, m, p, n)) = Append(p, n)
      <3>1. CASE n = Input
        BY <2>4, <3>1 DEF Local, Side, Home
      <3>2. CASE n # Input /\ ~ Nested(d, m.inst[n].type)
        BY <2>4, <3>2 DEF Local, Side, Home, Into
      <3>3. CASE n # Input /\ Nested(d, m.inst[n].type)
        <4>1. n \in DOMAIN m.inst
          BY <3>3
        <4>2. PICK q : q = Append(p, n)
          OBVIOUS
        <4>3. q \in Instances(d, h)
          BY <1>1, <1>3, <2>2, <3>3, <4>1, <4>2 DEF Round
        <4>4. k + 1 \in Nat
          OBVIOUS
        <4>5. Home(M, Exit(q)) = q /\ Home(M, Entrance(q)) = q
          BY <1>1, <1>4, <4>3, <4>4, InstanceHome
        <4>6. Local(d, m, p, n) = Exit(q) /\ Into(d, m, p, n) = Entrance(q) /\ Side(p, n) = q
          BY <3>3, <4>2 DEF Local, Into, Side
        <4> QED  BY <4>2, <4>5, <4>6
      <3> QED  BY <3>1, <3>2, <3>3
    <2>6. \A n \in DOMAIN m.inst : n # Input
      BY <2>3 DEF AlphabetAssumption
    <2>7. InnerLine(m, p, u, v)
      <3>1. CASE \E e \in Range(m.edges) : /\ x.source = Local(d, m, p, e.source)
                                           /\ x.target = Into(d, m, p, e.target)
                                           /\ x.uses = {Local(d, m, p, n) : n \in e.uses}
        <4>1. PICK e \in Range(m.edges) : /\ x.source = Local(d, m, p, e.source)
                                          /\ x.target = Into(d, m, p, e.target)
          BY <3>1
        <4>2. e.source \in DOMAIN m.inst \cup {Input} /\ e.target \in DOMAIN m.inst
          BY <2>3 DEF ValidInside
        <4>3. u = Side(p, e.source) /\ v = Append(p, e.target)
          BY <1>2, <1>4, <2>5, <2>6, <4>1, <4>2
        <4> QED  BY <4>2, <4>3 DEF InnerLine
      <3>2. CASE \E i \in DOMAIN m.outputs : /\ x.source = Local(d, m, p, m.outputs[i])
                                             /\ x.target = Exit(p)
                                             /\ x.uses = {Local(d, m, p, m.outputs[i])}
        <4>1. PICK i \in DOMAIN m.outputs : x.source = Local(d, m, p, m.outputs[i]) /\ x.target = Exit(p)
          BY <3>2
        <4>2. m.outputs[i] \in DOMAIN m.inst \cup {Input}
          BY <2>3 DEF ValidInside
        <4>3. u = Side(p, m.outputs[i]) /\ v = Exit(p)
          BY <1>2, <1>4, <2>4, <2>5, <4>1, <4>2 DEF Home
        <4> QED  BY <4>2, <4>3 DEF InnerLine
      <3> QED  BY <2>1, <2>2, <3>1, <3>2 DEF Innard
    <2> QED  BY <1>3, <2>2, <2>7
  <1>6. CASE \E e \in Range(g.edges) :
                /\ x.source = Outlet(I, e.source)
                /\ x.target = IF e.target \in I THEN Entrance(e.target) ELSE e.target
    <2>1. PICK e \in Range(g.edges) :
             /\ x.source = Outlet(I, e.source)
             /\ x.target = IF e.target \in I THEN Entrance(e.target) ELSE e.target
      BY <1>6
    <2>2. e.source \in Outs(d, g) /\ e.target \in Ins(d, g)
      BY DEF Linked
    <2>3. x.source \in M /\ x.target \in M
      BY <1>1, <1>3, <1>4, <2>1, <2>2, RoundOutlet, RoundInlet
    <2>4. u = x.source /\ v = x.target
      BY <1>2, <1>4, <2>3 DEF Home
    <2>5. \A p \in I : Home(N, p) = p /\ Home(N, Entrance(p)) = p /\ Home(N, Exit(p)) = p
      BY <1>3, <1>4, InstanceHome
    <2>6. Home(N, u) = Home(N, e.source)
      BY <2>1, <2>4, <2>5 DEF Outlet
    <2>7. Home(N, v) = Home(N, e.target)
      BY <2>1, <2>4, <2>5
    <2> QED  BY <1>4, <2>6, <2>7 DEF Lines
  <1> QED  BY <1>3, <1>5, <1>6, RoundEdges

LEMMA AcyclicRound ==
    ASSUME NEW d, WellFormed(d), AlphabetAssumption, ValidModules(d),
           NEW k \in Nat, NEW g, Shaped(d, g, k), Linked(d, g),
           Acyclic(Range(g.nodes), Lines(g)), NEW h, h = Expand(d, g)
    PROVE  Acyclic(Range(h.nodes), Lines(h))
  <1> SUFFICES ASSUME NEW S, S \subseteq Range(h.nodes), S # {},
                      \A u \in S : \E v \in S : <<u, v>> \in Lines(h)
               PROVE  FALSE
    BY DEF Acyclic
  <1>1. Round(d, g, h)
    BY RoundNodes
  <1>2. PICK N : N = Range(g.nodes)
    OBVIOUS
  <1>3. PICK I : I = Instances(d, g)
    OBVIOUS
  <1>4. \A p \in I : p \in N /\ p \in Path
    BY <1>1, <1>2, <1>3 DEF Round, Instances
  <1>5. ASSUME NEW p \in I, NEW q \in Contents(d, g, p)
        PROVE  q \notin N /\ Front(q) = p /\ Home(N, q) = p
    <2>1. Entrance(p) \notin N /\ Exit(p) \notin N /\ \A n \in DOMAIN ModuleAt(d, g, p).inst : Append(p, n) \notin N
      BY <1>1, <1>2, <1>3 DEF Round
    <2>2. q \notin N
      BY <2>1 DEF Contents
    <2>3. Front(q) = p
      <3>1. CASE q \in {Entrance(p), Exit(p)}
        BY <1>4, <3>1, Marked
      <3>2. CASE q \notin {Entrance(p), Exit(p)}
        <4>1. PICK n \in DOMAIN ModuleAt(d, g, p).inst : q = Append(p, n)
          BY <3>2 DEF Contents
        <4>2. n \in Name \cup Marks
          BY <1>3, InstanceModule
        <4> QED  BY <1>4, <4>1, <4>2, Child
      <3> QED  BY <3>1, <3>2
    <2> QED  BY <2>2, <2>3 DEF Home
  <1>6. \A u \in S : Home(N, u) \in N
    <2> SUFFICES ASSUME NEW u \in S PROVE Home(N, u) \in N
      OBVIOUS
    <2>1. u \in N \/ \E p \in I : u \in Contents(d, g, p)
      BY <1>1, <1>2, <1>3 DEF Round, NodesAfter
    <2> QED  BY <1>4, <1>5, <2>1 DEF Home
  <1>7. PICK T : T = {Home(N, u) : u \in S}
    OBVIOUS
  <1>8. T \in SUBSET N /\ T # {}
    BY <1>6, <1>7
  <1>9. PICK w \in T : \A z \in T : <<w, z>> \notin Lines(g)
    BY <1>2, <1>8 DEF Acyclic
  <1>10. PICK m : m = ModuleAt(d, g, w)
    OBVIOUS
  <1>11. ASSUME NEW u \in S, Home(N, u) = w
         PROVE  w \in I /\ \E v \in S : Home(N, v) = w /\ InnerLine(m, w, u, v)
    <2>1. PICK v \in S : <<u, v>> \in Lines(h)
      OBVIOUS
    <2>2. <<Home(N, u), Home(N, v)>> \notin Lines(g)
      BY <1>7, <1>9, <1>11
    <2>3. PICK p \in I : InnerLine(ModuleAt(d, g, p), p, u, v)
      BY <1>2, <1>3, <2>1, <2>2, RoundLines
    <2>4. u \in Contents(d, g, p) /\ v \in Contents(d, g, p)
      BY <2>3 DEF InnerLine, Contents, Side
    <2>5. p = w /\ Home(N, v) = p
      BY <1>5, <1>11, <2>4
    <2> QED  BY <1>10, <2>3, <2>5
  <1>12. PICK u0 \in S : Home(N, u0) = w
    BY <1>7, <1>9
  <1>13. w \in I /\ w \in Path
    BY <1>4, <1>11, <1>12
  <1>14. ValidInside(d, m) /\ DOMAIN m.inst \subseteq Name
    BY <1>3, <1>10, <1>13, ValidInstance, InstanceModule
  <1>15. \A n \in DOMAIN m.inst : /\ Append(w, n) # Entrance(w) /\ Append(w, n) # Exit(w)
                                  /\ n # Input /\ Last(Append(w, n)) = n
    <2> SUFFICES ASSUME NEW n \in DOMAIN m.inst
                 PROVE  /\ Append(w, n) # Entrance(w) /\ Append(w, n) # Exit(w)
                        /\ n # Input /\ Last(Append(w, n)) = n
      OBVIOUS
    <2>1. n \in Name
      BY <1>14
    <2>2. n \in Name \cup Marks
      BY <2>1
    <2>3. Last(Append(w, n)) = n
      BY <1>13, <2>2, Child
    <2> QED  BY <1>13, <2>1, <2>3, Marked
  <1>16. Entrance(w) # Exit(w)
    BY <1>13, Marked
  <1>17. ASSUME NEW u, NEW v, InnerLine(m, w, u, v)
         PROVE  u # Exit(w)
    BY <1>15, <1>16, <1>17 DEF InnerLine, Side
  \* Inside of w every node leads to a node, and never to the exit.
  <1>18. ASSUME NEW u \in S, Home(N, u) = w
         PROVE  \E n \in DOMAIN m.inst \cup {Input} : \E e \in Range(m.edges) :
                    /\ u = Side(w, n) /\ e.source = n /\ e.target \in DOMAIN m.inst
                    /\ Append(w, e.target) \in S /\ Home(N, Append(w, e.target)) = w
    <2>1. PICK v \in S : Home(N, v) = w /\ InnerLine(m, w, u, v)
      BY <1>11, <1>18
    <2>2. v # Exit(w)
      <3>1. \E y \in S : InnerLine(m, w, v, y)
        BY <1>11, <2>1
      <3> QED  BY <1>17, <3>1
    <2> QED  BY <2>1, <2>2 DEF InnerLine
  <1>19. PICK names : names = {n \in DOMAIN m.inst : Append(w, n) \in S /\ Home(N, Append(w, n)) = w}
    OBVIOUS
  <1>20. names # {} /\ names \in SUBSET DOMAIN m.inst
    BY <1>12, <1>18, <1>19
  <1>21. \A n \in names : \E o \in names : <<n, o>> \in {<<e.source, e.target>> : e \in Range(m.edges)}
    <2> SUFFICES ASSUME NEW n \in names
                 PROVE  \E o \in names : <<n, o>> \in {<<e.source, e.target>> : e \in Range(m.edges)}
      OBVIOUS
    <2>1. Append(w, n) \in S /\ Home(N, Append(w, n)) = w /\ n \in DOMAIN m.inst
      BY <1>19
    <2>2. PICK i \in DOMAIN m.inst \cup {Input} : \E e \in Range(m.edges) :
             /\ Append(w, n) = Side(w, i) /\ e.source = i /\ e.target \in DOMAIN m.inst
             /\ Append(w, e.target) \in S /\ Home(N, Append(w, e.target)) = w
      BY <1>18, <2>1
    <2>3. PICK e \in Range(m.edges) :
             /\ Append(w, n) = Side(w, i) /\ e.source = i /\ e.target \in DOMAIN m.inst
             /\ Append(w, e.target) \in S /\ Home(N, Append(w, e.target)) = w
      BY <2>2
    <2>4. i = n
      <3>1. i # Input
        BY <1>15, <2>1, <2>3 DEF Side
      <3>2. Append(w, n) = Append(w, i) /\ i \in DOMAIN m.inst
        BY <2>3, <3>1 DEF Side
      <3> QED  BY <1>15, <2>1, <3>2
    <2>5. e.target \in names
      BY <1>19, <2>3
    <2> QED  BY <2>3, <2>4, <2>5
  <1>22. Acyclic(DOMAIN m.inst, {<<e.source, e.target>> : e \in Range(m.edges)})
    BY <1>14 DEF ValidInside
  <1> QED  BY <1>20, <1>21, <1>22 DEF Acyclic

-----------------------------------------------------------------------------
(* Flattening: the trigger, the human nodes and the depth.                 *)

\* The node that starts the process.
Start(d) ==
    IF IsModule(d, d.inst[d.trigger].type) THEN Entrance(<<d.trigger>>) ELSE <<d.trigger>>
Started(d, g) ==
    \/ Start(d) \in Range(g.nodes) \ Instances(d, g)
    \/ Start(d) = Entrance(<<d.trigger>>) /\ <<d.trigger>> \in Instances(d, g)

LEMMA RoundKeeps ==
    ASSUME NEW d, NEW g, NEW h, Round(d, g, h), NEW q \in Range(g.nodes) \ Instances(d, g)
    PROVE  q \in Range(h.nodes) \ Instances(d, h)
  <1>1. q \in Range(h.nodes)
    BY DEF Round, NodesAfter
  <1>2. q \notin Instances(d, h)
    BY DEF Round
  <1> QED  BY <1>1, <1>2

LEMMA StartedRound ==
    ASSUME NEW d, AlphabetAssumption, NEW g, NEW h, Round(d, g, h), Started(d, g)
    PROVE  Started(d, h)
  <1>1. CASE Start(d) \in Range(g.nodes) \ Instances(d, g)
    BY <1>1, RoundKeeps DEF Started
  <1>2. CASE Start(d) = Entrance(<<d.trigger>>) /\ <<d.trigger>> \in Instances(d, g)
    <2>1. PICK t \in Instances(d, g) : t = <<d.trigger>>
      BY <1>2
    <2>2. Entrance(t) \in Range(h.nodes) /\ t \in Path
      BY <2>1 DEF Round, NodesAfter, Contents, Instances
    <2>3. Last(Entrance(t)) \in Marks
      BY <2>2, Marked
    <2>4. Entrance(t) \notin Instances(d, h)
      BY <2>3 DEF Instances, IsInstance
    <2> QED  BY <1>2, <2>1, <2>2, <2>4 DEF Started
  <1> QED  BY <1>1, <1>2 DEF Started

\* A human node but the trigger has a timeout, and an output to continue with after it.
Limited(inst) == "timeout" \in DOMAIN inst.config /\ inst.onTimeout
Guarded(d, g) ==
    \A q \in Range(g.nodes) :
        IF Last(q) \in Marks THEN "provider" \notin DOMAIN g.inst[q]
        ELSE q # Start(d) /\ IsHuman(d, g.inst[q].type) => Limited(g.inst[q])

LEMMA GuardedRound ==
    ASSUME NEW d, WellFormed(d), AlphabetAssumption, ValidModules(d), NEW g, NEW h, Round(d, g, h),
           Guarded(d, g)
    PROVE  Guarded(d, h)
  <1> SUFFICES ASSUME NEW q \in Range(h.nodes)
               PROVE  IF Last(q) \in Marks THEN "provider" \notin DOMAIN h.inst[q]
                      ELSE q # Start(d) /\ IsHuman(d, h.inst[q].type) => Limited(h.inst[q])
    BY DEF Guarded
  <1>1. CASE q \in Range(g.nodes) \ Instances(d, g)
    <2>1. h.inst[q] = g.inst[q]
      BY <1>1 DEF Round
    <2> QED  BY <1>1, <2>1 DEF Guarded
  <1>2. ASSUME NEW p \in Instances(d, g), q \in Contents(d, g, p)
        PROVE  IF Last(q) \in Marks THEN "provider" \notin DOMAIN h.inst[q]
               ELSE q # Start(d) /\ IsHuman(d, h.inst[q].type) => Limited(h.inst[q])
    <2>1. PICK m : m = ModuleAt(d, g, p)
      OBVIOUS
    <2>2. p \in Path
      BY DEF Round, Instances
    <2>3. CASE q \in {Entrance(p), Exit(p)}
      <3>1. h.inst[q] = Pass(g.inst[p].type, "in") \/ h.inst[q] = Pass(g.inst[p].type, "out")
        BY <2>3 DEF Round
      <3>2. \A type, side : "provider" \notin DOMAIN Pass(type, side)
        BY DEF Pass
      <3>3. Last(q) \in Marks
        BY <2>2, <2>3, Marked
      <3> QED  BY <3>1, <3>2, <3>3
    <2>4. CASE q \notin {Entrance(p), Exit(p)}
      <3>1. PICK n \in DOMAIN m.inst : q = Append(p, n)
        BY <1>2, <2>1, <2>4 DEF Contents
      <3>2. h.inst[q] = m.inst[n]
        BY <2>1, <3>1 DEF Round
      <3>3. n \in Name /\ n \in Name \cup Marks /\ ValidInside(d, m)
        BY <2>1, ValidInstance, InstanceModule
      <3>4. Last(q) = n
        BY <2>2, <3>1, <3>3, Child
      <3>5. n \notin Marks
        BY <2>2, <3>3, Marked
      <3>6. IsHuman(d, m.inst[n].type) => Limited(m.inst[n])
        BY <3>3 DEF ValidInside, Limited
      <3> QED  BY <3>2, <3>4, <3>5, <3>6
    <2> QED  BY <2>3, <2>4
  <1>3. q \in Range(g.nodes) \ Instances(d, g) \/ \E p \in Instances(d, g) : q \in Contents(d, g, p)
    BY DEF Round, NodesAfter
  <1> QED  BY <1>1, <1>2, <1>3

\* The modules that may still be instantiated: closed under instantiation, and one less
\* after every round.
Instantiates(d) ==
    {e \in (DOMAIN d.modules) \X (DOMAIN d.modules) :
        \E n \in DOMAIN d.modules[e[1]].inst : d.modules[e[1]].inst[n].type = e[2]}
LeftOver(d, g, k, U) ==
    /\ U \in SUBSET DOMAIN d.modules
    /\ \A u \in U, v \in DOMAIN d.modules : <<u, v>> \in Instantiates(d) => v \in U
    /\ \A p \in Instances(d, g) : g.inst[p].type \in U
    /\ U # {} => Cardinality(U) + k <= Cardinality(DOMAIN d.modules)

LEMMA LeftOverRound ==
    ASSUME NEW d, WellFormed(d), ValidModules(d), NEW g, NEW h, Round(d, g, h), NEW k \in Nat,
           NEW U, LeftOver(d, g, k, U)
    PROVE  \E W : LeftOver(d, h, k + 1, W)
  <1>1. ASSUME NEW q \in Instances(d, h)
        PROVE  \E u \in U : h.inst[q].type \in U /\ <<u, h.inst[q].type>> \in Instantiates(d)
    <2>1. PICK p \in Instances(d, g) : \E n \in DOMAIN ModuleAt(d, g, p).inst : q = Append(p, n)
      BY DEF Round
    <2>2. PICK n \in DOMAIN ModuleAt(d, g, p).inst : q = Append(p, n)
      BY <2>1
    <2>3. PICK u \in U : u = g.inst[p].type /\ ModuleAt(d, g, p) = d.modules[u]
      BY InstanceModule DEF LeftOver
    <2>4. h.inst[q] = d.modules[u].inst[n] /\ n \in DOMAIN d.modules[u].inst
      BY <2>2, <2>3 DEF Round
    <2>5. PICK v : v = h.inst[q].type
      OBVIOUS
    <2>6. v \in DOMAIN d.modules /\ u \in DOMAIN d.modules
      BY <2>5, InstanceModule DEF LeftOver
    <2>7. <<u, v>> \in Instantiates(d)
      BY <2>4, <2>5, <2>6 DEF Instantiates
    <2>8. v \in U
      BY <2>6, <2>7 DEF LeftOver
    <2> QED  BY <2>5, <2>7, <2>8
  <1>2. CASE U = {}
    <2>1. LeftOver(d, h, k + 1, U)
      BY <1>1, <1>2 DEF LeftOver
    <2> QED  BY <2>1
  <1>3. CASE U # {}
    <2>1. IsFiniteSet(DOMAIN d.modules) /\ Acyclic(DOMAIN d.modules, Instantiates(d))
      BY DEF WellFormed, ValidModules, Instantiates
    <2>2. PICK u \in U : \A v \in U : <<v, u>> \notin Instantiates(d)
      BY <1>3, <2>1, AcyclicSource DEF LeftOver
    <2>3. PICK W : W = U \ {u}
      OBVIOUS
    <2>4. \A w \in W, v \in DOMAIN d.modules : <<w, v>> \in Instantiates(d) => v \in W
      BY <2>2, <2>3 DEF LeftOver
    <2>5. \A q \in Instances(d, h) : h.inst[q].type \in W
      BY <1>1, <2>2, <2>3
    <2>6. IsFiniteSet(U) /\ Cardinality(U) \in Nat /\ Cardinality(DOMAIN d.modules) \in Nat
      BY <2>1, FS_Subset, FS_CardinalityType DEF LeftOver
    <2>7. Cardinality(W) = Cardinality(U) - 1
      BY <2>3, <2>6, FS_RemoveElement
    <2>8. Cardinality(U) + k <= Cardinality(DOMAIN d.modules)
      BY <1>3 DEF LeftOver
    <2>9. Cardinality(W) + (k + 1) <= Cardinality(DOMAIN d.modules)
      BY <2>6, <2>7, <2>8
    <2>10. W \in SUBSET DOMAIN d.modules
      BY <2>3 DEF LeftOver
    <2>11. LeftOver(d, h, k + 1, W)
      BY <2>4, <2>5, <2>9, <2>10 DEF LeftOver
    <2> QED  BY <2>11
  <1> QED  BY <1>2, <1>3

-----------------------------------------------------------------------------
(* Flattening: the flat graph.                                             *)

\* What validation and normalisation give for flattening, and what every round keeps.
Fit(d) == WellFormed(d) /\ ValidModules(d) /\ ValidGraph(d, d, d.trigger) /\ Compilable(d)
Level(d, g, k) ==
    /\ Shaped(d, g, k) /\ Linked(d, g) /\ Acyclic(Range(g.nodes), Lines(g))
    /\ Started(d, g) /\ Guarded(d, g) /\ \E U : LeftOver(d, g, k, U)

LEMMA TopEdges ==
    ASSUME NEW d, WellFormed(d)
    PROVE  /\ Top(d).edges \in Seq(Range(Top(d).edges))
           /\ \A x \in Range(Top(d).edges) :
                 /\ HasEnds(x)
                 /\ \E e \in Range(d.edges) : /\ x.source = <<e.source>> /\ x.target = <<e.target>>
                                              /\ x.uses = {<<n>> : n \in e.uses}
  <1> DEFINE Lift(e) == [e EXCEPT !.source = <<@>>, !.target = <<@>>, !.uses = {<<n>> : n \in @}]
  <1>1. PICK s : s = [i \in DOMAIN d.edges |-> Lift(d.edges[i])]
    OBVIOUS
  <1>2. Top(d).edges = s
    BY <1>1 DEF Top
  <1>3. ASSUME NEW e, HasEnds(e)
        PROVE  /\ HasEnds(Lift(e)) /\ Lift(e).source = <<e.source>>
               /\ Lift(e).target = <<e.target>> /\ Lift(e).uses = {<<n>> : n \in e.uses}
    BY <1>3 DEF HasEnds
  <1> HIDE DEF Lift
  <1>4. DOMAIN d.edges = 1..Len(d.edges) /\ Len(d.edges) \in Nat
    BY DEF WellFormed, HasGraph
  <1>5. s \in [1..Len(d.edges) -> Range(s)]
    BY <1>1, <1>4 DEF Range
  <1>6. s \in Seq(Range(s))
    BY <1>4, <1>5, FunctionSequence
  <1>7. ASSUME NEW x \in Range(s)
        PROVE  /\ HasEnds(x)
               /\ \E e \in Range(d.edges) : /\ x.source = <<e.source>> /\ x.target = <<e.target>>
                                            /\ x.uses = {<<n>> : n \in e.uses}
    <2>1. PICK i \in DOMAIN d.edges : x = Lift(d.edges[i])
      BY <1>1 DEF Range
    <2>2. PICK e : e = d.edges[i]
      OBVIOUS
    <2>3. e \in Range(d.edges) /\ HasEnds(e)
      BY <2>2 DEF WellFormed, HasGraph, HasEnds, Range
    <2> QED  BY <1>3, <2>1, <2>2, <2>3
  <1> QED  BY <1>2, <1>6, <1>7

\* What validation says of the top level of a process whose trigger is a node.
LEMMA ValidTop ==
    ASSUME NEW d, Fit(d), AlphabetAssumption
    PROVE  /\ \A e \in Range(d.edges) :
                 /\ e.source \in DOMAIN d.inst /\ e.target \in DOMAIN d.inst
                 /\ e.target # d.trigger /\ e.uses \subseteq DOMAIN d.inst
           /\ Acyclic(DOMAIN d.inst, {<<e.source, e.target>> : e \in Range(d.edges)})
           /\ \A n \in DOMAIN d.inst \ {d.trigger} :
                 IsHuman(d, d.inst[n].type) => Limited(d.inst[n])
           /\ d.trigger \in DOMAIN d.inst /\ DOMAIN d.inst \subseteq Name
  <1>1. d.trigger \in DOMAIN d.inst /\ DOMAIN d.inst \subseteq Name
    BY DEF Fit, Compilable, WellFormed, HasGraph
  <1>2. d.trigger # Input
    BY <1>1 DEF AlphabetAssumption
  <1>3. ValidGraph(d, d, d.trigger)
    BY DEF Fit
  <1>4. PICK t : t = d.trigger
    OBVIOUS
  <1>5. ASSUME NEW e \in Range(d.edges)
        PROVE  /\ e.source \in DOMAIN d.inst /\ e.target \in DOMAIN d.inst
               /\ e.target # t /\ e.uses \subseteq DOMAIN d.inst
    <2>1. e.source \in DOMAIN d.inst /\ e.target \in DOMAIN d.inst
      BY <1>2, <1>3, <1>4 DEF ValidGraph
    <2>2. e.uses \subseteq DOMAIN d.inst
      BY <1>2, <1>3, <1>4 DEF ValidGraph
    <2>3. {x \in Range(d.edges) : x.target = t} = {}
      BY <1>3, <1>4 DEF ValidGraph
    <2> QED  BY <2>1, <2>2, <2>3
  <1>6. Acyclic(DOMAIN d.inst, {<<e.source, e.target>> : e \in Range(d.edges)})
    BY <1>3 DEF ValidGraph
  <1>7. \A n \in DOMAIN d.inst \ {t} : IsHuman(d, d.inst[n].type) => Limited(d.inst[n])
    BY <1>3, <1>4 DEF ValidGraph, Limited
  <1> QED  BY <1>1, <1>4, <1>5, <1>6, <1>7

LEMMA TopLevel ==
    ASSUME NEW d, Fit(d), AlphabetAssumption, NEW g, g = Top(d)
    PROVE  Level(d, g, 0)
  <1>1. WellFormed(d)
    BY DEF Fit
  <1>2. /\ g.nodes \in Seq(Path) /\ Distinct(g.nodes)
        /\ Range(g.nodes) = Nodes(d) /\ DOMAIN g.inst = Nodes(d)
        /\ \A n \in DOMAIN d.inst : g.inst[<<n>>] = d.inst[n]
    BY <1>1, TopNodes
  <1>3. \A q \in Range(g.nodes) : Len(q) = 1 /\ \E n \in DOMAIN d.inst : q = <<n>>
    BY <1>2 DEF Nodes
  <1>4. /\ g.edges \in Seq(Range(g.edges))
        /\ \A x \in Range(g.edges) :
              /\ HasEnds(x)
              /\ \E e \in Range(d.edges) : /\ x.source = <<e.source>> /\ x.target = <<e.target>>
                                           /\ x.uses = {<<n>> : n \in e.uses}
    BY <1>1, TopEdges
  <1>5. Shaped(d, g, 0)
    <2>1. \A q \in Range(g.nodes) : Len(q) \in 1..(0 + 1)
      BY <1>3
    <2>2. \A p \in Instances(d, g) : Len(p) = 0 + 1
      BY <1>3 DEF Instances
    <2> QED  BY <1>2, <1>4, <2>1, <2>2 DEF Shaped
  <1>6. PICK t : t = <<d.trigger>>
    OBVIOUS
  <1>7. /\ \A e \in Range(d.edges) :
              /\ e.source \in DOMAIN d.inst /\ e.target \in DOMAIN d.inst
              /\ e.target # d.trigger /\ e.uses \subseteq DOMAIN d.inst
        /\ d.trigger \in DOMAIN d.inst /\ DOMAIN d.inst \subseteq Name
    BY ValidTop
  <1>8. t \in Range(g.nodes) /\ t \in Path /\ g.inst[t] = d.inst[d.trigger] /\ Len(t) = 1
    BY <1>2, <1>6, <1>7 DEF Nodes, Path
  <1>9. ASSUME NEW n \in DOMAIN d.inst
        PROVE  /\ <<n>> \in Range(g.nodes) /\ <<n>> # Entrance(t) /\ Last(<<n>>) = n /\ n \notin Marks
               /\ n # d.trigger => <<n>> # t
    <2>1. Len(Entrance(t)) = 1 + 1 /\ Len(<<n>>) = 1
      <3>1. Len(Entrance(t)) = Len(t) + 1
        BY <1>8, Marked
      <3>2. Len(<<n>>) = 1
        OBVIOUS
      <3> QED  BY <1>8, <3>1, <3>2, Zenon
    <2>2. n \notin Marks
      BY <1>7, <1>8, Marked
    <2>3. Last(<<n>>) = n
      BY DEF Last
    <2>4. Len(Entrance(t)) # Len(<<n>>)
      BY <2>1
    <2> QED  BY <1>2, <1>6, <2>2, <2>3, <2>4 DEF Nodes
  <1>10. Linked(d, g)
    <2> SUFFICES ASSUME NEW x \in Range(g.edges)
                 PROVE  /\ x.source \in Range(g.nodes) /\ x.target \in Range(g.nodes)
                        /\ x.target # t /\ x.target # Entrance(t)
                        /\ Len(x.target) = 1 /\ x.uses \subseteq Range(g.nodes)
      BY <1>6 DEF Linked, Outs, Ins
    <2>1. PICK e \in Range(d.edges) : /\ x.source = <<e.source>> /\ x.target = <<e.target>>
                                      /\ x.uses = {<<n>> : n \in e.uses}
      BY <1>4
    <2> QED  BY <1>3, <1>7, <1>9, <2>1
  <1>11. Acyclic(Range(g.nodes), Lines(g))
    <2> SUFFICES ASSUME NEW S, S \subseteq Range(g.nodes), S # {},
                        \A u \in S : \E v \in S : <<u, v>> \in Lines(g)
                 PROVE  FALSE
      BY DEF Acyclic
    <2>1. PICK names : names = {n \in DOMAIN d.inst : <<n>> \in S}
      OBVIOUS
    <2>2. names # {} /\ names \in SUBSET DOMAIN d.inst
      BY <1>3, <2>1
    <2>3. ASSUME NEW n \in names
          PROVE  \E o \in names : <<n, o>> \in {<<e.source, e.target>> : e \in Range(d.edges)}
      <3>1. PICK v \in S : <<<<n>>, v>> \in Lines(g)
        BY <2>1
      <3>2. PICK x \in Range(g.edges) : /\ <<n>> = Home(Range(g.nodes), x.source)
                                        /\ v = Home(Range(g.nodes), x.target)
        BY <3>1 DEF Lines
      <3>3. PICK e \in Range(d.edges) : x.source = <<e.source>> /\ x.target = <<e.target>>
        BY <1>4
      <3>4. <<n>> = <<e.source>> /\ v = <<e.target>>
        BY <1>7, <1>9, <3>2, <3>3 DEF Home
      <3>5. n = e.source
        BY <3>4
      <3>6. e.target \in names
        BY <1>7, <2>1, <3>4
      <3> QED  BY <3>5, <3>6
    <2>4. Acyclic(DOMAIN d.inst, {<<e.source, e.target>> : e \in Range(d.edges)})
      BY ValidTop
    <2> QED  BY <2>2, <2>3, <2>4 DEF Acyclic
  <1>12. Started(d, g)
    <2>1. Last(t) \notin Marks
      BY <1>6, <1>7, <1>9
    <2>2. t \in Instances(d, g) <=> IsModule(d, d.inst[d.trigger].type)
      BY <1>8, <2>1 DEF Instances, IsInstance
    <2> QED  BY <1>6, <1>8, <2>2 DEF Started, Start
  <1>13. Guarded(d, g)
    <2> SUFFICES ASSUME NEW q \in Range(g.nodes)
                 PROVE  /\ Last(q) \notin Marks
                        /\ q # Start(d) /\ IsHuman(d, g.inst[q].type) => Limited(g.inst[q])
      BY DEF Guarded
    <2>1. PICK n \in DOMAIN d.inst : q = <<n>>
      BY <1>3
    <2>2. g.inst[q] = d.inst[n] /\ Last(q) = n /\ n \notin Marks
      BY <1>2, <1>9, <2>1
    <2>3. CASE n # d.trigger
      <3>1. IsHuman(d, d.inst[n].type) => Limited(d.inst[n])
        BY <2>3, ValidTop
      <3> QED  BY <2>2, <3>1
    <2>4. CASE n = d.trigger
      <3>1. q = Start(d) \/ ~ IsHuman(d, g.inst[q].type)
        BY <1>6, <2>1, <2>2, <2>4 DEF Start, IsHuman
      <3> QED  BY <2>2, <3>1
    <2> QED  BY <2>3, <2>4
  <1>14. LeftOver(d, g, 0, DOMAIN d.modules)
    <2>1. \A p \in Instances(d, g) : g.inst[p].type \in DOMAIN d.modules
      BY <1>1, InstanceModule
    <2>2. Cardinality(DOMAIN d.modules) \in Nat
      BY <1>1, FS_CardinalityType DEF WellFormed
    <2> QED  BY <2>1, <2>2 DEF LeftOver
  <1>15. \E U : LeftOver(d, g, 0, U)
    BY <1>14
  <1> QED  BY <1>5, <1>10, <1>11, <1>12, <1>13, <1>15 DEF Level

LEMMA LevelRound ==
    ASSUME NEW d, Fit(d), AlphabetAssumption, NEW k \in Nat, NEW g, Level(d, g, k)
    PROVE  Level(d, Expand(d, g), k + 1)
  <1>1. /\ WellFormed(d) /\ ValidModules(d) /\ d.trigger \in DOMAIN d.inst
        /\ Shaped(d, g, k) /\ Linked(d, g) /\ Acyclic(Range(g.nodes), Lines(g))
        /\ Started(d, g) /\ Guarded(d, g)
    BY DEF Fit, Compilable, Level
  <1>2. PICK U : LeftOver(d, g, k, U)
    BY DEF Level
  <1>3. PICK h : h = Expand(d, g)
    OBVIOUS
  <1>4. Round(d, g, h)
    BY <1>1, <1>3, RoundNodes
  <1>5. Shaped(d, h, k + 1)
    BY <1>1, <1>3, ShapedRound
  <1>6. Linked(d, h)
    BY <1>1, <1>3, LinkedRound
  <1>7. Acyclic(Range(h.nodes), Lines(h))
    BY <1>1, <1>3, AcyclicRound
  <1>8. Started(d, h) /\ Guarded(d, h)
    BY <1>1, <1>4, StartedRound, GuardedRound
  <1>9. \E W : LeftOver(d, h, k + 1, W)
    BY <1>1, <1>2, <1>4, LeftOverRound
  <1> QED  BY <1>3, <1>5, <1>6, <1>7, <1>8, <1>9 DEF Level

\* What f has at k is the graph after k rounds, for k up to n.
Rounds(f, d, n) ==
    f = [k \in 0..n |-> IF k = 0 THEN Top(d) ELSE Expand(d, f[k - 1])]

\* The recursion in Flat defines a function.
LEMMA RoundsDefined ==
    ASSUME NEW d, NEW n \in Nat
    PROVE  \E f : Rounds(f, d, n)
  <1> DEFINE Good == {k \in Nat : \E f : Rounds(f, d, k)}
  <1>1. 0 \in Good
    <2> DEFINE f == [i \in 0..0 |-> Top(d)]
    <2>1. Rounds(f, d, 0)
      BY DEF Rounds
    <2> QED  BY <2>1
  <1>2. ASSUME NEW k \in Nat, k \in Good PROVE k + 1 \in Good
    <2>1. PICK f : Rounds(f, d, k)
      BY <1>2
    <2> DEFINE g == [i \in 0..(k + 1) |-> IF i = k + 1 THEN Expand(d, f[k]) ELSE f[i]]
    <2>2. \A i \in 0..k : g[i] = f[i]
      OBVIOUS
    <2>3. ASSUME NEW i \in 0..(k + 1)
          PROVE  g[i] = IF i = 0 THEN Top(d) ELSE Expand(d, g[i - 1])
      <3>1. CASE i = k + 1
        <4>1. g[i - 1] = f[k] /\ i # 0
          BY <2>2, <3>1
        <4>2. g[i] = Expand(d, f[k])
          BY <3>1
        <4> QED  BY <4>1, <4>2
      <3>2. CASE i = 0
        BY <2>1, <2>2, <3>2 DEF Rounds
      <3>3. CASE i \in 1..k
        <4>1. g[i - 1] = f[i - 1] /\ g[i] = f[i] /\ i # 0 /\ i \in 0..k
          BY <2>2, <3>3
        <4>2. f[i] = Expand(d, f[i - 1])
          BY <2>1, <4>1 DEF Rounds
        <4> QED  BY <4>1, <4>2
      <3> QED  BY <3>1, <3>2, <3>3
    <2>4. Rounds(g, d, k + 1)
      BY <2>3, Zenon DEF Rounds
    <2> HIDE DEF g
    <2> QED  BY <2>4
  <1> HIDE DEF Good
  <1>3. n \in Good
    BY <1>1, <1>2, Induction
  <1> QED  BY <1>3 DEF Good

\* Flattening goes through one round for every module.
LEMMA FlatRounds ==
    ASSUME NEW d, WellFormed(d)
    PROVE  \E f, n : /\ n \in Nat /\ n = Cardinality(DOMAIN d.modules)
                    /\ (n = 0 <=> DOMAIN d.modules = {})
                    /\ f[0] = Top(d) /\ Flat(d) = f[n]
                    /\ \A k \in 0..n : k + 1 <= n => f[k + 1] = Expand(d, f[k])
  <1> DEFINE n == Cardinality(DOMAIN d.modules)
             f == CHOOSE f : Rounds(f, d, n)
  <1>1. /\ n \in Nat /\ n = Cardinality(DOMAIN d.modules)
        /\ (n = 0 <=> DOMAIN d.modules = {})
    BY FS_CardinalityType, FS_EmptySet DEF WellFormed
  <1>2. Flat(d) = f[n]
    BY DEF Flat, Rounds
  <1> HIDE DEF n
  <1>3. Rounds(f, d, n)
    <2>1. \E g : Rounds(g, d, n)
      BY <1>1, RoundsDefined
    <2> QED  BY <2>1
  <1> HIDE DEF f
  <1>4. f[0] = Top(d)
    BY <1>1, <1>3 DEF Rounds
  <1>5. ASSUME NEW k \in 0..n, k + 1 <= n PROVE f[k + 1] = Expand(d, f[k])
    <2>1. k + 1 \in 0..n /\ k + 1 # 0 /\ (k + 1) - 1 = k
      BY <1>1, <1>5
    <2> QED  BY <1>3, <2>1 DEF Rounds
  <1> QED  BY <1>1, <1>2, <1>4, <1>5

\* No module instance is left after as many rounds as there are modules.
LEMMA FlatLevel ==
    ASSUME NEW d, Fit(d), AlphabetAssumption, NEW g, g = Flat(d)
    PROVE  \E n \in Nat : Level(d, g, n) /\ Instances(d, g) = {}
  <1>1. WellFormed(d)
    BY DEF Fit
  <1>2. PICK f, n : /\ n \in Nat /\ n = Cardinality(DOMAIN d.modules)
                    /\ f[0] = Top(d) /\ Flat(d) = f[n]
                    /\ \A k \in 0..n : k + 1 <= n => f[k + 1] = Expand(d, f[k])
    BY <1>1, FlatRounds
  <1> DEFINE Good == {k \in Nat : k <= n => Level(d, f[k], k)}
  <1>3. 0 \in Good
    BY <1>2, TopLevel
  <1>4. ASSUME NEW k \in Nat, k \in Good PROVE k + 1 \in Good
    <2> SUFFICES ASSUME k + 1 <= n PROVE Level(d, f[k + 1], k + 1)
      OBVIOUS
    <2>1. k \in 0..n /\ k <= n
      BY <1>2
    <2>2. PICK x : x = f[k]
      OBVIOUS
    <2>3. Level(d, x, k) /\ f[k + 1] = Expand(d, x)
      BY <1>2, <1>4, <2>1, <2>2
    <2> QED  BY <2>3, LevelRound
  <1> HIDE DEF Good
  <1>5. n \in Good
    BY <1>2, <1>3, <1>4, Induction
  <1>6. Level(d, g, n)
    BY <1>2, <1>5 DEF Good
  <1>7. PICK U : LeftOver(d, g, n, U)
    BY <1>6 DEF Level
  <1>8. U = {}
    <2>1. IsFiniteSet(U)
      BY <1>1, <1>7, FS_Subset DEF LeftOver, WellFormed
    <2>2. Cardinality(U) \in Nat /\ (Cardinality(U) = 0 => U = {})
      BY <2>1, FS_CardinalityType, FS_EmptySet
    <2>3. U # {} => Cardinality(U) + n <= n
      BY <1>2, <1>7 DEF LeftOver
    <2> QED  BY <1>2, <2>2, <2>3
  <1>9. Instances(d, g) = {}
    BY <1>7, <1>8 DEF LeftOver
  <1> QED  BY <1>2, <1>6, <1>9

\* What flattening makes of a valid process: an acyclic graph of its nodes, into whose
\* first node no edge leads, and whose human nodes have a timeout.
LEMMA FlatGraph ==
    ASSUME NEW d, Fit(d), AlphabetAssumption, NEW g, g = Flat(d)
    PROVE  /\ IsGraph(g) /\ DOMAIN g.inst = Range(g.nodes)
           /\ Acyclic(Range(g.nodes), Arrows(g))
           /\ Start(d) \in Range(g.nodes)
           /\ \A e \in Range(g.edges) :
                 /\ HasEnds(e) /\ e.target # Start(d)
                 /\ \A q \in e.uses :
                       q \in Range(g.nodes) \/ Unrenamed(Range(g.nodes), e.target, q)
           /\ \A q \in Range(g.nodes) :
                 IF Last(q) \in Marks THEN "provider" \notin DOMAIN g.inst[q]
                 ELSE /\ ~ IsModule(d, g.inst[q].type)
                      /\ q # Start(d) /\ IsHuman(d, g.inst[q].type) => Limited(g.inst[q])
  <1>1. PICK n \in Nat : Level(d, g, n) /\ Instances(d, g) = {}
    BY FlatLevel
  <1>2. /\ g.nodes \in Seq(Path) /\ Distinct(g.nodes) /\ DOMAIN g.inst = Range(g.nodes)
        /\ g.edges \in Seq(Range(g.edges)) /\ \A e \in Range(g.edges) : HasEnds(e)
    BY <1>1 DEF Level, Shaped
  <1>3. Outs(d, g) = Range(g.nodes) /\ Ins(d, g) = Range(g.nodes)
    BY <1>1 DEF Outs, Ins
  <1>4. \A e \in Range(g.edges) :
           /\ e.source \in Range(g.nodes) /\ e.target \in Range(g.nodes)
           /\ e.target # <<d.trigger>> /\ e.target # Entrance(<<d.trigger>>)
           /\ \A q \in e.uses :
                 q \in Range(g.nodes) \/ Unrenamed(Range(g.nodes), e.target, q)
    BY <1>1, <1>3 DEF Level, Linked
  <1>5. g.nodes \in Seq(Range(g.nodes))
    BY <1>2 DEF Range
  <1>6. Lines(g) = Arrows(g)
    BY <1>4 DEF Lines, Arrows, Home
  <1>7. Start(d) \in Range(g.nodes)
    BY <1>1 DEF Level, Started
  <1>8. \A e \in Range(g.edges) : e.target # Start(d)
    BY <1>4 DEF Start
  <1>9. ASSUME NEW q \in Range(g.nodes), Last(q) \notin Marks
        PROVE  /\ ~ IsModule(d, g.inst[q].type)
               /\ q # Start(d) /\ IsHuman(d, g.inst[q].type) => Limited(g.inst[q])
    <2>1. ~ IsInstance(d, g, q)
      BY <1>1 DEF Instances
    <2>2. ~ IsModule(d, g.inst[q].type)
      BY <1>9, <2>1 DEF IsInstance, IsModule, Nested
    <2>3. Guarded(d, g)
      BY <1>1 DEF Level
    <2> QED  BY <1>9, <2>2, <2>3 DEF Guarded
  <1>10. \A q \in Range(g.nodes) : Last(q) \in Marks => "provider" \notin DOMAIN g.inst[q]
    BY <1>1 DEF Level, Guarded
  <1>11. Acyclic(Range(g.nodes), Arrows(g))
    BY <1>1, <1>6 DEF Level
  <1>12. IsGraph(g)
    BY <1>2, <1>4, <1>5 DEF IsGraph
  <1> QED  BY <1>2, <1>4, <1>7, <1>8, <1>9, <1>10, <1>11, <1>12

\* A process without module instances is its own flat graph.
LEMMA FlatPlain ==
    ASSUME NEW d, WellFormed(d), AlphabetAssumption, Plain(d)
    PROVE  /\ Flat(d).nodes \in Seq(Path) /\ Range(Flat(d).nodes) = Nodes(d)
           /\ \A n \in DOMAIN d.inst : Flat(d).inst[<<n>>] = d.inst[n]
  <1>1. PICK f, n : /\ n \in Nat /\ f[0] = Top(d) /\ Flat(d) = f[n]
                    /\ \A k \in 0..n : k + 1 <= n => f[k + 1] = Expand(d, f[k])
    BY FlatRounds
  <1> DEFINE Same(g) == /\ g.nodes \in Seq(Path)
                        /\ Range(g.nodes) = Nodes(d) /\ DOMAIN g.inst = Nodes(d)
                        /\ \A m \in DOMAIN d.inst : g.inst[<<m>>] = d.inst[m]
             Good == {k \in Nat : k <= n => Same(f[k])}
  <1>2. 0 \in Good
    BY <1>1, TopNodes
  <1>3. ASSUME NEW k \in Nat, k \in Good PROVE k + 1 \in Good
    <2> SUFFICES ASSUME k + 1 <= n PROVE Same(f[k + 1])
      OBVIOUS
    <2> PICK g : g = f[k]
      OBVIOUS
    <2>1. Same(g) /\ f[k + 1] = Expand(d, g)
      BY <1>1, <1>3
    <2>2. Instances(d, g) = {}
      <3> SUFFICES ASSUME NEW p \in Instances(d, g) PROVE FALSE
        OBVIOUS
      <3>1. PICK m \in DOMAIN d.inst : p = <<m>>
        BY <2>1 DEF Instances, Nodes
      <3>2. Len(p) = 1 /\ ~ IsModule(d, g.inst[p].type)
        BY <2>1, <3>1 DEF Plain
      <3> QED  BY <3>2 DEF Instances, IsInstance
    <2>a. NodesAfter(d, g) = Nodes(d)
      BY <2>1, <2>2 DEF NodesAfter
    <2>3. /\ Expand(d, g).nodes \in Seq(Path)
          /\ Range(Expand(d, g).nodes) = Nodes(d) /\ DOMAIN Expand(d, g).inst = Nodes(d)
          /\ \A q \in Nodes(d) : Expand(d, g).inst[q] = g.inst[q]
      BY <2>1, <2>a, ExpandNodes
    <2>4. \A m \in DOMAIN d.inst : <<m>> \in Nodes(d)
      BY DEF Nodes
    <2> QED  BY <2>1, <2>3, <2>4
  <1> HIDE DEF Good
  <1>4. n \in Good
    BY <1>1, <1>2, <1>3, Induction
  <1> QED  BY <1>1, <1>4 DEF Good

\* A process with a module instance has a flat node inside it.
LEMMA FlatModules ==
    ASSUME NEW d, WellFormed(d), AlphabetAssumption, ~ Plain(d)
    PROVE  /\ Flat(d).nodes \in Seq(Path)
           /\ \E q \in Range(Flat(d).nodes) : Len(q) > 1
  <1>1. PICK f, n : /\ n \in Nat /\ (n = 0 <=> DOMAIN d.modules = {})
                    /\ f[0] = Top(d) /\ Flat(d) = f[n]
                    /\ \A k \in 0..n : k + 1 <= n => f[k + 1] = Expand(d, f[k])
    BY FlatRounds
  <1>2. PICK m \in DOMAIN d.inst : IsModule(d, d.inst[m].type)
    BY DEF Plain
  <1>3. n # 0
    BY <1>1, <1>2 DEF IsModule
  <1> DEFINE Deep(g) == /\ g.nodes \in Seq(Path)
                        /\ \E q \in Range(g.nodes) : Len(q) > 1
             Good == {k \in Nat : k + 1 <= n => Deep(f[k + 1])}
  <1>4. \A p \in Path : Len(p) \in Nat /\ Len(Entrance(p)) = Len(p) + 1
    BY Marked
  <1>5. 0 \in Good
    <2> SUFFICES Deep(f[1])
      OBVIOUS
    <2>1. f[1] = Expand(d, Top(d))
      <3>1. 0 \in 0..n /\ 0 + 1 <= n /\ 0 + 1 = 1
        BY <1>1, <1>3
      <3> QED  BY <1>1, <3>1
    <2>2. PICK g, p : g = Top(d) /\ p = <<m>>
      OBVIOUS
    <2>3. g.nodes \in Seq(Path) /\ p \in Range(g.nodes) /\ g.inst[p] = d.inst[m]
      BY <1>2, <2>2, TopNodes DEF Nodes
    <2>4. p \in Path
      BY <2>3 DEF Range
    <2>5. Len(p) = 1 /\ Last(p) = m /\ m \notin Marks
      <3>1. m \in Name
        BY <1>2 DEF WellFormed, HasGraph
      <3>2. m \notin Marks
        BY <2>4, <3>1, Marked
      <3> QED  BY <2>2, <3>2 DEF Last
    <2>6. p \in Instances(d, g)
      BY <1>2, <2>3, <2>5 DEF Instances, IsInstance
    <2>7. Entrance(p) \in NodesAfter(d, g)
      BY <2>6 DEF NodesAfter, Contents
    <2>8. Entrance(p) \in Range(f[1].nodes) /\ f[1].nodes \in Seq(Path)
      BY <2>1, <2>2, <2>3, <2>7, ExpandNodes
    <2>9. Len(Entrance(p)) > 1
      <3>1. Len(Entrance(p)) = Len(p) + 1
        BY <1>4, <2>4
      <3>2. Len(Entrance(p)) = 1 + 1
        BY <2>5, <3>1, Zenon
      <3>3. 1 + 1 > 1
        OBVIOUS
      <3> QED  BY <3>2, <3>3, Zenon
    <2> QED  BY <2>8, <2>9
  <1>6. ASSUME NEW k \in Nat, k \in Good PROVE k + 1 \in Good
    <2> SUFFICES ASSUME (k + 1) + 1 <= n PROVE Deep(f[(k + 1) + 1])
      OBVIOUS
    <2>1. PICK g : g = f[k + 1]
      OBVIOUS
    <2>2. Deep(g) /\ f[(k + 1) + 1] = Expand(d, g)
      <3>1. k + 1 \in 0..n /\ k + 1 <= n
        BY <1>1
      <3> QED  BY <1>1, <1>6, <2>1, <3>1
    <2>3. PICK q \in Range(g.nodes) : Len(q) > 1
      BY <2>2
    <2>4. q \in Path
      BY <2>2, <2>3 DEF Range
    <2>5. /\ Expand(d, g).nodes \in Seq(Path)
          /\ Range(Expand(d, g).nodes) = NodesAfter(d, g)
      BY <2>2, ExpandNodes
    <2>6. CASE q \in Instances(d, g)
      <3>1. Entrance(q) \in NodesAfter(d, g)
        BY <2>6 DEF NodesAfter, Contents
      <3>2. Len(Entrance(q)) > 1
        BY <1>4, <2>3, <2>4
      <3> QED  BY <2>2, <2>5, <3>1, <3>2
    <2>7. CASE q \notin Instances(d, g)
      <3>1. q \in NodesAfter(d, g)
        BY <2>3, <2>7 DEF NodesAfter
      <3> QED  BY <2>2, <2>3, <2>5, <3>1
    <2> QED  BY <2>6, <2>7
  <1> HIDE DEF Good
  <1>7. n - 1 \in Nat
    BY <1>1, <1>3
  <1>8. n - 1 \in Good
    BY <1>5, <1>6, <1>7, Induction
  <1>9. (n - 1) + 1 = n
    BY <1>1
  <1> QED  BY <1>1, <1>7, <1>8, <1>9 DEF Good

-----------------------------------------------------------------------------
(* Normalisation and compilation.                                          *)

\* The edges of d from u, by their targets, and all of them by their sources.
Between(d, u, v) == Select(d.edges, {e \in Range(d.edges) : e.source = u /\ e.target = v})
From(d, u) == FlattenSeq([j \in DOMAIN Alphabet |-> Between(d, u, Alphabet[j])])
Sorted(d) == FlattenSeq([i \in DOMAIN Alphabet |-> From(d, Alphabet[i])])

LEMMA NormalizeSorts ==
    ASSUME NEW d, WellFormed(d), NEW p, p = Normalize(d)
    PROVE  /\ DOMAIN p = DOMAIN d /\ p.edges = Sorted(d)
           /\ \A x \in DOMAIN d : x # "edges" => p[x] = d[x]
  <1>1. Normalize(d) = [d EXCEPT !.edges = Sorted(d)]
    BY DEF Normalize, Sorted, From, Between
  <1> QED  BY <1>1 DEF WellFormed

\* It lists the edges between named nodes, and no others.
LEMMA SortedEdges ==
    ASSUME NEW d, WellFormed(d), AlphabetAssumption,
           \A e \in Range(d.edges) : e.source \in Name /\ e.target \in Name
    PROVE  Sorted(d) \in Seq(Range(d.edges)) /\ Range(Sorted(d)) = Range(d.edges)
  <1>1. PICK E : E = Range(d.edges)
    OBVIOUS
  <1>2. /\ d.edges \in Seq(E)
        /\ DOMAIN Alphabet = 1..Len(Alphabet) /\ Len(Alphabet) \in Nat /\ Range(Alphabet) = Name
    BY <1>1 DEF WellFormed, HasGraph, AlphabetAssumption, Name
  <1>3. \A u, v : /\ Between(d, u, v) \in Seq(E)
                  /\ Range(Between(d, u, v)) = {e \in E : e.source = u /\ e.target = v}
    <2> SUFFICES ASSUME NEW u, NEW v
                 PROVE  /\ Between(d, u, v) \in Seq(E)
                        /\ Range(Between(d, u, v)) = {e \in E : e.source = u /\ e.target = v}
      OBVIOUS
    <2>1. PICK S : S = {e \in E : e.source = u /\ e.target = v}
      OBVIOUS
    <2>2. Between(d, u, v) = Select(d.edges, S)
      BY <1>1, <2>1 DEF Between
    <2>3. Select(d.edges, S) \in Seq(E) /\ Range(Select(d.edges, S)) = E \cap S
      BY <1>1, <1>2, SelectRange
    <2> QED  BY <2>1, <2>2, <2>3
  <1>4. \A u : From(d, u) \in Seq(E) /\ Range(From(d, u)) = {e \in E : e.source = u}
    <2> SUFFICES ASSUME NEW u
                 PROVE  From(d, u) \in Seq(E) /\ Range(From(d, u)) = {e \in E : e.source = u}
      OBVIOUS
    <2>1. PICK rows : rows = [j \in DOMAIN Alphabet |-> Between(d, u, Alphabet[j])]
      OBVIOUS
    <2>2. rows \in [1..Len(Alphabet) -> Seq(E)]
      BY <1>2, <1>3, <2>1
    <2>3. rows \in Seq(Seq(E))
      BY <1>2, <2>2, FunctionSequence
    <2>4. From(d, u) = FlattenSeq(rows)
      BY <2>1 DEF From
    <2>5. /\ FlattenSeq(rows) \in Seq(E)
          /\ Range(FlattenSeq(rows)) = UNION {Range(rows[j]) : j \in 1..Len(rows)}
      BY <2>3, FlattenRange
    <2>6. UNION {Range(rows[j]) : j \in 1..Len(rows)} = {e \in E : e.source = u}
      <3>1. \A j \in DOMAIN Alphabet :
              /\ j \in DOMAIN rows
              /\ Range(rows[j]) = {e \in E : e.source = u /\ e.target = Alphabet[j]}
        BY <1>3, <2>1
      <3>2. \A e \in E : \E j \in DOMAIN Alphabet : e.target = Alphabet[j]
        BY <1>1, <1>2 DEF Range
      <3>3. DOMAIN rows = DOMAIN Alphabet /\ DOMAIN rows = 1..Len(rows)
        BY <2>1, <2>3
      <3> QED  BY <3>1, <3>2, <3>3
    <2> QED  BY <2>4, <2>5, <2>6
  <1>5. PICK rows : rows = [i \in DOMAIN Alphabet |-> From(d, Alphabet[i])]
    OBVIOUS
  <1>6. rows \in [1..Len(Alphabet) -> Seq(E)]
    BY <1>2, <1>4, <1>5
  <1>7. rows \in Seq(Seq(E))
    BY <1>2, <1>6, FunctionSequence
  <1>8. Sorted(d) = FlattenSeq(rows)
    BY <1>5 DEF Sorted
  <1>9. /\ FlattenSeq(rows) \in Seq(E)
        /\ Range(FlattenSeq(rows)) = UNION {Range(rows[j]) : j \in 1..Len(rows)}
    BY <1>7, FlattenRange
  <1>10. UNION {Range(rows[j]) : j \in 1..Len(rows)} = E
    <2>1. \A j \in DOMAIN Alphabet : Range(rows[j]) = {e \in E : e.source = Alphabet[j]}
      BY <1>4, <1>5
    <2>2. \A e \in E : \E j \in DOMAIN Alphabet : e.source = Alphabet[j]
      BY <1>1, <1>2 DEF Range
    <2>3. DOMAIN rows = DOMAIN Alphabet /\ DOMAIN rows = 1..Len(rows)
      BY <1>5, <1>7
    <2> QED  BY <2>1, <2>2, <2>3
  <1> QED  BY <1>1, <1>8, <1>9, <1>10

\* Whether a graph is valid depends on its instances and the set of its edges.
LEMMA SameGraph ==
    ASSUME NEW d, NEW p, p.types = d.types, p.nodeTypes = d.nodeTypes, p.modules = d.modules,
           NEW g, NEW h, h.inst = g.inst, Range(h.edges) = Range(g.edges), NEW trigger,
           ValidGraph(d, g, trigger)
    PROVE  ValidGraph(p, h, trigger)
  <1>1. \A t : Accepted(p, t) = Accepted(d, t) /\ IsHuman(p, t) = IsHuman(d, t)
    BY DEF Accepted, IsHuman, IsModule
  <1> QED  BY <1>1 DEF ValidGraph

\* A normalised definition is as valid as the definition.
LEMMA NormalizeFits ==
    ASSUME NEW d, Fit(d), AlphabetAssumption, NEW p, p = Normalize(d)
    PROVE  Fit(p)
  <1>1. WellFormed(d) /\ ValidModules(d) /\ ValidGraph(d, d, d.trigger) /\ d.trigger \in DOMAIN d.inst
    BY DEF Fit, Compilable
  <1>2. \A e \in Range(d.edges) : e.source \in Name /\ e.target \in Name
    BY ValidTop
  <1>3. /\ DOMAIN p = DOMAIN d /\ p.edges = Sorted(d)
        /\ \A x \in DOMAIN d : x # "edges" => p[x] = d[x]
    BY <1>1, NormalizeSorts
  <1>4. Sorted(d) \in Seq(Range(d.edges)) /\ Range(Sorted(d)) = Range(d.edges)
    BY <1>1, <1>2, SortedEdges
  <1>5. p.edges \in Seq(Range(d.edges)) /\ Range(p.edges) = Range(d.edges)
    BY <1>3, <1>4
  <1>6. /\ p.inst = d.inst /\ p.modules = d.modules /\ p.nodeTypes = d.nodeTypes
        /\ p.types = d.types /\ p.trigger = d.trigger
    BY <1>1, <1>3 DEF WellFormed
  <1>7. WellFormed(p)
    <2>1. HasGraph(p)
      BY <1>1, <1>3, <1>5, <1>6 DEF WellFormed, HasGraph
    <2> QED  BY <1>1, <1>3, <1>6, <2>1 DEF WellFormed
  <1>8. ValidModules(p)
    <2>1. \A m \in DOMAIN d.modules : ValidGraph(p, d.modules[m], Input)
      <3> SUFFICES ASSUME NEW m \in DOMAIN d.modules PROVE ValidGraph(p, d.modules[m], Input)
        OBVIOUS
      <3>1. PICK g : g = d.modules[m]
        OBVIOUS
      <3>2. ValidGraph(d, g, Input)
        BY <1>1, <3>1 DEF ValidModules
      <3>3. ValidGraph(p, g, Input)
        BY <1>6, <3>2, SameGraph
      <3> QED  BY <3>1, <3>3
    <2> QED  BY <1>1, <1>6, <2>1 DEF ValidModules
  <1>9. ValidGraph(p, p, p.trigger)
    <2>1. ValidGraph(p, p, d.trigger)
      BY <1>1, <1>5, <1>6, SameGraph
    <2> QED  BY <1>6, <2>1
  <1> QED  BY <1>1, <1>6, <1>7, <1>8, <1>9 DEF Fit, Compilable

\* What a compiled definition consists of.
LEMMA CompileParts ==
    ASSUME NEW d, NEW p, p = Normalize(d), NEW g, g = Flat(p), NEW ir, ir = Compile(d)
    PROVE  /\ ir.process = p /\ ir.names = g.nodes /\ ir.edges = g.edges
           /\ ir.trigger = Start(p) /\ ir.order = TopologicalSort(g)
           /\ DOMAIN ir.nodes = Range(g.nodes)
           /\ \A q \in Range(g.nodes) :
                 /\ ir.nodes[q].instance = g.inst[q]
                 /\ Last(q) \in Marks => ir.nodes[q].nodeType = g.inst[q]
                 /\ Last(q) \notin Marks =>
                       ir.nodes[q].nodeType = p.nodeTypes[g.inst[q].type]
  BY DEF Compile, Start

\* A compiled definition that the runtimes can execute: what they take of it is a process.
LEMMA RunnableProcess ==
    ASSUME NEW ir, NEW N, N = DOMAIN ir.nodes,
           ir.order \in Seq(N), Range(ir.order) = N, Distinct(ir.order), ir.trigger \in N,
           \A e \in Range(ir.edges) :
              /\ e.target # ir.trigger
              /\ \E i, j \in DOMAIN ir.order :
                    i < j /\ ir.order[i] = e.source /\ ir.order[j] = e.target,
           \A q \in N \ {ir.trigger} :
              ("provider" \in DOMAIN ir.nodes[q].nodeType
                  /\ ir.nodes[q].nodeType.provider \in HumanProviders)
              => Limited(ir.nodes[q].instance)
    PROVE  IR(N)!Compiled(Runnable(ir))
  <1>1. PICK r : r = Runnable(ir)
    OBVIOUS
  <1>2. PICK human : human = {q \in N : /\ "provider" \in DOMAIN ir.nodes[q].nodeType
                                        /\ ir.nodes[q].nodeType.provider \in HumanProviders}
    OBVIOUS
  <1>3. PICK edges : edges = {[source |-> e.source, target |-> e.target, conditional |-> e.when # "",
                               timed |-> FALSE, action |-> "none", handler |-> << >>] :
                                  e \in Range(ir.edges)}
    OBVIOUS
  <1>4. r = [order |-> ir.order, trigger |-> ir.trigger, edges |-> edges,
             human |-> human, timed |-> {},
             limited |-> {q \in human : "timeout" \in DOMAIN ir.nodes[q].instance.config},
             fallback |-> {q \in human : ir.nodes[q].instance.onTimeout},
             maxAttempts |-> [q \in N |-> 1], escalation |-> {}]
    BY <1>1, <1>2, <1>3 DEF Runnable
  <1>5. \A e \in Range(ir.edges) : e.source \in N /\ e.target \in N
    BY DEF Range
  <1>6. ASSUME NEW x \in edges
        PROVE  /\ x \in IR(N)!Edge /\ x.handler = << >>
               /\ \E e \in Range(ir.edges) : x.source = e.source /\ x.target = e.target
    <2>1. PICK e \in Range(ir.edges) :
             x = [source |-> e.source, target |-> e.target, conditional |-> e.when # "",
                  timed |-> FALSE, action |-> "none", handler |-> << >>]
      BY <1>3, Zenon
    <2>2. PICK c \in BOOLEAN : c = (e.when # "")
      BY Zenon
    <2>3. x = [source |-> e.source, target |-> e.target, conditional |-> c,
               timed |-> FALSE, action |-> "none", handler |-> << >>]
      BY <2>1, <2>2, Zenon
    <2>4. e.source \in N /\ e.target \in N
      BY <1>5
    <2>5. FALSE \in BOOLEAN /\ "none" \in IR(N)!Action /\ << >> \in N \cup {<< >>}
      BY Zenon DEF IR!Action
    <2>6. x \in IR(N)!Edge
      BY <2>3, <2>4, <2>5 DEF IR!Edge
    <2>7. x.handler = << >> /\ x.source = e.source /\ x.target = e.target
      BY <2>1
    <2> QED  BY <2>6, <2>7
  <1>7. /\ human \in SUBSET N
        /\ {q \in human : "timeout" \in DOMAIN ir.nodes[q].instance.config} \in SUBSET N
        /\ {q \in human : ir.nodes[q].instance.onTimeout} \in SUBSET N
    BY <1>2
  <1>8. [q \in N |-> 1] \in [N -> 1..1]
    OBVIOUS
  <1>9. r \in IR(N)!Process
    <2>1. edges \in SUBSET IR(N)!Edge
      BY <1>6
    <2> QED  BY <1>4, <1>7, <1>8, <2>1 DEF IR!Process
  <1>10. ir.order # << >>
    BY DEF Range
  <1>11. IR(N)!NodesOf(r) = N
    BY <1>4 DEF IR!NodesOf, Range
  <1>12. r.human \ {r.trigger} \subseteq r.limited \cap r.fallback
    BY <1>2, <1>4 DEF Limited
  <1>13. ASSUME NEW e \in edges
         PROVE  /\ e.target # ir.trigger
                /\ \E i, j \in DOMAIN ir.order :
                      i < j /\ ir.order[i] = e.source /\ ir.order[j] = e.target
                /\ e.handler = << >>
    BY <1>6
  <1>14. r.order = ir.order /\ r.trigger = ir.trigger /\ r.edges = edges
    BY <1>4
  <1>15. \A i, j \in DOMAIN r.order : r.order[i] = r.order[j] => i = j
    BY <1>14 DEF Distinct
  <1>16. IR(N)!Compiled(r)
    BY <1>9, <1>10, <1>11, <1>12, <1>13, <1>14, <1>15 DEF IR!Compiled
  <1> QED  BY <1>1, <1>16

\* Validation lets through only what the runtimes can execute (validate_process,
\* compile_process): the order has every flat node once and after the sources of its edges,
\* no edge leads to the trigger, a human node but the trigger has a timeout and an output to
\* continue with, and what a mapping reads is a node, unless it leads from one module
\* instance of the process into another.
THEOREM CompileSound ==
    ASSUME NEW d, WellFormed(d), Valid(d), Compilable(d), AlphabetAssumption
    PROVE  Sound(Compile(d))
  <1>1. PICK p, g, ir : p = Normalize(d) /\ g = Flat(p) /\ ir = Compile(d)
    OBVIOUS
  <1>2. Fit(p)
    <2>1. Fit(d)
      BY DEF Fit, Valid
    <2> QED  BY <1>1, <2>1, NormalizeFits
  <1>3. /\ IsGraph(g) /\ DOMAIN g.inst = Range(g.nodes)
        /\ Acyclic(Range(g.nodes), Arrows(g))
        /\ Start(p) \in Range(g.nodes)
        /\ \A e \in Range(g.edges) :
              /\ e.target # Start(p)
              /\ \A q \in e.uses :
                    q \in Range(g.nodes) \/ Unrenamed(Range(g.nodes), e.target, q)
        /\ \A q \in Range(g.nodes) :
              IF Last(q) \in Marks THEN "provider" \notin DOMAIN g.inst[q]
              ELSE /\ ~ IsModule(p, g.inst[q].type)
                   /\ q # Start(p) /\ IsHuman(p, g.inst[q].type) => Limited(g.inst[q])
    BY <1>1, <1>2, FlatGraph
  <1>4. /\ ir.edges = g.edges /\ ir.trigger = Start(p) /\ ir.order = TopologicalSort(g)
        /\ DOMAIN ir.nodes = Range(g.nodes)
        /\ \A q \in Range(g.nodes) :
              /\ ir.nodes[q].instance = g.inst[q]
              /\ Last(q) \in Marks => ir.nodes[q].nodeType = g.inst[q]
              /\ Last(q) \notin Marks => ir.nodes[q].nodeType = p.nodeTypes[g.inst[q].type]
    BY <1>1, CompileParts
  <1>5. /\ ir.order \in Seq(Range(g.nodes)) /\ Distinct(ir.order)
        /\ Range(ir.order) = Range(g.nodes)
        /\ \A e \in Range(g.edges) :
              \E i, j \in DOMAIN ir.order :
                 i < j /\ ir.order[i] = e.source /\ ir.order[j] = e.target
    BY <1>3, <1>4, SortCorrect
  <1>6. ASSUME NEW q \in Range(g.nodes) \ {Start(p)},
               "provider" \in DOMAIN ir.nodes[q].nodeType,
               ir.nodes[q].nodeType.provider \in HumanProviders
        PROVE  Limited(g.inst[q])
    <2>1. Last(q) \notin Marks
      BY <1>3, <1>4, <1>6
    <2>2. p.nodeTypes[g.inst[q].type].provider \in HumanProviders
      BY <1>4, <1>6, <2>1
    <2>3. IsHuman(p, g.inst[q].type)
      BY <1>3, <2>1, <2>2 DEF IsHuman
    <2> QED  BY <1>3, <2>1, <2>3
  <1>7. PICK N : N = DOMAIN ir.nodes
    OBVIOUS
  <1>8. /\ ir.order \in Seq(N) /\ Range(ir.order) = N /\ Distinct(ir.order) /\ ir.trigger \in N
        /\ \A e \in Range(ir.edges) :
              /\ e.target # ir.trigger
              /\ \E i, j \in DOMAIN ir.order :
                    i < j /\ ir.order[i] = e.source /\ ir.order[j] = e.target
    BY <1>3, <1>4, <1>5, <1>7
  <1>9. \A q \in N \ {ir.trigger} :
           ("provider" \in DOMAIN ir.nodes[q].nodeType
               /\ ir.nodes[q].nodeType.provider \in HumanProviders)
           => Limited(ir.nodes[q].instance)
    BY <1>4, <1>6, <1>7
  <1>10. IR(N)!Compiled(Runnable(ir))
    BY <1>7, <1>8, <1>9, RunnableProcess
  <1>11. Sound(ir)
    BY <1>3, <1>4, <1>7, <1>8, <1>10 DEF Sound
  <1> QED  BY <1>1, <1>11

=============================================================================
