------------------------ MODULE LearningMemoryProofs ------------------------
(***************************************************************************)
(* The learning memory, for any words, readings and candidates, any limits *)
(* of counts, days and kept records, and any number of operations.         *)
(*                                                                         *)
(* The folds of the model (memorizing, merging, retaining, sorting) are    *)
(* followed as chains: f[0] is the start and f[k] the result of the k-th   *)
(* step, and what every step keeps holds at the end (ChainStays).          *)
(***************************************************************************)
EXTENDS LearningMemory, SequenceTheorems, FiniteSetTheorems, WellFoundedInduction, TLAPS

-----------------------------------------------------------------------------
(* Chains                                                                  *)

\* A set of naturals that is not empty has a least element.
LEMMA LeastNumber ==
    ASSUME NEW T \in SUBSET Nat, T # {}
    PROVE  \E n \in T : \A m \in T : n <= m
  <1>1. PICK n \in T : \A m \in T : ~(<<m, n>> \in OpToRel(<, Nat))
    BY NatLessThanWellFounded, WFMin
  <1>2. \A m \in T : ~ m < n
    BY <1>1 DEF OpToRel
  <1>3. \A m \in T : m \in Nat
    OBVIOUS
  <1> QED  BY <1>2, <1>3

\* What each step of a chain keeps holds along it: K[k] are the values the
\* k-th step may give.
LEMMA ChainStays ==
    ASSUME NEW n \in Nat, NEW f, NEW K, f[0] \in K[0],
           \A k \in 1..n : f[k - 1] \in K[k - 1] => f[k] \in K[k]
    PROVE  \A k \in 0..n : f[k] \in K[k]
  <1> DEFINE bad == {k \in 0..n : f[k] \notin K[k]}
  <1>1. SUFFICES ASSUME bad # {} PROVE FALSE
    OBVIOUS
  <1>2. bad \in SUBSET Nat
    OBVIOUS
  <1>3. PICK k \in bad : \A m \in bad : k <= m
    <2> HIDE DEF bad
    <2> QED  BY <1>1, <1>2, LeastNumber
  <1>4. k \in 1..n
    OBVIOUS
  <1>5. k - 1 \in 0..n /\ k - 1 \notin bad
    BY <1>3, <1>4
  <1> QED  BY <1>4, <1>5

\* f[k] is what the first k elements of s make of base
IsChain(f, step, s, base) ==
    /\ f[0] = base
    /\ \A k \in 1..Len(s) : f[k] = step[f[k - 1]][s[k]]

\* A step that stays in S can be repeated along any sequence.
LEMMA ChainExists ==
    ASSUME NEW S, NEW T, NEW step \in [S -> [T -> S]], NEW s \in Seq(T), NEW base \in S
    PROVE  \E f \in [0..Len(s) -> S] : IsChain(f, step, s, base)
  <1> DEFINE Chain(n) == {f \in [0..n -> S] :
                            /\ f[0] = base
                            /\ \A k \in 1..n : f[k] = step[f[k - 1]][s[k]]}
             bad == {n \in 0..Len(s) : Chain(n) = {}}
  <1>1. Len(s) \in Nat /\ \A k \in 1..Len(s) : s[k] \in T
    BY LenProperties, ElementOfSeq
  <1>2. SUFFICES ASSUME bad # {} PROVE FALSE
    <2>1. Len(s) \notin bad
      BY <1>2
    <2>2. Chain(Len(s)) # {}
      <3> HIDE DEF Chain
      <3> QED  BY <1>1, <2>1
    <2> QED  BY <2>2 DEF IsChain
  <1>3. bad \in SUBSET Nat
    BY <1>1
  <1>4. PICK n \in bad : \A m \in bad : n <= m
    <2> HIDE DEF bad
    <2> QED  BY <1>2, <1>3, LeastNumber
  <1>5. n \in 0..Len(s) /\ Chain(n) = {}
    <2> HIDE DEF Chain
    <2> QED  OBVIOUS
  <1>6. n # 0
    <2>1. [k \in 0..0 |-> base] \in Chain(0)
      OBVIOUS
    <2> QED  BY <1>5, <2>1
  <1>7. n - 1 \in 0..Len(s) /\ n - 1 \notin bad /\ n \in 1..Len(s)
    <2> HIDE DEF bad
    <2> QED  BY <1>1, <1>4, <1>5, <1>6
  <1>8. PICK f \in Chain(n - 1) : TRUE
    <2> HIDE DEF Chain
    <2> QED  BY <1>7
  <1> DEFINE g == [k \in 0..n |-> IF k = n THEN step[f[n - 1]][s[n]] ELSE f[k]]
  <1>9. n \in Nat /\ n - 1 \in 0..(n - 1) /\ f \in [0..(n - 1) -> S] /\ f[n - 1] \in S
    BY <1>1, <1>7, <1>8
  <1>10. step[f[n - 1]][s[n]] \in S
    BY SMTT(30), <1>1, <1>7, <1>9
  <1>11. g \in [0..n -> S]
    BY <1>9, <1>10
  <1>12. g[0] = base
    BY <1>6, <1>8, <1>9
  <1>13. ASSUME NEW k \in 1..n PROVE g[k] = step[g[k - 1]][s[k]]
    <2>1. k - 1 \in 0..n /\ k - 1 # n /\ g[k - 1] = f[k - 1]
      BY <1>9
    <2>2. CASE k = n
      BY <2>1, <2>2
    <2>3. CASE k # n
      <3>1. k \in 1..(n - 1) /\ k \in 0..n
        BY <1>9, <2>3
      <3>2. f[k] = step[f[k - 1]][s[k]]
        BY <1>8, <3>1
      <3> QED  BY <2>1, <2>3, <3>1, <3>2
    <2> QED  BY <2>2, <2>3
  <1>14. g \in Chain(n)
    <2> HIDE DEF g
    <2> QED  BY <1>11, <1>12, <1>13
  <1> QED  BY <1>5, <1>14

Retaining(f, s, keep) ==
    /\ f[0] = << >>
    /\ \A k \in 1..Len(s) :
          f[k] = IF s[k] \in keep THEN Append(f[k - 1], s[k]) ELSE f[k - 1]
    /\ f[Len(s)] = Retained(s, keep)

\* Retaining (Vec::retain) as a chain.
LEMMA RetainedChain ==
    ASSUME NEW S, NEW s \in Seq(S), NEW keep
    PROVE  \E f \in [0..Len(s) -> Seq(S)] : Retaining(f, s, keep)
  <1> DEFINE Step(t, x) == IF x \in keep THEN Append(t, x) ELSE t
             step == [t \in Seq(S) |-> [x \in S |-> Step(t, x)]]
             Eq(f) == f = [i \in 0..Len(s) |-> IF i = 0 THEN << >> ELSE Step(f[i - 1], s[i])]
             it == CHOOSE f : Eq(f)
  <1>1. Len(s) \in Nat /\ \A k \in 1..Len(s) : s[k] \in S
    BY LenProperties, ElementOfSeq
  <1>2. \A t \in Seq(S), x \in S : Step(t, x) \in Seq(S) /\ step[t][x] = Step(t, x)
    BY AppendProperties
  <1>3. step \in [Seq(S) -> [S -> Seq(S)]] /\ << >> \in Seq(S)
    BY <1>2
  <1>4. PICK f \in [0..Len(s) -> Seq(S)] : IsChain(f, step, s, << >>)
    <2> HIDE DEF step
    <2> QED  BY <1>3, ChainExists
  <1>5. \A k \in 1..Len(s) : f[k] = Step(f[k - 1], s[k])
    <2> HIDE DEF step, Step
    <2>1. \A k \in 1..Len(s) : f[k - 1] \in Seq(S)
      BY <1>1
    <2> QED  BY <1>1, <1>2, <1>4, <2>1 DEF IsChain
  <1>6. Eq(f)
    <2> HIDE DEF Step
    <2>1. \A i \in 0..Len(s) : f[i] = IF i = 0 THEN << >> ELSE Step(f[i - 1], s[i])
      BY <1>1, <1>4, <1>5 DEF IsChain
    <2> QED  BY <2>1
  <1>7. Eq(it)
    <2> HIDE DEF Eq
    <2> QED  BY <1>6
  <1>8. Retained(s, keep) = it[Len(s)]
    BY DEF Retained, Fold
  <1>9. it[Len(s)] = f[Len(s)]
    <2> DEFINE K == [k \in 0..Len(s) |-> {f[k]}]
    <2> HIDE DEF it, Step
    <2>1. \A i \in 0..Len(s) : it[i] = IF i = 0 THEN << >> ELSE Step(it[i - 1], s[i])
      BY <1>7
    <2>2. it[0] \in K[0]
      BY <1>1, <1>4, <2>1 DEF IsChain
    <2>3. ASSUME NEW k \in 1..Len(s), it[k - 1] \in K[k - 1] PROVE it[k] \in K[k]
      <3>1. k - 1 \in 0..Len(s) /\ k \in 0..Len(s) /\ k # 0
        BY <1>1
      <3> QED  BY <1>5, <2>1, <2>3, <3>1
    <2>4. \A k \in 0..Len(s) : it[k] \in K[k]
      <3> HIDE DEF K
      <3> QED  BY <1>1, <2>2, <2>3, ChainStays
    <2> QED  BY <1>1, <2>4
  <1> QED  BY <1>4, <1>5, <1>8, <1>9 DEF IsChain, Retaining

-----------------------------------------------------------------------------
(* Sequences as the sets of their elements                                 *)

\* The elements of a sequence, by position.
LEMMA ElementFacts ==
    ASSUME NEW S, NEW s \in Seq(S)
    PROVE  /\ ToSet(s) \in SUBSET S
           /\ \A i \in 1..Len(s) : s[i] \in ToSet(s)
           /\ \A x \in ToSet(s) : \E i \in 1..Len(s) : s[i] = x
  <1>1. DOMAIN s = 1..Len(s) /\ \A i \in 1..Len(s) : s[i] \in S
    BY LenProperties, ElementOfSeq
  <1> QED  BY <1>1 DEF ToSet

\* An element is added at the end.
LEMMA AppendFacts ==
    ASSUME NEW S, NEW s \in Seq(S), NEW x \in S
    PROVE  /\ Append(s, x) \in Seq(S)
           /\ ToSet(Append(s, x)) = ToSet(s) \cup {x}
  <1> DEFINE t == Append(s, x)
  <1>1. /\ t \in Seq(S) /\ Len(t) = Len(s) + 1
        /\ \A i \in 1..Len(s) : t[i] = s[i]
        /\ t[Len(s) + 1] = x
    BY AppendProperties
  <1> HIDE DEF t
  <1>2. Len(s) \in Nat
    BY LenProperties
  <1>3. ToSet(t) \subseteq ToSet(s) \cup {x}
    <2>1. \A y \in ToSet(t) : \E i \in 1..(Len(s) + 1) : t[i] = y
      BY <1>1, ElementFacts
    <2>2. \A i \in 1..(Len(s) + 1) : i \in 1..Len(s) \/ i = Len(s) + 1
      BY <1>2
    <2>3. \A i \in 1..Len(s) : s[i] \in ToSet(s)
      BY ElementFacts
    <2> QED  BY <1>1, <2>1, <2>2, <2>3
  <1>4. ToSet(s) \cup {x} \subseteq ToSet(t)
    <2>1. \A i \in 1..(Len(s) + 1) : t[i] \in ToSet(t)
      BY <1>1, ElementFacts
    <2>2. \A y \in ToSet(s) : \E i \in 1..Len(s) : s[i] = y
      BY ElementFacts
    <2>3. \A i \in 1..Len(s) : i \in 1..(Len(s) + 1)
      BY <1>2
    <2>4. Len(s) + 1 \in 1..(Len(s) + 1)
      BY <1>2
    <2> QED  BY <1>1, <2>1, <2>2, <2>3, <2>4
  <1> QED  BY <1>1, <1>3, <1>4 DEF t

\* What is retained is what was there and is to be kept.
LEMMA RetainedFacts ==
    ASSUME NEW S, NEW s \in Seq(S), NEW keep
    PROVE  /\ Retained(s, keep) \in Seq(S)
           /\ ToSet(Retained(s, keep)) = ToSet(s) \cap keep
  <1>1. PICK f \in [0..Len(s) -> Seq(S)] : Retaining(f, s, keep)
    BY RetainedChain
  <1>2. Len(s) \in Nat /\ \A k \in 1..Len(s) : s[k] \in S
    BY LenProperties, ElementOfSeq
  <1> DEFINE Seen(k) == {x \in keep : \E i \in 1..k : s[i] = x}
             K == [k \in 0..Len(s) |-> {t \in Seq(S) : ToSet(t) = Seen(k)}]
  <1>3. f[0] \in K[0]
    <2>1. ToSet(<< >>) = {}
      BY DEF ToSet
    <2> QED  BY <1>1, <1>2, <2>1 DEF Retaining
  <1>4. ASSUME NEW k \in 1..Len(s), f[k - 1] \in K[k - 1] PROVE f[k] \in K[k]
    <2>1. k - 1 \in 0..Len(s) /\ k \in 0..Len(s)
      BY <1>2
    <2>2. f[k - 1] \in Seq(S) /\ ToSet(f[k - 1]) = Seen(k - 1)
      BY <1>4, <2>1
    <2>3. \A i \in 1..k : i \in 1..(k - 1) \/ i = k
      BY <1>2
    <2>4. \A i \in 1..(k - 1) : i \in 1..k
      BY <1>2
    <2>5. k \in 1..k
      BY <1>2
    <2>6. CASE s[k] \in keep
      <3>1. f[k] \in Seq(S) /\ ToSet(f[k]) = Seen(k - 1) \cup {s[k]}
        BY <1>1, <1>2, <2>2, <2>6, AppendFacts DEF Retaining
      <3>2. Seen(k) = Seen(k - 1) \cup {s[k]}
        BY <2>3, <2>4, <2>5, <2>6
      <3> QED  BY <2>1, <3>1, <3>2
    <2>7. CASE s[k] \notin keep
      <3>1. f[k] = f[k - 1]
        BY <1>1, <2>7 DEF Retaining
      <3>2. Seen(k) = Seen(k - 1)
        BY <2>3, <2>4, <2>5, <2>7
      <3> QED  BY <2>1, <2>2, <3>1, <3>2
    <2> QED  BY <2>6, <2>7
  <1>5. f[Len(s)] \in K[Len(s)]
    <2> HIDE DEF K
    <2>1. \A k \in 0..Len(s) : f[k] \in K[k]
      BY <1>2, <1>3, <1>4, ChainStays
    <2> QED  BY <1>2, <2>1
  <1>6. Retained(s, keep) \in Seq(S) /\ ToSet(Retained(s, keep)) = Seen(Len(s))
    BY <1>1, <1>2, <1>5 DEF Retaining
  <1>7. Seen(Len(s)) = ToSet(s) \cap keep
    BY ElementFacts
  <1> QED  BY <1>6, <1>7

-----------------------------------------------------------------------------
(* Records                                                                 *)

Rows == [entry : Entries, used : Days, updated : Days, count : 0..CountMax]

Unique(rs) == \A i, j \in DOMAIN rs : rs[i].entry = rs[j].entry => i = j

\* A layer, or what the files hold: one record per entry, each used at least once
Layer(rs) == rs \in Seq(Rows) /\ Unique(rs) /\ \A r \in ToSet(rs) : r.count > 0

\* A record that a refresh on day d leaves as it is
Fresh(r, d) == /\ r.used <= d /\ r.updated <= d
               /\ d - r.used < Expiry /\ d - r.updated <= HalfLife

\* The fields of a record.
LEMMA RowFacts ==
    ASSUME NEW r \in Rows
    PROVE  /\ r.entry \in Entries /\ r.used \in Nat /\ r.updated \in Nat /\ r.count \in Nat
           /\ r.used <= MaxDay /\ r.updated <= MaxDay /\ r.count <= CountMax
  BY BoundAssumption DEF Rows, Days

\* Records of one entry are one record.
LEMMA UniqueFacts ==
    ASSUME NEW rs \in Seq(Rows), Unique(rs), NEW q \in ToSet(rs), NEW r \in ToSet(rs),
           q.entry = r.entry
    PROVE  q = r
  <1>1. PICK i \in 1..Len(rs) : rs[i] = q
    BY ElementFacts
  <1>2. PICK j \in 1..Len(rs) : rs[j] = r
    BY ElementFacts
  <1>3. DOMAIN rs = 1..Len(rs)
    BY LenProperties
  <1> QED  BY <1>1, <1>2, <1>3 DEF Unique

\* No two records of an entry come from retaining.
LEMMA RetainedUnique ==
    ASSUME NEW s \in Seq(Rows), Unique(s), NEW keep
    PROVE  Unique(Retained(s, keep))
  <1>1. PICK f \in [0..Len(s) -> Seq(Rows)] : Retaining(f, s, keep)
    BY RetainedChain
  <1>2. Len(s) \in Nat /\ DOMAIN s = 1..Len(s) /\ \A k \in 1..Len(s) : s[k] \in Rows
    BY LenProperties, ElementOfSeq
  <1> DEFINE K == [k \in 0..Len(s) |-> {t \in Seq(Rows) :
                     /\ Unique(t)
                     /\ \A j \in 1..Len(t) : \E i \in 1..k : t[j] = s[i]}]
  <1>3. f[0] \in K[0]
    <2>1. Unique(<< >>) /\ << >> \in Seq(Rows) /\ Len(<< >>) = 0
      BY DEF Unique
    <2>2. \A j \in 1..Len(<< >>) : FALSE
      OBVIOUS
    <2> QED  BY <1>1, <1>2, <2>1, <2>2 DEF Retaining
  <1>4. ASSUME NEW k \in 1..Len(s), f[k - 1] \in K[k - 1] PROVE f[k] \in K[k]
    <2> DEFINE t == f[k - 1]
    <2>1. k - 1 \in 0..Len(s) /\ k \in 0..Len(s)
      BY <1>2
    <2>2. /\ t \in Seq(Rows) /\ Unique(t)
          /\ \A j \in 1..Len(t) : \E i \in 1..(k - 1) : t[j] = s[i]
      BY <1>4, <2>1
    <2> HIDE DEF t
    <2>3. \A i \in 1..(k - 1) : i \in 1..k /\ i # k /\ i \in DOMAIN s
      BY <1>2
    <2>4. k \in 1..k /\ k \in DOMAIN s
      BY <1>2
    <2>5. CASE s[k] \in keep
      <3> DEFINE u == Append(t, s[k])
      <3>1. /\ u \in Seq(Rows) /\ Len(u) = Len(t) + 1
            /\ \A j \in 1..Len(t) : u[j] = t[j]
            /\ u[Len(t) + 1] = s[k]
        BY <1>2, <2>2, AppendProperties
      <3>2. u = f[k]
        BY <1>1, <2>5 DEF Retaining, t
      <3> HIDE DEF u
      <3>3. /\ DOMAIN t = 1..Len(t) /\ DOMAIN u = 1..Len(u) /\ Len(t) \in Nat
            /\ \A j \in 1..Len(u) : j \in 1..Len(t) \/ j = Len(t) + 1
        BY <2>2, <3>1, LenProperties
      <3>4. \A j \in 1..Len(u) : \E i \in 1..k : u[j] = s[i]
        BY <2>2, <2>3, <2>4, <3>1, <3>3
      <3>5. \A j \in 1..Len(t) : u[j].entry # s[k].entry
        <4>1. SUFFICES ASSUME NEW j \in 1..Len(t), u[j].entry = s[k].entry PROVE FALSE
          OBVIOUS
        <4>2. PICK i \in 1..(k - 1) : t[j] = s[i]
          BY <2>2
        <4> QED  BY <2>3, <2>4, <3>1, <4>1, <4>2 DEF Unique
      <3>6. Unique(u)
        BY <2>2, <3>1, <3>3, <3>5 DEF Unique
      <3> QED  BY <2>1, <3>1, <3>2, <3>4, <3>6
    <2>6. CASE s[k] \notin keep
      <3>1. f[k] = t
        BY <1>1, <2>6 DEF Retaining, t
      <3> QED  BY <2>1, <2>2, <2>3, <3>1
    <2> QED  BY <2>5, <2>6
  <1>5. f[Len(s)] \in K[Len(s)]
    <2> HIDE DEF K
    <2>1. \A k \in 0..Len(s) : f[k] \in K[k]
      BY <1>2, <1>3, <1>4, ChainStays
    <2> QED  BY <1>2, <2>1
  <1> QED  BY <1>1, <1>2, <1>5 DEF Retaining

\* Halving a count (the loop of decay) gives a count that is no larger, and no
\* halving leaves it.
LEMMA HalvedFacts ==
    ASSUME NEW n \in Nat, NEW k \in Nat
    PROVE  Halved(n, k) \in 0..n /\ (k = 0 => Halved(n, k) = n)
  <1> DEFINE s == [i \in 1..k |-> 0]
             step == [x \in 0..n |-> [y \in {0} |-> x \div 2]]
             Eq(f) == f = [j \in 0..k |-> IF j = 0 THEN n ELSE f[j - 1] \div 2]
             it == CHOOSE f : Eq(f)
  <1>1. s \in Seq({0}) /\ Len(s) = k /\ \A i \in 1..k : s[i] = 0
    OBVIOUS
  <1>2. \A x \in 0..n : x \div 2 \in 0..n
    OBVIOUS
  <1>3. step \in [0..n -> [{0} -> 0..n]] /\ n \in 0..n
    BY <1>2
  <1>4. \A x \in 0..n : step[x][0] = x \div 2
    OBVIOUS
  <1>5. PICK f \in [0..Len(s) -> 0..n] : IsChain(f, step, s, n)
    <2> HIDE DEF step, s
    <2> QED  BY <1>1, <1>3, ChainExists
  <1>6. /\ f \in [0..k -> 0..n] /\ f[0] = n
        /\ \A i \in 1..k : f[i] = step[f[i - 1]][0]
    <2> HIDE DEF step, s
    <2> QED  BY <1>1, <1>5 DEF IsChain
  <1>7. \A j \in 0..k : f[j] = IF j = 0 THEN n ELSE f[j - 1] \div 2
    <2> HIDE DEF step
    <2>1. \A j \in 0..k : j # 0 => j \in 1..k /\ j - 1 \in 0..k
      OBVIOUS
    <2> QED  BY <1>4, <1>6, <2>1
  <1>8. Eq(f)
    BY <1>6, <1>7
  <1>9. Eq(it)
    <2> HIDE DEF Eq
    <2> QED  BY <1>8
  <1>10. Halved(n, k) = it[k]
    BY DEF Halved
  <1> HIDE DEF it
  <1>11. \A j \in 0..k : it[j] = IF j = 0 THEN n ELSE it[j - 1] \div 2
    BY <1>9
  <1>12. it[k] \in 0..n
    <2> DEFINE K == [j \in 0..k |-> 0..n]
    <2>1. it[0] \in K[0]
      BY <1>11
    <2>2. ASSUME NEW j \in 1..k, it[j - 1] \in K[j - 1] PROVE it[j] \in K[j]
      <3>1. j - 1 \in 0..k /\ j \in 0..k /\ j # 0
        OBVIOUS
      <3> QED  BY <1>2, <1>11, <2>2, <3>1
    <2>3. \A j \in 0..k : it[j] \in K[j]
      <3> HIDE DEF K
      <3> QED  BY <2>1, <2>2, ChainStays
    <2> QED  BY <2>3
  <1> QED  BY <1>10, <1>11, <1>12

\* The days left after the halvings are between one and a half-life.
LEMMA HalvingsFacts ==
    ASSUME NEW r \in Rows, NEW d \in Days, r.updated <= d
    PROVE  /\ Halvings(r, d) \in Nat
           /\ d - r.updated <= HalfLife => Halvings(r, d) = 0
           /\ r.updated + Halvings(r, d) * HalfLife \in Days
           /\ r.updated + Halvings(r, d) * HalfLife <= d
           /\ d - (r.updated + Halvings(r, d) * HalfLife) <= HalfLife
  <1> DEFINE H == HalfLife
             u == r.updated
             m == d - u - 1
             k == m \div H
  <1>1. H \in Nat \ {0} /\ u \in Nat /\ d \in Nat /\ d <= MaxDay /\ MaxDay \in Nat
    BY RowFacts, BoundAssumption DEF Days
  <1>2. CASE d - u > H
    <2>1. m \in Nat
      BY <1>1, <1>2
    <2>2. k \in Nat /\ k * H <= m /\ m < k * H + H
      BY <1>1, <2>1
    <2>3. Halvings(r, d) = k
      BY <1>2 DEF Halvings
    <2>4. k * H \in Nat
      BY <1>1, <2>2
    <2> HIDE DEF k
    <2> DEFINE p == k * H
    <2>5. p \in Nat /\ p <= m /\ m < p + H
      BY <2>2, <2>4
    <2> HIDE DEF p
    <2>6. u + p <= d /\ d - (u + p) <= H /\ u + p \in Days
      BY <1>1, <2>5 DEF Days
    <2>7. Halvings(r, d) * HalfLife = p
      BY <2>3 DEF p
    <2>8. ~(d - u <= H)
      BY <1>1, <1>2
    <2> QED  BY <2>2, <2>3, <2>6, <2>7, <2>8
  <1>3. CASE ~(d - u > H)
    <2>1. Halvings(r, d) = 0
      BY <1>3 DEF Halvings
    <2>2. 0 * H = 0
      BY <1>1
    <2> QED  BY <1>1, <1>3, <2>1, <2>2 DEF Days
  <1> QED  BY <1>2, <1>3

\* A record dated in the future starts over today, any other one stays.
LEMMA RedatedFacts ==
    ASSUME NEW r \in Rows, NEW d \in Days
    PROVE  /\ Redated(r, d) \in Rows
           /\ Redated(r, d).entry = r.entry
           /\ Redated(r, d).used <= d /\ Redated(r, d).updated <= d
           /\ r.count > 0 => Redated(r, d).count <= r.count /\ Redated(r, d).count > 0
           /\ r.used <= d /\ r.updated <= d => Redated(r, d) = r
  <1>1. /\ r.used \in Nat /\ r.updated \in Nat /\ r.count \in Nat /\ d \in Nat
        /\ 1 \in 0..CountMax
    BY RowFacts, BoundAssumption DEF Days
  <1>2. CASE d < r.used \/ d < r.updated
    <2> DEFINE q == [r EXCEPT !.used = d, !.updated = d, !.count = 1]
    <2>1. q \in Rows /\ q.entry = r.entry /\ q.used = d /\ q.updated = d /\ q.count = 1
      BY <1>1 DEF Rows
    <2>2. Redated(r, d) = q
      BY <1>2 DEF Redated
    <2> HIDE DEF q
    <2> QED  BY <1>1, <1>2, <2>1, <2>2
  <1>3. CASE ~(d < r.used \/ d < r.updated)
    <2>1. Redated(r, d) = r
      BY <1>3 DEF Redated
    <2> QED  BY <1>1, <1>3, <2>1
  <1> QED  BY <1>2, <1>3

\* Aging moves the day of the last halving and lowers the count, no more.
LEMMA AgedFacts ==
    ASSUME NEW r \in Rows, NEW d \in Days, r.updated <= d
    PROVE  /\ Aged(r, d) \in Rows
           /\ Aged(r, d).entry = r.entry /\ Aged(r, d).used = r.used
           /\ Aged(r, d).updated <= d /\ d - Aged(r, d).updated <= HalfLife
           /\ Aged(r, d).count <= r.count
           /\ d - r.updated <= HalfLife => Aged(r, d) = r
  <1> DEFINE k == Halvings(r, d)
             u == r.updated + k * HalfLife
             n == Halved(r.count, k)
             q == [[r EXCEPT !.count = n] EXCEPT !.updated = u]
  <1>1. /\ k \in Nat /\ u \in Days /\ u <= d /\ d - u <= HalfLife
        /\ d - r.updated <= HalfLife => k = 0
    BY HalvingsFacts
  <1>2. /\ r.count \in Nat /\ r.count <= CountMax /\ CountMax \in Nat
        /\ r.updated \in Nat /\ HalfLife \in Nat
    BY RowFacts, BoundAssumption
  <1>3. n \in 0..r.count /\ (k = 0 => n = r.count)
    BY <1>1, <1>2, HalvedFacts
  <1>4. Aged(r, d) = q
    BY DEF Aged, Rows
  <1>5. k = 0 => u = r.updated
    BY <1>2
  <1> HIDE DEF k, u, n
  <1>6. n \in 0..CountMax /\ n <= r.count
    BY <1>2, <1>3
  <1>7. q \in Rows /\ q.entry = r.entry /\ q.used = r.used /\ q.updated = u /\ q.count = n
    BY <1>1, <1>6 DEF Rows
  <1>8. k = 0 => q = r
    BY <1>3, <1>5 DEF Rows
  <1> HIDE DEF q
  <1> QED  BY <1>1, <1>4, <1>6, <1>7, <1>8

\* Records changed in place, each keeping its entry.
LEMMA ChangedFacts ==
    ASSUME NEW s \in Seq(Rows), NEW t, t = [i \in DOMAIN s |-> t[i]],
           \A i \in 1..Len(s) : t[i] \in Rows /\ t[i].entry = s[i].entry
    PROVE  t \in Seq(Rows) /\ Len(t) = Len(s) /\ (Unique(s) => Unique(t))
  <1>1. DOMAIN s = 1..Len(s) /\ Len(s) \in Nat
    BY LenProperties
  <1>2. t \in [1..Len(s) -> Rows] /\ DOMAIN t = DOMAIN s
    BY <1>1
  <1>3. t \in Seq(Rows) /\ Len(t) = Len(s)
    BY <1>1, <1>2
  <1>4. Unique(s) => Unique(t)
    BY <1>1, <1>2 DEF Unique
  <1> QED  BY <1>3, <1>4

Inherits(q, rs) == \E r \in ToSet(rs) : r.entry = q.entry /\ q.count <= r.count

\* What a refresh leaves of a layer (decay): fresh records, none of which counts
\* more than before; all of them, if all were fresh.
LEMMA DecayFacts ==
    ASSUME NEW rs, Layer(rs), NEW d \in Days
    PROVE  /\ Layer(Decay(rs, d))
           /\ \A q \in ToSet(Decay(rs, d)) : Fresh(q, d) /\ Inherits(q, rs)
           /\ (\A r \in ToSet(rs) : Fresh(r, d)) => ToSet(Decay(rs, d)) = ToSet(rs)
  <1> DEFINE redated == [i \in DOMAIN rs |-> Redated(rs[i], d)]
             live == Retained(redated, {r \in ToSet(redated) : d - r.used < Expiry})
             aged == [i \in DOMAIN live |-> Aged(live[i], d)]
             left == Retained(aged, {r \in ToSet(aged) : r.count > 0})
  <1>1. Decay(rs, d) = left
    BY DEF Decay
  <1>2. /\ rs \in Seq(Rows) /\ Unique(rs) /\ DOMAIN rs = 1..Len(rs)
        /\ \A i \in 1..Len(rs) : rs[i] \in Rows /\ rs[i].count > 0
    BY LenProperties, ElementOfSeq, ElementFacts DEF Layer
  <1>3. \A i \in 1..Len(rs) : redated[i] = Redated(rs[i], d)
    BY <1>2
  <1>4. redated = [i \in DOMAIN rs |-> redated[i]]
    BY <1>3
  <1> HIDE DEF redated
  <1>5. /\ \A i \in 1..Len(rs) : redated[i] \in Rows /\ redated[i].entry = rs[i].entry
        /\ \A i \in 1..Len(rs) : /\ redated[i].used <= d /\ redated[i].updated <= d
                                 /\ redated[i].count <= rs[i].count
        /\ \A i \in 1..Len(rs) : rs[i].used <= d /\ rs[i].updated <= d => redated[i] = rs[i]
    BY <1>2, <1>3, RedatedFacts
  <1>6. redated \in Seq(Rows) /\ Len(redated) = Len(rs) /\ Unique(redated)
    BY <1>2, <1>4, <1>5, ChangedFacts
  <1>7. /\ live \in Seq(Rows) /\ Unique(live)
        /\ ToSet(live) = {r \in ToSet(redated) : d - r.used < Expiry}
    BY <1>6, RetainedFacts, RetainedUnique
  <1> HIDE DEF live
  <1>8. ASSUME NEW q \in ToSet(live)
        PROVE  /\ q \in Rows /\ q.used <= d /\ q.updated <= d /\ d - q.used < Expiry
               /\ Inherits(q, rs)
    <2>1. q \in ToSet(redated) /\ d - q.used < Expiry
      BY <1>7
    <2>2. PICK i \in 1..Len(rs) : redated[i] = q
      BY <1>6, <2>1, ElementFacts
    <2>3. rs[i] \in ToSet(rs)
      BY <1>2, ElementFacts
    <2> QED  BY <1>5, <2>1, <2>2, <2>3 DEF Inherits
  <1>9. /\ DOMAIN live = 1..Len(live)
        /\ \A i \in 1..Len(live) : live[i] \in ToSet(live)
    BY <1>7, LenProperties, ElementFacts
  <1>10. \A i \in 1..Len(live) : aged[i] = Aged(live[i], d)
    BY <1>9
  <1>11. aged = [i \in DOMAIN live |-> aged[i]]
    BY <1>10
  <1> HIDE DEF aged
  <1>12. /\ \A i \in 1..Len(live) : aged[i] \in Rows /\ aged[i].entry = live[i].entry
         /\ \A i \in 1..Len(live) :
               /\ aged[i].used = live[i].used /\ aged[i].updated <= d
               /\ d - aged[i].updated <= HalfLife
               /\ aged[i].count <= live[i].count
               /\ d - live[i].updated <= HalfLife => aged[i] = live[i]
    BY <1>8, <1>9, <1>10, AgedFacts
  <1>13. aged \in Seq(Rows) /\ Len(aged) = Len(live) /\ Unique(aged)
    BY <1>7, <1>11, <1>12, ChangedFacts
  <1>14. /\ left \in Seq(Rows) /\ Unique(left)
         /\ ToSet(left) = {r \in ToSet(aged) : r.count > 0}
    BY <1>13, RetainedFacts, RetainedUnique
  <1> HIDE DEF left
  <1>15. Layer(left)
    BY <1>14 DEF Layer
  <1>16. ASSUME NEW q \in ToSet(left) PROVE Fresh(q, d) /\ Inherits(q, rs)
    <2>1. q \in ToSet(aged)
      BY <1>14
    <2>2. PICK i \in 1..Len(live) : aged[i] = q
      BY <1>13, <2>1, ElementFacts
    <2>3. live[i] \in ToSet(live)
      BY <1>9
    <2>4. Fresh(q, d)
      BY <1>8, <1>12, <2>2, <2>3 DEF Fresh
    <2>5. PICK r \in ToSet(rs) : r.entry = live[i].entry /\ live[i].count <= r.count
      BY <1>8, <2>3 DEF Inherits
    <2>6. q \in Rows /\ live[i] \in Rows /\ r \in Rows
      BY <1>2, <1>8, <1>12, <2>2, <2>3, ElementFacts
    <2>7. q.count \in Nat /\ live[i].count \in Nat /\ r.count \in Nat
      BY <2>6, RowFacts
    <2> QED  BY <1>12, <2>2, <2>4, <2>5, <2>7 DEF Inherits
  <1>17. ASSUME \A r \in ToSet(rs) : Fresh(r, d) PROVE ToSet(left) = ToSet(rs)
    <2>1. \A i \in 1..Len(rs) : redated[i] = rs[i] /\ rs[i] \in ToSet(rs)
      BY <1>2, <1>5, <1>17, ElementFacts DEF Fresh
    <2>2. ToSet(redated) = ToSet(rs)
      BY <1>2, <1>6, <2>1, ElementFacts
    <2>3. ToSet(live) = ToSet(rs)
      BY <1>7, <1>17, <2>2 DEF Fresh
    <2>4. \A i \in 1..Len(live) : aged[i] = live[i]
      BY <1>9, <1>12, <1>17, <2>3 DEF Fresh
    <2>5. ToSet(aged) = ToSet(live)
      BY <1>7, <1>13, <2>4, ElementFacts
    <2> QED  BY <1>14, <2>3, <2>5 DEF Layer
  <1> QED  BY <1>1, <1>15, <1>16, <1>17

-----------------------------------------------------------------------------
(* Sorting and truncating what is saved                                    *)

Flattening(f, seqs) ==
    /\ f[0] = << >>
    /\ \A k \in 1..Len(seqs) : f[k] = f[k - 1] \o seqs[k]
    /\ f[Len(seqs)] = FlattenSeq(seqs)

\* Joining sequences as a chain.
LEMMA FlattenChain ==
    ASSUME NEW S, NEW seqs \in Seq(Seq(S))
    PROVE  \E f \in [0..Len(seqs) -> Seq(S)] : Flattening(f, seqs)
  <1> DEFINE n == Len(seqs)
             all == Seq(S)
             step == [t \in all |-> [x \in all |-> t \o x]]
             Eq(g) == g = [i \in 1..n |-> IF i = 1 THEN seqs[i] ELSE g[i - 1] \o seqs[i]]
             it == CHOOSE g : Eq(g)
  <1>1. n \in Nat /\ (\A k \in 1..n : seqs[k] \in all) /\ seqs \in Seq(all)
    BY LenProperties, ElementOfSeq
  <1>2. /\ \A t, x \in all : t \o x \in all /\ step[t][x] = t \o x
        /\ \A x \in all : << >> \o x = x
    BY ConcatProperties, ConcatEmptySeq
  <1>3. step \in [all -> [all -> all]] /\ << >> \in all
    BY <1>2
  <1>4. PICK f \in [0..n -> all] : IsChain(f, step, seqs, << >>)
    <2> HIDE DEF step, all
    <2> QED  BY <1>1, <1>3, ChainExists
  <1>5. f[0] = << >> /\ \A k \in 1..n : f[k] = f[k - 1] \o seqs[k]
    <2> HIDE DEF step, all
    <2>1. \A k \in 1..n : k - 1 \in 0..n
      BY <1>1
    <2>2. \A k \in 1..n : f[k - 1] \in all /\ seqs[k] \in all
      BY <1>1, <1>4, <2>1
    <2> QED  BY <1>2, <1>4, <2>2 DEF IsChain
  <1>6. CASE n = 0
    <2>1. seqs = << >>
      BY <1>6, EmptySeq
    <2>2. FlattenSeq(seqs) = seqs
      BY <1>6 DEF FlattenSeq
    <2> QED  BY <1>4, <1>5, <1>6, <2>1, <2>2 DEF Flattening
  <1>7. CASE n # 0
    <2> HIDE DEF step
    <2>1. f[1] = seqs[1]
      <3>1. 1 \in 1..n
        BY <1>1, <1>7
      <3> HIDE DEF all, n
      <3>2. f[1] = f[0] \o seqs[1]
        <4>1. 1 - 1 = 0
          OBVIOUS
        <4>2. f[1] = f[1 - 1] \o seqs[1]
          BY <1>5, <3>1
        <4> QED  BY <4>1, <4>2
      <3> QED  BY <1>1, <1>2, <1>5, <3>1, <3>2
    <2>2. Eq([i \in 1..n |-> f[i]])
      <3> DEFINE g == [i \in 1..n |-> f[i]]
      <3>1. \A i \in 1..n : g[i] = IF i = 1 THEN seqs[i] ELSE g[i - 1] \o seqs[i]
        <4>1. \A i \in 1..n : i # 1 => i - 1 \in 1..n
          BY <1>1
        <4> QED  BY <1>5, <2>1, <4>1
      <3> QED  BY <3>1
    <2>3. Eq(it)
      <3> HIDE DEF Eq
      <3> QED  BY <2>2
    <2>4. FlattenSeq(seqs) = it[n]
      BY <1>7 DEF FlattenSeq
    <2> HIDE DEF it
    <2>5. \A i \in 1..n : it[i] = IF i = 1 THEN seqs[i] ELSE it[i - 1] \o seqs[i]
      BY <2>3
    <2> DEFINE h == [i \in 0..n |-> IF i = 0 THEN << >> ELSE it[i]]
               K == [i \in 0..n |-> {f[i]}]
    <2>6. h[0] \in K[0]
      BY <1>1, <1>5
    <2>7. ASSUME NEW k \in 1..n, h[k - 1] \in K[k - 1] PROVE h[k] \in K[k]
      <3>1. k - 1 \in 0..n /\ k \in 0..n /\ k # 0 /\ (k # 1 => k - 1 # 0)
        BY <1>1
      <3>2. h[k] = it[k]
        BY <3>1
      <3>3. CASE k = 1
        BY <2>1, <2>5, <3>1, <3>2, <3>3
      <3>4. CASE k # 1
        <4>1. it[k - 1] = f[k - 1]
          BY <2>7, <3>1, <3>4
        <4> QED  BY ZenonT(30), <1>5, <2>5, <3>1, <3>2, <3>4, <4>1
      <3> QED  BY <3>3, <3>4
    <2>8. \A k \in 0..n : h[k] \in K[k]
      <3> HIDE DEF K, h
      <3> QED  BY <1>1, <2>6, <2>7, ChainStays
    <2>9. it[n] = f[n]
      BY <1>1, <1>7, <2>8
    <2> QED  BY <1>4, <1>5, <2>4, <2>9 DEF Flattening
  <1> QED  BY <1>6, <1>7

\* The first elements of a sequence.
LEMMA TakeFacts ==
    ASSUME NEW S, NEW s \in Seq(S), NEW n \in Nat
    PROVE  /\ Take(s, n) \in Seq(S)
           /\ Len(Take(s, n)) = IF n > Len(s) THEN Len(s) ELSE n
           /\ \A i \in 1..Len(Take(s, n)) : Take(s, n)[i] = s[i] /\ i \in 1..Len(s)
  <1> DEFINE m == IF n > Len(s) THEN Len(s) ELSE n
  <1>1. Len(s) \in Nat /\ m \in 0..Len(s) /\ \A i \in 1..Len(s) : s[i] \in S
    BY LenProperties, ElementOfSeq
  <1>2. Take(s, n) = SubSeq(s, 1, m)
    BY DEF Take
  <1> HIDE DEF m
  <1>3. \A i \in 1..m : s[i] \in S /\ i \in 1..Len(s)
    BY <1>1
  <1>4. /\ SubSeq(s, 1, m) \in Seq(S)
        /\ Len(SubSeq(s, 1, m)) = m
        /\ \A i \in 1..m : SubSeq(s, 1, m)[i] = s[i]
    BY <1>1, <1>3, SubSeqProperties
  <1> QED  BY <1>2, <1>3, <1>4 DEF m

\* Newest first
Sorted(rs) == \A i, j \in 1..Len(rs) : i <= j => rs[i].used >= rs[j].used

UsedSince(rs, m) == {r \in ToSet(rs) : r.used >= m}
UsedOn(rs, m) == {r \in ToSet(rs) : r.used = m}

\* The records of one more day come after those of the later days.
LEMMA JoinedFacts ==
    ASSUME NEW all \in Seq(Rows), Unique(all), NEW m \in Int,
           NEW t \in Seq(Rows), Unique(t), Sorted(t),
           ToSet(t) = UsedSince(all, m + 1),
           NEW b \in Seq(Rows), Unique(b), ToSet(b) = UsedOn(all, m)
    PROVE  /\ t \o b \in Seq(Rows) /\ Unique(t \o b) /\ Sorted(t \o b)
           /\ ToSet(t \o b) = UsedSince(all, m)
  <1> DEFINE u == t \o b
  <1>1. /\ u \in Seq(Rows) /\ Len(u) = Len(t) + Len(b)
        /\ \A i \in 1..Len(t) + Len(b) : u[i] = IF i <= Len(t) THEN t[i] ELSE b[i - Len(t)]
    BY ConcatProperties
  <1> HIDE DEF u
  <1>2. /\ Len(t) \in Nat /\ Len(b) \in Nat
        /\ DOMAIN t = 1..Len(t) /\ DOMAIN b = 1..Len(b) /\ DOMAIN u = 1..Len(u)
    BY <1>1, LenProperties
  <1>3. \A r \in ToSet(all) : r \in Rows /\ r.used \in Nat
    BY ElementFacts, RowFacts
  <1>4. \A i \in 1..Len(t) : t[i] \in ToSet(all) /\ t[i].used >= m + 1 /\ t[i].used \in Nat
    <2>1. \A i \in 1..Len(t) : t[i] \in ToSet(t)
      BY ElementFacts
    <2> QED  BY <1>3, <2>1 DEF UsedSince
  <1>5. \A i \in 1..Len(b) : b[i] \in ToSet(all) /\ b[i].used = m /\ b[i].used \in Nat
    <2>1. \A i \in 1..Len(b) : b[i] \in ToSet(b)
      BY ElementFacts
    <2> QED  BY <1>3, <2>1 DEF UsedOn
  <1>6. \A i \in 1..Len(u) : \/ i \in 1..Len(t) /\ u[i] = t[i]
                             \/ i - Len(t) \in 1..Len(b) /\ i > Len(t) /\ u[i] = b[i - Len(t)]
    BY <1>1, <1>2
  <1>7. \A i \in 1..Len(t), j \in 1..Len(b) : t[i].entry # b[j].entry
    <2>1. SUFFICES ASSUME NEW i \in 1..Len(t), NEW j \in 1..Len(b), t[i].entry = b[j].entry
                   PROVE  FALSE
      OBVIOUS
    <2>2. t[i] = b[j]
      BY <1>4, <1>5, <2>1, UniqueFacts
    <2> QED  BY <1>4, <1>5, <2>2
  <1>8. Unique(u)
    <2>1. SUFFICES ASSUME NEW i \in 1..Len(u), NEW j \in 1..Len(u), u[i].entry = u[j].entry
                   PROVE  i = j
      BY <1>2 DEF Unique
    <2>2. CASE i \in 1..Len(t) /\ j \in 1..Len(t) /\ u[i] = t[i] /\ u[j] = t[j]
      BY <1>2, <2>1, <2>2 DEF Unique
    <2>3. CASE i - Len(t) \in 1..Len(b) /\ j - Len(t) \in 1..Len(b)
               /\ u[i] = b[i - Len(t)] /\ u[j] = b[j - Len(t)]
      <3>1. i - Len(t) = j - Len(t)
        BY <1>2, <2>1, <2>3 DEF Unique
      <3>2. i \in Int /\ j \in Int
        OBVIOUS
      <3> QED  BY <1>2, <3>1, <3>2
    <2> QED  BY <1>6, <1>7, <2>1, <2>2, <2>3
  <1>9. Sorted(u)
    <2>1. SUFFICES ASSUME NEW i \in 1..Len(u), NEW j \in 1..Len(u), i <= j
                   PROVE  u[i].used >= u[j].used
      BY DEF Sorted
    <2>2. CASE i \in 1..Len(t) /\ j \in 1..Len(t) /\ u[i] = t[i] /\ u[j] = t[j]
      BY <2>1, <2>2 DEF Sorted
    <2>3. CASE i \in 1..Len(t) /\ u[i] = t[i]
               /\ j - Len(t) \in 1..Len(b) /\ u[j] = b[j - Len(t)]
      <3>1. u[i].used >= m + 1 /\ u[i].used \in Nat /\ u[j].used = m
        BY <1>4, <1>5, <2>3
      <3> QED  BY <3>1
    <2>4. CASE i - Len(t) \in 1..Len(b) /\ j - Len(t) \in 1..Len(b)
               /\ u[i] = b[i - Len(t)] /\ u[j] = b[j - Len(t)]
      <3>1. u[i].used = m /\ u[j].used = m
        BY <1>5, <2>4
      <3> QED  BY <3>1
    <2>5. CASE i > Len(t) /\ j \in 1..Len(t)
      BY <1>2, <2>1, <2>5
    <2> QED  BY <1>6, <2>1, <2>2, <2>3, <2>4, <2>5
  <1>10. ToSet(u) = ToSet(t) \cup ToSet(b)
    <2>1. \A x \in ToSet(u) : x \in ToSet(t) \cup ToSet(b)
      <3>1. SUFFICES ASSUME NEW x \in ToSet(u) PROVE x \in ToSet(t) \cup ToSet(b)
        OBVIOUS
      <3>2. PICK i \in 1..Len(u) : u[i] = x
        BY <1>1, ElementFacts
      <3>3. \A k \in 1..Len(t) : t[k] \in ToSet(t)
        BY ElementFacts
      <3>4. \A k \in 1..Len(b) : b[k] \in ToSet(b)
        BY ElementFacts
      <3> QED  BY <1>6, <3>2, <3>3, <3>4
    <2>2. \A i \in 1..Len(u) : u[i] \in ToSet(u)
      BY <1>1, ElementFacts
    <2>3. \A x \in ToSet(t) : x \in ToSet(u)
      <3>1. SUFFICES ASSUME NEW x \in ToSet(t) PROVE x \in ToSet(u)
        OBVIOUS
      <3>2. PICK i \in 1..Len(t) : t[i] = x
        BY ElementFacts
      <3>3. i \in 1..Len(u) /\ i <= Len(t) /\ i \in 1..Len(t) + Len(b)
        BY <1>1, <1>2
      <3> QED  BY <1>1, <2>2, <3>2, <3>3
    <2>4. \A x \in ToSet(b) : x \in ToSet(u)
      <3>1. SUFFICES ASSUME NEW x \in ToSet(b) PROVE x \in ToSet(u)
        OBVIOUS
      <3>2. PICK i \in 1..Len(b) : b[i] = x
        BY ElementFacts
      <3>3. /\ i + Len(t) \in 1..Len(u) /\ ~(i + Len(t) <= Len(t))
            /\ i + Len(t) \in 1..Len(t) + Len(b) /\ (i + Len(t)) - Len(t) = i
        BY <1>1, <1>2
      <3> QED  BY <1>1, <2>2, <3>2, <3>3
    <2> QED  BY <2>1, <2>3, <2>4
  <1>11. UsedSince(all, m) = UsedSince(all, m + 1) \cup UsedOn(all, m)
    <2>1. \A r \in ToSet(all) : r.used >= m <=> (r.used >= m + 1 \/ r.used = m)
      BY <1>3
    <2> QED  BY <2>1 DEF UsedSince, UsedOn
  <1> QED  BY <1>1, <1>8, <1>9, <1>10, <1>11 DEF u

\* What a save keeps (save_records): records of the refreshed layer; one is left
\* out only if MaxCount others, all used at least as lately, are kept.
LEMMA KeptFacts ==
    ASSUME NEW rs, Layer(rs), NEW d \in Days
    PROVE  /\ Layer(Kept(rs, d))
           /\ ToSet(Kept(rs, d)) \subseteq ToSet(Decay(rs, d))
           /\ \A r \in ToSet(Decay(rs, d)) :
                 \/ r \in ToSet(Kept(rs, d))
                 \/ /\ Len(Kept(rs, d)) = MaxCount
                    /\ \A q \in ToSet(Kept(rs, d)) : q.used >= r.used
  <1> DEFINE live == Decay(rs, d)
             byDay == [k \in 1..(d + 1) |-> Retained(live, UsedOn(live, d + 1 - k))]
             sorted == FlattenSeq(byDay)
             kept == Take(sorted, MaxCount)
  <1>1. Kept(rs, d) = kept
    BY DEF Kept, UsedOn
  <1>2. /\ live \in Seq(Rows) /\ Unique(live) /\ (\A r \in ToSet(live) : r.count > 0)
        /\ \A q \in ToSet(live) : Fresh(q, d)
    BY DecayFacts DEF Layer
  <1> HIDE DEF live
  <1>3. d \in Nat /\ MaxCount \in Nat /\ \A r \in ToSet(live) : r \in Rows /\ r.used \in Nat
    BY <1>2, BoundAssumption, ElementFacts, RowFacts DEF Days
  <1>4. \A k \in 1..(d + 1) : /\ byDay[k] \in Seq(Rows) /\ Unique(byDay[k])
                              /\ ToSet(byDay[k]) = UsedOn(live, d + 1 - k)
    <2>1. SUFFICES ASSUME NEW k \in 1..(d + 1)
                   PROVE  /\ byDay[k] \in Seq(Rows) /\ Unique(byDay[k])
                          /\ ToSet(byDay[k]) = UsedOn(live, d + 1 - k)
      OBVIOUS
    <2> DEFINE keep == UsedOn(live, d + 1 - k)
    <2>2. byDay[k] = Retained(live, keep)
      OBVIOUS
    <2>3. keep \subseteq ToSet(live)
      BY DEF UsedOn
    <2> HIDE DEF keep, byDay
    <2>4. /\ Retained(live, keep) \in Seq(Rows) /\ Unique(Retained(live, keep))
          /\ ToSet(Retained(live, keep)) = ToSet(live) \cap keep
      BY <1>2, RetainedFacts, RetainedUnique
    <2> QED  BY <2>2, <2>3, <2>4 DEF keep
  <1>5. byDay \in Seq(Seq(Rows)) /\ Len(byDay) = d + 1
    <2>1. byDay \in [1..(d + 1) -> Seq(Rows)]
      BY <1>4
    <2> HIDE DEF byDay
    <2> QED  BY <1>3, <2>1
  <1> HIDE DEF byDay
  <1>6. PICK f \in [0..Len(byDay) -> Seq(Rows)] : Flattening(f, byDay)
    BY <1>5, FlattenChain
  <1> DEFINE Since(k) == UsedSince(live, d + 1 - k)
             K == [k \in 0..(d + 1) |->
                     {t \in Seq(Rows) : Unique(t) /\ Sorted(t) /\ ToSet(t) = Since(k)}]
  <1>7. f[0] \in K[0]
    <2>1. /\ f[0] = << >> /\ << >> \in Seq(Rows) /\ ToSet(<< >>) = {}
          /\ Unique(<< >>) /\ Sorted(<< >>)
      BY <1>6 DEF Flattening, Unique, Sorted, ToSet
    <2>2. \A r \in ToSet(live) : ~(r.used >= d + 1 - 0)
      BY <1>2, <1>3 DEF Fresh
    <2>3. Since(0) = {}
      BY <2>2 DEF UsedSince
    <2>4. 0 \in 0..(d + 1)
      BY <1>3
    <2> HIDE DEF Since
    <2> QED  BY <2>1, <2>3, <2>4
  <1>8. ASSUME NEW k \in 1..(d + 1), f[k - 1] \in K[k - 1] PROVE f[k] \in K[k]
    <2> DEFINE m == d + 1 - k
               t == f[k - 1]
               b == byDay[k]
    <2>1. k - 1 \in 0..(d + 1) /\ k \in 0..(d + 1) /\ m \in Int /\ m + 1 = d + 1 - (k - 1)
      BY <1>3
    <2>2. t \in Seq(Rows) /\ Unique(t) /\ Sorted(t) /\ ToSet(t) = Since(k - 1)
      BY <1>8, <2>1
    <2>3. Since(k - 1) = UsedSince(live, m + 1)
      BY <2>1
    <2>4. f[k] = t \o b
      BY <1>5, <1>6 DEF Flattening
    <2>5. /\ b \in Seq(Rows) /\ Unique(b)
          /\ ToSet(b) = UsedOn(live, m)
      BY <1>4
    <2> HIDE DEF t, m, b, Since, K
    <2>6. /\ f[k] \in Seq(Rows) /\ Unique(f[k]) /\ Sorted(f[k])
          /\ ToSet(f[k]) = UsedSince(live, m)
      <3>1. ToSet(t) = UsedSince(live, m + 1)
        BY <2>2, <2>3
      <3>2. /\ t \o b \in Seq(Rows) /\ Unique(t \o b) /\ Sorted(t \o b)
            /\ ToSet(t \o b) = UsedSince(live, m)
        BY <1>2, <2>1, <2>2, <2>5, <3>1, JoinedFacts
      <3> QED  BY <2>4, <3>2
    <2>7. ToSet(f[k]) = Since(k)
      BY <2>6 DEF m, Since
    <2> QED  BY <2>1, <2>6, <2>7 DEF K
  <1>9. f[d + 1] \in K[d + 1]
    <2> HIDE DEF K
    <2>1. d + 1 \in Nat /\ d + 1 \in 0..(d + 1)
      BY <1>3
    <2>2. \A k \in 0..(d + 1) : f[k] \in K[k]
      BY <1>7, <1>8, <2>1, ChainStays
    <2> QED  BY <2>1, <2>2
  <1>10. sorted \in Seq(Rows) /\ Unique(sorted) /\ Sorted(sorted) /\ ToSet(sorted) = ToSet(live)
    <2>1. sorted = f[d + 1] /\ d + 1 \in 0..(d + 1)
      BY <1>3, <1>5, <1>6 DEF Flattening
    <2>2. Since(d + 1) = ToSet(live)
      <3>1. \A r \in ToSet(live) : r.used >= d + 1 - (d + 1)
        BY <1>3
      <3> QED  BY <3>1 DEF UsedSince
    <2> HIDE DEF Since, sorted
    <2> QED  BY <1>9, <2>1, <2>2
  <1> HIDE DEF sorted
  <1>11. /\ kept \in Seq(Rows)
         /\ Len(kept) = IF MaxCount > Len(sorted) THEN Len(sorted) ELSE MaxCount
         /\ \A i \in 1..Len(kept) : kept[i] = sorted[i] /\ i \in 1..Len(sorted)
    BY <1>3, <1>10, TakeFacts
  <1> HIDE DEF kept
  <1>12. /\ DOMAIN kept = 1..Len(kept) /\ DOMAIN sorted = 1..Len(sorted)
         /\ Len(kept) \in Nat /\ Len(sorted) \in Nat
    BY <1>10, <1>11, LenProperties
  <1>13. Unique(kept)
    BY <1>10, <1>11, <1>12 DEF Unique
  <1>14. ToSet(kept) \subseteq ToSet(live)
    <2>1. \A q \in ToSet(kept) : \E i \in 1..Len(kept) : kept[i] = q
      BY <1>11, ElementFacts
    <2>2. \A i \in 1..Len(sorted) : sorted[i] \in ToSet(sorted)
      BY <1>10, ElementFacts
    <2> QED  BY <1>10, <1>11, <2>1, <2>2
  <1>15. ASSUME NEW r \in ToSet(live), r \notin ToSet(kept)
         PROVE  Len(kept) = MaxCount /\ \A q \in ToSet(kept) : q.used >= r.used
    <2>1. PICK j \in 1..Len(sorted) : sorted[j] = r
      BY <1>10, ElementFacts
    <2>2. \A i \in 1..Len(kept) : kept[i] \in ToSet(kept)
      BY <1>11, ElementFacts
    <2>3. j \notin 1..Len(kept)
      BY <1>11, <1>15, <2>1, <2>2
    <2>4. Len(kept) = MaxCount
      BY <1>3, <1>11, <1>12, <2>1, <2>3
    <2>5. \A i \in 1..Len(kept) : i <= j
      BY <1>12, <2>1, <2>3
    <2>6. \A q \in ToSet(kept) : \E i \in 1..Len(kept) : kept[i] = q
      BY <1>11, ElementFacts
    <2> QED  BY <1>10, <1>11, <2>1, <2>4, <2>5, <2>6 DEF Sorted
  <1>16. Layer(kept)
    BY <1>2, <1>11, <1>13, <1>14 DEF Layer
  <1> QED  BY <1>1, <1>14, <1>15, <1>16 DEF live

-----------------------------------------------------------------------------
(* Merging and memorizing                                                  *)

Replaced(rs, i, x) == [rs EXCEPT ![i] = x]

\* A record takes the place of the one of its entry.
LEMMA ReplacedFacts ==
    ASSUME NEW rs, Layer(rs), NEW i \in 1..Len(rs),
           NEW x \in Rows, x.entry = rs[i].entry, x.count > 0
    PROVE  /\ Layer(Replaced(rs, i, x))
           /\ Len(Replaced(rs, i, x)) = Len(rs)
           /\ \A j \in 1..Len(rs) : Replaced(rs, i, x)[j] = IF j = i THEN x ELSE rs[j]
           /\ ToSet(Replaced(rs, i, x)) = (ToSet(rs) \ {rs[i]}) \cup {x}
  <1> DEFINE t == Replaced(rs, i, x)
  <1>1. rs \in Seq(Rows) /\ Unique(rs) /\ \A r \in ToSet(rs) : r.count > 0
    BY DEF Layer
  <1>2. /\ t \in Seq(Rows) /\ Len(t) = Len(rs)
        /\ \A j \in 1..Len(rs) : t[j] = IF j = i THEN x ELSE rs[j]
    BY <1>1, ExceptSeq DEF Replaced
  <1> HIDE DEF t
  <1>3. DOMAIN rs = 1..Len(rs) /\ DOMAIN t = 1..Len(rs)
    BY <1>1, <1>2, LenProperties
  <1>4. \A j \in 1..Len(rs) : t[j].entry = rs[j].entry
    BY <1>2
  <1>5. Unique(t)
    BY <1>1, <1>3, <1>4 DEF Unique
  <1>6. \A j \in 1..Len(rs) : rs[j] \in ToSet(rs) /\ t[j] \in ToSet(t)
    BY <1>1, <1>2, ElementFacts
  <1>7. ToSet(t) \subseteq (ToSet(rs) \ {rs[i]}) \cup {x}
    <2>1. SUFFICES ASSUME NEW y \in ToSet(t), y # x PROVE y \in ToSet(rs) /\ y # rs[i]
      OBVIOUS
    <2>2. PICK j \in 1..Len(rs) : t[j] = y
      BY <1>2, ElementFacts
    <2>3. j # i /\ y = rs[j]
      BY <1>2, <2>1, <2>2
    <2>4. rs[j] # rs[i]
      BY <1>1, <1>3, <2>3 DEF Unique
    <2> QED  BY <1>6, <2>3, <2>4
  <1>8. (ToSet(rs) \ {rs[i]}) \cup {x} \subseteq ToSet(t)
    <2>1. x \in ToSet(t)
      BY <1>2, <1>6
    <2>2. SUFFICES ASSUME NEW y \in ToSet(rs), y # rs[i] PROVE y \in ToSet(t)
      BY <2>1
    <2>3. PICK j \in 1..Len(rs) : rs[j] = y
      BY <1>1, ElementFacts
    <2> QED  BY <1>2, <1>6, <2>2, <2>3
  <1>9. ToSet(t) = (ToSet(rs) \ {rs[i]}) \cup {x}
    BY <1>7, <1>8
  <1>10. Layer(t)
    BY <1>1, <1>2, <1>5, <1>9 DEF Layer
  <1> QED  BY <1>2, <1>9, <1>10 DEF t

\* A record of an entry that has none comes last.
LEMMA AppendedFacts ==
    ASSUME NEW rs, Layer(rs), NEW x \in Rows, x.count > 0,
           \A r \in ToSet(rs) : r.entry # x.entry
    PROVE  /\ Layer(Append(rs, x))
           /\ ToSet(Append(rs, x)) = ToSet(rs) \cup {x}
  <1> DEFINE t == Append(rs, x)
  <1>1. rs \in Seq(Rows) /\ Unique(rs) /\ \A r \in ToSet(rs) : r.count > 0
    BY DEF Layer
  <1>2. /\ t \in Seq(Rows) /\ ToSet(t) = ToSet(rs) \cup {x} /\ Len(t) = Len(rs) + 1
        /\ \A j \in 1..Len(rs) : t[j] = rs[j]
        /\ t[Len(rs) + 1] = x
    BY <1>1, AppendFacts, AppendProperties
  <1> HIDE DEF t
  <1>3. /\ DOMAIN rs = 1..Len(rs) /\ DOMAIN t = 1..Len(t) /\ Len(rs) \in Nat
        /\ \A j \in 1..Len(t) : j \in 1..Len(rs) \/ j = Len(rs) + 1
    BY <1>1, <1>2, LenProperties
  <1>4. \A j \in 1..Len(rs) : t[j].entry # x.entry
    <2>1. \A j \in 1..Len(rs) : rs[j] \in ToSet(rs)
      BY <1>1, ElementFacts
    <2> QED  BY <1>2, <2>1
  <1>5. Unique(t)
    BY <1>1, <1>2, <1>3, <1>4 DEF Unique
  <1>6. Layer(t)
    BY <1>1, <1>2, <1>5 DEF Layer
  <1> QED  BY <1>2, <1>6 DEF t

\* The position of an entry's record.
LEMMA KnownFacts ==
    ASSUME NEW rs, Layer(rs), NEW e
    PROVE  LET known == {i \in DOMAIN rs : rs[i].entry = e}
           IN  /\ known = {} <=> \A r \in ToSet(rs) : r.entry # e
               /\ known # {} => \E i \in 1..Len(rs) : known = {i} /\ rs[i].entry = e
  <1> DEFINE known == {i \in DOMAIN rs : rs[i].entry = e}
  <1>1. /\ rs \in Seq(Rows) /\ Unique(rs) /\ DOMAIN rs = 1..Len(rs)
        /\ \A i \in 1..Len(rs) : rs[i] \in ToSet(rs)
        /\ \A r \in ToSet(rs) : \E i \in 1..Len(rs) : rs[i] = r
    BY LenProperties, ElementFacts DEF Layer
  <1>2. known = {} <=> \A r \in ToSet(rs) : r.entry # e
    BY <1>1
  <1>3. ASSUME known # {} PROVE \E i \in 1..Len(rs) : known = {i} /\ rs[i].entry = e
    <2>1. PICK i \in known : TRUE
      BY <1>3
    <2>2. \A j \in known : j = i
      BY <1>1 DEF Unique
    <2>3. i \in 1..Len(rs) /\ rs[i].entry = e /\ known = {i}
      BY <1>1, <2>1, <2>2
    <2> QED  BY <2>3
  <1> QED  BY <1>2, <1>3

\* The only element of a set is the least one.
LEMMA TheOnly ==
    ASSUME NEW i \in Int
    PROVE  /\ (CHOOSE j \in {i} : \A k \in {i} : j <= k) = i
           /\ (CHOOSE j \in {i} : TRUE) = i
  <1>1. \E j \in {i} : \A k \in {i} : j <= k
    OBVIOUS
  <1>2. (CHOOSE j \in {i} : \A k \in {i} : j <= k) \in {i}
    BY <1>1
  <1>3. (CHOOSE j \in {i} : TRUE) \in {i}
    OBVIOUS
  <1> QED  BY <1>2, <1>3

\* The count of an entry is that of its record, or zero.
LEMMA CountFacts ==
    ASSUME NEW rs, Layer(rs)
    PROVE  /\ \A r \in ToSet(rs) : CountIn(rs, r.entry) = r.count
           /\ \A e : (\A r \in ToSet(rs) : r.entry # e) => CountIn(rs, e) = 0
           /\ \A e : CountIn(rs, e) \in Nat
  <1>1. rs \in Seq(Rows) /\ Unique(rs) /\ ToSet(rs) \in SUBSET Rows
    BY ElementFacts DEF Layer
  <1>2. \A e : (\A r \in ToSet(rs) : r.entry # e) => CountIn(rs, e) = 0
    BY KnownFacts DEF CountIn
  <1>3. ASSUME NEW r \in ToSet(rs) PROVE CountIn(rs, r.entry) = r.count
    <2> DEFINE known == {i \in DOMAIN rs : rs[i].entry = r.entry}
    <2>1. PICK i \in 1..Len(rs) : known = {i} /\ rs[i].entry = r.entry
      <3>1. known # {}
        BY KnownFacts
      <3> QED  BY <3>1, KnownFacts
    <2>2. rs[i] = r
      <3>1. rs[i] \in ToSet(rs)
        BY <1>1, ElementFacts
      <3> QED  BY <1>1, <2>1, <3>1, UniqueFacts
    <2>3. CountIn(rs, r.entry) = rs[CHOOSE j \in known : TRUE].count
      BY <2>1 DEF CountIn
    <2>4. (CHOOSE j \in {i} : TRUE) = i
      BY TheOnly
    <2> HIDE DEF known
    <2> QED  BY <2>1, <2>2, <2>3, <2>4
  <1>4. ASSUME NEW e PROVE CountIn(rs, e) \in Nat
    <2>1. CASE \A r \in ToSet(rs) : r.entry # e
      BY <1>2, <2>1
    <2>2. CASE \E r \in ToSet(rs) : r.entry = e
      BY <1>1, <1>3, <2>2, RowFacts
    <2> QED  BY <2>1, <2>2
  <1> QED  BY <1>2, <1>3, <1>4

\* The smaller and the larger of two numbers.
LEMMA MinMaxFacts ==
    ASSUME NEW a \in Nat, NEW b \in Nat
    PROVE  /\ Min2(a, b) \in {a, b} /\ Min2(a, b) <= a /\ Min2(a, b) <= b
           /\ Max2(a, b) \in {a, b} /\ a <= Max2(a, b) /\ b <= Max2(a, b)
  BY DEF Min2, Max2

Joined(q, r) == [entry |-> r.entry, count |-> Min2(q.count + r.count, CountMax),
                 used |-> Max2(q.used, r.used), updated |-> Max2(q.updated, r.updated)]

\* merge_record: the record of the entry is joined with the new one, or the new
\* one comes last.
LEMMA MergeFacts ==
    ASSUME NEW rs, Layer(rs), NEW r \in Rows, r.count > 0
    PROVE  /\ Layer(Merge(rs, r))
           /\ (\A q \in ToSet(rs) : q.entry # r.entry) => ToSet(Merge(rs, r)) = ToSet(rs) \cup {r}
           /\ \A q \in ToSet(rs) : q.entry = r.entry =>
                 ToSet(Merge(rs, r)) = (ToSet(rs) \ {q}) \cup {Joined(q, r)}
  <1> DEFINE known == {i \in DOMAIN rs : rs[i].entry = r.entry}
             at == CHOOSE i \in known : \A j \in known : i <= j
  <1>1. rs \in Seq(Rows) /\ Unique(rs)
    BY DEF Layer
  <1>2. CASE known = {}
    <2>1. \A q \in ToSet(rs) : q.entry # r.entry
      BY <1>2, KnownFacts
    <2>2. Merge(rs, r) = Append(rs, r)
      BY <1>2 DEF Merge
    <2> QED  BY <2>1, <2>2, AppendedFacts
  <1>3. CASE known # {}
    <2>1. PICK i \in 1..Len(rs) : known = {i} /\ rs[i].entry = r.entry
      BY <1>3, KnownFacts
    <2>2. at = i
      <3> HIDE DEF known
      <3>1. (CHOOSE j \in {i} : \A k \in {i} : j <= k) = i
        BY TheOnly
      <3> QED  BY <2>1, <3>1
    <2>3. rs[i] \in ToSet(rs) /\ rs[i] \in Rows
      BY <1>1, ElementFacts, ElementOfSeq
    <2> DEFINE x == Joined(rs[i], r)
    <2>4. Merge(rs, r) = Replaced(rs, i, x)
      <3>1. Merge(rs, r) = [rs EXCEPT ![at] = Joined(rs[at], r)]
        BY <1>3 DEF Merge, Joined
      <3> HIDE DEF at
      <3> QED  BY <2>2, <3>1 DEF Replaced
    <2>5. x \in Rows /\ x.entry = rs[i].entry /\ x.count > 0
      <3> DEFINE q == rs[i]
      <3>1. /\ r.entry \in Entries /\ CountMax \in Nat \ {0}
            /\ q.count \in Nat /\ r.count \in Nat
            /\ q.used \in Days /\ r.used \in Days /\ q.updated \in Days /\ r.updated \in Days
        BY <2>3, RowFacts, BoundAssumption DEF Rows
      <3>2. Min2(q.count + r.count, CountMax) \in 0..CountMax /\ Min2(q.count + r.count, CountMax) > 0
        BY <3>1 DEF Min2
      <3>3. Max2(q.used, r.used) \in Days /\ Max2(q.updated, r.updated) \in Days
        BY <3>1 DEF Max2
      <3> QED  BY <2>1, <3>1, <3>2, <3>3 DEF Joined, Rows
    <2> HIDE DEF x
    <2>6. Layer(Merge(rs, r)) /\ ToSet(Merge(rs, r)) = (ToSet(rs) \ {rs[i]}) \cup {x}
      BY <2>4, <2>5, ReplacedFacts
    <2>7. \A q \in ToSet(rs) : q.entry = r.entry => q = rs[i]
      <3>1. ASSUME NEW q \in ToSet(rs), q.entry = rs[i].entry PROVE q = rs[i]
        BY <1>1, <2>3, <3>1, UniqueFacts
      <3> QED  BY <2>1, <3>1
    <2> QED  BY <2>1, <2>3, <2>6, <2>7 DEF x
  <1> QED  BY <1>2, <1>3

Merging(f, p, t) ==
    /\ f[0] = p
    /\ \A k \in 1..Len(t) : f[k] = Merge(f[k - 1], t[k])
    /\ f[Len(t)] = Fold(Merge, p, t)

Layers == {rs \in Seq(Rows) : Layer(rs)}

\* Merging the temporary records into the persisted ones as a chain.
LEMMA MergeChain ==
    ASSUME NEW p \in Layers, NEW t \in Layers
    PROVE  \E f \in [0..Len(t) -> Layers] : Merging(f, p, t)
  <1> DEFINE T == {r \in Rows : r.count > 0}
             step == [x \in Layers |-> [r \in T |-> Merge(x, r)]]
             Eq(f) == f = [i \in 0..Len(t) |-> IF i = 0 THEN p ELSE Merge(f[i - 1], t[i])]
             it == CHOOSE f : Eq(f)
  <1>1. /\ t \in Seq(Rows) /\ Len(t) \in Nat /\ \A k \in 1..Len(t) : t[k] \in T
    BY LenProperties, ElementOfSeq, ElementFacts DEF Layers, Layer
  <1>2. t \in Seq(T)
    <2>1. t \in [1..Len(t) -> T]
      BY <1>1, LenProperties
    <2> HIDE DEF T
    <2> QED  BY <1>1, <2>1
  <1>3. \A x \in Layers, r \in T : Merge(x, r) \in Layers /\ step[x][r] = Merge(x, r)
    <2>1. \A x \in Layers, r \in T : Merge(x, r) \in Layers
      BY MergeFacts DEF Layers, Layer
    <2> HIDE DEF T
    <2> QED  BY <2>1
  <1>4. step \in [Layers -> [T -> Layers]]
    <2> HIDE DEF T
    <2> QED  BY <1>3
  <1>5. PICK f \in [0..Len(t) -> Layers] : IsChain(f, step, t, p)
    <2> HIDE DEF step, T
    <2> QED  BY <1>2, <1>4, ChainExists
  <1>6. f[0] = p /\ \A k \in 1..Len(t) : f[k] = Merge(f[k - 1], t[k])
    <2> HIDE DEF step, T
    <2>1. \A k \in 1..Len(t) : k - 1 \in 0..Len(t)
      BY <1>1
    <2>2. \A k \in 1..Len(t) : f[k - 1] \in Layers /\ t[k] \in T
      BY <1>1, <1>5, <2>1
    <2> QED  BY <1>3, <1>5, <2>2 DEF IsChain
  <1>7. Eq(f)
    <2>1. \A i \in 0..Len(t) : f[i] = IF i = 0 THEN p ELSE Merge(f[i - 1], t[i])
      BY <1>1, <1>6
    <2> QED  BY <2>1
  <1>8. Eq(it)
    <2> HIDE DEF Eq
    <2> QED  BY <1>7
  <1>9. Fold(Merge, p, t) = it[Len(t)]
    BY DEF Fold
  <1>10. it[Len(t)] = f[Len(t)]
    <2> DEFINE K == [k \in 0..Len(t) |-> {f[k]}]
    <2> HIDE DEF it
    <2>1. \A i \in 0..Len(t) : it[i] = IF i = 0 THEN p ELSE Merge(it[i - 1], t[i])
      BY <1>8
    <2>2. it[0] \in K[0]
      BY <1>1, <1>6, <2>1
    <2>3. ASSUME NEW k \in 1..Len(t), it[k - 1] \in K[k - 1] PROVE it[k] \in K[k]
      <3>1. k - 1 \in 0..Len(t) /\ k \in 0..Len(t) /\ k # 0
        BY <1>1
      <3> QED  BY <1>6, <2>1, <2>3, <3>1
    <2>4. \A k \in 0..Len(t) : it[k] \in K[k]
      <3> HIDE DEF K
      <3> QED  BY <1>1, <2>2, <2>3, ChainStays
    <2> QED  BY <1>1, <2>4
  <1> QED  BY <1>5, <1>6, <1>9, <1>10 DEF Merging

\* What x is after the first k records of t were merged into p
Among(t, k, e) == \E i \in 1..k : t[i].entry = e
Added(p, t, k, e) == CountIn(p, e) + IF Among(t, k, e) THEN CountIn(t, e) ELSE 0
MergedUpTo(x, p, t, k, d) ==
    /\ \A q \in ToSet(x) : /\ Fresh(q, d)
                           /\ q.count = Min2(CountMax, Added(p, t, k, q.entry))
                           /\ \/ \E r \in ToSet(p) : r.entry = q.entry
                              \/ Among(t, k, q.entry)
    /\ \A r \in ToSet(p) : \E q \in ToSet(x) : q.entry = r.entry /\ q.used >= r.used
    /\ \A i \in 1..k : \E q \in ToSet(x) : q.entry = t[i].entry /\ q.used >= t[i].used

\* One record more.
LEMMA MergeStep ==
    ASSUME NEW p \in Layers, NEW t \in Layers, NEW d \in Days,
           \A r \in ToSet(t) : Fresh(r, d),
           NEW k \in 1..Len(t), NEW x \in Layers, MergedUpTo(x, p, t, k - 1, d)
    PROVE  MergedUpTo(Merge(x, t[k]), p, t, k, d)
  <1> DEFINE r == t[k]
             y == Merge(x, r)
  <1>1. /\ Layer(p) /\ Layer(t) /\ Layer(x) /\ Unique(t) /\ p \in Seq(Rows)
        /\ t \in Seq(Rows) /\ x \in Seq(Rows) /\ DOMAIN t = 1..Len(t) /\ Len(t) \in Nat
    BY LenProperties DEF Layers, Layer
  <1>2. r \in ToSet(t) /\ r \in Rows /\ r.count > 0 /\ Fresh(r, d)
    BY <1>1, ElementFacts DEF Layer
  <1>3. /\ \A i \in 1..k : i \in 1..(k - 1) \/ i = k
        /\ \A i \in 1..(k - 1) : i \in 1..k /\ i # k /\ i \in 1..Len(t)
        /\ k \in 1..k
    BY <1>1
  <1>4. ~Among(t, k - 1, r.entry)
    BY <1>1, <1>3 DEF Among, Unique
  <1>5. \A e : Among(t, k, e) <=> Among(t, k - 1, e) \/ e = r.entry
    BY <1>3 DEF Among
  <1>6. \A e : e # r.entry => Added(p, t, k, e) = Added(p, t, k - 1, e)
    BY <1>5 DEF Added
  <1>7. /\ Added(p, t, k - 1, r.entry) = CountIn(p, r.entry)
        /\ Added(p, t, k, r.entry) = CountIn(p, r.entry) + r.count
    <2>1. CountIn(t, r.entry) = r.count
      BY <1>1, <1>2, CountFacts
    <2>2. CountIn(p, r.entry) \in Nat
      BY <1>1, CountFacts
    <2> QED  BY <1>4, <1>5, <2>1, <2>2 DEF Added
  <1>8. CountIn(p, r.entry) \in Nat /\ CountMax \in Nat /\ r.count \in Nat /\ r.count <= CountMax
    BY <1>1, <1>2, CountFacts, RowFacts, BoundAssumption
  <1>9. /\ Layer(y)
        /\ (\A q \in ToSet(x) : q.entry # r.entry) => ToSet(y) = ToSet(x) \cup {r}
        /\ \A q \in ToSet(x) : q.entry = r.entry =>
              ToSet(y) = (ToSet(x) \ {q}) \cup {Joined(q, r)}
    BY <1>1, <1>2, MergeFacts
  <1> HIDE DEF r, y
  <1>10. CASE \A q \in ToSet(x) : q.entry # r.entry
    <2>1. ToSet(y) = ToSet(x) \cup {r}
      BY <1>9, <1>10
    <2>2. \A q \in ToSet(p) : q.entry # r.entry
      BY <1>10 DEF MergedUpTo
    <2>3. CountIn(p, r.entry) = 0
      BY <1>1, <2>2, CountFacts
    <2>4. r.count = Min2(CountMax, Added(p, t, k, r.entry))
      <3>1. Added(p, t, k, r.entry) = r.count
        BY <1>7, <1>8, <2>3
      <3> QED  BY <1>8, <3>1 DEF Min2
    <2>5. \A q \in ToSet(y) : /\ Fresh(q, d)
                              /\ q.count = Min2(CountMax, Added(p, t, k, q.entry))
                              /\ \/ \E z \in ToSet(p) : z.entry = q.entry
                                 \/ Among(t, k, q.entry)
      BY <1>2, <1>5, <1>6, <1>10, <2>1, <2>4 DEF MergedUpTo
    <2>6. \A z \in ToSet(p) : \E q \in ToSet(y) : q.entry = z.entry /\ q.used >= z.used
      BY <2>1 DEF MergedUpTo
    <2>7. \A i \in 1..k : \E q \in ToSet(y) : q.entry = t[i].entry /\ q.used >= t[i].used
      <3>1. \A i \in 1..(k - 1) : \E q \in ToSet(y) : q.entry = t[i].entry /\ q.used >= t[i].used
        BY <2>1 DEF MergedUpTo
      <3>2. r \in ToSet(y) /\ r.used \in Nat
        BY <1>2, <2>1, RowFacts
      <3>3. \E q \in ToSet(y) : q.entry = t[k].entry /\ q.used >= t[k].used
        BY <3>2 DEF r
      <3> QED  BY <1>3, <3>1, <3>3
    <2> QED  BY <2>5, <2>6, <2>7 DEF MergedUpTo, r, y
  <1>11. CASE \E q \in ToSet(x) : q.entry = r.entry
    <2>1. PICK q \in ToSet(x) : q.entry = r.entry
      BY <1>11
    <2> DEFINE j == Joined(q, r)
    <2>2. ToSet(y) = (ToSet(x) \ {q}) \cup {j}
      BY <1>9, <2>1
    <2>3. q \in Rows /\ Fresh(q, d) /\ q.count = Min2(CountMax, CountIn(p, r.entry))
      BY <1>1, <1>7, <2>1, ElementFacts DEF MergedUpTo
    <2>4. /\ j.entry = r.entry /\ j.count = Min2(q.count + r.count, CountMax)
          /\ j.used = Max2(q.used, r.used) /\ j.updated = Max2(q.updated, r.updated)
      BY DEF Joined
    <2> HIDE DEF j
    <2>5. /\ q.used \in Nat /\ r.used \in Nat /\ q.updated \in Nat /\ r.updated \in Nat
          /\ q.count \in Nat /\ d \in Nat /\ Expiry \in Nat /\ HalfLife \in Nat
      BY <1>2, <2>3, RowFacts, BoundAssumption DEF Days
    <2>6. Fresh(j, d) /\ j.used >= q.used /\ j.used >= r.used
      BY <1>2, <2>3, <2>4, <2>5 DEF Fresh, Max2
    <2>7. j.count = Min2(CountMax, Added(p, t, k, r.entry))
      BY <1>7, <1>8, <2>3, <2>4, <2>5 DEF Min2
    <2>8. \A z \in ToSet(x) \ {q} : z.entry # r.entry
      <3>1. ASSUME NEW z \in ToSet(x), z.entry = q.entry PROVE z = q
        BY <1>1, <3>1, UniqueFacts DEF Layer
      <3> QED  BY <2>1, <3>1
    <2>9. \A z \in ToSet(y) : /\ Fresh(z, d)
                              /\ z.count = Min2(CountMax, Added(p, t, k, z.entry))
                              /\ \/ \E a \in ToSet(p) : a.entry = z.entry
                                 \/ Among(t, k, z.entry)
      <3>1. SUFFICES ASSUME NEW z \in ToSet(y)
                     PROVE  /\ Fresh(z, d)
                            /\ z.count = Min2(CountMax, Added(p, t, k, z.entry))
                            /\ \/ \E a \in ToSet(p) : a.entry = z.entry
                               \/ Among(t, k, z.entry)
        OBVIOUS
      <3>2. CASE z = j
        BY <1>5, <2>4, <2>6, <2>7, <3>2
      <3>3. CASE z \in ToSet(x) \ {q}
        BY <1>5, <1>6, <2>8, <3>3 DEF MergedUpTo
      <3> QED  BY <2>2, <3>2, <3>3
    <2>10. ASSUME NEW a \in Rows, \E z \in ToSet(x) : z.entry = a.entry /\ z.used >= a.used
           PROVE  \E z \in ToSet(y) : z.entry = a.entry /\ z.used >= a.used
      <3>1. PICK z \in ToSet(x) : z.entry = a.entry /\ z.used >= a.used
        BY <2>10
      <3>2. CASE z = q
        <4>1. a.used \in Nat /\ j.used \in Nat
          BY <2>4, <2>5, <2>10, RowFacts DEF Max2
        <4>2. j \in ToSet(y) /\ j.entry = a.entry /\ j.used >= a.used
          BY <2>1, <2>2, <2>4, <2>5, <2>6, <3>1, <3>2, <4>1
        <4> QED  BY <4>2
      <3>3. CASE z # q
        BY <2>2, <3>1, <3>3
      <3> QED  BY <3>2, <3>3
    <2>11. \A a \in ToSet(p) : \E z \in ToSet(y) : z.entry = a.entry /\ z.used >= a.used
      <3>1. \A a \in ToSet(p) : a \in Rows
        BY <1>1, ElementFacts
      <3> QED  BY <2>10, <3>1 DEF MergedUpTo
    <2>12. \A i \in 1..k : \E z \in ToSet(y) : z.entry = t[i].entry /\ z.used >= t[i].used
      <3>1. \A i \in 1..(k - 1) : t[i] \in Rows
        BY <1>1, <1>3, ElementOfSeq
      <3>2. \A i \in 1..(k - 1) : \E z \in ToSet(y) : z.entry = t[i].entry /\ z.used >= t[i].used
        BY <2>10, <3>1 DEF MergedUpTo
      <3>3. j \in ToSet(y)
        BY <2>2
      <3>4. \E z \in ToSet(y) : z.entry = t[k].entry /\ z.used >= t[k].used
        BY <2>4, <2>6, <3>3 DEF r
      <3> QED  BY <1>3, <3>2, <3>4
    <2> QED  BY <2>9, <2>11, <2>12 DEF MergedUpTo, r, y
  <1> QED  BY <1>10, <1>11

\* The merged records: every record of both layers is in, its uses added.
LEMMA MergedFacts ==
    ASSUME NEW p \in Layers, NEW t \in Layers, NEW d \in Days,
           \A r \in ToSet(p) \cup ToSet(t) : Fresh(r, d)
    PROVE  LET m == Fold(Merge, p, t)
           IN  /\ m \in Layers
               /\ \A q \in ToSet(m) :
                     /\ Fresh(q, d)
                     /\ q.count = Min2(CountMax, CountIn(p, q.entry) + CountIn(t, q.entry))
                     /\ \E r \in ToSet(p) \cup ToSet(t) : r.entry = q.entry
               /\ \A r \in ToSet(p) \cup ToSet(t) :
                     \E q \in ToSet(m) : q.entry = r.entry /\ q.used >= r.used
  <1> DEFINE n == Len(t)
             K == [k \in 0..n |-> {x \in Layers : MergedUpTo(x, p, t, k, d)}]
             m == Fold(Merge, p, t)
  <1>1. /\ Layer(p) /\ Layer(t) /\ p \in Seq(Rows) /\ t \in Seq(Rows) /\ n \in Nat
        /\ ToSet(p) \in SUBSET Rows /\ CountMax \in Nat
    BY LenProperties, ElementFacts, BoundAssumption DEF Layers, Layer
  <1>2. PICK f \in [0..n -> Layers] : Merging(f, p, t)
    BY MergeChain
  <1>3. MergedUpTo(p, p, t, 0, d)
    <2>1. \A e : ~Among(t, 0, e)
      BY DEF Among
    <2>2. \A q \in ToSet(p) : Added(p, t, 0, q.entry) = q.count
      <3>1. \A q \in ToSet(p) : CountIn(p, q.entry) = q.count /\ q.count \in Nat
        BY <1>1, CountFacts, RowFacts
      <3> QED  BY <2>1, <3>1 DEF Added
    <2>3. \A q \in ToSet(p) : q.count = Min2(CountMax, Added(p, t, 0, q.entry))
      BY <1>1, <2>2, RowFacts DEF Min2
    <2>4. \A q \in ToSet(p) : q.used >= q.used
      BY <1>1, RowFacts
    <2> QED  BY <2>3, <2>4 DEF MergedUpTo
  <1>4. f[0] \in K[0]
    BY <1>1, <1>2, <1>3 DEF Merging
  <1>5. ASSUME NEW k \in 1..n, f[k - 1] \in K[k - 1] PROVE f[k] \in K[k]
    <2>1. k - 1 \in 0..n /\ k \in 0..n
      BY <1>1
    <2>2. f[k - 1] \in Layers /\ MergedUpTo(f[k - 1], p, t, k - 1, d)
      BY <1>5, <2>1
    <2>3. f[k] = Merge(f[k - 1], t[k]) /\ f[k] \in Layers
      BY <1>2, <2>1 DEF Merging
    <2>4. MergedUpTo(f[k], p, t, k, d)
      BY <2>2, <2>3, MergeStep
    <2> QED  BY <2>1, <2>3, <2>4
  <1>6. m \in Layers /\ MergedUpTo(m, p, t, n, d)
    <2>1. \A k \in 0..n : f[k] \in K[k]
      <3> HIDE DEF K, n
      <3> QED  BY <1>1, <1>4, <1>5, ChainStays
    <2>2. n \in 0..n /\ m = f[n]
      BY <1>1, <1>2 DEF Merging
    <2> HIDE DEF m, n
    <2> QED  BY <2>1, <2>2
  <1> HIDE DEF m
  <1>7. \A e : Among(t, n, e) <=> \E r \in ToSet(t) : r.entry = e
    BY SMTT(30), <1>1, ElementFacts DEF Among
  <1>8. \A e : Added(p, t, n, e) = CountIn(p, e) + CountIn(t, e)
    <2>1. \A e : ~Among(t, n, e) => CountIn(t, e) = 0
      BY <1>1, <1>7, CountFacts
    <2> QED  BY <2>1 DEF Added
  <1>9. \A q \in ToSet(m) :
          /\ Fresh(q, d)
          /\ q.count = Min2(CountMax, CountIn(p, q.entry) + CountIn(t, q.entry))
          /\ \E r \in ToSet(p) \cup ToSet(t) : r.entry = q.entry
    BY <1>6, <1>7, <1>8 DEF MergedUpTo
  <1>10. \A r \in ToSet(p) \cup ToSet(t) :
            \E q \in ToSet(m) : q.entry = r.entry /\ q.used >= r.used
    <2>1. \A r \in ToSet(t) : \E i \in 1..n : t[i] = r
      BY <1>1, ElementFacts
    <2> QED  BY <1>6, <2>1 DEF MergedUpTo
  <1> QED  BY <1>6, <1>9, <1>10 DEF m

-----------------------------------------------------------------------------
(* The temporary layer with its index                                      *)

Stack(layer, x) == [p |-> layer.p, pi |-> layer.pi, t |-> x, ti |-> BuildIndex(x)]

First(e) == [entry |-> e, used |-> clock, updated |-> clock, count |-> 1]
IsValid(e) == ToSet(e) \subseteq Valid

Learned(x, y, e) ==
    \/ ~IsValid(e) /\ y = x
    \/ IsValid(e) /\ (\A q \in ToSet(x) : q.entry # e) /\ ToSet(y) = ToSet(x) \cup {First(e)}
    \/ IsValid(e) /\ \E q \in ToSet(x) : q.entry = e /\ ToSet(y) = (ToSet(x) \ {q}) \cup {UsedAgain(q)}

\* An index has the positions of a reading, and no reading but one changes when a
\* record is added.
LEMMA IndexFacts ==
    ASSUME NEW x \in Layers, NEW y \in Layers
    PROVE  /\ \A e \in Entries : BuildIndex(x)[RubyOf(e)] =
                 {i \in DOMAIN x : RubyOf(x[i].entry) = RubyOf(e)}
           /\ Len(y) = Len(x) /\ (\A i \in 1..Len(x) : y[i].entry = x[i].entry)
                 => BuildIndex(y) = BuildIndex(x)
           /\ \A e \in Entries :
                 /\ Len(y) = Len(x) + 1 /\ y[Len(x) + 1].entry = e
                 /\ \A i \in 1..Len(x) : y[i] = x[i]
                 => BuildIndex(y) =
                      [BuildIndex(x) EXCEPT ![RubyOf(e)] = @ \cup {Len(x) + 1}]
  <1>1. /\ x \in Seq(Rows) /\ y \in Seq(Rows) /\ Len(x) \in Nat
        /\ DOMAIN x = 1..Len(x) /\ DOMAIN y = 1..Len(y)
    BY LenProperties DEF Layers
  <1>2. \A e \in Entries : RubyOf(e) \in Rubies
    BY DEF Rubies
  <1>3. \A e \in Entries : BuildIndex(x)[RubyOf(e)] =
           {i \in DOMAIN x : RubyOf(x[i].entry) = RubyOf(e)}
    BY <1>2 DEF BuildIndex
  <1>4. ASSUME Len(y) = Len(x), \A i \in 1..Len(x) : y[i].entry = x[i].entry
        PROVE  BuildIndex(y) = BuildIndex(x)
    <2>1. \A z : {i \in DOMAIN y : RubyOf(y[i].entry) = z} = {i \in DOMAIN x : RubyOf(x[i].entry) = z}
      BY <1>1, <1>4
    <2> QED  BY <2>1 DEF BuildIndex
  <1>5. ASSUME NEW e \in Entries, Len(y) = Len(x) + 1, y[Len(x) + 1].entry = e,
               \A i \in 1..Len(x) : y[i] = x[i]
        PROVE  BuildIndex(y) = [BuildIndex(x) EXCEPT ![RubyOf(e)] = @ \cup {Len(x) + 1}]
    <2> DEFINE At(s, z) == {i \in DOMAIN s : RubyOf(s[i].entry) = z}
    <2>1. BuildIndex(x) = [z \in Rubies |-> At(x, z)] /\ BuildIndex(y) = [z \in Rubies |-> At(y, z)]
      BY DEF BuildIndex
    <2>2. \A z : At(y, z) = At(x, z) \cup (IF z = RubyOf(e) THEN {Len(x) + 1} ELSE {})
      <3>1. \A i \in 1..Len(y) : i \in 1..Len(x) \/ i = Len(x) + 1
        BY <1>1, <1>5
      <3>2. \A i \in 1..Len(x) : i \in 1..Len(y)
        BY <1>1, <1>5
      <3>3. Len(x) + 1 \in 1..Len(y)
        BY <1>1, <1>5
      <3> QED  BY <1>1, <1>5, <3>1, <3>2, <3>3
    <2> DEFINE more == [z \in Rubies |-> IF z = RubyOf(e) THEN At(x, z) \cup {Len(x) + 1}
                                         ELSE At(x, z)]
    <2>3. BuildIndex(y) = more
      <3> HIDE DEF At
      <3>1. \A z : At(y, z) = IF z = RubyOf(e) THEN At(x, z) \cup {Len(x) + 1} ELSE At(x, z)
        BY <2>2
      <3> QED  BY <2>1, <3>1
    <2>4. [BuildIndex(x) EXCEPT ![RubyOf(e)] = @ \cup {Len(x) + 1}] = more
      <3> HIDE DEF At
      <3> QED  BY <1>2, <2>1
    <2> QED  BY <2>3, <2>4
  <1> QED  BY <1>3, <1>4, <1>5

\* memorize: an entry that is not valid changes nothing, a new one gets its first
\* record and a known one a use more, and the index of the layer follows.
LEMMA MemorizeFacts ==
    ASSUME NEW layer, NEW x \in Layers, NEW e \in Entries, clock \in Days
    PROVE  \E y \in Layers : Memorize(Stack(layer, x), e) = Stack(layer, y) /\ Learned(x, y, e)
  <1> DEFINE L == Stack(layer, x)
             known == {i \in L.ti[RubyOf(e)] : i \in DOMAIN L.t /\ L.t[i].entry = e}
             mine == {i \in DOMAIN x : x[i].entry = e}
             at == CHOOSE i \in known : \A j \in known : i <= j
  <1>1. L.p = layer.p /\ L.pi = layer.pi /\ L.t = x /\ L.ti = BuildIndex(x)
    BY DEF Stack
  <1>2. Layer(x) /\ x \in Seq(Rows) /\ Len(x) \in Nat /\ \A i \in 1..Len(x) : x[i] \in Rows
    BY LenProperties, ElementOfSeq DEF Layers
  <1>3. known = mine
    <2>1. BuildIndex(x)[RubyOf(e)] = {i \in DOMAIN x : RubyOf(x[i].entry) = RubyOf(e)}
      BY IndexFacts
    <2> HIDE DEF L
    <2> QED  BY <1>1, <2>1
  <1>4. CASE ~IsValid(e)
    <2>1. Memorize(L, e) = L
      BY <1>4 DEF Memorize, IsValid
    <2> QED  BY <1>4, <2>1 DEF Learned
  <1>5. CASE IsValid(e) /\ known = {}
    <2> DEFINE y == Append(x, First(e))
    <2>1. \A q \in ToSet(x) : q.entry # e
      BY <1>2, <1>3, <1>5, KnownFacts
    <2>2. First(e) \in Rows /\ First(e).count > 0 /\ First(e).entry = e
      BY BoundAssumption DEF First, Rows
    <2>3. Layer(y) /\ ToSet(y) = ToSet(x) \cup {First(e)}
      BY <1>2, <2>1, <2>2, AppendedFacts
    <2>4. /\ y \in Layers /\ Len(y) = Len(x) + 1 /\ y[Len(x) + 1].entry = e
          /\ \A i \in 1..Len(x) : y[i] = x[i]
      BY <1>2, <2>2, <2>3, AppendProperties DEF Layers, Layer
    <2>5. Memorize(L, e) = [L EXCEPT !.t = y, !.ti[RubyOf(e)] = @ \cup {Len(x) + 1}]
      BY <1>1, <1>5 DEF Memorize, IsValid, First
    <2> HIDE DEF y
    <2>6. BuildIndex(y) = [BuildIndex(x) EXCEPT ![RubyOf(e)] = @ \cup {Len(x) + 1}]
      BY <2>4, IndexFacts
    <2>7. Memorize(L, e) = Stack(layer, y)
      BY <2>5, <2>6 DEF Stack
    <2> QED  BY <1>5, <2>1, <2>3, <2>4, <2>7 DEF Learned
  <1>6. CASE IsValid(e) /\ known # {}
    <2>1. PICK i \in 1..Len(x) : known = {i} /\ x[i].entry = e
      BY <1>2, <1>3, <1>6, KnownFacts
    <2>2. at = i
      <3> HIDE DEF known
      <3>1. (CHOOSE j \in {i} : \A k \in {i} : j <= k) = i
        BY TheOnly
      <3> QED  BY <2>1, <3>1
    <2> DEFINE q == x[i]
               y == Replaced(x, i, UsedAgain(q))
    <2>3. q \in Rows /\ q \in ToSet(x) /\ q.count \in Nat /\ CountMax \in Nat \ {0}
      BY <1>2, ElementFacts, RowFacts, BoundAssumption
    <2>4. UsedAgain(q) \in Rows /\ UsedAgain(q).entry = q.entry /\ UsedAgain(q).count > 0
      <3> DEFINE n == Min2(q.count + 1, CountMax)
      <3>1. n \in 0..CountMax /\ n > 0
        BY <2>3 DEF Min2
      <3>2. UsedAgain(q) = [[q EXCEPT !.count = n] EXCEPT !.used = clock]
        BY <2>3 DEF UsedAgain, Rows
      <3> HIDE DEF n, q
      <3> QED  BY <2>3, <3>1, <3>2 DEF Rows
    <2>5. /\ Layer(y) /\ Len(y) = Len(x)
          /\ \A j \in 1..Len(x) : y[j] = IF j = i THEN UsedAgain(q) ELSE x[j]
          /\ ToSet(y) = (ToSet(x) \ {q}) \cup {UsedAgain(q)}
      BY <1>2, <2>4, ReplacedFacts
    <2>6. Memorize(L, e) = [L EXCEPT !.t = y]
      <3>1. Memorize(L, e) = [L EXCEPT !.t[at] = UsedAgain(L.t[at])]
        BY <1>6 DEF Memorize, IsValid
      <3> HIDE DEF at, L, known
      <3>2. Memorize(L, e) = [L EXCEPT !.t[i] = UsedAgain(x[i])]
        BY <1>1, <2>2, <3>1
      <3>3. [L EXCEPT !.t[i] = UsedAgain(x[i])] = [L EXCEPT !.t = [x EXCEPT ![i] = UsedAgain(x[i])]]
        BY <1>1
      <3> QED  BY <3>2, <3>3 DEF Replaced
    <2> HIDE DEF y
    <2>7. y \in Layers /\ BuildIndex(y) = BuildIndex(x)
      <3>1. y \in Layers /\ \A j \in 1..Len(x) : y[j].entry = x[j].entry
        BY <2>4, <2>5 DEF Layers, Layer
      <3> QED  BY <2>5, <3>1, IndexFacts
    <2>8. Memorize(L, e) = Stack(layer, y)
      BY <2>6, <2>7 DEF Stack
    <2> QED  BY <1>6, <2>1, <2>3, <2>5, <2>7, <2>8 DEF Learned
  <1> QED  BY <1>4, <1>5, <1>6

Stacks(layer) == {Stack(layer, x) : x \in Layers}

Memorizing(f, base, s) ==
    /\ f[0] = base
    /\ \A k \in 1..Len(s) : f[k] = Memorize(f[k - 1], s[k])
    /\ f[Len(s)] = Fold(Memorize, base, s)

\* Learning a candidate's entries, one after the other, as a chain.
LEMMA MemorizeChain ==
    ASSUME NEW layer, NEW base \in Stacks(layer), NEW s \in Seq(Entries), clock \in Days
    PROVE  \E f \in [0..Len(s) -> Stacks(layer)] : Memorizing(f, base, s)
  <1> DEFINE S == Stacks(layer)
             step == [x \in S |-> [e \in Entries |-> Memorize(x, e)]]
             Eq(f) == f = [i \in 0..Len(s) |-> IF i = 0 THEN base ELSE Memorize(f[i - 1], s[i])]
             it == CHOOSE f : Eq(f)
  <1>1. Len(s) \in Nat /\ \A k \in 1..Len(s) : s[k] \in Entries
    BY LenProperties, ElementOfSeq
  <1>2. \A x \in S, e \in Entries : Memorize(x, e) \in S /\ step[x][e] = Memorize(x, e)
    <2>1. \A x \in S, e \in Entries : Memorize(x, e) \in S
      <3>1. SUFFICES ASSUME NEW x \in S, NEW e \in Entries PROVE Memorize(x, e) \in S
        OBVIOUS
      <3>2. PICK u \in Layers : x = Stack(layer, u)
        BY DEF Stacks
      <3>3. PICK y \in Layers : Memorize(x, e) = Stack(layer, y)
        BY <3>2, MemorizeFacts
      <3> QED  BY <3>3 DEF Stacks
    <2> HIDE DEF S
    <2> QED  BY <2>1
  <1> HIDE DEF S
  <1>3. step \in [S -> [Entries -> S]]
    BY <1>2
  <1>4. PICK f \in [0..Len(s) -> S] : IsChain(f, step, s, base)
    <2>1. base \in S
      BY DEF S
    <2> HIDE DEF step
    <2> QED  BY <1>3, <2>1, ChainExists
  <1>5. f[0] = base /\ \A k \in 1..Len(s) : f[k] = Memorize(f[k - 1], s[k])
    <2> HIDE DEF step
    <2>1. \A k \in 1..Len(s) : k - 1 \in 0..Len(s)
      BY <1>1
    <2>2. \A k \in 1..Len(s) : f[k - 1] \in S /\ s[k] \in Entries
      BY <1>1, <1>4, <2>1
    <2> QED  BY <1>2, <1>4, <2>2 DEF IsChain
  <1>6. Eq(f)
    <2>1. \A i \in 0..Len(s) : f[i] = IF i = 0 THEN base ELSE Memorize(f[i - 1], s[i])
      BY <1>1, <1>5
    <2> QED  BY <2>1
  <1>7. Eq(it)
    <2> HIDE DEF Eq
    <2> QED  BY <1>6
  <1>8. Fold(Memorize, base, s) = it[Len(s)]
    BY DEF Fold
  <1>9. it[Len(s)] = f[Len(s)]
    <2> DEFINE K == [k \in 0..Len(s) |-> {f[k]}]
    <2> HIDE DEF it
    <2>1. \A i \in 0..Len(s) : it[i] = IF i = 0 THEN base ELSE Memorize(it[i - 1], s[i])
      BY <1>7
    <2>2. it[0] \in K[0]
      BY <1>1, <1>5, <2>1
    <2>3. ASSUME NEW k \in 1..Len(s), it[k - 1] \in K[k - 1] PROVE it[k] \in K[k]
      <3>1. k - 1 \in 0..Len(s) /\ k \in 0..Len(s) /\ k # 0
        BY <1>1
      <3> QED  BY <1>5, <2>1, <2>3, <3>1
    <2>4. \A k \in 0..Len(s) : it[k] \in K[k]
      <3> HIDE DEF K
      <3> QED  BY <1>1, <2>2, <2>3, ChainStays
    <2> QED  BY <1>1, <2>4
  <1> QED  BY <1>4, <1>5, <1>8, <1>9 DEF Memorizing, S

\* How often the first k lessons teach e
Times(s, k, e) == IF IsValid(e) THEN Cardinality({i \in 1..k : s[i] = e}) ELSE 0

\* One lesson more.
LEMMA TimesFacts ==
    ASSUME NEW s, NEW k \in Nat \ {0}, NEW e
    PROVE  /\ Times(s, k - 1, e) \in Nat /\ Times(s, k, e) \in Nat
           /\ Times(s, k - 1, e) <= Times(s, k, e)
           /\ IsValid(e) /\ s[k] = e => Times(s, k, e) = Times(s, k - 1, e) + 1
  <1> DEFINE A == {i \in 1..(k - 1) : s[i] = e}
             B == {i \in 1..k : s[i] = e}
  <1>1. IsFiniteSet(1..(k - 1)) /\ IsFiniteSet(1..k)
    BY FS_Interval
  <1>2. IsFiniteSet(A) /\ IsFiniteSet(B)
    BY <1>1, FS_Subset
  <1>3. Cardinality(A) \in Nat /\ Cardinality(B) \in Nat
    BY <1>2, FS_CardinalityType
  <1>4. Cardinality(A) <= Cardinality(B)
    <2>1. A \in SUBSET B
      OBVIOUS
    <2> HIDE DEF A, B
    <2> QED  BY <1>2, <2>1, FS_Subset
  <1>5. s[k] = e => Cardinality(B) = Cardinality(A) + 1
    <2>1. k \notin A /\ (s[k] = e => B = A \cup {k})
      OBVIOUS
    <2> HIDE DEF A, B
    <2> QED  BY <1>2, <2>1, FS_AddElement
  <1> QED  BY <1>3, <1>4, <1>5 DEF Times

\* What x is after the first k lessons of s were memorized over b
TaughtUpTo(x, b, s, k) ==
    \A q \in ToSet(x) :
        /\ Fresh(q, clock)
        /\ q.count <= CountIn(b, q.entry) + Times(s, k, q.entry)
        /\ \/ \E r \in ToSet(b) : r.entry = q.entry
           \/ IsValid(q.entry) /\ \E i \in 1..k : s[i] = q.entry

\* One lesson more adds at most one use, of its own entry.
LEMMA MemorizeStep ==
    ASSUME clock \in Days, NEW b \in Layers, NEW s \in Seq(Entries), NEW k \in 1..Len(s),
           NEW x \in Layers, NEW y \in Layers, TaughtUpTo(x, b, s, k - 1), Learned(x, y, s[k])
    PROVE  TaughtUpTo(y, b, s, k)
  <1> DEFINE e == s[k]
  <1>1. /\ Len(s) \in Nat /\ k \in Nat \ {0} /\ k \in 1..k /\ \A i \in 1..(k - 1) : i \in 1..k
    BY LenProperties
  <1>2. /\ Layer(b) /\ Layer(x) /\ x \in Seq(Rows) /\ ToSet(x) \in SUBSET Rows
        /\ clock \in Nat /\ Expiry \in Nat \ {0} /\ HalfLife \in Nat \ {0} /\ CountMax \in Nat \ {0}
    BY ElementFacts, BoundAssumption DEF Layers, Layer, Days
  <1>3. \A z : CountIn(b, z) \in Nat
    BY <1>2, CountFacts
  <1>4. ASSUME NEW q \in ToSet(x)
        PROVE  /\ Fresh(q, clock) /\ q.count \in Nat
               /\ q.count <= CountIn(b, q.entry) + Times(s, k, q.entry)
               /\ \/ \E r \in ToSet(b) : r.entry = q.entry
                  \/ IsValid(q.entry) /\ \E i \in 1..k : s[i] = q.entry
    <2>1. q.count \in Nat /\ q.count <= CountIn(b, q.entry) + Times(s, k - 1, q.entry)
      BY <1>2, RowFacts DEF TaughtUpTo
    <2>2. /\ Times(s, k - 1, q.entry) \in Nat /\ Times(s, k, q.entry) \in Nat
          /\ Times(s, k - 1, q.entry) <= Times(s, k, q.entry)
      BY <1>1, TimesFacts
    <2>3. q.count <= CountIn(b, q.entry) + Times(s, k, q.entry)
      BY <1>3, <2>1, <2>2
    <2> QED  BY <1>1, <2>1, <2>3 DEF TaughtUpTo
  <1>5. CASE y = x
    BY <1>4, <1>5 DEF TaughtUpTo
  <1>6. CASE /\ IsValid(e) /\ \A q \in ToSet(x) : q.entry # e
             /\ ToSet(y) = ToSet(x) \cup {First(e)}
    <2> DEFINE q == First(e)
    <2>1. q.entry = e /\ q.used = clock /\ q.updated = clock /\ q.count = 1
      BY DEF First
    <2> HIDE DEF q
    <2>2. Fresh(q, clock)
      BY <1>2, <2>1 DEF Fresh
    <2>3. q.count <= CountIn(b, e) + Times(s, k, e)
      <3>1. Times(s, k - 1, e) \in Nat /\ Times(s, k, e) = Times(s, k - 1, e) + 1
        BY <1>1, <1>6, TimesFacts
      <3> QED  BY <1>3, <2>1, <3>1
    <2>4. \A z \in ToSet(y) : z \in ToSet(x) \/ z = q
      BY <1>6 DEF q
    <2> HIDE DEF e
    <2>5. IsValid(e) /\ \E i \in 1..k : s[i] = e
      BY <1>1, <1>6 DEF e
    <2> QED  BY <1>4, <2>1, <2>2, <2>3, <2>4, <2>5 DEF TaughtUpTo
  <1>7. ASSUME NEW q \in ToSet(x), IsValid(e), q.entry = e,
               ToSet(y) = (ToSet(x) \ {q}) \cup {UsedAgain(q)}
        PROVE  TaughtUpTo(y, b, s, k)
    <2> DEFINE z == UsedAgain(q)
    <2>1. q \in Rows /\ q.count \in Nat
      BY <1>2, RowFacts
    <2>2. /\ z.entry = q.entry /\ z.used = clock /\ z.updated = q.updated
          /\ z.count = Min2(q.count + 1, CountMax)
      BY <2>1 DEF UsedAgain, Rows
    <2> HIDE DEF z
    <2>3. Fresh(z, clock)
      BY <1>2, <1>4, <2>2 DEF Fresh
    <2>4. z.count <= CountIn(b, z.entry) + Times(s, k, z.entry)
      <3>1. Times(s, k - 1, e) \in Nat /\ Times(s, k, e) = Times(s, k - 1, e) + 1
        BY <1>1, <1>7, TimesFacts
      <3>2. q.count <= CountIn(b, e) + Times(s, k - 1, e)
        BY <1>7 DEF TaughtUpTo
      <3>3. z.count <= q.count + 1
        BY <1>2, <2>1, <2>2 DEF Min2
      <3>4. z.count \in Nat
        BY <1>2, <2>1, <2>2 DEF Min2
      <3>5. z.count <= CountIn(b, e) + Times(s, k, e)
        BY <1>3, <2>1, <3>1, <3>2, <3>3, <3>4
      <3> QED  BY <1>7, <2>2, <3>5
    <2>5. \A w \in ToSet(y) : w \in ToSet(x) \/ w = z
      BY <1>7 DEF z
    <2>6. IsValid(z.entry) /\ \E i \in 1..k : s[i] = z.entry
      BY <1>1, <1>7, <2>2
    <2> QED  BY <1>4, <2>3, <2>4, <2>5, <2>6 DEF TaughtUpTo
  <1> QED  BY <1>5, <1>6, <1>7 DEF Learned

\* What learn makes of the temporary layer: fresh records, each of an entry that
\* was there or was taught, counting no more uses than before and taught.
LEMMA TaughtFacts ==
    ASSUME clock \in Days, NEW layer, NEW b \in Layers, NEW s \in Seq(Entries),
           \A r \in ToSet(b) : Fresh(r, clock)
    PROVE  \E y \in Layers : /\ Fold(Memorize, Stack(layer, b), s) = Stack(layer, y)
                             /\ TaughtUpTo(y, b, s, Len(s))
  <1> DEFINE n == Len(s)
             Good(k) == {x \in Layers : TaughtUpTo(x, b, s, k)}
             K == [k \in 0..n |-> {Stack(layer, x) : x \in Good(k)}]
             base == Stack(layer, b)
  <1>1. n \in Nat /\ \A k \in 1..n : s[k] \in Entries
    BY LenProperties, ElementOfSeq
  <1>2. PICK f \in [0..n -> Stacks(layer)] : Memorizing(f, base, s)
    <2>1. base \in Stacks(layer)
      BY DEF Stacks
    <2> HIDE DEF base
    <2> QED  BY <2>1, MemorizeChain
  <1>3. b \in Good(0)
    <2>1. Layer(b) /\ ToSet(b) \in SUBSET Rows
      BY ElementFacts DEF Layers, Layer
    <2>2. \A q \in ToSet(b) : q.count \in Nat /\ CountIn(b, q.entry) = q.count
      BY <2>1, CountFacts, RowFacts
    <2>3. \A e : Times(s, 0, e) = 0
      <3>1. \A e : {i \in 1..0 : s[i] = e} = {}
        OBVIOUS
      <3> QED  BY <3>1, FS_EmptySet DEF Times
    <2> QED  BY <2>2, <2>3 DEF TaughtUpTo
  <1>4. f[0] \in K[0]
    <2> HIDE DEF Good
    <2> QED  BY <1>1, <1>2, <1>3 DEF Memorizing
  <1>5. ASSUME NEW k \in 1..n, f[k - 1] \in K[k - 1] PROVE f[k] \in K[k]
    <2>1. k - 1 \in 0..n /\ k \in 0..n
      BY <1>1
    <2>2. PICK x \in Good(k - 1) : f[k - 1] = Stack(layer, x)
      <3> HIDE DEF Good
      <3> QED  BY <1>5, <2>1
    <2>3. f[k] = Memorize(Stack(layer, x), s[k])
      BY <1>2, <2>2 DEF Memorizing
    <2>4. PICK y \in Layers : f[k] = Stack(layer, y) /\ Learned(x, y, s[k])
      BY <1>1, <2>2, <2>3, MemorizeFacts
    <2>5. y \in Good(k)
      BY <2>2, <2>4, MemorizeStep
    <2> HIDE DEF Good
    <2> QED  BY <2>1, <2>4, <2>5
  <1>6. \A k \in 0..n : f[k] \in K[k]
    <2> HIDE DEF K, n
    <2> QED  BY <1>1, <1>4, <1>5, ChainStays
  <1>7. n \in 0..n /\ f[n] = Fold(Memorize, base, s)
    BY <1>1, <1>2 DEF Memorizing
  <1>8. PICK y \in Good(n) : f[n] = Stack(layer, y)
    <2> HIDE DEF Good, n
    <2> QED  BY <1>6, <1>7
  <1> QED  BY <1>7, <1>8

-----------------------------------------------------------------------------
(* What a candidate teaches                                                *)

\* A part of a candidate is an entry.
LEMMA PartFacts ==
    ASSUME NEW c \in Candidates, NEW i \in 1..Len(c), NEW j \in i..Len(c)
    PROVE  SubSeq(c, i, j) \in Entries
  <1>1. c \in Seq(Words) /\ DOMAIN c = 1..Len(c) /\ Len(c) \in Nat /\ j \in 1..Len(c)
    BY WordAssumption, LenProperties
  <1>2. \A k \in i..j : c[k] \in Words
    BY <1>1, ElementOfSeq
  <1>3. SubSeq(c, i, j) \in Seq(Words) /\ Len(SubSeq(c, i, j)) = j - i + 1
    BY <1>1, <1>2, SubSeqProperties
  <1>4. SubSeq(c, i, j) # << >>
    <2>1. Len(<< >>) = 0 /\ j - i + 1 # 0
      BY <1>1
    <2> QED  BY <1>3, <2>1
  <1> DEFINE Parts(d) == {SubSeq(d, a, b) : a, b \in DOMAIN d}
  <1>5. SubSeq(c, i, j) \in Parts(c)
    BY <1>1
  <1>6. Entries = (UNION {Parts(d) : d \in Candidates}) \ {<< >>}
    BY DEF Entries
  <1> HIDE DEF Parts
  <1>7. SubSeq(c, i, j) \in UNION {Parts(d) : d \in Candidates}
    BY <1>5
  <1> QED  BY <1>4, <1>6, <1>7

\* A word of a candidate, alone, and the whole of it are entries.
LEMMA WordAndWhole ==
    ASSUME NEW c \in Candidates
    PROVE  /\ \A i \in 1..Len(c) : <<c[i]>> \in Entries
           /\ c \in Entries
  <1>1. c \in Seq(Words) /\ c # << >> /\ Len(c) \in Nat
    BY WordAssumption, LenProperties
  <1>2. Len(c) \in 1..Len(c) /\ 1 \in 1..Len(c)
    BY <1>1, EmptySeq
  <1>3. SubSeq(c, 1, Len(c)) = c
    BY <1>1, SubSeqFull
  <1>4. c \in Entries
    BY <1>1, <1>2, <1>3, PartFacts
  <1>5. ASSUME NEW i \in 1..Len(c) PROVE <<c[i]>> \in Entries
    <2>1. i \in i..Len(c) /\ c[i] \in Words
      BY <1>1, ElementOfSeq
    <2>2. SubSeq(c, i, i) \in Entries
      BY <2>1, PartFacts
    <2>3. /\ SubSeq(c, i, i) \in Seq(Words) /\ Len(SubSeq(c, i, i)) = 1
          /\ SubSeq(c, i, i)[1] = c[i]
      <3>1. \A k \in i..i : c[k] \in Words
        BY <2>1
      <3>2. /\ SubSeq(c, i, i) \in Seq(Words)
            /\ Len(SubSeq(c, i, i)) = IF i <= i THEN i - i + 1 ELSE 0
            /\ \A k \in 1..i - i + 1 : SubSeq(c, i, i)[k] = c[i + k - 1]
        BY <3>1, SubSeqProperties
      <3> QED  BY <3>2
    <2>4. <<c[i]>> \in Seq(Words) /\ Len(<<c[i]>>) = 1 /\ <<c[i]>>[1] = c[i]
      BY <2>1
    <2>5. <<c[i]>> = SubSeq(c, i, i)
      BY <2>3, <2>4, SeqEqual
    <2> QED  BY <2>2, <2>5
  <1> QED  BY <1>4, <1>5

\* The end of the next clause is in the candidate, after the clause's start.
LEMMA ClauseEndFacts ==
    ASSUME NEW c \in Candidates, NEW i \in 1..Len(c), NextClauseEnd(c, i) # 0
    PROVE  NextClauseEnd(c, i) \in i..Len(c)
  <1> DEFINE later == {j \in ClauseStarts(c) : j > i}
             IsSecond(j) == j \in later /\ \A k \in later : j <= k
             second == CHOOSE j \in later : \A k \in later : j <= k
             third == {j \in later : j > second}
             last == CHOOSE j \in third : \A k \in third : j <= k
  <1>1. Len(c) \in Nat /\ DOMAIN c = 1..Len(c)
    BY WordAssumption, LenProperties
  <1>2. later \in SUBSET Nat /\ \A j \in later : j \in 1..Len(c) /\ j > i
    BY <1>1 DEF ClauseStarts
  <1>3. NextClauseEnd(c, i) = IF later = {} THEN 0 ELSE IF third = {} THEN Len(c) ELSE last - 1
    BY DEF NextClauseEnd
  <1> HIDE DEF later
  <1>4. later # {}
    BY <1>3
  <1>5. second \in later
    <2>1. \E j \in later : \A k \in later : j <= k
      BY <1>2, <1>4, LeastNumber
    <2> QED  BY <2>1
  <1> HIDE DEF second
  <1>6. CASE third = {}
    BY <1>1, <1>3, <1>4, <1>6
  <1>7. CASE third # {}
    <2>1. third \in SUBSET Nat
      BY <1>2
    <2>2. \A j \in third : j \in later /\ j > second
      OBVIOUS
    <2> HIDE DEF third
    <2>3. \E j \in third : \A k \in third : j <= k
      BY <1>7, <2>1, LeastNumber
    <2>4. last \in third
      BY <2>3
    <2> HIDE DEF last
    <2>5. NextClauseEnd(c, i) = last - 1
      BY <1>3, <1>4, <1>7
    <2>6. last \in 1..Len(c) /\ last > second /\ second > i /\ second \in 1..Len(c)
      BY <1>2, <1>5, <2>2, <2>4
    <2>7. last - 1 \in i..Len(c)
      BY <1>1, <2>6
    <2> QED  BY <2>5, <2>7
  <1> QED  BY <1>6, <1>7

\* All that is memorized for a candidate are entries (learn, learn_post_prediction).
LEMMA LessonFacts ==
    ASSUME NEW c \in Candidates, NEW start \in 0..(Len(c) - 1)
    PROVE  Lessons(c, start) \in Seq(Entries)
  <1> DEFINE part == SubSeq(c, start + 1, Len(c))
             mine == {w \in Words : <<w>> \in Entries}
             words == Retained(part, Content)
             singles == [i \in DOMAIN words |-> <<words[i]>>]
             join(i) == IF ClauseStart(c, i) /\ NextClauseEnd(c, i) > start
                          THEN <<SubSeq(c, i, NextClauseEnd(c, i))>> ELSE << >>
             joins == [i \in 1..Len(c) |-> join(i)]
             whole == IF Len(c) > 1 THEN <<c>> ELSE << >>
  <1>1. c \in Seq(Words) /\ Len(c) \in Nat /\ start \in Nat
    BY WordAssumption, LenProperties
  <1>2. Lessons(c, start) = singles \o ClausePairs(c, start) \o whole
    BY DEF Lessons
  <1>3. ClausePairs(c, start) = FlattenSeq(joins)
    BY DEF ClausePairs
  <1>4. singles \in Seq(Entries)
    <2>1. \A k \in start + 1..Len(c) : c[k] \in mine
      BY <1>1, ElementOfSeq, WordAndWhole
    <2> HIDE DEF mine
    <2>2. part \in Seq(mine)
      BY <1>1, <2>1, SubSeqProperties
    <2> HIDE DEF part
    <2>3. words \in Seq(mine)
      BY <2>2, RetainedFacts
    <2> HIDE DEF words
    <2>4. DOMAIN words = 1..Len(words) /\ Len(words) \in Nat /\ \A k \in 1..Len(words) : words[k] \in mine
      BY <2>3, LenProperties, ElementOfSeq
    <2>5. \A k \in 1..Len(words) : <<words[k]>> \in Entries
      BY <2>4 DEF mine
    <2>6. singles \in [1..Len(words) -> Entries]
      BY <2>4, <2>5
    <2> HIDE DEF singles
    <2> QED  BY <2>4, <2>6
  <1>5. FlattenSeq(joins) \in Seq(Entries)
    <2>1. ASSUME NEW i \in 1..Len(c) PROVE join(i) \in Seq(Entries)
      <3>1. CASE ClauseStart(c, i) /\ NextClauseEnd(c, i) > start
        <4>1. NextClauseEnd(c, i) # 0
          BY <1>1, <3>1
        <4>2. SubSeq(c, i, NextClauseEnd(c, i)) \in Entries
          BY <4>1, ClauseEndFacts, PartFacts
        <4> HIDE DEF join
        <4>3. join(i) = <<SubSeq(c, i, NextClauseEnd(c, i))>>
          BY <3>1 DEF join
        <4> QED  BY <4>2, <4>3
      <3>2. CASE ~(ClauseStart(c, i) /\ NextClauseEnd(c, i) > start)
        BY <3>2
      <3> QED  BY <3>1, <3>2
    <2> HIDE DEF join
    <2>2. joins \in [1..Len(c) -> Seq(Entries)]
      BY <2>1
    <2> HIDE DEF joins
    <2>3. joins \in Seq(Seq(Entries)) /\ Len(joins) = Len(c)
      BY <1>1, <2>2
    <2>4. PICK f \in [0..Len(joins) -> Seq(Entries)] : Flattening(f, joins)
      BY <2>3, FlattenChain
    <2> QED  BY <1>1, <2>3, <2>4 DEF Flattening
  <1>6. whole \in Seq(Entries)
    BY WordAndWhole
  <1> HIDE DEF singles, joins, whole
  <1>7. singles \o FlattenSeq(joins) \in Seq(Entries)
    BY <1>4, <1>5, ConcatProperties
  <1>8. (singles \o FlattenSeq(joins)) \o whole \in Seq(Entries)
    BY <1>6, <1>7, ConcatProperties
  <1> QED  BY <1>2, <1>3, <1>8

-----------------------------------------------------------------------------
(* The invariant                                                           *)

\* Both layers, with their indexes, as the refresh of a day leaves them
Held(p, pi, t, ti, day) ==
    /\ p \in Layers /\ t \in Layers
    /\ pi = BuildIndex(p) /\ ti = BuildIndex(t)
    /\ \A r \in ToSet(p) \cup ToSet(t) : Fresh(r, day)

\* No layer and no file counts a use that was not taught, or has a forgotten entry
Backed(p, t, s, uses, gone) ==
    /\ \A e \in Entries : /\ CountIn(p, e) + CountIn(t, e) <= uses[e]
                          /\ CountIn(s, e) <= uses[e]
    /\ \A r \in ToSet(p) \cup ToSet(t) \cup ToSet(s) : r.entry \notin gone

MemoryInv ==
    /\ clock \in Days /\ today \in Days
    /\ Held(persisted, persistedIndex, temporary, temporaryIndex, today)
    /\ stored \in Layers
    /\ taught \in [Entries -> Nat]
    /\ Backed(persisted, temporary, stored, taught, forgotten)

\* Every record of y goes back to one of x with no smaller count
From(y, x) == \A q \in ToSet(y) : Inherits(q, x)

\* Records that go back to others are of their entries and count no more.
LEMMA FromFacts ==
    ASSUME NEW x \in Layers, NEW y \in Layers, From(y, x)
    PROVE  /\ \A e : CountIn(y, e) <= CountIn(x, e)
           /\ \A q \in ToSet(y) : \E r \in ToSet(x) : r.entry = q.entry
  <1>1. Layer(x) /\ Layer(y) /\ ToSet(x) \in SUBSET Rows /\ ToSet(y) \in SUBSET Rows
    BY ElementFacts DEF Layers, Layer
  <1>2. ASSUME NEW e PROVE CountIn(y, e) <= CountIn(x, e)
    <2>1. CountIn(x, e) \in Nat
      BY <1>1, CountFacts
    <2>2. CASE \A q \in ToSet(y) : q.entry # e
      BY <1>1, <2>1, <2>2, CountFacts
    <2>3. CASE \E q \in ToSet(y) : q.entry = e
      <3>1. PICK q \in ToSet(y) : q.entry = e
        BY <2>3
      <3>2. PICK r \in ToSet(x) : r.entry = e /\ q.count <= r.count
        BY <3>1 DEF From, Inherits
      <3>3. CountIn(y, e) = q.count
        BY <1>1, <3>1, CountFacts
      <3>4. CountIn(x, e) = r.count
        BY <1>1, <3>2, CountFacts
      <3> QED  BY <3>2, <3>3, <3>4
    <2> QED  BY <2>2, <2>3
  <1> QED  BY <1>2 DEF From, Inherits

\* Some of the records go back to themselves.
LEMMA FromPart ==
    ASSUME NEW x \in Layers, NEW y, ToSet(y) \subseteq ToSet(x)
    PROVE  From(y, x)
  <1>1. \A q \in ToSet(x) : q \in Rows /\ q.count \in Nat
    BY ElementFacts, RowFacts DEF Layers
  <1> QED  BY <1>1 DEF From, Inherits

\* Going back twice is going back.
LEMMA FromTrans ==
    ASSUME NEW x \in Layers, NEW y \in Layers, NEW z \in Layers, From(y, x), From(z, y)
    PROVE  From(z, x)
  <1>1. SUFFICES ASSUME NEW q \in ToSet(z) PROVE Inherits(q, x)
    BY DEF From
  <1>2. PICK r \in ToSet(y) : r.entry = q.entry /\ q.count <= r.count
    BY DEF From, Inherits
  <1>3. PICK w \in ToSet(x) : w.entry = r.entry /\ r.count <= w.count
    BY DEF From, Inherits
  <1>4. q.count \in Nat /\ r.count \in Nat /\ w.count \in Nat
    BY ElementFacts, RowFacts DEF Layers
  <1> QED  BY <1>2, <1>3, <1>4 DEF Inherits

\* A layer of which some records are retained.
LEMMA RetainedLayer ==
    ASSUME NEW x \in Layers, NEW keep
    PROVE  /\ Retained(x, keep) \in Layers
           /\ ToSet(Retained(x, keep)) = ToSet(x) \cap keep
           /\ From(Retained(x, keep), x)
  <1>1. x \in Seq(Rows) /\ Unique(x) /\ \A r \in ToSet(x) : r.count > 0
    BY DEF Layers, Layer
  <1>2. /\ Retained(x, keep) \in Seq(Rows) /\ ToSet(Retained(x, keep)) = ToSet(x) \cap keep
        /\ Unique(Retained(x, keep))
    BY <1>1, RetainedFacts, RetainedUnique
  <1>3. Retained(x, keep) \in Layers
    BY <1>1, <1>2 DEF Layers, Layer
  <1> QED  BY <1>2, <1>3, FromPart

\* A layer after a refresh, and what a save keeps of one.
LEMMA AgedLayer ==
    ASSUME NEW x \in Layers, NEW d \in Days
    PROVE  /\ Decay(x, d) \in Layers /\ From(Decay(x, d), x)
           /\ Kept(x, d) \in Layers /\ From(Kept(x, d), x)
           /\ \A r \in ToSet(Decay(x, d)) \cup ToSet(Kept(x, d)) : Fresh(r, d)
  <1>1. Layer(x)
    BY DEF Layers
  <1>2. Decay(x, d) \in Layers /\ From(Decay(x, d), x) /\ \A r \in ToSet(Decay(x, d)) : Fresh(r, d)
    BY <1>1, DecayFacts DEF Layers, Layer, From
  <1>3. Kept(x, d) \in Layers /\ ToSet(Kept(x, d)) \subseteq ToSet(Decay(x, d))
    BY <1>1, KeptFacts DEF Layers, Layer
  <1>4. From(Kept(x, d), x)
    BY <1>2, <1>3 DEF From
  <1> QED  BY <1>2, <1>3, <1>4

\* An empty layer.
LEMMA NoRecords ==
    /\ << >> \in Layers /\ ToSet(<< >>) = {}
    /\ \A e : CountIn(<< >>, e) = 0
  <1>1. << >> \in Seq(Rows) /\ ToSet(<< >>) = {} /\ Unique(<< >>)
    BY DEF ToSet, Unique
  <1>2. << >> \in Layers
    BY <1>1 DEF Layers, Layer
  <1> QED  BY <1>1, <1>2, CountFacts DEF Layers

\* Records that go back to those of before stay backed, the files too when they
\* hold what the persisted layer came from.
LEMMA BackedFrom ==
    ASSUME MemoryInv, NEW p \in Layers, NEW t \in Layers, NEW s \in Layers,
           From(p, persisted), From(t, temporary),
           From(s, stored) \/ From(s, persisted)
    PROVE  Backed(p, t, s, taught, forgotten)
  <1>1. persisted \in Layers /\ temporary \in Layers /\ stored \in Layers
    BY DEF MemoryInv, Held
  <1>2. ASSUME NEW e \in Entries
        PROVE  CountIn(p, e) + CountIn(t, e) <= taught[e] /\ CountIn(s, e) <= taught[e]
    <2>1. /\ CountIn(p, e) \in Nat /\ CountIn(t, e) \in Nat /\ CountIn(s, e) \in Nat
          /\ CountIn(persisted, e) \in Nat /\ CountIn(temporary, e) \in Nat
          /\ CountIn(stored, e) \in Nat /\ taught[e] \in Nat
      BY <1>1, CountFacts DEF Layers, MemoryInv
    <2>2. CountIn(p, e) <= CountIn(persisted, e) /\ CountIn(t, e) <= CountIn(temporary, e)
      BY <1>1, FromFacts
    <2>3. CountIn(s, e) <= CountIn(stored, e) \/ CountIn(s, e) <= CountIn(persisted, e)
      BY <1>1, FromFacts
    <2>4. /\ CountIn(persisted, e) + CountIn(temporary, e) <= taught[e]
          /\ CountIn(stored, e) <= taught[e]
      BY DEF MemoryInv, Backed
    <2> QED  BY <2>1, <2>2, <2>3, <2>4
  <1>3. ASSUME NEW r \in ToSet(p) \cup ToSet(t) \cup ToSet(s) PROVE r.entry \notin forgotten
    <2>1. \E q \in ToSet(persisted) \cup ToSet(temporary) \cup ToSet(stored) : q.entry = r.entry
      BY <1>1, FromFacts
    <2> QED  BY <2>1 DEF MemoryInv, Backed
  <1> QED  BY <1>2, <1>3 DEF Backed

-----------------------------------------------------------------------------
(* The operations                                                          *)

\* The layers an operation works on
IsRefreshed(L) ==
    /\ L = Stack(L, L.t)
    /\ Held(L.p, L.pi, L.t, L.ti, clock)
    /\ From(L.p, persisted) /\ From(L.t, temporary)
    /\ clock = today => L.p = persisted /\ L.t = temporary

\* A refresh leaves fresh layers with their indexes (refresh_day).
LEMMA RefreshedFacts ==
    ASSUME MemoryInv
    PROVE  IsRefreshed(Refreshed)
  <1>1. /\ clock \in Days /\ persisted \in Layers /\ temporary \in Layers
        /\ Held(persisted, persistedIndex, temporary, temporaryIndex, today)
    BY DEF MemoryInv, Held
  <1>2. CASE clock = today
    <2> DEFINE L == [p |-> persisted, pi |-> persistedIndex, t |-> temporary, ti |-> temporaryIndex]
    <2>1. Refreshed = L
      BY <1>2 DEF Refreshed
    <2>2. L = Stack(L, L.t)
      BY <1>1 DEF Stack, Held
    <2>3. From(persisted, persisted) /\ From(temporary, temporary)
      BY <1>1, FromPart
    <2>4. L.p = persisted /\ L.pi = persistedIndex /\ L.t = temporary /\ L.ti = temporaryIndex
      OBVIOUS
    <2> HIDE DEF L
    <2> QED  BY <1>1, <1>2, <2>1, <2>2, <2>3, <2>4 DEF IsRefreshed
  <1>3. CASE clock # today
    <2> DEFINE p == Decay(persisted, clock)
               t == Decay(temporary, clock)
               L == [p |-> p, pi |-> BuildIndex(p), t |-> t, ti |-> BuildIndex(t)]
    <2>1. Refreshed = L
      BY <1>3 DEF Refreshed
    <2>2. /\ p \in Layers /\ t \in Layers /\ From(p, persisted) /\ From(t, temporary)
          /\ \A r \in ToSet(p) \cup ToSet(t) : Fresh(r, clock)
      BY <1>1, AgedLayer
    <2> HIDE DEF p, t
    <2>3. L = Stack(L, L.t)
      BY DEF Stack
    <2>4. L.p = p /\ L.pi = BuildIndex(p) /\ L.t = t /\ L.ti = BuildIndex(t)
      OBVIOUS
    <2> HIDE DEF L
    <2> QED  BY <1>3, <2>1, <2>2, <2>3, <2>4 DEF IsRefreshed, Held
  <1> QED  BY <1>2, <1>3

\* The empty memory the daemon first opens.
LEMMA InitMemory ==
    Init => MemoryInv
  <1> HAVE Init
  <1>1. clock \in Days /\ today \in Days
    BY BoundAssumption DEF Init, Days
  <1>2. Held(persisted, persistedIndex, temporary, temporaryIndex, today) /\ stored \in Layers
    BY NoRecords DEF Init, Held
  <1>3. taught \in [Entries -> Nat]
    BY DEF Init
  <1>4. Backed(persisted, temporary, stored, taught, forgotten)
    <2>1. persisted = << >> /\ temporary = << >> /\ stored = << >> /\ \A e \in Entries : taught[e] = 0
      BY DEF Init
    <2> QED  BY <2>1, NoRecords DEF Backed
  <1> QED  BY <1>1, <1>2, <1>3, <1>4 DEF MemoryInv

\* The clock alone changes no record.
LEMMA TickMemory ==
    ASSUME MemoryInv, NEW d \in Days, Tick(d)
    PROVE  MemoryInv'
  <1>1. /\ clock' \in Days /\ today' = today /\ persisted' = persisted /\ temporary' = temporary
        /\ persistedIndex' = persistedIndex /\ temporaryIndex' = temporaryIndex
        /\ stored' = stored /\ taught' = taught /\ forgotten' = forgotten
    BY DEF Tick
  <1>2. Held(persisted, persistedIndex, temporary, temporaryIndex, today)'
    BY <1>1 DEF MemoryInv, Held
  <1>3. Backed(persisted, temporary, stored, taught, forgotten)'
    BY <1>1 DEF MemoryInv, Backed
  <1> QED  BY <1>1, <1>2, <1>3 DEF MemoryInv

\* An operation that leaves each layer with records of before: what it must show
\* is the layers and the files it ends with.
LEMMA StillHeld ==
    ASSUME MemoryInv, NEW p, NEW t, NEW s \in Layers, NEW uses \in [Entries -> Nat], NEW gone,
           Held(p, BuildIndex(p), t, BuildIndex(t), clock),
           Backed(p, t, s, uses, gone),
           today' = clock, clock' = clock,
           persisted' = p, persistedIndex' = BuildIndex(p),
           temporary' = t, temporaryIndex' = BuildIndex(t),
           stored' = s, taught' = uses, forgotten' = gone
    PROVE  MemoryInv'
  <1>1. clock' \in Days /\ today' \in Days /\ stored' \in Layers /\ taught' \in [Entries -> Nat]
    BY DEF MemoryInv
  <1>2. Held(persisted, persistedIndex, temporary, temporaryIndex, today)'
    BY DEF Held
  <1>3. Backed(persisted, temporary, stored, taught, forgotten)'
    BY DEF Backed
  <1> QED  BY <1>1, <1>2, <1>3 DEF MemoryInv

\* A lookup keeps the refreshed layers (lock, refresh_day).
LEMMA ReadMemory ==
    ASSUME MemoryInv, Read
    PROVE  MemoryInv'
  <1> DEFINE L == Refreshed
  <1>1. IsRefreshed(L)
    BY RefreshedFacts
  <1>2. /\ today' = clock /\ clock' = clock /\ stored' = stored /\ taught' = taught
        /\ forgotten' = forgotten /\ persisted' = L.p /\ persistedIndex' = L.pi
        /\ temporary' = L.t /\ temporaryIndex' = L.ti
    BY DEF Read, Keep, KeepTemporary
  <1> HIDE DEF L
  <1>3. /\ Held(L.p, L.pi, L.t, L.ti, clock) /\ L.pi = BuildIndex(L.p) /\ L.ti = BuildIndex(L.t)
        /\ L.p \in Layers /\ L.t \in Layers
    BY <1>1 DEF IsRefreshed, Held
  <1>4. stored \in Layers /\ taught \in [Entries -> Nat]
    BY DEF MemoryInv
  <1>5. Backed(L.p, L.t, stored, taught, forgotten)
    <2>1. From(stored, stored)
      BY <1>4, FromPart
    <2> QED  BY <1>1, <1>3, <1>4, <2>1, BackedFrom DEF IsRefreshed
  <1> QED  BY <1>2, <1>3, <1>4, <1>5, StillHeld

\* A reset leaves nothing in memory, and in the files nothing or all of it.
LEMMA ResetMemory ==
    ASSUME MemoryInv, Reset
    PROVE  MemoryInv'
  <1>1. /\ today' = clock /\ clock' = clock /\ taught' = taught /\ forgotten' = forgotten
        /\ persisted' = << >> /\ persistedIndex' = BuildIndex(<< >>)
        /\ temporary' = << >> /\ temporaryIndex' = BuildIndex(<< >>)
        /\ stored' = << >> \/ stored' = stored
    BY DEF Reset, Persist, NoTemporary
  <1>2. << >> \in Layers /\ stored \in Layers /\ taught \in [Entries -> Nat]
    BY NoRecords DEF MemoryInv
  <1>3. Held(<< >>, BuildIndex(<< >>), << >>, BuildIndex(<< >>), clock)
    BY NoRecords DEF Held
  <1>4. \A x : From(<< >>, x)
    BY NoRecords DEF From
  <1>5. From(stored, stored)
    BY <1>2, FromPart
  <1>6. /\ Backed(<< >>, << >>, << >>, taught, forgotten)
        /\ Backed(<< >>, << >>, stored, taught, forgotten)
    BY <1>2, <1>4, <1>5, BackedFrom
  <1>7. CASE stored' = << >>
    BY <1>1, <1>2, <1>3, <1>6, <1>7, StillHeld
  <1>8. CASE stored' = stored
    BY <1>1, <1>2, <1>3, <1>6, <1>8, StillHeld
  <1> QED  BY <1>1, <1>7, <1>8

\* Forgetting leaves no record of the candidate's words in either layer, and the
\* save writes what the persisted layer keeps (forget, save_records).
LEMMA ForgetMemory ==
    ASSUME MemoryInv, NEW c \in Candidates, Forget(c)
    PROVE  MemoryInv'
  <1> DEFINE L == Refreshed
             t == Unforgotten(L, c)
             left == Remaining(L, c)
             p == Kept(left, clock)
             gone == {<<c[i]>> : i \in DOMAIN c}
  <1>1. IsRefreshed(L)
    BY RefreshedFacts
  <1>2. /\ today' = clock /\ clock' = clock /\ taught' = taught
        /\ temporary' = t /\ temporaryIndex' = BuildIndex(t)
        /\ \/ /\ persisted' = p /\ persistedIndex' = BuildIndex(p) /\ stored' = p
              /\ forgotten' = forgotten \cup gone
           \/ /\ persisted' = L.p /\ persistedIndex' = L.pi /\ stored' \in {stored, p}
              /\ forgotten' = forgotten
    BY DEF Forget, Persist, Keep
  <1> HIDE DEF L
  <1>3. /\ L.pi = BuildIndex(L.p) /\ L.p \in Layers /\ L.t \in Layers
        /\ From(L.p, persisted) /\ From(L.t, temporary)
        /\ \A r \in ToSet(L.p) \cup ToSet(L.t) : Fresh(r, clock)
    BY <1>1 DEF IsRefreshed, Held
  <1>4. /\ persisted \in Layers /\ temporary \in Layers /\ stored \in Layers /\ clock \in Days
        /\ taught \in [Entries -> Nat]
    BY DEF MemoryInv, Held
  <1> DEFINE other == {r \in ToSet(L.t) : \A i \in DOMAIN c :
                 <<RubyOf(r.entry), SurfaceOf(r.entry)>> # <<RubyOf(<<c[i]>>), SurfaceOf(<<c[i]>>)>>}
             same == {r \in ToSet(L.p) : \A i \in DOMAIN c : SurfaceOf(r.entry) # SurfaceOf(<<c[i]>>)}
  <1>5. t = Retained(L.t, other) /\ left = Retained(L.p, same)
    BY DEF Unforgotten, Remaining
  <1>6. /\ \A r \in other : r.entry \notin gone
        /\ \A r \in same : r.entry \notin gone
    OBVIOUS
  <1> HIDE DEF other, same, gone, t, left
  <1>7. t \in Layers /\ ToSet(t) = ToSet(L.t) \cap other /\ From(t, L.t)
    BY <1>3, <1>5, RetainedLayer
  <1>8. left \in Layers /\ ToSet(left) = ToSet(L.p) \cap same /\ From(left, L.p)
    BY <1>3, <1>5, RetainedLayer
  <1>9. p \in Layers /\ From(p, left) /\ \A r \in ToSet(p) : Fresh(r, clock)
    BY <1>4, <1>8, AgedLayer
  <1> HIDE DEF p
  <1>10. From(p, persisted) /\ From(t, temporary) /\ From(stored, stored)
    <2>1. From(p, L.p)
      BY <1>3, <1>8, <1>9, FromTrans
    <2> QED  BY <1>3, <1>4, <1>7, <1>9, <2>1, FromTrans, FromPart
  <1>11. /\ Backed(p, t, p, taught, forgotten)
         /\ Backed(L.p, t, p, taught, forgotten)
         /\ Backed(L.p, t, stored, taught, forgotten)
    BY <1>3, <1>4, <1>7, <1>9, <1>10, BackedFrom
  <1>12. \A r \in ToSet(p) \cup ToSet(t) : r.entry \notin gone
    BY <1>6, <1>7, <1>8, <1>9, FromFacts
  <1>13. Backed(p, t, p, taught, forgotten \cup gone)
    BY <1>11, <1>12 DEF Backed
  <1>14. /\ Held(p, BuildIndex(p), t, BuildIndex(t), clock)
         /\ Held(L.p, BuildIndex(L.p), t, BuildIndex(t), clock)
    BY <1>3, <1>7, <1>9 DEF Held
  <1>15. CASE /\ persisted' = p /\ persistedIndex' = BuildIndex(p) /\ stored' = p
              /\ forgotten' = forgotten \cup gone
    BY <1>2, <1>4, <1>9, <1>13, <1>14, <1>15, StillHeld
  <1>16. CASE /\ persisted' = L.p /\ persistedIndex' = L.pi /\ stored' \in {stored, p}
              /\ forgotten' = forgotten
    <2>1. CASE stored' = p
      BY <1>2, <1>3, <1>4, <1>9, <1>11, <1>14, <1>16, <2>1, StillHeld
    <2>2. CASE stored' = stored
      BY <1>2, <1>3, <1>4, <1>9, <1>11, <1>14, <1>16, <2>2, StillHeld
    <2> QED  BY <1>16, <2>1, <2>2
  <1> QED  BY <1>2, <1>15, <1>16

\* Learning adds to the temporary layer no more uses than it teaches (learn,
\* learn_post_prediction).
LEMMA LearnMemory ==
    ASSUME MemoryInv, NEW c \in Candidates, NEW start \in 0..(Len(c) - 1), Learn(c, start)
    PROVE  MemoryInv'
  <1> DEFINE L == Refreshed
             s == Lessons(c, start)
             layer == Fold(Memorize, L, s)
             valid == {e \in ToSet(s) : ToSet(e) \subseteq Valid}
             times(e) == Cardinality({i \in DOMAIN s : s[i] = e})
             uses == [e \in Entries |-> taught[e] + IF e \in valid THEN times(e) ELSE 0]
             n == Len(s)
  <1>1. IsRefreshed(L)
    BY RefreshedFacts
  <1>2. /\ today' = clock /\ clock' = clock /\ stored' = stored
        /\ persisted' = layer.p /\ persistedIndex' = layer.pi
        /\ temporary' = layer.t /\ temporaryIndex' = layer.ti
        /\ taught' = uses /\ forgotten' = forgotten \ valid
    BY DEF Learn, Keep, KeepTemporary
  <1>3. s \in Seq(Entries)
    BY LessonFacts
  <1> HIDE DEF L, s
  <1>4. /\ L = Stack(L, L.t) /\ L.pi = BuildIndex(L.p) /\ L.p \in Layers /\ L.t \in Layers
        /\ From(L.p, persisted) /\ From(L.t, temporary)
        /\ \A r \in ToSet(L.p) \cup ToSet(L.t) : Fresh(r, clock)
    BY <1>1 DEF IsRefreshed, Held
  <1>5. stored \in Layers /\ clock \in Days /\ taught \in [Entries -> Nat]
    BY DEF MemoryInv
  <1>6. PICK y \in Layers : /\ Fold(Memorize, Stack(L, L.t), s) = Stack(L, y)
                            /\ TaughtUpTo(y, L.t, s, Len(s))
    BY <1>3, <1>4, <1>5, TaughtFacts
  <1>7. layer = Stack(L, y)
    BY <1>4, <1>6
  <1> HIDE DEF layer
  <1>8. layer.p = L.p /\ layer.pi = L.pi /\ layer.t = y /\ layer.ti = BuildIndex(y)
    BY <1>7 DEF Stack
  <1>9. /\ n \in Nat /\ DOMAIN s = 1..n
        /\ \A x \in ToSet(s) : \E i \in 1..n : s[i] = x
        /\ \A i \in 1..n : s[i] \in ToSet(s)
    BY <1>3, LenProperties, ElementFacts
  <1>10. ASSUME NEW e \in Entries
         PROVE  /\ Times(s, n, e) \in Nat
                /\ uses[e] = taught[e] + Times(s, n, e)
    <2>1. n + 1 \in Nat \ {0} /\ (n + 1) - 1 = n
      BY <1>9
    <2>2. Times(s, n, e) \in Nat
      <3> HIDE DEF n
      <3>1. Times(s, (n + 1) - 1, e) \in Nat
        BY <2>1, TimesFacts
      <3> QED  BY <2>1, <3>1
    <2>3. CASE e \in valid
      <3>1. IsValid(e) /\ uses[e] = taught[e] + times(e)
        BY <2>3 DEF IsValid
      <3>2. Times(s, n, e) = times(e)
        BY <1>9, <3>1 DEF Times
      <3> HIDE DEF uses, times, n
      <3> QED  BY <2>2, <3>1, <3>2
    <2>4. CASE e \notin valid
      <3>1. uses[e] = taught[e] + 0
        BY <2>4
      <3>2. Times(s, n, e) = 0
        <4>1. CASE ~IsValid(e)
          BY <4>1 DEF Times
        <4>2. CASE IsValid(e)
          <5>1. e \notin ToSet(s)
            BY <2>4, <4>2 DEF IsValid
          <5>2. {i \in 1..n : s[i] = e} = {}
            BY <1>9, <5>1
          <5> HIDE DEF n
          <5> QED  BY <4>2, <5>2, FS_EmptySet DEF Times
        <4> QED  BY <4>1, <4>2
      <3> HIDE DEF uses, n
      <3> QED  BY <2>2, <3>1, <3>2
    <2> QED  BY <2>2, <2>3, <2>4
  <1>11. \A e \in Entries : taught[e] \in Nat
    BY <1>5
  <1>12. uses \in [Entries -> Nat]
    <2>1. uses = [e \in Entries |-> uses[e]]
      OBVIOUS
    <2> HIDE DEF uses, n
    <2>2. \A e \in Entries : uses[e] \in Nat
      BY <1>10, <1>11
    <2> QED  BY <2>1, <2>2
  <1> HIDE DEF uses
  <1>13. From(stored, stored)
    BY <1>5, FromPart
  <1>14. Backed(L.p, L.t, stored, taught, forgotten)
    BY <1>4, <1>5, <1>13, BackedFrom
  <1>15. Layer(y) /\ Layer(L.p) /\ Layer(L.t) /\ Layer(stored)
    BY <1>4, <1>5, <1>6 DEF Layers
  <1>16. \A e : /\ CountIn(y, e) \in Nat /\ CountIn(L.p, e) \in Nat
                /\ CountIn(L.t, e) \in Nat /\ CountIn(stored, e) \in Nat
    BY <1>15, CountFacts
  <1>17. ASSUME NEW e \in Entries
         PROVE  CountIn(L.p, e) + CountIn(y, e) <= uses[e] /\ CountIn(stored, e) <= uses[e]
    <2>1. CountIn(y, e) <= CountIn(L.t, e) + Times(s, n, e)
      <3>1. CASE \A q \in ToSet(y) : q.entry # e
        <4>1. CountIn(y, e) = 0
          BY <1>15, <3>1, CountFacts
        <4> HIDE DEF n
        <4> QED  BY <1>10, <1>16, <4>1
      <3>2. CASE \E q \in ToSet(y) : q.entry = e
        <4>1. PICK q \in ToSet(y) : q.entry = e
          BY <3>2
        <4>2. CountIn(y, e) = q.count
          BY <1>15, <4>1, CountFacts
        <4> QED  BY <1>6, <4>1, <4>2 DEF TaughtUpTo
      <3> QED  BY <3>1, <3>2
    <2>2. CountIn(L.p, e) + CountIn(L.t, e) <= taught[e] /\ CountIn(stored, e) <= taught[e]
      BY <1>14 DEF Backed
    <2>3. /\ CountIn(y, e) \in Nat /\ CountIn(L.p, e) \in Nat /\ CountIn(L.t, e) \in Nat
          /\ CountIn(stored, e) \in Nat /\ taught[e] \in Nat /\ Times(s, n, e) \in Nat
          /\ uses[e] = taught[e] + Times(s, n, e)
      BY <1>10, <1>11, <1>16
    <2> HIDE DEF n
    <2>4. \A a, b, d, u, k, z \in Nat : b <= d + k /\ a + d <= u /\ z <= u
             => a + b <= u + k /\ z <= u + k
      OBVIOUS
    <2> QED  BY <2>1, <2>2, <2>3, <2>4
  <1>18. ASSUME NEW r \in ToSet(L.p) \cup ToSet(y) \cup ToSet(stored)
         PROVE  r.entry \notin forgotten \ valid
    <2>1. CASE r \in ToSet(L.p) \cup ToSet(stored)
      BY <1>14, <2>1 DEF Backed
    <2>2. CASE r \in ToSet(y)
      <3>1. CASE \E q \in ToSet(L.t) : q.entry = r.entry
        BY <1>14, <3>1 DEF Backed
      <3>2. CASE IsValid(r.entry) /\ \E i \in 1..n : s[i] = r.entry
        BY <1>9, <3>2 DEF IsValid
      <3> QED  BY <1>6, <2>2, <3>1, <3>2 DEF TaughtUpTo
    <2> QED  BY <2>1, <2>2
  <1> HIDE DEF valid
  <1>19. Backed(L.p, y, stored, uses, forgotten \ valid)
    BY <1>17, <1>18 DEF Backed
  <1>20. Held(L.p, BuildIndex(L.p), y, BuildIndex(y), clock)
    <2>1. \A r \in ToSet(y) : Fresh(r, clock)
      BY <1>6 DEF TaughtUpTo
    <2> QED  BY <1>4, <1>6, <2>1 DEF Held
  <1> QED  BY <1>2, <1>4, <1>5, <1>8, <1>12, <1>19, <1>20, StillHeld

\* What a commit would write
Merged(L) == Kept(Fold(Merge, L.p, L.t), clock)

\* It counts what both layers count, and has their entries (merge_record,
\* save_records).
LEMMA MergedBacked ==
    ASSUME MemoryInv, NEW L, IsRefreshed(L)
    PROVE  /\ Merged(L) \in Layers
           /\ \A r \in ToSet(Merged(L)) : Fresh(r, clock)
           /\ \A e \in Entries : CountIn(Merged(L), e) <= taught[e]
           /\ \A r \in ToSet(Merged(L)) : r.entry \notin forgotten
  <1> DEFINE m == Fold(Merge, L.p, L.t)
             p == Merged(L)
  <1>1. /\ L.p \in Layers /\ L.t \in Layers /\ From(L.p, persisted) /\ From(L.t, temporary)
        /\ \A r \in ToSet(L.p) \cup ToSet(L.t) : Fresh(r, clock)
    BY DEF IsRefreshed, Held
  <1>2. stored \in Layers /\ clock \in Days /\ taught \in [Entries -> Nat] /\ CountMax \in Nat
    BY BoundAssumption DEF MemoryInv
  <1>3. Backed(L.p, L.t, stored, taught, forgotten)
    <2>1. From(stored, stored)
      BY <1>2, FromPart
    <2> QED  BY <1>1, <1>2, <2>1, BackedFrom
  <1>4. /\ m \in Layers
        /\ \A q \in ToSet(m) :
              /\ q.count = Min2(CountMax, CountIn(L.p, q.entry) + CountIn(L.t, q.entry))
              /\ \E r \in ToSet(L.p) \cup ToSet(L.t) : r.entry = q.entry
    BY <1>1, <1>2, MergedFacts
  <1>5. p = Kept(m, clock)
    BY DEF Merged
  <1> HIDE DEF m, p
  <1>6. p \in Layers /\ From(p, m) /\ \A r \in ToSet(p) : Fresh(r, clock)
    BY <1>2, <1>4, <1>5, AgedLayer
  <1>7. Layer(L.p) /\ Layer(L.t) /\ Layer(m) /\ Layer(p)
    BY <1>1, <1>4, <1>6 DEF Layers
  <1>8. ASSUME NEW e \in Entries PROVE CountIn(p, e) <= taught[e]
    <2>1. CountIn(p, e) <= CountIn(m, e)
      BY <1>4, <1>6, FromFacts
    <2>2. /\ CountIn(p, e) \in Nat /\ CountIn(m, e) \in Nat /\ taught[e] \in Nat
          /\ CountIn(L.p, e) \in Nat /\ CountIn(L.t, e) \in Nat
      BY <1>2, <1>7, CountFacts
    <2>3. CountIn(L.p, e) + CountIn(L.t, e) <= taught[e]
      BY <1>3 DEF Backed
    <2>4. CountIn(m, e) <= CountIn(L.p, e) + CountIn(L.t, e)
      <3>1. CASE \A q \in ToSet(m) : q.entry # e
        <4>1. CountIn(m, e) = 0
          BY <1>7, <3>1, CountFacts
        <4> QED  BY <2>2, <4>1
      <3>2. CASE \E q \in ToSet(m) : q.entry = e
        <4>1. PICK q \in ToSet(m) : q.entry = e
          BY <3>2
        <4>2. CountIn(m, e) = q.count
          BY <1>7, <4>1, CountFacts
        <4>3. CountIn(m, e) = Min2(CountMax, CountIn(L.p, e) + CountIn(L.t, e))
          BY <1>4, <4>1, <4>2
        <4>4. CountIn(L.p, e) + CountIn(L.t, e) \in Nat
          BY <2>2
        <4> QED  BY <1>2, <4>3, <4>4, MinMaxFacts
      <3> QED  BY <3>1, <3>2
    <2> QED  BY <2>1, <2>2, <2>3, <2>4
  <1>9. ASSUME NEW r \in ToSet(p) PROVE r.entry \notin forgotten
    <2>1. PICK q \in ToSet(m) : q.entry = r.entry
      BY <1>4, <1>6, FromFacts
    <2>2. \E w \in ToSet(L.p) \cup ToSet(L.t) : w.entry = r.entry
      BY <1>4, <2>1
    <2> QED  BY <1>3, <2>2 DEF Backed
  <1> QED  BY <1>6, <1>8, <1>9 DEF p

\* A commit moves the temporary records into the persisted layer and the files, or
\* fails and leaves both layers; the files then may or may not be the new ones.
LEMMA CommitMemory ==
    ASSUME MemoryInv, Commit
    PROVE  MemoryInv'
  <1> DEFINE L == Refreshed
             p == Merged(L)
  <1>1. IsRefreshed(L)
    BY RefreshedFacts
  <1>2. /\ today' = clock /\ clock' = clock /\ taught' = taught /\ forgotten' = forgotten
        /\ \/ /\ persisted' = L.p /\ persistedIndex' = L.pi
              /\ temporary' = L.t /\ temporaryIndex' = L.ti
              /\ stored' = stored \/ stored' = p
           \/ /\ persisted' = p /\ persistedIndex' = BuildIndex(p)
              /\ temporary' = << >> /\ temporaryIndex' = BuildIndex(<< >>)
              /\ stored' = p
    BY DEF Commit, Keep, KeepTemporary, Persist, NoTemporary, Merged
  <1>3. /\ p \in Layers /\ (\A r \in ToSet(p) : Fresh(r, clock))
        /\ \A e \in Entries : CountIn(p, e) <= taught[e]
        /\ \A r \in ToSet(p) : r.entry \notin forgotten
    BY <1>1, MergedBacked
  <1> HIDE DEF L, p
  <1>4. /\ L.p \in Layers /\ L.t \in Layers /\ From(L.p, persisted) /\ From(L.t, temporary)
        /\ L.pi = BuildIndex(L.p) /\ L.ti = BuildIndex(L.t) /\ Held(L.p, L.pi, L.t, L.ti, clock)
    BY <1>1 DEF IsRefreshed, Held
  <1>5. stored \in Layers /\ taught \in [Entries -> Nat]
    BY DEF MemoryInv
  <1>6. Backed(L.p, L.t, stored, taught, forgotten)
    <2>1. From(stored, stored)
      BY <1>5, FromPart
    <2> QED  BY <1>4, <1>5, <2>1, BackedFrom
  <1>7. Backed(L.p, L.t, p, taught, forgotten)
    BY <1>3, <1>6 DEF Backed
  <1>8. Backed(p, << >>, p, taught, forgotten)
    <2>1. \A e \in Entries : CountIn(p, e) + CountIn(<< >>, e) <= taught[e]
      <3>1. \A e : CountIn(<< >>, e) = 0 /\ CountIn(p, e) \in Nat
        BY <1>3, NoRecords, CountFacts DEF Layers
      <3> QED  BY <1>3, <3>1
    <2> QED  BY <1>3, <2>1, NoRecords DEF Backed
  <1>9. Held(p, BuildIndex(p), << >>, BuildIndex(<< >>), clock)
    BY <1>3, NoRecords DEF Held
  <1>10. CASE /\ persisted' = L.p /\ persistedIndex' = L.pi
              /\ temporary' = L.t /\ temporaryIndex' = L.ti
              /\ stored' = stored \/ stored' = p
    <2>1. CASE stored' = stored
      BY <1>2, <1>4, <1>5, <1>6, <1>10, <2>1, StillHeld
    <2>2. CASE stored' = p
      BY <1>2, <1>3, <1>4, <1>5, <1>7, <1>10, <2>2, StillHeld
    <2> QED  BY <1>10, <2>1, <2>2
  <1>11. CASE /\ persisted' = p /\ persistedIndex' = BuildIndex(p)
              /\ temporary' = << >> /\ temporaryIndex' = BuildIndex(<< >>)
              /\ stored' = p
    BY <1>2, <1>3, <1>5, <1>8, <1>9, <1>11, StillHeld
  <1> QED  BY <1>2, <1>10, <1>11

\* The records of the files in any order are a layer.
LEMMA OrderFacts ==
    ASSUME NEW x \in Layers, NEW order \in SetToSeqs(ToSet(x))
    PROVE  order \in Layers /\ From(order, x)
  <1> DEFINE S == ToSet(x)
             n == Cardinality(S)
             f == [i \in 1..Len(x) |-> x[i]]
  <1>1. /\ x \in Seq(Rows) /\ Unique(x) /\ Len(x) \in Nat /\ S \in SUBSET Rows
        /\ \A r \in S : r.count > 0
        /\ \A i \in 1..Len(x) : x[i] \in S
        /\ \A r \in S : \E i \in 1..Len(x) : x[i] = r
    BY ElementFacts, LenProperties DEF Layers, Layer
  <1>2. n \in Nat
    <2> HIDE DEF S
    <2>1. f \in Surjection(1..Len(x), S)
      BY <1>1 DEF Surjection
    <2>2. IsFiniteSet(1..Len(x))
      BY <1>1, FS_Interval
    <2> HIDE DEF f
    <2>3. IsFiniteSet(S)
      BY <2>1, <2>2, FS_Surjection
    <2> QED  BY <2>3, FS_CardinalityType
  <1>3. order \in [1..n -> S] /\ \A i, j \in 1..n : i # j => order[i] # order[j]
    BY DEF SetToSeqs
  <1> HIDE DEF n
  <1>4. order \in Seq(S) /\ DOMAIN order = 1..n
    BY <1>2, <1>3
  <1>5. ToSet(order) \in SUBSET S
    BY <1>4, ElementFacts
  <1>6. order \in Seq(Rows)
    <2> HIDE DEF S
    <2> QED  BY <1>1, <1>2, <1>3
  <1>7. Unique(order)
    <2>1. ASSUME NEW i \in 1..n, NEW j \in 1..n, order[i].entry = order[j].entry PROVE i = j
      <3>1. order[i] \in S /\ order[j] \in S
        BY <1>3
      <3>2. order[i] = order[j]
        BY <1>1, <2>1, <3>1, UniqueFacts
      <3> QED  BY <1>3, <3>2
    <2> QED  BY <1>4, <2>1 DEF Unique
  <1>8. order \in Layers
    BY <1>1, <1>5, <1>6, <1>7 DEF Layers, Layer
  <1> QED  BY <1>5, <1>8, FromPart

\* The next daemon opens what the files hold and has no temporary records.
LEMMA RestartMemory ==
    ASSUME MemoryInv, Restart
    PROVE  MemoryInv'
  <1>1. PICK order \in SetToSeqs(ToSet(stored)) : Persist(Decay(order, clock))
    BY DEF Restart
  <1> DEFINE p == Decay(order, clock)
  <1>2. /\ today' = clock /\ clock' = clock /\ taught' = taught /\ forgotten' = forgotten
        /\ persisted' = p /\ persistedIndex' = BuildIndex(p)
        /\ temporary' = << >> /\ temporaryIndex' = BuildIndex(<< >>)
        /\ stored' = stored
    BY <1>1 DEF Restart, Persist, NoTemporary
  <1>3. /\ stored \in Layers /\ taught \in [Entries -> Nat] /\ clock \in Days
        /\ \A e \in Entries : CountIn(stored, e) <= taught[e]
        /\ \A r \in ToSet(stored) : r.entry \notin forgotten
    BY DEF MemoryInv, Backed
  <1>4. order \in Layers /\ From(order, stored)
    BY <1>3, OrderFacts
  <1>5. p \in Layers /\ From(p, order) /\ \A r \in ToSet(p) : Fresh(r, clock)
    BY <1>3, <1>4, AgedLayer
  <1> HIDE DEF p
  <1>6. From(p, stored)
    BY <1>3, <1>4, <1>5, FromTrans
  <1>7. /\ \A e : CountIn(p, e) <= CountIn(stored, e)
        /\ \A q \in ToSet(p) : \E r \in ToSet(stored) : r.entry = q.entry
    BY <1>3, <1>5, <1>6, FromFacts
  <1>8. \A e : CountIn(p, e) \in Nat /\ CountIn(stored, e) \in Nat /\ CountIn(<< >>, e) = 0
    BY <1>3, <1>5, NoRecords, CountFacts DEF Layers
  <1>9. Backed(p, << >>, stored, taught, forgotten)
    <2>1. ASSUME NEW e \in Entries PROVE CountIn(p, e) + CountIn(<< >>, e) <= taught[e]
      <3>1. taught[e] \in Nat
        BY <1>3
      <3> QED  BY <1>3, <1>7, <1>8, <3>1
    <2> QED  BY <1>3, <1>7, <2>1, NoRecords DEF Backed
  <1>10. Held(p, BuildIndex(p), << >>, BuildIndex(<< >>), clock)
    BY <1>5, NoRecords DEF Held
  <1> QED  BY <1>2, <1>3, <1>9, <1>10, StillHeld

-----------------------------------------------------------------------------
(* The theorems                                                            *)

\* The two layers, their indexes and the files stay consistent with each other,
\* with the day and with what was taught and forgotten, whatever the operations,
\* failed saves, clock changes and restarts (LearningMemory's mutex makes each
\* operation one step).
THEOREM MemoryIsInductive == Spec => []MemoryInv
  <1>1. Init => MemoryInv
    BY InitMemory
  <1>2. MemoryInv /\ [Next]_vars => MemoryInv'
    <2> SUFFICES ASSUME MemoryInv, [Next]_vars PROVE MemoryInv'
      OBVIOUS
    <2>1. CASE \E d \in Days : Tick(d)
      BY <2>1, TickMemory
    <2>2. CASE \E c \in Candidates : \E start \in 0..(Len(c) - 1) : Learn(c, start)
      <3>1. PICK c \in Candidates : \E start \in 0..(Len(c) - 1) : Learn(c, start)
        BY <2>2
      <3>2. PICK start \in 0..(Len(c) - 1) : Learn(c, start)
        BY <3>1
      <3> QED  BY <3>2, LearnMemory
    <2>3. CASE \E c \in Candidates : Forget(c)
      BY <2>3, ForgetMemory
    <2>4. CASE Commit
      BY <2>4, CommitMemory
    <2>5. CASE Reset
      BY <2>5, ResetMemory
    <2>6. CASE Read
      BY <2>6, ReadMemory
    <2>7. CASE Restart
      BY <2>7, RestartMemory
    <2>8. CASE UNCHANGED vars
      <3>1. /\ clock' = clock /\ today' = today
            /\ persisted' = persisted /\ temporary' = temporary
            /\ persistedIndex' = persistedIndex /\ temporaryIndex' = temporaryIndex
            /\ stored' = stored /\ taught' = taught /\ forgotten' = forgotten
        BY <2>8 DEF vars
      <3>2. Held(persisted, persistedIndex, temporary, temporaryIndex, today)'
        BY <3>1 DEF MemoryInv, Held
      <3>3. Backed(persisted, temporary, stored, taught, forgotten)'
        BY <3>1 DEF MemoryInv, Backed
      <3> QED  BY <3>1, <3>2, <3>3 DEF MemoryInv
    <2> QED  BY <2>1, <2>2, <2>3, <2>4, <2>5, <2>6, <2>7, <2>8 DEF Next
  <1> QED  BY <1>1, <1>2, PTL DEF Spec

\* Each index points at exactly the records of each reading, after any decay,
\* forget, merge and reopening (MemoryTrie::new, MemoryLouds::new, memorize).
THEOREM IndexesFollowRecords == Spec => []IndexesAgree
  <1>1. MemoryInv => IndexesAgree
    BY DEF MemoryInv, Held, IndexesAgree
  <1> QED  BY <1>1, MemoryIsInductive, PTL

\* No record in memory is of the future, expired or due for a halving on the day
\* of the last operation (decay, refresh_day).
THEOREM RecordsAreFresh == Spec => []NothingStale
  <1>1. MemoryInv => NothingStale
    BY DEF MemoryInv, Held, NothingStale, Fresh
  <1> QED  BY <1>1, MemoryIsInductive, PTL

\* One record per entry, of a count that fits its byte, and no use counted twice
\* in the layers or in the files (memorize, merge_record, commit).
THEOREM CountsWhatIsTaught == Spec => []UsesCountedOnce
  <1>1. MemoryInv => UsesCountedOnce
    <2> SUFFICES ASSUME MemoryInv PROVE UsesCountedOnce
      OBVIOUS
    <2>1. persisted \in Layers /\ temporary \in Layers /\ stored \in Layers
      BY DEF MemoryInv, Held
    <2>2. ASSUME NEW rs \in Layers
          PROVE  /\ \A i, j \in DOMAIN rs : rs[i].entry = rs[j].entry => i = j
                 /\ \A r \in ToSet(rs) : r.count \in 1..CountMax
      <3>1. Unique(rs) /\ ToSet(rs) \in SUBSET Rows /\ \A r \in ToSet(rs) : r.count > 0
        BY ElementFacts DEF Layers, Layer
      <3>2. \A r \in ToSet(rs) : r.count \in 1..CountMax
        BY <3>1, RowFacts, BoundAssumption
      <3> QED  BY <3>1, <3>2 DEF Unique
    <2>3. \A e \in Entries : /\ CountIn(persisted, e) + CountIn(temporary, e) <= taught[e]
                             /\ CountIn(stored, e) <= taught[e]
      BY DEF MemoryInv, Backed
    <2> QED  BY <2>1, <2>2, <2>3 DEF UsesCountedOnce
  <1> QED  BY <1>1, MemoryIsInductive, PTL

\* A word forgotten with success stays away from both layers and the files until
\* it is learned again (forget, save_records, open).
THEOREM ForgetsForGood == Spec => []ForgottenStaysForgotten
  <1>1. MemoryInv => ForgottenStaysForgotten
    BY DEF MemoryInv, Backed, ForgottenStaysForgotten
  <1> QED  BY <1>1, MemoryIsInductive, PTL

\* The layer after a commit has the record r of p or t, or MaxCount newer ones
KeptBy(r, after, p, t) ==
    \/ \E q \in ToSet(after) :
         /\ q.entry = r.entry /\ q.used >= r.used
         /\ q.count = Min2(CountMax, CountIn(p, r.entry) + CountIn(t, r.entry))
    \/ /\ Len(after) = MaxCount
       /\ \A q \in ToSet(after) : q.used >= r.used

\* What a commit writes has every record of both layers, or MaxCount newer ones.
LEMMA MergedKeeps ==
    ASSUME NEW p \in Layers, NEW t \in Layers, NEW d \in Days,
           \A r \in ToSet(p) \cup ToSet(t) : Fresh(r, d),
           NEW r \in ToSet(p) \cup ToSet(t)
    PROVE  KeptBy(r, Kept(Fold(Merge, p, t), d), p, t)
  <1> DEFINE m == Fold(Merge, p, t)
             k == Kept(m, d)
  <1>1. /\ m \in Layers
        /\ \A q \in ToSet(m) :
              /\ Fresh(q, d)
              /\ q.count = Min2(CountMax, CountIn(p, q.entry) + CountIn(t, q.entry))
    BY MergedFacts
  <1>2. PICK q \in ToSet(m) : q.entry = r.entry /\ q.used >= r.used
    BY MergedFacts
  <1> HIDE DEF m
  <1>3. Layer(m)
    BY <1>1 DEF Layers
  <1>4. ToSet(Decay(m, d)) = ToSet(m)
    BY <1>1, <1>3, DecayFacts
  <1>5. \/ q \in ToSet(k)
        \/ Len(k) = MaxCount /\ \A w \in ToSet(k) : w.used >= q.used
    BY <1>2, <1>3, <1>4, KeptFacts
  <1>6. Layer(k)
    BY <1>3, KeptFacts
  <1> HIDE DEF k
  <1>7. /\ r.used \in Nat /\ q.used \in Nat /\ \A w \in ToSet(k) : w.used \in Nat
    BY <1>1, <1>3, <1>6, ElementFacts, RowFacts DEF Layers, Layer
  <1>8. ASSUME q \in ToSet(k) PROVE KeptBy(r, k, p, t)
    BY <1>1, <1>2, <1>8 DEF KeptBy
  <1>9. ASSUME Len(k) = MaxCount, \A w \in ToSet(k) : w.used >= q.used
        PROVE  KeptBy(r, k, p, t)
    <2>1. \A w \in ToSet(k) : w.used >= r.used
      BY <1>2, <1>7, <1>9
    <2> QED  BY <1>9, <2>1 DEF KeptBy
  <1>10. KeptBy(r, k, p, t)
    BY <1>5, <1>8, <1>9
  <1> QED  BY <1>10 DEF k, m

\* With no temporary records the layer is left as it is, which keeps all.
LEMMA NothingToMerge ==
    ASSUME NEW p \in Layers, NEW r \in ToSet(p)
    PROVE  KeptBy(r, p, p, << >>)
  <1>1. Layer(p) /\ ToSet(p) \in SUBSET Rows
    BY ElementFacts DEF Layers, Layer
  <1>2. CountIn(p, r.entry) = r.count /\ CountIn(<< >>, r.entry) = 0
    BY <1>1, CountFacts, NoRecords
  <1>3. r.count \in Nat /\ r.count <= CountMax /\ r.used \in Nat /\ CountMax \in Nat
    BY <1>1, RowFacts, BoundAssumption
  <1>4. r.count = Min2(CountMax, CountIn(p, r.entry) + CountIn(<< >>, r.entry))
    BY <1>2, <1>3 DEF Min2
  <1> QED  BY <1>3, <1>4 DEF KeptBy

\* A commit that succeeds loses no record of either layer but those for which
\* MaxCount others at least as recent were kept, and adds the counts (commit,
\* merge_record, save_records).
THEOREM CommitLosesNothing == Spec => CommitKeepsAll
  <1> DEFINE ok == [op |-> "commit", ok |-> TRUE, of |-> << >>]
             all == /\ temporary' = << >>
                    /\ \A r \in ToSet(persisted) \cup ToSet(temporary) :
                          KeptBy(r, persisted', persisted, temporary)
             step == outcome' = ok /\ clock = today /\ outcome # outcome' => all
  <1>1. MemoryInv /\ [Next]_vars => [step]_vars
    <2> SUFFICES ASSUME MemoryInv, Next, outcome' = ok, clock = today, outcome # outcome'
                 PROVE  all
      BY DEF vars
    <2>1. outcome'.op = "commit" /\ outcome'.ok = TRUE
      OBVIOUS
    <2>2. Commit
      <3>1. \A d \in Days : ~Tick(d)
        BY DEF Tick
      <3>2. \A c, start : ~Learn(c, start)
        BY <2>1 DEF Learn, Report
      <3>3. \A c : ~Forget(c)
        BY <2>1 DEF Forget, Report
      <3>4. ~Reset /\ ~Read /\ ~Restart
        BY <2>1 DEF Reset, Read, Restart, Report
      <3> QED  BY <3>1, <3>2, <3>3, <3>4 DEF Next
    <2> DEFINE L == Refreshed
    <2>3. IsRefreshed(L)
      BY RefreshedFacts
    <2>4. L.p = persisted /\ L.t = temporary
      BY <2>3 DEF IsRefreshed
    <2>5. \/ L.t = << >> /\ persisted' = L.p /\ temporary' = L.t
          \/ persisted' = Kept(Fold(Merge, L.p, L.t), clock) /\ temporary' = << >>
      BY <2>1, <2>2 DEF Commit, Keep, KeepTemporary, Persist, NoTemporary, Report
    <2> HIDE DEF L
    <2>6. /\ persisted \in Layers /\ temporary \in Layers /\ clock \in Days
          /\ \A r \in ToSet(persisted) \cup ToSet(temporary) : Fresh(r, clock)
      BY DEF MemoryInv, Held
    <2>7. CASE L.t = << >> /\ persisted' = L.p /\ temporary' = L.t
      <3>1. temporary = << >> /\ persisted' = persisted /\ temporary' = << >>
        BY <2>4, <2>7
      <3>2. ASSUME NEW r \in ToSet(persisted) \cup ToSet(temporary)
            PROVE  KeptBy(r, persisted, persisted, << >>)
        BY <2>6, <3>1, NoRecords, NothingToMerge
      <3>3. ASSUME NEW r \in ToSet(persisted) \cup ToSet(temporary)
            PROVE  KeptBy(r, persisted', persisted, temporary)
        BY <3>1, <3>2
      <3> QED  BY <3>1, <3>3
    <2>8. CASE persisted' = Kept(Fold(Merge, L.p, L.t), clock) /\ temporary' = << >>
      <3>1. persisted' = Kept(Fold(Merge, persisted, temporary), clock)
        BY <2>4, <2>8
      <3>2. ASSUME NEW r \in ToSet(persisted) \cup ToSet(temporary)
            PROVE  KeptBy(r, Kept(Fold(Merge, persisted, temporary), clock), persisted, temporary)
        BY <2>6, MergedKeeps
      <3>3. ASSUME NEW r \in ToSet(persisted) \cup ToSet(temporary)
            PROVE  KeptBy(r, persisted', persisted, temporary)
        BY <3>1, <3>2
      <3> QED  BY <2>8, <3>3
    <2> QED  BY <2>5, <2>7, <2>8
  <1>2. [step]_vars => [outcome' = [op |-> "commit", ok |-> TRUE, of |-> << >>] /\ clock = today
            /\ outcome # outcome'
      => /\ temporary' = << >>
         /\ \A r \in ToSet(persisted) \cup ToSet(temporary) :
              \/ \E q \in ToSet(persisted') :
                   /\ q.entry = r.entry /\ q.used >= r.used
                   /\ q.count = Min2(CountMax, CountIn(persisted, r.entry)
                                                 + CountIn(temporary, r.entry))
              \/ /\ Len(persisted') = MaxCount
                 /\ \A q \in ToSet(persisted') : q.used >= r.used]_vars
    BY DEF KeptBy
  <1> QED  BY <1>1, <1>2, MemoryIsInductive, PTL DEF Spec, CommitKeepsAll

=============================================================================
