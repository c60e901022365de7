----------------------------- MODULE ZenzaiProofs -----------------------------
(***************************************************************************)
(* Neural conversion, for any vocabulary, dictionary and language models,  *)
(* any connections and sessions, any limits and any number of requests.    *)
(*                                                                         *)
(* First the llama context that the connections share: its memory follows  *)
(* the tokens the wrapper believes it holds.  Then drafts, evaluations and *)
(* constraints, and the conversion loop: no cached verdict is another than *)
(* the model's own, every prefix that was passed is one the model would    *)
(* tolerate, and no candidate contradicts an accepted prediction.          *)
(***************************************************************************)
EXTENDS Zenzai, SequenceTheorems, FiniteSetTheorems, WellFoundedInduction, TLAPS

----------------------------------------------------------------------------
(***************************************************************************)
(* The context alone: any request, from any thread, one after another.     *)
(***************************************************************************)
LlamaRequest(tokens, start, sequence, broken) ==
    /\ cells' = LogitsOf(tokens, start, sequence, broken).cells
    /\ held' = LogitsOf(tokens, start, sequence, broken).held

LlamaNext ==
    \E tokens \in Seq(Tokens), start \in Nat, sequence \in Sequences, broken \in BOOLEAN :
        LlamaRequest(tokens, start, sequence, broken)

LlamaSpec == LlamaInit /\ [][LlamaNext]_llamaVars

(***************************************************************************)
(* The invariant.  A sequence agrees with tokens when its cells are the    *)
(* prefixes of the tokens, each once.  This is MemoryFollowsTokens without *)
(* cardinalities.                                                          *)
(***************************************************************************)
Prefix(tokens, n) == SubSeq(tokens, 1, n)

Cells == [path : Seq(Tokens), owners : SUBSET Sequences]

Agrees(memory, s, tokens) ==
    /\ \A c \in Owned(memory, s) :
        Len(c.path) \in 1 .. Len(tokens) /\ c.path = Prefix(tokens, Len(c.path))
    /\ \A i \in 1 .. Len(tokens) : \E c \in Owned(memory, s) : c.path = Prefix(tokens, i)
    /\ \A c, d \in Owned(memory, s) : c.path = d.path => c = d

LlamaInv ==
    /\ cells \in SUBSET Cells
    /\ held \in [Sequences -> Seq(Tokens)]
    /\ \A s \in Sequences : Agrees(cells, s, held[s])

----------------------------------------------------------------------------
(***************************************************************************)
(* Prefixes.                                                               *)
(***************************************************************************)

\* What cutting a token sequence leaves, as common_prefix_count and the
\* slices of logits use it.
LEMMA PrefixFacts ==
    ASSUME NEW t \in Seq(Tokens), NEW n \in 0 .. Len(t)
    PROVE  /\ Prefix(t, n) \in Seq(Tokens)
           /\ Len(Prefix(t, n)) = n
           /\ \A i \in 1 .. n : Prefix(t, n)[i] = t[i]
  <1>1. \A i \in 1 .. n : t[i] \in Tokens
    BY ElementOfSeq, LenProperties
  <1>2. /\ SubSeq(t, 1, n) \in Seq(Tokens)
        /\ Len(SubSeq(t, 1, n)) = IF 1 <= n THEN n - 1 + 1 ELSE 0
        /\ \A i \in 1 .. n - 1 + 1 : SubSeq(t, 1, n)[i] = t[1 + i - 1]
    <2>1. n \in Int /\ 1 \in Int
      BY LenProperties
    <2> QED  BY <1>1, <2>1, SubSeqProperties
  <1>3. n \in Nat
    BY LenProperties
  <1> QED  BY <1>2, <1>3 DEF Prefix

\* Two sequences that agree up to n have the same prefix of length n.
LEMMA SamePrefix ==
    ASSUME NEW t \in Seq(Tokens), NEW u \in Seq(Tokens),
           NEW n \in 0 .. Len(t), n <= Len(u), \A i \in 1 .. n : t[i] = u[i]
    PROVE  Prefix(t, n) = Prefix(u, n)
  <1>1. n \in 0 .. Len(u)
    BY LenProperties
  <1>2. \A i \in 1 .. n : Prefix(t, n)[i] = Prefix(u, n)[i]
    BY <1>1, PrefixFacts
  <1> QED  BY <1>1, <1>2, PrefixFacts, SeqEqual

\* A prefix of a prefix.
LEMMA PrefixOfPrefix ==
    ASSUME NEW t \in Seq(Tokens), NEW n \in 0 .. Len(t), NEW m \in 0 .. n
    PROVE  Prefix(Prefix(t, n), m) = Prefix(t, m)
  <1>1. /\ Prefix(t, n) \in Seq(Tokens) /\ Len(Prefix(t, n)) = n
        /\ \A i \in 1 .. n : Prefix(t, n)[i] = t[i]
    BY PrefixFacts
  <1>2. m \in 0 .. Len(Prefix(t, n)) /\ m <= Len(t) /\ Len(t) \in Nat
    BY <1>1, LenProperties
  <1>3. \A i \in 1 .. m : Prefix(t, n)[i] = t[i]
    BY <1>1, <1>2
  <1> QED  BY <1>1, <1>2, <1>3, SamePrefix

\* The whole is its longest prefix.
LEMMA PrefixWhole ==
    ASSUME NEW t \in Seq(Tokens)
    PROVE  Prefix(t, Len(t)) = t
  BY SubSeqFull DEF Prefix

\* The prefixes of a concatenation.
LEMMA ConcatPrefixes ==
    ASSUME NEW t \in Seq(Tokens), NEW u \in Seq(Tokens)
    PROVE  /\ t \o u \in Seq(Tokens)
           /\ Len(t \o u) = Len(t) + Len(u)
           /\ \A i \in 0 .. Len(t) : Prefix(t \o u, i) = Prefix(t, i)
           /\ \A i \in 0 .. Len(u) : Prefix(t \o u, Len(t) + i) = t \o Prefix(u, i)
  <1>1. /\ t \o u \in Seq(Tokens)
        /\ Len(t \o u) = Len(t) + Len(u)
        /\ \A i \in 1 .. Len(t) + Len(u) :
             (t \o u)[i] = IF i <= Len(t) THEN t[i] ELSE u[i - Len(t)]
    BY ConcatProperties
  <1>2. Len(t) \in Nat /\ Len(u) \in Nat
    BY LenProperties
  <1>3. ASSUME NEW i \in 0 .. Len(t)
        PROVE  Prefix(t \o u, i) = Prefix(t, i)
    <2>1. i <= Len(t \o u) /\ \A k \in 1 .. i : t[k] = (t \o u)[k]
      BY <1>1, <1>2
    <2> QED  BY <1>1, <2>1, SamePrefix
  <1>4. ASSUME NEW i \in 0 .. Len(u)
        PROVE  Prefix(t \o u, Len(t) + i) = t \o Prefix(u, i)
    <2>1. /\ Prefix(u, i) \in Seq(Tokens)
          /\ Len(Prefix(u, i)) = i
          /\ \A k \in 1 .. i : Prefix(u, i)[k] = u[k]
      BY PrefixFacts
    <2>2. /\ t \o Prefix(u, i) \in Seq(Tokens)
          /\ Len(t \o Prefix(u, i)) = Len(t) + i
          /\ \A k \in 1 .. Len(t) + i : (t \o Prefix(u, i))[k] =
                IF k <= Len(t) THEN t[k] ELSE Prefix(u, i)[k - Len(t)]
      <3>1. \A v \in Seq(Tokens) :
                /\ t \o v \in Seq(Tokens)
                /\ Len(t \o v) = Len(t) + Len(v)
                /\ \A k \in 1 .. Len(t) + Len(v) :
                        (t \o v)[k] = IF k <= Len(t) THEN t[k] ELSE v[k - Len(t)]
        BY ConcatProperties
      <3> QED  BY <2>1, <3>1, Zenon
    <2>3. Len(t) + i \in 0 .. Len(t \o u)
      BY <1>1, <1>2
    <2>4. /\ Prefix(t \o u, Len(t) + i) \in Seq(Tokens)
          /\ Len(Prefix(t \o u, Len(t) + i)) = Len(t) + i
          /\ \A k \in 1 .. Len(t) + i : Prefix(t \o u, Len(t) + i)[k] = (t \o u)[k]
      BY <1>1, <2>3, PrefixFacts
    <2>5. \A k \in 1 .. Len(t) + i : (t \o Prefix(u, i))[k] = (t \o u)[k]
      <3> TAKE k \in 1 .. Len(t) + i
      <3>1. CASE k <= Len(t)
        BY <3>1, <1>1, <1>2, <2>2
      <3>2. CASE k > Len(t)
        <4>1. k - Len(t) \in 1 .. i /\ k \in 1 .. Len(t) + Len(u) /\ ~ k <= Len(t)
          BY <3>2, <1>2
        <4> QED  BY <4>1, <1>1, <2>1, <2>2
      <3>3. k <= Len(t) \/ k > Len(t)
        BY <1>2
      <3> QED  BY <3>1, <3>2, <3>3
    <2> QED  BY <2>2, <2>4, <2>5, SeqEqual
  <1> QED  BY <1>1, <1>3, <1>4

----------------------------------------------------------------------------
(***************************************************************************)
(* The memory operations.                                                  *)
(***************************************************************************)

\* The empty memory of a context that was just created.
LEMMA EmptyAgrees ==
    ASSUME NEW m, NEW s, Owned(m, s) = {}
    PROVE  Agrees(m, s, <<>>)
  <1>1. Len(<<>>) = 0
    BY EmptySeq
  <1> QED  BY <1>1 DEF Agrees

\* A sequence that agrees with no tokens owns nothing.
LEMMA AgreesEmpty ==
    ASSUME NEW m, NEW s, Agrees(m, s, <<>>)
    PROVE  Owned(m, s) = {}
  <1>1. Len(<<>>) = 0
    BY EmptySeq
  <1> QED  BY <1>1 DEF Agrees

\* A cell with other owners.
LEMMA OwnedByFacts ==
    ASSUME NEW c \in Cells, NEW owners \in SUBSET Sequences
    PROVE  /\ OwnedBy(c, owners) \in Cells
           /\ OwnedBy(c, owners).path = c.path
           /\ OwnedBy(c, owners).owners = owners
  BY DEF OwnedBy, Cells

Released(c, s, k) == s \in c.owners /\ Len(c.path) > k
Rest(c, s) == OwnedBy(c, c.owners \ {s})

\* llama_memory_seq_rm: a cell stays as it is, or loses one owner.
LEMMA RemovedCells ==
    ASSUME NEW m, NEW s, NEW k
    PROVE  \A d : d \in SeqRemove(m, s, k) <=>
                \/ d \in m /\ ~Released(d, s, k)
                \/ d.owners # {} /\ \E c \in m : Released(c, s, k) /\ d = Rest(c, s)
  BY DEF SeqRemove, Released, Rest, Owned

\* What a cell that loses an owner becomes.
LEMMA RestFacts ==
    ASSUME NEW c \in Cells, NEW s \in Sequences
    PROVE  /\ Rest(c, s) \in Cells
           /\ Rest(c, s).path = c.path
           /\ Rest(c, s).owners = c.owners \ {s}
  <1>1. c.owners \ {s} \in SUBSET Sequences
    BY DEF Cells
  <1> QED  BY <1>1, OwnedByFacts DEF Rest

\* Removing keeps the memory well formed.
LEMMA RemovedTyped ==
    ASSUME NEW m \in SUBSET Cells, NEW s \in Sequences, NEW k \in Nat
    PROVE  SeqRemove(m, s, k) \in SUBSET Cells
  <1> SUFFICES ASSUME NEW d \in SeqRemove(m, s, k)
               PROVE  d \in Cells
    OBVIOUS
  <1>1. d \in m \/ \E c \in m : d = Rest(c, s)
    BY RemovedCells
  <1> QED  BY <1>1, RestFacts

\* Cutting a sequence leaves it with a prefix of its tokens.
LEMMA RemoveCuts ==
    ASSUME NEW m \in SUBSET Cells, NEW s \in Sequences, NEW t \in Seq(Tokens),
           Agrees(m, s, t), NEW k \in 0 .. Len(t)
    PROVE  Agrees(SeqRemove(m, s, k), s, Prefix(t, k))
  <1> DEFINE n == SeqRemove(m, s, k)
  <1>1. Len(t) \in Nat /\ k \in Nat
    BY LenProperties
  <1>2. /\ \A c \in m : s \in c.owners =>
                Len(c.path) \in 1 .. Len(t) /\ c.path = Prefix(t, Len(c.path))
        /\ \A i \in 1 .. Len(t) : \E c \in m : s \in c.owners /\ c.path = Prefix(t, i)
        /\ \A c, d \in m : s \in c.owners /\ s \in d.owners /\ c.path = d.path => c = d
    BY DEF Agrees, Owned
  <1>3. \A c : c \in Owned(n, s) <=> c \in m /\ s \in c.owners /\ ~ Len(c.path) > k
    <2> TAKE c
    <2>1. c \in n <=> \/ c \in m /\ ~Released(c, s, k)
                      \/ c.owners # {} /\ \E b \in m : Released(b, s, k) /\ c = Rest(b, s)
      BY RemovedCells
    <2>2. \A b \in m : s \notin Rest(b, s).owners
      BY RestFacts
    <2> QED  BY <2>1, <2>2 DEF Owned, Released
  <1>4. Len(Prefix(t, k)) = k
    BY PrefixFacts
  <1>5. ASSUME NEW c \in Owned(n, s)
        PROVE  Len(c.path) \in 1 .. k /\ c.path = Prefix(Prefix(t, k), Len(c.path))
    <2>1. Len(c.path) \in 1 .. k /\ c.path = Prefix(t, Len(c.path))
      BY <1>1, <1>2, <1>3
    <2>2. Len(c.path) \in 0 .. k
      BY <2>1, <1>1
    <2> QED  BY <2>1, <2>2, PrefixOfPrefix
  <1>6. ASSUME NEW i \in 1 .. k
        PROVE  \E c \in Owned(n, s) : c.path = Prefix(Prefix(t, k), i)
    <2>1. i \in 1 .. Len(t) /\ i \in 0 .. Len(t) /\ i \in 0 .. k
      BY <1>1
    <2>2. PICK c \in m : s \in c.owners /\ c.path = Prefix(t, i)
      BY <1>2, <2>1
    <2>3. Len(c.path) = i
      BY <2>1, <2>2, PrefixFacts
    <2>4. c \in Owned(n, s)
      BY <1>1, <1>3, <2>2, <2>3
    <2> QED  BY <2>1, <2>2, <2>4, PrefixOfPrefix
  <1>7. \A c, d \in Owned(n, s) : c.path = d.path => c = d
    BY <1>2, <1>3
  <1> QED  BY <1>4, <1>5, <1>6, <1>7 DEF Agrees

\* Cutting one sequence leaves the other as it was, shared cells included.
LEMMA RemoveSpares ==
    ASSUME NEW m \in SUBSET Cells, NEW s \in Sequences, NEW o \in Sequences, o # s,
           NEW t \in Seq(Tokens), Agrees(m, o, t), NEW k \in Nat
    PROVE  Agrees(SeqRemove(m, s, k), o, t)
  <1> DEFINE n == SeqRemove(m, s, k)
             Image(c) == IF Released(c, s, k) THEN Rest(c, s) ELSE c
  <1>0. /\ \A d : d \in n <=> \/ d \in m /\ ~Released(d, s, k)
                              \/ d.owners # {} /\ \E c \in m : Released(c, s, k) /\ d = Rest(c, s)
        /\ \A c \in m : Rest(c, s).path = c.path /\ Rest(c, s).owners = c.owners \ {s}
    BY RemovedCells, RestFacts
  <1>1. \A d \in Owned(n, o) : \E c \in m : d = Image(c) /\ o \in c.owners /\ c.path = d.path
    BY <1>0 DEF Owned
  <1>2. \A c \in m : o \in c.owners => Image(c) \in Owned(n, o) /\ Image(c).path = c.path
    BY <1>0 DEF Owned
  <1> HIDE DEF n, Image
  <1>3. \A c \in m : o \in c.owners <=> c \in Owned(m, o)
    BY DEF Owned
  <1>4. \A d \in Owned(n, o) :
            Len(d.path) \in 1 .. Len(t) /\ d.path = Prefix(t, Len(d.path))
    BY <1>1, <1>3 DEF Agrees
  <1>5. \A i \in 1 .. Len(t) : \E d \in Owned(n, o) : d.path = Prefix(t, i)
    <2> TAKE i \in 1 .. Len(t)
    <2>1. PICK c \in Owned(m, o) : c.path = Prefix(t, i)
      BY DEF Agrees
    <2>2. c \in m /\ o \in c.owners
      BY DEF Owned
    <2> QED  BY <1>2, <2>1, <2>2
  <1>6. ASSUME NEW c \in Owned(n, o), NEW d \in Owned(n, o), c.path = d.path
        PROVE  c = d
    <2>1. PICK a \in m : c = Image(a) /\ o \in a.owners /\ a.path = c.path
      BY <1>1
    <2>2. PICK b \in m : d = Image(b) /\ o \in b.owners /\ b.path = d.path
      BY <1>1
    <2>3. a = b
      BY <1>3, <1>6, <2>1, <2>2 DEF Agrees
    <2> QED  BY <2>1, <2>2, <2>3
  <1>7. Agrees(n, o, t)
    BY <1>4, <1>5, <1>6 DEF Agrees
  <1> QED  BY <1>7 DEF n

Shared(c, source, k) == source \in c.owners /\ Len(c.path) <= k
Joined(c, target) == OwnedBy(c, c.owners \cup {target})

\* llama_memory_seq_cp: a cell stays as it is, or has one more owner.
LEMMA CopiedCells ==
    ASSUME NEW m, NEW source, NEW target, NEW k
    PROVE  \A d : d \in SeqCopy(m, source, target, k) <=>
                \/ d \in m /\ ~Shared(d, source, k)
                \/ \E c \in m : Shared(c, source, k) /\ d = Joined(c, target)
  BY DEF SeqCopy, Shared, Joined, Owned

\* What a cell that is shared becomes.
LEMMA JoinedFacts ==
    ASSUME NEW c \in Cells, NEW target \in Sequences
    PROVE  /\ Joined(c, target) \in Cells
           /\ Joined(c, target).path = c.path
           /\ Joined(c, target).owners = c.owners \cup {target}
  <1>1. c.owners \cup {target} \in SUBSET Sequences
    BY DEF Cells
  <1> QED  BY <1>1, OwnedByFacts DEF Joined

\* Copying keeps the memory well formed.
LEMMA CopiedTyped ==
    ASSUME NEW m \in SUBSET Cells, NEW source \in Sequences, NEW target \in Sequences, NEW k \in Nat
    PROVE  SeqCopy(m, source, target, k) \in SUBSET Cells
  <1> SUFFICES ASSUME NEW d \in SeqCopy(m, source, target, k)
               PROVE  d \in Cells
    OBVIOUS
  <1>1. d \in m \/ \E c \in m : d = Joined(c, target)
    BY CopiedCells
  <1> QED  BY <1>1, JoinedFacts

\* Sharing a prefix with an empty sequence gives it that prefix and leaves
\* the sequence it comes from as it was.
LEMMA CopyShares ==
    ASSUME NEW m \in SUBSET Cells, NEW source \in Sequences, NEW target \in Sequences,
           source # target, NEW t \in Seq(Tokens), Agrees(m, source, t),
           Owned(m, target) = {}, NEW k \in 0 .. Len(t)
    PROVE  /\ Agrees(SeqCopy(m, source, target, k), source, t)
           /\ Agrees(SeqCopy(m, source, target, k), target, Prefix(t, k))
  <1> DEFINE n == SeqCopy(m, source, target, k)
             Image(c) == IF Shared(c, source, k) THEN Joined(c, target) ELSE c
  <1>1. Len(t) \in Nat /\ k \in Nat
    BY LenProperties
  <1>2. /\ \A c \in m : source \in c.owners =>
                Len(c.path) \in 1 .. Len(t) /\ c.path = Prefix(t, Len(c.path))
        /\ \A i \in 1 .. Len(t) : \E c \in m : source \in c.owners /\ c.path = Prefix(t, i)
        /\ \A c, d \in m : source \in c.owners /\ source \in d.owners /\ c.path = d.path => c = d
    BY DEF Agrees, Owned
  <1>3. /\ \A d : d \in n <=> \/ d \in m /\ ~Shared(d, source, k)
                              \/ \E c \in m : Shared(c, source, k) /\ d = Joined(c, target)
        /\ \A c \in m : /\ Joined(c, target).path = c.path
                        /\ Joined(c, target).owners = c.owners \cup {target}
        /\ \A c \in m : target \notin c.owners
    BY CopiedCells, JoinedFacts DEF Owned
  <1>4. /\ \A d \in Owned(n, source) :
                \E c \in m : d = Image(c) /\ source \in c.owners /\ c.path = d.path
        /\ \A c \in m : source \in c.owners =>
                Image(c) \in Owned(n, source) /\ Image(c).path = c.path
    BY <1>3 DEF Owned
  <1>5. /\ \A d \in Owned(n, target) : \E c \in m :
                d = Image(c) /\ source \in c.owners /\ Len(c.path) <= k /\ c.path = d.path
        /\ \A c \in m : source \in c.owners /\ Len(c.path) <= k =>
                Image(c) \in Owned(n, target) /\ Image(c).path = c.path
    BY <1>3 DEF Owned, Shared
  <1> HIDE DEF n, Image
  <1>6. Agrees(n, source, t)
    <2>1. \A d \in Owned(n, source) :
            Len(d.path) \in 1 .. Len(t) /\ d.path = Prefix(t, Len(d.path))
      BY <1>2, <1>4
    <2>2. \A i \in 1 .. Len(t) : \E d \in Owned(n, source) : d.path = Prefix(t, i)
      <3> TAKE i \in 1 .. Len(t)
      <3>1. PICK c \in m : source \in c.owners /\ c.path = Prefix(t, i)
        BY <1>2
      <3> QED  BY <3>1, <1>4
    <2>3. \A c, d \in Owned(n, source) : c.path = d.path => c = d
      <3> SUFFICES ASSUME NEW c \in Owned(n, source), NEW d \in Owned(n, source), c.path = d.path
                   PROVE  c = d
        OBVIOUS
      <3>1. PICK a \in m : c = Image(a) /\ source \in a.owners /\ a.path = c.path
        BY <1>4
      <3>2. PICK b \in m : d = Image(b) /\ source \in b.owners /\ b.path = d.path
        BY <1>4
      <3>3. a = b
        BY <1>2, <3>1, <3>2
      <3> QED  BY <3>1, <3>2, <3>3
    <2> QED  BY <2>1, <2>2, <2>3 DEF Agrees
  <1>7. Agrees(n, target, Prefix(t, k))
    <2>1. Len(Prefix(t, k)) = k
      BY PrefixFacts
    <2>2. ASSUME NEW d \in Owned(n, target)
          PROVE  Len(d.path) \in 1 .. k /\ d.path = Prefix(Prefix(t, k), Len(d.path))
      <3>1. Len(d.path) \in 1 .. k /\ d.path = Prefix(t, Len(d.path))
        BY <1>1, <1>2, <1>5
      <3>2. Len(d.path) \in 0 .. k
        BY <3>1, <1>1
      <3> QED  BY <3>1, <3>2, PrefixOfPrefix
    <2>3. ASSUME NEW i \in 1 .. k
          PROVE  \E d \in Owned(n, target) : d.path = Prefix(Prefix(t, k), i)
      <3>1. i \in 1 .. Len(t) /\ i \in 0 .. Len(t) /\ i \in 0 .. k
        BY <1>1
      <3>2. PICK c \in m : source \in c.owners /\ c.path = Prefix(t, i)
        BY <1>2, <3>1
      <3>3. Len(c.path) = i
        BY <3>1, <3>2, PrefixFacts
      <3>4. Len(c.path) <= k
        BY <3>1, <3>3, <1>1
      <3>5. Image(c) \in Owned(n, target) /\ Image(c).path = c.path
        BY <1>5, <3>2, <3>4
      <3> QED  BY <3>1, <3>2, <3>5, PrefixOfPrefix
    <2>4. \A c, d \in Owned(n, target) : c.path = d.path => c = d
      <3> SUFFICES ASSUME NEW c \in Owned(n, target), NEW d \in Owned(n, target), c.path = d.path
                   PROVE  c = d
        OBVIOUS
      <3>1. PICK a \in m : c = Image(a) /\ source \in a.owners /\ a.path = c.path
        BY <1>5
      <3>2. PICK b \in m : d = Image(b) /\ source \in b.owners /\ b.path = d.path
        BY <1>5
      <3>3. a = b
        BY <1>2, <3>1, <3>2
      <3> QED  BY <3>1, <3>2, <3>3
    <2> QED  BY <2>1, <2>2, <2>3, <2>4 DEF Agrees
  <1> QED  BY <1>6, <1>7 DEF n

\* A token decoded next attends to all the tokens of its sequence.
LEMMA AttendsToAll ==
    ASSUME NEW m \in SUBSET Cells, NEW s \in Sequences, NEW t \in Seq(Tokens), Agrees(m, s, t)
    PROVE  Attended(m, s) = t
  <1> DEFINE paths == {c.path : c \in Owned(m, s)}
  <1>1. Len(t) \in Nat
    BY LenProperties
  <1>2. \A p \in paths : Len(p) \in 1 .. Len(t) /\ p = Prefix(t, Len(p))
    BY DEF Agrees
  <1>3. \A i \in 1 .. Len(t) : Prefix(t, i) \in paths
    BY DEF Agrees
  <1>4. Attended(m, s) = IF paths = {} THEN <<>>
                         ELSE CHOOSE p \in paths : \A q \in paths : Len(q) <= Len(p)
    BY DEF Attended
  <1> HIDE DEF paths
  <1>5. CASE t = <<>>
    <2>1. Len(t) = 0
      BY <1>5, EmptySeq
    <2>2. paths = {}
      BY <1>2, <2>1
    <2> QED  BY <1>4, <1>5, <2>2
  <1>6. CASE t # <<>>
    <2>1. Len(t) \in 1 .. Len(t)
      BY <1>1, <1>6, EmptySeq
    <2>2. t \in paths
      BY <1>3, <2>1, PrefixWhole
    <2>3. \A q \in paths : Len(q) <= Len(t)
      BY <1>1, <1>2
    <2> DEFINE p == CHOOSE p \in paths : \A q \in paths : Len(q) <= Len(p)
    <2>4. p \in paths /\ \A q \in paths : Len(q) <= Len(p)
      BY <2>2, <2>3
    <2> HIDE DEF p
    <2>5. Len(p) = Len(t)
      BY <1>1, <1>2, <2>2, <2>4
    <2>6. p = t
      BY <1>2, <2>4, <2>5, PrefixWhole
    <2> QED  BY <1>4, <2>2, <2>6 DEF p
  <1> QED  BY <1>5, <1>6

\* Decoding a suffix after a sequence extends it and nothing else.
LEMMA DecodeExtends ==
    ASSUME NEW m \in SUBSET Cells, NEW s \in Sequences, NEW t \in Seq(Tokens), Agrees(m, s, t),
           NEW u \in Seq(Tokens)
    PROVE  /\ m \cup Decoded(m, s, u) \in SUBSET Cells
           /\ Agrees(m \cup Decoded(m, s, u), s, t \o u)
           /\ \A o \in Sequences : o # s =>
                Owned(m \cup Decoded(m, s, u), o) = Owned(m, o)
  <1> DEFINE new == Decoded(m, s, u)
             New(i) == [path |-> t \o Prefix(u, i), owners |-> {s}]
  <1>1. Len(t) \in Nat /\ Len(u) \in Nat
    BY LenProperties
  <1>2. new = {New(i) : i \in 1 .. Len(u)}
    BY AttendsToAll DEF Decoded, Prefix
  <1>3. /\ t \o u \in Seq(Tokens)
        /\ Len(t \o u) = Len(t) + Len(u)
        /\ \A i \in 0 .. Len(t) : Prefix(t \o u, i) = Prefix(t, i)
        /\ \A i \in 0 .. Len(u) : Prefix(t \o u, Len(t) + i) = t \o Prefix(u, i)
    BY ConcatPrefixes
  <1>4. ASSUME NEW i \in 1 .. Len(u)
        PROVE  /\ New(i) \in Cells
               /\ New(i).path = Prefix(t \o u, Len(t) + i)
               /\ Len(New(i).path) = Len(t) + i
               /\ New(i).owners = {s}
    <2>1. i \in 0 .. Len(u) /\ Len(t) + i \in 0 .. Len(t \o u)
      BY <1>1, <1>3
    <2>2. t \o Prefix(u, i) = Prefix(t \o u, Len(t) + i)
      BY <1>3, <2>1
    <2>3. /\ Prefix(t \o u, Len(t) + i) \in Seq(Tokens)
          /\ Len(Prefix(t \o u, Len(t) + i)) = Len(t) + i
      BY <1>3, <2>1, PrefixFacts
    <2> QED  BY <2>2, <2>3 DEF Cells
  <1> HIDE DEF new, New
  <1>5. m \cup new \in SUBSET Cells
    BY <1>2, <1>4
  <1>6. \A o \in Sequences : o # s => Owned(m \cup new, o) = Owned(m, o)
    BY <1>2, <1>4 DEF Owned
  <1>7. Owned(m \cup new, s) = Owned(m, s) \cup new
    BY <1>2, <1>4 DEF Owned
  <1>8. ASSUME NEW c \in Owned(m, s)
        PROVE  Len(c.path) \in 1 .. Len(t) /\ c.path = Prefix(t \o u, Len(c.path))
    <2>1. Len(c.path) \in 1 .. Len(t) /\ c.path = Prefix(t, Len(c.path))
      BY DEF Agrees
    <2>2. Len(c.path) \in 0 .. Len(t)
      BY <1>1, <2>1
    <2> QED  BY <1>3, <2>1, <2>2
  <1>9. Agrees(m \cup new, s, t \o u)
    <2>1. \A c \in Owned(m \cup new, s) :
            Len(c.path) \in 1 .. Len(t \o u) /\ c.path = Prefix(t \o u, Len(c.path))
      <3> TAKE c \in Owned(m \cup new, s)
      <3>1. CASE c \in Owned(m, s)
        BY <1>1, <1>3, <1>8, <3>1
      <3>2. CASE c \in new
        <4>1. PICK i \in 1 .. Len(u) : c = New(i)
          BY <1>2, <3>2
        <4>2. Len(c.path) = Len(t) + i /\ c.path = Prefix(t \o u, Len(t) + i)
          BY <1>4, <4>1
        <4>3. Len(t) + i \in 1 .. Len(t \o u)
          BY <1>1, <1>3
        <4> QED  BY <4>2, <4>3
      <3> QED  BY <1>7, <3>1, <3>2
    <2>2. ASSUME NEW i \in 1 .. Len(t \o u)
          PROVE  \E c \in Owned(m \cup new, s) : c.path = Prefix(t \o u, i)
      <3>1. CASE i <= Len(t)
        <4>1. i \in 1 .. Len(t) /\ i \in 0 .. Len(t)
          BY <1>1, <1>3, <3>1
        <4>2. PICK c \in Owned(m, s) : c.path = Prefix(t, i)
          BY <4>1 DEF Agrees
        <4> QED  BY <1>3, <1>7, <4>1, <4>2
      <3>2. CASE i > Len(t)
        <4>1. i - Len(t) \in 1 .. Len(u) /\ Len(t) + (i - Len(t)) = i
          BY <1>1, <1>3, <3>2
        <4>2. New(i - Len(t)) \in new /\ New(i - Len(t)).path = Prefix(t \o u, i)
          BY <1>2, <1>4, <4>1
        <4> QED  BY <1>7, <4>2
      <3>3. i <= Len(t) \/ i > Len(t)
        BY <1>1
      <3> QED  BY <3>1, <3>2, <3>3
    <2>3. ASSUME NEW c \in Owned(m \cup new, s), NEW d \in Owned(m \cup new, s), c.path = d.path
          PROVE  c = d
      <3>1. CASE c \in Owned(m, s) /\ d \in Owned(m, s)
        BY <2>3, <3>1 DEF Agrees
      <3>2. CASE c \in new /\ d \in new
        <4>1. PICK i \in 1 .. Len(u) : c = New(i)
          BY <1>2, <3>2
        <4>2. PICK j \in 1 .. Len(u) : d = New(j)
          BY <1>2, <3>2
        <4>3. i = j
          BY <1>1, <1>4, <2>3, <4>1, <4>2
        <4> QED  BY <4>1, <4>2, <4>3
      <3>3. \A a \in Owned(m, s) : \A b \in new : Len(a.path) # Len(b.path)
        BY <1>1, <1>2, <1>4, <1>8
      <3> QED  BY <1>7, <2>3, <3>1, <3>2, <3>3
    <2> QED  BY <2>1, <2>2, <2>3 DEF Agrees
  <1> QED  BY <1>5, <1>6, <1>9 DEF new

----------------------------------------------------------------------------
(***************************************************************************)
(* Requests.                                                               *)
(***************************************************************************)

\* A set of naturals that is not empty has a least element.
LEMMA LeastNatural ==
    ASSUME NEW T \in SUBSET Nat, T # {}
    PROVE  \E n \in T : \A m \in T : n <= m
  <1>1. PICK n \in T : \A m \in T : ~(<<m, n>> \in OpToRel(<, Nat))
    BY NatLessThanWellFounded, WFMin
  <1>2. \A m \in T : ~ m < n
    BY <1>1 DEF OpToRel
  <1>3. \A m \in T : m \in Nat
    OBVIOUS
  <1> QED  BY <1>2, <1>3

\* common_prefix_count gives a length up to which both sequences agree.
LEMMA CommonPrefixCounts ==
    ASSUME NEW t \in Seq(Tokens), NEW u \in Seq(Tokens)
    PROVE  /\ CommonPrefixCount(t, u) \in 0 .. Lesser(Len(t), Len(u))
           /\ \A i \in 1 .. CommonPrefixCount(t, u) : t[i] = u[i]
  <1> DEFINE Common(n) == /\ \A i \in 1 .. n : t[i] = u[i]
                          /\ n < Lesser(Len(t), Len(u)) => t[n + 1] # u[n + 1]
             differing == {i \in 1 .. Lesser(Len(t), Len(u)) : t[i] # u[i]}
  <1>1. Len(t) \in Nat /\ Len(u) \in Nat /\ Lesser(Len(t), Len(u)) \in Nat
    BY LenProperties DEF Lesser
  <1>2. \E n \in 0 .. Lesser(Len(t), Len(u)) : Common(n)
    <2>1. CASE differing = {}
      <3>1. \A i \in 1 .. Lesser(Len(t), Len(u)) : t[i] = u[i]
        BY <2>1
      <3>2. Common(Lesser(Len(t), Len(u)))
        BY <1>1, <3>1
      <3> QED  BY <1>1, <3>2
    <2>2. CASE differing # {}
      <3>1. PICK least \in differing : \A j \in differing : least <= j
        <4>1. differing \in SUBSET Nat
          BY <1>1
        <4> HIDE DEF differing
        <4> QED  BY <2>2, <4>1, LeastNatural
      <3>2. least \in 1 .. Lesser(Len(t), Len(u)) /\ t[least] # u[least]
        OBVIOUS
      <3>3. \A i \in 1 .. least - 1 : t[i] = u[i]
        BY <1>1, <3>1, <3>2
      <3>4. least - 1 \in 0 .. Lesser(Len(t), Len(u)) /\ (least - 1) + 1 = least
        BY <1>1, <3>2
      <3>5. Common(least - 1)
        BY <3>2, <3>3, <3>4
      <3> QED  BY <3>4, <3>5
    <2> QED  BY <2>1, <2>2
  <1>3. CommonPrefixCount(t, u) = CHOOSE n \in 0 .. Lesser(Len(t), Len(u)) : Common(n)
    BY DEF CommonPrefixCount
  <1> HIDE DEF Common
  <1>4. /\ CommonPrefixCount(t, u) \in 0 .. Lesser(Len(t), Len(u))
        /\ Common(CommonPrefixCount(t, u))
    BY <1>2, <1>3
  <1> QED  BY <1>4 DEF Common

\* Both sequences have the prefixes up to that length in common.
LEMMA CommonPrefix ==
    ASSUME NEW t \in Seq(Tokens), NEW u \in Seq(Tokens), NEW k \in Nat,
           k <= CommonPrefixCount(t, u)
    PROVE  /\ k \in 0 .. Len(t) /\ k \in 0 .. Len(u)
           /\ Prefix(t, k) = Prefix(u, k)
  <1>1. Len(t) \in Nat /\ Len(u) \in Nat
    BY LenProperties
  <1>2. k \in 0 .. Len(t) /\ k \in 0 .. Len(u) /\ k <= Len(u)
    BY <1>1, CommonPrefixCounts DEF Lesser
  <1>3. \A i \in 1 .. k : t[i] = u[i]
    BY <1>1, CommonPrefixCounts DEF Lesser
  <1> QED  BY <1>2, <1>3, SamePrefix

\* What sequence_plan decides to keep is a prefix of the request that the
\* sequence, or the other one, holds.
LEMMA PlanFacts ==
    ASSUME LlamaInv, NEW tokens \in Seq(Tokens), NEW start \in Nat, NEW s \in Sequences
    PROVE  LET plan == SequencePlan(tokens, start, s)
               from == IF plan.copies THEN Other(s) ELSE s
           IN  /\ plan.copies \in BOOLEAN
               /\ plan.kept \in 0 .. Len(held[from])
               /\ plan.kept \in 0 .. Len(tokens)
               /\ Prefix(held[from], plan.kept) = Prefix(tokens, plan.kept)
  <1>1. Other(s) \in Sequences /\ held[s] \in Seq(Tokens) /\ held[Other(s)] \in Seq(Tokens)
    BY DEF LlamaInv, Other, Sequences, Evaluation, InputPrediction
  <1> DEFINE current == CommonPrefixCount(held[s], tokens)
             other == CommonPrefixCount(held[Other(s)], tokens)
             plan == SequencePlan(tokens, start, s)
  <1>2. plan = IF other > current /\ Lesser(other, start) > 0
               THEN [copies |-> TRUE, kept |-> Lesser(other, start)]
               ELSE [copies |-> FALSE, kept |-> Lesser(current, start)]
    BY DEF SequencePlan
  <1>3. current \in Nat /\ other \in Nat
    <2>1. /\ CommonPrefixCount(held[s], tokens) \in 0 .. Lesser(Len(held[s]), Len(tokens))
          /\ CommonPrefixCount(held[Other(s)], tokens)
                \in 0 .. Lesser(Len(held[Other(s)]), Len(tokens))
      BY <1>1, CommonPrefixCounts
    <2> QED  BY <2>1
  <1> HIDE DEF current, other, plan
  <1>4. /\ Lesser(other, start) \in Nat /\ Lesser(other, start) <= other
        /\ Lesser(current, start) \in Nat /\ Lesser(current, start) <= current
    BY <1>3 DEF Lesser
  <1>5. CASE plan.copies
    <2>1. plan.kept = Lesser(other, start)
      BY <1>2, <1>5
    <2>2. /\ plan.kept \in 0 .. Len(held[Other(s)]) /\ plan.kept \in 0 .. Len(tokens)
          /\ Prefix(held[Other(s)], plan.kept) = Prefix(tokens, plan.kept)
      BY <1>1, <1>4, <2>1, CommonPrefix DEF other
    <2> QED  BY <1>2, <1>5, <2>2 DEF plan
  <1>6. CASE ~plan.copies
    <2>1. plan.kept = Lesser(current, start)
      BY <1>2, <1>6
    <2>2. /\ plan.kept \in 0 .. Len(held[s]) /\ plan.kept \in 0 .. Len(tokens)
          /\ Prefix(held[s], plan.kept) = Prefix(tokens, plan.kept)
      BY <1>1, <1>4, <2>1, CommonPrefix DEF current
    <2> QED  BY <1>2, <1>6, <2>2 DEF plan
  <1> QED  BY <1>5, <1>6

\* Carrying out the plan leaves the sequence with the kept prefix of the
\* request, and the other sequence as it was.
LEMMA KeptFacts ==
    ASSUME LlamaInv, NEW tokens \in Seq(Tokens), NEW start \in Nat, NEW s \in Sequences
    PROVE  LET plan == SequencePlan(tokens, start, s)
           IN  /\ Kept(plan, s) \in SUBSET Cells
               /\ plan.kept \in 0 .. Len(tokens)
               /\ Agrees(Kept(plan, s), s, Prefix(tokens, plan.kept))
               /\ Agrees(Kept(plan, s), Other(s), held[Other(s)])
  <1> DEFINE plan == SequencePlan(tokens, start, s)
  <1>1. /\ plan.copies \in BOOLEAN
        /\ plan.kept \in 0 .. Len(tokens)
        /\ plan.copies => /\ plan.kept \in 0 .. Len(held[Other(s)])
                          /\ Prefix(held[Other(s)], plan.kept) = Prefix(tokens, plan.kept)
        /\ ~plan.copies => /\ plan.kept \in 0 .. Len(held[s])
                           /\ Prefix(held[s], plan.kept) = Prefix(tokens, plan.kept)
    BY PlanFacts
  <1>2. Kept(plan, s) =
            IF plan.copies
            THEN SeqRemove(SeqCopy(SeqRemove(cells, s, 0), Other(s), s, plan.kept), s, plan.kept)
            ELSE SeqRemove(cells, s, plan.kept)
    BY DEF Kept
  <1> HIDE DEF plan
  <1> DEFINE k == plan.kept
             o == Other(s)
  <1>3. /\ o \in Sequences /\ o # s /\ held[s] \in Seq(Tokens) /\ held[o] \in Seq(Tokens)
        /\ cells \in SUBSET Cells /\ Agrees(cells, s, held[s]) /\ Agrees(cells, o, held[o])
    BY DEF LlamaInv, Other, Sequences, Evaluation, InputPrediction
  <1>4. k \in Nat /\ Len(held[s]) \in Nat /\ 0 \in Nat /\ 0 \in 0 .. Len(held[s])
    BY <1>1, <1>3, LenProperties
  <1> HIDE DEF k, o
  <1>5. CASE ~plan.copies
    <2>1. k \in 0 .. Len(held[s]) /\ Prefix(held[s], k) = Prefix(tokens, k)
      BY <1>1, <1>5 DEF k
    <2>2. Kept(plan, s) = SeqRemove(cells, s, k)
      BY <1>2, <1>5 DEF k
    <2>3. SeqRemove(cells, s, k) \in SUBSET Cells
      BY <1>3, <1>4, RemovedTyped
    <2>4. Agrees(SeqRemove(cells, s, k), s, Prefix(held[s], k))
      BY <1>3, <2>1, RemoveCuts
    <2>5. Agrees(SeqRemove(cells, s, k), o, held[o])
      BY <1>3, <1>4, RemoveSpares
    <2> QED  BY <1>1, <2>1, <2>2, <2>3, <2>4, <2>5 DEF k, o, plan
  <1>6. CASE plan.copies
    <2> DEFINE emptied == SeqRemove(cells, s, 0)
               copied == SeqCopy(emptied, o, s, k)
    <2>1. k \in 0 .. Len(held[o]) /\ Prefix(held[o], k) = Prefix(tokens, k)
      BY <1>1, <1>6 DEF k, o
    <2>2. emptied \in SUBSET Cells /\ Agrees(emptied, o, held[o])
      BY <1>3, <1>4, RemovedTyped, RemoveSpares
    <2>3. Agrees(emptied, s, Prefix(held[s], 0))
      BY <1>3, <1>4, RemoveCuts
    <2>4. Prefix(held[s], 0) = <<>>
      <3>1. Prefix(held[s], 0) \in Seq(Tokens) /\ Len(Prefix(held[s], 0)) = 0
        BY <1>3, <1>4, PrefixFacts
      <3> QED  BY <3>1, EmptySeq
    <2>5. Owned(emptied, s) = {}
      BY <2>3, <2>4, AgreesEmpty
    <2> HIDE DEF emptied
    <2>6. copied \in SUBSET Cells
      BY <1>3, <1>4, <2>2, CopiedTyped
    <2>7. Agrees(copied, o, held[o]) /\ Agrees(copied, s, Prefix(held[o], k))
      BY <1>3, <2>1, <2>2, <2>5, CopyShares
    <2> HIDE DEF copied
    <2>8. /\ Prefix(held[o], k) \in Seq(Tokens) /\ Len(Prefix(held[o], k)) = k
          /\ k \in 0 .. Len(Prefix(held[o], k)) /\ k \in 0 .. k
      BY <1>3, <1>4, <2>1, PrefixFacts
    <2>9. SeqRemove(copied, s, k) \in SUBSET Cells
      BY <1>4, <2>6, RemovedTyped
    <2>10. Agrees(SeqRemove(copied, s, k), s, Prefix(held[o], k))
      <3>1. Agrees(SeqRemove(copied, s, k), s, Prefix(Prefix(held[o], k), k))
        BY <2>6, <2>7, <2>8, RemoveCuts
      <3>2. Prefix(Prefix(held[o], k), k) = Prefix(held[o], k)
        BY <1>3, <2>1, <2>8, PrefixOfPrefix
      <3> QED  BY <3>1, <3>2
    <2>11. Agrees(SeqRemove(copied, s, k), o, held[o])
      BY <1>3, <1>4, <2>6, <2>7, RemoveSpares
    <2>12. Kept(plan, s) = SeqRemove(copied, s, k)
      BY <1>2, <1>6 DEF k, o, copied, emptied
    <2> QED  BY <1>1, <2>1, <2>9, <2>10, <2>11, <2>12 DEF k, o, plan
  <1> QED  BY <1>1, <1>5, <1>6

\* A request of any kind, refused, failed or answered, keeps both sequences
\* in agreement with the memory.
LEMMA RequestKeeps ==
    ASSUME LlamaInv, NEW tokens \in Seq(Tokens), NEW start \in Nat, NEW s \in Sequences,
           NEW broken \in BOOLEAN, LlamaRequest(tokens, start, s, broken)
    PROVE  LlamaInv'
  <1> DEFINE plan == SequencePlan(tokens, start, s)
             kept == Kept(plan, s)
             suffix == SubSeq(tokens, plan.kept + 1, Len(tokens))
             new == Decoded(kept, s, suffix)
             o == Other(s)
  <1>1. /\ kept \in SUBSET Cells
        /\ plan.kept \in 0 .. Len(tokens)
        /\ Agrees(kept, s, Prefix(tokens, plan.kept))
        /\ Agrees(kept, o, held[o])
    BY KeptFacts
  <1>2. /\ o \in Sequences /\ o # s /\ \A x \in Sequences : x = s \/ x = o
        /\ held \in [Sequences -> Seq(Tokens)]
    BY DEF LlamaInv, Other, Sequences, Evaluation, InputPrediction
  <1>3. \/ cells' = cells /\ held' = held
        \/ cells' = SeqRemove(kept, s, 0) /\ held' = [held EXCEPT ![s] = <<>>]
        \/ cells' = kept \cup new /\ held' = [held EXCEPT ![s] = tokens]
    BY DEF LlamaRequest, LogitsOf, Refused, Failed
  <1> HIDE DEF plan, kept, new, o
  <1>4. Len(tokens) \in Nat /\ plan.kept \in Nat /\ 0 \in Nat
    BY <1>1, LenProperties
  <1>5. Prefix(tokens, plan.kept) \in Seq(Tokens) /\ Len(Prefix(tokens, plan.kept)) = plan.kept
    BY <1>1, PrefixFacts
  <1>6. CASE cells' = cells /\ held' = held
    BY <1>6 DEF LlamaInv, Agrees, Owned
  <1>7. CASE cells' = SeqRemove(kept, s, 0) /\ held' = [held EXCEPT ![s] = <<>>]
    <2>1. cells' \in SUBSET Cells
      BY <1>1, <1>4, <1>7, RemovedTyped
    <2>2. 0 \in 0 .. Len(Prefix(tokens, plan.kept))
      BY <1>4, <1>5
    <2>3. Agrees(cells', s, Prefix(Prefix(tokens, plan.kept), 0))
      BY <1>1, <1>5, <1>7, <2>2, RemoveCuts
    <2>4. Prefix(Prefix(tokens, plan.kept), 0) = <<>>
      <3>1. /\ Prefix(Prefix(tokens, plan.kept), 0) \in Seq(Tokens)
            /\ Len(Prefix(Prefix(tokens, plan.kept), 0)) = 0
        BY <1>5, <2>2, PrefixFacts
      <3> QED  BY <3>1, EmptySeq
    <2>5. Agrees(cells', o, held[o])
      BY <1>1, <1>2, <1>4, <1>7, RemoveSpares
    <2>6. /\ held' \in [Sequences -> Seq(Tokens)] /\ held'[s] = <<>> /\ held'[o] = held[o]
      BY <1>2, <1>7, EmptySeq
    <2> QED  BY <1>2, <2>1, <2>3, <2>4, <2>5, <2>6 DEF LlamaInv
  <1>8. CASE cells' = kept \cup new /\ held' = [held EXCEPT ![s] = tokens]
    <2>1. suffix \in Seq(Tokens)
      <3>1. \A i \in plan.kept + 1 .. Len(tokens) : tokens[i] \in Tokens
        <4>1. \A i \in 1 .. Len(tokens) : tokens[i] \in Tokens
          BY ElementOfSeq
        <4> QED  BY <1>4, <4>1
      <3> QED  BY <1>4, <3>1, SubSeqProperties
    <2>2. Prefix(tokens, plan.kept) \o suffix = tokens
      <3>1. /\ 1 \in 1 .. Len(tokens) + 1 /\ plan.kept \in 1 - 1 .. Len(tokens)
            /\ Len(tokens) \in plan.kept .. Len(tokens)
        BY <1>1, <1>4
      <3>2. SubSeq(tokens, 1, plan.kept) \o SubSeq(tokens, plan.kept + 1, Len(tokens))
                = SubSeq(tokens, 1, Len(tokens))
        BY <3>1, ConcatAdjacentSubSeq
      <3> QED  BY <3>2, SubSeqFull DEF Prefix
    <2> HIDE DEF suffix
    <2>3. /\ kept \cup new \in SUBSET Cells
          /\ Agrees(kept \cup new, s, Prefix(tokens, plan.kept) \o suffix)
          /\ Owned(kept \cup new, o) = Owned(kept, o)
      <3> DEFINE p == Prefix(tokens, plan.kept)
      <3>1. kept \in SUBSET Cells /\ p \in Seq(Tokens) /\ Agrees(kept, s, p)
        BY <1>1, <1>5
      <3> HIDE DEF p
      <3>2. /\ kept \cup Decoded(kept, s, suffix) \in SUBSET Cells
            /\ Agrees(kept \cup Decoded(kept, s, suffix), s, p \o suffix)
            /\ \A x \in Sequences : x # s =>
                    Owned(kept \cup Decoded(kept, s, suffix), x) = Owned(kept, x)
        BY <2>1, <3>1, DecodeExtends
      <3> QED  BY <1>2, <3>2 DEF new, p
    <2>4. Agrees(kept \cup new, o, held[o])
      BY <1>1, <2>3 DEF Agrees
    <2>5. /\ held' \in [Sequences -> Seq(Tokens)] /\ held'[s] = tokens /\ held'[o] = held[o]
      BY <1>2, <1>8
    <2> QED  BY <1>2, <1>8, <2>2, <2>3, <2>4, <2>5 DEF LlamaInv
  <1> QED  BY <1>3, <1>6, <1>7, <1>8

\* The invariant says what the property says: one cell for each token.
LEMMA InvariantCounts ==
    ASSUME LlamaInv
    PROVE  MemoryFollowsTokens
  <1> SUFFICES ASSUME NEW s \in Sequences
               PROVE  /\ {c.path : c \in Owned(cells, s)} = {Prefix(held[s], i) : i \in 1 .. Len(held[s])}
                      /\ Cardinality(Owned(cells, s)) = Len(held[s])
    BY DEF MemoryFollowsTokens, Prefix
  <1> DEFINE t == held[s]
             owned == Owned(cells, s)
             f == [i \in 1 .. Len(t) |-> CHOOSE c \in owned : c.path = Prefix(t, i)]
  <1>1. t \in Seq(Tokens) /\ Agrees(cells, s, t)
    BY DEF LlamaInv
  <1>2. Len(t) \in Nat
    BY <1>1, LenProperties
  <1>3. /\ \A c \in owned : Len(c.path) \in 1 .. Len(t) /\ c.path = Prefix(t, Len(c.path))
        /\ \A i \in 1 .. Len(t) : \E c \in owned : c.path = Prefix(t, i)
        /\ \A c, d \in owned : c.path = d.path => c = d
    BY <1>1 DEF Agrees
  <1>4. {c.path : c \in owned} = {Prefix(t, i) : i \in 1 .. Len(t)}
    BY <1>3
  <1>5. \A i \in 1 .. Len(t) : f[i] \in owned /\ f[i].path = Prefix(t, i)
    BY <1>3
  <1>6. \A i \in 1 .. Len(t) : Len(f[i].path) = i
    <2> TAKE i \in 1 .. Len(t)
    <2>1. i \in 0 .. Len(t)
      BY <1>2
    <2> QED  BY <1>1, <1>5, <2>1, PrefixFacts
  <1>7. f \in [1 .. Len(t) -> owned]
    BY <1>5
  <1> HIDE DEF f, owned, t
  <1>8. f \in Injection(1 .. Len(t), owned)
    BY <1>6, <1>7 DEF Injection, IsInjective
  <1>9. f \in Surjection(1 .. Len(t), owned)
    <2>1. \A c \in owned : \E i \in 1 .. Len(t) : f[i] = c
      BY <1>3, <1>5
    <2> QED  BY <1>7, <2>1 DEF Surjection
  <1>10. ExistsBijection(1 .. Len(t), owned)
    BY <1>8, <1>9 DEF ExistsBijection, Bijection
  <1>11. Cardinality(owned) = Len(t)
    BY <1>2, <1>10, FS_CountingElements
  <1> QED  BY <1>4, <1>11 DEF owned, t

\* Whatever requests the connections make of the shared context, each of
\* its sequences holds exactly the tokens sequence_tokens records for it:
\* what logits skips was decoded after the very same tokens.
THEOREM CacheFollowsTokens == LlamaSpec => []MemoryFollowsTokens
  <1>1. LlamaInit => LlamaInv
    <2> SUFFICES ASSUME LlamaInit
                 PROVE  LlamaInv
      OBVIOUS
    <2>1. cells = {} /\ held = [s \in Sequences |-> <<>>]
      BY DEF LlamaInit
    <2>2. \A s \in Sequences : Agrees(cells, s, <<>>)
      BY <2>1, EmptyAgrees DEF Owned
    <2> QED  BY <2>1, <2>2, EmptySeq DEF LlamaInv
  <1>2. LlamaInv /\ [LlamaNext]_llamaVars => LlamaInv'
    <2> SUFFICES ASSUME LlamaInv, [LlamaNext]_llamaVars
                 PROVE  LlamaInv'
      OBVIOUS
    <2>1. CASE LlamaNext
      BY <2>1, RequestKeeps DEF LlamaNext
    <2>2. CASE UNCHANGED llamaVars
      BY <2>2 DEF LlamaInv, Agrees, Owned, llamaVars
    <2> QED  BY <2>1, <2>2
  <1> QED  BY <1>1, <1>2, InvariantCounts, PTL DEF LlamaSpec

----------------------------------------------------------------------------
(***************************************************************************)
(* Folds.  A fold of the model is followed as a chain: f[0] is the start   *)
(* and f[k] the result of the k-th step.                                   *)
(***************************************************************************)

\* What each step of a chain keeps holds along it: K[k] are the values the
\* k-th step may give.
LEMMA ChainStays ==
    ASSUME NEW n \in Nat, NEW f, NEW K, f[0] \in K[0],
           \A k \in 1..n : f[k - 1] \in K[k - 1] => f[k] \in K[k]
    PROVE  \A k \in 0..n : f[k] \in K[k]
  <1> DEFINE bad == {k \in 0..n : f[k] \notin K[k]}
  <1>1. SUFFICES ASSUME bad # {} PROVE FALSE
    OBVIOUS
  <1>2. bad \in SUBSET Nat
    OBVIOUS
  <1>3. PICK k \in bad : \A m \in bad : k <= m
    <2> HIDE DEF bad
    <2> QED  BY <1>1, <1>2, LeastNatural
  <1>4. k \in 1..n
    OBVIOUS
  <1>5. k - 1 \in 0..n /\ k - 1 \notin bad
    BY <1>3, <1>4
  <1> QED  BY <1>4, <1>5

\* f[k] is what the first k elements of s make of base
IsChain(f, step, s, base) ==
    /\ f[0] = base
    /\ \A k \in 1..Len(s) : f[k] = step[f[k - 1]][s[k]]

\* A step that stays in S can be repeated along any sequence.
LEMMA ChainExists ==
    ASSUME NEW S, NEW T, NEW step \in [S -> [T -> S]], NEW s \in Seq(T), NEW base \in S
    PROVE  \E f \in [0..Len(s) -> S] : IsChain(f, step, s, base)
  <1> DEFINE Chain(n) == {f \in [0..n -> S] :
                            /\ f[0] = base
                            /\ \A k \in 1..n : f[k] = step[f[k - 1]][s[k]]}
             bad == {n \in 0..Len(s) : Chain(n) = {}}
  <1>1. Len(s) \in Nat /\ \A k \in 1..Len(s) : s[k] \in T
    BY LenProperties, ElementOfSeq
  <1>2. SUFFICES ASSUME bad # {} PROVE FALSE
    <2>1. Len(s) \notin bad
      BY <1>2
    <2>2. Chain(Len(s)) # {}
      <3> HIDE DEF Chain
      <3> QED  BY <1>1, <2>1
    <2> QED  BY <2>2 DEF IsChain
  <1>3. bad \in SUBSET Nat
    BY <1>1
  <1>4. PICK n \in bad : \A m \in bad : n <= m
    <2> HIDE DEF bad
    <2> QED  BY <1>2, <1>3, LeastNatural
  <1>5. n \in 0..Len(s) /\ Chain(n) = {}
    <2> HIDE DEF Chain
    <2> QED  OBVIOUS
  <1>6. n # 0
    <2>1. [k \in 0..0 |-> base] \in Chain(0)
      OBVIOUS
    <2> QED  BY <1>5, <2>1
  <1>7. n - 1 \in 0..Len(s) /\ n - 1 \notin bad /\ n \in 1..Len(s)
    <2> HIDE DEF bad
    <2> QED  BY <1>1, <1>4, <1>5, <1>6
  <1>8. PICK f \in Chain(n - 1) : TRUE
    <2> HIDE DEF Chain
    <2> QED  BY <1>7
  <1> DEFINE g == [k \in 0..n |-> IF k = n THEN step[f[n - 1]][s[n]] ELSE f[k]]
  <1>9. n \in Nat /\ n - 1 \in 0..(n - 1) /\ f \in [0..(n - 1) -> S] /\ f[n - 1] \in S
    BY <1>1, <1>7, <1>8
  <1>10. step[f[n - 1]][s[n]] \in S
    BY SMTT(30), <1>1, <1>7, <1>9
  <1>11. g \in [0..n -> S]
    BY <1>9, <1>10
  <1>12. g[0] = base
    BY <1>6, <1>8, <1>9
  <1>13. ASSUME NEW k \in 1..n PROVE g[k] = step[g[k - 1]][s[k]]
    <2>1. k - 1 \in 0..n /\ k - 1 # n /\ g[k - 1] = f[k - 1]
      BY <1>9
    <2>2. CASE k = n
      BY <2>1, <2>2
    <2>3. CASE k # n
      <3>1. k \in 1..(n - 1) /\ k \in 0..n
        BY <1>9, <2>3
      <3>2. f[k] = step[f[k - 1]][s[k]]
        BY <1>8, <3>1
      <3> QED  BY <2>1, <2>3, <3>1, <3>2
    <2> QED  BY <2>2, <2>3
  <1>14. g \in Chain(n)
    <2> HIDE DEF g
    <2> QED  BY <1>11, <1>12, <1>13
  <1> QED  BY <1>5, <1>14

\* What a chain keeps at every step it has at the end.
LEMMA ChainEnds ==
    ASSUME NEW S, NEW n \in Nat, NEW f, f[0] \in S,
           \A k \in 1..n : f[k - 1] \in S => f[k] \in S
    PROVE  f[n] \in S
  <1> DEFINE K == [k \in 0..n |-> S]
  <1>1. f[0] \in K[0]
    OBVIOUS
  <1>2. ASSUME NEW k \in 1..n, f[k - 1] \in K[k - 1] PROVE f[k] \in K[k]
    <2>1. k - 1 \in 0..n /\ k \in 0..n
      OBVIOUS
    <2> QED  BY <1>2, <2>1
  <1>3. \A k \in 0..n : f[k] \in K[k]
    <2> HIDE DEF K
    <2> QED  BY <1>1, <1>2, ChainStays
  <1> QED  BY <1>3

Retaining(f, s, keep) ==
    /\ f[0] = << >>
    /\ \A k \in 1..Len(s) :
          f[k] = IF s[k] \in keep THEN Append(f[k - 1], s[k]) ELSE f[k - 1]
    /\ f[Len(s)] = Retained(s, keep)

\* Retaining (Vec::retain) as a chain.
LEMMA RetainedChain ==
    ASSUME NEW S, NEW s \in Seq(S), NEW keep
    PROVE  \E f \in [0..Len(s) -> Seq(S)] : Retaining(f, s, keep)
  <1> DEFINE Applied(t, x) == IF x \in keep THEN Append(t, x) ELSE t
             step == [t \in Seq(S) |-> [x \in S |-> Applied(t, x)]]
             Eq(f) == f = [i \in 0..Len(s) |-> IF i = 0 THEN << >> ELSE Applied(f[i - 1], s[i])]
             it == CHOOSE f : Eq(f)
  <1>1. Len(s) \in Nat /\ \A k \in 1..Len(s) : s[k] \in S
    BY LenProperties, ElementOfSeq
  <1>2. \A t \in Seq(S), x \in S : Applied(t, x) \in Seq(S) /\ step[t][x] = Applied(t, x)
    BY AppendProperties
  <1>3. step \in [Seq(S) -> [S -> Seq(S)]] /\ << >> \in Seq(S)
    BY <1>2
  <1>4. PICK f \in [0..Len(s) -> Seq(S)] : IsChain(f, step, s, << >>)
    <2> HIDE DEF step
    <2> QED  BY <1>3, ChainExists
  <1>5. \A k \in 1..Len(s) : f[k] = Applied(f[k - 1], s[k])
    <2> HIDE DEF step, Applied
    <2>1. \A k \in 1..Len(s) : f[k - 1] \in Seq(S)
      BY <1>1
    <2> QED  BY <1>1, <1>2, <1>4, <2>1 DEF IsChain
  <1>6. Eq(f)
    <2> HIDE DEF Applied
    <2>1. \A i \in 0..Len(s) : f[i] = IF i = 0 THEN << >> ELSE Applied(f[i - 1], s[i])
      BY <1>1, <1>4, <1>5 DEF IsChain
    <2> QED  BY <2>1
  <1>7. Eq(it)
    <2> HIDE DEF Eq
    <2> QED  BY <1>6
  <1>8. Retained(s, keep) = it[Len(s)]
    BY DEF Retained, Fold
  <1>9. it[Len(s)] = f[Len(s)]
    <2> DEFINE K == [k \in 0..Len(s) |-> {f[k]}]
    <2> HIDE DEF it, Applied
    <2>1. \A i \in 0..Len(s) : it[i] = IF i = 0 THEN << >> ELSE Applied(it[i - 1], s[i])
      BY <1>7
    <2>2. it[0] \in K[0]
      BY <1>1, <1>4, <2>1 DEF IsChain
    <2>3. ASSUME NEW k \in 1..Len(s), it[k - 1] \in K[k - 1] PROVE it[k] \in K[k]
      <3>1. k - 1 \in 0..Len(s) /\ k \in 0..Len(s) /\ k # 0
        BY <1>1
      <3> QED  BY <1>5, <2>1, <2>3, <3>1
    <2>4. \A k \in 0..Len(s) : it[k] \in K[k]
      <3> HIDE DEF K
      <3> QED  BY <1>1, <2>2, <2>3, ChainStays
    <2> QED  BY <1>1, <2>4
  <1> QED  BY <1>4, <1>5, <1>8, <1>9 DEF IsChain, Retaining

\* The elements of a sequence, by position.
LEMMA ElementFacts ==
    ASSUME NEW S, NEW s \in Seq(S)
    PROVE  /\ ToSet(s) \in SUBSET S
           /\ \A i \in 1..Len(s) : s[i] \in ToSet(s)
           /\ \A x \in ToSet(s) : \E i \in 1..Len(s) : s[i] = x
  <1>1. DOMAIN s = 1..Len(s) /\ \A i \in 1..Len(s) : s[i] \in S
    BY LenProperties, ElementOfSeq
  <1> QED  BY <1>1 DEF ToSet

\* An element is added at the end.
LEMMA AppendFacts ==
    ASSUME NEW S, NEW s \in Seq(S), NEW x \in S
    PROVE  /\ Append(s, x) \in Seq(S)
           /\ ToSet(Append(s, x)) = ToSet(s) \cup {x}
  <1> DEFINE t == Append(s, x)
  <1>1. /\ t \in Seq(S) /\ Len(t) = Len(s) + 1
        /\ \A i \in 1..Len(s) : t[i] = s[i]
        /\ t[Len(s) + 1] = x
    BY AppendProperties
  <1> HIDE DEF t
  <1>2. Len(s) \in Nat
    BY LenProperties
  <1>3. ToSet(t) \subseteq ToSet(s) \cup {x}
    <2>1. \A y \in ToSet(t) : \E i \in 1..(Len(s) + 1) : t[i] = y
      BY <1>1, ElementFacts
    <2>2. \A i \in 1..(Len(s) + 1) : i \in 1..Len(s) \/ i = Len(s) + 1
      BY <1>2
    <2>3. \A i \in 1..Len(s) : s[i] \in ToSet(s)
      BY ElementFacts
    <2> QED  BY <1>1, <2>1, <2>2, <2>3
  <1>4. ToSet(s) \cup {x} \subseteq ToSet(t)
    <2>1. \A i \in 1..(Len(s) + 1) : t[i] \in ToSet(t)
      BY <1>1, ElementFacts
    <2>2. \A y \in ToSet(s) : \E i \in 1..Len(s) : s[i] = y
      BY ElementFacts
    <2>3. \A i \in 1..Len(s) : i \in 1..(Len(s) + 1)
      BY <1>2
    <2>4. Len(s) + 1 \in 1..(Len(s) + 1)
      BY <1>2
    <2> QED  BY <1>1, <2>1, <2>2, <2>3, <2>4
  <1> QED  BY <1>1, <1>3, <1>4 DEF t

\* What is retained is what was there and is to be kept.
LEMMA RetainedFacts ==
    ASSUME NEW S, NEW s \in Seq(S), NEW keep
    PROVE  /\ Retained(s, keep) \in Seq(S)
           /\ ToSet(Retained(s, keep)) = ToSet(s) \cap keep
  <1>1. PICK f \in [0..Len(s) -> Seq(S)] : Retaining(f, s, keep)
    BY RetainedChain
  <1>2. Len(s) \in Nat /\ \A k \in 1..Len(s) : s[k] \in S
    BY LenProperties, ElementOfSeq
  <1> DEFINE Seen(k) == {x \in keep : \E i \in 1..k : s[i] = x}
             K == [k \in 0..Len(s) |-> {t \in Seq(S) : ToSet(t) = Seen(k)}]
  <1>3. f[0] \in K[0]
    <2>1. ToSet(<< >>) = {}
      BY DEF ToSet
    <2> QED  BY <1>1, <1>2, <2>1 DEF Retaining
  <1>4. ASSUME NEW k \in 1..Len(s), f[k - 1] \in K[k - 1] PROVE f[k] \in K[k]
    <2>1. k - 1 \in 0..Len(s) /\ k \in 0..Len(s)
      BY <1>2
    <2>2. f[k - 1] \in Seq(S) /\ ToSet(f[k - 1]) = Seen(k - 1)
      BY <1>4, <2>1
    <2>3. \A i \in 1..k : i \in 1..(k - 1) \/ i = k
      BY <1>2
    <2>4. \A i \in 1..(k - 1) : i \in 1..k
      BY <1>2
    <2>5. k \in 1..k
      BY <1>2
    <2>6. CASE s[k] \in keep
      <3>1. f[k] \in Seq(S) /\ ToSet(f[k]) = Seen(k - 1) \cup {s[k]}
        BY <1>1, <1>2, <2>2, <2>6, AppendFacts DEF Retaining
      <3>2. Seen(k) = Seen(k - 1) \cup {s[k]}
        BY <2>3, <2>4, <2>5, <2>6
      <3> QED  BY <2>1, <3>1, <3>2
    <2>7. CASE s[k] \notin keep
      <3>1. f[k] = f[k - 1]
        BY <1>1, <2>7 DEF Retaining
      <3>2. Seen(k) = Seen(k - 1)
        BY <2>3, <2>4, <2>5, <2>7
      <3> QED  BY <2>1, <2>2, <3>1, <3>2
    <2> QED  BY <2>6, <2>7
  <1>5. f[Len(s)] \in K[Len(s)]
    <2> HIDE DEF K
    <2>1. \A k \in 0..Len(s) : f[k] \in K[k]
      BY <1>2, <1>3, <1>4, ChainStays
    <2> QED  BY <1>2, <2>1
  <1>6. Retained(s, keep) \in Seq(S) /\ ToSet(Retained(s, keep)) = Seen(Len(s))
    BY <1>1, <1>2, <1>5 DEF Retaining
  <1>7. Seen(Len(s)) = ToSet(s) \cap keep
    BY ElementFacts
  <1> QED  BY <1>6, <1>7

Flattening(f, seqs) ==
    /\ f[0] = << >>
    /\ \A k \in 1..Len(seqs) : f[k] = f[k - 1] \o seqs[k]
    /\ f[Len(seqs)] = FlattenSeq(seqs)

\* Joining sequences as a chain.
LEMMA FlattenChain ==
    ASSUME NEW S, NEW seqs \in Seq(Seq(S))
    PROVE  \E f \in [0..Len(seqs) -> Seq(S)] : Flattening(f, seqs)
  <1> DEFINE n == Len(seqs)
             all == Seq(S)
             step == [t \in all |-> [x \in all |-> t \o x]]
             Eq(g) == g = [i \in 1..n |-> IF i = 1 THEN seqs[i] ELSE g[i - 1] \o seqs[i]]
             it == CHOOSE g : Eq(g)
  <1>1. n \in Nat /\ (\A k \in 1..n : seqs[k] \in all) /\ seqs \in Seq(all)
    BY LenProperties, ElementOfSeq
  <1>2. /\ \A t, x \in all : t \o x \in all /\ step[t][x] = t \o x
        /\ \A x \in all : << >> \o x = x
    BY ConcatProperties, ConcatEmptySeq
  <1>3. step \in [all -> [all -> all]] /\ << >> \in all
    BY <1>2
  <1>4. PICK f \in [0..n -> all] : IsChain(f, step, seqs, << >>)
    <2> HIDE DEF step, all
    <2> QED  BY <1>1, <1>3, ChainExists
  <1>5. f[0] = << >> /\ \A k \in 1..n : f[k] = f[k - 1] \o seqs[k]
    <2> HIDE DEF step, all
    <2>1. \A k \in 1..n : k - 1 \in 0..n
      BY <1>1
    <2>2. \A k \in 1..n : f[k - 1] \in all /\ seqs[k] \in all
      BY <1>1, <1>4, <2>1
    <2> QED  BY <1>2, <1>4, <2>2 DEF IsChain
  <1>6. CASE n = 0
    <2>1. seqs = << >>
      BY <1>6, EmptySeq
    <2>2. FlattenSeq(seqs) = seqs
      BY <1>6 DEF FlattenSeq
    <2> QED  BY <1>4, <1>5, <1>6, <2>1, <2>2 DEF Flattening
  <1>7. CASE n # 0
    <2> HIDE DEF step
    <2>1. f[1] = seqs[1]
      <3>1. 1 \in 1..n
        BY <1>1, <1>7
      <3> HIDE DEF all, n
      <3>2. f[1] = f[0] \o seqs[1]
        <4>1. 1 - 1 = 0
          OBVIOUS
        <4>2. f[1] = f[1 - 1] \o seqs[1]
          BY <1>5, <3>1
        <4> QED  BY <4>1, <4>2
      <3> QED  BY <1>1, <1>2, <1>5, <3>1, <3>2
    <2>2. Eq([i \in 1..n |-> f[i]])
      <3> DEFINE g == [i \in 1..n |-> f[i]]
      <3>1. \A i \in 1..n : g[i] = IF i = 1 THEN seqs[i] ELSE g[i - 1] \o seqs[i]
        <4>1. \A i \in 1..n : i # 1 => i - 1 \in 1..n
          BY <1>1
        <4> QED  BY <1>5, <2>1, <4>1
      <3> QED  BY <3>1
    <2>3. Eq(it)
      <3> HIDE DEF Eq
      <3> QED  BY <2>2
    <2>4. FlattenSeq(seqs) = it[n]
      BY <1>7 DEF FlattenSeq
    <2> HIDE DEF it
    <2>5. \A i \in 1..n : it[i] = IF i = 1 THEN seqs[i] ELSE it[i - 1] \o seqs[i]
      BY <2>3
    <2> DEFINE h == [i \in 0..n |-> IF i = 0 THEN << >> ELSE it[i]]
               K == [i \in 0..n |-> {f[i]}]
    <2>6. h[0] \in K[0]
      BY <1>1, <1>5
    <2>7. ASSUME NEW k \in 1..n, h[k - 1] \in K[k - 1] PROVE h[k] \in K[k]
      <3>1. k - 1 \in 0..n /\ k \in 0..n /\ k # 0 /\ (k # 1 => k - 1 # 0)
        BY <1>1
      <3>2. h[k] = it[k]
        BY <3>1
      <3>3. CASE k = 1
        BY <2>1, <2>5, <3>1, <3>2, <3>3
      <3>4. CASE k # 1
        <4>1. it[k - 1] = f[k - 1]
          BY <2>7, <3>1, <3>4
        <4> QED  BY ZenonT(30), <1>5, <2>5, <3>1, <3>2, <3>4, <4>1
      <3> QED  BY <3>3, <3>4
    <2>8. \A k \in 0..n : h[k] \in K[k]
      <3> HIDE DEF K, h
      <3> QED  BY <1>1, <2>6, <2>7, ChainStays
    <2>9. it[n] = f[n]
      BY <1>1, <1>7, <2>8
    <2> QED  BY <1>4, <1>5, <2>4, <2>9 DEF Flattening
  <1> QED  BY <1>6, <1>7

\* The first elements of a sequence.
LEMMA TakeFacts ==
    ASSUME NEW S, NEW s \in Seq(S), NEW n \in Nat
    PROVE  /\ Take(s, n) \in Seq(S)
           /\ Len(Take(s, n)) = IF n > Len(s) THEN Len(s) ELSE n
           /\ \A i \in 1..Len(Take(s, n)) : Take(s, n)[i] = s[i] /\ i \in 1..Len(s)
  <1> DEFINE m == IF n > Len(s) THEN Len(s) ELSE n
  <1>1. Len(s) \in Nat /\ m \in 0..Len(s) /\ \A i \in 1..Len(s) : s[i] \in S
    BY LenProperties, ElementOfSeq
  <1>2. Take(s, n) = SubSeq(s, 1, m)
    BY DEF Take
  <1> HIDE DEF m
  <1>3. \A i \in 1..m : s[i] \in S /\ i \in 1..Len(s)
    BY <1>1
  <1>4. /\ SubSeq(s, 1, m) \in Seq(S)
        /\ Len(SubSeq(s, 1, m)) = m
        /\ \A i \in 1..m : SubSeq(s, 1, m)[i] = s[i]
    BY <1>1, <1>3, SubSeqProperties
  <1> QED  BY <1>2, <1>3, <1>4 DEF m

\* A sequence is one of its own elements.
LEMMA OwnElements ==
    ASSUME NEW S, NEW s \in Seq(S)
    PROVE  s \in Seq(ToSet(s))
  <1>1. Len(s) \in Nat /\ DOMAIN s = 1..Len(s) /\ s = [i \in 1..Len(s) |-> s[i]]
    BY LenProperties
  <1>2. \A i \in 1..Len(s) : s[i] \in ToSet(s)
    BY ElementFacts
  <1>3. [i \in 1..Len(s) |-> s[i]] \in [1..Len(s) -> ToSet(s)]
    BY <1>2
  <1> QED  BY <1>1, <1>3, SeqDef

\* Elements of a subset, or of a larger set.
LEMMA Narrowed ==
    ASSUME NEW S, NEW T, NEW s \in Seq(S), \A x \in ToSet(s) : x \in T
    PROVE  s \in Seq(T)
  <1>1. Len(s) \in Nat /\ s = [i \in 1..Len(s) |-> s[i]]
    BY LenProperties
  <1>2. \A i \in 1..Len(s) : s[i] \in T
    BY ElementFacts
  <1>3. [i \in 1..Len(s) |-> s[i]] \in [1..Len(s) -> T]
    BY <1>2
  <1> QED  BY <1>1, <1>3, SeqDef

\* A function on 1..n is a sequence.
LEMMA SeqMade ==
    ASSUME NEW S, NEW n \in Nat, NEW s \in [1..n -> S]
    PROVE  s \in Seq(S) /\ Len(s) = n
  <1>1. s \in Seq(S)
    BY SeqDef
  <1> QED  BY <1>1, LenProperties

\* A slice.
LEMMA SliceFacts ==
    ASSUME NEW S, NEW s \in Seq(S), NEW m \in Nat, m > 0, NEW n \in Nat, n <= Len(s)
    PROVE  /\ SubSeq(s, m, n) \in Seq(S)
           /\ Len(SubSeq(s, m, n)) = IF m <= n THEN n - m + 1 ELSE 0
           /\ \A i \in 1..(n - m + 1) : SubSeq(s, m, n)[i] = s[m + i - 1]
  <1>1. \A i \in 1..Len(s) : s[i] \in S
    BY ElementOfSeq
  <1>2. \A i \in m..n : i \in 1..Len(s)
    BY LenProperties
  <1>3. \A i \in m..n : s[i] \in S
    BY <1>1, <1>2
  <1> QED  BY <1>3, SubSeqProperties

\* What is retained of a sequence of S is in S and is kept.
LEMMA RetainedWithin ==
    ASSUME NEW S, NEW s \in Seq(S), NEW keep
    PROVE  Retained(s, keep) \in Seq(S \cap keep)
  <1>1. Retained(s, keep) \in Seq(S) /\ ToSet(Retained(s, keep)) = ToSet(s) \cap keep
    BY RetainedFacts
  <1>2. \A x \in ToSet(Retained(s, keep)) : x \in S \cap keep
    BY <1>1, ElementFacts
  <1> QED  BY <1>1, <1>2, Narrowed

\* Joined sequences have the elements of their parts.
LEMMA FlattenFacts ==
    ASSUME NEW S, NEW seqs \in Seq(Seq(S))
    PROVE  FlattenSeq(seqs) \in Seq(S)
  <1>1. PICK f \in [0..Len(seqs) -> Seq(S)] : Flattening(f, seqs)
    BY FlattenChain
  <1>2. Len(seqs) \in 0..Len(seqs)
    BY LenProperties
  <1> QED  BY <1>1, <1>2 DEF Flattening

\* Sorting by value (sort_by) loses and invents nothing.
LEMMA RankedFacts ==
    ASSUME NEW S, NEW s \in Seq(S), NEW value
    PROVE  /\ Ranked(s, value) \in Seq(S)
           /\ s # <<>> => Ranked(s, value) # <<>>
  <1> DEFINE Ahead(t, x) == {y \in ToSet(t) : value[y] >= value[x]}
             Applied(t, x) == Retained(t, Ahead(t, x)) \o <<x>> \o Retained(t, ToSet(t) \ Ahead(t, x))
             step == [t \in Seq(S) |-> [x \in S |-> Applied(t, x)]]
             Eq(f) == f = [i \in 0..Len(s) |-> IF i = 0 THEN <<>> ELSE Applied(f[i - 1], s[i])]
             it == CHOOSE f : Eq(f)
  <1>1. Len(s) \in Nat /\ \A k \in 1..Len(s) : s[k] \in S
    BY LenProperties, ElementOfSeq
  <1>2. ASSUME NEW t \in Seq(S), NEW x \in S
        PROVE  Applied(t, x) \in Seq(S) /\ Len(Applied(t, x)) > 0
    <2> DEFINE a == Retained(t, Ahead(t, x))
               b == Retained(t, ToSet(t) \ Ahead(t, x))
    <2>1. a \in Seq(S) /\ b \in Seq(S)
      BY RetainedFacts
    <2> HIDE DEF a, b
    <2>2. <<x>> \in Seq(S) /\ Len(<<x>>) = 1
      OBVIOUS
    <2>3. a \o <<x>> \in Seq(S) /\ Len(a \o <<x>>) = Len(a) + 1
      BY <2>1, <2>2, ConcatProperties
    <2>4. /\ a \o <<x>> \o b \in Seq(S)
          /\ Len(a \o <<x>> \o b) = Len(a \o <<x>>) + Len(b)
      BY <2>1, <2>3, ConcatProperties
    <2>5. Len(a) \in Nat /\ Len(b) \in Nat
      BY <2>1, LenProperties
    <2>6. Len(a \o <<x>> \o b) > 0
      BY <2>3, <2>4, <2>5
    <2> QED  BY <2>4, <2>6 DEF a, b
  <1> HIDE DEF Applied
  <1>3. step \in [Seq(S) -> [S -> Seq(S)]] /\ <<>> \in Seq(S)
    BY <1>2
  <1>4. PICK f \in [0..Len(s) -> Seq(S)] : IsChain(f, step, s, <<>>)
    <2> HIDE DEF step
    <2> QED  BY <1>3, ChainExists
  <1>5. \A k \in 1..Len(s) : f[k] = Applied(f[k - 1], s[k])
    <2>1. \A k \in 1..Len(s) : f[k - 1] \in Seq(S)
      BY <1>1
    <2> QED  BY <1>1, <1>4, <2>1 DEF IsChain
  <1>6. Eq(f)
    <2>1. \A i \in 0..Len(s) : f[i] = IF i = 0 THEN <<>> ELSE Applied(f[i - 1], s[i])
      BY <1>1, <1>4, <1>5 DEF IsChain
    <2> QED  BY <2>1
  <1>7. Eq(it)
    <2> HIDE DEF Eq
    <2> QED  BY <1>6
  <1>8. Ranked(s, value) = it[Len(s)]
    BY DEF Ranked, Fold, Applied
  <1> HIDE DEF it
  <1>9. \A i \in 0..Len(s) : it[i] = IF i = 0 THEN <<>> ELSE Applied(it[i - 1], s[i])
    BY <1>7
  <1> DEFINE K == [k \in 0..Len(s) |-> {t \in Seq(S) : k > 0 => Len(t) > 0}]
  <1>10. it[0] \in K[0]
    <2>1. 0 \in 0..Len(s)
      BY <1>1
    <2>2. it[0] = <<>>
      BY <1>9, <2>1
    <2>3. K[0] = {t \in Seq(S) : 0 > 0 => Len(t) > 0}
      BY <2>1
    <2> QED  BY <1>3, <2>2, <2>3
  <1>11. ASSUME NEW k \in 1..Len(s), it[k - 1] \in K[k - 1] PROVE it[k] \in K[k]
    <2>1. k - 1 \in 0..Len(s) /\ k \in 0..Len(s) /\ k # 0
      BY <1>1
    <2>2. it[k] = Applied(it[k - 1], s[k]) /\ it[k - 1] \in Seq(S)
      BY <1>9, <1>11, <2>1
    <2> QED  BY <1>1, <1>2, <2>1, <2>2
  <1>12. \A k \in 0..Len(s) : it[k] \in K[k]
    <2> HIDE DEF K
    <2> QED  BY <1>1, <1>10, <1>11, ChainStays
  <1>13. Len(s) \in 0..Len(s) /\ (s # <<>> => Len(s) > 0)
    BY <1>1, EmptySeq
  <1>14. it[Len(s)] \in Seq(S) /\ (Len(s) > 0 => Len(it[Len(s)]) > 0)
    BY <1>12, <1>13
  <1>15. Len(<<>>) = 0
    OBVIOUS
  <1> QED  BY <1>8, <1>13, <1>14, <1>15

----------------------------------------------------------------------------
(***************************************************************************)
(* Drafts.  A text is a sequence of tokens, a path one of entries of the   *)
(* dictionary.                                                             *)
(***************************************************************************)
Text == Seq(Tokens)
Entries == ToSet(Dictionary)
Paths == Seq(Entries)

LEMMA EntryFacts ==
    ASSUME NEW e \in Entries
    PROVE  e.ruby \in Text /\ e.word \in Text
  <1> DEFINE Typed == [ruby : Seq(Tokens), word : Seq(Tokens), value : Int,
                       source : {"system", "learned", "user"}]
  <1>1. Dictionary \in Seq(Typed)
    BY LanguageAssumption
  <1> HIDE DEF Typed
  <1>2. e \in Typed
    BY <1>1, ElementFacts DEF Entries
  <1> QED  BY <1>2 DEF Typed, Text

\* The words of a path are a text.
LEMMA WordFacts ==
    ASSUME NEW p \in Paths
    PROVE  WordOf(p) \in Text /\ (p = <<>> => WordOf(p) = <<>>)
  <1> DEFINE n == Len(p)
             step == [t \in Text |-> [e \in Entries |-> t \o e.word]]
             Eq(f) == f = [i \in 0..n |-> IF i = 0 THEN <<>> ELSE f[i - 1] \o p[i].word]
             it == CHOOSE f : Eq(f)
  <1>1. n \in Nat /\ (\A k \in 1..n : p[k] \in Entries) /\ p \in Seq(Entries)
    BY LenProperties, ElementOfSeq DEF Paths
  <1>2. \A t \in Text, e \in Entries : t \o e.word \in Text
    BY EntryFacts, ConcatProperties DEF Text
  <1>3. step \in [Text -> [Entries -> Text]] /\ <<>> \in Text
    BY <1>2 DEF Text
  <1>4. PICK f \in [0..n -> Text] : IsChain(f, step, p, <<>>)
    <2> HIDE DEF step
    <2> QED  BY <1>1, <1>3, ChainExists
  <1>5. \A k \in 1..n : f[k] = f[k - 1] \o p[k].word
    <2>1. \A k \in 1..n : f[k - 1] \in Text
      BY <1>1
    <2> QED  BY <1>1, <1>4, <2>1 DEF IsChain
  <1>6. Eq(f)
    <2>1. \A i \in 0..n : f[i] = IF i = 0 THEN <<>> ELSE f[i - 1] \o p[i].word
      BY <1>1, <1>4, <1>5 DEF IsChain
    <2> QED  BY <2>1
  <1>7. Eq(it)
    <2> HIDE DEF Eq
    <2> QED  BY <1>6
  <1>8. WordOf(p) = it[n]
    BY DEF WordOf, Fold
  <1> HIDE DEF it, n
  <1>9. \A i \in 0..n : it[i] = IF i = 0 THEN <<>> ELSE it[i - 1] \o p[i].word
    BY <1>7
  <1>10. it[0] \in Text
    <2>1. 0 \in 0..n
      BY <1>1
    <2> QED  BY <1>3, <1>9, <2>1
  <1>11. ASSUME NEW k \in 1..n, it[k - 1] \in Text PROVE it[k] \in Text
    <2>1. k \in 0..n /\ k # 0
      BY <1>1
    <2>2. it[k] = it[k - 1] \o p[k].word
      BY <1>9, <2>1
    <2> QED  BY <1>1, <1>2, <1>11, <2>2
  <1>12. it[n] \in Text
    BY <1>1, <1>10, <1>11, ChainEnds
  <1>13. p = <<>> => it[n] = <<>>
    <2>1. p = <<>> => n = 0
      BY DEF n
    <2>2. 0 \in 0..n
      BY <1>1
    <2>3. it[0] = <<>>
      BY <1>9, <2>2
    <2> QED  BY <2>1, <2>3
  <1> QED  BY <1>8, <1>12, <1>13

\* And so are their readings.
LEMMA RubyFacts ==
    ASSUME NEW p \in Paths
    PROVE  RubyOf(p) \in Text /\ (p = <<>> => RubyOf(p) = <<>>)
  <1> DEFINE n == Len(p)
             step == [t \in Text |-> [e \in Entries |-> t \o e.ruby]]
             Eq(f) == f = [i \in 0..n |-> IF i = 0 THEN <<>> ELSE f[i - 1] \o p[i].ruby]
             it == CHOOSE f : Eq(f)
  <1>1. n \in Nat /\ (\A k \in 1..n : p[k] \in Entries) /\ p \in Seq(Entries)
    BY LenProperties, ElementOfSeq DEF Paths
  <1>2. \A t \in Text, e \in Entries : t \o e.ruby \in Text
    BY EntryFacts, ConcatProperties DEF Text
  <1>3. step \in [Text -> [Entries -> Text]] /\ <<>> \in Text
    BY <1>2 DEF Text
  <1>4. PICK f \in [0..n -> Text] : IsChain(f, step, p, <<>>)
    <2> HIDE DEF step
    <2> QED  BY <1>1, <1>3, ChainExists
  <1>5. \A k \in 1..n : f[k] = f[k - 1] \o p[k].ruby
    <2>1. \A k \in 1..n : f[k - 1] \in Text
      BY <1>1
    <2> QED  BY <1>1, <1>4, <2>1 DEF IsChain
  <1>6. Eq(f)
    <2>1. \A i \in 0..n : f[i] = IF i = 0 THEN <<>> ELSE f[i - 1] \o p[i].ruby
      BY <1>1, <1>4, <1>5 DEF IsChain
    <2> QED  BY <2>1
  <1>7. Eq(it)
    <2> HIDE DEF Eq
    <2> QED  BY <1>6
  <1>8. RubyOf(p) = it[n]
    BY DEF RubyOf, Fold
  <1> HIDE DEF it, n
  <1>9. \A i \in 0..n : it[i] = IF i = 0 THEN <<>> ELSE it[i - 1] \o p[i].ruby
    BY <1>7
  <1>10. it[0] \in Text
    <2>1. 0 \in 0..n
      BY <1>1
    <2> QED  BY <1>3, <1>9, <2>1
  <1>11. ASSUME NEW k \in 1..n, it[k - 1] \in Text PROVE it[k] \in Text
    <2>1. k \in 0..n /\ k # 0
      BY <1>1
    <2>2. it[k] = it[k - 1] \o p[k].ruby
      BY <1>9, <2>1
    <2> QED  BY <1>1, <1>2, <1>11, <2>2
  <1>12. it[n] \in Text
    BY <1>1, <1>10, <1>11, ChainEnds
  <1>13. p = <<>> => it[n] = <<>>
    <2>1. p = <<>> => n = 0
      BY DEF n
    <2>2. 0 \in 0..n
      BY <1>1
    <2>3. it[0] = <<>>
      BY <1>9, <2>2
    <2> QED  BY <2>1, <2>3
  <1> QED  BY <1>8, <1>12, <1>13

PathsComplete(c) == {p \in Paths \ {<<>>} : PathComplete(c, WordOf(p), Last(p))}

\* The paths kept at one node of the search are paths.
LEMMA PathsWithFacts ==
    ASSUME NEW entry \in Entries, NEW input, NEW reaching \in Seq(Seq(Paths)),
           NEW nBest \in Nat, NEW constraint
    PROVE  PathsWith(entry, input, reaching, nBest, constraint) \in Seq(Paths)
  <1> DEFINE n == Len(reaching)
             m == n - Len(entry.ruby)
             paths == [i \in DOMAIN reaching[m + 1] |-> Append(reaching[m + 1][i], entry)]
             allowed == Retained(paths, {p \in ToSet(paths) :
                                            PathAllowed(constraint, WordOf(p), entry)})
  <1>1. n \in Nat /\ Len(entry.ruby) \in Nat /\ entry.ruby \in Text
    BY EntryFacts, LenProperties DEF Text
  <1>0. PathsWith(entry, input, reaching, nBest, constraint) =
            IF entry.ruby = <<>> \/ m < 0 \/ SubSeq(input, m + 1, n) # entry.ruby THEN <<>>
            ELSE Take(BestFirst(allowed), nBest)
    BY DEF PathsWith
  <1>2. CASE entry.ruby = <<>> \/ m < 0 \/ SubSeq(input, m + 1, n) # entry.ruby
    <2> HIDE DEF m, n, allowed
    <2>1. PathsWith(entry, input, reaching, nBest, constraint) = <<>>
      BY <1>0, <1>2
    <2> QED  BY <2>1
  <1>3. CASE ~(entry.ruby = <<>> \/ m < 0 \/ SubSeq(input, m + 1, n) # entry.ruby)
    <2>1. Len(entry.ruby) # 0
      BY <1>1, <1>3, EmptySeq DEF Text
    <2>2. m + 1 \in 1..n
      <3>1. ~ m < 0
        BY <1>3
      <3>2. \A a, b \in Nat : b # 0 /\ ~ a - b < 0 => a - b + 1 \in 1..a
        OBVIOUS
      <3> HIDE DEF n
      <3> QED  BY <1>1, <2>1, <3>1, <3>2
    <2>3. reaching[m + 1] \in Seq(Paths)
      BY <2>2, ElementOfSeq
    <2> DEFINE old == reaching[m + 1]
    <2> HIDE DEF m, n
    <2>4. Len(old) \in Nat /\ DOMAIN old = 1..Len(old) /\ \A i \in 1..Len(old) : old[i] \in Paths
      BY <2>3, LenProperties, ElementOfSeq
    <2>5. \A p \in Paths : Append(p, entry) \in Paths
      BY AppendProperties DEF Paths
    <2>6. paths \in [1..Len(old) -> Paths]
      BY <2>4, <2>5
    <2>7. paths \in Seq(Paths)
      BY <2>4, <2>6, SeqMade
    <2> HIDE DEF paths
    <2>8. allowed \in Seq(Paths)
      BY <2>7, RetainedFacts
    <2> HIDE DEF allowed
    <2>9. BestFirst(allowed) \in Seq(Paths)
      BY <2>8, RankedFacts DEF BestFirst
    <2>10. Take(BestFirst(allowed), nBest) \in Seq(Paths)
      BY <2>9, TakeFacts
    <2> QED  BY <1>0, <1>3, <2>10 DEF m, n
  <1> QED  BY <1>2, <1>3

\* What a search finds are paths that fit the constraint.
LEMMA SearchFacts ==
    ASSUME NEW input \in Text, NEW nBest \in Nat, NEW constraint
    PROVE  Search(input, nBest, constraint) \in Seq(PathsComplete(constraint))
  <1> DEFINE Tables == {t \in Seq(Seq(Paths)) : Len(t) > 0}
             Ends(t) == [i \in DOMAIN Dictionary |->
                            PathsWith(Dictionary[i], input, t, nBest, constraint)]
             Applied(t) == Append(t, FlattenSeq(Ends(t)))
             step == [t \in Tables |-> [x \in Tokens |-> Applied(t)]]
             n == Len(input)
             start == << << <<>> >> >>
             Eq(f) == f = [i \in 0..n |-> IF i = 0 THEN start ELSE Applied(f[i - 1])]
             it == CHOOSE f : Eq(f)
             found == Last(it[n])
             complete == Retained(found, {p \in ToSet(found) \ {<<>>} :
                                            PathComplete(constraint, WordOf(p), Last(p))})
  <1>1. n \in Nat /\ input \in Seq(Tokens)
    BY LenProperties DEF Text
  <1>2. Len(Dictionary) \in Nat /\ DOMAIN Dictionary = 1..Len(Dictionary)
        /\ \A i \in 1..Len(Dictionary) : Dictionary[i] \in Entries
    BY LanguageAssumption, LenProperties, ElementFacts DEF Entries
  <1>3. \A t \in Tables : Applied(t) \in Tables
    <2> TAKE t \in Tables
    <2>1. t \in Seq(Seq(Paths)) /\ Len(t) \in Nat
      BY LenProperties
    <2>2. Ends(t) \in [1..Len(Dictionary) -> Seq(Paths)]
      BY <1>2, <2>1, PathsWithFacts
    <2> HIDE DEF Ends
    <2>3. Ends(t) \in Seq(Seq(Paths))
      BY <1>2, <2>2, SeqMade
    <2>4. FlattenSeq(Ends(t)) \in Seq(Paths)
      BY <2>3, FlattenFacts
    <2>5. Applied(t) \in Seq(Seq(Paths)) /\ Len(Applied(t)) = Len(t) + 1
      BY <2>1, <2>4, AppendProperties
    <2>6. Len(Applied(t)) > 0
      BY <2>1, <2>5
    <2> QED  BY <2>5, <2>6
  <1>4. start \in Tables
    <2>1. <<>> \in Paths
      BY DEF Paths
    <2>2. << <<>> >> \in Seq(Paths)
      BY <2>1
    <2>3. start \in Seq(Seq(Paths)) /\ Len(start) = 1
      BY <2>2
    <2> QED  BY <2>3
  <1>5. step \in [Tables -> [Tokens -> Tables]]
    <2> HIDE DEF Tables, Applied
    <2> QED  BY <1>3
  <1> HIDE DEF Applied, start, Tables
  <1>6. PICK f \in [0..n -> Tables] : IsChain(f, step, input, start)
    <2> HIDE DEF step
    <2> QED  BY <1>1, <1>4, <1>5, ChainExists
  <1>7. \A k \in 1..n : f[k] = Applied(f[k - 1])
    <2>1. \A k \in 1..n : f[k - 1] \in Tables /\ input[k] \in Tokens
      BY <1>1, ElementOfSeq
    <2> QED  BY <1>1, <1>6, <2>1 DEF IsChain
  <1>8. Eq(f)
    <2>1. \A i \in 0..n : f[i] = IF i = 0 THEN start ELSE Applied(f[i - 1])
      BY <1>1, <1>6, <1>7 DEF IsChain
    <2> QED  BY <2>1
  <1>9. Eq(it)
    <2> HIDE DEF Eq
    <2> QED  BY <1>8
  <1>10. Search(input, nBest, constraint) = FirstOfEachText(BestFirst(complete))
    BY DEF Search, Fold, Applied, start
  <1> HIDE DEF it
  <1>11. \A i \in 0..n : it[i] = IF i = 0 THEN start ELSE Applied(it[i - 1])
    BY <1>9
  <1> HIDE DEF n
  <1>12. it[0] \in Tables
    <2>1. 0 \in 0..n
      BY <1>1
    <2> QED  BY <1>4, <1>11, <2>1
  <1>13. ASSUME NEW k \in 1..n, it[k - 1] \in Tables PROVE it[k] \in Tables
    <2>1. k \in 0..n /\ k # 0
      BY <1>1
    <2>2. it[k] = Applied(it[k - 1])
      BY <1>11, <2>1
    <2> QED  BY <1>3, <1>13, <2>2
  <1>14. it[n] \in Tables
    BY <1>1, <1>12, <1>13, ChainEnds
  <1>15. found \in Seq(Paths)
    <2>1. it[n] \in Seq(Seq(Paths)) /\ Len(it[n]) \in 1..Len(it[n])
      BY <1>14, LenProperties DEF Tables
    <2> QED  BY <2>1, ElementOfSeq DEF Last
  <1> HIDE DEF found
  <1>16. complete \in Seq(PathsComplete(constraint))
    <2> DEFINE keep == {p \in ToSet(found) \ {<<>>} :
                            PathComplete(constraint, WordOf(p), Last(p))}
    <2>1. Retained(found, keep) \in Seq(Paths \cap keep)
      BY <1>15, RetainedWithin
    <2>2. \A p \in Paths \cap keep : p \in PathsComplete(constraint)
      BY DEF PathsComplete
    <2> HIDE DEF keep
    <2>3. \A p \in ToSet(Retained(found, keep)) : p \in PathsComplete(constraint)
      BY <2>1, <2>2, ElementFacts
    <2>4. Retained(found, keep) \in Seq(PathsComplete(constraint))
      BY <2>1, <2>3, Narrowed
    <2> QED  BY <2>4 DEF keep
  <1> HIDE DEF complete
  <1>17. BestFirst(complete) \in Seq(PathsComplete(constraint))
    BY <1>16, RankedFacts DEF BestFirst
  <1>18. FirstOfEachText(BestFirst(complete)) \in Seq(PathsComplete(constraint))
    BY <1>17, RetainedFacts DEF FirstOfEachText
  <1> QED  BY <1>10, <1>18

----------------------------------------------------------------------------
(***************************************************************************)
(* Constraints.                                                            *)
(***************************************************************************)
Constraints == [text : Text, eos : BOOLEAN, ignore : BOOLEAN,
                fixed : SUBSET [length : Nat, ruby : Nat]]
Predictions == [ruby : Text, words : Text]
Optional(S) == {<<>>} \cup {<<x>> : x \in S}

\* A prefix as it is compared byte for byte.
LEMMA PrefixIs ==
    ASSUME NEW s \in Text, NEW t \in Text
    PROVE  IsPrefix(s, t) <=> Len(s) <= Len(t) /\ s = Prefix(t, Len(s))
  <1>1. SubSeq(s, 1, Len(s)) = s
    BY SubSeqFull DEF Text
  <1> QED  BY <1>1 DEF IsPrefix, Prefix

LEMMA PrefixReflexive ==
    ASSUME NEW s \in Text
    PROVE  IsPrefix(s, s)
  <1>1. Len(s) \in Nat
    BY LenProperties DEF Text
  <1> QED  BY <1>1 DEF IsPrefix

LEMMA PrefixTransitive ==
    ASSUME NEW s \in Text, NEW t \in Text, NEW u \in Text, IsPrefix(s, t), IsPrefix(t, u)
    PROVE  IsPrefix(s, u)
  <1>1. Len(s) \in Nat /\ Len(t) \in Nat /\ Len(u) \in Nat
    BY LenProperties DEF Text
  <1>2. Len(s) <= Len(t) /\ s = Prefix(t, Len(s)) /\ Len(t) <= Len(u) /\ t = Prefix(u, Len(t))
    BY PrefixIs
  <1>3. Len(t) \in 0 .. Len(u) /\ Len(s) \in 0 .. Len(t) /\ Len(s) <= Len(u)
    BY <1>1, <1>2
  <1>4. Prefix(Prefix(u, Len(t)), Len(s)) = Prefix(u, Len(s))
    BY <1>3, PrefixOfPrefix DEF Text
  <1>5. s = Prefix(u, Len(s))
    BY <1>2, <1>4
  <1> QED  BY <1>3, <1>5, PrefixIs

LEMMA EmptyPrefix ==
    ASSUME NEW t \in Text
    PROVE  IsPrefix(<<>>, t) /\ <<>> \in Text
  <1>1. Len(t) \in Nat /\ 0 \in 0 .. Len(t) /\ <<>> \in Text /\ Len(<<>>) = 0
    BY LenProperties DEF Text
  <1>2. Prefix(t, 0) \in Seq(Tokens) /\ Len(Prefix(t, 0)) = 0
    BY <1>1, PrefixFacts DEF Text
  <1>3. Prefix(t, 0) = <<>>
    BY <1>2, EmptySeq
  <1>4. Len(<<>>) <= Len(t) /\ <<>> = Prefix(t, Len(<<>>))
    BY <1>1, <1>3
  <1> QED  BY <1>1, <1>4, PrefixIs

\* Putting an accepted prediction ahead keeps a constraint one, that starts
\* with the prediction's words and fixes them.
LEMMA BehindFacts ==
    ASSUME NEW p \in Predictions, NEW c \in Constraints
    PROVE  /\ Behind(p, c) \in Constraints
           /\ IsPrefix(p.words, Behind(p, c).text)
           /\ Behind(p, c).fixed = {[length |-> Len(p.words), ruby |-> Len(p.ruby)]}
  <1> DEFINE base == IF IsPrefix(p.words, c.text) THEN c ELSE PrefixConstraint(p.words, FALSE)
             f == [length |-> Len(p.words), ruby |-> Len(p.ruby)]
  <1>1. p.words \in Text /\ p.ruby \in Text
    BY DEF Predictions
  <1>2. f \in [length : Nat, ruby : Nat]
    BY <1>1, LenProperties DEF Text
  <1>3. base \in Constraints /\ IsPrefix(p.words, base.text)
    <2>1. CASE IsPrefix(p.words, c.text)
      BY <2>1
    <2>2. CASE ~IsPrefix(p.words, c.text)
      <3>1. base = PrefixConstraint(p.words, FALSE)
        BY <2>2
      <3>2. base.text = p.words /\ base \in Constraints
        BY <1>1, <3>1 DEF PrefixConstraint, Constraints
      <3> QED  BY <1>1, <3>2, PrefixReflexive
    <2> QED  BY <2>1, <2>2
  <1>4. Behind(p, c) = [base EXCEPT !.fixed = {f}]
    BY DEF Behind
  <1> HIDE DEF base, f
  <1> QED  BY <1>2, <1>3, <1>4 DEF Constraints, f

LEMMA ConstrainedFacts ==
    ASSUME NEW accepted \in Optional(Predictions), NEW c \in Constraints
    PROVE  /\ Constrained(accepted, c) \in Constraints
           /\ \A p \in ToSet(accepted) :
                /\ p \in Predictions
                /\ IsPrefix(p.words, Constrained(accepted, c).text)
                /\ Constrained(accepted, c).fixed
                        = {[length |-> Len(p.words), ruby |-> Len(p.ruby)]}
  <1>1. CASE accepted = <<>>
    BY <1>1 DEF Constrained, ToSet
  <1>2. CASE \E p \in Predictions : accepted = <<p>>
    <2>1. PICK p \in Predictions : accepted = <<p>>
      BY <1>2
    <2>2. accepted # <<>> /\ accepted[1] = p /\ ToSet(accepted) = {p}
      BY <2>1 DEF ToSet
    <2>3. Constrained(accepted, c) = Behind(p, c)
      BY <2>2 DEF Constrained
    <2> QED  BY <2>2, <2>3, BehindFacts
  <1> QED  BY <1>1, <1>2 DEF Optional

\* Paths that do not contradict an accepted prediction
Agreeing(words, x) == IsPrefix(words, WordOf(x)) \/ IsPrefix(WordOf(x), words)
Fits(accepted) == {x \in Paths : \A p \in ToSet(accepted) : Agreeing(p.words, x)}

\* A path that satisfies a constraint behind a prediction agrees with it:
\* an enforced one because it starts with the constraint's text, any other
\* because it is compared with the fixed prefix as far as it goes.
LEMMA CompleteAgrees ==
    ASSUME NEW words \in Text, NEW ruby, NEW c \in Constraints, IsPrefix(words, c.text),
           c.fixed = {[length |-> Len(words), ruby |-> ruby]},
           NEW x \in PathsComplete(c)
    PROVE  Agreeing(words, x)
  <1> DEFINE t == WordOf(x)
             f == [length |-> Len(words), ruby |-> ruby]
             n == Len(words)
             k == Len(t)
  <1>1. x \in Paths /\ PathComplete(c, t, Last(x))
    BY DEF PathsComplete
  <1>2. t \in Text /\ c.text \in Text
    BY <1>1, WordFacts DEF Constraints
  <1>3. n \in Nat /\ k \in Nat /\ Len(c.text) \in Nat
    BY <1>2, LenProperties DEF Text
  <1> HIDE DEF t
  <1>4. n <= Len(c.text) /\ words = Prefix(c.text, n)
    BY <1>2, PrefixIs
  <1>5. CASE IsSatisfiedBy(c, t)
    <2>1. IsPrefix(c.text, t)
      BY <1>2, <1>5, PrefixReflexive DEF IsSatisfiedBy
    <2>2. IsPrefix(words, t)
      BY <1>2, <2>1, PrefixTransitive
    <2> QED  BY <2>2 DEF Agreeing, t
  <1>6. CASE MatchesFixedPrefix(c, t)
    <2> DEFINE compared == IF k < n THEN k ELSE n
    <2>1. Take(t, compared) = Take(c.text, compared)
      <3>1. f \in c.fixed /\ f.length = n
        OBVIOUS
      <3> QED  BY <1>6, <3>1 DEF MatchesFixedPrefix
    <2>2. CASE k < n
      <3>1. Prefix(t, k) = Prefix(c.text, k)
        BY <1>3, <1>4, <2>1, <2>2 DEF Take, Prefix
      <3>2. Prefix(t, k) = t
        BY <1>2, PrefixWhole DEF Text
      <3>3. n \in 0 .. Len(c.text) /\ k \in 0 .. n
        BY <1>3, <1>4, <2>2
      <3>4. Prefix(Prefix(c.text, n), k) = Prefix(c.text, k)
        BY <1>2, <3>3, PrefixOfPrefix DEF Text
      <3>5. k <= n /\ t = Prefix(words, k)
        BY <1>3, <1>4, <2>2, <3>1, <3>2, <3>4
      <3>6. IsPrefix(t, words)
        BY <1>2, <3>5, PrefixIs
      <3> QED  BY <3>6 DEF Agreeing, t
    <2>3. CASE ~ k < n
      <3>1. Prefix(t, n) = Prefix(c.text, n) /\ n <= k
        BY <1>3, <1>4, <2>1, <2>3 DEF Take, Prefix
      <3>2. IsPrefix(words, t)
        BY <1>2, <1>4, <3>1, PrefixIs
      <3> QED  BY <3>2 DEF Agreeing, t
    <2> QED  BY <2>2, <2>3
  <1> QED  BY <1>1, <1>5, <1>6 DEF PathComplete

\* What request_zenz_draft finds never contradicts an accepted prediction.
LEMMA DraftedFacts ==
    ASSUME NEW w, w.input \in Text, w.accepted \in Optional(Predictions),
           NEW nBest \in Nat, NEW c \in Constraints
    PROVE  Drafted(w, nBest, c) \in Seq(Fits(w.accepted))
  <1> DEFINE d == Constrained(w.accepted, c)
  <1>1. /\ d \in Constraints
        /\ \A p \in ToSet(w.accepted) :
                /\ p \in Predictions
                /\ IsPrefix(p.words, d.text)
                /\ d.fixed = {[length |-> Len(p.words), ruby |-> Len(p.ruby)]}
    BY ConstrainedFacts
  <1>2. Drafted(w, nBest, c) = Search(w.input, nBest, d)
    BY DEF Drafted
  <1> HIDE DEF d
  <1>3. Search(w.input, nBest, d) \in Seq(PathsComplete(d))
    BY SearchFacts
  <1>4. ASSUME NEW x \in PathsComplete(d) PROVE x \in Fits(w.accepted)
    <2>1. x \in Paths
      BY DEF PathsComplete
    <2>2. ASSUME NEW p \in ToSet(w.accepted) PROVE Agreeing(p.words, x)
      <3>1. p.words \in Text
        BY <1>1 DEF Predictions
      <3> QED  BY <1>1, <3>1, CompleteAgrees
    <2> QED  BY <2>1, <2>2 DEF Fits
  <1>5. \A x \in ToSet(Search(w.input, nBest, d)) : x \in Fits(w.accepted)
    BY <1>3, <1>4, ElementFacts
  <1> QED  BY <1>2, <1>3, <1>5, Narrowed

\* The least and the greatest element, as Min and Max choose them.
LEMMA MinFacts ==
    ASSUME NEW T \in SUBSET Nat, T # {}
    PROVE  Min(T) \in T /\ \A x \in T : Min(T) <= x
  <1>1. \E x \in T : \A y \in T : x <= y
    BY LeastNatural
  <1> QED  BY <1>1 DEF Min

LEMMA MaxFacts ==
    ASSUME NEW n \in Nat, NEW T \in SUBSET (0..n), T # {}
    PROVE  Max(T) \in T
  <1> DEFINE D == {n - x : x \in T}
  <1>1. D \in SUBSET Nat /\ D # {}
    <2>1. \A x \in T : n - x \in Nat
      OBVIOUS
    <2>2. \A x \in T : n - x \in D
      OBVIOUS
    <2> QED  BY <2>1, <2>2
  <1>2. PICK d \in D : \A e \in D : d <= e
    <2> HIDE DEF D
    <2> QED  BY <1>1, LeastNatural
  <1>3. PICK x \in T : d = n - x
    OBVIOUS
  <1>4. \A y \in T : n - y \in D /\ y \in 0..n /\ x \in 0..n
    OBVIOUS
  <1>5. \A y \in T : x >= y
    <2> TAKE y \in T
    <2>1. d <= n - y
      BY <1>2, <1>4
    <2> HIDE DEF D
    <2> QED  BY <1>3, <1>4, <2>1
  <1> QED  BY <1>5 DEF Max

\* The first elements of a path.
LEMMA TakePath ==
    ASSUME NEW x \in Paths, NEW n \in Nat
    PROVE  Take(x, n) \in Paths /\ Take(x, 0) = <<>>
  <1>1. x \in Seq(Entries) /\ Len(x) \in Nat
    BY LenProperties DEF Paths
  <1>2. Take(x, n) \in Seq(Entries)
    BY <1>1, TakeFacts
  <1>3. 0 \in Nat /\ (IF 0 > Len(x) THEN Len(x) ELSE 0) = 0
    BY <1>1
  <1>4. Take(x, 0) \in Seq(Entries) /\ Len(Take(x, 0)) = IF 0 > Len(x) THEN Len(x) ELSE 0
    BY <1>1, <1>3, TakeFacts
  <1>5. Take(x, 0) = <<>>
    BY <1>3, <1>4, EmptySeq
  <1> QED  BY <1>2, <1>5 DEF Paths

LEMMA TakeText ==
    ASSUME NEW t \in Text, NEW n \in Nat
    PROVE  Take(t, n) \in Text
  BY TakeFacts DEF Text

\* inherited_constraint_bytes: words of entries of the last candidate.
LEMMA InheritedFacts ==
    ASSUME NEW x \in Paths, NEW input \in Text
    PROVE  InheritedWords(x, input) \in Text
  <1> DEFINE heads == {k \in 0 .. Len(x) : IsPrefix(RubyOf(Take(x, k)), input)}
  <1>1. Len(x) \in Nat
    BY LenProperties DEF Paths
  <1>2. 0 \in heads
    <2>1. RubyOf(Take(x, 0)) = <<>>
      BY <1>1, TakePath, RubyFacts
    <2>2. IsPrefix(<<>>, input)
      BY EmptyPrefix
    <2> QED  BY <1>1, <2>1, <2>2
  <1>3. heads \in SUBSET (0 .. Len(x))
    OBVIOUS
  <1>4. InheritedWords(x, input) = WordOf(Take(x, Max(heads)))
    BY DEF InheritedWords
  <1> HIDE DEF heads
  <1>5. Max(heads) \in 0 .. Len(x)
    BY <1>1, <1>2, <1>3, MaxFacts
  <1>6. Take(x, Max(heads)) \in Paths
    BY <1>1, <1>5, TakePath
  <1> QED  BY <1>4, <1>6, WordFacts

\* ZenzConversionCache
CacheEntries == [input : Text, constraint : Constraints, satisfying : Optional(Paths),
                 evaluated : Optional(Paths)]

LEMMA NoConstraintFacts ==
    /\ NoConstraint \in Constraints
    /\ EmptyCache \in CacheEntries
  <1>1. <<>> \in Text
    BY DEF Text
  <1>2. NoConstraint \in Constraints
    BY <1>1 DEF NoConstraint, PrefixConstraint, Constraints
  <1> QED  BY <1>1, <1>2 DEF EmptyCache, CacheEntries, Optional

\* The constraint a conversion starts with.
LEMMA ConstraintForFacts ==
    ASSUME NEW entry \in CacheEntries, NEW input \in Text
    PROVE  ConstraintFor(entry, input) \in Constraints
  <1>1. entry.constraint \in Constraints /\ entry.satisfying \in Optional(Paths)
    BY DEF CacheEntries
  <1>2. CASE entry.satisfying # <<>>
    <2>1. PICK x \in Paths : entry.satisfying = <<x>>
      BY <1>1, <1>2 DEF Optional
    <2>2. entry.satisfying[1] = x
      BY <2>1
    <2>3. InheritedWords(entry.satisfying[1], input) \in Text
      BY <2>2, InheritedFacts
    <2>4. ConstraintFor(entry, input)
            = PrefixConstraint(InheritedWords(entry.satisfying[1], input), FALSE)
      BY <1>2 DEF ConstraintFor
    <2> QED  BY <2>3, <2>4 DEF PrefixConstraint, Constraints
  <1>3. CASE entry.satisfying = <<>>
    <2>1. [entry.constraint EXCEPT !.eos = FALSE, !.fixed = {}] \in Constraints
      BY <1>1 DEF Constraints
    <2> QED  BY <1>3, <2>1, NoConstraintFacts DEF ConstraintFor
  <1> QED  BY <1>2, <1>3

\* normalize_constraint: a separator ends the text.
LEMMA NormalizedFacts ==
    ASSUME NEW text \in Text, NEW eos \in BOOLEAN, NEW ignore \in BOOLEAN
    PROVE  Normalized(text, eos, ignore) \in Constraints
  <1> DEFINE cut == {i \in DOMAIN text : text[i] = Separator}
             t == IF cut = {} THEN text ELSE Take(text, Min(cut) - 1)
             e == eos \/ cut # {}
  <1>1. t \in Text
    <2>1. cut \in SUBSET Nat /\ \A i \in cut : i - 1 \in Nat
      <3>1. DOMAIN text = 1 .. Len(text) /\ Len(text) \in Nat
        BY LenProperties DEF Text
      <3> QED  BY <3>1
    <2> HIDE DEF cut
    <2>2. cut # {} => Min(cut) - 1 \in Nat
      BY <2>1, MinFacts
    <2> QED  BY <2>2, TakeText
  <1>2. Normalized(text, eos, ignore) = [PrefixConstraint(t, e) EXCEPT !.ignore = ignore]
    BY DEF Normalized
  <1>3. e \in BOOLEAN
    OBVIOUS
  <1> HIDE DEF t, e
  <1> QED  BY <1>1, <1>2, <1>3 DEF PrefixConstraint, Constraints

----------------------------------------------------------------------------
(***************************************************************************)
(* Questions and verdicts.                                                 *)
(***************************************************************************)

\* The part of a candidate an accepted prediction fixes.
LEMMA FixedFacts ==
    ASSUME NEW w, w.constraint \in Constraints, w.input \in Text, NEW x
    PROVE  /\ FixedLengths(w, x).length \in Nat
           /\ FixedLengths(w, x).ruby \in 0 .. Len(w.input)
           /\ Fixed(w, x) \in Text
  <1>1. w.constraint.text \in Text /\ w.constraint.fixed \in SUBSET [length : Nat, ruby : Nat]
        /\ Len(w.input) \in Nat
    BY LenProperties DEF Constraints, Text
  <1>2. \A f \in FixedPrefix(w, x) : f.length \in Nat /\ f.ruby \in 0 .. Len(w.input)
    BY <1>1 DEF FixedPrefix
  <1>3. FixedLengths(w, x).length \in Nat /\ FixedLengths(w, x).ruby \in 0 .. Len(w.input)
    <2>1. CASE FixedPrefix(w, x) = {}
      BY <1>1, <2>1 DEF FixedLengths
    <2>2. CASE FixedPrefix(w, x) # {}
      <3>1. FixedLengths(w, x) \in FixedPrefix(w, x)
        BY <2>2 DEF FixedLengths
      <3> QED  BY <1>2, <3>1
    <2> QED  BY <2>1, <2>2
  <1>4. Fixed(w, x) \in Text
    BY <1>1, <1>3, TakeText DEF Fixed
  <1> QED  BY <1>3, <1>4

LEMMA DroppingFacts ==
    ASSUME NEW x \in Paths, NEW length \in Nat
    PROVE  DroppingFixedEntries(x, length) \in Paths
  <1> DEFINE covered == {k \in 0 .. Len(x) : Len(WordOf(Take(x, k))) <= length}
  <1>1. Len(x) \in Nat /\ x \in Seq(Entries)
    BY LenProperties DEF Paths
  <1>2. 0 \in covered
    <2>1. WordOf(Take(x, 0)) = <<>>
      BY <1>1, TakePath, WordFacts
    <2> QED  BY <1>1, <2>1
  <1>3. covered \in SUBSET (0 .. Len(x))
    OBVIOUS
  <1>4. DroppingFixedEntries(x, length) = SubSeq(x, Max(covered) + 1, Len(x))
    BY DEF DroppingFixedEntries
  <1> HIDE DEF covered
  <1>5. Max(covered) \in 0 .. Len(x)
    BY <1>1, <1>2, <1>3, MaxFacts
  <1>6. Max(covered) + 1 \in Nat /\ Max(covered) + 1 > 0 /\ Len(x) <= Len(x)
    BY <1>1, <1>5
  <1> QED  BY <1>1, <1>4, <1>6, SliceFacts DEF Paths

LEMMA ConcatText ==
    ASSUME NEW s \in Text, NEW t \in Text
    PROVE  s \o t \in Text /\ Len(s \o t) = Len(s) + Len(t) /\ Len(s) \in Nat /\ Len(t) \in Nat
  BY ConcatProperties, LenProperties DEF Text

LEMMA SliceText ==
    ASSUME NEW t \in Text, NEW m \in Nat, m > 0
    PROVE  SubSeq(t, m, Len(t)) \in Text
  <1>1. Len(t) \in Nat /\ Len(t) <= Len(t)
    BY LenProperties DEF Text
  <1> QED  BY <1>1, SliceFacts DEF Text

LEMMA Symbols ==
    /\ <<Separator>> \in Text /\ <<InTag>> \in Text /\ <<OutTag>> \in Text /\ <<>> \in Text
    /\ Len(<<OutTag>>) = 1
  BY LanguageAssumption DEF Separator, InTag, OutTag, Text

\* A prompt is a text with at least its last tag.
LEMMA PromptFacts ==
    ASSUME NEW left \in Text, NEW user \in Paths, NEW input \in Text, NEW cursor \in Nat
    PROVE  Prompt(left, user, input, cursor) \in Text /\ Len(Prompt(left, user, input, cursor)) > 0
  <1> DEFINE middle == IF Aligned(input, cursor)
                       THEN Take(input, cursor) \o <<Separator>>
                                \o SubSeq(input, cursor + 1, Len(input))
                       ELSE input
             head == WordOf(user) \o RubyOf(user) \o left \o <<InTag>>
  <1>1. middle \in Text
    <2>1. cursor + 1 \in Nat /\ cursor + 1 > 0
      OBVIOUS
    <2>2. Take(input, cursor) \in Text /\ SubSeq(input, cursor + 1, Len(input)) \in Text
      BY <2>1, TakeText, SliceText
    <2>3. Take(input, cursor) \o <<Separator>> \in Text
      BY <2>2, Symbols, ConcatText
    <2>4. Take(input, cursor) \o <<Separator>> \o SubSeq(input, cursor + 1, Len(input)) \in Text
      BY <2>2, <2>3, ConcatText
    <2> QED  BY <2>4
  <1>2. WordOf(user) \in Text /\ RubyOf(user) \in Text
    BY WordFacts, RubyFacts
  <1>3. WordOf(user) \o RubyOf(user) \in Text
    BY <1>2, ConcatText
  <1>4. WordOf(user) \o RubyOf(user) \o left \in Text
    BY <1>3, ConcatText
  <1>5. head \in Text
    BY <1>4, Symbols, ConcatText
  <1>6. Prompt(left, user, input, cursor) = head \o middle \o <<OutTag>>
    BY DEF Prompt
  <1> HIDE DEF head, middle
  <1>7. head \o middle \in Text
    BY <1>1, <1>5, ConcatText
  <1>8. /\ head \o middle \o <<OutTag>> \in Text
        /\ Len(head \o middle \o <<OutTag>>) = Len(head \o middle) + 1
        /\ Len(head \o middle) \in Nat
    BY <1>7, Symbols, ConcatText
  <1>9. Len(head \o middle \o <<OutTag>>) > 0
    BY <1>8
  <1> QED  BY <1>6, <1>8, <1>9

QuestionFits(q) ==
    /\ q.prompt \in Text /\ Len(q.prompt) > 0
    /\ q.text \in Text /\ q.original \in Text /\ Len(q.original) <= Len(q.text)
    /\ q.constraint \in Constraints

\* What the model is asked about a candidate.
LEMMA QuestionFacts ==
    ASSUME NEW w, w.constraint \in Constraints, w.input \in Text, w.full \in Text,
           w.left \in Text, NEW x \in Paths
    PROVE  QuestionFits(Question(w, x))
  <1> DEFINE fixed == Fixed(w, x)
             skipped == FixedLengths(w, x).ruby
             input == SubSeq(w.full, skipped + 1, Len(w.full))
             cursor == Len(w.input) - skipped
             entries == IF fixed = <<>> THEN x ELSE DroppingFixedEntries(x, Len(fixed))
             words == SubSeq(WordOf(x), Len(fixed) + 1, Len(WordOf(x)))
             user == Retained(entries, {e \in ToSet(entries) : e.source = "user"})
             tail == IF Aligned(input, cursor) THEN <<Separator>> ELSE <<>>
             constraint == IF fixed = <<>> THEN w.constraint
                           ELSE [w.constraint EXCEPT
                                    !.text = SubSeq(@, Len(fixed) + 1, Len(@)), !.fixed = {}]
             q == Question(w, x)
  <1>1. /\ q.prompt = Prompt(w.left \o fixed, user, input, cursor)
        /\ q.text = words \o tail
        /\ q.original = words
        /\ q.constraint = constraint
    BY DEF Question
  <1> HIDE DEF q
  <1>2. fixed \in Text /\ skipped \in 0 .. Len(w.input) /\ Len(w.input) \in Nat
    BY FixedFacts, LenProperties DEF Text
  <1> HIDE DEF fixed, skipped
  <1>3. Len(fixed) \in Nat /\ Len(fixed) + 1 \in Nat /\ Len(fixed) + 1 > 0
    <2>1. Len(fixed) \in Nat
      BY <1>2, LenProperties DEF Text
    <2> QED  BY <2>1
  <1>4. skipped + 1 \in Nat /\ skipped + 1 > 0 /\ cursor \in Nat
    BY <1>2
  <1>5. input \in Text
    BY <1>4, SliceText
  <1>6. WordOf(x) \in Text
    BY WordFacts
  <1>7. words \in Text
    BY <1>3, <1>6, SliceText
  <1>8. entries \in Paths
    BY <1>3, DroppingFacts
  <1> HIDE DEF input, cursor, words, entries
  <1>9. user \in Paths
    BY <1>8, RetainedFacts DEF Paths
  <1>10. tail \in Text
    BY Symbols
  <1>11. constraint \in Constraints
    <2>1. CASE fixed = <<>>
      BY <2>1
    <2>2. CASE fixed # <<>>
      <3>1. SubSeq(w.constraint.text, Len(fixed) + 1, Len(w.constraint.text)) \in Text
        <4>1. w.constraint.text \in Text
          BY DEF Constraints
        <4> QED  BY <1>3, <4>1, SliceText
      <3> QED  BY <2>2, <3>1 DEF Constraints
    <2> QED  BY <2>1, <2>2
  <1> HIDE DEF user, tail, constraint
  <1>12. w.left \o fixed \in Text
    BY <1>2, ConcatText
  <1>13. q.prompt \in Text /\ Len(q.prompt) > 0
    BY <1>1, <1>4, <1>5, <1>9, <1>12, PromptFacts
  <1>14. q.text \in Text /\ Len(words) <= Len(q.text)
    <2>1. words \o tail \in Text /\ Len(words \o tail) = Len(words) + Len(tail)
          /\ Len(words) \in Nat /\ Len(tail) \in Nat
      BY <1>7, <1>10, ConcatText
    <2> QED  BY <1>1, <2>1
  <1> QED  BY <1>1, <1>7, <1>11, <1>13, <1>14 DEF QuestionFits, q

\* What an evaluation may skip is part of the text.
LEMMA AddressedFacts ==
    ASSUME NEW q, QuestionFits(q), NEW reuses
    PROVE  Addressed(q, reuses) \in 0 .. Len(q.text)
  <1>1. q.original \in Seq(Tokens) /\ q.constraint.text \in Seq(Tokens)
        /\ Len(q.original) <= Len(q.text)
    BY DEF QuestionFits, Constraints, Text
  <1>2. Len(q.original) \in Nat /\ Len(q.constraint.text) \in Nat /\ Len(q.text) \in Nat
    BY <1>1, LenProperties DEF QuestionFits, Text
  <1>3. CommonPrefixCount(q.original, q.constraint.text)
            \in 0 .. Lesser(Len(q.original), Len(q.constraint.text))
    BY <1>1, CommonPrefixCounts
  <1>4. CommonPrefixCount(q.original, q.constraint.text) \in 0 .. Len(q.text)
    BY <1>1, <1>2, <1>3 DEF Lesser
  <1> QED  BY <1>2, <1>4 DEF Addressed

\* The model's choice is a token.
LEMMA ArgmaxFacts ==
    ASSUME NEW row
    PROVE  StrictArgmax(row) \in Tokens
  <1> DEFINE n == Len(Vocabulary)
             Applied(b, t) == IF row[t] > row[b] THEN t ELSE b
             step == [b \in Tokens |-> [t \in Tokens |-> Applied(b, t)]]
             Eq(f) == f = [i \in 0..n |-> IF i = 0 THEN Vocabulary[1]
                                          ELSE Applied(f[i - 1], Vocabulary[i])]
             it == CHOOSE f : Eq(f)
  <1>1. n \in Nat /\ Vocabulary \in Seq(Tokens) /\ \A k \in 1..n : Vocabulary[k] \in Tokens
    BY LanguageAssumption, LenProperties, ElementOfSeq
  <1>2. Vocabulary[1] \in Tokens
    <2>1. n # 0
      BY LanguageAssumption, EmptySeq
    <2>2. 1 \in 1..n
      BY <1>1, <2>1
    <2> QED  BY <1>1, <2>2
  <1>3. \A b, t \in Tokens : Applied(b, t) \in Tokens
    OBVIOUS
  <1> HIDE DEF Applied
  <1>4. step \in [Tokens -> [Tokens -> Tokens]]
    BY <1>3
  <1>5. PICK f \in [0..n -> Tokens] : IsChain(f, step, Vocabulary, Vocabulary[1])
    <2> HIDE DEF step
    <2> QED  BY <1>1, <1>2, <1>4, ChainExists
  <1>6. \A k \in 1..n : f[k] = Applied(f[k - 1], Vocabulary[k])
    <2>1. \A k \in 1..n : f[k - 1] \in Tokens
      BY <1>1
    <2> QED  BY <1>1, <1>5, <2>1 DEF IsChain
  <1>7. Eq(f)
    <2>1. \A i \in 0..n : f[i] = IF i = 0 THEN Vocabulary[1] ELSE Applied(f[i - 1], Vocabulary[i])
      BY <1>1, <1>5, <1>6 DEF IsChain
    <2> QED  BY <2>1
  <1>8. Eq(it)
    <2> HIDE DEF Eq
    <2> QED  BY <1>7
  <1>9. StrictArgmax(row) = it[n]
    BY DEF StrictArgmax, Fold, Applied
  <1> HIDE DEF it, n
  <1>10. \A i \in 0..n : it[i] = IF i = 0 THEN Vocabulary[1] ELSE Applied(it[i - 1], Vocabulary[i])
    BY <1>8
  <1>11. it[0] \in Tokens
    <2>1. 0 \in 0..n
      BY <1>1
    <2> QED  BY <1>2, <1>10, <2>1
  <1>12. ASSUME NEW k \in 1..n, it[k - 1] \in Tokens PROVE it[k] \in Tokens
    <2>1. k \in 0..n /\ k # 0
      BY <1>1
    <2>2. it[k] = Applied(it[k - 1], Vocabulary[k])
      BY <1>10, <2>1
    <2> QED  BY <1>1, <1>3, <1>12, <2>2
  <1>13. it[n] \in Tokens
    BY <1>1, <1>11, <1>12, ChainEnds
  <1> QED  BY <1>9, <1>13

\* The alternatives of a verdict that are texts
IsAlternative(a) == a = [gap |-> a.gap, text |-> a.text] /\ a.text \in Text
Alternatives(s) == {a \in ToSet(s) : IsAlternative(a)}

LEMMA AlternativesTyped ==
    ASSUME NEW S, NEW s \in Seq(S), \A a \in S : IsAlternative(a)
    PROVE  s \in Seq(Alternatives(s))
  <1>1. \A a \in ToSet(s) : a \in Alternatives(s)
    BY ElementFacts DEF Alternatives
  <1> QED  BY <1>1, Narrowed

LEMMA AlternativesFacts ==
    ASSUME NEW row, NEW text \in Text, NEW i \in 1 .. Len(text)
    PROVE  AlternativesAt(row, text, i) \in Seq(Alternatives(AlternativesAt(row, text, i)))
  <1> DEFINE top == Take(Ranked(Vocabulary, row), 3)
             others == Tail(top)
             Of(k) == [gap |-> row[text[i]] - row[others[k]],
                       text |-> Append(Take(text, i - 1), others[k])]
             s == [k \in DOMAIN others |-> Of(k)]
  <1>1. Ranked(Vocabulary, row) \in Seq(Tokens) /\ Ranked(Vocabulary, row) # <<>>
    BY LanguageAssumption, RankedFacts
  <1>2. top \in Seq(Tokens) /\ top # <<>>
    <2> DEFINE r == Ranked(Vocabulary, row)
    <2>1. r \in Seq(Tokens) /\ r # <<>>
      BY <1>1
    <2> HIDE DEF r
    <2>2. Len(r) \in Nat /\ Len(r) # 0
      <3>1. Len(r) \in Nat
        BY <2>1, LenProperties
      <3> QED  BY <2>1, <3>1, EmptySeq
    <2>3. Take(r, 3) \in Seq(Tokens) /\ Len(Take(r, 3)) = IF 3 > Len(r) THEN Len(r) ELSE 3
      <3>1. 3 \in Nat
        OBVIOUS
      <3>2. \A k \in Nat : /\ Take(r, k) \in Seq(Tokens)
                           /\ Len(Take(r, k)) = IF k > Len(r) THEN Len(r) ELSE k
        BY <2>1, TakeFacts
      <3> QED  BY <3>1, <3>2
    <2>4. Len(Take(r, 3)) # 0
      BY <2>2, <2>3
    <2>5. Take(r, 3) # <<>>
      BY <2>3, <2>4, EmptySeq
    <2> QED  BY <2>3, <2>5 DEF r
  <1> HIDE DEF top
  <1>3. others \in Seq(Tokens)
    BY <1>2, HeadTailProperties
  <1> HIDE DEF others
  <1>4. Len(others) \in Nat /\ DOMAIN others = 1 .. Len(others)
        /\ \A k \in 1 .. Len(others) : others[k] \in Tokens
    BY <1>3, LenProperties, ElementOfSeq
  <1>5. i - 1 \in Nat
    BY LenProperties DEF Text
  <1>6. Take(text, i - 1) \in Text
    BY <1>5, TakeText
  <1>7. \A t \in Tokens : Append(Take(text, i - 1), t) \in Text
    BY <1>6, AppendProperties DEF Text
  <1> DEFINE S == {Of(k) : k \in DOMAIN others}
  <1>8. \A k \in DOMAIN others : IsAlternative(Of(k))
    BY <1>4, <1>7 DEF IsAlternative
  <1> HIDE DEF Of
  <1>9. \A a \in S : IsAlternative(a)
    BY <1>8
  <1>10. s \in [1 .. Len(others) -> S]
    BY <1>4
  <1>11. s \in Seq(S)
    <2> HIDE DEF s, S
    <2> QED  BY <1>4, <1>10, SeqMade
  <1>12. s \in Seq(Alternatives(s))
    <2> HIDE DEF s, S
    <2> QED  BY <1>9, <1>11, AlternativesTyped
  <1>13. <<>> \in Seq(Alternatives(<<>>))
    OBVIOUS
  <1>14. AlternativesAt(row, text, i) = <<>> \/ AlternativesAt(row, text, i) = s
    BY DEF AlternativesAt, Of, others, top
  <1> HIDE DEF s
  <1> QED  BY <1>12, <1>13, <1>14

VerdictFits(v) ==
    /\ v = [kind |-> v.kind, text |-> v.text, alternatives |-> v.alternatives]
    /\ v.text \in Text
    /\ v.alternatives \in Seq(Alternatives(v.alternatives))

LEMMA NoAlternatives == <<>> \in Seq(Alternatives(<<>>))
  OBVIOUS

\* Whatever the rows are, a verdict asks for texts.
LEMMA JudgeFacts ==
    ASSUME NEW m, NEW q, QuestionFits(q), NEW addressed \in 0 .. Len(q.text), NEW rows
    PROVE  VerdictFits(JudgeBy(m, q, addressed, rows))
  <1> DEFINE text == q.text
             priorities == LearnedPriorities(q.segments)
             logits == Evaluated([k \in DOMAIN rows |->
                            PersonalizedLogits(m, rows[k], Take(text, addressed + k - 1))])
             Row(i) == logits[i - addressed]
             Priority(i) == IF i \in DOMAIN priorities THEN priorities[i] ELSE 0
             Turned(i) == LET row == Row(i)
                              best == StrictArgmax(row)
                          IN  best # text[i] /\ ~Excused(row, text[i], best, Priority(i))
             rejected == {i \in (addressed + 1) .. Len(text) : Turned(i)}
             first == Min(rejected)
             best == StrictArgmax(Row(first))
             n == Len(text) - addressed
             each == [k \in 1 .. n |-> AlternativesAt(Row(addressed + k), text, addressed + k)]
             found == FlattenSeq(each)
             taken == Take(Ranked(found, [a \in ToSet(found) |-> -a.gap]), 5)
             v == JudgeBy(m, q, addressed, rows)
  <1>1. v = IF rejected = {}
            THEN [kind |-> "pass", text |-> <<>>,
                  alternatives |-> IF q.rich THEN taken ELSE <<>>]
            ELSE [kind |-> IF best = EOS THEN "whole" ELSE "fix",
                  text |-> Take(text, first - 1) \o (IF best = EOS THEN <<>> ELSE <<best>>),
                  alternatives |-> <<>>]
    BY DEF JudgeBy
  <1>2. text \in Text /\ Len(text) \in Nat /\ n \in Nat /\ addressed \in Nat
    BY LenProperties DEF QuestionFits, Text
  <1>3. rejected \in SUBSET (1 .. Len(text))
    <2>1. \A i \in (addressed + 1) .. Len(text) : i \in 1 .. Len(text)
      BY <1>2
    <2> HIDE DEF Turned, text
    <2> QED  BY <2>1
  <1>4. best \in Tokens
    BY ArgmaxFacts
  <1> HIDE DEF Row, Turned, best, v, text
  <1>5. CASE rejected # {}
    <2> HIDE DEF rejected, first
    <2>1. first \in 1 .. Len(text)
      <3>1. rejected \in SUBSET Nat
        BY <1>2, <1>3
      <3>2. Min(rejected) \in rejected
        BY <1>5, <3>1, MinFacts
      <3> QED  BY <1>3, <3>2 DEF first
    <2>2. first - 1 \in Nat
      BY <1>2, <2>1
    <2>3. Take(text, first - 1) \in Text
      BY <1>2, <2>2, TakeText
    <2> DEFINE wanted == IF best = EOS THEN <<>> ELSE <<best>>
               t == Take(text, first - 1) \o wanted
    <2>4. wanted \in Text
      BY <1>4 DEF Text
    <2>5. t \in Text
      <3> HIDE DEF wanted
      <3> QED  BY <2>3, <2>4, ConcatText
    <2>6. v = [kind |-> IF best = EOS THEN "whole" ELSE "fix", text |-> t, alternatives |-> <<>>]
      BY <1>1, <1>5
    <2> HIDE DEF t
    <2> QED  BY <2>5, <2>6, NoAlternatives DEF VerdictFits, v
  <1>6. CASE rejected = {}
    <2> DEFINE listed == IF q.rich THEN taken ELSE <<>>
               S == {a \in UNION {ToSet(each[k]) : k \in 1 .. n} : IsAlternative(a)}
    <2>1. \A k \in 1 .. n : each[k] \in Seq(Alternatives(each[k]))
      <3> TAKE k \in 1 .. n
      <3>1. addressed + k \in 1 .. Len(text)
        BY <1>2 DEF n
      <3>2. AlternativesAt(Row(addressed + k), text, addressed + k)
                \in Seq(Alternatives(AlternativesAt(Row(addressed + k), text, addressed + k)))
        BY <1>2, <3>1, AlternativesFacts
      <3> QED  BY <3>2
    <2>2. DOMAIN each = 1 .. n /\ each = [k \in 1 .. n |-> each[k]]
      OBVIOUS
    <2> HIDE DEF each, n
    <2>3. \A k \in 1 .. n : each[k] \in Seq(S)
      <3> TAKE k \in 1 .. n
      <3>1. \A a \in ToSet(each[k]) : a \in Alternatives(each[k])
        BY <2>1, ElementFacts
      <3>2. \A a \in ToSet(each[k]) : a \in S
        BY <3>1 DEF Alternatives
      <3> HIDE DEF S
      <3> QED  BY <2>1, <3>2, Narrowed
    <2>4. \A a \in S : IsAlternative(a)
      OBVIOUS
    <2> HIDE DEF S
    <2>5. each \in [1 .. n -> Seq(S)]
      BY <2>2, <2>3
    <2>6. each \in Seq(Seq(S))
      BY <1>2, <2>5, SeqMade
    <2>7. found \in Seq(S)
      BY <2>6, FlattenFacts
    <2> HIDE DEF found
    <2>8. Ranked(found, [a \in ToSet(found) |-> -a.gap]) \in Seq(S)
      BY <2>7, RankedFacts
    <2>9. taken \in Seq(S)
      BY <2>8, TakeFacts
    <2> HIDE DEF taken
    <2>10. taken \in Seq(Alternatives(taken))
      BY <2>4, <2>9, AlternativesTyped
    <2>11. listed \in Seq(Alternatives(listed))
      BY <2>10, NoAlternatives
    <2>12. v = [kind |-> "pass", text |-> <<>>, alternatives |-> listed]
      BY <1>1, <1>6
    <2> HIDE DEF listed
    <2> QED  BY <2>11, <2>12, Symbols DEF VerdictFits, v
  <1> QED  BY <1>5, <1>6

\* The memory a request is answered from holds its tokens, row by row.
LEMMA AnsweredFrom ==
    ASSUME LlamaInv, NEW tokens \in Seq(Tokens), NEW start \in Nat, NEW s \in Sequences
    PROVE  LET plan == SequencePlan(tokens, start, s)
               kept == Kept(plan, s)
               new == Decoded(kept, s, SubSeq(tokens, plan.kept + 1, Len(tokens)))
           IN  Agrees(kept \cup new, s, tokens)
  <1> DEFINE plan == SequencePlan(tokens, start, s)
             kept == Kept(plan, s)
             suffix == SubSeq(tokens, plan.kept + 1, Len(tokens))
             p == Prefix(tokens, plan.kept)
  <1>1. kept \in SUBSET Cells /\ plan.kept \in 0 .. Len(tokens) /\ Agrees(kept, s, p)
    BY KeptFacts
  <1> HIDE DEF plan, kept
  <1>2. Len(tokens) \in Nat /\ p \in Seq(Tokens)
    BY <1>1, LenProperties, PrefixFacts
  <1>3. suffix \in Seq(Tokens)
    <2>1. plan.kept + 1 \in Nat /\ plan.kept + 1 > 0 /\ Len(tokens) <= Len(tokens)
      BY <1>1, <1>2
    <2> QED  BY <1>2, <2>1, SliceFacts
  <1>4. p \o suffix = tokens
    <2>1. /\ 1 \in 1 .. Len(tokens) + 1 /\ plan.kept \in 1 - 1 .. Len(tokens)
          /\ Len(tokens) \in plan.kept .. Len(tokens)
      BY <1>1, <1>2
    <2>2. SubSeq(tokens, 1, plan.kept) \o SubSeq(tokens, plan.kept + 1, Len(tokens))
              = SubSeq(tokens, 1, Len(tokens))
      BY <2>1, ConcatAdjacentSubSeq
    <2> QED  BY <2>2, SubSeqFull DEF Prefix
  <1> HIDE DEF suffix, p
  <1>5. Agrees(kept \cup Decoded(kept, s, suffix), s, p \o suffix)
    BY <1>1, <1>2, <1>3, DecodeExtends
  <1> QED  BY <1>4, <1>5 DEF suffix, plan, kept

\* The row of a position is the one decoded after the tokens up to it.
LEMMA RowFacts ==
    ASSUME NEW memory, NEW s, NEW tokens \in Seq(Tokens), Agrees(memory, s, tokens),
           NEW position \in 1 .. Len(tokens)
    PROVE  (CHOOSE c \in memory : s \in c.owners /\ Len(c.path) = position).path
                = Prefix(tokens, position)
  <1> DEFINE At(c) == s \in c.owners /\ Len(c.path) = position
             row == CHOOSE c \in memory : At(c)
  <1>1. PICK c \in Owned(memory, s) : c.path = Prefix(tokens, position)
    BY DEF Agrees
  <1>2. position \in 0 .. Len(tokens)
    BY LenProperties
  <1>3. Len(c.path) = position
    BY <1>1, <1>2, PrefixFacts
  <1>4. c \in memory /\ At(c)
    BY <1>1, <1>3 DEF Owned
  <1>5. row \in memory /\ At(row)
    <2> HIDE DEF At
    <2> QED  BY <1>4
  <1> HIDE DEF row
  <1>6. row \in Owned(memory, s) /\ Len(row.path) = position
    BY <1>5 DEF Owned
  <1>7. row.path = Prefix(tokens, position)
    BY <1>6 DEF Agrees
  <1> QED  BY <1>7 DEF row

LEMMA LogitRows ==
    ASSUME LlamaInv, NEW tokens \in Seq(Tokens), NEW start \in Nat, NEW s \in Sequences,
           NEW broken, LogitsOf(tokens, start, s, broken).error = "none"
    PROVE  LogitsOf(tokens, start, s, broken).rows
                = [i \in 1 .. (Len(tokens) - start) |-> Prefix(tokens, start + i)]
  <1> DEFINE plan == SequencePlan(tokens, start, s)
             kept == Kept(plan, s)
             new == Decoded(kept, s, SubSeq(tokens, plan.kept + 1, Len(tokens)))
             Row(position) == CHOOSE c \in kept \cup new :
                                s \in c.owners /\ Len(c.path) = position
             answer == LogitsOf(tokens, start, s, broken)
  <1>1. Agrees(kept \cup new, s, tokens)
    BY AnsweredFrom
  <1>2. answer.rows = [i \in 1 .. (Len(tokens) - start) |-> Row(start + i).path]
    BY DEF LogitsOf, Refused, Failed
  <1> HIDE DEF kept, new, answer
  <1>3. \A i \in 1 .. (Len(tokens) - start) : start + i \in 1 .. Len(tokens)
    <2>1. Len(tokens) \in Nat
      BY LenProperties
    <2> QED  BY <2>1
  <1>4. ASSUME NEW k \in 1 .. Len(tokens) PROVE Row(k).path = Prefix(tokens, k)
    <2> DEFINE memory == kept \cup new
    <2>1. Agrees(memory, s, tokens)
      BY <1>1
    <2> HIDE DEF memory
    <2>2. (CHOOSE c \in memory : s \in c.owners /\ Len(c.path) = k).path = Prefix(tokens, k)
      BY <2>1, RowFacts
    <2> QED  BY <2>2 DEF memory
  <1> HIDE DEF Row
  <1>5. \A i \in 1 .. (Len(tokens) - start) : Row(start + i).path = Prefix(tokens, start + i)
    BY <1>3, <1>4
  <1> QED  BY <1>2, <1>5 DEF answer

\* An evaluation is answered as by a model with an empty memory.
LEMMA FreshAnswer ==
    ASSUME LlamaInv, NEW q, QuestionFits(q), NEW addressed \in 0 .. Len(q.text),
           addressed < Len(q.text), NEW broken,
           NEW answer, answer = LogitsOf(q.prompt \o Front(q.text), Len(q.prompt) - 1 + addressed,
                                         Evaluation, broken),
           answer.error = "none"
    PROVE  answer.rows = FreshRows(q, addressed)
  <1> DEFINE t == q.prompt
             u == Front(q.text)
             start == Len(t) - 1 + addressed
             n == Len(q.text)
  <1>1. t \in Seq(Tokens) /\ q.text \in Seq(Tokens) /\ Len(t) \in Nat /\ Len(t) > 0 /\ n \in Nat
    BY LenProperties DEF QuestionFits, Text
  <1>2. n - 1 \in 0 .. n /\ start \in Nat
    BY <1>1
  <1>3. u \in Seq(Tokens) /\ Len(u) = n - 1 /\ u = Prefix(q.text, n - 1)
    BY <1>1, <1>2, PrefixFacts DEF Front, Prefix
  <1>4. /\ t \o u \in Seq(Tokens) /\ Len(t \o u) = Len(t) + Len(u)
        /\ \A i \in 0 .. Len(u) : Prefix(t \o u, Len(t) + i) = t \o Prefix(u, i)
    BY <1>1, <1>3, ConcatPrefixes
  <1>5. Evaluation \in Sequences
    BY DEF Sequences
  <1>6. answer.rows = [i \in 1 .. (Len(t \o u) - start) |-> Prefix(t \o u, start + i)]
    <2>1. LogitsOf(t \o u, start, Evaluation, broken).error = "none"
      OBVIOUS
    <2> DEFINE tokens == t \o u
    <2>2. tokens \in Seq(Tokens) /\ start \in Nat
      BY <1>2, <1>4
    <2> HIDE DEF start, tokens
    <2>3. LogitsOf(tokens, start, Evaluation, broken).error = "none"
      BY <2>1 DEF start, tokens
    <2>4. LogitsOf(tokens, start, Evaluation, broken).rows
            = [i \in 1 .. (Len(tokens) - start) |-> Prefix(tokens, start + i)]
      BY <1>5, <2>2, <2>3, LogitRows
    <2>5. answer.rows = LogitsOf(tokens, start, Evaluation, broken).rows
      BY DEF start, tokens
    <2> QED  BY <2>4, <2>5 DEF tokens
  <1>7. Len(t \o u) - start = n - addressed
    <2>1. \A a, b \in Nat : (a + (b - 1)) - (a - 1 + addressed) = b - addressed
      BY <1>1
    <2> HIDE DEF n, t, u
    <2>2. Len(t \o u) = Len(t) + (n - 1)
      BY <1>3, <1>4
    <2> QED  BY <1>1, <2>1, <2>2
  <1>8. ASSUME NEW i \in 1 .. (n - addressed)
        PROVE  Prefix(t \o u, start + i) = t \o Take(q.text, addressed + i - 1)
    <2> DEFINE j == addressed + i - 1
    <2>1. j \in 0 .. n - 1 /\ j \in 0 .. Len(u) /\ start + i = Len(t) + j
      <3>1. \A a \in Nat : a - 1 + addressed + i = a + (addressed + i - 1)
        BY <1>1
      <3>2. j \in 0 .. n - 1
        BY <1>1
      <3> HIDE DEF t, u, n
      <3> QED  BY <1>1, <1>3, <3>1, <3>2
    <2> HIDE DEF j, start
    <2>2. Prefix(t \o u, start + i) = t \o Prefix(u, j)
      BY <1>4, <2>1
    <2>3. Prefix(u, j) = Prefix(q.text, j)
      BY <1>1, <1>2, <1>3, <2>1, PrefixOfPrefix
    <2>4. Take(q.text, j) = Prefix(q.text, j)
      <3>1. ~ j > Len(q.text)
        BY <1>1, <2>1
      <3> QED  BY <3>1 DEF Take, Prefix
    <2> QED  BY <2>2, <2>3, <2>4 DEF j
  <1>9. FreshRows(q, addressed) = [k \in 1 .. (n - addressed) |-> t \o Take(q.text, addressed + k - 1)]
    BY DEF FreshRows
  <1> HIDE DEF t, u, start, n
  <1> QED  BY <1>6, <1>7, <1>8, <1>9

----------------------------------------------------------------------------
(***************************************************************************)
(* The conversion loop.  A conversion fits when the candidates it drafted, *)
(* constructed and offers agree with the prediction that was accepted, and *)
(* the candidate under review is one of the draft.                         *)
(***************************************************************************)
Outcomes == {"none", "zenz", "dictionary", "internal"}

Works(accepted) ==
    [at : {"idle", "draft", "review", "generate"}, session : Sessions \cup {"none"},
     input : Text, full : Text, left : Text, rich : BOOLEAN,
     accepted : {accepted}, nested : BOOLEAN, constraint : Constraints,
     constructed : Seq(Fits(accepted)), inserted : Seq(Fits(accepted)),
     draft : Seq(Fits(accepted)), index : Nat, remaining : Int,
     predicted : Seq(Kana), evaluated : Optional(Paths), inherited : BOOLEAN,
     outcome : Outcomes]

WorkFits(w) ==
    /\ w.accepted \in Optional(Predictions)
    /\ w \in Works(w.accepted)
    /\ w.at # "idle" => w.session \in Sessions
    /\ w.at = "review" => w.index \in 1 .. Len(w.draft)

LEMMA NothingYet ==
    ASSUME NEW accepted
    PROVE  /\ <<>> \in Seq(Fits(accepted)) /\ <<>> \in Seq(Kana) /\ <<>> \in Optional(Paths)
           /\ InferenceLimit \in Int
  BY LimitsAssumption DEF Optional

LEMMA NoWorkFits == WorkFits(NoWork)
  <1>1. <<>> \in Text /\ <<>> \in Optional(Predictions) /\ <<>> \in Optional(Paths)
    BY DEF Text, Optional
  <1>2. NoConstraint \in Constraints
    BY NoConstraintFacts
  <1> QED  BY <1>1, <1>2 DEF NoWork, WorkFits, Works, Outcomes

\* A convert call starts with nothing constructed.
LEMMA ConversionFits ==
    ASSUME NEW w, WorkFits(w), w.session \in Sessions, NEW input \in Text, NEW full \in Text,
           NEW accepted \in Optional(Predictions), NEW rich \in BOOLEAN,
           NEW entry \in CacheEntries, NEW nested \in BOOLEAN
    PROVE  WorkFits(Conversion(w, input, full, accepted, rich, entry, nested))
  <1> DEFINE start == Constrained(accepted, ConstraintFor(entry, input))
             new == Conversion(w, input, full, accepted, rich, entry, nested)
  <1>1. start \in Constraints
    BY ConstraintForFacts, ConstrainedFacts
  <1>2. /\ <<>> \in Seq(Fits(accepted)) /\ <<>> \in Seq(Kana) /\ <<>> \in Optional(Paths)
        /\ InferenceLimit \in Int
    BY NothingYet
  <1>3. new = [w EXCEPT !.at = "draft", !.input = input, !.full = full, !.accepted = accepted,
              !.rich = rich, !.nested = nested, !.constraint = start,
              !.constructed = <<>>, !.inserted = <<>>, !.draft = <<>>, !.index = 0,
              !.remaining = InferenceLimit, !.evaluated = <<>>, !.inherited = FALSE]
    BY DEF Conversion
  <1> HIDE DEF start, new
  <1>4. w \in Works(w.accepted)
    BY DEF WorkFits
  <1>5. new \in Works(accepted)
    BY ZenonT(30), <1>1, <1>2, <1>3, <1>4 DEF Works
  <1>6. new.accepted = accepted /\ new.at = "draft" /\ new.session = w.session
    BY <1>3, <1>4 DEF Works
  <1> QED  BY <1>5, <1>6 DEF WorkFits, new

LEMMA SettledFits ==
    ASSUME NEW w, WorkFits(w), NEW outcome \in Outcomes
    PROVE  /\ WorkFits(Settled(w, outcome))
           /\ w.session \in Sessions => WorkFits([Settled(w, outcome) EXCEPT !.at = "generate"])
           /\ WorkFits([Settled(w, outcome) EXCEPT !.inserted = <<>>, !.evaluated = <<>>])
  <1> DEFINE a == w.accepted
             s == Settled(w, outcome)
  <1>1. s = [w EXCEPT !.at = "idle", !.outcome = outcome, !.draft = <<>>, !.index = 0,
              !.constructed = <<>>, !.remaining = 0, !.predicted = <<>>]
    BY DEF Settled
  <1>2. /\ w \in Works(a) /\ a \in Optional(Predictions)
        /\ <<>> \in Seq(Fits(a)) /\ <<>> \in Seq(Kana) /\ <<>> \in Optional(Paths)
    BY NothingYet DEF WorkFits
  <1> HIDE DEF s, a
  <1>3. s \in Works(a) /\ s.accepted = a /\ s.at = "idle" /\ s.session = w.session
    <2>1. outcome \in Outcomes /\ 0 \in Nat /\ 0 \in Int
      OBVIOUS
    <2>2. s \in Works(a)
      BY <1>1, <1>2, <2>1 DEF Works
    <2>3. s.at = "idle" /\ s.session = w.session
      BY <1>1, <1>2 DEF Works
    <2> QED  BY <2>2, <2>3 DEF Works
  <1>4. WorkFits(s)
    BY <1>2, <1>3 DEF WorkFits
  <1>5. ASSUME w.session \in Sessions PROVE WorkFits([s EXCEPT !.at = "generate"])
    <2> DEFINE g == [s EXCEPT !.at = "generate"]
    <2>1. g \in Works(a) /\ g.accepted = a /\ g.at = "generate" /\ g.session = w.session
      BY <1>3 DEF Works
    <2> HIDE DEF g
    <2>2. WorkFits(g)
      BY <1>2, <1>5, <2>1 DEF WorkFits
    <2> QED  BY <2>2 DEF g
  <1>6. WorkFits([s EXCEPT !.inserted = <<>>, !.evaluated = <<>>])
    <2> DEFINE g == [s EXCEPT !.inserted = <<>>, !.evaluated = <<>>]
    <2>1. g \in Works(a) /\ g.accepted = a /\ g.at = "idle"
      BY <1>2, <1>3 DEF Works
    <2> HIDE DEF g
    <2>2. WorkFits(g)
      BY <1>2, <2>1 DEF WorkFits
    <2> QED  BY <2>2 DEF g
  <1> QED  BY <1>4, <1>5, <1>6 DEF s

LEMMA PredictionFits ==
    ASSUME NEW w, WorkFits(w), w.session \in Sessions, NEW input \in Text
    PROVE  WorkFits(PredictionConversion(w, input))
  <1>1. w.accepted \in Optional(Predictions)
    BY DEF WorkFits
  <1> QED  BY <1>1, ConversionFits, NoConstraintFacts DEF PredictionConversion

\* What follows a convert call: the end, or a prediction.
LEMMA AfterFits ==
    ASSUME NEW w, WorkFits(w), w.session \in Sessions, NEW next \in After(w)
    PROVE  WorkFits(next)
  <1>1. "zenz" \in Outcomes /\ "none" \in Outcomes
    BY DEF Outcomes
  <1>2. CASE next = Settled(w, "zenz")
    BY <1>1, <1>2, SettledFits
  <1>3. CASE next = [Settled(w, "none") EXCEPT !.at = "generate"]
    BY <1>1, <1>3, SettledFits
  <1>4. CASE \E p \in KnownPredictions : next = PredictionConversion(w, w.input \o p)
    <2>1. PICK p \in KnownPredictions : next = PredictionConversion(w, w.input \o p)
      BY <1>4
    <2>2. PICK n \in 1 .. PredictionLength : p \in [1 .. n -> Kana]
      BY <2>1 DEF KnownPredictions
    <2>3. n \in Nat /\ p \in [1 .. n -> Tokens]
      BY <2>2, LanguageAssumption, LimitsAssumption
    <2>4. p \in Text
      BY <2>3, SeqMade DEF Text
    <2>5. w.input \in Text
      BY DEF WorkFits, Works
    <2>6. w.input \o p \in Text
      BY <2>4, <2>5, ConcatText
    <2> QED  BY <2>1, <2>6, PredictionFits
  <1> QED  BY <1>2, <1>3, <1>4 DEF After

FittingWorks == {w \in UNION {Works(a) : a \in Optional(Predictions)} : WorkFits(w)}

WorksFit(f) == f \in [Connections -> FittingWorks]
CacheFits(f) == f \in [Sessions -> CacheEntries]

LEMMA FittingIs ==
    ASSUME NEW w
    PROVE  w \in FittingWorks <=> WorkFits(w)
  BY DEF FittingWorks, WorkFits

LEMMA WorkReplaced ==
    ASSUME WorksFit(work), NEW c, NEW w, WorkFits(w), work' = [work EXCEPT ![c] = w]
    PROVE  WorksFit(work')
  <1>1. w \in FittingWorks
    BY FittingIs
  <1> QED  BY <1>1 DEF WorksFit

LEMMA CacheReplaced ==
    ASSUME CacheFits(cache), NEW s, NEW entry \in CacheEntries
    PROVE  CacheFits([cache EXCEPT ![s] = entry])
  BY DEF CacheFits

\* The candidate under review is one of the draft.
LEMMA CandidateFits ==
    ASSUME NEW w, WorkFits(w), w.at = "review"
    PROVE  /\ Candidate(w) \in Fits(w.accepted) /\ Candidate(w) \in Paths
           /\ <<Candidate(w)>> \in Optional(Paths)
           /\ WorkFits(Inserted(w)) /\ Inserted(w).at = "review"
           /\ Inserted(w).session = w.session /\ w.session \in Sessions
           /\ Candidate(Inserted(w)) = Candidate(w)
  <1> DEFINE a == w.accepted
             x == Candidate(w)
             i == Inserted(w)
  <1>1. /\ w \in Works(a) /\ a \in Optional(Predictions) /\ w.session \in Sessions
        /\ w.index \in 1 .. Len(w.draft)
    BY DEF WorkFits
  <1>2. w.draft \in Seq(Fits(a)) /\ w.inserted \in Seq(Fits(a))
    BY <1>1 DEF Works
  <1>3. x \in Fits(a)
    <2> HIDE DEF a
    <2> QED  BY <1>1, <1>2, ElementOfSeq DEF Candidate
  <1>4. x \in Paths
    BY <1>3 DEF Fits
  <1> HIDE DEF x
  <1>5. <<x>> \o w.inserted \in Seq(Fits(a))
    <2> HIDE DEF a
    <2>1. <<x>> \in Seq(Fits(a))
      BY <1>3
    <2> QED  BY <1>2, <2>1, ConcatProperties
  <1>6. i = [w EXCEPT !.inserted = <<x>> \o w.inserted]
    BY DEF Inserted, x
  <1> HIDE DEF i, a
  <1>7. i \in Works(a)
    BY <1>1, <1>5, <1>6 DEF Works
  <1>8. /\ i.accepted = a /\ i.at = "review" /\ i.session = w.session
        /\ i.index = w.index /\ i.draft = w.draft
    BY <1>1, <1>6 DEF Works, a
  <1>9. WorkFits(i)
    BY <1>1, <1>7, <1>8 DEF WorkFits
  <1>10. Candidate(i) = x
    BY <1>8 DEF Candidate, x
  <1>11. <<x>> \in Optional(Paths)
    BY <1>4 DEF Optional
  <1> QED  BY <1>1, <1>3, <1>4, <1>8, <1>9, <1>10, <1>11 DEF x, i, a

LEMMA UpdateFits ==
    ASSUME NEW w, WorkFits(w), NEW constraint \in Constraints,
           NEW satisfying \in Optional(Paths), NEW evaluated \in Optional(Paths)
    PROVE  Update(w, constraint, satisfying, evaluated) \in CacheEntries
  BY DEF WorkFits, Works, Update, CacheEntries

\* The end of a convert call keeps the session's cache and the work in order.
LEMMA ConvertedKeeps ==
    ASSUME WorksFit(work), CacheFits(cache), NEW c, NEW w, WorkFits(w), w.session \in Sessions,
           NEW entry \in CacheEntries, Converted(c, w, entry)
    PROVE  WorksFit(work') /\ CacheFits(cache')
  <1>1. CacheFits(cache')
    BY CacheReplaced DEF Converted
  <1>2. PICK next \in After(w) : work' = [work EXCEPT ![c] = next]
    BY DEF Converted
  <1>3. WorkFits(next)
    BY AfterFits
  <1> QED  BY <1>1, <1>2, <1>3, WorkReplaced

LEMMA AbortedKeeps ==
    ASSUME WorksFit(work), CacheFits(cache), NEW c, NEW w, WorkFits(w), NEW error,
           Aborted(c, w, error)
    PROVE  WorksFit(work') /\ CacheFits(cache')
  <1> DEFINE outcome == IF error = "capacity" THEN "dictionary" ELSE "internal"
             next == [Settled(w, outcome) EXCEPT !.inserted = <<>>, !.evaluated = <<>>]
  <1>1. EmptyCache \in CacheEntries
    BY NoConstraintFacts
  <1>2. CacheFits(cache')
    BY <1>1, CacheReplaced DEF Aborted
  <1>3. outcome \in Outcomes
    BY DEF Outcomes
  <1>4. work' = [work EXCEPT ![c] = next]
    BY DEF Aborted
  <1> HIDE DEF outcome
  <1>5. WorkFits(next)
    BY <1>3, SettledFits
  <1> QED  BY <1>2, <1>4, <1>5, WorkReplaced

LEMMA NextConstraint ==
    ASSUME NEW w, WorkFits(w), NEW text \in Text, NEW eos \in BOOLEAN
    PROVE  [Normalized(text, eos, w.constraint.ignore) EXCEPT !.fixed = w.constraint.fixed]
                \in Constraints
  <1>1. w.constraint \in Constraints
    BY DEF WorkFits, Works
  <1>2. w.constraint.ignore \in BOOLEAN /\ w.constraint.fixed \in SUBSET [length : Nat, ruby : Nat]
    BY <1>1 DEF Constraints
  <1>3. Normalized(text, eos, w.constraint.ignore) \in Constraints
    BY <1>2, NormalizedFacts
  <1> QED  BY <1>2, <1>3 DEF Constraints

\* review_rejection goes on with a candidate of the draft, drafts again, or
\* fails.
LEMMA RejectedFits ==
    ASSUME NEW w, WorkFits(w), w.at = "review", NEW next \in Constraints
    PROVE  Rejected(w, next).at = "failed" \/ WorkFits(Rejected(w, next))
  <1> DEFINE same == next = w.constraint
             constraint == IF same THEN [next EXCEPT !.ignore = TRUE] ELSE next
             retries == IF same \/ IsPrefix(w.constraint.text, next.text)
                        THEN RetryCandidates(w, next) ELSE {}
             a == w.accepted
             other == [w EXCEPT !.constraint = constraint, !.index = Min(retries)]
             again == Redraft(w, constraint)
             failed == [w EXCEPT !.at = "failed"]
  <1>1. w \in Works(a) /\ a \in Optional(Predictions) /\ w.session \in Sessions
        /\ w.draft \in Seq(Fits(a)) /\ Len(w.draft) \in Nat
    <2>1. w \in Works(a) /\ a \in Optional(Predictions) /\ w.session \in Sessions
      BY DEF WorkFits
    <2>2. w.draft \in Seq(Fits(a))
      BY <2>1 DEF Works
    <2> QED  BY <2>1, <2>2, LenProperties
  <1>2. constraint \in Constraints
    <2>1. [next EXCEPT !.ignore = TRUE] \in Constraints
      BY DEF Constraints
    <2> QED  BY <2>1
  <1>3. \/ Rejected(w, next) = failed
        \/ retries # {} /\ Rejected(w, next) = other
        \/ Rejected(w, next) = again
    BY DEF Rejected
  <1>4. failed.at = "failed"
    BY <1>1 DEF Works
  <1>5. retries \in SUBSET (1 .. Len(w.draft))
    <2>1. RetryCandidates(w, next) \in SUBSET (DOMAIN w.draft)
      BY DEF RetryCandidates
    <2>2. DOMAIN w.draft = 1 .. Len(w.draft)
      BY <1>1, LenProperties
    <2> QED  BY <2>1, <2>2
  <1> HIDE DEF retries, constraint, same
  <1>6. retries # {} => WorkFits(other)
    <2> HAVE retries # {}
    <2> DEFINE k == Min(retries)
    <2>1. retries \in SUBSET Nat
      BY <1>1, <1>5
    <2>2. k \in 1 .. Len(w.draft) /\ k \in Nat
      BY <1>5, <2>1, MinFacts
    <2>3. other = [w EXCEPT !.constraint = constraint, !.index = k]
      OBVIOUS
    <2> HIDE DEF k, other, a
    <2>4. other \in Works(a)
      BY <1>1, <1>2, <2>2, <2>3 DEF Works
    <2>5. /\ other.accepted = a /\ other.session = w.session
          /\ other.index = k /\ other.draft = w.draft
      BY <1>1, <2>3 DEF Works, a
    <2> QED  BY <1>1, <2>2, <2>4, <2>5 DEF WorkFits
  <1>7. WorkFits(again)
    <2>1. again = [w EXCEPT !.constraint = constraint, !.at = "draft", !.draft = <<>>, !.index = 0]
      BY DEF Redraft
    <2>2. <<>> \in Seq(Fits(a))
      BY NothingYet
    <2> HIDE DEF again, a
    <2>3. again \in Works(a)
      BY <1>1, <1>2, <2>1, <2>2 DEF Works
    <2>4. again.accepted = a /\ again.session = w.session /\ again.at = "draft"
      BY <1>1, <2>1 DEF Works, a
    <2> QED  BY <1>1, <2>3, <2>4 DEF WorkFits
  <1> QED  BY <1>3, <1>4, <1>6, <1>7

\* A sequence the other way round.
LEMMA ReverseFacts ==
    ASSUME NEW S, NEW s \in Seq(S)
    PROVE  Reverse(s) \in Seq(S) /\ (s # <<>> => Reverse(s) # <<>>)
  <1>1. Len(s) \in Nat /\ \A i \in 1 .. Len(s) : s[i] \in S
    BY LenProperties, ElementOfSeq
  <1>2. Reverse(s) = [i \in 1 .. Len(s) |-> s[(Len(s) - i) + 1]]
    BY DEF Reverse
  <1>3. \A i \in 1 .. Len(s) : (Len(s) - i) + 1 \in 1 .. Len(s)
    BY <1>1
  <1>4. Reverse(s) \in [1 .. Len(s) -> S]
    BY <1>1, <1>2, <1>3
  <1>5. Reverse(s) \in Seq(S)
    BY <1>1, <1>4, SeqMade
  <1>6. ASSUME s # <<>> PROVE Reverse(s) # <<>>
    <2>1. Len(s) # 0
      BY <1>6, EmptySeq
    <2>2. Reverse(s) = <<>> => DOMAIN Reverse(s) = {}
      OBVIOUS
    <2>3. 1 \in DOMAIN Reverse(s)
      BY <1>1, <1>4, <2>1
    <2> QED  BY <2>2, <2>3
  <1> QED  BY <1>5, <1>6

\* The best candidate is one of the candidates.
LEMMA BestOfFacts ==
    ASSUME NEW S, NEW s \in Seq(S), s # <<>>
    PROVE  /\ BestOf(s) \in S
           /\ \E i \in 1 .. Len(s) : s[i] = BestOf(s)
  <1>1. ASSUME NEW R, s \in Seq(R) PROVE BestOf(s) \in R
    <2>1. Reverse(s) \in Seq(R) /\ Reverse(s) # <<>>
      BY <1>1, ReverseFacts
    <2>2. BestFirst(Reverse(s)) \in Seq(R) /\ BestFirst(Reverse(s)) # <<>>
      BY <2>1, RankedFacts DEF BestFirst
    <2>3. ASSUME NEW t \in Seq(R), t # <<>> PROVE Head(t) \in R
      BY <2>3, HeadTailProperties
    <2> QED  BY <2>2, <2>3 DEF BestOf
  <1>2. Len(s) \in Nat /\ s \in [1 .. Len(s) -> S]
    BY LenProperties
  <1>3. s \in [1 .. Len(s) -> {s[i] : i \in 1 .. Len(s)}]
    BY <1>2
  <1>4. s \in Seq({s[i] : i \in 1 .. Len(s)})
    BY <1>2, <1>3, SeqMade
  <1>5. BestOf(s) \in {s[i] : i \in 1 .. Len(s)}
    BY <1>1, <1>4
  <1> QED  BY <1>1, <1>5

\* insert_rich_candidates offers what the drafts offer.
LEMMA RichFits ==
    ASSUME NEW w, WorkFits(w), NEW alternatives,
           alternatives \in Seq(Alternatives(alternatives))
    PROVE  Rich(w, alternatives) \in Seq(Fits(w.accepted))
  <1> DEFINE S == Fits(w.accepted)
             T == Alternatives(alternatives)
             likely == Retained(alternatives, {a \in ToSet(alternatives) : a.gap < QuarterGap})
             s == Reverse(likely)
             n == Len(s)
             Wanted(a) == Normalized(a.text, FALSE, FALSE)
             Existing(a) == Retained(w.constructed,
                    {x \in ToSet(w.constructed) : CandidateSatisfies(x, Wanted(a))})
             More(a) == Drafted(w, 3, Wanted(a))
             Found(a) == IF Existing(a) # <<>> THEN <<BestOf(Existing(a))>>
                         ELSE IF a.gap < HalfGap /\ More(a) # <<>> THEN <<BestOf(More(a))>>
                         ELSE <<>>
             Add(t, a) == Take(t, 1) \o Found(a) \o SubSeq(t, 2, Len(t))
             Eq(f) == f = [i \in 0 .. n |-> IF i = 0 THEN w.inserted ELSE Add(f[i - 1], s[i])]
             it == CHOOSE f : Eq(f)
             step == [t \in Seq(S) |-> [a \in T |-> Add(t, a)]]
  <1>1. /\ w.input \in Text /\ w.accepted \in Optional(Predictions)
        /\ w.constructed \in Seq(S) /\ w.inserted \in Seq(S)
    BY DEF WorkFits, Works
  <1>2. s \in Seq(T)
    <2>1. likely \in Seq(T)
      BY RetainedFacts
    <2> HIDE DEF likely
    <2> QED  BY <2>1, ReverseFacts
  <1>3. n \in Nat /\ \A k \in 1 .. n : s[k] \in T
    <2> HIDE DEF s, T
    <2> QED  BY <1>2, LenProperties, ElementOfSeq
  <1>4. 1 \in Nat /\ 2 \in Nat /\ 3 \in Nat /\ 2 > 0
    OBVIOUS
  <1> HIDE DEF S
  <1>5. ASSUME NEW a \in T PROVE Found(a) \in Seq(S)
    <2>1. Wanted(a) \in Constraints
      BY NormalizedFacts DEF Alternatives, IsAlternative
    <2> HIDE DEF Wanted
    <2>2. Existing(a) \in Seq(S)
      BY <1>1, RetainedFacts
    <2> HIDE DEF Existing
    <2>3. More(a) \in Seq(S)
      BY <1>1, <1>4, <2>1, DraftedFacts DEF S
    <2> HIDE DEF More
    <2>4. ASSUME NEW t \in Seq(S), t # <<>> PROVE <<BestOf(t)>> \in Seq(S)
      <3>1. BestOf(t) \in S
        BY <2>4, BestOfFacts
      <3> QED  BY <3>1
    <2>5. <<>> \in Seq(S)
      OBVIOUS
    <2> QED  BY <2>2, <2>3, <2>4, <2>5
  <1>6. ASSUME NEW t \in Seq(S), NEW a \in T PROVE Add(t, a) \in Seq(S)
    <2>1. Len(t) \in Nat /\ Len(t) <= Len(t)
      BY LenProperties
    <2>2. Take(t, 1) \in Seq(S) /\ SubSeq(t, 2, Len(t)) \in Seq(S)
      BY <1>4, <2>1, TakeFacts, SliceFacts
    <2>3. Found(a) \in Seq(S)
      BY <1>5
    <2> HIDE DEF Found
    <2>4. Take(t, 1) \o Found(a) \in Seq(S)
      BY <2>2, <2>3, ConcatProperties
    <2> QED  BY <2>2, <2>4, ConcatProperties
  <1>7. Rich(w, alternatives) = it[n]
    BY DEF Rich, Fold
  <1> HIDE DEF Found, Add, s, n, T
  <1>8. step \in [Seq(S) -> [T -> Seq(S)]]
    BY <1>6
  <1>9. PICK f \in [0 .. n -> Seq(S)] : IsChain(f, step, s, w.inserted)
    <2> HIDE DEF step
    <2> QED  BY <1>1, <1>2, <1>8, ChainExists DEF n
  <1>10. \A k \in 1 .. n : f[k] = Add(f[k - 1], s[k])
    <2>1. \A k \in 1 .. n : f[k - 1] \in Seq(S)
      BY <1>3
    <2> QED  BY <1>3, <1>9, <2>1 DEF IsChain, n
  <1>11. Eq(f)
    <2>1. \A i \in 0 .. n : f[i] = IF i = 0 THEN w.inserted ELSE Add(f[i - 1], s[i])
      BY <1>3, <1>9, <1>10 DEF IsChain
    <2> QED  BY <2>1
  <1>12. Eq(it)
    <2> HIDE DEF Eq
    <2> QED  BY <1>11
  <1> HIDE DEF it
  <1>13. \A i \in 0 .. n : it[i] = IF i = 0 THEN w.inserted ELSE Add(it[i - 1], s[i])
    BY <1>12
  <1>14. it[0] \in Seq(S)
    BY <1>1, <1>3, <1>13
  <1>15. ASSUME NEW k \in 1 .. n, it[k - 1] \in Seq(S) PROVE it[k] \in Seq(S)
    <2>1. k \in 0 .. n /\ k # 0
      BY <1>3
    <2>2. it[k] = Add(it[k - 1], s[k])
      BY <1>13, <2>1
    <2> QED  BY <1>3, <1>6, <1>15, <2>2
  <1>16. it[n] \in Seq(S)
    BY <1>3, <1>14, <1>15, ChainEnds
  <1> QED  BY <1>7, <1>16 DEF S

\* The words an accepted prediction fixed are put before what is asked for.
LEMMA PrependFits ==
    ASSUME NEW fixed \in Text, NEW v, VerdictFits(v)
    PROVE  VerdictFits(PrependFixed(fixed, v)) /\ PrependFixed(fixed, v).kind = v.kind
  <1> DEFINE s == v.alternatives
             Moved(a) == [a EXCEPT !.text = fixed \o @]
             t == [i \in DOMAIN s |-> Moved(s[i])]
             words == IF v.kind = "pass" THEN v.text ELSE fixed \o v.text
             p == PrependFixed(fixed, v)
  <1>1. v.text \in Text /\ v = [kind |-> v.kind, text |-> v.text, alternatives |-> s]
    BY DEF VerdictFits
  <1>2. p = [v EXCEPT !.text = words, !.alternatives = t]
    BY DEF PrependFixed
  <1>3. words \in Text
    BY <1>1, ConcatText
  <1>4. s \in Seq(Alternatives(s))
    BY DEF VerdictFits
  <1> HIDE DEF words, s, p
  <1>5. \A a \in Alternatives(s) : IsAlternative(Moved(a))
    <2> TAKE a \in Alternatives(s)
    <2>1. a = [gap |-> a.gap, text |-> a.text] /\ a.text \in Text
      BY DEF Alternatives, IsAlternative
    <2>2. fixed \o a.text \in Text
      BY <2>1, ConcatText
    <2> DEFINE b == Moved(a)
               words2 == fixed \o a.text
    <2>3. b = [gap |-> a.gap, text |-> words2]
      <3>1. PICK g, x : a = [gap |-> g, text |-> x]
        BY <2>1
      <3>2. a.gap = g /\ b = [a EXCEPT !.text = words2]
        BY <3>1
      <3> HIDE DEF words2, b
      <3>3. [[gap |-> g, text |-> x] EXCEPT !.text = words2] = [gap |-> g, text |-> words2]
        OBVIOUS
      <3> QED  BY <3>1, <3>2, <3>3
    <2> HIDE DEF b, words2
    <2>4. b = [gap |-> b.gap, text |-> b.text] /\ b.text \in Text
      BY <2>2, <2>3 DEF words2
    <2>5. IsAlternative(b)
      BY <2>4 DEF IsAlternative
    <2> QED  BY <2>5 DEF b
  <1>6. Len(s) \in Nat /\ DOMAIN s = 1 .. Len(s) /\ \A i \in 1 .. Len(s) : s[i] \in Alternatives(s)
    <2> DEFINE A == Alternatives(s)
    <2>1. s \in Seq(A)
      BY <1>4
    <2> HIDE DEF A
    <2>2. Len(s) \in Nat /\ DOMAIN s = 1 .. Len(s) /\ \A i \in 1 .. Len(s) : s[i] \in A
      BY <2>1, LenProperties, ElementOfSeq
    <2> QED  BY <2>2 DEF A
  <1> HIDE DEF Moved
  <1> DEFINE S == {Moved(s[i]) : i \in 1 .. Len(s)}
  <1>7. \A a \in S : IsAlternative(a)
    BY <1>5, <1>6
  <1>8. t \in [1 .. Len(s) -> S]
    BY <1>6
  <1> HIDE DEF S, t
  <1>9. t \in Seq(S)
    BY <1>6, <1>8, SeqMade
  <1>10. t \in Seq(Alternatives(t))
    BY <1>7, <1>9, AlternativesTyped
  <1>11. p = [kind |-> v.kind, text |-> words, alternatives |-> t]
    BY <1>1, <1>2
  <1>12. VerdictFits(p) /\ p.kind = v.kind
    BY <1>3, <1>10, <1>11 DEF VerdictFits
  <1> QED  BY <1>12 DEF p

\* An inference is spent on the candidate.
LEMMA SpentFits ==
    ASSUME NEW w, WorkFits(w), w.at = "review", NEW inherited,
           inherited \in BOOLEAN \/ inherited = Inserted(w).inherited
    PROVE  LET seen == [Inserted(w) EXCEPT !.inherited = inherited]
           IN  /\ WorkFits(seen)
               /\ WorkFits(Spent(seen)) /\ Spent(seen).at = "review"
  <1> DEFINE a == w.accepted
             i == Inserted(w)
             seen == [i EXCEPT !.inherited = inherited]
             spent == Spent(seen)
  <1>1. WorkFits(i) /\ i.at = "review"
    BY CandidateFits
  <1> HIDE DEF i
  <1>2. i.accepted \in Optional(Predictions) /\ i \in Works(i.accepted) /\ i.session \in Sessions
        /\ i.index \in 1 .. Len(i.draft)
    BY <1>1 DEF WorkFits
  <1>3. inherited \in BOOLEAN
    BY <1>2 DEF Works, i
  <1>4. seen \in Works(i.accepted)
    BY <1>2, <1>3 DEF Works
  <1>5. /\ seen.accepted = i.accepted /\ seen.at = "review" /\ seen.session = i.session
        /\ seen.index = i.index /\ seen.draft = i.draft
    BY <1>1, <1>2 DEF Works
  <1> HIDE DEF seen
  <1>6. WorkFits(seen)
    BY <1>2, <1>4, <1>5 DEF WorkFits
  <1>7. seen.remaining - 1 \in Int
    BY <1>4 DEF Works
  <1>8. spent = [seen EXCEPT !.remaining = seen.remaining - 1]
    BY DEF Spent
  <1> HIDE DEF spent
  <1>9. spent \in Works(i.accepted)
    BY <1>4, <1>7, <1>8 DEF Works
  <1>10. /\ spent.accepted = i.accepted /\ spent.at = "review" /\ spent.session = i.session
         /\ spent.index = i.index /\ spent.draft = i.draft
    BY <1>4, <1>5, <1>8 DEF Works
  <1>11. WorkFits(spent)
    BY <1>2, <1>9, <1>10 DEF WorkFits
  <1> QED  BY <1>6, <1>10, <1>11 DEF spent, seen, i

\* What a verdict leads to, accepted, rejected or at the end.
LEMMA JudgedKeeps ==
    ASSUME WorksFit(work), CacheFits(cache), NEW c, NEW w, WorkFits(w), w.at = "review",
           NEW verdict, VerdictFits(verdict), Judged(c, w, verdict)
    PROVE  WorksFit(work') /\ CacheFits(cache')
  <1> DEFINE next == [Normalized(verdict.text, verdict.kind = "whole", w.constraint.ignore)
                        EXCEPT !.fixed = w.constraint.fixed]
             rejected == Rejected(w, next)
             x == Candidate(w)
             offered == IF w.rich THEN Rich(w, verdict.alternatives) ELSE w.inserted
             passed == [w EXCEPT !.evaluated = <<x>>, !.inserted = offered]
             a == w.accepted
  <1>1. /\ verdict.text \in Text
        /\ verdict.alternatives \in Seq(Alternatives(verdict.alternatives))
    BY DEF VerdictFits
  <1>2. /\ a \in Optional(Predictions) /\ w \in Works(a) /\ w.session \in Sessions
        /\ w.index \in 1 .. Len(w.draft)
    BY DEF WorkFits
  <1>3. w.constraint \in Constraints /\ w.inserted \in Seq(Fits(a))
    BY <1>2 DEF Works
  <1>4. <<x>> \in Optional(Paths)
    BY CandidateFits
  <1>5. <<>> \in Optional(Paths) /\ NoConstraint \in Constraints
    BY NothingYet, NoConstraintFacts
  <1>6. next \in Constraints
    <2> DEFINE eos == verdict.kind = "whole"
    <2>1. eos \in BOOLEAN
      OBVIOUS
    <2> HIDE DEF eos
    <2>2. [Normalized(verdict.text, eos, w.constraint.ignore) EXCEPT !.fixed = w.constraint.fixed]
                \in Constraints
      BY <1>1, <2>1, NextConstraint
    <2> QED  BY <2>2 DEF eos
  <1>7. offered \in Seq(Fits(a))
    BY <1>1, <1>3, RichFits
  <1>8. \/ Converted(c, passed, Update(w, w.constraint, <<x>>, <<x>>))
        \/ Converted(c, w, Update(w, NoConstraint, <<>>, <<>>))
        \/ rejected.at # "failed" /\ work' = [work EXCEPT ![c] = rejected] /\ cache' = cache
    BY DEF Judged
  <1> HIDE DEF next, x, offered
  <1>9. CASE Converted(c, passed, Update(w, w.constraint, <<x>>, <<x>>))
    <2> HIDE DEF a
    <2>1. passed \in Works(a)
      BY <1>2, <1>4, <1>7 DEF Works
    <2>2. /\ passed.accepted = a /\ passed.at = "review" /\ passed.session = w.session
          /\ passed.index = w.index /\ passed.draft = w.draft
      BY <1>2 DEF Works, a
    <2> HIDE DEF passed
    <2>3. WorkFits(passed)
      BY <1>2, <2>1, <2>2 DEF WorkFits
    <2>4. Update(w, w.constraint, <<x>>, <<x>>) \in CacheEntries
      BY <1>3, <1>4, UpdateFits
    <2> QED  BY <1>2, <1>9, <2>2, <2>3, <2>4, ConvertedKeeps
  <1>10. CASE Converted(c, w, Update(w, NoConstraint, <<>>, <<>>))
    <2>1. Update(w, NoConstraint, <<>>, <<>>) \in CacheEntries
      BY <1>5, UpdateFits
    <2> QED  BY <1>2, <1>10, <2>1, ConvertedKeeps
  <1>11. CASE rejected.at # "failed" /\ work' = [work EXCEPT ![c] = rejected] /\ cache' = cache
    <2>1. WorkFits(rejected)
      BY <1>6, <1>11, RejectedFits
    <2> HIDE DEF rejected
    <2> QED  BY <1>11, <2>1, WorkReplaced DEF CacheFits
  <1> QED  BY <1>8, <1>9, <1>10, <1>11

----------------------------------------------------------------------------
(***************************************************************************)
(* The cache of verdicts.  Every verdict in it is the one the model m      *)
(* gives to its question with an empty memory.                             *)
(***************************************************************************)
FreshVerdict(m, v) ==
    LET q == v.key.question
        addressed == Addressed(q, v.key.reuses)
    IN  /\ QuestionFits(q)
        /\ v.verdict = JudgeBy(m, q, addressed, FreshRows(q, addressed))

FreshVerdicts(m, s) == {v \in ToSet(s) : FreshVerdict(m, v)}

AllFresh(m, s) == s \in Seq(FreshVerdicts(m, s))

LEMMA FreshTyped ==
    ASSUME NEW m, NEW S, NEW s \in Seq(S), \A v \in S : FreshVerdict(m, v)
    PROVE  AllFresh(m, s)
  <1>1. \A v \in ToSet(s) : v \in FreshVerdicts(m, s)
    BY ElementFacts DEF FreshVerdicts
  <1> QED  BY <1>1, Narrowed DEF AllFresh

LEMMA NothingCached ==
    ASSUME NEW m
    PROVE  AllFresh(m, <<>>)
  BY DEF AllFresh

\* A verdict that was found moves to the end.
LEMMA TouchedFits ==
    ASSUME NEW m, NEW s, AllFresh(m, s), NEW i \in DOMAIN s
    PROVE  AllFresh(m, Touched(s, i)) /\ FreshVerdict(m, s[i])
  <1> DEFINE S == FreshVerdicts(m, s)
             t == Touched(s, i)
  <1>1. s \in Seq(S) /\ \A v \in S : FreshVerdict(m, v)
    BY DEF AllFresh, FreshVerdicts
  <1> HIDE DEF S
  <1>2. Len(s) \in Nat /\ i \in 1 .. Len(s) /\ s[i] \in S
    <2>1. Len(s) \in Nat /\ DOMAIN s = 1 .. Len(s)
      BY <1>1, LenProperties
    <2> QED  BY <1>1, <2>1, ElementOfSeq
  <1>3. SubSeq(s, 1, i - 1) \in Seq(S) /\ SubSeq(s, i + 1, Len(s)) \in Seq(S)
    <2>1. /\ 1 \in Nat /\ 1 > 0 /\ i - 1 \in Nat /\ i - 1 <= Len(s)
          /\ i + 1 \in Nat /\ i + 1 > 0 /\ Len(s) <= Len(s)
      BY <1>2
    <2> QED  BY <1>1, <1>2, <2>1, SliceFacts
  <1>4. RemoveAt(s, i) \in Seq(S)
    BY <1>3, ConcatProperties DEF RemoveAt
  <1>5. t \in Seq(S)
    BY <1>2, <1>4, AppendProperties DEF Touched
  <1> HIDE DEF t
  <1>6. AllFresh(m, t)
    BY <1>1, <1>5, FreshTyped
  <1> QED  BY <1>1, <1>2, <1>6 DEF t

\* A verdict that was given is added, in the place of the oldest if need be.
LEMMA StoredFits ==
    ASSUME NEW m, NEW s, AllFresh(m, s), NEW q, QuestionFits(q), NEW reuses, NEW verdict,
           verdict = JudgeBy(m, q, Addressed(q, reuses), FreshRows(q, Addressed(q, reuses)))
    PROVE  AllFresh(m, Stored(s, CacheKey(q, reuses), verdict))
  <1> DEFINE e == [key |-> CacheKey(q, reuses), verdict |-> verdict]
             S == FreshVerdicts(m, s) \cup {e}
             old == IF Len(s) >= EvaluationCapacity THEN Tail(s) ELSE s
             t == Append(old, e)
  <1>1. FreshVerdict(m, e)
    BY DEF FreshVerdict, CacheKey
  <1>2. e \in S /\ \A v \in S : FreshVerdict(m, v)
    BY <1>1 DEF FreshVerdicts
  <1>3. s \in Seq(FreshVerdicts(m, s))
    BY DEF AllFresh
  <1>4. s \in Seq(S)
    <2> DEFINE F == FreshVerdicts(m, s)
    <2>1. s \in Seq(F) /\ \A v \in F : v \in S
      BY <1>3
    <2> HIDE DEF F, S
    <2>2. \A v \in ToSet(s) : v \in S
      BY <2>1, ElementFacts
    <2> QED  BY <2>1, <2>2, Narrowed
  <1>5. Stored(s, CacheKey(q, reuses), verdict) = t
    BY DEF Stored
  <1> HIDE DEF S, e
  <1>6. old \in Seq(S)
    <2>1. CASE Len(s) >= EvaluationCapacity
      <3>1. EvaluationCapacity \in Nat /\ EvaluationCapacity > 0 /\ Len(s) \in Nat
        BY <1>4, LimitsAssumption, LenProperties
      <3>2. Len(s) # 0
        BY <2>1, <3>1
      <3>3. s # <<>>
        BY <1>4, <3>2, EmptySeq
      <3>4. Tail(s) \in Seq(S)
        BY <1>4, <3>3, HeadTailProperties
      <3> QED  BY <2>1, <3>4
    <2>2. CASE ~(Len(s) >= EvaluationCapacity)
      BY <1>4, <2>2
    <2> QED  BY <2>1, <2>2
  <1> HIDE DEF old
  <1>7. t \in Seq(S)
    BY <1>2, <1>6, AppendProperties
  <1> HIDE DEF t
  <1>8. AllFresh(m, t)
    BY <1>2, <1>7, FreshTyped
  <1> QED  BY <1>5, <1>8

\* A cached verdict asks for texts.
LEMMA FreshFits ==
    ASSUME NEW m, NEW v, FreshVerdict(m, v)
    PROVE  VerdictFits(v.verdict)
  BY AddressedFacts, JudgeFacts DEF FreshVerdict

EvaluatorsFit(m, f) ==
    /\ f = [c \in Connections |-> f[c]]
    /\ \A c \in Connections : AllFresh(m, f[c].verdicts)

LEMMA EvaluatorReplaced ==
    ASSUME NEW m, EvaluatorsFit(m, evaluator), NEW c \in Connections, NEW s, AllFresh(m, s),
           NEW previous,
           evaluator' = [evaluator EXCEPT ![c] = [verdicts |-> s, previous |-> previous]]
    PROVE  EvaluatorsFit(m, evaluator')
  <1> DEFINE e == [verdicts |-> s, previous |-> previous]
  <1>1. evaluator' = [d \in Connections |-> IF d = c THEN e ELSE evaluator[d]]
    BY DEF EvaluatorsFit
  <1>2. e.verdicts = s
    OBVIOUS
  <1> HIDE DEF e
  <1>3. \A d \in Connections : AllFresh(m, evaluator'[d].verdicts)
    BY <1>1, <1>2 DEF EvaluatorsFit
  <1>4. evaluator' = [d \in Connections |-> evaluator'[d]]
    BY <1>1
  <1> QED  BY <1>3, <1>4 DEF EvaluatorsFit

----------------------------------------------------------------------------
(***************************************************************************)
(* The inductive invariant, and each action.                               *)
(***************************************************************************)
Inv ==
    /\ LlamaInv
    /\ WorksFit(work)
    /\ CacheFits(cache)
    /\ EvaluatorsFit(model, evaluator)

LEMMA LlamaStarts ==
    ASSUME LlamaInit
    PROVE  LlamaInv
  <1>1. cells = {} /\ held = [s \in Sequences |-> <<>>]
    BY DEF LlamaInit
  <1>2. \A s \in Sequences : Agrees(cells, s, <<>>)
    BY <1>1, EmptyAgrees DEF Owned
  <1> QED  BY <1>1, <1>2, EmptySeq DEF LlamaInv

LEMMA LlamaStays ==
    ASSUME LlamaInv, UNCHANGED llamaVars
    PROVE  LlamaInv'
  BY DEF LlamaInv, Agrees, Owned, llamaVars

LEMMA InitFits ==
    ASSUME Init
    PROVE  Inv
  <1>1. LlamaInv
    BY LlamaStarts DEF Init
  <1>2. WorksFit(work)
    <2>1. NoWork \in FittingWorks
      BY NoWorkFits, FittingIs
    <2>2. work = [c \in Connections |-> NoWork]
      BY DEF Init
    <2> QED  BY <2>1, <2>2 DEF WorksFit
  <1>3. CacheFits(cache)
    <2>1. cache = [s \in Sessions |-> EmptyCache]
      BY DEF Init
    <2> QED  BY <2>1, NoConstraintFacts DEF CacheFits
  <1>4. EvaluatorsFit(model, evaluator)
    <2>1. evaluator = [c \in Connections |-> [verdicts |-> <<>>, previous |-> <<>>]]
      BY DEF Init
    <2> QED  BY <2>1, NothingCached DEF EvaluatorsFit
  <1> QED  BY <1>1, <1>2, <1>3, <1>4 DEF Inv

\* The work of a connection, and a cache of a session.
LEMMA WorkIs ==
    ASSUME Inv, NEW c \in Connections
    PROVE  /\ WorkFits(work[c])
           /\ work[c].at # "idle" => work[c].session \in Sessions
           /\ work[c].input \in Text /\ work[c].full \in Text /\ work[c].left \in Text
           /\ work[c].constraint \in Constraints /\ work[c].accepted \in Optional(Predictions)
           /\ work[c].predicted \in Seq(Kana)
           /\ \A s \in Sessions : cache[s] \in CacheEntries
  <1>1. WorkFits(work[c])
    BY FittingIs DEF Inv, WorksFit
  <1>2. work[c].accepted \in Optional(Predictions) /\ work[c] \in Works(work[c].accepted)
    BY <1>1 DEF WorkFits
  <1>3. work[c].at # "idle" => work[c].session \in Sessions
    BY <1>1 DEF WorkFits
  <1> QED  BY <1>1, <1>2, <1>3 DEF Works, Inv, CacheFits

LEMMA RequestKeepsInv ==
    ASSUME Inv, NEW c \in Connections, Request(c)
    PROVE  Inv'
  <1> DEFINE Asked(s, target, left, rich, accepted) ==
                [work EXCEPT ![c] =
                    Conversion([NoWork EXCEPT !.session = s, !.left = left],
                               target.input, target.full, accepted, rich, cache[s], FALSE)]
  <1>a. PICK s \in SessionsOf[c], target \in Targets, left \in LeftContexts, rich \in RichModes :
          \E accepted \in AcceptedFor(target.input) :
            /\ work' = Asked(s, target, left, rich, accepted)
            /\ UNCHANGED <<llamaVars, model, evaluator, cache>>
    BY DEF Request
  <1>1. PICK accepted \in AcceptedFor(target.input) :
            /\ work' = Asked(s, target, left, rich, accepted)
            /\ UNCHANGED <<llamaVars, model, evaluator, cache>>
    BY <1>a
  <1>2. s \in Sessions
    BY DEF Sessions
  <1>3. /\ target.input \in Text /\ target.full \in Text /\ left \in Text
        /\ rich \in BOOLEAN /\ FALSE \in BOOLEAN
    BY LanguageAssumption, LimitsAssumption DEF Text
  <1>4. accepted \in Optional(Predictions)
    <2>1. AcceptedPredictions \in SUBSET Predictions
      BY LanguageAssumption DEF Predictions, Text
    <2> QED  BY <2>1 DEF AcceptedFor, Optional
  <1>5. cache[s] \in CacheEntries
    BY <1>2, WorkIs
  <1> DEFINE start == [NoWork EXCEPT !.session = s, !.left = left]
  <1>6. WorkFits(start) /\ start.session \in Sessions
    <2>1. NoWork.accepted = <<>> /\ NoWork.at = "idle"
      BY DEF NoWork
    <2>2. NoWork \in Works(<<>>) /\ <<>> \in Optional(Predictions)
      BY <2>1, NoWorkFits DEF WorkFits
    <2>3. start \in Works(<<>>)
      BY <1>2, <1>3, <2>2 DEF Works
    <2>4. start.accepted = <<>> /\ start.at = "idle" /\ start.session = s
      BY <2>1, <2>2 DEF Works
    <2> HIDE DEF start
    <2>5. WorkFits(start)
      BY <2>2, <2>3, <2>4 DEF WorkFits
    <2> QED  BY <1>2, <2>4, <2>5
  <1> HIDE DEF start
  <1> DEFINE new == Conversion(start, target.input, target.full, accepted, rich, cache[s], FALSE)
  <1>7. WorkFits(new)
    BY <1>3, <1>4, <1>5, <1>6, ConversionFits
  <1>8. work' = [work EXCEPT ![c] = new]
    BY <1>1 DEF start
  <1> HIDE DEF new
  <1>9. WorksFit(work')
    BY <1>7, <1>8, WorkReplaced DEF Inv
  <1>10. LlamaInv'
    BY <1>1, LlamaStays DEF Inv
  <1> QED  BY <1>1, <1>9, <1>10 DEF Inv

\* An action of the loop that leaves the model and the verdicts alone.
LEMMA LoopKeepsInv ==
    ASSUME Inv, UNCHANGED <<llamaVars, model, evaluator>>, WorksFit(work'), CacheFits(cache')
    PROVE  Inv'
  <1>1. LlamaInv'
    BY LlamaStays DEF Inv
  <1> QED  BY <1>1 DEF Inv

LEMMA DraftKeepsInv ==
    ASSUME Inv, NEW c \in Connections, Draft(c)
    PROVE  Inv'
  <1> DEFINE w == work[c]
             a == w.accepted
             nBest == DraftCount(w)
             draft == Drafted(w, nBest, w.constraint)
             best == IndexOfBest(draft)
             new == [w EXCEPT !.at = "review", !.draft = draft, !.index = best,
                              !.constructed = w.constructed \o draft]
  <1>1. /\ WorkFits(w) /\ w.at = "draft" /\ w.session \in Sessions
        /\ w.input \in Text /\ w.constraint \in Constraints /\ a \in Optional(Predictions)
    BY WorkIs DEF Draft
  <1>2. /\ \/ draft = <<>> /\ Converted(c, w, Update(w, NoConstraint, <<>>, <<>>))
           \/ draft # <<>> /\ work' = [work EXCEPT ![c] = new] /\ cache' = cache
        /\ UNCHANGED <<llamaVars, model, evaluator>>
    BY DEF Draft
  <1>3. nBest \in Nat
    BY DEF DraftCount
  <1> HIDE DEF nBest, w
  <1>4. draft \in Seq(Fits(a))
    BY <1>1, <1>3, DraftedFacts
  <1> HIDE DEF draft
  <1>5. CASE draft = <<>> /\ Converted(c, w, Update(w, NoConstraint, <<>>, <<>>))
    <2>1. Update(w, NoConstraint, <<>>, <<>>) \in CacheEntries
      BY <1>1, NothingYet, NoConstraintFacts, UpdateFits
    <2>2. WorksFit(work') /\ CacheFits(cache')
      BY <1>1, <1>5, <2>1, ConvertedKeeps DEF Inv
    <2> QED  BY <1>2, <2>2, LoopKeepsInv
  <1>6. CASE draft # <<>> /\ work' = [work EXCEPT ![c] = new] /\ cache' = cache
    <2>1. w \in Works(a) /\ w.constructed \in Seq(Fits(a))
      BY <1>1 DEF WorkFits, Works
    <2>2. w.constructed \o draft \in Seq(Fits(a))
      BY <1>4, <2>1, ConcatProperties
    <2>3. best \in 1 .. Len(draft) /\ best \in Nat
      <3>1. Len(draft) \in Nat /\ DOMAIN draft = 1 .. Len(draft)
        BY <1>4, LenProperties
      <3>2. \E i \in DOMAIN draft : draft[i] = BestOf(draft)
        BY <1>4, <1>6, <3>1, BestOfFacts
      <3>3. best \in DOMAIN draft
        BY <3>2 DEF IndexOfBest
      <3> QED  BY <3>1, <3>3
    <2> HIDE DEF a, best
    <2>4. new \in Works(a)
      BY <1>4, <2>1, <2>2, <2>3 DEF Works
    <2>5. /\ new.accepted = a /\ new.session = w.session /\ new.index = best
          /\ new.draft = draft
      BY <2>1 DEF Works, a
    <2> HIDE DEF new
    <2>6. WorkFits(new)
      BY <1>1, <2>3, <2>4, <2>5 DEF WorkFits
    <2>7. WorksFit(work') /\ CacheFits(cache')
      BY <1>6, <2>6, WorkReplaced DEF Inv, CacheFits
    <2> QED  BY <1>2, <2>7, LoopKeepsInv
  <1> QED  BY <1>2, <1>5, <1>6

LEMMA OutOfInferencesKeepsInv ==
    ASSUME Inv, NEW c \in Connections, OutOfInferences(c)
    PROVE  Inv'
  <1> DEFINE w == work[c]
             entry == Update(w, w.constraint, <<Candidate(w)>>, <<>>)
  <1>1. WorkFits(w) /\ w.at = "review" /\ w.constraint \in Constraints
    BY WorkIs DEF OutOfInferences
  <1>2. Converted(c, Inserted(w), entry) /\ UNCHANGED <<llamaVars, model, evaluator>>
    BY DEF OutOfInferences
  <1> HIDE DEF w
  <1>3. WorkFits(Inserted(w)) /\ Inserted(w).session \in Sessions
        /\ <<Candidate(w)>> \in Optional(Paths)
    BY <1>1, CandidateFits
  <1>4. entry \in CacheEntries
    BY <1>1, <1>3, NothingYet, UpdateFits
  <1> HIDE DEF entry
  <1>5. WorksFit(work') /\ CacheFits(cache')
    BY <1>2, <1>3, <1>4, ConvertedKeeps DEF Inv
  <1> QED  BY <1>2, <1>5, LoopKeepsInv

LEMMA DeferKeepsInv ==
    ASSUME Inv, NEW c \in Connections, Defer(c)
    PROVE  Inv'
  <1> DEFINE w == work[c]
             kept == IF ConstraintIsEmpty(w.constraint) THEN <<>> ELSE OwnCache(w).evaluated
             entry == Update(w, w.constraint, kept, kept)
  <1>1. WorkFits(w) /\ w.at = "review" /\ w.constraint \in Constraints /\ w.session \in Sessions
    BY WorkIs DEF Defer
  <1>2. Converted(c, Inserted(w), entry) /\ UNCHANGED <<llamaVars, model, evaluator>>
    BY DEF Defer
  <1>3. kept \in Optional(Paths)
    <2>1. OwnCache(w) \in CacheEntries
      BY <1>1, WorkIs, NoConstraintFacts DEF OwnCache
    <2>2. OwnCache(w).evaluated \in Optional(Paths)
      BY <2>1 DEF CacheEntries
    <2> QED  BY <2>2, NothingYet
  <1> HIDE DEF w, kept
  <1>4. WorkFits(Inserted(w)) /\ Inserted(w).session \in Sessions
    BY <1>1, CandidateFits
  <1>5. entry \in CacheEntries
    BY <1>1, <1>3, UpdateFits
  <1> HIDE DEF entry
  <1>6. WorksFit(work') /\ CacheFits(cache')
    BY <1>2, <1>4, <1>5, ConvertedKeeps DEF Inv
  <1> QED  BY <1>2, <1>6, LoopKeepsInv

\* The reading without the letter that waits for more keys.
LEMMA BaseText ==
    ASSUME NEW input \in Text
    PROVE  Base(input) \in Text
  <1>1. input \in Seq(Tokens) /\ Len(input) \in Nat
    BY LenProperties DEF Text
  <1>2. CASE Pending(input)
    <2>1. input # <<>>
      BY <1>2 DEF Pending
    <2>2. Len(input) # 0
      BY <1>1, <2>1, EmptySeq
    <2>3. 1 \in Nat /\ 1 > 0 /\ Len(input) - 1 \in Nat /\ Len(input) - 1 <= Len(input)
      BY <1>1, <2>2
    <2>4. SubSeq(input, 1, Len(input) - 1) \in Seq(Tokens)
      BY <1>1, <2>3, SliceFacts
    <2> QED  BY <1>2, <2>4 DEF Base, Front, Text
  <1>3. CASE ~Pending(input)
    BY <1>3 DEF Base
  <1> QED  BY <1>2, <1>3

\* A kana was generated, or the prediction ends.
LEMMA PredictedFits ==
    ASSUME NEW w, WorkFits(w), w.session \in Sessions
    PROVE  /\ w.predicted \in Text /\ Base(w.input) \o w.predicted \in Text
           /\ WorkFits(Predicted(w))
           /\ \A k \in Kana : w.at = "generate" =>
                /\ WorkFits([w EXCEPT !.predicted = Append(@, k)])
                /\ [w EXCEPT !.predicted = Append(@, k)].session \in Sessions
  <1> DEFINE a == w.accepted
  <1>1. a \in Optional(Predictions) /\ w \in Works(a)
    BY DEF WorkFits
  <1>2. w.predicted \in Seq(Kana) /\ w.input \in Text
    BY <1>1 DEF Works
  <1>3. w.predicted \in Text
    <2>1. \A k \in ToSet(w.predicted) : k \in Tokens
      BY <1>2, ElementFacts, LanguageAssumption
    <2> QED  BY <1>2, <2>1, Narrowed DEF Text
  <1>4. Base(w.input) \o w.predicted \in Text
    BY <1>2, <1>3, BaseText, ConcatText
  <1>5. WorkFits(Predicted(w))
    <2>1. "zenz" \in Outcomes
      BY DEF Outcomes
    <2>2. WorkFits(Settled(w, "zenz"))
      BY <2>1, SettledFits
    <2>3. WorkFits(PredictionConversion(w, Base(w.input) \o w.predicted))
      BY <1>4, PredictionFits
    <2> QED  BY <2>2, <2>3 DEF Predicted
  <1>6. ASSUME NEW k \in Kana, w.at = "generate"
        PROVE  /\ WorkFits([w EXCEPT !.predicted = Append(w.predicted, k)])
               /\ [w EXCEPT !.predicted = Append(w.predicted, k)].session \in Sessions
    <2> DEFINE longer == Append(w.predicted, k)
               new == [w EXCEPT !.predicted = longer]
    <2>1. longer \in Seq(Kana)
      BY <1>2, AppendProperties
    <2> HIDE DEF longer, a
    <2>2. new \in Works(a)
      BY <1>1, <2>1 DEF Works
    <2>3. new.accepted = a /\ new.at = "generate" /\ new.session = w.session
      BY <1>1, <1>6 DEF Works, a
    <2> HIDE DEF new
    <2>4. WorkFits(new)
      BY <1>1, <2>2, <2>3 DEF WorkFits
    <2> QED  BY <2>3, <2>4 DEF new, longer
  <1> QED  BY <1>3, <1>4, <1>5, <1>6

LEMMA GenerateKeepsInv ==
    ASSUME Inv, NEW c \in Connections, Generate(c)
    PROVE  Inv'
  <1> DEFINE w == work[c]
             tokens == w.left \o <<InTag>> \o Base(w.input) \o w.predicted
             start == IF tokens = <<>> THEN 0 ELSE Len(tokens) - 1
             longer(k) == [w EXCEPT !.predicted = Append(@, k)]
  <1>1. /\ WorkFits(w) /\ w.at = "generate" /\ w.session \in Sessions
        /\ w.left \in Text /\ w.input \in Text
    BY WorkIs DEF Generate
  <1>2. PICK broken \in Faults :
          \E answer \in {NextLogitsOf(tokens, broken)} :
            /\ cells' = answer.cells
            /\ held' = answer.held
            /\ \/ Aborted(c, w, answer.error)
               \/ \E k \in Kana : work' = [work EXCEPT ![c] =
                                    IF Len(longer(k).predicted) = PredictionLength
                                    THEN Predicted(longer(k)) ELSE longer(k)]
                                  /\ cache' = cache
               \/ work' = [work EXCEPT ![c] = Predicted(w)] /\ cache' = cache
    BY DEF Generate
  <1>3. UNCHANGED <<model, evaluator>>
    BY DEF Generate
  <1>4. tokens \in Text
    <2>1. w.predicted \in Text /\ Base(w.input) \in Text
      BY <1>1, PredictedFits, BaseText
    <2>2. <<InTag>> \in Text
      BY Symbols
    <2> QED  BY <1>1, <2>1, <2>2, ConcatText
  <1>5. /\ WorkFits(Predicted(w))
        /\ \A k \in Kana : WorkFits(longer(k)) /\ longer(k).session \in Sessions
    BY <1>1, PredictedFits
  <1> HIDE DEF w, tokens, longer
  <1>6. start \in Nat
    <2>1. tokens \in Seq(Tokens) /\ Len(tokens) \in Nat
      BY <1>4, LenProperties DEF Text
    <2>2. tokens # <<>> => Len(tokens) # 0
      BY <2>1, EmptySeq
    <2> QED  BY <2>1, <2>2
  <1>7. LlamaRequest(tokens, start, InputPrediction, broken)
    BY <1>2 DEF LlamaRequest, NextLogitsOf
  <1> HIDE DEF start
  <1>8. LlamaInv'
    <2>1. broken \in BOOLEAN /\ InputPrediction \in Sequences /\ tokens \in Seq(Tokens)
      BY <1>4, LimitsAssumption DEF Sequences, Text
    <2> QED  BY <1>6, <1>7, <2>1, RequestKeeps DEF Inv
  <1>9. WorksFit(work') /\ CacheFits(cache')
    <2>1. WorksFit(work) /\ CacheFits(cache)
      BY DEF Inv
    <2>2. CASE \E error : Aborted(c, w, error)
      BY <1>1, <2>1, <2>2, AbortedKeeps
    <2>3. CASE \E k \in Kana : work' = [work EXCEPT ![c] =
                                    IF Len(longer(k).predicted) = PredictionLength
                                    THEN Predicted(longer(k)) ELSE longer(k)]
                                  /\ cache' = cache
      <3>1. PICK k \in Kana : work' = [work EXCEPT ![c] =
                                    IF Len(longer(k).predicted) = PredictionLength
                                    THEN Predicted(longer(k)) ELSE longer(k)]
                                  /\ cache' = cache
        BY <2>3
      <3> DEFINE new == IF Len(longer(k).predicted) = PredictionLength
                        THEN Predicted(longer(k)) ELSE longer(k)
      <3>2. WorkFits(longer(k)) /\ longer(k).session \in Sessions
        BY <1>5
      <3>3. WorkFits(Predicted(longer(k)))
        BY <3>2, PredictedFits
      <3>4. WorkFits(new)
        BY <3>2, <3>3
      <3>5. work' = [work EXCEPT ![c] = new]
        BY <3>1
      <3> HIDE DEF new
      <3> QED  BY <2>1, <3>1, <3>4, <3>5, WorkReplaced DEF CacheFits
    <2>4. CASE work' = [work EXCEPT ![c] = Predicted(w)] /\ cache' = cache
      BY <1>5, <2>1, <2>4, WorkReplaced DEF CacheFits
    <2> QED  BY <1>2, <2>2, <2>3, <2>4
  <1> QED  BY <1>3, <1>8, <1>9 DEF Inv

\* A question whose text was compared before leaves no row to compare.
LEMMA NoRows ==
    ASSUME NEW q, QuestionFits(q), NEW addressed, addressed = Len(q.text)
    PROVE  FreshRows(q, addressed) = <<>>
  <1> DEFINE At(k) == q.prompt \o Take(q.text, addressed + k - 1)
             S == {At(k) : k \in 1 .. 0}
             rows == FreshRows(q, addressed)
  <1>1. Len(q.text) \in Nat
    BY LenProperties DEF QuestionFits, Text
  <1>2. Len(q.text) - addressed = 0
    BY <1>1
  <1>3. rows = [k \in 1 .. (Len(q.text) - addressed) |-> At(k)]
    BY DEF FreshRows
  <1> HIDE DEF At, rows
  <1>4. rows = [k \in 1 .. 0 |-> At(k)]
    BY <1>2, <1>3
  <1>5. rows \in [1 .. 0 -> S] /\ 0 \in Nat
    BY <1>4
  <1> HIDE DEF S
  <1>6. rows \in Seq(S) /\ Len(rows) = 0
    BY <1>5, SeqMade
  <1>7. rows = <<>>
    BY <1>6, EmptySeq
  <1> QED  BY <1>7 DEF rows

\* What is evaluated, and what the model is asked.
LEMMA AskedFacts ==
    ASSUME NEW q, QuestionFits(q), NEW addressed \in 0 .. Len(q.text), addressed < Len(q.text)
    PROVE  /\ q.prompt \o Front(q.text) \in Seq(Tokens)
           /\ Len(q.prompt) - 1 + addressed \in Nat
  <1>1. /\ q.text \in Seq(Tokens) /\ Len(q.text) \in Nat /\ q.prompt \in Text
        /\ Len(q.prompt) \in Nat /\ Len(q.prompt) > 0
    BY LenProperties DEF QuestionFits, Text
  <1>2. /\ 1 \in Nat /\ 1 > 0 /\ Len(q.text) - 1 \in Nat /\ Len(q.text) - 1 <= Len(q.text)
        /\ Len(q.prompt) - 1 + addressed \in Nat
    BY <1>1
  <1>3. Front(q.text) \in Text
    BY <1>1, <1>2, SliceFacts DEF Front, Text
  <1> QED  BY <1>1, <1>2, <1>3, ConcatText DEF Text

LEMMA EvaluateKeepsInv ==
    ASSUME Inv, NEW c \in Connections, Evaluate(c)
    PROVE  Inv'
  <1> DEFINE now == work[c]
             x == Candidate(now)
             fixed == Fixed(now, x)
             verdicts == evaluator[c].verdicts
             Key(q, reuses) == CacheKey(q, reuses)
             cached(q, reuses) == IF Personalized THEN {} ELSE Cached(verdicts, Key(q, reuses))
             Skipped(q, reuses) == Addressed(q, reuses)
             Inherits(q, reuses) == IF now.remaining = InferenceLimit
                                    THEN Skipped(q, reuses) > 0 ELSE Inserted(now).inherited
             W(q, reuses) == [Inserted(now) EXCEPT !.inherited = Inherits(q, reuses)]
             Seen(q, v) == [evaluator EXCEPT ![c] = [verdicts |-> v, previous |-> q.prompt]]
             Keep(q, reuses, verdict) ==
                IF Personalized THEN verdicts ELSE Stored(verdicts, Key(q, reuses), verdict)
             Answer(q, reuses, broken) ==
                LogitsOf(q.prompt \o Front(q.text), Len(q.prompt) - 1 + Skipped(q, reuses),
                         Evaluation, broken)
             Found(q, reuses) ==
                /\ cached(q, reuses) # {}
                /\ \E i \in cached(q, reuses) :
                    /\ evaluator' = Seen(q, Touched(verdicts, i))
                    /\ Judged(c, Spent(W(q, reuses)), PrependFixed(fixed, verdicts[i].verdict))
                /\ UNCHANGED llamaVars
             Decided(q, reuses, verdict) ==
                /\ evaluator' = Seen(q, Keep(q, reuses, verdict))
                /\ Judged(c, Spent(W(q, reuses)), PrependFixed(fixed, verdict))
             Known(q, reuses) ==
                /\ cached(q, reuses) = {}
                /\ Skipped(q, reuses) = Len(q.text)
                /\ \E verdict \in {JudgeBy(model, q, Skipped(q, reuses), <<>>)} :
                        Decided(q, reuses, verdict)
                /\ UNCHANGED llamaVars
             Called(q, reuses) ==
                /\ cached(q, reuses) = {}
                /\ Skipped(q, reuses) < Len(q.text)
                /\ \E broken \in Faults : \E answer \in {Answer(q, reuses, broken)} :
                    /\ cells' = answer.cells
                    /\ held' = answer.held
                    /\ IF answer.error = "none"
                       THEN \E verdict \in {JudgeBy(model, q, Skipped(q, reuses), answer.rows)} :
                                Decided(q, reuses, verdict)
                       ELSE /\ evaluator' = Seen(q, verdicts)
                            /\ Aborted(c, W(q, reuses), answer.error)
  <1>1. /\ WorkFits(now) /\ now.at = "review" /\ now.session \in Sessions
        /\ now.input \in Text /\ now.full \in Text /\ now.left \in Text
        /\ now.constraint \in Constraints
    BY WorkIs DEF Evaluate
  <1>2. model' = model
    BY DEF Evaluate
  <1>a. \E question \in {Question(now, x)} :
        \E reuses \in {ReusesAddressedPrefix(evaluator[c].previous, question)} :
            \/ Found(question, reuses)
            \/ Known(question, reuses)
            \/ Called(question, reuses)
    BY Zenon DEF Evaluate, Judge
  <1>3. PICK q \in {Question(now, x)} :
        \E reuses \in {ReusesAddressedPrefix(evaluator[c].previous, q)} :
            Found(q, reuses) \/ Known(q, reuses) \/ Called(q, reuses)
    <2> HIDE DEF Found, Known, Called, x, now
    <2> QED  BY <1>a
  <1>4. PICK reuses \in {ReusesAddressedPrefix(evaluator[c].previous, q)} :
            Found(q, reuses) \/ Known(q, reuses) \/ Called(q, reuses)
    <2> HIDE DEF Found, Known, Called
    <2> QED  BY <1>3
  <1>5. x \in Paths /\ WorkFits(Inserted(now))
    BY <1>1, CandidateFits
  <1> HIDE DEF x
  <1>6. QuestionFits(q)
    <2>1. q = Question(now, x)
      BY <1>3
    <2>2. QuestionFits(Question(now, x))
      BY <1>1, <1>5, QuestionFacts
    <2> QED  BY <2>1, <2>2
  <1>7. fixed \in Text
    BY <1>1, FixedFacts
  <1>8. Skipped(q, reuses) \in 0 .. Len(q.text)
    BY <1>6, AddressedFacts
  <1>9. /\ LlamaInv /\ WorksFit(work) /\ CacheFits(cache) /\ EvaluatorsFit(model, evaluator)
        /\ AllFresh(model, verdicts)
    BY DEF Inv, EvaluatorsFit
  <1> HIDE DEF now, fixed, verdicts
  <1> DEFINE w == W(q, reuses)
             spent == Spent(w)
  <1>10. WorkFits(w) /\ WorkFits(spent) /\ spent.at = "review"
    <2>1. Inherits(q, reuses) \in BOOLEAN \/ Inherits(q, reuses) = Inserted(now).inherited
      <3> HIDE DEF Skipped
      <3>1. (Skipped(q, reuses) > 0) \in BOOLEAN
        BY <1>8
      <3> QED  BY <3>1
    <2> HIDE DEF Inherits
    <2> QED  BY <1>1, <2>1, SpentFits
  <1> HIDE DEF w, spent, W
  \* A verdict leads to works and caches that fit.
  <1>11. ASSUME NEW v, VerdictFits(v), Judged(c, Spent(W(q, reuses)), PrependFixed(fixed, v))
         PROVE  WorksFit(work') /\ CacheFits(cache')
    <2>1. VerdictFits(PrependFixed(fixed, v))
      BY <1>7, <1>11, PrependFits
    <2>2. Judged(c, spent, PrependFixed(fixed, v))
      BY <1>11 DEF spent, w
    <2> QED  BY <1>9, <1>10, <2>1, <2>2, JudgedKeeps
  \* So does one that the model gives, which the cache then keeps.
  <1>12. ASSUME NEW v, Decided(q, reuses, v),
                v = JudgeBy(model, q, Skipped(q, reuses), FreshRows(q, Skipped(q, reuses)))
         PROVE  WorksFit(work') /\ CacheFits(cache') /\ EvaluatorsFit(model, evaluator')
    <2>1. VerdictFits(v)
      BY <1>6, <1>8, <1>12, JudgeFacts
    <2>2. AllFresh(model, Keep(q, reuses, v))
      <3>1. AllFresh(model, Stored(verdicts, CacheKey(q, reuses), v))
        BY <1>6, <1>9, <1>12, StoredFits
      <3> QED  BY <1>9, <3>1
    <2>3. evaluator' = Seen(q, Keep(q, reuses, v))
          /\ Judged(c, Spent(W(q, reuses)), PrependFixed(fixed, v))
      BY <1>12
    <2> HIDE DEF Keep
    <2>4. EvaluatorsFit(model, evaluator')
      BY <1>9, <2>2, <2>3, EvaluatorReplaced
    <2> QED  BY <1>11, <2>1, <2>3, <2>4
  <1>13. CASE Found(q, reuses)
    <2>1. PICK i \in cached(q, reuses) :
            /\ evaluator' = Seen(q, Touched(verdicts, i))
            /\ Judged(c, Spent(W(q, reuses)), PrependFixed(fixed, verdicts[i].verdict))
      BY <1>13
    <2>2. UNCHANGED llamaVars
      BY <1>13
    <2>3. i \in DOMAIN verdicts
      BY <2>1 DEF Cached
    <2>4. AllFresh(model, Touched(verdicts, i)) /\ FreshVerdict(model, verdicts[i])
      BY <1>9, <2>3, TouchedFits
    <2>5. VerdictFits(verdicts[i].verdict)
      BY <2>4, FreshFits
    <2>6. EvaluatorsFit(model, evaluator')
      BY <1>9, <2>1, <2>4, EvaluatorReplaced
    <2>7. WorksFit(work') /\ CacheFits(cache')
      BY <1>11, <2>1, <2>5
    <2>8. LlamaInv'
      BY <1>9, <2>2, LlamaStays
    <2> QED  BY <1>2, <2>6, <2>7, <2>8 DEF Inv
  <1>14. CASE Known(q, reuses)
    <2>1. FreshRows(q, Skipped(q, reuses)) = <<>>
      BY <1>6, <1>14, NoRows
    <2> HIDE DEF Decided
    <2>2. Decided(q, reuses, JudgeBy(model, q, Skipped(q, reuses), FreshRows(q, Skipped(q, reuses))))
          /\ UNCHANGED llamaVars
      BY <1>14, <2>1
    <2>3. WorksFit(work') /\ CacheFits(cache') /\ EvaluatorsFit(model, evaluator')
      BY <1>12, <2>2
    <2>4. LlamaInv'
      BY <1>9, <2>2, LlamaStays
    <2> QED  BY <1>2, <2>3, <2>4 DEF Inv
  <1>15. CASE Called(q, reuses)
    <2> HIDE DEF Decided, Answer
    <2>1. PICK broken \in Faults :
                \E answer \in {Answer(q, reuses, broken)} :
                    /\ cells' = answer.cells
                    /\ held' = answer.held
                    /\ IF answer.error = "none"
                       THEN \E verdict \in {JudgeBy(model, q, Skipped(q, reuses), answer.rows)} :
                                Decided(q, reuses, verdict)
                       ELSE /\ evaluator' = Seen(q, verdicts)
                            /\ Aborted(c, W(q, reuses), answer.error)
      BY <1>15
    <2> DEFINE tokens == q.prompt \o Front(q.text)
               start == Len(q.prompt) - 1 + Skipped(q, reuses)
               answer == Answer(q, reuses, broken)
    <2>2. Skipped(q, reuses) < Len(q.text) /\ cells' = answer.cells /\ held' = answer.held
      BY <1>15, <2>1
    <2>3. IF answer.error = "none"
          THEN Decided(q, reuses, JudgeBy(model, q, Skipped(q, reuses), answer.rows))
          ELSE evaluator' = Seen(q, verdicts) /\ Aborted(c, w, answer.error)
      BY <2>1 DEF w
    <2>4. answer = LogitsOf(tokens, start, Evaluation, broken)
      BY DEF Answer
    <2>5. tokens \in Seq(Tokens) /\ start \in Nat
      BY <1>6, <1>8, <2>2, AskedFacts
    <2> HIDE DEF answer
    <2>6. LlamaInv'
      <3>1. broken \in BOOLEAN /\ Evaluation \in Sequences
        BY LimitsAssumption DEF Sequences
      <3> HIDE DEF tokens, start
      <3>2. LlamaRequest(tokens, start, Evaluation, broken)
        BY <2>2, <2>4 DEF LlamaRequest
      <3> QED  BY <1>9, <2>5, <3>1, <3>2, RequestKeeps
    <2>7. CASE answer.error = "none"
      <3>1. answer.rows = FreshRows(q, Skipped(q, reuses))
        BY <1>6, <1>8, <1>9, <2>2, <2>4, <2>7, FreshAnswer
      <3>2. Decided(q, reuses, JudgeBy(model, q, Skipped(q, reuses),
                                       FreshRows(q, Skipped(q, reuses))))
        BY <2>3, <2>7, <3>1
      <3>3. WorksFit(work') /\ CacheFits(cache') /\ EvaluatorsFit(model, evaluator')
        BY <1>12, <3>2
      <3> QED  BY <1>2, <2>6, <3>3 DEF Inv
    <2>8. CASE answer.error # "none"
      <3>1. evaluator' = Seen(q, verdicts) /\ Aborted(c, w, answer.error)
        BY <2>3, <2>8
      <3>2. EvaluatorsFit(model, evaluator')
        BY <1>9, <3>1, EvaluatorReplaced
      <3>3. WorksFit(work') /\ CacheFits(cache')
        BY <1>9, <1>10, <3>1, AbortedKeeps
      <3> QED  BY <1>2, <2>6, <3>2, <3>3 DEF Inv
    <2> QED  BY <2>7, <2>8
  <1> QED  BY <1>4, <1>13, <1>14, <1>15

LEMMA NextKeepsInv ==
    ASSUME Inv, [Next]_vars
    PROVE  Inv'
  <1>1. CASE Next
    <2>1. PICK c \in Connections : Request(c) \/ Step(c)
      BY <1>1 DEF Next
    <2>2. CASE Request(c)
      BY <2>2, RequestKeepsInv
    <2>3. CASE Draft(c)
      BY <2>3, DraftKeepsInv
    <2>4. CASE OutOfInferences(c)
      BY <2>4, OutOfInferencesKeepsInv
    <2>5. CASE Defer(c)
      BY <2>5, DeferKeepsInv
    <2>6. CASE Evaluate(c)
      BY <2>6, EvaluateKeepsInv
    <2>7. CASE Generate(c)
      BY <2>7, GenerateKeepsInv
    <2> QED  BY <2>1, <2>2, <2>3, <2>4, <2>5, <2>6, <2>7 DEF Step
  <1>2. CASE UNCHANGED vars
    <2>1. UNCHANGED <<llamaVars, model, evaluator, cache, work>>
      BY <1>2 DEF vars, zenzVars
    <2>2. WorksFit(work') /\ CacheFits(cache')
      BY <2>1 DEF Inv
    <2> QED  BY <2>1, <2>2, LoopKeepsInv
  <1> QED  BY <1>1, <1>2

\* The invariant holds in every reachable state of the conversion loop.
THEOREM InvHolds == Spec => []Inv
  <1>1. Init => Inv
    BY InitFits
  <1>2. Inv /\ [Next]_vars => Inv'
    BY NextKeepsInv
  <1> QED  BY <1>1, <1>2, PTL DEF Spec

----------------------------------------------------------------------------
(***************************************************************************)
(* The results.                                                            *)
(***************************************************************************)

\* The shared llama context follows its tokens in the system as it is: with
\* the prompts the sessions' evaluations and predictions really send,
\* interleaved between the connections, refused or failing.
THEOREM SharedCacheFollowsTokens == Spec => []MemoryFollowsTokens
  <1>1. Inv => MemoryFollowsTokens
    BY InvariantCounts DEF Inv
  <1> QED  BY <1>1, InvHolds, PTL

\* A verdict that an evaluator has cached is the one evaluate_candidate
\* would compute for its key with nothing in memory, for any language model:
\* whichever rows the context kept, shared or skipped when it was computed,
\* and whichever connections decoded since.
THEOREM CachedVerdictsAreFresh == Spec => []VerdictsAreFresh
  <1>1. Inv => VerdictsAreFresh
    <2> SUFFICES ASSUME Inv, NEW c \in Connections,
                        NEW v \in ToSet(evaluator[c].verdicts)
                 PROVE  LET addressed == Addressed(v.key.question, v.key.reuses)
                        IN  v.verdict = Judge(v.key.question, addressed,
                                              FreshRows(v.key.question, addressed))
      BY DEF VerdictsAreFresh
    <2> DEFINE s == evaluator[c].verdicts
    <2>1. s \in Seq(FreshVerdicts(model, s))
      BY DEF Inv, EvaluatorsFit, AllFresh
    <2>2. ToSet(s) \in SUBSET FreshVerdicts(model, s)
      <3> DEFINE F == FreshVerdicts(model, s)
      <3>1. s \in Seq(F)
        BY <2>1
      <3> HIDE DEF F, s
      <3>2. ToSet(s) \in SUBSET F
        BY <3>1, ElementFacts
      <3> QED  BY <3>2 DEF F
    <2>3. FreshVerdict(model, v)
      BY <2>2 DEF FreshVerdicts
    <2> QED  BY <2>3 DEF FreshVerdict, Judge
  <1> QED  BY <1>1, InvHolds, PTL

\* No candidate that a conversion offers, drafted under any constraint the
\* model asked for, taken over from an earlier draft or added as a rich
\* candidate, contradicts the words of the prediction accepted with Tab.
THEOREM AcceptedPredictionsStay == Spec => []FixedPrefixKept
  <1>1. Inv => FixedPrefixKept
    <2> SUFFICES ASSUME Inv, NEW c \in Connections, NEW p \in ToSet(work[c].accepted),
                        NEW x \in ToSet(work[c].inserted)
                 PROVE  IsPrefix(p.words, WordOf(x)) \/ IsPrefix(WordOf(x), p.words)
      BY DEF FixedPrefixKept
    <2> DEFINE w == work[c]
               S == Fits(w.accepted)
    <2>1. WorkFits(w)
      BY WorkIs
    <2>2. w.inserted \in Seq(S)
      BY <2>1 DEF WorkFits, Works
    <2> HIDE DEF S, w
    <2>3. ToSet(w.inserted) \in SUBSET S
      BY <2>2, ElementFacts
    <2>4. x \in Fits(work[c].accepted)
      BY <2>3 DEF S, w
    <2> QED  BY <2>4 DEF Fits, Agreeing
  <1> QED  BY <1>1, InvHolds, PTL

----------------------------------------------------------------------------
(***************************************************************************)
(* What passes is tolerated.  An evaluation may skip the prefix its        *)
(* constraint addresses; the invariant says that a model tolerates every   *)
(* token of that prefix after the prompt of the last evaluation, unless    *)
(* the conversion began by skipping one that it inherited.                 *)
(***************************************************************************)

\* The model's choice after a prompt and the text so far, or close to it
TokenTolerated(m, prompt, text, i) ==
    LET row == PersonalizedLogits(m, prompt \o Take(text, i - 1), Take(text, i - 1))
        best == StrictArgmax(row)
    IN  \/ best = text[i]
        \/ \E p \in Priorities : Excused(row, text[i], best, p)

TextTolerated(m, prompt, text) == \A i \in 1 .. Len(text) : TokenTolerated(m, prompt, text, i)

\* Whether a token is tolerated depends on the text up to it.
LEMMA ToleratedPrefix ==
    ASSUME NEW m, NEW prompt, NEW t \in Text, NEW u \in Text, NEW n \in Nat,
           n <= Len(t), n <= Len(u), \A i \in 1 .. n : t[i] = u[i], NEW i \in 1 .. n
    PROVE  TokenTolerated(m, prompt, t, i) <=> TokenTolerated(m, prompt, u, i)
  <1>1. Len(t) \in Nat /\ Len(u) \in Nat
    BY LenProperties DEF Text
  <1>2. /\ i - 1 \in Nat /\ i - 1 \in 0 .. Len(t) /\ i - 1 \in 0 .. Len(u)
        /\ \A k \in 1 .. i - 1 : t[k] = u[k]
        /\ ~ i - 1 > Len(t) /\ ~ i - 1 > Len(u)
    BY <1>1
  <1>3. Prefix(t, i - 1) = Prefix(u, i - 1)
    BY <1>1, <1>2, SamePrefix DEF Text
  <1>4. Take(t, i - 1) = Take(u, i - 1)
    BY <1>2, <1>3 DEF Take, Prefix
  <1> QED  BY <1>4 DEF TokenTolerated

\* A prefix of what is tolerated is.
LEMMA ToleratedShorter ==
    ASSUME NEW m, NEW prompt, NEW t \in Text, NEW u \in Text, IsPrefix(t, u),
           TextTolerated(m, prompt, u)
    PROVE  TextTolerated(m, prompt, t)
  <1>1. Len(t) \in Nat /\ Len(u) \in Nat /\ Len(t) <= Len(u) /\ t = Prefix(u, Len(t))
    BY PrefixIs, LenProperties DEF Text
  <1>2. Len(t) \in 0 .. Len(u) /\ u \in Seq(Tokens)
    BY <1>1 DEF Text
  <1>3. \A i \in 1 .. Len(t) : t[i] = u[i]
    BY <1>1, <1>2, PrefixFacts
  <1>4. SUFFICES ASSUME NEW i \in 1 .. Len(t) PROVE TokenTolerated(m, prompt, t, i)
    BY DEF TextTolerated
  <1>5. TokenTolerated(m, prompt, u, i)
    BY <1>1 DEF TextTolerated
  <1> QED  BY <1>1, <1>3, <1>5, ToleratedPrefix

\* The priorities of a question's tokens are those of learned entries.
LEMMA PriorityFacts ==
    ASSUME NEW x \in Paths,
           NEW segments, segments = [i \in DOMAIN x |->
                [word |-> x[i].word, ruby |-> x[i].ruby, learned |-> x[i].source = "learned"]]
    PROVE  LearnedPriorities(segments) \in Seq(Priorities)
  <1> DEFINE Bonus(i) == IF segments[i].learned
                         THEN Ln(LearningPriority(Len(segments[i].ruby))) ELSE 0
             each == [i \in DOMAIN segments |-> [k \in DOMAIN segments[i].word |-> Bonus(i)]]
             n == Len(x)
  <1>1. n \in Nat /\ DOMAIN x = 1 .. n /\ \A i \in 1 .. n : x[i] \in Entries
    BY LenProperties, ElementOfSeq DEF Paths
  <1>2. DOMAIN segments = 1 .. n
    BY <1>1
  <1>3. \A i \in 1 .. n : /\ segments[i].word = x[i].word
                          /\ segments[i].ruby = x[i].ruby
                          /\ segments[i].learned = (x[i].source = "learned")
    BY <1>1
  <1>4. \A i \in 1 .. n : Bonus(i) \in Priorities
    <2> TAKE i \in 1 .. n
    <2>1. CASE segments[i].learned
      <3>1. x[i] \in ToSet(Dictionary) /\ x[i].source = "learned"
        BY <1>1, <1>3, <2>1 DEF Entries
      <3>2. Ln(LearningPriority(Len(x[i].ruby))) \in Priorities
        BY <3>1 DEF Priorities
      <3> QED  BY <1>3, <2>1, <3>2
    <2>2. CASE ~segments[i].learned
      BY <2>2 DEF Priorities
    <2> QED  BY <2>1, <2>2
  <1>5. \A i \in 1 .. n : [k \in DOMAIN segments[i].word |-> Bonus(i)] \in Seq(Priorities)
    <2> TAKE i \in 1 .. n
    <2>1. segments[i].word \in Text
      BY <1>1, <1>3, EntryFacts
    <2>2. Len(segments[i].word) \in Nat /\ DOMAIN segments[i].word = 1 .. Len(segments[i].word)
      BY <2>1, LenProperties DEF Text
    <2> HIDE DEF Bonus
    <2>3. [k \in DOMAIN segments[i].word |-> Bonus(i)]
            \in [1 .. Len(segments[i].word) -> Priorities]
      BY <1>4, <2>2
    <2> QED  BY <2>2, <2>3, SeqMade
  <1>6. each \in [1 .. n -> Seq(Priorities)]
    <2> HIDE DEF Bonus
    <2> QED  BY <1>2, <1>5
  <1>7. LearnedPriorities(segments) = FlattenSeq(each)
    BY DEF LearnedPriorities
  <1> HIDE DEF each
  <1>8. each \in Seq(Seq(Priorities))
    BY <1>1, <1>6, SeqMade
  <1> QED  BY <1>7, <1>8, FlattenFacts

\* Nothing is added to a sequence.
LEMMA EvaluatedFacts ==
    ASSUME NEW n \in Nat, NEW s, s = [k \in 1 .. n |-> s[k]]
    PROVE  Evaluated(s) = s
  <1> DEFINE S == {s[k] : k \in 1 .. n}
  <1>1. s \in [1 .. n -> S]
    OBVIOUS
  <1> HIDE DEF S
  <1>2. s \in Seq(S)
    BY <1>1, SeqMade
  <1>3. s \o <<>> = s
    BY <1>2, ConcatEmptySeq
  <1> QED  BY <1>3 DEF Evaluated

\* The rows of an evaluation, at the positions of the text.
LEMMA RowsCompared ==
    ASSUME NEW m, NEW q, QuestionFits(q), NEW addressed \in 0 .. Len(q.text),
           NEW i \in (addressed + 1) .. Len(q.text)
    PROVE  LET rows == FreshRows(q, addressed)
               logits == Evaluated([k \in DOMAIN rows |->
                            PersonalizedLogits(m, rows[k], Take(q.text, addressed + k - 1))])
           IN  logits[i - addressed]
                 = PersonalizedLogits(m, q.prompt \o Take(q.text, i - 1), Take(q.text, i - 1))
  <1> DEFINE rows == FreshRows(q, addressed)
             n == Len(q.text) - addressed
             At(k) == q.prompt \o Take(q.text, addressed + k - 1)
             Of(k) == PersonalizedLogits(m, rows[k], Take(q.text, addressed + k - 1))
  <1>1. Len(q.text) \in Nat
    BY LenProperties DEF QuestionFits, Text
  <1>2. n \in Nat /\ i - addressed \in 1 .. n /\ addressed + (i - addressed) - 1 = i - 1
    BY <1>1
  <1>3. rows = [k \in 1 .. n |-> At(k)]
    BY DEF FreshRows
  <1> HIDE DEF At, rows
  <1>4. DOMAIN rows = 1 .. n /\ rows[i - addressed] = At(i - addressed)
    BY <1>2, <1>3
  <1> HIDE DEF Of, n
  <1>5. Evaluated([k \in 1 .. n |-> Of(k)]) = [k \in 1 .. n |-> Of(k)]
    <2> DEFINE s == [k \in 1 .. n |-> Of(k)]
    <2>1. s = [k \in 1 .. n |-> s[k]]
      OBVIOUS
    <2> HIDE DEF s
    <2>2. Evaluated(s) = s
      BY <1>2, <2>1, EvaluatedFacts
    <2> QED  BY <2>2 DEF s
  <1>6. [k \in 1 .. n |-> Of(k)][i - addressed] = Of(i - addressed)
    BY <1>2
  <1>7. Evaluated([k \in DOMAIN rows |-> Of(k)])[i - addressed] = Of(i - addressed)
    BY <1>4, <1>5, <1>6
  <1>8. Of(i - addressed)
         = PersonalizedLogits(m, q.prompt \o Take(q.text, i - 1), Take(q.text, i - 1))
    BY <1>2, <1>4 DEF At, Of
  <1> QED  BY <1>7, <1>8 DEF rows, Of

\* What a verdict says of a text whose skipped prefix is tolerated: either
\* all of it is, or the model asks for a text that is.
LEMMA VerdictTolerates ==
    ASSUME NEW m, NEW q, QuestionFits(q), LearnedPriorities(q.segments) \in Seq(Priorities),
           NEW addressed \in 0 .. Len(q.text),
           \A i \in 1 .. addressed : TokenTolerated(m, q.prompt, q.text, i),
           NEW v, v = JudgeBy(m, q, addressed, FreshRows(q, addressed))
    PROVE  /\ v.kind = "pass" => TextTolerated(m, q.prompt, q.text)
           /\ v.kind # "pass" => v.text \in Text /\ TextTolerated(m, q.prompt, v.text)
  <1> DEFINE text == q.text
             rows == FreshRows(q, addressed)
             priorities == LearnedPriorities(q.segments)
             logits == Evaluated([k \in DOMAIN rows |->
                            PersonalizedLogits(m, rows[k], Take(text, addressed + k - 1))])
             Row(i) == logits[i - addressed]
             Priority(i) == IF i \in DOMAIN priorities THEN priorities[i] ELSE 0
             Turned(i) == LET row == Row(i)
                              best == StrictArgmax(row)
                          IN  best # text[i] /\ ~Excused(row, text[i], best, Priority(i))
             compared == (addressed + 1) .. Len(text)
             rejected == {i \in compared : Turned(i)}
             first == Min(rejected)
             best == StrictArgmax(Row(first))
             n == Len(text) - addressed
             found == FlattenSeq([k \in 1 .. n |->
                                AlternativesAt(Row(addressed + k), text, addressed + k)])
             taken == Take(Ranked(found, [a \in ToSet(found) |-> -a.gap]), 5)
             wanted == IF best = EOS THEN <<>> ELSE <<best>>
             t == Take(text, first - 1) \o wanted
  <1>1. v = IF rejected = {}
            THEN [kind |-> "pass", text |-> <<>>,
                  alternatives |-> IF q.rich THEN taken ELSE <<>>]
            ELSE [kind |-> IF best = EOS THEN "whole" ELSE "fix", text |-> t,
                  alternatives |-> <<>>]
    BY DEF JudgeBy
  <1>2. text \in Text /\ text \in Seq(Tokens) /\ Len(text) \in Nat /\ addressed \in Nat
    BY LenProperties DEF QuestionFits, Text
  <1>3. \A i \in compared :
            Row(i) = PersonalizedLogits(m, q.prompt \o Take(text, i - 1), Take(text, i - 1))
    BY RowsCompared
  <1>4. \A i \in compared : Priority(i) \in Priorities
    <2> HIDE DEF priorities
    <2>1. priorities \in Seq(Priorities)
      BY DEF priorities
    <2>2. \A i \in DOMAIN priorities : priorities[i] \in Priorities
      BY <2>1, LenProperties, ElementOfSeq
    <2>3. 0 \in Priorities
      BY DEF Priorities
    <2> QED  BY <2>2, <2>3
  <1>5. best \in Tokens
    BY ArgmaxFacts
  <1> HIDE DEF Row, Priority, taken
  <1>6. ASSUME NEW i \in compared, ~Turned(i) PROVE TokenTolerated(m, q.prompt, text, i)
    <2>1. \/ StrictArgmax(Row(i)) = text[i]
          \/ Excused(Row(i), text[i], StrictArgmax(Row(i)), Priority(i))
      BY <1>6
    <2> QED  BY <1>3, <1>4, <2>1 DEF TokenTolerated
  <1>7. \A i \in compared : i \in 1 .. Len(text) /\ i \in Nat
    BY <1>2
  <1>8. \A i \in 1 .. Len(text) : i \in 1 .. addressed \/ i \in compared
    BY <1>2
  <1>9. CASE rejected = {}
    <2>1. \A i \in compared : ~Turned(i)
      BY <1>9
    <2> HIDE DEF Turned, rejected, compared, text
    <2>2. \A i \in 1 .. Len(text) : TokenTolerated(m, q.prompt, text, i)
      BY <1>6, <1>8, <2>1 DEF text
    <2>3. TextTolerated(m, q.prompt, text)
      BY <2>2 DEF TextTolerated
    <2>4. v.kind = "pass"
      BY <1>1, <1>9
    <2> QED  BY <2>3, <2>4 DEF text
  <1>10. CASE rejected # {}
    <2>1. first \in compared /\ \A i \in compared : i < first => ~Turned(i)
      <3>1. rejected \in SUBSET Nat
        BY <1>7
      <3> HIDE DEF Turned, compared, first
      <3>2. first \in rejected /\ \A i \in rejected : first <= i
        <4> HIDE DEF rejected
        <4> QED  BY <1>10, <3>1, MinFacts DEF first
      <3>3. \A i \in compared : i < first => i \notin rejected
        <4>1. first \in Nat
          BY <3>1, <3>2
        <4> HIDE DEF rejected
        <4> QED  BY <1>7, <3>2, <4>1
      <3> QED  BY <3>2, <3>3
    <2>2. v.kind # "pass" /\ v.text = t
      BY SMTT(30), <1>1, <1>10
    <2> HIDE DEF Turned, rejected, first, best, compared, text
    <2>3. first \in 1 .. Len(text) /\ first - 1 \in Nat /\ first \in Nat
      BY <1>2, <1>7, <2>1
    <2> DEFINE h == Take(text, first - 1)
    <2>4. /\ h \in Text /\ Len(h) = first - 1
          /\ \A i \in 1 .. first - 1 : h[i] = text[i]
      <3>1. /\ h \in Seq(Tokens)
            /\ Len(h) = IF first - 1 > Len(text) THEN Len(text) ELSE first - 1
            /\ \A i \in 1 .. Len(h) : h[i] = text[i]
        BY <1>2, <2>3, TakeFacts
      <3>2. ~ first - 1 > Len(text)
        BY <1>2, <2>3
      <3> HIDE DEF h
      <3> QED  BY <3>1, <3>2 DEF Text
    <2>5. wanted \in Text /\ (best # EOS => wanted = <<best>> /\ Len(wanted) = 1)
          /\ (best = EOS => wanted = <<>> /\ Len(wanted) = 0)
      BY <1>5 DEF Text
    <2> HIDE DEF h, wanted
    <2>6. /\ t \in Text /\ Len(t) = Len(h) + Len(wanted)
          /\ \A i \in 1 .. first - 1 : t[i] = text[i]
          /\ Len(wanted) = 1 => t[first] = wanted[1]
      <3>1. t = h \o wanted
        BY DEF t, h
      <3> HIDE DEF t
      <3>2. /\ h \o wanted \in Seq(Tokens) /\ Len(h \o wanted) = Len(h) + Len(wanted)
            /\ \A i \in 1 .. Len(h) + Len(wanted) :
                (h \o wanted)[i] = IF i <= Len(h) THEN h[i] ELSE wanted[i - Len(h)]
        BY ZenonT(30), <2>4, <2>5, ConcatProperties DEF Text
      <3>3. \A i \in 1 .. first - 1 : i \in 1 .. Len(h) + Len(wanted) /\ i <= Len(h)
        BY <2>3, <2>4, <2>5
      <3>4. Len(wanted) = 1 => /\ first \in 1 .. Len(h) + Len(wanted)
                               /\ ~ first <= Len(h) /\ first - Len(h) = 1
        BY <2>3, <2>4
      <3> QED  BY <2>4, <3>1, <3>2, <3>3, <3>4 DEF Text
    <2> HIDE DEF t
    <2>7. Len(t) = first - 1 \/ Len(t) = first
      <3>1. Len(wanted) = 1 \/ Len(wanted) = 0
        BY <2>5
      <3>2. Len(h) = first - 1 /\ Len(t) = Len(h) + Len(wanted)
        BY <2>4, <2>6
      <3>3. CASE Len(wanted) = 1
        <4>1. Len(t) = (first - 1) + 1
          BY <3>2, <3>3
        <4>2. (first - 1) + 1 = first
          BY <2>3
        <4> QED  BY <4>1, <4>2
      <3>4. CASE Len(wanted) = 0
        <4>1. Len(t) = (first - 1) + 0
          BY <3>2, <3>4
        <4>2. (first - 1) + 0 = first - 1
          BY <2>3
        <4> QED  BY <4>1, <4>2
      <3> QED  BY <3>1, <3>3, <3>4
    <2>8. ASSUME NEW i \in 1 .. first - 1 PROVE TokenTolerated(m, q.prompt, t, i)
      <3>1. i \in 1 .. Len(text) /\ i < first
        BY <1>2, <2>3
      <3>2. TokenTolerated(m, q.prompt, text, i)
        <4>1. CASE i \in 1 .. addressed
          BY <4>1 DEF text
        <4>2. CASE i \in compared
          <5>1. ~Turned(i)
            BY <2>1, <3>1, <4>2
          <5> QED  BY <1>6, <4>2, <5>1
        <4> QED  BY <1>8, <3>1, <4>1, <4>2
      <3>3. first - 1 <= Len(t) /\ first - 1 <= Len(text)
        BY <1>2, <2>3, <2>7
      <3> QED  BY <1>2, <2>3, <2>6, <3>2, <3>3, ToleratedPrefix
    <2>9. ASSUME Len(t) = first PROVE TokenTolerated(m, q.prompt, t, first)
      <3>1. Len(wanted) = 1
        BY <2>3, <2>4, <2>5, <2>6, <2>9
      <3>2. best # EOS /\ t[first] = best
        BY <2>5, <2>6, <3>1
      <3>3. Take(t, first - 1) = Take(text, first - 1)
        <4>1. /\ first - 1 \in 0 .. Len(t) /\ first - 1 <= Len(text)
              /\ ~ first - 1 > Len(t) /\ ~ first - 1 > Len(text)
          BY <1>2, <2>3, <2>9
        <4>2. Prefix(t, first - 1) = Prefix(text, first - 1)
          BY <1>2, <2>6, <4>1, SamePrefix DEF Text
        <4> QED  BY <4>1, <4>2 DEF Take, Prefix
      <3>4. StrictArgmax(PersonalizedLogits(m, q.prompt \o Take(t, first - 1),
                                            Take(t, first - 1))) = t[first]
        BY <1>3, <2>1, <3>2, <3>3 DEF best
      <3> QED  BY <3>4 DEF TokenTolerated
    <2>10. TextTolerated(m, q.prompt, t)
      <3>1. \A i \in 1 .. Len(t) : i \in 1 .. first - 1 \/ (i = first /\ Len(t) = first)
        BY <2>3, <2>7
      <3> QED  BY <2>8, <2>9, <3>1 DEF TextTolerated
    <2> QED  BY <2>2, <2>6, <2>10
  <1> QED  BY <1>9, <1>10

\* The elements of a text made of two.
LEMMA JoinedTexts ==
    ASSUME NEW s \in Text, NEW t \in Text
    PROVE  /\ s \o t \in Text /\ Len(s \o t) = Len(s) + Len(t)
           /\ Len(s) \in Nat /\ Len(t) \in Nat
           /\ \A i \in 1 .. Len(s) : (s \o t)[i] = s[i]
           /\ \A i \in 1 .. Len(t) : (s \o t)[Len(s) + i] = t[i]
  <1> DEFINE u == s \o t
  <1>1. /\ u \in Seq(Tokens) /\ Len(u) = Len(s) + Len(t)
        /\ \A i \in 1 .. Len(s) + Len(t) : u[i] = IF i <= Len(s) THEN s[i] ELSE t[i - Len(s)]
    BY ConcatProperties DEF Text
  <1>2. Len(s) \in Nat /\ Len(t) \in Nat
    BY LenProperties DEF Text
  <1> HIDE DEF u
  <1>3. ASSUME NEW i \in 1 .. Len(s) PROVE u[i] = s[i]
    <2>1. i \in 1 .. Len(s) + Len(t) /\ i <= Len(s)
      BY <1>2
    <2> QED  BY <1>1, <2>1
  <1>4. ASSUME NEW i \in 1 .. Len(t) PROVE u[Len(s) + i] = t[i]
    <2>1. /\ Len(s) + i \in 1 .. Len(s) + Len(t) /\ ~ Len(s) + i <= Len(s)
          /\ (Len(s) + i) - Len(s) = i
      BY <1>2
    <2> QED  BY <1>1, <2>1
  <1> QED  BY <1>1, <1>2, <1>3, <1>4 DEF u, Text

\* Where the parts of a prompt are.
Tagged(h, s) == h \o <<InTag>> \o s \o <<OutTag>>

LEMMA TaggedFacts ==
    ASSUME NEW h \in Text, NEW s \in Text
    PROVE  /\ Len(Tagged(h, s)) = Len(h) + 1 + Len(s) + 1
           /\ Tagged(h, s)[Len(h) + 1] = InTag
           /\ \A i \in 1 .. Len(s) : Tagged(h, s)[Len(h) + 1 + i] = s[i]
  <1> DEFINE u == h \o <<InTag>>
             v == u \o s
             p == v \o <<OutTag>>
  <1>1. /\ <<InTag>> \in Text /\ <<OutTag>> \in Text
        /\ Len(<<InTag>>) = 1 /\ Len(<<OutTag>>) = 1 /\ <<InTag>>[1] = InTag
    BY Symbols
  <1>2. u \in Text /\ Len(u) = Len(h) + 1 /\ u[Len(h) + 1] = InTag
        /\ Len(h) \in Nat /\ Len(s) \in Nat
    <2>1. 1 \in 1 .. Len(<<InTag>>)
      BY <1>1
    <2>2. u \in Text /\ Len(u) = Len(h) + Len(<<InTag>>) /\ Len(h) \in Nat
          /\ u[Len(h) + 1] = <<InTag>>[1]
      BY <1>1, <2>1, JoinedTexts
    <2>3. Len(s) \in Nat
      BY LenProperties DEF Text
    <2> QED  BY <1>1, <2>2, <2>3
  <1> HIDE DEF u
  <1>3. /\ v \in Text /\ Len(v) = Len(u) + Len(s)
        /\ \A i \in 1 .. Len(u) : v[i] = u[i]
        /\ \A i \in 1 .. Len(s) : v[Len(u) + i] = s[i]
    BY <1>2, JoinedTexts
  <1> HIDE DEF v
  <1>4. /\ Len(p) = Len(v) + Len(<<OutTag>>)
        /\ \A i \in 1 .. Len(v) : p[i] = v[i]
    BY <1>1, <1>3, JoinedTexts
  <1> HIDE DEF p
  <1>5. /\ Len(h) + 1 \in 1 .. Len(u) /\ Len(h) + 1 \in 1 .. Len(v)
        /\ \A i \in 1 .. Len(s) : Len(h) + 1 + i \in 1 .. Len(v)
    BY <1>2, <1>3
  <1>6. Len(p) = Len(h) + 1 + Len(s) + 1
    BY <1>1, <1>2, <1>3, <1>4
  <1>7. p[Len(h) + 1] = InTag
    BY <1>2, <1>3, <1>4, <1>5
  <1>8. \A i \in 1 .. Len(s) : p[Len(h) + 1 + i] = s[i]
    BY <1>2, <1>3, <1>4, <1>5
  <1> QED  BY <1>6, <1>7, <1>8 DEF p, v, u, Tagged

\* Equal prompts have equally long readings: the last tag tells.
LEMMA EarlierTag ==
    ASSUME NEW h \in Text, NEW s \in Text, NEW g \in Text, NEW t \in Text,
           InTag \notin ToSet(t), Tagged(h, s) = Tagged(g, t)
    PROVE  ~ Len(s) < Len(t)
  <1> DEFINE p == Tagged(h, s)
             a == Len(h)
             b == Len(g)
             m == Len(s)
             n == Len(t)
  <1>1. a \in Nat /\ b \in Nat /\ m \in Nat /\ n \in Nat
    BY LenProperties DEF Text
  <1>2. Len(p) = a + 1 + m + 1 /\ p[a + 1] = InTag
    BY TaggedFacts
  <1>3. Len(p) = b + 1 + n + 1 /\ \A i \in 1 .. n : p[b + 1 + i] = t[i]
    BY TaggedFacts
  <1>4. \A i \in 1 .. n : t[i] # InTag
    BY ElementFacts DEF Text
  <1> SUFFICES ASSUME m < n PROVE FALSE
    OBVIOUS
  <1> HIDE DEF p, a, b, m, n
  <1> DEFINE k == n - m
  <1>5. k \in 1 .. n
    BY <1>1
  <1>6. b + 1 + k = a + 1
    BY <1>1, <1>2, <1>3
  <1> QED  BY <1>2, <1>3, <1>4, <1>5, <1>6

LEMMA SameReadings ==
    ASSUME NEW h \in Text, NEW s \in Text, NEW g \in Text, NEW t \in Text,
           InTag \notin ToSet(s), InTag \notin ToSet(t), Tagged(h, s) = Tagged(g, t)
    PROVE  Len(s) = Len(t)
  <1>1. Len(s) \in Nat /\ Len(t) \in Nat
    BY LenProperties DEF Text
  <1>2. ~ Len(s) < Len(t) /\ ~ Len(t) < Len(s)
    BY EarlierTag
  <1> QED  BY <1>1, <1>2

----------------------------------------------------------------------------
(***************************************************************************)
(* A prompt tells what was fixed.  The constraint of a work fixes the      *)
(* words of the accepted prediction and nothing else, so that two          *)
(* questions of one conversion with equal prompts leave out the same       *)
(* words: what the model was asked after a prompt it can be asked again.   *)
(***************************************************************************)
FixedBy(accepted) ==
    {[length |-> Len(p.words), ruby |-> Len(p.ruby)] : p \in ToSet(accepted)}

Readable(w) ==
    /\ Len(w.input) <= Len(w.full)
    /\ InTag \notin ToSet(w.full)
    /\ InTag \notin ToSet(w.input)
    /\ w.constraint.fixed = FixedBy(w.accepted)
    /\ \A p \in ToSet(w.accepted) : p.ruby # <<>>

Typed(w) ==
    /\ w.input \in Text /\ w.full \in Text /\ w.left \in Text
    /\ w.constraint \in Constraints /\ w.accepted \in Optional(Predictions)

\* An element of a joined text is one of a part.
LEMMA JoinedWithout ==
    ASSUME NEW s \in Text, NEW t \in Text, NEW x, x \notin ToSet(s), x \notin ToSet(t)
    PROVE  x \notin ToSet(s \o t)
  <1> SUFFICES ASSUME x \in ToSet(s \o t) PROVE FALSE
    OBVIOUS
  <1>1. /\ s \o t \in Text /\ Len(s \o t) = Len(s) + Len(t)
        /\ Len(s) \in Nat /\ Len(t) \in Nat
        /\ \A i \in 1 .. Len(s) : (s \o t)[i] = s[i]
        /\ \A i \in 1 .. Len(t) : (s \o t)[Len(s) + i] = t[i]
    BY JoinedTexts
  <1> DEFINE u == s \o t
  <1>a. u \in Seq(Tokens) /\ x \in ToSet(u)
    BY <1>1 DEF Text
  <1> HIDE DEF u
  <1>2. PICK i \in 1 .. Len(u) : u[i] = x
    BY <1>a, ElementFacts
  <1>3. CASE i \in 1 .. Len(s)
    BY <1>1, <1>2, <1>3, ElementFacts DEF u, Text
  <1>4. CASE i \notin 1 .. Len(s)
    <2> DEFINE k == i - Len(s)
    <2>1. k \in 1 .. Len(t) /\ Len(s) + k = i
      BY <1>1, <1>4 DEF u
    <2>2. t[k] = x
      BY <1>1, <1>2, <2>1 DEF u
    <2> QED  BY <2>1, <2>2, ElementFacts DEF Text
  <1> QED  BY <1>3, <1>4

\* Nor does a part have what the whole has not.
LEMMA PartsWithout ==
    ASSUME NEW t \in Text, NEW x, x \notin ToSet(t), NEW m \in Nat, m > 0
    PROVE  x \notin ToSet(SubSeq(t, m, Len(t)))
  <1> DEFINE u == SubSeq(t, m, Len(t))
  <1>1. Len(t) \in Nat /\ Len(t) <= Len(t) /\ t \in Seq(Tokens)
    BY LenProperties DEF Text
  <1>2. /\ u \in Seq(Tokens)
        /\ Len(u) = IF m <= Len(t) THEN Len(t) - m + 1 ELSE 0
        /\ \A i \in 1 .. (Len(t) - m + 1) : u[i] = t[m + i - 1]
    BY <1>1, SliceFacts
  <1> HIDE DEF u
  <1> SUFFICES ASSUME x \in ToSet(u) PROVE FALSE
    BY DEF u
  <1>3. PICK i \in 1 .. Len(u) : u[i] = x
    BY <1>2, ElementFacts
  <1>4. m <= Len(t)
    BY <1>1, <1>2, <1>3
  <1>5. i \in 1 .. (Len(t) - m + 1) /\ m + i - 1 \in 1 .. Len(t)
    BY <1>1, <1>2, <1>3, <1>4
  <1> QED  BY <1>1, <1>2, <1>3, <1>5, ElementFacts

LEMMA HeadsWithout ==
    ASSUME NEW t \in Text, NEW x, x \notin ToSet(t), NEW n \in Nat
    PROVE  x \notin ToSet(Take(t, n))
  <1>1. /\ Take(t, n) \in Seq(Tokens)
        /\ \A i \in 1 .. Len(Take(t, n)) : Take(t, n)[i] = t[i] /\ i \in 1 .. Len(t)
    BY TakeFacts DEF Text
  <1>2. \A i \in 1 .. Len(t) : t[i] # x
    BY ElementFacts DEF Text
  <1> QED  BY <1>1, <1>2, ElementFacts

\* The reading of a prompt, with the separator at the cursor.
Divided(input, cursor) ==
    IF Aligned(input, cursor)
    THEN Take(input, cursor) \o <<Separator>> \o SubSeq(input, cursor + 1, Len(input))
    ELSE input

LEMMA DividedFacts ==
    ASSUME NEW input \in Text, NEW cursor \in Nat, InTag \notin ToSet(input)
    PROVE  /\ Divided(input, cursor) \in Text
           /\ InTag \notin ToSet(Divided(input, cursor))
           /\ Len(Divided(input, cursor))
                = Len(input) + (IF Separated /\ cursor < Len(input) THEN 1 ELSE 0)
  <1>1. Len(input) \in Nat
    BY LenProperties DEF Text
  <1>2. CASE ~Aligned(input, cursor)
    <2>1. (IF Separated /\ cursor < Len(input) THEN 1 ELSE 0) = 0
      BY <1>2 DEF Aligned
    <2>2. Divided(input, cursor) = input /\ Len(input) + 0 = Len(input)
      BY <1>1, <1>2 DEF Divided
    <2> QED  BY <2>1, <2>2
  <1>3. CASE Aligned(input, cursor)
    <2> DEFINE s == Take(input, cursor)
               t == SubSeq(input, cursor + 1, Len(input))
    <2>1. cursor < Len(input) /\ Separated
      BY <1>3 DEF Aligned
    <2>2. s \in Text /\ Len(s) = cursor /\ InTag \notin ToSet(s)
      <3>1. s \in Seq(Tokens) /\ Len(s) = IF cursor > Len(input) THEN Len(input) ELSE cursor
        BY TakeFacts DEF Text
      <3>2. ~ cursor > Len(input)
        BY <1>1, <2>1
      <3> QED  BY <3>1, <3>2, HeadsWithout DEF Text
    <2>3. t \in Text /\ Len(t) = Len(input) - cursor /\ InTag \notin ToSet(t)
      <3>1. /\ cursor + 1 \in Nat /\ cursor + 1 > 0 /\ Len(input) <= Len(input)
            /\ cursor + 1 <= Len(input) /\ input \in Seq(Tokens)
        BY <1>1, <2>1 DEF Text
      <3>2. t \in Seq(Tokens)
            /\ Len(t) = IF cursor + 1 <= Len(input) THEN Len(input) - (cursor + 1) + 1 ELSE 0
        BY <1>1, <3>1, SliceFacts
      <3>3. InTag \notin ToSet(t)
        BY <3>1, PartsWithout
      <3>4. Len(t) = Len(input) - cursor
        BY <1>1, <3>1, <3>2
      <3> QED  BY <3>2, <3>3, <3>4 DEF Text
    <2> HIDE DEF s, t
    <2>4. <<Separator>> \in Text /\ Len(<<Separator>>) = 1 /\ InTag \notin ToSet(<<Separator>>)
      BY Symbols DEF ToSet, Separator, InTag
    <2>5. s \o <<Separator>> \in Text /\ Len(s \o <<Separator>>) = cursor + 1
          /\ InTag \notin ToSet(s \o <<Separator>>)
      BY <2>2, <2>4, JoinedTexts, JoinedWithout
    <2>6. /\ s \o <<Separator>> \o t \in Text
          /\ Len(s \o <<Separator>> \o t) = cursor + 1 + (Len(input) - cursor)
          /\ InTag \notin ToSet(s \o <<Separator>> \o t)
      <3> DEFINE u == s \o <<Separator>>
      <3> HIDE DEF u
      <3>1. u \in Text /\ Len(u) = cursor + 1 /\ InTag \notin ToSet(u)
        BY <2>5 DEF u
      <3>2. u \o t \in Text /\ Len(u \o t) = Len(u) + Len(t)
        BY <2>3, <3>1, JoinedTexts
      <3>3. InTag \notin ToSet(u \o t)
        BY <2>3, <3>1, JoinedWithout
      <3> QED  BY <2>3, <3>1, <3>2, <3>3 DEF u
    <2>7. cursor + 1 + (Len(input) - cursor) = Len(input) + 1
      BY <1>1
    <2>8. Divided(input, cursor) = s \o <<Separator>> \o t
      BY <1>3 DEF Divided, s, t
    <2> QED  BY <2>1, <2>6, <2>7, <2>8
  <1> QED  BY <1>2, <1>3

\* The length of what a prompt has between its last tags.
LEMMA PromptShape ==
    ASSUME NEW w, Typed(w), Readable(w), NEW x \in Paths
    PROVE  \E h \in Text, s \in Text :
                /\ Question(w, x).prompt = Tagged(h, s)
                /\ InTag \notin ToSet(s)
                /\ Len(s) = Len(w.full) - FixedLengths(w, x).ruby
                        + (IF Separated /\ Len(w.input) < Len(w.full) THEN 1 ELSE 0)
  <1> DEFINE fixed == Fixed(w, x)
             skipped == FixedLengths(w, x).ruby
             input == SubSeq(w.full, skipped + 1, Len(w.full))
             cursor == Len(w.input) - skipped
             entries == IF fixed = <<>> THEN x ELSE DroppingFixedEntries(x, Len(fixed))
             user == Retained(entries, {e \in ToSet(entries) : e.source = "user"})
             h == WordOf(user) \o RubyOf(user) \o (w.left \o fixed)
  <1>1. /\ w.input \in Text /\ w.full \in Text /\ w.left \in Text /\ w.constraint \in Constraints
        /\ Len(w.input) \in Nat /\ Len(w.full) \in Nat /\ Len(w.input) <= Len(w.full)
        /\ InTag \notin ToSet(w.full)
    BY LenProperties DEF Typed, Readable, Text
  <1>2. Question(w, x).prompt = Prompt(w.left \o fixed, user, input, cursor)
    BY DEF Question
  <1>3. Prompt(w.left \o fixed, user, input, cursor) = Tagged(h, Divided(input, cursor))
    BY DEF Prompt, Tagged, Divided
  <1>4. fixed \in Text /\ skipped \in 0 .. Len(w.input)
    BY <1>1, FixedFacts
  <1> HIDE DEF fixed, skipped
  <1>5. Len(fixed) \in Nat
    BY <1>4, LenProperties DEF Text
  <1>6. entries \in Paths
    BY <1>5, DroppingFacts
  <1> HIDE DEF entries
  <1>7. user \in Paths
    BY <1>6, RetainedFacts DEF Paths
  <1> HIDE DEF user
  <1>8. h \in Text
    <2>1. WordOf(user) \o RubyOf(user) \in Text /\ w.left \o fixed \in Text
      BY <1>1, <1>4, <1>7, WordFacts, RubyFacts, ConcatText
    <2> QED  BY <2>1, ConcatText
  <1> HIDE DEF h
  <1>9. skipped + 1 \in Nat /\ skipped + 1 > 0 /\ cursor \in Nat /\ skipped <= Len(w.full)
    BY <1>1, <1>4
  <1>10. input \in Text /\ InTag \notin ToSet(input) /\ Len(input) = Len(w.full) - skipped
    <2>1. /\ w.full \in Seq(Tokens) /\ Len(w.full) <= Len(w.full)
      BY <1>1 DEF Text
    <2>2. /\ input \in Seq(Tokens)
          /\ Len(input) = IF skipped + 1 <= Len(w.full) THEN Len(w.full) - (skipped + 1) + 1 ELSE 0
      BY <1>1, <1>9, <2>1, SliceFacts
    <2>3. InTag \notin ToSet(input)
      BY <1>1, <1>9, PartsWithout
    <2> HIDE DEF input
    <2>4. Len(input) = Len(w.full) - skipped
      BY <1>1, <1>4, <1>9, <2>2
    <2> QED  BY <2>2, <2>3, <2>4 DEF Text
  <1>11. cursor < Len(input) <=> Len(w.input) < Len(w.full)
    <2> HIDE DEF input
    <2> QED  BY <1>1, <1>4, <1>10
  <1> HIDE DEF input, cursor
  <1> DEFINE s == Divided(input, cursor)
  <1>12. /\ s \in Text /\ InTag \notin ToSet(s)
         /\ Len(s) = Len(input) + (IF Separated /\ cursor < Len(input) THEN 1 ELSE 0)
    BY <1>9, <1>10, DividedFacts
  <1> HIDE DEF s
  <1>13. Len(s) = Len(w.full) - skipped
                        + (IF Separated /\ Len(w.input) < Len(w.full) THEN 1 ELSE 0)
    BY <1>10, <1>11, <1>12
  <1>14. Question(w, x).prompt = Tagged(h, s)
    BY <1>2, <1>3 DEF s
  <1> QED  BY <1>8, <1>12, <1>13, <1>14 DEF skipped

\* What a conversion fixes, if anything, is the accepted prediction.
LEMMA FixedLengthsFacts ==
    ASSUME NEW w, Typed(w), Readable(w), NEW x
    PROVE  \/ /\ FixedLengths(w, x) = [length |-> 0, ruby |-> 0]
              /\ Fixed(w, x) = <<>>
           \/ /\ FixedLengths(w, x) \in FixedBy(w.accepted)
              /\ FixedLengths(w, x).ruby > 0 /\ FixedLengths(w, x).length > 0
              /\ Fixed(w, x) \in Text
              /\ Len(Fixed(w, x)) = FixedLengths(w, x).length
              /\ FixedLengths(w, x).length <= Len(w.constraint.text)
  <1>1. w.constraint.text \in Text /\ w.accepted \in Optional(Predictions)
        /\ w.constraint.fixed = FixedBy(w.accepted)
    BY DEF Typed, Readable, Constraints
  <1>2. CASE FixedPrefix(w, x) = {}
    <2>1. FixedLengths(w, x) = [length |-> 0, ruby |-> 0]
      BY <1>2 DEF FixedLengths
    <2>2. 0 \in Nat /\ Len(w.constraint.text) \in Nat /\ w.constraint.text \in Seq(Tokens)
      BY <1>1, LenProperties DEF Text
    <2>3. Take(w.constraint.text, 0) \in Seq(Tokens)
          /\ Len(Take(w.constraint.text, 0)) = IF 0 > Len(w.constraint.text)
                                               THEN Len(w.constraint.text) ELSE 0
      BY <2>2, TakeFacts
    <2>4. Take(w.constraint.text, 0) = <<>>
      BY <2>2, <2>3, EmptySeq
    <2> QED  BY <2>1, <2>4 DEF Fixed
  <1>3. CASE FixedPrefix(w, x) # {}
    <2> DEFINE f == FixedLengths(w, x)
    <2>1. f \in FixedPrefix(w, x)
      BY <1>3 DEF FixedLengths
    <2>2. Fixed(w, x) = Take(w.constraint.text, f.length)
      BY DEF Fixed
    <2> HIDE DEF f
    <2>3. f \in FixedBy(w.accepted) /\ f.length > 0 /\ f.length <= Len(w.constraint.text)
      BY <1>1, <2>1 DEF FixedPrefix
    <2>4. PICK p \in ToSet(w.accepted) : f = [length |-> Len(p.words), ruby |-> Len(p.ruby)]
      BY <2>3 DEF FixedBy
    <2>5. p \in Predictions
      BY <1>1, <2>4 DEF Optional, ToSet
    <2>6. p.ruby \in Seq(Tokens) /\ p.words \in Seq(Tokens) /\ p.ruby # <<>>
      BY <2>4, <2>5 DEF Predictions, Text, Readable
    <2>7. f.length \in Nat /\ f.ruby \in Nat /\ f.ruby # 0
      <3>1. Len(p.words) \in Nat /\ Len(p.ruby) \in Nat /\ Len(p.ruby) # 0
        BY <2>6, LenProperties, EmptySeq
      <3> QED  BY <2>4, <3>1
    <2>8. Fixed(w, x) \in Text /\ Len(Fixed(w, x)) = f.length
      <3>1. /\ Take(w.constraint.text, f.length) \in Seq(Tokens)
            /\ Len(Take(w.constraint.text, f.length))
                = IF f.length > Len(w.constraint.text) THEN Len(w.constraint.text) ELSE f.length
        BY <1>1, <2>7, TakeFacts DEF Text
      <3>2. ~ f.length > Len(w.constraint.text)
        <4>1. Len(w.constraint.text) \in Nat
          BY <1>1, LenProperties DEF Text
        <4> QED  BY <2>3, <2>7, <4>1
      <3> QED  BY <2>2, <3>1, <3>2 DEF Text
    <2>9. f.ruby > 0
      BY <2>7
    <2> QED  BY <2>3, <2>8, <2>9 DEF f
  <1> QED  BY <1>2, <1>3

LEMMA FixedByOne ==
    ASSUME NEW accepted \in Optional(Predictions), NEW f \in FixedBy(accepted),
           NEW g \in FixedBy(accepted)
    PROVE  f = g
  <1>1. \A p, r \in ToSet(accepted) : p = r
    BY DEF Optional, ToSet
  <1> QED  BY <1>1 DEF FixedBy

\* Equal prompts of one conversion leave out the same words.
LEMMA SameFixed ==
    ASSUME NEW w, Typed(w), Readable(w), NEW x \in Paths,
           NEW v, Typed(v), Readable(v), NEW y \in Paths,
           v.input = w.input, v.full = w.full, v.accepted = w.accepted,
           Question(v, y).prompt = Question(w, x).prompt
    PROVE  FixedLengths(v, y) = FixedLengths(w, x)
  <1> DEFINE e == IF Separated /\ Len(w.input) < Len(w.full) THEN 1 ELSE 0
             f == FixedLengths(w, x)
             g == FixedLengths(v, y)
  <1>1. PICK h \in Text, s \in Text :
                /\ Question(w, x).prompt = Tagged(h, s) /\ InTag \notin ToSet(s)
                /\ Len(s) = Len(w.full) - f.ruby + e
    BY PromptShape
  <1>2. PICK k \in Text, t \in Text :
                /\ Question(v, y).prompt = Tagged(k, t) /\ InTag \notin ToSet(t)
                /\ Len(t) = Len(w.full) - g.ruby + e
    BY PromptShape
  <1>3. Len(s) = Len(t)
    BY <1>1, <1>2, SameReadings
  <1>4. f.ruby \in Nat /\ g.ruby \in Nat /\ Len(w.full) \in Nat
    <2>1. f.ruby \in 0 .. Len(w.input) /\ g.ruby \in 0 .. Len(w.input)
      BY FixedFacts DEF Typed
    <2>2. Len(w.input) \in Nat /\ Len(w.full) \in Nat
      BY LenProperties DEF Typed, Text
    <2> QED  BY <2>1, <2>2
  <1>5. \/ f = [length |-> 0, ruby |-> 0]
        \/ f \in FixedBy(w.accepted) /\ f.ruby > 0
    BY FixedLengthsFacts
  <1>6. \/ g = [length |-> 0, ruby |-> 0]
        \/ g \in FixedBy(w.accepted) /\ g.ruby > 0
    BY FixedLengthsFacts
  <1> HIDE DEF f, g
  <1>7. e \in Nat
    OBVIOUS
  <1> HIDE DEF e
  <1>8. f.ruby = g.ruby
    BY <1>1, <1>2, <1>3, <1>4, <1>7
  <1>9. w.accepted \in Optional(Predictions)
    BY DEF Typed
  <1> QED  BY <1>4, <1>5, <1>6, <1>8, <1>9, FixedByOne DEF f, g

\* A prefix of a joined text, behind the first.
LEMMA DroppedPrefix ==
    ASSUME NEW s \in Text, NEW t \in Text, NEW u \in Text, IsPrefix(u, s \o t),
           Len(s) <= Len(u)
    PROVE  /\ SubSeq(u, Len(s) + 1, Len(u)) \in Text
           /\ IsPrefix(SubSeq(u, Len(s) + 1, Len(u)), t)
  <1> DEFINE n == Len(s)
             j == s \o t
             r == SubSeq(u, n + 1, Len(u))
             k == Len(u) - n
  <1>1. /\ j \in Text /\ Len(j) = n + Len(t) /\ n \in Nat /\ Len(t) \in Nat
        /\ \A i \in 1 .. Len(t) : j[n + i] = t[i]
    BY JoinedTexts
  <1>2. Len(u) \in Nat /\ u \in Seq(Tokens) /\ t \in Seq(Tokens) /\ j \in Seq(Tokens)
    BY <1>1, LenProperties DEF Text
  <1>3. Len(u) <= Len(j) /\ u = Prefix(j, Len(u))
    BY <1>1, PrefixIs
  <1> HIDE DEF j, n
  <1>4. Len(u) \in 0 .. Len(j) /\ k \in Nat /\ k <= Len(t) /\ k \in 0 .. Len(t)
    BY <1>1, <1>2, <1>3 DEF n
  <1>5. \A i \in 1 .. Len(u) : u[i] = j[i]
    BY <1>2, <1>3, <1>4, PrefixFacts
  <1>6. r \in Seq(Tokens) /\ Len(r) = k /\ \A i \in 1 .. k : r[i] = u[n + i]
    <2>1. n + 1 \in Nat /\ n + 1 > 0 /\ Len(u) <= Len(u) /\ n <= Len(u)
      BY <1>1, <1>2 DEF n
    <2>2. /\ r \in Seq(Tokens)
          /\ Len(r) = IF n + 1 <= Len(u) THEN Len(u) - (n + 1) + 1 ELSE 0
          /\ \A i \in 1 .. (Len(u) - (n + 1) + 1) : r[i] = u[n + 1 + i - 1]
      BY <1>2, <2>1, SliceFacts
    <2> HIDE DEF r
    <2>3. Len(u) - (n + 1) + 1 = k /\ \A i \in 1 .. k : n + 1 + i - 1 = n + i
      BY <1>1, <1>2, <1>4
    <2>4. Len(r) = k
      BY <1>1, <1>2, <2>1, <2>2
    <2> QED  BY <2>2, <2>3, <2>4
  <1> HIDE DEF r
  <1>7. \A i \in 1 .. k : r[i] = t[i]
    <2> TAKE i \in 1 .. k
    <2>1. n + i \in 1 .. Len(u) /\ i \in 1 .. Len(t)
      BY <1>1, <1>2, <1>4
    <2> QED  BY <1>1, <1>5, <1>6, <2>1
  <1> HIDE DEF k
  <1>8. k \in 0 .. Len(r) /\ k <= Len(t)
    BY <1>4, <1>6
  <1>9. Prefix(r, k) = Prefix(t, k) /\ Prefix(r, Len(r)) = r
    BY <1>2, <1>6, <1>7, <1>8, SamePrefix, PrefixWhole
  <1>10. IsPrefix(r, t)
    BY <1>6, <1>8, <1>9, PrefixIs DEF Text
  <1> QED  BY <1>6, <1>10 DEF r, n, Text

\* What a constraint made of a tolerated text requires after the same prompt
\* is tolerated.
LEMMA RequiredTolerated ==
    ASSUME NEW m, NEW w, Typed(w), Readable(w), NEW x \in Paths,
           NEW t \in Text, TextTolerated(m, Question(w, x).prompt, t),
           NEW v, Typed(v), Readable(v), NEW y \in Paths,
           v.input = w.input, v.full = w.full, v.accepted = w.accepted,
           IsPrefix(v.constraint.text, Fixed(w, x) \o t),
           Question(v, y).prompt = Question(w, x).prompt
    PROVE  TextTolerated(m, Question(w, x).prompt, Question(v, y).constraint.text)
  <1> DEFINE f == FixedLengths(w, x)
             prompt == Question(w, x).prompt
             s == Fixed(w, x)
             u == v.constraint.text
             r == Question(v, y).constraint.text
  <1>1. FixedLengths(v, y) = f
    BY SameFixed
  <1>2. u \in Text /\ s \in Text /\ v.constraint \in Constraints
    BY FixedFacts DEF Typed, Constraints
  <1>3. r = IF Fixed(v, y) = <<>> THEN u ELSE SubSeq(u, Len(Fixed(v, y)) + 1, Len(u))
    <2>1. Question(v, y).constraint
            = IF Fixed(v, y) = <<>> THEN v.constraint
              ELSE [v.constraint EXCEPT
                        !.text = SubSeq(@, Len(Fixed(v, y)) + 1, Len(@)), !.fixed = {}]
      BY DEF Question
    <2> QED  BY <1>2, <2>1 DEF Constraints
  <1>4. \/ f = [length |-> 0, ruby |-> 0] /\ s = <<>>
        \/ f.length > 0 /\ Len(s) = f.length
    BY FixedLengthsFacts
  <1>5. \/ f = [length |-> 0, ruby |-> 0] /\ Fixed(v, y) = <<>>
        \/ f.length > 0 /\ Fixed(v, y) \in Text /\ Len(Fixed(v, y)) = f.length
           /\ f.length <= Len(u)
    BY <1>1, FixedLengthsFacts
  <1>6. f.length > 0 => f # [length |-> 0, ruby |-> 0]
    OBVIOUS
  <1> HIDE DEF f, s, u, r, prompt
  <1>7. CASE f.length > 0
    <2>1. Len(s) = f.length /\ Len(Fixed(v, y)) = f.length /\ f.length <= Len(u)
          /\ Fixed(v, y) \in Text
      BY <1>4, <1>5, <1>6, <1>7
    <2>2. Fixed(v, y) # <<>>
      <3>1. Len(<<>>) = 0
        OBVIOUS
      <3> QED  BY <1>7, <2>1, <3>1
    <2>3. r = SubSeq(u, Len(s) + 1, Len(u))
      BY <1>3, <2>1, <2>2
    <2>4. r \in Text /\ IsPrefix(r, t)
      <3>1. IsPrefix(u, s \o t)
        BY DEF u, s
      <3> QED  BY <1>2, <2>1, <2>3, <3>1, DroppedPrefix
    <2> QED  BY <2>4, ToleratedShorter DEF prompt, r
  <1>8. CASE ~ f.length > 0
    <2>1. s = <<>> /\ Fixed(v, y) = <<>>
      BY <1>4, <1>5, <1>8
    <2>2. r = u
      BY <1>3, <2>1
    <2>3. IsPrefix(u, t)
      <3>1. <<>> \o t = t
        BY ConcatEmptySeq DEF Text
      <3> QED  BY <2>1, <3>1 DEF u, s
    <2> QED  BY <1>2, <2>2, <2>3, ToleratedShorter DEF prompt, r
  <1> QED  BY <1>7, <1>8

----------------------------------------------------------------------------
(***************************************************************************)
(* The invariant of a conversion: what the constraint under way requires   *)
(* after the prompt of the last evaluation is tolerated, and so is what    *)
(* passed, unless the first evaluation skipped an inherited prefix.        *)
(***************************************************************************)
Required(m, previous, w) ==
    \A x \in Paths : Question(w, x).prompt = previous =>
                        TextTolerated(m, previous, Question(w, x).constraint.text)

Underway(m, previous, w) ==
    /\ w.evaluated = <<>>
    /\ w.remaining <= InferenceLimit
    /\ w.remaining # InferenceLimit /\ ~w.inherited => Required(m, previous, w)

Passed(m, w) ==
    w.evaluated # <<>> /\ ~w.inherited =>
        LET q == Question(w, w.evaluated[1]) IN TextTolerated(m, q.prompt, q.text)

Reviewed(m, previous, w) ==
    /\ w.at \in {"draft", "review"} => Underway(m, previous, w)
    /\ Passed(m, w)

\* A question depends on the reading and on the constraint.
SameQuestions(w, v) ==
    /\ v.constraint = w.constraint /\ v.input = w.input /\ v.full = w.full
    /\ v.left = w.left /\ v.rich = w.rich

LEMMA QuestionIs ==
    ASSUME NEW w, NEW v, SameQuestions(w, v), NEW x
    PROVE  Question(v, x) = Question(w, x) /\ Fixed(v, x) = Fixed(w, x)
  <1>1. FixedPrefix(v, x) = FixedPrefix(w, x)
    BY DEF FixedPrefix, SameQuestions
  <1>2. FixedLengths(v, x) = FixedLengths(w, x)
    BY <1>1 DEF FixedLengths
  <1>3. Fixed(v, x) = Fixed(w, x)
    BY <1>2 DEF Fixed, SameQuestions
  <1>4. Question(v, x) = Question(w, x)
    BY <1>2, <1>3 DEF Question, SameQuestions
  <1> QED  BY <1>3, <1>4

LEMMA ReadableSame ==
    ASSUME NEW w, Readable(w), NEW v, v.input = w.input, v.full = w.full,
           v.accepted = w.accepted, v.constraint.fixed = w.constraint.fixed
    PROVE  Readable(v)
  BY DEF Readable

LEMMA PassedSame ==
    ASSUME NEW m, NEW w, Passed(m, w), NEW v, SameQuestions(w, v),
           v.evaluated = w.evaluated, v.inherited = w.inherited
    PROVE  Passed(m, v)
  BY QuestionIs DEF Passed

LEMMA TypedIs ==
    ASSUME NEW w, WorkFits(w)
    PROVE  Typed(w) /\ w.predicted \in Seq(Kana) /\ w.inherited \in BOOLEAN
           /\ w.remaining \in Int /\ w.evaluated \in Optional(Paths)
  BY DEF WorkFits, Works, Typed

\* The priorities of what the model is asked.
LEMMA AskedPriorities ==
    ASSUME NEW w, Typed(w), NEW x \in Paths
    PROVE  LearnedPriorities(Question(w, x).segments) \in Seq(Priorities)
  <1> DEFINE fixed == Fixed(w, x)
             entries == IF fixed = <<>> THEN x ELSE DroppingFixedEntries(x, Len(fixed))
             segments == [i \in DOMAIN entries |->
                            [word |-> entries[i].word, ruby |-> entries[i].ruby,
                             learned |-> entries[i].source = "learned"]]
  <1>1. Question(w, x).segments = segments
    BY DEF Question
  <1>2. fixed \in Text
    BY FixedFacts DEF Typed
  <1>3. Len(fixed) \in Nat
    BY <1>2, LenProperties DEF Text
  <1> HIDE DEF fixed
  <1>4. entries \in Paths
    BY <1>3, DroppingFacts
  <1> HIDE DEF entries
  <1> QED  BY <1>1, <1>4, PriorityFacts

\* A text that is tolerated is what PassedIsTolerated asks for.
LEMMA ToleratedIs ==
    ASSUME NEW q, QuestionFits(q), TextTolerated(model, q.prompt, q.text)
    PROVE  Tolerated(q)
  <1> DEFINE n == Len(q.text)
             At(k) == q.prompt \o Take(q.text, 0 + k - 1)
  <1>1. n \in Nat /\ DOMAIN q.text = 1 .. n
    BY LenProperties DEF QuestionFits, Text
  <1>2. n - 0 = n
    BY <1>1
  <1>3. FreshRows(q, 0) = [k \in 1 .. (n - 0) |-> At(k)]
    BY DEF FreshRows
  <1> HIDE DEF At
  <1>4. FreshRows(q, 0) = [k \in 1 .. n |-> At(k)]
    BY <1>2, <1>3
  <1>5. ASSUME NEW i \in 1 .. n
        PROVE  FreshRows(q, 0)[i] = q.prompt \o Take(q.text, i - 1)
    <2>1. 0 + i - 1 = i - 1
      BY <1>1
    <2> QED  BY <1>4, <2>1 DEF At
  <1>6. \A i \in 1 .. n : TokenTolerated(model, q.prompt, q.text, i)
    BY DEF TextTolerated
  <1> HIDE DEF n
  <1>7. ASSUME NEW i \in 1 .. n
        PROVE  LET row == PersonalizedLogits(model, FreshRows(q, 0)[i], Take(q.text, i - 1))
                   best == StrictArgmax(row)
               IN  \/ best = q.text[i]
                   \/ \E p \in Priorities : Excused(row, q.text[i], best, p)
    BY <1>5, <1>6 DEF TokenTolerated
  <1> QED  BY <1>1, <1>7 DEF Tolerated

\* A conversion starts with what the accepted prediction fixes.
LEMMA StartFixes ==
    ASSUME NEW accepted \in Optional(Predictions), NEW entry \in CacheEntries,
           NEW input \in Text
    PROVE  Constrained(accepted, ConstraintFor(entry, input)).fixed = FixedBy(accepted)
  <1> DEFINE start == ConstraintFor(entry, input)
  <1>1. start.fixed = {} /\ start \in Constraints
    <2>1. [entry.constraint EXCEPT !.eos = FALSE, !.fixed = {}].fixed = {}
      BY DEF CacheEntries, Constraints
    <2>2. start.fixed = {}
      BY <2>1 DEF ConstraintFor, NoConstraint, PrefixConstraint
    <2> QED  BY <2>2, ConstraintForFacts
  <1> HIDE DEF start
  <1>2. CASE accepted = <<>>
    <2>1. ToSet(accepted) = {}
      BY <1>2 DEF ToSet
    <2> QED  BY <1>1, <1>2, <2>1 DEF Constrained, FixedBy, start
  <1>3. CASE \E p \in Predictions : accepted = <<p>>
    <2>1. PICK p \in Predictions : accepted = <<p>>
      BY <1>3
    <2>2. ToSet(accepted) = {p}
      BY <2>1 DEF ToSet
    <2>3. Constrained(accepted, start).fixed = {[length |-> Len(p.words), ruby |-> Len(p.ruby)]}
      BY <1>1, <2>2, ConstrainedFacts
    <2> QED  BY <2>2, <2>3 DEF FixedBy, start
  <1> QED  BY <1>2, <1>3 DEF Optional

LEMMA ConversionReviewed ==
    ASSUME NEW w, WorkFits(w), NEW input \in Text, NEW full \in Text,
           Len(input) <= Len(full), InTag \notin ToSet(input), InTag \notin ToSet(full),
           NEW accepted \in Optional(Predictions), \A p \in ToSet(accepted) : p.ruby # <<>>,
           NEW rich, NEW entry \in CacheEntries, NEW nested, NEW m, NEW previous
    PROVE  LET new == Conversion(w, input, full, accepted, rich, entry, nested)
           IN  Readable(new) /\ Reviewed(m, previous, new)
  <1> DEFINE new == Conversion(w, input, full, accepted, rich, entry, nested)
             start == Constrained(accepted, ConstraintFor(entry, input))
  <1>1. start.fixed = FixedBy(accepted)
    BY StartFixes
  <1>2. w \in Works(w.accepted)
    BY DEF WorkFits
  <1>3. new = [w EXCEPT !.at = "draft", !.input = input, !.full = full, !.accepted = accepted,
              !.rich = rich, !.nested = nested, !.constraint = start,
              !.constructed = <<>>, !.inserted = <<>>, !.draft = <<>>, !.index = 0,
              !.remaining = InferenceLimit, !.evaluated = <<>>, !.inherited = FALSE]
    BY DEF Conversion
  <1> HIDE DEF start, new
  <1>4. /\ new.input = input /\ new.full = full /\ new.accepted = accepted
        /\ new.constraint = start /\ new.evaluated = <<>> /\ new.remaining = InferenceLimit
    BY <1>2, <1>3 DEF Works
  <1>5. InferenceLimit <= InferenceLimit
    BY LimitsAssumption
  <1>6. Readable(new)
    BY <1>1, <1>4 DEF Readable
  <1>7. Reviewed(m, previous, new)
    BY <1>4, <1>5 DEF Reviewed, Underway, Passed
  <1> QED  BY <1>6, <1>7 DEF new

\* A prediction goes on from the reading with kana.
LEMMA PredictionReviewed ==
    ASSUME NEW w, WorkFits(w), Readable(w), NEW s \in Text, InTag \notin ToSet(s),
           NEW p \in Text, \A i \in 1 .. Len(p) : p[i] \in Kana, NEW m, NEW previous
    PROVE  /\ Readable(PredictionConversion(w, s \o p))
           /\ Reviewed(m, previous, PredictionConversion(w, s \o p))
  <1>1. InTag \notin ToSet(p)
    <2>1. \A i \in 1 .. Len(p) : p[i] # InTag
      BY ReadingsAssumption DEF InTag
    <2> QED  BY <2>1, ElementFacts DEF Text
  <1>2. s \o p \in Text /\ InTag \notin ToSet(s \o p)
    BY <1>1, ConcatText, JoinedWithout
  <1>3. Len(s \o p) <= Len(s \o p)
    <2> DEFINE t == s \o p
    <2> HIDE DEF t
    <2>1. Len(t) \in Nat
      BY <1>2, LenProperties DEF Text, t
    <2>2. Len(t) <= Len(t)
      BY <2>1
    <2> QED  BY <2>2 DEF t
  <1>4. w.accepted \in Optional(Predictions) /\ \A q \in ToSet(w.accepted) : q.ruby # <<>>
    BY DEF WorkFits, Readable
  <1>5. EmptyCache \in CacheEntries
    BY NoConstraintFacts
  <1> QED  BY <1>2, <1>3, <1>4, <1>5, ConversionReviewed DEF PredictionConversion

LEMMA SettledReviewed ==
    ASSUME NEW w, WorkFits(w), Readable(w), NEW m, Passed(m, w), NEW outcome, NEW previous
    PROVE  /\ Readable(Settled(w, outcome)) /\ Reviewed(m, previous, Settled(w, outcome))
           /\ Readable([Settled(w, outcome) EXCEPT !.at = "generate"])
           /\ Reviewed(m, previous, [Settled(w, outcome) EXCEPT !.at = "generate"])
  <1> DEFINE s == Settled(w, outcome)
             g == [s EXCEPT !.at = "generate"]
  <1>1. w \in Works(w.accepted)
    BY DEF WorkFits
  <1>2. s = [w EXCEPT !.at = "idle", !.outcome = outcome, !.draft = <<>>, !.index = 0,
              !.constructed = <<>>, !.remaining = 0, !.predicted = <<>>]
    BY DEF Settled
  <1> HIDE DEF s
  <1>3. /\ s.at = "idle" /\ s.input = w.input /\ s.full = w.full /\ s.left = w.left
        /\ s.rich = w.rich /\ s.accepted = w.accepted /\ s.constraint = w.constraint
        /\ s.evaluated = w.evaluated /\ s.inherited = w.inherited
    BY <1>1, <1>2 DEF Works
  <1>4. /\ g.at = "generate" /\ g.input = w.input /\ g.full = w.full /\ g.left = w.left
        /\ g.rich = w.rich /\ g.accepted = w.accepted /\ g.constraint = w.constraint
        /\ g.evaluated = w.evaluated /\ g.inherited = w.inherited
    BY <1>1, <1>2 DEF Works
  <1> HIDE DEF g
  <1>5. Readable(s) /\ Readable(g)
    BY <1>3, <1>4, ReadableSame
  <1>6. Passed(m, s) /\ Passed(m, g)
    BY <1>3, <1>4, PassedSame DEF SameQuestions
  <1> QED  BY <1>3, <1>4, <1>5, <1>6 DEF Reviewed, g, s

LEMMA AfterReviewed ==
    ASSUME NEW w, WorkFits(w), Readable(w), NEW m, Passed(m, w), NEW previous,
           NEW next \in After(w)
    PROVE  Readable(next) /\ Reviewed(m, previous, next)
  <1>1. CASE next = Settled(w, "zenz")
    <2>1. Readable(Settled(w, "zenz")) /\ Reviewed(m, previous, Settled(w, "zenz"))
      BY SettledReviewed
    <2> QED  BY <1>1, <2>1
  <1>2. CASE next = [Settled(w, "none") EXCEPT !.at = "generate"]
    <2>1. /\ Readable([Settled(w, "none") EXCEPT !.at = "generate"])
          /\ Reviewed(m, previous, [Settled(w, "none") EXCEPT !.at = "generate"])
      BY SettledReviewed
    <2> QED  BY <1>2, <2>1
  <1>3. CASE \E p \in KnownPredictions : next = PredictionConversion(w, w.input \o p)
    <2>1. PICK p \in KnownPredictions : next = PredictionConversion(w, w.input \o p)
      BY <1>3
    <2>2. PICK n \in 1 .. PredictionLength : p \in [1 .. n -> Kana]
      BY <2>1 DEF KnownPredictions
    <2>3. n \in Nat /\ p \in [1 .. n -> Tokens]
      BY <2>2, LanguageAssumption, LimitsAssumption
    <2>4. p \in Text /\ Len(p) = n
      BY <2>3, SeqMade DEF Text
    <2>5. \A i \in 1 .. Len(p) : p[i] \in Kana
      BY <2>2, <2>4
    <2>6. w.input \in Text /\ InTag \notin ToSet(w.input)
      BY TypedIs DEF Typed, Readable
    <2> QED  BY <2>1, <2>4, <2>5, <2>6, PredictionReviewed
  <1> QED  BY <1>1, <1>2, <1>3 DEF After

LEMMA ConvertedReviewed ==
    ASSUME NEW c, NEW w, WorkFits(w), Readable(w), NEW m, Passed(m, w), NEW previous,
           NEW entry, Converted(c, w, entry)
    PROVE  \E next : /\ work' = [work EXCEPT ![c] = next]
                     /\ Readable(next) /\ Reviewed(m, previous, next)
  <1>1. PICK next \in After(w) : work' = [work EXCEPT ![c] = next]
    BY DEF Converted
  <1> QED  BY <1>1, AfterReviewed

LEMMA AbortedReviewed ==
    ASSUME NEW c, NEW w, WorkFits(w), Readable(w), NEW m, NEW previous,
           NEW error, Aborted(c, w, error)
    PROVE  \E next : /\ work' = [work EXCEPT ![c] = next]
                     /\ Readable(next) /\ Reviewed(m, previous, next)
  <1> DEFINE outcome == IF error = "capacity" THEN "dictionary" ELSE "internal"
             s == Settled(w, outcome)
             next == [s EXCEPT !.inserted = <<>>, !.evaluated = <<>>]
  <1>1. w \in Works(w.accepted)
    BY DEF WorkFits
  <1>2. s = [w EXCEPT !.at = "idle", !.outcome = outcome, !.draft = <<>>, !.index = 0,
              !.constructed = <<>>, !.remaining = 0, !.predicted = <<>>]
    BY DEF Settled
  <1>3. work' = [work EXCEPT ![c] = next]
    BY DEF Aborted
  <1> HIDE DEF s, outcome
  <1>4. /\ next.at = "idle" /\ next.input = w.input /\ next.full = w.full
        /\ next.accepted = w.accepted /\ next.constraint = w.constraint
        /\ next.evaluated = <<>>
    BY <1>1, <1>2 DEF Works
  <1> HIDE DEF next
  <1>5. Readable(next)
    BY <1>4, ReadableSame
  <1>6. Reviewed(m, previous, next)
    BY <1>4 DEF Reviewed, Passed
  <1> QED  BY <1>3, <1>5, <1>6

\* normalize_constraint keeps a head of the text.
LEMMA NormalizedHead ==
    ASSUME NEW text \in Text, NEW eos, NEW ignore
    PROVE  IsPrefix(Normalized(text, eos, ignore).text, text)
  <1> DEFINE cut == {i \in DOMAIN text : text[i] = Separator}
             n == Min(cut) - 1
             t == IF cut = {} THEN text ELSE Take(text, n)
  <1>1. Normalized(text, eos, ignore).text = t
    BY DEF Normalized, PrefixConstraint
  <1>2. DOMAIN text = 1 .. Len(text) /\ Len(text) \in Nat
    BY LenProperties DEF Text
  <1>3. CASE cut = {}
    BY <1>1, <1>3, PrefixReflexive
  <1>4. CASE cut # {}
    <2>1. cut \in SUBSET Nat
      BY <1>2
    <2>2. Min(cut) \in 1 .. Len(text)
      <3>1. Min(cut) \in cut
        <4> HIDE DEF cut
        <4> QED  BY <1>4, <2>1, MinFacts
      <3> QED  BY <1>2, <3>1
    <2> HIDE DEF cut
    <2>3. n \in Nat /\ n <= Len(text) /\ n \in 0 .. Len(text) /\ ~ n > Len(text)
      BY <1>2, <2>2
    <2> HIDE DEF n
    <2>4. Take(text, n) = Prefix(text, n)
      BY <2>3 DEF Take, Prefix
    <2>5. Prefix(text, n) \in Text /\ Len(Prefix(text, n)) = n
      BY <2>3, PrefixFacts DEF Text
    <2>6. IsPrefix(Prefix(text, n), text)
      BY <2>3, <2>5, PrefixIs
    <2> QED  BY <1>1, <1>4, <2>4, <2>6
  <1> QED  BY <1>3, <1>4

\* review_rejection goes on under a constraint that what the model asked for
\* satisfies.
LEMMA RejectedReviewed ==
    ASSUME NEW w, WorkFits(w), w.at = "review", Readable(w), w.evaluated = <<>>,
           w.remaining <= InferenceLimit,
           NEW x \in Paths, NEW t \in Text, NEW m,
           ~w.inherited => TextTolerated(m, Question(w, x).prompt, t),
           NEW next \in Constraints, next.fixed = w.constraint.fixed,
           IsPrefix(next.text, Fixed(w, x) \o t), Rejected(w, next).at # "failed"
    PROVE  /\ Readable(Rejected(w, next))
           /\ Reviewed(m, Question(w, x).prompt, Rejected(w, next))
  <1> DEFINE same == next = w.constraint
             constraint == IF same THEN [next EXCEPT !.ignore = TRUE] ELSE next
             retries == IF same \/ IsPrefix(w.constraint.text, next.text)
                        THEN RetryCandidates(w, next) ELSE {}
             other == [w EXCEPT !.constraint = constraint, !.index = Min(retries)]
             again == [w EXCEPT !.constraint = constraint, !.at = "draft", !.draft = <<>>,
                                !.index = 0]
             failed == [w EXCEPT !.at = "failed"]
             v == Rejected(w, next)
  <1>1. w \in Works(w.accepted)
    BY DEF WorkFits
  <1>2. constraint.text = next.text /\ constraint.fixed = w.constraint.fixed
    BY DEF Constraints
  <1>3. v = failed \/ v = other \/ v = again
    BY DEF Rejected, Redraft
  <1> HIDE DEF constraint, retries, same
  <1>4. failed.at = "failed"
    BY <1>1 DEF Works
  <1>5. /\ v.input = w.input /\ v.full = w.full /\ v.accepted = w.accepted
        /\ v.constraint = constraint /\ v.evaluated = <<>>
        /\ v.remaining = w.remaining /\ v.inherited = w.inherited
    <2>1. CASE v = other
      <3> DEFINE k == Min(retries)
      <3> HIDE DEF k, v
      <3>1. v = [w EXCEPT !.constraint = constraint, !.index = k]
        BY <2>1 DEF k
      <3> QED  BY <1>1, <3>1 DEF Works
    <2>2. CASE v = again
      <3> HIDE DEF v
      <3> QED  BY <1>1, <2>2 DEF Works
    <2> QED  BY <1>3, <1>4, <2>1, <2>2
  <1>6. WorkFits(v)
    BY RejectedFits
  <1> HIDE DEF v
  <1>7. Readable(v)
    BY <1>2, <1>5, ReadableSame
  <1>8. Typed(w) /\ Typed(v)
    BY <1>6, TypedIs
  <1>9. ASSUME ~w.inherited, NEW y \in Paths, Question(v, y).prompt = Question(w, x).prompt
        PROVE  TextTolerated(m, Question(w, x).prompt, Question(v, y).constraint.text)
    <2>1. IsPrefix(v.constraint.text, Fixed(w, x) \o t)
      BY <1>2, <1>5
    <2> QED  BY <1>5, <1>7, <1>8, <1>9, <2>1, RequiredTolerated
  <1>10. Underway(m, Question(w, x).prompt, v)
    BY <1>5, <1>9 DEF Underway, Required
  <1>11. Reviewed(m, Question(w, x).prompt, v)
    BY <1>5, <1>10 DEF Reviewed, Passed
  <1> QED  BY <1>7, <1>11 DEF v

\* What a verdict leads to, when a verdict says what VerdictTolerates says.
LEMMA JudgedReviewed ==
    ASSUME NEW c, NEW w, WorkFits(w), w.at = "review", Readable(w), w.evaluated = <<>>,
           w.remaining <= InferenceLimit, NEW m,
           NEW v, VerdictFits(v),
           ~w.inherited =>
                LET q == Question(w, Candidate(w))
                IN  /\ v.kind = "pass" => TextTolerated(m, q.prompt, q.text)
                    /\ v.kind # "pass" => TextTolerated(m, q.prompt, v.text),
           Judged(c, w, PrependFixed(Fixed(w, Candidate(w)), v))
    PROVE  \E to : /\ work' = [work EXCEPT ![c] = to]
                   /\ Readable(to) /\ Reviewed(m, Question(w, Candidate(w)).prompt, to)
  <1> DEFINE x == Candidate(w)
             q == Question(w, x)
             verdict == PrependFixed(Fixed(w, x), v)
             next == [Normalized(verdict.text, verdict.kind = "whole", w.constraint.ignore)
                        EXCEPT !.fixed = w.constraint.fixed]
             rejected == Rejected(w, next)
             offered == IF w.rich THEN Rich(w, verdict.alternatives) ELSE w.inserted
             passed == [w EXCEPT !.evaluated = <<x>>, !.inserted = offered]
             a == w.accepted
  <1>1. /\ a \in Optional(Predictions) /\ w \in Works(a) /\ w.session \in Sessions
        /\ w.index \in 1 .. Len(w.draft)
    BY DEF WorkFits
  <1>2. x \in Paths /\ <<x>> \in Optional(Paths)
    BY CandidateFits
  <1>3. w.constraint \in Constraints /\ w.input \in Text /\ w.inserted \in Seq(Fits(a))
    BY <1>1 DEF Works
  <1>4. Fixed(w, x) \in Text
    BY <1>3, FixedFacts
  <1>5. VerdictFits(verdict) /\ verdict.kind = v.kind
    BY <1>4, PrependFits
  <1>6. v.kind # "pass" => verdict.text = Fixed(w, x) \o v.text
    <2>1. v = [kind |-> v.kind, text |-> v.text, alternatives |-> v.alternatives]
      BY DEF VerdictFits
    <2> QED  BY <2>1 DEF PrependFixed
  <1>7. verdict.text \in Text /\ v.text \in Text
        /\ verdict.alternatives \in Seq(Alternatives(verdict.alternatives))
    BY <1>5 DEF VerdictFits
  <1>8. \/ v.kind = "pass" /\ Converted(c, passed, Update(w, w.constraint, <<x>>, <<x>>))
        \/ Converted(c, w, Update(w, NoConstraint, <<>>, <<>>))
        \/ /\ v.kind # "pass" /\ rejected.at # "failed"
           /\ work' = [work EXCEPT ![c] = rejected]
    BY <1>5 DEF Judged
  <1>9. ASSUME ~w.inherited
        PROVE  /\ v.kind = "pass" => TextTolerated(m, q.prompt, q.text)
               /\ v.kind # "pass" => TextTolerated(m, q.prompt, v.text)
    BY <1>9
  <1>10. offered \in Seq(Fits(a))
    BY <1>3, <1>7, RichFits
  <1>11. next \in Constraints /\ next.fixed = w.constraint.fixed
         /\ (v.kind # "pass" => IsPrefix(next.text, Fixed(w, x) \o v.text))
    <2> DEFINE eos == verdict.kind = "whole"
               n == Normalized(verdict.text, eos, w.constraint.ignore)
    <2>1. eos \in BOOLEAN
      OBVIOUS
    <2> HIDE DEF eos, verdict
    <2>2. [n EXCEPT !.fixed = w.constraint.fixed] \in Constraints
      BY <1>7, <2>1, NextConstraint
    <2>3. w.constraint.ignore \in BOOLEAN
      BY <1>3 DEF Constraints
    <2>4. n \in Constraints
      BY <1>7, <2>1, <2>3, NormalizedFacts
    <2>5. IsPrefix(n.text, verdict.text)
      BY <1>7, NormalizedHead
    <2> HIDE DEF n
    <2>6. /\ [n EXCEPT !.fixed = w.constraint.fixed].fixed = w.constraint.fixed
          /\ [n EXCEPT !.fixed = w.constraint.fixed].text = n.text
      BY <2>4 DEF Constraints
    <2>7. next = [n EXCEPT !.fixed = w.constraint.fixed]
      BY DEF n, eos
    <2> HIDE DEF next
    <2> QED  BY <1>6, <2>2, <2>5, <2>6, <2>7
  <1> HIDE DEF verdict, next, offered, x, q
  <1>12. CASE v.kind = "pass" /\ Converted(c, passed, Update(w, w.constraint, <<x>>, <<x>>))
    <2> HIDE DEF a
    <2>1. passed \in Works(a)
      BY <1>1, <1>2, <1>10 DEF Works
    <2>2. /\ passed.accepted = a /\ passed.at = "review" /\ passed.session = w.session
          /\ passed.index = w.index /\ passed.draft = w.draft
          /\ passed.input = w.input /\ passed.full = w.full /\ passed.left = w.left
          /\ passed.rich = w.rich /\ passed.constraint = w.constraint
          /\ passed.inherited = w.inherited /\ passed.evaluated = <<x>>
      BY <1>1 DEF Works, a
    <2> HIDE DEF passed
    <2>3. WorkFits(passed)
      BY <1>1, <2>1, <2>2 DEF WorkFits
    <2>4. Readable(passed)
      BY <2>2, ReadableSame DEF a
    <2>5. Passed(m, passed)
      <3>1. Question(passed, x) = q /\ passed.evaluated[1] = x
        BY <2>2, QuestionIs DEF SameQuestions, q
      <3>2. ~w.inherited => TextTolerated(m, q.prompt, q.text)
        BY <1>9, <1>12
      <3> QED  BY <2>2, <3>1, <3>2 DEF Passed
    <2> QED  BY <1>12, <2>3, <2>4, <2>5, ConvertedReviewed
  <1>13. CASE Converted(c, w, Update(w, NoConstraint, <<>>, <<>>))
    <2>1. Passed(m, w)
      BY DEF Passed
    <2> QED  BY <1>13, <2>1, ConvertedReviewed
  <1>14. CASE v.kind # "pass" /\ rejected.at # "failed" /\ work' = [work EXCEPT ![c] = rejected]
    <2>1. ~w.inherited => TextTolerated(m, q.prompt, v.text)
      BY <1>9, <1>14
    <2>2. Readable(rejected) /\ Reviewed(m, Question(w, x).prompt, rejected)
      BY <1>2, <1>7, <1>11, <1>14, <2>1, RejectedReviewed DEF q
    <2> HIDE DEF rejected
    <2>3. Readable(rejected) /\ Reviewed(m, Question(w, Candidate(w)).prompt, rejected)
      BY <2>2 DEF x
    <2> QED  BY <1>14, <2>3
  <1> QED  BY <1>8, <1>12, <1>13, <1>14 DEF x

\* What an evaluation does: the verdict it goes by is the model's own, from
\* the first token that was not skipped, unless the call failed.
LEMMA EvaluateGives ==
    ASSUME Inv, NEW c \in Connections, Evaluate(c)
    PROVE  LET now == work[c]
               x == Candidate(now)
               q == Question(now, x)
               reuses == ReusesAddressedPrefix(evaluator[c].previous, q)
               addressed == Addressed(q, reuses)
               inherits == IF now.remaining = InferenceLimit
                           THEN addressed > 0 ELSE Inserted(now).inherited
               w == [Inserted(now) EXCEPT !.inherited = inherits]
               v == JudgeBy(model, q, addressed, FreshRows(q, addressed))
           IN  /\ now.at = "review" /\ now.remaining > 0 /\ model' = model
               /\ \E s : evaluator' = [evaluator EXCEPT
                                            ![c] = [verdicts |-> s, previous |-> q.prompt]]
               /\ \/ Judged(c, Spent(w), PrependFixed(Fixed(now, x), v))
                  \/ \E error : Aborted(c, w, error)
  <1> DEFINE now == work[c]
             x == Candidate(now)
             fixed == Fixed(now, x)
             verdicts == evaluator[c].verdicts
             cached(q, reuses) == IF Personalized THEN {}
                                  ELSE Cached(verdicts, CacheKey(q, reuses))
             Skipped(q, reuses) == Addressed(q, reuses)
             Inherits(q, reuses) == IF now.remaining = InferenceLimit
                                    THEN Skipped(q, reuses) > 0 ELSE Inserted(now).inherited
             W(q, reuses) == [Inserted(now) EXCEPT !.inherited = Inherits(q, reuses)]
             Seen(q, s) == [evaluator EXCEPT ![c] = [verdicts |-> s, previous |-> q.prompt]]
             Keep(q, reuses, verdict) ==
                IF Personalized THEN verdicts ELSE Stored(verdicts, CacheKey(q, reuses), verdict)
             Goes(q, reuses, verdict) ==
                Judged(c, Spent(W(q, reuses)), PrependFixed(fixed, verdict))
             Found(q, reuses) ==
                /\ cached(q, reuses) # {}
                /\ \E i \in cached(q, reuses) :
                    /\ evaluator' = Seen(q, Touched(verdicts, i))
                    /\ Goes(q, reuses, verdicts[i].verdict)
                /\ UNCHANGED llamaVars
             Decided(q, reuses, verdict) ==
                /\ evaluator' = Seen(q, Keep(q, reuses, verdict))
                /\ Goes(q, reuses, verdict)
             Known(q, reuses) ==
                /\ cached(q, reuses) = {}
                /\ Skipped(q, reuses) = Len(q.text)
                /\ \E verdict \in {JudgeBy(model, q, Skipped(q, reuses), <<>>)} :
                        Decided(q, reuses, verdict)
                /\ UNCHANGED llamaVars
             Answer(q, reuses, broken) ==
                LogitsOf(q.prompt \o Front(q.text), Len(q.prompt) - 1 + Skipped(q, reuses),
                         Evaluation, broken)
             Called(q, reuses) ==
                /\ cached(q, reuses) = {}
                /\ Skipped(q, reuses) < Len(q.text)
                /\ \E broken \in Faults : \E answer \in {Answer(q, reuses, broken)} :
                    /\ cells' = answer.cells
                    /\ held' = answer.held
                    /\ IF answer.error = "none"
                       THEN \E verdict \in {JudgeBy(model, q, Skipped(q, reuses), answer.rows)} :
                                Decided(q, reuses, verdict)
                       ELSE /\ evaluator' = Seen(q, verdicts)
                            /\ Aborted(c, W(q, reuses), answer.error)
  <1>1. /\ WorkFits(now) /\ now.at = "review" /\ now.remaining > 0
        /\ now.input \in Text /\ now.full \in Text /\ now.left \in Text
        /\ now.constraint \in Constraints /\ model' = model
    BY WorkIs DEF Evaluate
  <1>a. \E question \in {Question(now, x)} :
        \E reuses \in {ReusesAddressedPrefix(evaluator[c].previous, question)} :
            \/ Found(question, reuses)
            \/ Known(question, reuses)
            \/ Called(question, reuses)
    BY Zenon DEF Evaluate, Judge
  <1> DEFINE q == Question(now, x)
             reuses == ReusesAddressedPrefix(evaluator[c].previous, q)
             v == JudgeBy(model, q, Skipped(q, reuses), FreshRows(q, Skipped(q, reuses)))
  <1>2. Found(q, reuses) \/ Known(q, reuses) \/ Called(q, reuses)
    <2> HIDE DEF Found, Known, Called, x, now
    <2> QED  BY <1>a
  <1>3. x \in Paths
    BY <1>1, CandidateFits
  <1>4. QuestionFits(q)
    BY <1>1, <1>3, QuestionFacts
  <1>5. Skipped(q, reuses) \in 0 .. Len(q.text)
    BY <1>4, AddressedFacts
  <1>6. LlamaInv /\ AllFresh(model, verdicts)
    BY DEF Inv, EvaluatorsFit
  <1> DEFINE Sees == \E s : evaluator' = Seen(q, s)
  <1> HIDE DEF now, x, fixed, verdicts, q, reuses, W
  <1>7. ASSUME Found(q, reuses) PROVE Sees /\ Goes(q, reuses, v)
    <2>1. PICK i \in cached(q, reuses) :
            /\ evaluator' = Seen(q, Touched(verdicts, i))
            /\ Goes(q, reuses, verdicts[i].verdict)
      BY <1>7
    <2>2. i \in DOMAIN verdicts /\ verdicts[i].key = CacheKey(q, reuses)
      BY <2>1 DEF Cached
    <2>3. FreshVerdict(model, verdicts[i])
      BY <1>6, <2>2, TouchedFits
    <2>4. verdicts[i].key.question = q /\ verdicts[i].key.reuses = reuses
      BY <2>2 DEF CacheKey
    <2>5. verdicts[i].verdict = v
      BY <2>3, <2>4 DEF FreshVerdict
    <2> QED  BY <2>1, <2>5
  <1>8. ASSUME Known(q, reuses) PROVE Sees /\ Goes(q, reuses, v)
    <2>1. FreshRows(q, Skipped(q, reuses)) = <<>>
      BY <1>4, <1>8, NoRows
    <2> HIDE DEF Decided
    <2>2. Decided(q, reuses, v)
      BY <1>8, <2>1
    <2> QED  BY <2>2 DEF Decided
  <1>9. ASSUME Called(q, reuses)
        PROVE  Sees /\ (Goes(q, reuses, v) \/ \E error : Aborted(c, W(q, reuses), error))
    <2> HIDE DEF Decided, Answer
    <2>1. PICK broken \in Faults : \E answer \in {Answer(q, reuses, broken)} :
                    IF answer.error = "none"
                    THEN \E verdict \in {JudgeBy(model, q, Skipped(q, reuses), answer.rows)} :
                                Decided(q, reuses, verdict)
                    ELSE /\ evaluator' = Seen(q, verdicts)
                         /\ Aborted(c, W(q, reuses), answer.error)
      BY <1>9
    <2> DEFINE answer == Answer(q, reuses, broken)
    <2>2. IF answer.error = "none"
          THEN Decided(q, reuses, JudgeBy(model, q, Skipped(q, reuses), answer.rows))
          ELSE evaluator' = Seen(q, verdicts) /\ Aborted(c, W(q, reuses), answer.error)
      BY <2>1
    <2>3. answer = LogitsOf(q.prompt \o Front(q.text), Len(q.prompt) - 1 + Skipped(q, reuses),
                            Evaluation, broken)
          /\ Skipped(q, reuses) < Len(q.text)
      BY <1>9 DEF Answer
    <2> HIDE DEF answer
    <2>4. CASE answer.error = "none"
      <3>1. answer.rows = FreshRows(q, Skipped(q, reuses))
        BY <1>4, <1>5, <1>6, <2>3, <2>4, FreshAnswer
      <3>2. Decided(q, reuses, v)
        BY <2>2, <2>4, <3>1
      <3> QED  BY <3>2 DEF Decided
    <2>5. CASE answer.error # "none"
      BY <2>2, <2>5
    <2> QED  BY <2>4, <2>5
  <1> HIDE DEF Found, Known, Called, v, Sees, Goes
  <1>10. Sees /\ (Goes(q, reuses, v) \/ \E error : Aborted(c, W(q, reuses), error))
    BY <1>2, <1>7, <1>8, <1>9
  <1> QED  BY <1>1, <1>10 DEF v, q, reuses, W, Sees, Goes, fixed, x, now

Tolerance ==
    \A c \in Connections :
        Readable(work[c]) /\ Reviewed(model, evaluator[c].previous, work[c])

\* A step of one connection: its work is replaced, and its evaluator if the
\* model was asked.
LEMMA ToleranceKept ==
    ASSUME Inv, Tolerance, NEW c \in Connections, model' = model, NEW to, Readable(to),
           work' = [work EXCEPT ![c] = to], NEW previous, Reviewed(model, previous, to),
           \/ evaluator' = evaluator /\ previous = evaluator[c].previous
           \/ \E s : evaluator' = [evaluator EXCEPT ![c] = [verdicts |-> s, previous |-> previous]]
    PROVE  Tolerance'
  <1>1. ASSUME NEW d \in Connections
        PROVE  Readable(work'[d]) /\ Reviewed(model, evaluator'[d].previous, work'[d])
    <2>1. /\ work = [e \in Connections |-> work[e]]
          /\ evaluator = [e \in Connections |-> evaluator[e]]
      BY DEF Inv, WorksFit, EvaluatorsFit
    <2>2. work'[d] = IF d = c THEN to ELSE work[d]
      BY <2>1
    <2>3. evaluator'[d].previous = IF d = c THEN previous ELSE evaluator[d].previous
      BY <2>1
    <2>4. Readable(work[d]) /\ Reviewed(model, evaluator[d].previous, work[d])
      BY DEF Tolerance
    <2> QED  BY <2>2, <2>3, <2>4
  <1> QED  BY <1>1 DEF Tolerance

LEMMA ToleranceStarts ==
    ASSUME Init
    PROVE  Tolerance
  <1>1. Readable(NoWork)
    <2>1. ToSet(<<>>) = {} /\ Len(<<>>) <= Len(<<>>)
      BY DEF ToSet
    <2> QED  BY <2>1 DEF NoWork, Readable, NoConstraint, PrefixConstraint, FixedBy
  <1>2. \A m, previous : Reviewed(m, previous, NoWork)
    BY DEF Reviewed, Passed, NoWork
  <1> QED  BY <1>1, <1>2 DEF Init, Tolerance

LEMMA RequestKeepsTolerance ==
    ASSUME Inv, Tolerance, NEW c \in Connections, Request(c)
    PROVE  Tolerance'
  <1> DEFINE Start(s, left) == [NoWork EXCEPT !.session = s, !.left = left]
             Asked(s, target, left, rich, accepted) ==
                [work EXCEPT ![c] = Conversion(Start(s, left), target.input, target.full,
                                               accepted, rich, cache[s], FALSE)]
  <1>a. PICK s \in SessionsOf[c], target \in Targets, left \in LeftContexts, rich \in RichModes :
          \E accepted \in AcceptedFor(target.input) :
            /\ work' = Asked(s, target, left, rich, accepted)
            /\ UNCHANGED <<model, evaluator>>
    BY DEF Request
  <1>1. PICK accepted \in AcceptedFor(target.input) :
            /\ work' = Asked(s, target, left, rich, accepted)
            /\ UNCHANGED <<model, evaluator>>
    BY <1>a
  <1>2. s \in Sessions
    BY DEF Sessions
  <1>3. target.input \in Text /\ target.full \in Text /\ left \in Text
    BY LanguageAssumption DEF Text
  <1>4. IsPrefix(target.input, target.full) /\ InTag \notin ToSet(target.full)
    BY ReadingsAssumption DEF InTag
  <1>5. Len(target.input) <= Len(target.full) /\ target.input = Prefix(target.full, Len(target.input))
    BY <1>3, <1>4, PrefixIs
  <1>6. InTag \notin ToSet(target.input)
    <2>1. Len(target.input) \in Nat /\ Len(target.full) \in Nat
      BY <1>3, LenProperties DEF Text
    <2>2. Take(target.full, Len(target.input)) = target.input
      <3>1. ~ Len(target.input) > Len(target.full)
        BY <1>5, <2>1
      <3> QED  BY <1>5, <3>1 DEF Take, Prefix
    <2>3. InTag \notin ToSet(Take(target.full, Len(target.input)))
      BY <1>3, <1>4, <2>1, HeadsWithout
    <2> QED  BY <2>2, <2>3
  <1>7. accepted \in Optional(Predictions) /\ \A p \in ToSet(accepted) : p.ruby # <<>>
    <2>1. AcceptedPredictions \in SUBSET Predictions
      BY LanguageAssumption DEF Predictions, Text
    <2>2. accepted = <<>> \/ \E p \in AcceptedPredictions : accepted = <<p>>
      BY DEF AcceptedFor
    <2>3. \A p \in ToSet(accepted) : p \in AcceptedPredictions
      BY <2>2 DEF ToSet
    <2> QED  BY <2>1, <2>2, <2>3, ReadingsAssumption DEF Optional
  <1>8. cache[s] \in CacheEntries
    BY <1>2, WorkIs
  <1> DEFINE start == Start(s, left)
             new == Conversion(start, target.input, target.full, accepted, rich, cache[s], FALSE)
  <1>9. WorkFits(start)
    <2>1. NoWork.accepted = <<>> /\ NoWork.at = "idle"
      BY DEF NoWork
    <2>2. NoWork \in Works(<<>>) /\ <<>> \in Optional(Predictions)
      BY <2>1, NoWorkFits DEF WorkFits
    <2>3. start \in Works(<<>>)
      BY <1>2, <1>3, <2>2 DEF Works
    <2>4. start.accepted = <<>> /\ start.at = "idle"
      BY <2>1, <2>2 DEF Works
    <2> HIDE DEF start
    <2> QED  BY <2>2, <2>3, <2>4 DEF WorkFits
  <1> HIDE DEF start
  <1>10. Readable(new) /\ Reviewed(model, evaluator[c].previous, new)
    BY <1>3, <1>4, <1>5, <1>6, <1>7, <1>8, <1>9, ConversionReviewed
  <1>11. work' = [work EXCEPT ![c] = new]
    BY <1>1 DEF start
  <1> HIDE DEF new
  <1> QED  BY <1>1, <1>10, <1>11, ToleranceKept

\* What is under way has been reviewed, or passed.
LEMMA ReviewedIs ==
    ASSUME Inv, Tolerance, NEW c \in Connections
    PROVE  /\ WorkFits(work[c]) /\ Readable(work[c]) /\ Passed(model, work[c])
           /\ work[c].at \in {"draft", "review"} =>
                    Underway(model, evaluator[c].previous, work[c])
  BY WorkIs DEF Tolerance, Reviewed

LEMMA DraftKeepsTolerance ==
    ASSUME Inv, Tolerance, NEW c \in Connections, Draft(c)
    PROVE  Tolerance'
  <1> DEFINE w == work[c]
             previous == evaluator[c].previous
             draft == Drafted(w, DraftCount(w), w.constraint)
             longer == w.constructed \o draft
             best == IndexOfBest(draft)
             new == [w EXCEPT !.at = "review", !.draft = draft, !.index = best,
                              !.constructed = longer]
  <1>1. /\ WorkFits(w) /\ Readable(w) /\ Passed(model, w) /\ w.at = "draft"
        /\ Underway(model, previous, w)
    BY ReviewedIs DEF Draft
  <1>2. /\ \/ Converted(c, w, Update(w, NoConstraint, <<>>, <<>>))
           \/ work' = [work EXCEPT ![c] = new]
        /\ UNCHANGED <<model, evaluator>>
    BY DEF Draft
  <1> HIDE DEF w, previous, draft, longer, best
  <1>3. CASE Converted(c, w, Update(w, NoConstraint, <<>>, <<>>))
    <2>1. PICK to : /\ work' = [work EXCEPT ![c] = to]
                    /\ Readable(to) /\ Reviewed(model, previous, to)
      BY <1>1, <1>3, ConvertedReviewed
    <2> QED  BY <1>2, <2>1, ToleranceKept DEF previous
  <1>4. CASE work' = [work EXCEPT ![c] = new]
    <2>1. w \in Works(w.accepted)
      BY <1>1 DEF WorkFits
    <2>2. /\ new.at = "review" /\ new.input = w.input /\ new.full = w.full /\ new.left = w.left
          /\ new.rich = w.rich /\ new.accepted = w.accepted /\ new.constraint = w.constraint
          /\ new.evaluated = w.evaluated /\ new.inherited = w.inherited
          /\ new.remaining = w.remaining
      BY <2>1 DEF Works
    <2> HIDE DEF new
    <2>3. Readable(new)
      BY <1>1, <2>2, ReadableSame
    <2>4. Passed(model, new)
      BY <1>1, <2>2, PassedSame DEF SameQuestions
    <2>5. \A x : Question(new, x) = Question(w, x)
      BY <2>2, QuestionIs DEF SameQuestions
    <2>6. Underway(model, previous, new)
      BY <1>1, <2>2, <2>5 DEF Underway, Required
    <2>7. Reviewed(model, previous, new)
      BY <2>4, <2>6 DEF Reviewed
    <2> QED  BY <1>2, <1>4, <2>3, <2>7, ToleranceKept DEF previous
  <1> QED  BY <1>2, <1>3, <1>4

\* The words asked about head the text that is evaluated.
LEMMA OriginalHeads ==
    ASSUME NEW w, Typed(w), NEW x \in Paths
    PROVE  \A i \in 1 .. Len(Question(w, x).original) :
                Question(w, x).text[i] = Question(w, x).original[i]
  <1> DEFINE q == Question(w, x)
             input == SubSeq(w.full, FixedLengths(w, x).ruby + 1, Len(w.full))
             cursor == Len(w.input) - FixedLengths(w, x).ruby
             tail == IF Aligned(input, cursor) THEN <<Separator>> ELSE <<>>
  <1>1. q.text = q.original \o tail
    BY DEF Question
  <1>2. q.original \in Text
    BY QuestionFacts DEF QuestionFits, Typed
  <1>3. tail \in Text
    BY Symbols
  <1> HIDE DEF q, tail
  <1> QED  BY <1>1, <1>2, <1>3, JoinedTexts DEF q

\* The candidate under review is put in front of what is offered.
LEMMA InsertedSame ==
    ASSUME NEW w, WorkFits(w), w.at = "review", NEW inherited
    PROVE  LET i == [Inserted(w) EXCEPT !.inherited = inherited]
               p == Spent(i)
           IN  /\ SameQuestions(w, i) /\ SameQuestions(w, p) /\ SameQuestions(w, Inserted(w))
               /\ i.accepted = w.accepted /\ p.accepted = w.accepted
               /\ Inserted(w).accepted = w.accepted
               /\ i.evaluated = w.evaluated /\ p.evaluated = w.evaluated
               /\ Inserted(w).evaluated = w.evaluated
               /\ p.remaining = w.remaining - 1 /\ p.inherited = inherited
               /\ Inserted(w).inherited = w.inherited
               /\ Candidate(p) = Candidate(w)
  <1> DEFINE j == Inserted(w)
             i == [j EXCEPT !.inherited = inherited]
             p == Spent(i)
             s == <<Candidate(w)>> \o w.inserted
  <1>1. w \in Works(w.accepted)
    BY DEF WorkFits
  <1>2. j = [w EXCEPT !.inserted = s]
    BY DEF Inserted
  <1> HIDE DEF j, s
  <1>3. /\ SameQuestions(w, j) /\ j.accepted = w.accepted /\ j.evaluated = w.evaluated
        /\ j.inherited = w.inherited /\ j.remaining = w.remaining /\ j.draft = w.draft
        /\ j.index = w.index
    BY <1>1, <1>2 DEF Works, SameQuestions
  <1>4. i = [w EXCEPT !.inserted = s, !.inherited = inherited]
    BY <1>1, <1>2 DEF Works
  <1> HIDE DEF i
  <1>5. /\ SameQuestions(w, i) /\ i.accepted = w.accepted /\ i.evaluated = w.evaluated
        /\ i.inherited = inherited /\ i.remaining = w.remaining
    BY <1>1, <1>4 DEF Works, SameQuestions
  <1>6. p = [w EXCEPT !.inserted = s, !.inherited = inherited, !.remaining = w.remaining - 1]
    <2>1. p = [i EXCEPT !.remaining = i.remaining - 1]
      BY DEF Spent
    <2> HIDE DEF p
    <2> QED  BY <1>1, <1>4, <1>5, <2>1 DEF Works
  <1> HIDE DEF p
  <1>7. /\ SameQuestions(w, p) /\ p.accepted = w.accepted /\ p.evaluated = w.evaluated
        /\ p.inherited = inherited /\ p.remaining = w.remaining - 1 /\ p.draft = w.draft
        /\ p.index = w.index
    BY <1>1, <1>6 DEF Works, SameQuestions
  <1>8. Candidate(p) = Candidate(w)
    BY <1>7 DEF Candidate
  <1> QED  BY <1>3, <1>5, <1>7, <1>8 DEF p, i, j

\* A review that ends without a verdict.
LEMMA UnreviewedKeepsTolerance ==
    ASSUME Inv, Tolerance, NEW c \in Connections, work[c].at = "review",
           NEW entry, Converted(c, Inserted(work[c]), entry), UNCHANGED <<model, evaluator>>
    PROVE  Tolerance'
  <1> DEFINE w == work[c]
             i == Inserted(w)
             previous == evaluator[c].previous
  <1>1. WorkFits(w) /\ Readable(w) /\ Passed(model, w)
    BY ReviewedIs
  <1>2. WorkFits(i)
    BY <1>1, CandidateFits
  <1>3. /\ SameQuestions(w, i) /\ i.accepted = w.accepted /\ i.evaluated = w.evaluated
        /\ i.inherited = w.inherited
    BY <1>1, InsertedSame
  <1> HIDE DEF w, i, previous
  <1>4. Readable(i)
    BY <1>1, <1>3, ReadableSame DEF SameQuestions
  <1>5. Passed(model, i)
    BY <1>1, <1>3, PassedSame
  <1>6. PICK to : /\ work' = [work EXCEPT ![c] = to]
                  /\ Readable(to) /\ Reviewed(model, previous, to)
    BY <1>2, <1>4, <1>5, ConvertedReviewed DEF i, w
  <1> QED  BY <1>6, ToleranceKept DEF previous

LEMMA GenerateKeepsTolerance ==
    ASSUME Inv, Tolerance, NEW c \in Connections, Generate(c)
    PROVE  Tolerance'
  <1> DEFINE w == work[c]
             previous == evaluator[c].previous
             longer(k) == [w EXCEPT !.predicted = Append(@, k)]
  <1>1. /\ WorkFits(w) /\ Readable(w) /\ Passed(model, w) /\ w.at = "generate"
        /\ w.session \in Sessions
    BY ReviewedIs, WorkIs DEF Generate
  <1>2. /\ \/ \E error : Aborted(c, w, error)
           \/ \E k \in Kana : work' = [work EXCEPT ![c] =
                                    IF Len(longer(k).predicted) = PredictionLength
                                    THEN Predicted(longer(k)) ELSE longer(k)]
           \/ work' = [work EXCEPT ![c] = Predicted(w)]
        /\ UNCHANGED <<model, evaluator>>
    BY DEF Generate
  <1> HIDE DEF w, previous, longer
  \* What is generated is kana.
  <1>3. ASSUME NEW v, WorkFits(v), Readable(v), Passed(model, v)
        PROVE  Readable(Predicted(v)) /\ Reviewed(model, previous, Predicted(v))
    <2>1. CASE v.predicted = <<>>
      <3>1. Readable(Settled(v, "zenz")) /\ Reviewed(model, previous, Settled(v, "zenz"))
        BY <1>3, SettledReviewed
      <3> QED  BY <2>1, <3>1 DEF Predicted
    <2>2. CASE v.predicted # <<>>
      <3> DEFINE p == v.predicted
                 s == Base(v.input)
      <3>1. p \in Seq(Kana) /\ v.input \in Text /\ InTag \notin ToSet(v.input)
        BY <1>3, TypedIs DEF Typed, Readable
      <3>2. \A i \in 1 .. Len(p) : p[i] \in Kana
        <4> HIDE DEF p
        <4> QED  BY <3>1, ElementOfSeq
      <3>3. p \in Text
        <4>1. \A k \in ToSet(p) : k \in Tokens
          BY <3>1, ElementFacts, LanguageAssumption
        <4> HIDE DEF p
        <4> QED  BY <3>1, <4>1, Narrowed DEF Text
      <3>4. s \in Text /\ InTag \notin ToSet(s)
        <4>1. s \in Text
          BY <3>1, BaseText
        <4>2. CASE ~Pending(v.input)
          BY <3>1, <4>1, <4>2 DEF Base
        <4>3. CASE Pending(v.input)
          <5> DEFINE n == Len(v.input) - 1
          <5>1. v.input \in Seq(Tokens) /\ Len(v.input) \in Nat /\ v.input # <<>>
            BY <3>1, <4>3, LenProperties DEF Text, Pending
          <5>2. Len(v.input) # 0
            BY <5>1, EmptySeq
          <5>3. n \in Nat /\ ~ n > Len(v.input)
            BY <5>1, <5>2
          <5>4. s = SubSeq(v.input, 1, n)
            BY <4>3 DEF Base, Front
          <5> HIDE DEF n, s
          <5>5. s = Take(v.input, n)
            BY <5>3, <5>4 DEF Take
          <5> QED  BY <3>1, <4>1, <5>3, <5>5, HeadsWithout
        <4> QED  BY <4>2, <4>3
      <3> HIDE DEF p, s
      <3>5. /\ Readable(PredictionConversion(v, s \o p))
            /\ Reviewed(model, previous, PredictionConversion(v, s \o p))
        BY <1>3, <3>2, <3>3, <3>4, PredictionReviewed
      <3>6. Predicted(v) = PredictionConversion(v, s \o p)
        BY <2>2 DEF Predicted, s, p
      <3> QED  BY <3>5, <3>6
    <2> QED  BY <2>1, <2>2
  <1>4. ASSUME NEW k \in Kana
        PROVE  /\ WorkFits(longer(k)) /\ Readable(longer(k)) /\ Passed(model, longer(k))
               /\ Reviewed(model, previous, longer(k))
    <2> DEFINE s == Append(w.predicted, k)
               v == longer(k)
    <2>1. WorkFits(v)
      BY <1>1, PredictedFits DEF longer
    <2>2. w \in Works(w.accepted) /\ v = [w EXCEPT !.predicted = s]
      BY <1>1 DEF WorkFits, longer
    <2> HIDE DEF s, v
    <2>3. /\ SameQuestions(w, v) /\ v.accepted = w.accepted /\ v.evaluated = w.evaluated
          /\ v.inherited = w.inherited /\ v.at = "generate"
      BY <1>1, <2>2 DEF Works, SameQuestions
    <2>4. Readable(v) /\ Passed(model, v)
      BY <1>1, <2>3, ReadableSame, PassedSame DEF SameQuestions
    <2>5. Reviewed(model, previous, v)
      BY <2>3, <2>4 DEF Reviewed
    <2> QED  BY <2>1, <2>4, <2>5 DEF v
  <1>5. CASE \E error : Aborted(c, w, error)
    <2>1. PICK to : /\ work' = [work EXCEPT ![c] = to]
                    /\ Readable(to) /\ Reviewed(model, previous, to)
      BY <1>1, <1>5, AbortedReviewed
    <2> QED  BY <1>2, <2>1, ToleranceKept DEF previous
  <1>6. CASE \E k \in Kana : work' = [work EXCEPT ![c] =
                                    IF Len(longer(k).predicted) = PredictionLength
                                    THEN Predicted(longer(k)) ELSE longer(k)]
    <2>1. PICK k \in Kana : work' = [work EXCEPT ![c] =
                                    IF Len(longer(k).predicted) = PredictionLength
                                    THEN Predicted(longer(k)) ELSE longer(k)]
      BY <1>6
    <2> DEFINE new == IF Len(longer(k).predicted) = PredictionLength
                      THEN Predicted(longer(k)) ELSE longer(k)
    <2>2. Readable(new) /\ Reviewed(model, previous, new)
      BY <1>3, <1>4
    <2>3. work' = [work EXCEPT ![c] = new]
      BY <2>1
    <2> HIDE DEF new
    <2> QED  BY <1>2, <2>2, <2>3, ToleranceKept DEF previous
  <1>7. CASE work' = [work EXCEPT ![c] = Predicted(w)]
    <2>1. Readable(Predicted(w)) /\ Reviewed(model, previous, Predicted(w))
      BY <1>1, <1>3
    <2> QED  BY <1>2, <1>7, <2>1, ToleranceKept DEF previous
  <1> QED  BY <1>2, <1>5, <1>6, <1>7

\* An evaluation that skips a prefix skips one that is tolerated: the last
\* evaluation had the same prompt, after which all that the constraint
\* requires is.
LEMMA EvaluateKeepsTolerance ==
    ASSUME Inv, Tolerance, NEW c \in Connections, Evaluate(c)
    PROVE  Tolerance'
  <1> DEFINE now == work[c]
             previous == evaluator[c].previous
             x == Candidate(now)
             q == Question(now, x)
             reuses == ReusesAddressedPrefix(previous, q)
             addressed == Addressed(q, reuses)
             inherits == IF now.remaining = InferenceLimit
                         THEN addressed > 0 ELSE Inserted(now).inherited
             w == [Inserted(now) EXCEPT !.inherited = inherits]
             spent == Spent(w)
             v == JudgeBy(model, q, addressed, FreshRows(q, addressed))
  <1>1. /\ now.at = "review" /\ now.remaining > 0 /\ model' = model
        /\ \E s : evaluator' = [evaluator EXCEPT ![c] = [verdicts |-> s, previous |-> q.prompt]]
        /\ \/ Judged(c, spent, PrependFixed(Fixed(now, x), v))
           \/ \E error : Aborted(c, w, error)
    BY EvaluateGives
  <1>2. /\ WorkFits(now) /\ Readable(now) /\ Underway(model, previous, now)
        /\ Typed(now) /\ now.remaining \in Int
    BY <1>1, ReviewedIs, TypedIs
  <1>3. x \in Paths
    BY <1>1, <1>2, CandidateFits
  <1>4. QuestionFits(q)
    BY <1>2, <1>3, QuestionFacts DEF Typed
  <1>5. addressed \in 0 .. Len(q.text)
    BY <1>4, AddressedFacts
  <1>6. inherits \in BOOLEAN
    <2>1. Inserted(now).inherited \in BOOLEAN
      <3> HIDE DEF now
      <3>1. /\ Inserted(now).inherited = now.inherited
            /\ Candidate(Spent([Inserted(now) EXCEPT !.inherited = TRUE])) = Candidate(now)
        BY <1>1, <1>2, InsertedSame
      <3> QED  BY <1>2, <3>1, TypedIs
    <2> HIDE DEF addressed
    <2>2. (addressed > 0) \in BOOLEAN
      BY <1>5
    <2> QED  BY <2>1, <2>2
  <1>7. /\ WorkFits(w) /\ WorkFits(spent) /\ spent.at = "review"
        /\ SameQuestions(now, w) /\ SameQuestions(now, spent)
        /\ w.accepted = now.accepted /\ spent.accepted = now.accepted
        /\ w.evaluated = <<>> /\ spent.evaluated = <<>>
        /\ spent.remaining = now.remaining - 1 /\ spent.inherited = inherits
        /\ Candidate(spent) = x /\ Inserted(now).inherited = now.inherited
    <2> HIDE DEF inherits
    <2>1. WorkFits(w) /\ WorkFits(spent) /\ spent.at = "review"
      BY <1>1, <1>2, <1>6, SpentFits
    <2> HIDE DEF now
    <2>2. /\ SameQuestions(now, w) /\ SameQuestions(now, spent)
          /\ w.accepted = now.accepted /\ spent.accepted = now.accepted
          /\ w.evaluated = now.evaluated /\ spent.evaluated = now.evaluated
          /\ spent.remaining = now.remaining - 1 /\ spent.inherited = inherits
          /\ Candidate(spent) = Candidate(now) /\ Inserted(now).inherited = now.inherited
      BY ZenonT(30), <1>1, <1>2, InsertedSame
    <2>3. now.evaluated = <<>>
      BY <1>2 DEF Underway
    <2> HIDE DEF w, spent
    <2> QED  BY <2>1, <2>2, <2>3 DEF x
  <1>8. LearnedPriorities(q.segments) \in Seq(Priorities)
    BY <1>2, <1>3, AskedPriorities
  \* The skipped prefix
  <1>9. ASSUME ~spent.inherited
        PROVE  \A i \in 1 .. addressed : TokenTolerated(model, q.prompt, q.text, i)
    <2>1. CASE now.remaining = InferenceLimit
      <3> HIDE DEF addressed
      <3>1. ~ addressed > 0
        <4>1. inherits = (addressed > 0)
          BY <2>1 DEF inherits
        <4> HIDE DEF spent, inherits
        <4> QED  BY <1>7, <1>9, <4>1
      <3> QED  BY <1>5, <3>1
    <2>2. CASE now.remaining # InferenceLimit
      <3> DEFINE t == q.constraint.text
      <3>1. Required(model, previous, now)
        <4>1. ~now.inherited
          <5>1. inherits = Inserted(now).inherited
            BY <2>2 DEF inherits
          <5> HIDE DEF spent, inherits
          <5> QED  BY <1>7, <1>9, <5>1
        <4> HIDE DEF now, previous
        <4> QED  BY <1>2, <2>2, <4>1 DEF Underway, Required
      <3>2. CASE reuses
        <4>1. q.prompt = previous
          BY <3>2 DEF ReusesAddressedPrefix
        <4>2. TextTolerated(model, q.prompt, t)
          BY <1>3, <3>1, <4>1 DEF Required
        <4>3. q.original \in Text /\ t \in Text /\ q.text \in Text
              /\ Len(q.original) <= Len(q.text)
          BY <1>4 DEF QuestionFits, Constraints
        <4>4. addressed = CommonPrefixCount(q.original, t)
          BY <3>2 DEF Addressed
        <4> HIDE DEF addressed, t, reuses
        <4>5. /\ addressed \in 0 .. Lesser(Len(q.original), Len(t))
              /\ \A i \in 1 .. addressed : q.original[i] = t[i]
          BY <4>3, <4>4, CommonPrefixCounts DEF Text
        <4>6. Len(q.original) \in Nat /\ Len(t) \in Nat /\ Len(q.text) \in Nat
          BY <4>3, LenProperties DEF Text
        <4>7. addressed \in Nat /\ addressed <= Len(q.original) /\ addressed <= Len(t)
              /\ addressed <= Len(q.text)
          BY <4>3, <4>5, <4>6 DEF Lesser
        <4>8. \A i \in 1 .. Len(q.original) : q.text[i] = q.original[i]
          BY <1>2, <1>3, OriginalHeads DEF q
        <4>9. \A i \in 1 .. addressed : q.text[i] = t[i]
          BY <4>5, <4>6, <4>7, <4>8
        <4> QED
          <5> TAKE i \in 1 .. addressed
          <5>1. i \in 1 .. Len(t)
            BY <4>6, <4>7
          <5>2. TokenTolerated(model, q.prompt, t, i)
            BY <4>2, <5>1 DEF TextTolerated
          <5> HIDE DEF q
          <5> QED  BY <4>3, <4>7, <4>9, <5>2, ToleratedPrefix
      <3>3. CASE ~reuses
        BY <3>3 DEF Addressed
      <3> QED  BY <3>2, <3>3
    <2> QED  BY <2>1, <2>2
  <1>10. /\ VerdictFits(v)
         /\ ~spent.inherited =>
                /\ v.kind = "pass" => TextTolerated(model, q.prompt, q.text)
                /\ v.kind # "pass" => TextTolerated(model, q.prompt, v.text)
    <2>1. VerdictFits(v)
      BY <1>4, <1>5, JudgeFacts
    <2> HIDE DEF q, addressed, spent
    <2> QED  BY <1>4, <1>5, <1>8, <1>9, <2>1, VerdictTolerates
  <1>11. Question(spent, x) = q /\ Fixed(spent, x) = Fixed(now, x)
    BY <1>7, QuestionIs
  <1>12. Readable(w) /\ Readable(spent)
    BY ZenonT(30), <1>2, <1>7, ReadableSame DEF SameQuestions
  <1>13. spent.remaining <= InferenceLimit
    <2>1. now.remaining <= InferenceLimit /\ InferenceLimit \in Nat
      BY <1>2, LimitsAssumption DEF Underway
    <2> QED  BY <1>2, <1>7, <2>1
  <1> HIDE DEF v, w, spent, q, now
  <1>14. CASE Judged(c, spent, PrependFixed(Fixed(now, x), v))
    <2>1. Judged(c, spent, PrependFixed(Fixed(spent, Candidate(spent)), v))
      BY <1>7, <1>11, <1>14
    <2>2. Question(spent, Candidate(spent)) = q
      BY <1>7, <1>11
    <2>3. \E to : /\ work' = [work EXCEPT ![c] = to]
                  /\ Readable(to) /\ Reviewed(model, q.prompt, to)
      BY <1>7, <1>10, <1>12, <1>13, <2>1, <2>2, JudgedReviewed
    <2> QED  BY <1>1, <2>3, ToleranceKept
  <1>15. CASE \E error : Aborted(c, w, error)
    <2>1. \E to : /\ work' = [work EXCEPT ![c] = to]
                  /\ Readable(to) /\ Reviewed(model, q.prompt, to)
      BY <1>7, <1>12, <1>15, AbortedReviewed
    <2> QED  BY <1>1, <2>1, ToleranceKept
  <1> QED  BY <1>1, <1>14, <1>15

LEMMA NextKeepsTolerance ==
    ASSUME Inv, Tolerance, [Next]_vars
    PROVE  Tolerance'
  <1>1. CASE Next
    <2>1. PICK c \in Connections : Request(c) \/ Step(c)
      BY <1>1 DEF Next
    <2>2. CASE Request(c)
      BY <2>2, RequestKeepsTolerance
    <2>3. CASE Draft(c)
      BY <2>3, DraftKeepsTolerance
    <2>4. CASE OutOfInferences(c)
      BY <2>4, UnreviewedKeepsTolerance DEF OutOfInferences
    <2>5. CASE Defer(c)
      BY <2>5, UnreviewedKeepsTolerance DEF Defer
    <2>6. CASE Evaluate(c)
      BY <2>6, EvaluateKeepsTolerance
    <2>7. CASE Generate(c)
      BY <2>7, GenerateKeepsTolerance
    <2> QED  BY <2>1, <2>2, <2>3, <2>4, <2>5, <2>6, <2>7 DEF Step
  <1>2. CASE UNCHANGED vars
    BY <1>2 DEF vars, zenzVars, Tolerance
  <1> QED  BY <1>1, <1>2

\* A candidate that a conversion reports as evaluated is one the model
\* chooses, or nearly chooses where a learned entry is preferred, from its
\* first token to its last, though most evaluations skip the prefix their
\* constraint requires (matched_prefix_len in evaluate_candidate) and
\* verdicts may come from the cache; the exception is a conversion whose
\* first evaluation skipped a prefix inherited from an earlier request.
THEOREM PassedAreTolerated == Spec => []PassedIsTolerated
  <1>1. Init => Inv /\ Tolerance
    BY InitFits, ToleranceStarts
  <1>2. Inv /\ Tolerance /\ [Next]_vars => Inv' /\ Tolerance'
    BY NextKeepsInv, NextKeepsTolerance
  <1>3. Inv /\ Tolerance => PassedIsTolerated
    <2> SUFFICES ASSUME Inv, Tolerance, NEW c \in Connections,
                        work[c].evaluated # <<>>, ~work[c].inherited
                 PROVE  Tolerated(Question(work[c], work[c].evaluated[1]))
      BY DEF PassedIsTolerated
    <2> DEFINE w == work[c]
               x == w.evaluated[1]
    <2>1. WorkFits(w) /\ Passed(model, w)
      BY ReviewedIs
    <2>2. Typed(w) /\ w.evaluated \in Optional(Paths)
      BY <2>1, TypedIs
    <2>3. x \in Paths
      BY <2>2 DEF Optional
    <2>4. QuestionFits(Question(w, x))
      BY <2>2, <2>3, QuestionFacts DEF Typed
    <2>5. TextTolerated(model, Question(w, x).prompt, Question(w, x).text)
      BY <2>1 DEF Passed
    <2> QED  BY <2>4, <2>5, ToleratedIs
  <1> QED  BY <1>1, <1>2, <1>3, PTL DEF Spec

=============================================================================
